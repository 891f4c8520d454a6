------------------------------- MODULE Server -------------------------------
(***************************************************************************)
(* One replica: cmd/api/main.go with the router of internal/server, the    *)
(* middlewares around every handler, and the connections of internal/db.   *)
(*                                                                         *)
(* A request passes the front middlewares (request id, CORS, RecoverJSON,  *)
(* the limiter), then Audit around RequireRole and the route's handler.    *)
(* What they write is in other modules; here they are a number of          *)
(* statements, each on one connection of the pool, with a deadline or on   *)
(* r.Context() as it is.  net/http ends the answer when Audit has returned.*)
(***************************************************************************)
EXTENDS Integers, FiniteSets

CONSTANTS
    Request,   \* requests that the server may have at a time
    MaxOpen,   \* connections of the pool
    MaxUses,   \* bound: the statements of a request, but for Audit's
    Grace      \* the time Shutdown may take, in ticks

ASSUME PoolAssumption == MaxOpen \in Nat /\ MaxOpen > 1
ASSUME BoundAssumption == MaxUses \in Nat /\ Grace \in Nat /\ Grace > 0

VARIABLES
    phase,     \* of the process
    grace,     \* ticks since the signal
    hangs,     \* whether the database has stopped to answer
    pc, left,  \* where each request is, and the statements it still has to run
    holding,   \* requests that have a connection
    gone,      \* requests whose client has closed: r.Context() is done
    status,    \* what Audit's and net/http's ResponseWriter were told
    logged,    \* the status in the row of audit_logs, if any
    told       \* the answer that the client got, if any

mainVars == << phase, grace >>
outVars == << status, logged, told >>
vars == << mainVars, hangs, pc, left, holding, gone, outVars >>

Phase == {"down", "listening", "draining", "closing", "closed"}
Stage == {"none", "front", "bare", "timed", "finish", "audit", "reply"}
Status == {"refused", "ok", "error", "panic"}
Active(r) == pc[r] # "none"

\* A request waits for a connection, or has it.
NeedsConnection(r) == pc[r] \in {"bare", "timed", "audit"}

TypeOK ==
    /\ phase \in Phase /\ grace \in 0 .. Grace /\ hangs \in BOOLEAN
    /\ pc \in [Request -> Stage] /\ left \in [Request -> 0 .. MaxUses]
    /\ holding \subseteq {r \in Request : NeedsConnection(r)}
    /\ Cardinality(holding) < MaxOpen
    /\ gone \subseteq Request
    /\ status \in [Request -> Status] /\ told \in [Request -> Status \cup {"nothing"}]
    /\ logged \in [Request -> Status \cup {"nothing", "failed"}]

Init ==
    /\ phase = "down" /\ grace = 0 /\ hangs = FALSE
    /\ pc = [r \in Request |-> "none"] /\ left = [r \in Request |-> 0]
    /\ holding = {} /\ gone = {}
    /\ status = [r \in Request |-> "ok"]
    /\ logged = [r \in Request |-> "nothing"] /\ told = [r \in Request |-> "nothing"]

Goto(r, stage) == pc' = [pc EXCEPT ![r] = stage]

-----------------------------------------------------------------------------
(* main. *)

\* OpenAndMigrate, then ListenAndServe.
Start ==
    /\ phase = "down"
    /\ phase' = "listening" /\ grace' = 0
    /\ UNCHANGED << hangs, pc, left, holding, gone, outVars >>

\* SIGTERM: Shutdown closes the listener.
Signal ==
    /\ phase = "listening"
    /\ phase' = "draining"
    /\ UNCHANGED << grace, hangs, pc, left, holding, gone, outVars >>

Tick ==
    /\ phase = "draining" /\ grace < Grace
    /\ grace' = grace + 1
    /\ UNCHANGED << phase, hangs, pc, left, holding, gone, outVars >>

\* Mutant of Drained: Shutdown gets a context that is done already.
DrainedAtOnce == TRUE

\* Mutant of Drained: Shutdown gets a context without deadline.
DrainedOnly == \A r \in Request : ~ Active(r)

\* Shutdown returns when no request is left, or when its context is done.
Drained == grace = Grace \/ \A r \in Request : ~ Active(r)

ShutdownReturns ==
    /\ phase = "draining" /\ Drained
    /\ phase' = "closing"
    /\ UNCHANGED << grace, hangs, pc, left, holding, gone, outVars >>

\* The deferred pool.Close: no statement starts any more, and it waits for none.
ClosePool ==
    /\ phase = "closing"
    /\ phase' = "closed"
    /\ UNCHANGED << grace, hangs, pc, left, holding, gone, outVars >>

\* The process ends, and with it every request that it still has: because main
\* returns, or by log.Fatalf, the kernel or the operator at any time.
End ==
    /\ phase' = "down"
    /\ pc' = [r \in Request |-> "none"] /\ left' = [r \in Request |-> 0]
    /\ holding' = {} /\ gone' = {}
    /\ UNCHANGED << grace, hangs, outVars >>

Exit == phase = "closed" /\ End
Crash == phase # "down" /\ End

-----------------------------------------------------------------------------
(* The connections. *)

\* The driver of the migrations keeps one connection, which OpenAndMigrate's
\* closer, an empty function, does not give back.
Capacity == MaxOpen - 1

\* The waiting requests are served in no particular order.
Take(r) ==
    /\ NeedsConnection(r) /\ r \notin holding /\ r \notin gone
    /\ phase # "closed" /\ Cardinality(holding) < Capacity
    /\ holding' = holding \cup {r}
    /\ UNCHANGED << mainVars, hangs, pc, left, gone, outVars >>

\* Mutant of Released: rows are not closed.
Leaked(r) == holding

Released(r) == holding \ {r}

-----------------------------------------------------------------------------
(* The request. *)

\* Until Shutdown returns: a connection that was there at the signal may still
\* bring a request, though the listener is closed.
Accept(r) ==
    /\ phase \in {"listening", "draining"} /\ ~ Active(r)
    /\ Goto(r, "front")
    /\ gone' = gone \ {r}
    /\ logged' = [logged EXCEPT ![r] = "nothing"] /\ told' = [told EXCEPT ![r] = "nothing"]
    /\ UNCHANGED << mainVars, hangs, left, holding, status >>

\* CORS answers OPTIONS, the limiter answers 429, both outside of Audit.
Refuse(r) ==
    /\ pc[r] = "front"
    /\ status' = [status EXCEPT ![r] = "refused"]
    /\ Goto(r, "reply")
    /\ UNCHANGED << mainVars, hangs, left, holding, gone, logged, told >>

\* The request has n statements left.  The next one has a deadline, if its
\* handler has called context.WithTimeout: RequireRole's SELECT, the Ping of
\* /readyz, Claim, Complete and the Revoke of a logout have none.
Proceed(r, n) ==
    /\ left' = [left EXCEPT ![r] = n]
    /\ \E stage \in IF n = 0 THEN {"finish"} ELSE {"bare", "timed"} : Goto(r, stage)
    /\ UNCHANGED status

\* The handler, or a middleware of its route, has answered.
Answered(r, s) ==
    /\ left' = [left EXCEPT ![r] = 0]
    /\ Goto(r, "audit")
    /\ status' = [status EXCEPT ![r] = s]

\* Through the front, to a route with any number of statements.
Enter(r) ==
    /\ pc[r] = "front"
    /\ \E n \in 0 .. MaxUses : Proceed(r, n)
    /\ UNCHANGED << mainVars, hangs, holding, gone, logged, told >>

\* A statement ends.  If it failed, the request is answered 403, 5xx or the
\* like, or the error is dropped.
Work(r) ==
    /\ pc[r] \in {"bare", "timed"} /\ r \in holding
    /\ Proceed(r, left[r] - 1) \/ Answered(r, "error")
    /\ holding' = Released(r)
    /\ UNCHANGED << mainVars, hangs, gone, logged, told >>

\* The handler needs no more statement.
Finish(r) ==
    /\ pc[r] = "finish"
    /\ Answered(r, "ok") \/ Answered(r, "error")
    /\ UNCHANGED << mainVars, hangs, holding, gone, logged, told >>

\* Mutant of Deadline: the handlers use r.Context() as it is.
NoDeadline(r) == FALSE /\ UNCHANGED vars

\* context.WithTimeout: also while the request waits for a connection.
Deadline(r) ==
    /\ pc[r] = "timed"
    /\ Answered(r, "error")
    /\ holding' = Released(r)
    /\ UNCHANGED << mainVars, hangs, gone, logged, told >>

\* RecoverJSON catches it, outside of metrics, Logger and Audit.
Panic(r) ==
    /\ pc[r] \in {"bare", "timed", "finish"}
    /\ status' = [status EXCEPT ![r] = "panic"]
    /\ left' = [left EXCEPT ![r] = 0]
    /\ holding' = Released(r)
    /\ Goto(r, "reply")
    /\ UNCHANGED << mainVars, hangs, gone, logged, told >>

\* A statement fails before it has a connection, or in the middle: the client
\* has gone, which ends r.Context(), or the pool is closed.
Abort(r) ==
    /\ NeedsConnection(r)
    /\ r \in gone \/ (phase = "closed" /\ r \notin holding)
    /\ IF pc[r] = "audit"
       THEN /\ logged' = [logged EXCEPT ![r] = "failed"]
            /\ Goto(r, "reply")
            /\ UNCHANGED << left, status >>
       ELSE /\ Proceed(r, left[r] - 1) \/ Answered(r, "error")
            /\ UNCHANGED logged
    /\ holding' = Released(r)
    /\ UNCHANGED << mainVars, hangs, gone, told >>

\* Mutant of Recorded: sw does not override WriteHeader.
RecordedDefault(r) == "ok"

\* wr.status
Recorded(r) == status[r]

\* Audit's INSERT, whose error is dropped (a request id may be too long).
Insert(r) ==
    /\ pc[r] = "audit" /\ r \in holding
    /\ \E l \in {Recorded(r), "failed"} : logged' = [logged EXCEPT ![r] = l]
    /\ holding' = Released(r)
    /\ Goto(r, "reply")
    /\ UNCHANGED << mainVars, hangs, left, gone, status, told >>

\* The answer is complete when Audit has returned; it may get lost.
Reply(r) ==
    /\ pc[r] = "reply"
    /\ \/ r \notin gone /\ told' = [told EXCEPT ![r] = status[r]]
       \/ UNCHANGED told
    /\ Goto(r, "none")
    /\ UNCHANGED << mainVars, hangs, left, holding, gone, status, logged >>

Disconnect(r) ==
    /\ Active(r)
    /\ gone' = gone \cup {r}
    /\ UNCHANGED << mainVars, hangs, pc, left, holding, outVars >>

\* The database stops to answer.
Hang ==
    /\ ~ hangs
    /\ hangs' = TRUE
    /\ UNCHANGED << mainVars, pc, left, holding, gone, outVars >>

-----------------------------------------------------------------------------
Statement(r) == Work(r) \/ Insert(r)
Main == Tick \/ ShutdownReturns \/ ClosePool \/ Exit

Next ==
    \/ Start \/ Signal \/ Main \/ Crash \/ Hang
    \/ \E r \in Request :
          \/ Accept(r) \/ Refuse(r) \/ Enter(r) \/ Take(r) \/ Statement(r)
          \/ Finish(r) \/ Deadline(r) \/ Panic(r) \/ Abort(r) \/ Reply(r)
          \/ Disconnect(r)

Spec == Init /\ [][Next]_vars

\* Goroutines and timers run; a statement ends unless the database hangs, and
\* a connection that is free again and again is given to who waits.
Fairness ==
    /\ WF_vars(Main)
    /\ \A r \in Request :
          /\ WF_vars(Refuse(r) \/ Enter(r)) /\ WF_vars(Finish(r)) /\ WF_vars(Reply(r))
          /\ WF_vars(Deadline(r)) /\ WF_vars(Abort(r))
          /\ WF_vars(~ hangs /\ Statement(r)) /\ SF_vars(Take(r))

FairSpec == Spec /\ Fairness

-----------------------------------------------------------------------------
\* A client that was answered by a handler finds its request in audit_logs,
\* with the status it was told, unless that INSERT itself failed: the row is
\* written first, also when the process is shut down or dies in between.
AnsweredIsLogged ==
    \A r \in Request : told[r] \in {"ok", "error"} => logged[r] \in {told[r], "failed"}

\* While the deferred calls of main run, no request is left, unless Shutdown
\* gave up after its ten seconds: the pool is not closed under it.
NoneCutEarly ==
    phase \in {"closing", "closed"} /\ grace < Grace => \A r \in Request : ~ Active(r)

\* After SIGTERM the process ends, also when the database hangs and requests
\* wait for it that have no deadline of their own.
ShutdownEnds == phase = "draining" ~> phase = "down"

\* A deadline gets a request out of a hanging database, and out of the queue
\* for a connection that others keep: it can stay only where it is on
\* r.Context() alone, that is in a statement without deadline or in Audit.
DeadlinesHold ==
    \A r \in Request : pc[r] \notin {"none", "bare", "audit"} ~> pc[r] \in {"none", "bare", "audit"}

\* While the database answers, every request ends, though more requests than
\* connections are under way: none keeps one and waits for another.
EveryRequestEnds == \A r \in Request : Active(r) ~> (~ Active(r) \/ hangs)
=============================================================================
