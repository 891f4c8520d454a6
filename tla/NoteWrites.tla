----------------------------- MODULE NoteWrites -----------------------------
(***************************************************************************)
(* PUT and DELETE /notes/{id} of internal/handlers/notes.go, with the      *)
(* idempotency keys of internal/repos/idempotency_generic.go and the rows  *)
(* of internal/repos/notes.go, run by concurrent requests and their        *)
(* retries.                                                                *)
(*                                                                         *)
(* Each SQL statement is a step, and a request may fail or its server      *)
(* crash between any two.  A Claim that inserts its row has no other       *)
(* statement before COMMIT, so that the two are one step.  A Claim that    *)
(* finds the row keeps a shared lock on it (InnoDB, duplicate key) until   *)
(* it has read it FOR UPDATE and rolled back.  migrations/0010 finds the   *)
(* table of 0007 in place and does nothing, so the primary key is the key  *)
(* alone.                                                                  *)
(***************************************************************************)
EXTENDS Naturals, FiniteSets

CONSTANTS
    User, Note, Text, Key, Request,
    Owner,     \* the user_id of each note
    Order,     \* what clients may ask: user, key, method, note and text
    NoKey,     \* no Idempotency-Key header
    NoText,    \* the text of a DELETE, whose body_sha256 is always "delete"
    NoClaim, NoResult, NoOrder

Result == [note : Note, text : Text]

ASSUME OwnerAssumption == Owner \in [Note -> User]
ASSUME OrderAssumption ==
    \A o \in Order :
        /\ DOMAIN o = {"user", "key", "method", "note", "text"}
        /\ o.user \in User /\ o.key \in Key \cup {NoKey} /\ o.note \in Note
        /\ \/ o.method = "PUT" /\ o.text \in Text
           \/ o.method = "DELETE" /\ o.text = NoText
ASSUME NullAssumption ==
    /\ NoKey \notin Key /\ NoText \notin Text /\ NoOrder \notin Order
    /\ NoClaim \notin [order : Order, result : Result \cup {NoResult}]
    /\ NoResult \notin Result

VARIABLES
    text,      \* title and body of each note
    deleted,   \* notes whose deleted_at is set
    claims,    \* idempotency_keys, by key: who asked what, and the result
    pc, order, \* how far each request has come, and what it asks
    got,       \* the note it has read
    answer,    \* how each request was answered, until it is used again
    told,      \* every 200 and 404 that clients were given under a key
    lost,      \* keys of a Claim whose COMMIT failed unnoticed
    wrote,     \* keys under which a note has been written
    rewrote    \* keys under which one was written again

rowVars == << text, deleted >>
reqVars == << pc, order, got >>
history == << lost, wrote, rewrote >>
vars == << rowVars, claims, reqVars, answer, told, history >>

Phase == {"idle", "claim", "dup", "run", "wrote", "fetched", "answer"}
Status == {"none", "ok", "notfound", "mismatch", "busy", "error"}

TypeOK ==
    /\ text \in [Note -> Text] /\ deleted \subseteq Note
    /\ claims \in [Key -> [order : Order, result : Result \cup {NoResult}] \cup {NoClaim}]
    /\ pc \in [Request -> Phase]
    /\ order \in [Request -> Order \cup {NoOrder}]
    /\ got \in [Request -> Result \cup {NoResult}]
    /\ answer \in [Request -> Status]
    /\ told \subseteq [order : Order, status : {"ok", "notfound"}, result : Result \cup {NoResult}]
    /\ lost \subseteq Key /\ wrote \subseteq Key /\ rewrote \subseteq wrote

Init ==
    /\ text \in [Note -> Text] /\ deleted = {}
    /\ claims = [k \in Key |-> NoClaim]
    /\ pc = [r \in Request |-> "idle"]
    /\ order = [r \in Request |-> NoOrder]
    /\ got = [r \in Request |-> NoResult]
    /\ answer = [r \in Request |-> "none"]
    /\ told = {} /\ lost = {} /\ wrote = {} /\ rewrote = {}

-----------------------------------------------------------------------------
KeyOf(r) == order[r].key
Keyed(r) == KeyOf(r) # NoKey
Goto(r, phase) == pc' = [pc EXCEPT ![r] = phase]

\* Mutant of Matches: a WHERE clause without deleted_at IS NULL.
MatchesDeleted(r) == Owner[order[r].note] = order[r].user

\* WHERE id=? AND user_id=? AND deleted_at IS NULL
Matches(r) == Owner[order[r].note] = order[r].user /\ order[r].note \notin deleted

\* No Claim but r's own holds a lock on the row of r's key.
Alone(r) == \A q \in Request \ {r} : pc[q] = "dup" => KeyOf(q) # KeyOf(r)

\* The request ends with an answer; a client may never see it.
Answer(r, status, result) ==
    /\ Goto(r, "idle")
    /\ order' = [order EXCEPT ![r] = NoOrder]
    /\ got' = [got EXCEPT ![r] = NoResult]
    /\ answer' = [answer EXCEPT ![r] = status]
    /\ \/ told' = told
       \/ /\ status \in {"ok", "notfound"} /\ Keyed(r)
          /\ told' = told \cup {[order |-> order[r], status |-> status, result |-> result]}

\* A client's first attempt or any retry of it.
Begin(r, o) ==
    /\ pc[r] = "idle"
    /\ Goto(r, IF o.key = NoKey THEN "run" ELSE "claim")
    /\ order' = [order EXCEPT ![r] = o]
    /\ answer' = [answer EXCEPT ![r] = "none"]
    /\ UNCHANGED << rowVars, claims, got, told, history >>

-----------------------------------------------------------------------------
(* Idem.Claim.                                                             *)

\* Mutant of Claim: an INSERT that replaces the row that is there.
ClaimAgain(r) ==
    /\ pc[r] = "claim"
    /\ claims' = [claims EXCEPT ![KeyOf(r)] = [order |-> order[r], result |-> NoResult]]
    /\ Goto(r, "run")
    /\ UNCHANGED << rowVars, order, got, answer, told, history >>

\* INSERT and COMMIT.  The error of the COMMIT is dropped: the request goes
\* on although the row is not there.
Claim(r) ==
    /\ pc[r] = "claim"
    /\ claims[KeyOf(r)] = NoClaim
    /\ \/ /\ claims' = [claims EXCEPT ![KeyOf(r)] =
                           [order |-> order[r], result |-> NoResult]]
          /\ lost' = lost
       \/ /\ claims' = claims
          /\ lost' = lost \cup {KeyOf(r)}
    /\ Goto(r, "run")
    /\ UNCHANGED << rowVars, order, got, answer, told, wrote, rewrote >>

\* INSERT fails: the key is there, of whatever user.
Collide(r) ==
    /\ pc[r] = "claim"
    /\ claims[KeyOf(r)] # NoClaim
    /\ Goto(r, "dup")
    /\ UNCHANGED << rowVars, claims, order, got, answer, told, history >>

\* Mutant of ReadClaim: the body is not compared.
ReadClaimAnyBody(r) ==
    LET row == claims[KeyOf(r)] IN
    /\ pc[r] = "dup"
    /\ Alone(r)
    /\ IF row.order.user # order[r].user
       THEN Answer(r, "error", NoResult)
       ELSE IF row.result = NoResult THEN Answer(r, "busy", NoResult)
                                     ELSE Answer(r, "ok", row.result)
    /\ UNCHANGED << rowVars, claims, history >>

\* SELECT ... FOR UPDATE of the row with this key and this user.  Neither
\* method nor path is compared.
ReadClaim(r) ==
    LET row == claims[KeyOf(r)] IN
    /\ pc[r] = "dup"
    /\ Alone(r)
    /\ CASE row.order.user # order[r].user -> Answer(r, "error", NoResult)
         [] row.order.user = order[r].user /\ row.order.text # order[r].text
              -> Answer(r, "mismatch", NoResult)
         [] row.order.user = order[r].user /\ row.order.text = order[r].text
              -> IF row.result = NoResult THEN Answer(r, "busy", NoResult)
                                          ELSE Answer(r, "ok", row.result)
    /\ UNCHANGED << rowVars, claims, history >>

\* Mutant of ClaimDeadlock: nothing breaks the deadlock.
ClaimStuck(r) == FALSE /\ UNCHANGED vars

\* Two Claims hold the row's shared lock and both ask for the exclusive one.
ClaimDeadlock(r) ==
    /\ pc[r] = "dup"
    /\ ~ Alone(r)
    /\ Answer(r, "error", NoResult)
    /\ UNCHANGED << rowVars, claims, history >>

-----------------------------------------------------------------------------
(* repos.Notes.Update and Delete.                                          *)

\* Which keys a write under r's key has now been run for, and again.
CountWrite(r) ==
    /\ wrote' = wrote \cup ({KeyOf(r)} \ {NoKey})
    /\ rewrote' = rewrote \cup ({KeyOf(r)} \cap wrote)

\* UPDATE title, body: no error when it matches no row.
Update(r) ==
    /\ pc[r] = "run" /\ order[r].method = "PUT"
    /\ text' = IF Matches(r) THEN [text EXCEPT ![order[r].note] = order[r].text] ELSE text
    /\ CountWrite(r)
    /\ Goto(r, "wrote")
    /\ UNCHANGED << deleted, claims, order, got, answer, told, lost >>

\* Mutant of Get: the answer is made of the request, not of the row.
GetEcho(r) ==
    /\ pc[r] = "wrote" \/ (pc[r] = "run" /\ order[r].method = "DELETE")
    /\ Matches(r)
    /\ got' = [got EXCEPT ![r] = [note |-> order[r].note, text |-> order[r].text]]
    /\ Goto(r, IF pc[r] = "wrote" THEN "answer" ELSE "fetched")
    /\ UNCHANGED << rowVars, claims, order, answer, told, history >>

\* The SELECT after the UPDATE of a PUT, and before the one of a DELETE.
Get(r) ==
    /\ pc[r] = "wrote" \/ (pc[r] = "run" /\ order[r].method = "DELETE")
    /\ Matches(r)
    /\ got' = [got EXCEPT ![r] = [note |-> order[r].note, text |-> text[order[r].note]]]
    /\ Goto(r, IF pc[r] = "wrote" THEN "answer" ELSE "fetched")
    /\ UNCHANGED << rowVars, claims, order, answer, told, history >>

\* It finds no row: 404, and the claim stays as it is.
GetNone(r) ==
    /\ pc[r] = "wrote" \/ (pc[r] = "run" /\ order[r].method = "DELETE")
    /\ ~ Matches(r)
    /\ Answer(r, "notfound", NoResult)
    /\ UNCHANGED << rowVars, claims, history >>

\* UPDATE deleted_at.
Delete(r) ==
    /\ pc[r] = "fetched"
    /\ deleted' = IF Matches(r) THEN deleted \cup {order[r].note} ELSE deleted
    /\ CountWrite(r)
    /\ Goto(r, "answer")
    /\ UNCHANGED << text, claims, order, got, answer, told, lost >>

\* Mutant of Completed: an UPDATE without user_id=?.
CompletedForAnyUser(r) ==
    IF Keyed(r) /\ claims[KeyOf(r)] # NoClaim /\ claims[KeyOf(r)].result = NoResult
    THEN [claims EXCEPT ![KeyOf(r)].result = got[r]]
    ELSE claims

\* Mutant of Completed: an UPDATE without completed_at IS NULL.
CompletedAgain(r) ==
    IF Keyed(r) /\ claims[KeyOf(r)] # NoClaim
         /\ claims[KeyOf(r)].order.user = order[r].user
    THEN [claims EXCEPT ![KeyOf(r)].result = got[r]]
    ELSE claims

\* Idem.Complete's UPDATE, for a row of this user that has no result yet.
Completed(r) ==
    IF Keyed(r) /\ claims[KeyOf(r)] # NoClaim
         /\ claims[KeyOf(r)].order.user = order[r].user
         /\ claims[KeyOf(r)].result = NoResult
    THEN [claims EXCEPT ![KeyOf(r)].result = got[r]]
    ELSE claims

\* Complete, whose error is dropped, and then the 200.
Complete(r) ==
    /\ pc[r] = "answer"
    /\ \/ Alone(r) /\ claims' = Completed(r)
       \/ Keyed(r) /\ claims' = claims
    /\ Answer(r, "ok", got[r])
    /\ UNCHANGED << rowVars, history >>

\* A statement fails, the deadline passes, or the server crashes.  What was
\* committed stays; the client sees nothing, a 500, or the 404 the handlers
\* make of any error of Update and Delete, which "error" stands for too.
Fail(r) ==
    /\ pc[r] # "idle"
    /\ Answer(r, "error", NoResult)
    /\ UNCHANGED << rowVars, claims, history >>

-----------------------------------------------------------------------------
Statement(r) ==
    \/ Claim(r) \/ Collide(r) \/ ReadClaim(r) \/ ClaimDeadlock(r)
    \/ Update(r) \/ Get(r) \/ GetNone(r) \/ Delete(r) \/ Complete(r)

Next == \E r \in Request : (\E o \in Order : Begin(r, o)) \/ Statement(r) \/ Fail(r)

Spec == Init /\ [][Next]_vars
FairSpec == Spec /\ \A r \in Request : SF_vars(Statement(r))

-----------------------------------------------------------------------------
\* However often a request is retried, under its key a note is written once:
\* a later change of the note is not overwritten by a retry.  The exception
\* is a key whose Claim never reached the table (the dropped COMMIT error).
WrittenOnce == rewrote \subseteq lost

\* Every 200 given under a key of a user carries the same note: the replay
\* is the answer of the one request that ran.
SameAnswer ==
    \A a, b \in told :
        /\ a.status = "ok" /\ b.status = "ok"
        /\ a.order.key = b.order.key /\ a.order.user = b.order.user
        /\ a.order.key \notin lost \cup {NoKey}
        => a.result = b.result

\* No answer shows a user the note of another, even under a key that both
\* of them use.
OwnNotesOnly ==
    \A a \in told : a.status = "ok" => Owner[a.result.note] = a.order.user

\* A result, once stored, is the answer for good: late completions, of a
\* request whose claim was lost or of another user, do not replace it.
ResultIsFinal ==
    [][\A k \in Key :
          claims[k] # NoClaim => /\ claims'[k] # NoClaim
                                 /\ claims'[k].order = claims[k].order
                                 /\ claims[k].result # NoResult
                                       => claims'[k] = claims[k] ]_vars

\* A deleted note stays deleted and keeps its last text, although UPDATE and
\* SELECT of a PUT are not one transaction.
DeletedIsFrozen ==
    [][\A n \in deleted : n \in deleted' /\ text'[n] = text[n]]_vars

\* The statements implement the promise of KeyedWrites: whoever is answered
\* under a key asked what its owner asked, and gets the owner's note, once that
\* has been written, and written once.
Promise == INSTANCE KeyedWrites WITH
    owner  <- [k \in Key |-> IF claims[k] = NoClaim THEN NoOrder ELSE claims[k].order],
    writes <- [k \in Key |-> IF k \in rewrote THEN 2 ELSE IF k \in wrote THEN 1 ELSE 0],
    given  <- {[order |-> a.order, result |-> a.result] : a \in {t \in told : t.status = "ok"}},
    loose  <- lost

KeepsPromise == Promise!KeySpec

\* Claims that collide on a key do not block each other, or a Complete,
\* for ever.
EveryRequestEnds == \A r \in Request : pc[r] # "idle" ~> pc[r] = "idle"

-----------------------------------------------------------------------------
\* internal/openapi/openapi.yaml:148: a PUT of a note that does not exist is
\* answered 404, not with a request to come back in two seconds: once a client
\* has had the 404, it is not told to retry.
NotFoundIsFinal ==
    [][\A r \in Request :
          (pc[r] = "dup" /\ answer'[r] = "busy" /\ order[r].note \in deleted)
              => \A a \in told : a.order = order[r] => a.status # "notfound" ]_vars
=============================================================================
