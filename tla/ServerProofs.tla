---------------------------- MODULE ServerProofs ----------------------------
(***************************************************************************)
(* The safety properties of Server, for any number of requests and          *)
(* connections, any handlers and any time that Shutdown may take.           *)
(***************************************************************************)
EXTENDS Server, FiniteSetTheorems, TLAPS

\* The connections that are given out, of the pool's.
Pool == IsFiniteSet(holding) /\ Cardinality(holding) < MaxOpen

\* An answer is complete only when its request is over.
OverOnceTold == \A r \in Request : told[r] # "nothing" => ~ Active(r)

\* A handler's request that net/http answers has been through Audit.
AuditedFirst ==
    \A r \in Request :
        pc[r] = "reply" /\ status[r] \in {"ok", "error"} => logged[r] \in {status[r], "failed"}

\* A request at a statement has one left.
Remaining == \A r \in Request : pc[r] \in {"bare", "timed"} => left[r] > 0

IInv == TypeOK /\ Remaining /\ Pool /\ NoneCutEarly /\ OverOnceTold /\ AuditedFirst /\ AnsweredIsLogged

-----------------------------------------------------------------------------
LEMMA InitInv == Init => IInv
<1> SUFFICES ASSUME Init PROVE IInv
    OBVIOUS
<1>1. IsFiniteSet({}) /\ Cardinality({}) = 0
    BY FS_EmptySet
<1>2. 0 < MaxOpen
    BY PoolAssumption
<1>3. Cardinality(holding) < MaxOpen
    BY <1>1, <1>2 DEF Init
<1>4. TypeOK
    <2>1. 0 \in 0 .. Grace /\ 0 \in 0 .. MaxUses
        BY BoundAssumption
    <2>2. phase \in Phase /\ grace \in 0 .. Grace /\ hangs \in BOOLEAN
        BY <2>1 DEF Init, Phase
    <2>3. pc \in [Request -> Stage] /\ left \in [Request -> 0 .. MaxUses]
        BY <2>1 DEF Init, Stage
    <2>4. holding = {} /\ gone = {}
        BY DEF Init
    <2>5. /\ status \in [Request -> Status]
          /\ told \in [Request -> Status \cup {"nothing"}]
          /\ logged \in [Request -> Status \cup {"nothing", "failed"}]
        BY DEF Init, Status
    <2> QED
        BY <1>3, <2>2, <2>3, <2>4, <2>5 DEF TypeOK
<1>5. Remaining /\ Pool /\ NoneCutEarly /\ OverOnceTold /\ AuditedFirst /\ AnsweredIsLogged
    BY <1>1, <1>2
    DEF Init, Remaining, Pool, NoneCutEarly, OverOnceTold, AuditedFirst, AnsweredIsLogged, Active
<1> QED
    BY <1>4, <1>5 DEF IInv

\* What a step does to the connections: it gives one to a request that waits,
\* while one is free, or takes some back.
LEMMA Connections ==
    ASSUME Pool, [Next]_vars
    PROVE  \/ \E r \in Request : Take(r)
           \/ holding' \subseteq holding
<1>1. CASE \E r \in Request :
              \/ Accept(r) \/ Refuse(r) \/ Enter(r) \/ Statement(r)
              \/ Finish(r) \/ Deadline(r) \/ Panic(r) \/ Abort(r) \/ Reply(r) \/ Disconnect(r)
    BY <1>1 DEF Accept, Refuse, Enter, Statement, Work, Insert, Finish, Deadline, Panic,
                Abort, Reply, Disconnect, Released
<1>2. CASE Start \/ Signal \/ Main \/ Crash \/ Hang
    BY <1>2 DEF Start, Signal, Main, Tick, ShutdownReturns, ClosePool, Exit, Crash, End, Hang
<1>3. CASE UNCHANGED vars
    BY <1>3 DEF vars
<1> QED
    BY <1>1, <1>2, <1>3 DEF Next

LEMMA PoolStep ==
    ASSUME Pool, [Next]_vars
    PROVE  Pool'
<1> USE DEF Pool
<1>1. MaxOpen \in Nat /\ Cardinality(holding) \in Nat
    BY PoolAssumption, FS_CardinalityType
<1>2. CASE holding' \subseteq holding
    <2>1. IsFiniteSet(holding') /\ Cardinality(holding') <= Cardinality(holding)
        BY <1>2, FS_Subset
    <2>2. Cardinality(holding') \in Nat
        BY <2>1, FS_CardinalityType
    <2> QED
        BY <1>1, <2>1, <2>2
<1>3. ASSUME NEW r \in Request, Take(r)
      PROVE  Pool'
    <2>1. /\ r \notin holding /\ holding' = holding \cup {r}
          /\ Cardinality(holding) < MaxOpen - 1
        BY <1>3 DEF Take, Capacity
    <2>2. IsFiniteSet(holding') /\ Cardinality(holding') = Cardinality(holding) + 1
        BY <2>1, FS_AddElement
    <2> QED
        BY <1>1, <2>1, <2>2
<1> QED
    BY <1>2, <1>3, Connections

-----------------------------------------------------------------------------
\* The steps of main and of the database keep the invariant.
LEMMA MainStep ==
    ASSUME IInv, Pool', Start \/ Signal \/ Main \/ Crash \/ Hang \/ UNCHANGED vars
    PROVE  IInv'
<1> USE BoundAssumption
    DEF IInv, TypeOK, Remaining, Pool, NoneCutEarly, OverOnceTold, AuditedFirst, AnsweredIsLogged,
        Phase, Active, NeedsConnection, mainVars, outVars
<1>1. CASE Start
    BY <1>1 DEF Start
<1>2. CASE Signal
    BY <1>2 DEF Signal
<1>3. CASE Tick
    BY <1>3 DEF Tick
<1>4. CASE ShutdownReturns
    BY <1>4 DEF ShutdownReturns, Drained
<1>5. CASE ClosePool
    BY <1>5 DEF ClosePool
<1>6. CASE Exit \/ Crash
    BY <1>6 DEF Exit, Crash, End, Stage
<1>7. CASE Hang
    BY <1>7 DEF Hang
<1>8. CASE UNCHANGED vars
    BY <1>8 DEF vars
<1> QED
    BY <1>1, <1>2, <1>3, <1>4, <1>5, <1>6, <1>7, <1>8 DEF Main

\* So do the steps of a request.
LEMMA RequestTyping ==
    ASSUME TypeOK, Remaining, Pool', NEW r \in Request,
           \/ Accept(r) \/ Refuse(r) \/ Enter(r) \/ Take(r) \/ Statement(r)
           \/ Finish(r) \/ Deadline(r) \/ Panic(r) \/ Abort(r) \/ Reply(r) \/ Disconnect(r)
    PROVE  (TypeOK /\ Remaining)'
<1> USE BoundAssumption
    DEF TypeOK, Remaining, Pool, Stage, Status, Active, NeedsConnection, mainVars, outVars, Goto
<1>1. CASE Accept(r)
    BY <1>1 DEF Accept
<1>2. CASE Refuse(r)
    BY <1>2 DEF Refuse
<1>3. CASE Enter(r)
    BY <1>3 DEF Enter, Proceed
<1>4. CASE Take(r)
    BY <1>4 DEF Take
<1>5. CASE Work(r)
    <2>1. CASE Proceed(r, left[r] - 1)
        BY <1>5, <2>1 DEF Work, Proceed, Released
    <2>2. CASE Answered(r, "error")
        BY <1>5, <2>2 DEF Work, Answered, Released
    <2> QED
        BY <1>5, <2>1, <2>2 DEF Work
<1>6. CASE Insert(r)
    BY <1>6 DEF Insert, Recorded, Released
<1>7. CASE Finish(r)
    BY <1>7 DEF Finish, Answered
<1>8. CASE Deadline(r)
    BY <1>8 DEF Deadline, Answered, Released
<1>9. CASE Panic(r)
    BY <1>9 DEF Panic, Released
<1>10. CASE Abort(r)
    <2>1. CASE pc[r] = "audit"
        BY <1>10, <2>1 DEF Abort, Released
    <2>2. CASE pc[r] # "audit" /\ Proceed(r, left[r] - 1)
        BY <1>10, <2>2 DEF Abort, Proceed, Released
    <2>3. CASE pc[r] # "audit" /\ Answered(r, "error")
        BY <1>10, <2>3 DEF Abort, Answered, Released
    <2> QED
        BY <1>10, <2>1, <2>2, <2>3 DEF Abort
<1>11. CASE Reply(r)
    BY <1>11 DEF Reply
<1>12. CASE Disconnect(r)
    BY <1>12 DEF Disconnect
<1> QED
    BY <1>1, <1>2, <1>3, <1>4, <1>5, <1>6, <1>7, <1>8, <1>9, <1>10, <1>11, <1>12
    DEF Statement

LEMMA RequestAnswers ==
    ASSUME IInv, NEW r \in Request,
           \/ Accept(r) \/ Refuse(r) \/ Enter(r) \/ Take(r) \/ Statement(r)
           \/ Finish(r) \/ Deadline(r) \/ Panic(r) \/ Abort(r) \/ Reply(r) \/ Disconnect(r)
    PROVE  (NoneCutEarly /\ OverOnceTold /\ AuditedFirst /\ AnsweredIsLogged)'
<1> USE DEF IInv, TypeOK, NoneCutEarly, OverOnceTold, AuditedFirst, AnsweredIsLogged,
        Phase, Stage, Status, Active, mainVars, outVars, Goto
<1>1. CASE Accept(r)
    BY <1>1 DEF Accept
<1>2. CASE Refuse(r)
    BY <1>2 DEF Refuse
<1>3. CASE Enter(r)
    BY <1>3 DEF Enter, Proceed
<1>4. CASE Take(r)
    BY <1>4 DEF Take
<1>5. CASE Work(r)
    BY <1>5 DEF Work, Proceed, Answered
<1>6. CASE Insert(r)
    BY <1>6 DEF Insert, Recorded
<1>7. CASE Finish(r)
    BY <1>7 DEF Finish, Answered
<1>8. CASE Deadline(r)
    BY <1>8 DEF Deadline, Answered
<1>9. CASE Panic(r)
    BY <1>9 DEF Panic
<1>10. CASE Abort(r)
    <2>1. CASE pc[r] = "audit"
        BY <1>10, <2>1 DEF Abort
    <2>2. CASE pc[r] # "audit"
        <3>1. /\ Active(r) /\ logged' = logged /\ told' = told
              /\ phase' = phase /\ grace' = grace
            BY <1>10, <2>2 DEF Abort, NeedsConnection
        <3>2. CASE Proceed(r, left[r] - 1)
            BY <3>1, <3>2 DEF Proceed
        <3>3. CASE Answered(r, "error")
            BY <3>1, <3>3 DEF Answered
        <3> QED
            BY <1>10, <2>2, <3>2, <3>3 DEF Abort
    <2> QED
        BY <2>1, <2>2
<1>11. CASE Reply(r)
    BY <1>11 DEF Reply
<1>12. CASE Disconnect(r)
    BY <1>12 DEF Disconnect
<1> QED
    BY <1>1, <1>2, <1>3, <1>4, <1>5, <1>6, <1>7, <1>8, <1>9, <1>10, <1>11, <1>12
    DEF Statement

LEMMA InvStep ==
    ASSUME IInv, [Next]_vars
    PROVE  IInv'
<1>1. Pool'
    BY PoolStep DEF IInv
<1>2. CASE Start \/ Signal \/ Main \/ Crash \/ Hang \/ UNCHANGED vars
    BY <1>1, <1>2, MainStep
<1>3. ASSUME NEW r \in Request,
             \/ Accept(r) \/ Refuse(r) \/ Enter(r) \/ Take(r) \/ Statement(r)
             \/ Finish(r) \/ Deadline(r) \/ Panic(r) \/ Abort(r) \/ Reply(r) \/ Disconnect(r)
      PROVE  IInv'
    <2>1. (TypeOK /\ Remaining)'
        BY <1>1, <1>3, RequestTyping DEF IInv
    <2>2. (NoneCutEarly /\ OverOnceTold /\ AuditedFirst /\ AnsweredIsLogged)'
        BY <1>3, RequestAnswers
    <2> QED
        BY <1>1, <2>1, <2>2 DEF IInv
<1> QED
    BY <1>2, <1>3 DEF Next

THEOREM Invariance == Spec => []IInv
BY InitInv, InvStep, PTL DEF Spec

-----------------------------------------------------------------------------
\* Every reachable state is well typed; in particular no connection is given
\* out beyond the pool's, less the one that the migrations keep.
THEOREM Typing == Spec => []TypeOK
<1>1. IInv => TypeOK
    BY DEF IInv
<1> QED
    BY <1>1, Invariance, PTL

\* Who was answered by a handler finds the request in audit_logs, with the
\* status of the answer, unless the INSERT failed.
THEOREM Logged == Spec => []AnsweredIsLogged
<1>1. IInv => AnsweredIsLogged
    BY DEF IInv
<1> QED
    BY <1>1, Invariance, PTL

\* Before Shutdown has given up, the pool is not closed under a request.
THEOREM NotCut == Spec => []NoneCutEarly
<1>1. IInv => NoneCutEarly
    BY DEF IInv
<1> QED
    BY <1>1, Invariance, PTL
=============================================================================
