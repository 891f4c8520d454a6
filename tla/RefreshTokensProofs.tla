------------------------ MODULE RefreshTokensProofs ------------------------
(***************************************************************************)
(* Proofs about RefreshTokens, for any number of tokens, users and         *)
(* concurrent requests: every step keeps the inductive invariant IInv, and *)
(* is an atomic operation of TokenStore or none.                           *)
(***************************************************************************)
EXTENDS RefreshTokens, TLAPS

-----------------------------------------------------------------------------
(* What holds of the committed rows alone. *)

Owned ==
    /\ \A t \in rows : owner[t] \in User /\ root[t] \in Token
                         /\ owner[root[t]] = owner[t]
    /\ \A t \in cancelled : owner[t] # NoUser

StoreInv == Owned /\ Store!OneUsableToken /\ Store!NoSurvivor

(* What holds between them and the open transactions. *)

MintedFirst == \A t \in Token : owner[t] # NoUser => t \in minted

\* A transaction holds the row it selected: no other has it, none removes it,
\* and used_at stays as it was read.
HoldsRow ==
    /\ \A r \in Request : InTx(r) => tok[r] \in rows
    /\ \A r1, r2 \in Request : InTx(r1) /\ InTx(r2) /\ tok[r1] = tok[r2] => r1 = r2
    /\ \A r \in Request : InTx(r) => (r \in sawUsed <=> tok[r] \in usedAt)
    /\ sawUsed \subseteq { r \in Request : InTx(r) }

\* An inserted token belongs to one transaction, and to nobody else yet.
InsertIsPrivate ==
    /\ \A r \in Request : pc[r] = "inserted" =>
          r \notin sawUsed /\ new[r] \in minted /\ owner[new[r]] = NoUser
    /\ \A r1, r2 \in Request :
          pc[r1] = "inserted" /\ pc[r2] = "inserted" /\ new[r1] = new[r2] => r1 = r2

\* A DELETE has taken every row of its user that can still be used, none that
\* another transaction holds, and no insert gets past it.
PurgeIsComplete ==
    \A r \in Request : pc[r] = "purged" =>
        /\ r \in sawUsed
        /\ gone[r] \subseteq { t \in Token : owner[t] = owner[tok[r]] }
        /\ Active(owner[tok[r]]) \subseteq gone[r]
        /\ \A r2 \in Request \ {r} :
              /\ pc[r2] # "inserted"
              /\ InTx(r2) => tok[r2] \notin gone[r]

TxInv == MintedFirst /\ HoldsRow /\ InsertIsPrivate /\ PurgeIsComplete

IInv == TypeOK /\ StoreInv /\ TxInv

-----------------------------------------------------------------------------
(* Typing. *)

\* Ending a request keeps its variables in their types.
LEMMA FinishTyped ==
    ASSUME TypeOK, NEW r \in Request, NEW answer \in {"ok", "invalid", "reused", "error"},
           Finish(r, answer)
    PROVE  /\ pc' \in [Request -> Phase]
           /\ tok' \in [Request -> Token \cup {NoToken}]
           /\ sawUsed' \subseteq Request
           /\ new' \in [Request -> Token \cup {NoToken}]
           /\ gone' \in [Request -> SUBSET Token]
           /\ reply' \in [Request -> {"none", "ok", "invalid", "reused", "error"}]
BY DEF TypeOK, Finish, Phase

\* Every step keeps the variables in their types.
LEMMA TypingStep == IInv /\ [Next]_vars => TypeOK'
<1> SUFFICES ASSUME IInv, TypeOK, [Next]_vars PROVE TypeOK'
    BY DEF IInv
<1> USE DEF TypeOK, Phase, tableVars, txVars
<1>1. ASSUME NEW n \in Token, NEW u \in User, Issue(u, n) PROVE TypeOK'
    BY <1>1 DEF Issue
<1>2. ASSUME NEW t \in Token, Revoke(t) PROVE TypeOK'
    BY <1>2 DEF Revoke
<1>3. ASSUME NEW t \in Token, Expire(t) PROVE TypeOK'
    BY <1>3 DEF Expire
<1>4. ASSUME NEW r \in Request, NEW t \in Token \cup {NoToken}, Begin(r, t) PROVE TypeOK'
    BY <1>4 DEF Begin
<1>5. ASSUME NEW r \in Request, Select(r) PROVE TypeOK'
    BY <1>5 DEF Select
<1>6. ASSUME NEW r \in Request, SelectNone(r) PROVE TypeOK'
    BY <1>6, FinishTyped DEF SelectNone
<1>7. ASSUME NEW r \in Request, Mark(r) PROVE TypeOK'
    BY <1>7 DEF Mark
<1>8. ASSUME NEW r \in Request, NEW n \in Token, Insert(r, n) PROVE TypeOK'
    BY <1>8 DEF Insert
<1>9. ASSUME NEW r \in Request, CommitRotation(r) PROVE TypeOK'
    <2>1. /\ tok[r] \in rows /\ owner[tok[r]] \in User /\ root[tok[r]] \in Token
          /\ new[r] \in Token
        BY <1>9 DEF CommitRotation, IInv, TxInv, StoreInv, HoldsRow, InTx, Owned,
                    InsertIsPrivate
    <2> QED
        BY <1>9, <2>1, FinishTyped DEF CommitRotation
<1>10. ASSUME NEW r \in Request, Purge(r) PROVE TypeOK'
    BY <1>10 DEF Purge, Active
<1>11. ASSUME NEW r \in Request, CommitPurge(r) PROVE TypeOK'
    BY <1>11, FinishTyped DEF CommitPurge
<1>12. ASSUME NEW r \in Request, PurgeDeadlock(r) PROVE TypeOK'
    BY <1>12, FinishTyped DEF PurgeDeadlock
<1>13. ASSUME NEW r \in Request, Fail(r) PROVE TypeOK'
    BY <1>13, FinishTyped DEF Fail
<1>14. CASE UNCHANGED vars
    BY <1>14 DEF vars
<1> QED
    BY <1>1, <1>2, <1>3, <1>4, <1>5, <1>6, <1>7, <1>8, <1>9, <1>10, <1>11,
       <1>12, <1>13, <1>14 DEF Next, Statement

-----------------------------------------------------------------------------
(* Refinement. *)

\* Every step of a request is an atomic operation of the table, or none: the
\* statements before COMMIT are invisible, COMMIT is the operation.
LEMMA Simulation == IInv /\ [Next]_vars => [Store!StoreNext]_Store!storeVars
<1> SUFFICES ASSUME IInv, TypeOK, [Next]_vars
             PROVE  Store!StoreNext \/ UNCHANGED tableVars
    BY DEF IInv, tableVars, Store!storeVars
<1> USE DEF Store!StoreNext, Store!MayLearn, Store!TokensOf
<1>1. ASSUME NEW n \in Token, NEW u \in User, Issue(u, n) PROVE Store!Issue(u, n)
    BY <1>1 DEF Issue, Store!Issue, IInv, TxInv, MintedFirst
<1>2. ASSUME NEW t \in Token, Revoke(t) PROVE Store!Revoke(t)
    BY <1>2 DEF Revoke, Store!Revoke
<1>3. ASSUME NEW t \in Token, Expire(t) PROVE Store!Expire(t)
    BY <1>3 DEF Expire, Store!Expire
<1>4. ASSUME NEW r \in Request, CommitRotation(r)
      PROVE  tok[r] \in Token /\ new[r] \in Token /\ Store!Rotate(tok[r], new[r])
    <2>1. /\ tok[r] \in rows \ usedAt /\ new[r] \in Token
          /\ owner[new[r]] = NoUser
        BY <1>4 DEF CommitRotation, IInv, TxInv, HoldsRow, InsertIsPrivate, InTx, TypeOK
    <2>2. root[tok[r]] \in cancelled => tok[r] \in expired
        BY <2>1 DEF IInv, StoreInv, Store!NoSurvivor
    <2>3. cancelled' = cancelled \ {root[tok[r]]}
        BY <1>4, <2>2 DEF CommitRotation
    <2> QED
        BY <1>4, <2>1, <2>2, <2>3 DEF CommitRotation, Store!Rotate, TypeOK
<1>5. ASSUME NEW r \in Request, CommitPurge(r)
      PROVE  tok[r] \in Token /\ Store!CancelAll(tok[r])
    <2>1. /\ tok[r] \in rows \cap usedAt
          /\ gone[r] \subseteq { t \in Token : owner[t] = owner[tok[r]] }
          /\ Active(owner[tok[r]]) \subseteq gone[r]
        BY <1>5 DEF CommitPurge, IInv, TxInv, HoldsRow, PurgeIsComplete, InTx
    <2> QED
        BY <1>5, <2>1 DEF CommitPurge, Store!CancelAll, Active, TypeOK
<1>6. ASSUME NEW r \in Request, NEW t \in Token \cup {NoToken}, Begin(r, t)
      PROVE  UNCHANGED tableVars
    BY <1>6 DEF Begin
<1>7. ASSUME NEW r \in Request, NEW n \in Token, Insert(r, n)
      PROVE  UNCHANGED tableVars
    BY <1>7 DEF Insert
<1>8. ASSUME NEW r \in Request,
             Select(r) \/ SelectNone(r) \/ Mark(r) \/ Purge(r) \/ PurgeDeadlock(r) \/ Fail(r)
      PROVE  UNCHANGED tableVars
    BY <1>8 DEF Select, SelectNone, Mark, Purge, PurgeDeadlock, Fail
<1>9. CASE UNCHANGED vars
    BY <1>9 DEF vars
<1> QED
    BY <1>1, <1>2, <1>3, <1>4, <1>5, <1>6, <1>7, <1>8, <1>9 DEF Next, Statement

\* The atomic table keeps its invariants, whatever operations run.
LEMMA StoreStep ==
    TypeOK /\ StoreInv /\ [Store!StoreNext]_Store!storeVars => StoreInv'
<1> SUFFICES ASSUME TypeOK, StoreInv, [Store!StoreNext]_Store!storeVars PROVE StoreInv'
    OBVIOUS
<1> USE NullAssumption
    DEF TypeOK, StoreInv, Owned, Store!OneUsableToken, Store!NoSurvivor, Store!TokensOf
<1>1. ASSUME NEW n \in Token, NEW u \in User, Store!Issue(u, n) PROVE StoreInv'
    BY <1>1 DEF Store!Issue
<1>2. ASSUME NEW t \in Token, NEW n \in Token, Store!Rotate(t, n) PROVE StoreInv'
    BY <1>2 DEF Store!Rotate
<1>3. ASSUME NEW t \in Token, Store!CancelAll(t) PROVE StoreInv'
    BY <1>3 DEF Store!CancelAll
<1>4. ASSUME NEW t \in Token, Store!Revoke(t) PROVE StoreInv'
    BY <1>4 DEF Store!Revoke
<1>5. ASSUME NEW t \in Token, Store!Expire(t) PROVE StoreInv'
    BY <1>5 DEF Store!Expire
<1>6. CASE UNCHANGED Store!storeVars
    BY <1>6 DEF Store!storeVars
<1> QED
    BY <1>1, <1>2, <1>3, <1>4, <1>5, <1>6 DEF Store!StoreNext

-----------------------------------------------------------------------------
(* The open transactions. *)

\* A request that ends leaves the others as they were, and holds nothing.
LEMMA FinishStep ==
    ASSUME TypeOK, NEW r \in Request, NEW answer, Finish(r, answer)
    PROVE  /\ pc'[r] = "idle" /\ ~ InTx(r)' /\ sawUsed' = sawUsed \ {r}
           /\ \A q \in Request \ {r} :
                 /\ pc'[q] = pc[q] /\ tok'[q] = tok[q] /\ new'[q] = new[q]
                 /\ gone'[q] = gone[q] /\ InTx(q)' = InTx(q)
BY DEF Finish, TypeOK, InTx

\* A step that ends a request and leaves the table alone keeps TxInv.
LEMMA GivingUp ==
    ASSUME IInv, NEW r \in Request, NEW answer, Finish(r, answer),
           UNCHANGED << tableVars, minted >>
    PROVE  TxInv'
<1>1. TypeOK /\ TxInv
    BY DEF IInv
<1> USE <1>1, FinishStep DEF tableVars, InTx
<1>2. MintedFirst' /\ InsertIsPrivate'
    BY DEF TxInv, MintedFirst, InsertIsPrivate
<1>3. HoldsRow'
    BY DEF TxInv, HoldsRow
<1>4. PurgeIsComplete'
    BY DEF TxInv, PurgeIsComplete, Active
<1> QED
    BY <1>2, <1>3, <1>4 DEF TxInv

\* Every step of a transaction keeps what open transactions know.
LEMMA TxStep == IInv /\ [Next]_vars => TxInv'
<1> SUFFICES ASSUME IInv, TypeOK, StoreInv, TxInv, [Next]_vars PROVE TxInv'
    BY DEF IInv
<1> USE DEF tableVars, txVars, TypeOK, Phase, InTx
<1>1. ASSUME NEW n \in Token, NEW u \in User, Issue(u, n) PROVE TxInv'
    <2>1. n \notin rows /\ owner[n] = NoUser /\ \A r \in Request : pc[r] # "purged"
        BY <1>1, NullAssumption DEF Issue, GapFree, TxInv, MintedFirst, StoreInv, Owned
    <2>2. MintedFirst'
        BY <1>1 DEF Issue, TxInv, MintedFirst
    <2>3. HoldsRow'
        BY <1>1, <2>1 DEF Issue, TxInv, HoldsRow
    <2>4. InsertIsPrivate'
        BY <1>1, <2>1 DEF Issue, TxInv, InsertIsPrivate
    <2>5. PurgeIsComplete'
        BY <1>1, <2>1 DEF Issue, PurgeIsComplete
    <2> QED
        BY <2>2, <2>3, <2>4, <2>5 DEF TxInv
<1>2. ASSUME NEW t \in Token, Revoke(t) PROVE TxInv'
    <2>1. \A r \in Request : InTx(r) => tok[r] # t
        BY <1>2 DEF Revoke, Unlocked, Locks
    <2> QED
        BY <1>2, <2>1 DEF Revoke, TxInv, MintedFirst, HoldsRow, InsertIsPrivate,
           PurgeIsComplete, Active
<1>3. ASSUME NEW t \in Token, Expire(t) PROVE TxInv'
    BY <1>3 DEF Expire, TxInv, MintedFirst, HoldsRow, InsertIsPrivate, PurgeIsComplete, Active
<1>4. ASSUME NEW r \in Request, NEW t \in Token \cup {NoToken}, Begin(r, t) PROVE TxInv'
    BY <1>4 DEF Begin, TxInv, MintedFirst, HoldsRow, InsertIsPrivate, PurgeIsComplete, Active
<1>5. ASSUME NEW r \in Request, Select(r) PROVE TxInv'
    <2>1. /\ tok[r] \in rows \ expired
          /\ \A q \in Request : InTx(q) => tok[q] # tok[r]
          /\ \A q \in Request : pc[q] = "purged" => tok[r] \notin rows \ expired
        BY <1>5 DEF Select, Unlocked, Locks, Scan
    <2>2. \A q \in Request : pc[q] # "purged"
        BY <2>1
    <2>3. PurgeIsComplete'
        BY <1>5, <2>2 DEF Select, PurgeIsComplete
    <2>4. HoldsRow'
        BY <1>5, <2>1 DEF Select, TxInv, HoldsRow
    <2> QED
        BY <1>5, <2>3, <2>4 DEF Select, TxInv, MintedFirst, InsertIsPrivate, HoldsRow
<1>6. ASSUME NEW r \in Request, SelectNone(r) PROVE TxInv'
    BY <1>6, GivingUp DEF SelectNone
<1>7. ASSUME NEW r \in Request, Mark(r) PROVE TxInv'
    BY <1>7 DEF Mark, TxInv, MintedFirst, HoldsRow, InsertIsPrivate, PurgeIsComplete, Active
<1>8. ASSUME NEW r \in Request, NEW n \in Token, Insert(r, n) PROVE TxInv'
    <2>1. owner[n] = NoUser /\ \A q \in Request : pc[q] # "purged"
        BY <1>8 DEF Insert, GapFree, TxInv, MintedFirst
    <2>2. HoldsRow'
        BY <1>8 DEF Insert, TxInv, HoldsRow
    <2>3. InsertIsPrivate'
        BY <1>8, <2>1 DEF Insert, TxInv, InsertIsPrivate
    <2>4. PurgeIsComplete'
        BY <1>8, <2>1 DEF Insert, PurgeIsComplete
    <2> QED
        BY <1>8, <2>2, <2>3, <2>4 DEF Insert, TxInv, MintedFirst
<1>9. ASSUME NEW r \in Request, CommitRotation(r) PROVE TxInv'
    <2>1. PICK answer : Finish(r, answer)
        BY <1>9 DEF CommitRotation
    <2>2. /\ tok[r] \in rows /\ new[r] \in minted /\ owner[new[r]] = NoUser
          /\ \A q \in Request : pc[q] # "purged"
          /\ new[r] \notin rows
        BY <1>9, NullAssumption DEF CommitRotation, TxInv, HoldsRow, InsertIsPrivate,
           PurgeIsComplete, StoreInv, Owned
    <2>3. MintedFirst'
        BY <1>9, <2>2 DEF CommitRotation, TxInv, MintedFirst
    <2>4. HoldsRow'
        BY <1>9, <2>1, <2>2, FinishStep DEF CommitRotation, TxInv, HoldsRow
    <2>5. InsertIsPrivate'
        BY <1>9, <2>1, <2>2, FinishStep DEF CommitRotation, TxInv, InsertIsPrivate
    <2>6. PurgeIsComplete'
        BY <2>1, <2>2, FinishStep DEF PurgeIsComplete
    <2> QED
        BY <2>3, <2>4, <2>5, <2>6 DEF TxInv
<1>10. ASSUME NEW r \in Request, Purge(r) PROVE TxInv'
    <2>1. \A q \in Request \ {r} :
             /\ pc[q] # "inserted"
             /\ InTx(q) => tok[q] \notin rows \ expired
        <3> SUFFICES ASSUME NEW q \in Request \ {r}
                     PROVE  /\ pc[q] # "inserted"
                            /\ InTx(q) => tok[q] \notin rows \ expired
            OBVIOUS
        <3>1. Locks(q) \cap Scan = {}
            BY <1>10 DEF Purge
        <3>2. pc[q] = "inserted" => new[q] \in Locks(q) \cap Scan
            BY DEF Locks, Scan, Pending
        <3>3. InTx(q) => tok[q] \in Locks(q)
            BY DEF Locks
        <3> QED
            BY <3>1, <3>2, <3>3 DEF Scan
    <2>2. HoldsRow' /\ MintedFirst'
        BY <1>10 DEF Purge, TxInv, HoldsRow, MintedFirst
    <2>3. InsertIsPrivate'
        BY <1>10 DEF Purge, TxInv, InsertIsPrivate
    <2>4. PurgeIsComplete'
        BY <1>10, <2>1 DEF Purge, TxInv, PurgeIsComplete, Active
    <2> QED
        BY <2>2, <2>3, <2>4 DEF TxInv
<1>11. ASSUME NEW r \in Request, CommitPurge(r) PROVE TxInv'
    <2>1. PICK answer : Finish(r, answer)
        BY <1>11 DEF CommitPurge
    <2>2. \A q \in Request \ {r} : InTx(q) => tok[q] \notin gone[r]
        BY <1>11 DEF CommitPurge, TxInv, PurgeIsComplete
    <2>3. HoldsRow'
        BY <1>11, <2>1, <2>2, FinishStep DEF CommitPurge, TxInv, HoldsRow
    <2>4. InsertIsPrivate' /\ MintedFirst'
        BY <1>11, <2>1, FinishStep DEF CommitPurge, TxInv, InsertIsPrivate, MintedFirst
    <2>5. PurgeIsComplete'
        BY <1>11, <2>1, FinishStep DEF CommitPurge, TxInv, PurgeIsComplete, Active
    <2> QED
        BY <2>3, <2>4, <2>5 DEF TxInv
<1>12. ASSUME NEW r \in Request, PurgeDeadlock(r) PROVE TxInv'
    BY <1>12, GivingUp DEF PurgeDeadlock
<1>13. ASSUME NEW r \in Request, Fail(r) PROVE TxInv'
    BY <1>13, GivingUp DEF Fail
<1>14. CASE UNCHANGED vars
    BY <1>14 DEF vars, TxInv, MintedFirst, HoldsRow, InsertIsPrivate, PurgeIsComplete, Active
<1> QED
    BY <1>1, <1>2, <1>3, <1>4, <1>5, <1>6, <1>7, <1>8, <1>9, <1>10, <1>11,
       <1>12, <1>13, <1>14 DEF Next, Statement

-----------------------------------------------------------------------------
(* The theorems. *)

\* Before the first login the table is empty and no transaction is open.
LEMMA Initially == Init => IInv
BY DEF Init, Store!StoreInit, IInv, TypeOK, Phase, StoreInv, Owned, Store!OneUsableToken,
   Store!NoSurvivor, TxInv, MintedFirst, HoldsRow, InTx, InsertIsPrivate, PurgeIsComplete

\* In every reachable state the table is sound and each open transaction holds
\* the rows it has read, alone.
THEOREM Invariance == Spec => []IInv
<1>1. IInv /\ [Next]_vars => IInv'
    BY TypingStep, Simulation, StoreStep, TxStep DEF IInv
<1> QED
    BY <1>1, Initially, PTL DEF Spec

\* Every variable keeps its type, for any number of tokens, users, requests.
THEOREM Typing == Spec => []TypeOK
BY Invariance, PTL DEF IInv

\* No two of any number of concurrent refreshes rotate the same token.
THEOREM OneUsable == Spec => []OneUsableToken
BY Invariance, PTL DEF IInv, StoreInv, OneUsableToken

\* A cancelled session leaves no usable token behind.
THEOREM NoneSurvives == Spec => []NoSurvivor
BY Invariance, PTL DEF IInv, StoreInv, NoSurvivor

\* The transactions implement the table of atomic operations.
THEOREM Atomicity == Spec => ActsAtomically
<1>1. Init => Store!StoreInit
    BY DEF Init
<1> QED
    BY <1>1, Invariance, Simulation, PTL DEF Spec, ActsAtomically, Store!StoreSpec
-----------------------------------------------------------------------------
(* Who waits for whom. *)

Rotates(r) == pc[r] = "marked" /\ r \notin sawUsed
Cancels(r) == pc[r] = "marked" /\ r \in sawUsed

\* The next statement of r needs a lock that q holds.
WaitsFor(r, q) ==
    \/ pc[r] = "begun" /\ tok[r] \in Locks(q)
    \/ Rotates(r) /\ pc[q] = "purged"
    \/ Cancels(r) /\ q # r /\ Locks(q) \cap Scan # {}

\* If requests only wait for each other, two of them are cancellations, each at
\* its DELETE: rotations alone never deadlock, and InnoDB has a victim whose
\* failure PurgeDeadlock models, however many transactions are in the circle.
OnlyCancellationsDeadlock ==
    \A S \in (SUBSET Request) \ {{}} :
        (\A r \in S : \E q \in S : WaitsFor(r, q))
            => \E r, q \in S : r # q /\ Cancels(r) /\ Cancels(q) /\ tok[q] \in Scan

\* A request that waits for nobody has what its next statement needs.
LEMMA WaitsForNobody ==
    ASSUME NEW r \in Request, \A q \in Request : ~ WaitsFor(r, q)
    PROVE  /\ pc[r] = "begun" => Unlocked(tok[r])
           /\ Rotates(r) => GapFree
           /\ Cancels(r) => \A q \in Request \ {r} : Locks(q) \cap Scan = {}
BY DEF WaitsFor, Unlocked, GapFree

\* Who holds a lock and waits is at the statement after its UPDATE.
LEMMA HoldsAndWaits ==
    ASSUME TypeOK, NEW q \in Request, NEW p \in Request, WaitsFor(q, p), Locks(q) # {}
    PROVE  pc[q] = "marked" /\ Locks(q) = {tok[q]}
BY DEF TypeOK, Phase, WaitsFor, Rotates, Cancels, Locks

LEMMA Circle == TypeOK => OnlyCancellationsDeadlock
<1> SUFFICES ASSUME TypeOK, NEW S \in (SUBSET Request) \ {{}},
                    \A r \in S : \E q \in S : WaitsFor(r, q)
             PROVE  \E r, q \in S : r # q /\ Cancels(r) /\ Cancels(q) /\ tok[q] \in Scan
    BY DEF OnlyCancellationsDeadlock
<1>1. \A q \in S : Locks(q) # {} => pc[q] = "marked" /\ Locks(q) = {tok[q]}
    BY HoldsAndWaits
<1>2. \A q \in S : pc[q] # "purged"
    BY DEF WaitsFor, Rotates, Cancels
<1>3. \A q \in S : pc[q] = "marked" => Cancels(q)
    BY <1>2 DEF WaitsFor, Rotates, Cancels
<1>4. PICK r \in S : Cancels(r)
    <2>0. S # {}
        OBVIOUS
    <2>1. PICK p \in S : TRUE
        BY <2>0
    <2>2. PICK q \in S : WaitsFor(p, q)
        OBVIOUS
    <2>3. CASE pc[p] = "begun"
        BY <1>1, <1>3, <2>2, <2>3 DEF WaitsFor, Rotates, Cancels
    <2>4. CASE pc[p] # "begun"
        BY <1>2, <2>2, <2>4 DEF WaitsFor, Rotates, Cancels
    <2> QED
        BY <2>3, <2>4
<1>5. PICK q \in S : q # r /\ Locks(q) \cap Scan # {}
    BY <1>4 DEF WaitsFor, Rotates, Cancels
<1>6. Cancels(q) /\ tok[q] \in Scan
    BY <1>1, <1>3, <1>5
<1> QED
    BY <1>4, <1>5, <1>6

\* Concurrent rotations do not deadlock, and a circle of cancellations has a
\* victim, for any number of requests.
THEOREM Deadlocks == Spec => []OnlyCancellationsDeadlock
BY Typing, Circle, PTL
=============================================================================
