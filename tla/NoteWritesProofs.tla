-------------------------- MODULE NoteWritesProofs --------------------------
(***************************************************************************)
(* Proofs about NoteWrites, for any users, notes, keys, orders and any     *)
(* number of concurrent requests and retries.                              *)
(***************************************************************************)
EXTENDS NoteWrites, TLAPS

-----------------------------------------------------------------------------
Running(r) == pc[r] \in {"run", "wrote", "fetched", "answer"}
RunsUnder(r, k) == Running(r) /\ KeyOf(r) = k

\* A request that is under way has an order, and a note once it has read it.
Busy ==
    /\ \A r \in Request : pc[r] # "idle" => order[r] \in Order
    /\ \A r \in Request : pc[r] \in {"fetched", "answer"} <=> got[r] # NoResult
    /\ \A r \in Request : pc[r] = "dup" => KeyOf(r) \in Key /\ claims[KeyOf(r)] # NoClaim
    /\ \A r \in Request : pc[r] = "claim" => KeyOf(r) \in Key

\* A key whose claim is in the table belongs to the one request that made it.
OneHolder ==
    /\ \A r \in Request, k \in Key \ lost : RunsUnder(r, k) =>
          claims[k] # NoClaim /\ claims[k].order = order[r] /\ claims[k].result = NoResult
    /\ \A r1, r2 \in Request, k \in Key \ lost :
          RunsUnder(r1, k) /\ RunsUnder(r2, k) => r1 = r2

\* It writes once, and no other can start afterwards.
WriteSpent ==
    \A k \in wrote \ lost :
        /\ claims[k] # NoClaim
        /\ \A r \in Request : RunsUnder(r, k) => pc[r] \notin {"run", "fetched"}

\* The first 200 under a key ends its run, and agrees with the stored result.
AnswersAgree ==
    \A a \in told : a.status = "ok" /\ a.order.key \in Key \ lost =>
        /\ claims[a.order.key] # NoClaim
        /\ claims[a.order.key].result \in {NoResult, a.result}
        /\ \A r \in Request : ~ RunsUnder(r, a.order.key)

\* What has been read or stored for a user is a note of that user.
OwnResults ==
    /\ \A r \in Request : got[r] # NoResult => Owner[got[r].note] = order[r].user
    /\ \A k \in Key : claims[k] # NoClaim /\ claims[k].result # NoResult =>
          Owner[claims[k].result.note] = claims[k].order.user
    /\ \A a \in told : a.status = "ok" => a.result # NoResult

IInv ==
    /\ TypeOK /\ Busy /\ OneHolder /\ WriteSpent /\ WrittenOnce
    /\ AnswersAgree /\ SameAnswer /\ OwnResults /\ OwnNotesOnly

-----------------------------------------------------------------------------
(* Typing. *)

\* Ending a request keeps its variables in their types.
LEMMA AnswerTyped ==
    ASSUME TypeOK, NEW r \in Request, order[r] \in Order,
           NEW status \in Status, NEW result \in Result \cup {NoResult},
           Answer(r, status, result)
    PROVE  /\ pc' \in [Request -> Phase]
           /\ order' \in [Request -> Order \cup {NoOrder}]
           /\ got' \in [Request -> Result \cup {NoResult}]
           /\ answer' \in [Request -> Status]
           /\ told' \subseteq [order : Order, status : {"ok", "notfound"},
                               result : Result \cup {NoResult}]
BY DEF TypeOK, Answer, Goto, Phase, Status

\* What a Claim that finds its key may answer.
LEMMA ReadClaimCases ==
    ASSUME TypeOK, Busy, NEW r \in Request, ReadClaim(r)
    PROVE  \E status \in {"error", "mismatch", "busy", "ok"}, result \in Result \cup {NoResult} :
              /\ Answer(r, status, result)
              /\ status = "ok" => /\ result # NoResult
                                  /\ result = claims[KeyOf(r)].result
                                  /\ claims[KeyOf(r)].order.user = order[r].user
<1> DEFINE row == claims[KeyOf(r)]
<1>1. row \in [order : Order, result : Result \cup {NoResult}]
    BY DEF ReadClaim, Busy, TypeOK
<1>2. CASE row.order.user # order[r].user
    BY <1>2 DEF ReadClaim
<1>3. CASE row.order.user = order[r].user /\ row.order.text # order[r].text
    BY <1>3 DEF ReadClaim
<1>4. CASE row.order.user = order[r].user /\ row.order.text = order[r].text
    BY <1>1, <1>4 DEF ReadClaim
<1> QED
    BY <1>2, <1>3, <1>4

\* Complete stores the result of r, or changes nothing.
LEMMA CompletedCases ==
    ASSUME TypeOK, NEW r \in Request, order[r] \in Order, got[r] \in Result
    PROVE  /\ Completed(r) \in [Key -> [order : Order, result : Result \cup {NoResult}]
                                      \cup {NoClaim}]
           /\ \A k \in Key :
                 \/ Completed(r)[k] = claims[k]
                 \/ /\ k = KeyOf(r) /\ claims[k] # NoClaim /\ Completed(r)[k] # NoClaim
                    /\ claims[k].order.user = order[r].user
                    /\ claims[k].result = NoResult
                    /\ Completed(r)[k].order = claims[k].order
                    /\ Completed(r)[k].result = got[r]
<1> DEFINE k0 == KeyOf(r)
<1>1. CASE Completed(r) = claims
    BY <1>1 DEF TypeOK
<1>2. CASE Completed(r) # claims
    <2>1. /\ k0 # NoKey /\ claims[k0] # NoClaim
          /\ claims[k0].order.user = order[r].user /\ claims[k0].result = NoResult
          /\ Completed(r) = [claims EXCEPT ![k0].result = got[r]]
        BY <1>2 DEF Completed, Keyed
    <2>2. k0 \in Key
        BY <2>1, OrderAssumption DEF KeyOf
    <2>3. claims[k0] \in [order : Order, result : Result \cup {NoResult}]
        BY <2>1, <2>2 DEF TypeOK
    <2> DEFINE row == [claims[k0] EXCEPT !.result = got[r]]
    <2>4. row \in [order : Order, result : Result \cup {NoResult}]
          /\ row.order = claims[k0].order /\ row.result = got[r]
        BY <2>3
    <2>5. Completed(r) = [claims EXCEPT ![k0] = row]
        BY <2>1
    <2> HIDE DEF row
    <2>6. row # NoClaim
        BY <2>4, NullAssumption
    <2> QED
        BY <2>1, <2>2, <2>4, <2>5, <2>6 DEF TypeOK
<1> QED
    BY <1>1, <1>2

\* Every step keeps the variables in their types.
LEMMA TypingStep == TypeOK /\ Busy /\ [Next]_vars => TypeOK'
<1> SUFFICES ASSUME TypeOK, Busy, [Next]_vars PROVE TypeOK'
    OBVIOUS
<1> USE DEF TypeOK, Phase, rowVars, reqVars, history
<1>0. \A r \in Request : pc[r] # "idle" => order[r] \in Order
    BY DEF Busy
<1>1. ASSUME NEW r \in Request, NEW o \in Order, Begin(r, o) PROVE TypeOK'
    BY <1>1 DEF Begin, Goto, Status
<1>2. ASSUME NEW r \in Request, Claim(r) PROVE TypeOK'
    BY <1>2, <1>0, NullAssumption, OrderAssumption DEF Claim, Goto, KeyOf, Busy
<1>3. ASSUME NEW r \in Request, Collide(r) PROVE TypeOK'
    BY <1>3 DEF Collide, Goto
<1>4. ASSUME NEW r \in Request, ReadClaim(r) PROVE TypeOK'
    BY <1>4, <1>0, ReadClaimCases, AnswerTyped DEF ReadClaim, Status
<1>5. ASSUME NEW r \in Request, ClaimDeadlock(r) PROVE TypeOK'
    BY <1>5, <1>0, AnswerTyped DEF ClaimDeadlock, Status
<1>6. ASSUME NEW r \in Request, Update(r) PROVE TypeOK'
    BY <1>6, <1>0, OrderAssumption DEF Update, Goto, CountWrite, KeyOf, Matches
<1>7. ASSUME NEW r \in Request, Get(r) PROVE TypeOK'
    BY <1>7, <1>0, OrderAssumption DEF Get, Goto, Result
<1>8. ASSUME NEW r \in Request, GetNone(r) PROVE TypeOK'
    BY <1>8, <1>0, AnswerTyped DEF GetNone, Status
<1>9. ASSUME NEW r \in Request, Delete(r) PROVE TypeOK'
    BY <1>9, <1>0, OrderAssumption DEF Delete, Goto, CountWrite, KeyOf, Matches
<1>10. ASSUME NEW r \in Request, Complete(r) PROVE TypeOK'
    <2>1. order[r] \in Order /\ got[r] \in Result
        BY <1>10, <1>0 DEF Complete, Busy
    <2>2. claims' \in [Key -> [order : Order, result : Result \cup {NoResult}] \cup {NoClaim}]
        BY <1>10, <2>1, CompletedCases DEF Complete
    <2> QED
        BY <1>10, <2>1, <2>2, AnswerTyped DEF Complete, Status
<1>11. ASSUME NEW r \in Request, Fail(r) PROVE TypeOK'
    BY <1>11, <1>0, AnswerTyped DEF Fail, Status
<1>12. CASE UNCHANGED vars
    BY <1>12 DEF vars
<1> QED
    BY <1>1, <1>2, <1>3, <1>4, <1>5, <1>6, <1>7, <1>8, <1>9, <1>10, <1>11, <1>12
       DEF Next, Statement

-----------------------------------------------------------------------------
(* The end of a request. *)

\* What Answer does to the request and to the others.
LEMMA AnswerStep ==
    ASSUME TypeOK, NEW r \in Request, NEW status, NEW result, Answer(r, status, result)
    PROVE  /\ pc'[r] = "idle" /\ got'[r] = NoResult
           /\ \A q \in Request \ {r} : pc'[q] = pc[q] /\ order'[q] = order[q] /\ got'[q] = got[q]
           /\ \/ told' = told
              \/ /\ status \in {"ok", "notfound"} /\ Keyed(r)
                 /\ told' = told \cup {[order |-> order[r], status |-> status, result |-> result]}
BY DEF TypeOK, Answer, Goto

\* A request may end with a 200 only if the result is the user's own and, for
\* a key whose claim is in the table, agrees with what is stored and was told.
MayAnswer(r, result) ==
    /\ result # NoResult /\ Owner[result.note] = order[r].user
    /\ KeyOf(r) \in Key \ lost =>
          /\ claims[KeyOf(r)] # NoClaim
          /\ claims'[KeyOf(r)].result \in {NoResult, result}
          /\ \A q \in Request \ {r} : ~ RunsUnder(q, KeyOf(r))
          /\ \A a \in told : a.status = "ok" /\ a.order.key = KeyOf(r) => a.result = result

\* What the end of a request may do to a claim: nothing, or complete its own.
MayComplete(r, status, result, k) ==
    \/ claims'[k] = claims[k]
    \/ /\ k = KeyOf(r) /\ Running(r) /\ status = "ok"
       /\ claims[k] # NoClaim /\ claims'[k] # NoClaim
       /\ claims[k].order.user = order[r].user /\ claims'[k].order = claims[k].order
       /\ claims[k].result = NoResult /\ claims'[k].result = result

LEMMA EndOfRequest ==
    ASSUME IInv, NEW r \in Request, NEW status, NEW result, Answer(r, status, result),
           order[r] \in Order, UNCHANGED history,
           status = "ok" => MayAnswer(r, result),
           \A k \in Key : MayComplete(r, status, result, k)
    PROVE  /\ Busy' /\ OneHolder' /\ WriteSpent' /\ WrittenOnce'
           /\ AnswersAgree' /\ SameAnswer' /\ OwnResults' /\ OwnNotesOnly'
<1>1. /\ TypeOK /\ Busy /\ OneHolder /\ WriteSpent /\ WrittenOnce
      /\ AnswersAgree /\ SameAnswer /\ OwnResults /\ OwnNotesOnly
    BY DEF IInv
<1>2. /\ pc'[r] = "idle" /\ got'[r] = NoResult
      /\ \A q \in Request \ {r} : pc'[q] = pc[q] /\ order'[q] = order[q] /\ got'[q] = got[q]
    BY <1>1, AnswerStep
<1>3. /\ lost' = lost /\ wrote' = wrote /\ rewrote' = rewrote
    BY DEF history
<1>4. \A q \in Request, k \in Key : RunsUnder(q, k)' => q # r /\ RunsUnder(q, k)
    BY <1>2 DEF RunsUnder, Running, KeyOf
<1>5. \A k \in Key : claims[k] # NoClaim => claims'[k] # NoClaim /\ claims'[k].order = claims[k].order
    BY DEF MayComplete
<1>6. \A k \in Key \ lost : claims'[k] # claims[k] =>
          RunsUnder(r, k) /\ (\A q \in Request : RunsUnder(q, k) => q = r)
    BY <1>1 DEF MayComplete, RunsUnder, OneHolder
<1>7. \A a \in told' : a.status = "ok" =>
         \/ a \in told
         \/ /\ a.order = order[r] /\ a.result = result
            /\ MayAnswer(r, result) /\ KeyOf(r) \in Key
    <2>1. Keyed(r) => KeyOf(r) \in Key
        BY OrderAssumption DEF Keyed, KeyOf
    <2> QED
        BY <1>1, <2>1, AnswerStep
<1>8. Busy'
    BY <1>1, <1>2, <1>5 DEF Busy, KeyOf
<1>9. OneHolder'
    <2>1. \A q \in Request, k \in Key \ lost : RunsUnder(q, k)' =>
             /\ claims[k] # NoClaim /\ claims[k].order = order[q] /\ claims[k].result = NoResult
             /\ claims'[k] = claims[k] /\ order'[q] = order[q]
        BY <1>1, <1>2, <1>4, <1>6 DEF OneHolder
    <2> QED
        BY <1>1, <1>3, <1>4, <2>1 DEF OneHolder
<1>10. WriteSpent' /\ WrittenOnce'
    <2>1. \A q \in Request, k \in Key : RunsUnder(q, k)' => RunsUnder(q, k) /\ pc'[q] = pc[q]
        BY <1>2, <1>4
    <2> QED
        BY <1>1, <1>3, <1>5, <2>1 DEF WriteSpent, WrittenOnce, TypeOK
<1>11. AnswersAgree'
    <2> SUFFICES ASSUME NEW a \in told', a.status = "ok", a.order.key \in Key \ lost
                 PROVE  /\ claims'[a.order.key] # NoClaim
                        /\ claims'[a.order.key].result \in {NoResult, a.result}
                        /\ \A q \in Request : ~ RunsUnder(q, a.order.key)'
        BY <1>3 DEF AnswersAgree
    <2>1. CASE a \in told
        <3>1. /\ claims[a.order.key] # NoClaim
              /\ claims[a.order.key].result \in {NoResult, a.result}
              /\ \A q \in Request : ~ RunsUnder(q, a.order.key)
            BY <1>1, <2>1 DEF AnswersAgree
        <3> QED
            BY <1>4, <1>6, <3>1
    <2>2. CASE a.order = order[r] /\ a.result = result /\ MayAnswer(r, result)
        BY <1>4, <1>5, <2>2 DEF MayAnswer, KeyOf
    <2> QED
        BY <1>7, <2>1, <2>2
<1>12. SameAnswer'
    BY <1>1, <1>3, <1>7 DEF SameAnswer, MayAnswer, KeyOf
<1>13. OwnNotesOnly'
    BY <1>1, <1>7 DEF OwnNotesOnly, MayAnswer
<1>14. OwnResults'
    <2>1. \A q \in Request : got'[q] # NoResult => Owner[got'[q].note] = order'[q].user
        BY <1>1, <1>2 DEF OwnResults
    <2>2. \A a \in told' : a.status = "ok" => a.result # NoResult
        BY <1>1, <1>7 DEF OwnResults, MayAnswer
    <2>3. \A k \in Key : claims'[k] # NoClaim /\ claims'[k].result # NoResult =>
             Owner[claims'[k].result.note] = claims'[k].order.user
        BY <1>1 DEF OwnResults, MayComplete, MayAnswer
    <2> QED
        BY <2>1, <2>2, <2>3 DEF OwnResults
<1> QED
    BY <1>8, <1>9, <1>10, <1>11, <1>12, <1>13, <1>14

-----------------------------------------------------------------------------
(* The requests that end. *)

\* A Claim that finds its key ends its request within the rules.
LEMMA ReadClaimKeeps == \A r \in Request : IInv /\ ReadClaim(r) => IInv'
<1> SUFFICES ASSUME NEW r \in Request, IInv, ReadClaim(r) PROVE IInv'
    OBVIOUS
<1>1. /\ TypeOK /\ Busy /\ OneHolder /\ AnswersAgree /\ OwnResults
    BY DEF IInv
<1>2. /\ order[r] \in Order /\ KeyOf(r) \in Key /\ claims[KeyOf(r)] # NoClaim
    BY <1>1 DEF ReadClaim, Busy
<1>3. PICK status \in {"error", "mismatch", "busy", "ok"}, result \in Result \cup {NoResult} :
         /\ Answer(r, status, result)
         /\ status = "ok" => /\ result # NoResult /\ result = claims[KeyOf(r)].result
                             /\ claims[KeyOf(r)].order.user = order[r].user
    BY <1>1, ReadClaimCases
<1>4. status = "ok" => MayAnswer(r, result)
    <2> SUFFICES ASSUME status = "ok" PROVE MayAnswer(r, result)
        OBVIOUS
    <2>1. Owner[result.note] = order[r].user
        BY <1>1, <1>2, <1>3 DEF OwnResults
    <2>2. claims' = claims
        BY DEF ReadClaim
    <2>3. KeyOf(r) \in Key \ lost => \A q \in Request : ~ RunsUnder(q, KeyOf(r))
        BY <1>1, <1>3 DEF OneHolder
    <2>4. KeyOf(r) \in Key \ lost =>
             \A a \in told : a.status = "ok" /\ a.order.key = KeyOf(r) => a.result = result
        BY <1>1, <1>3 DEF AnswersAgree
    <2> QED
        BY <1>2, <1>3, <2>1, <2>2, <2>3, <2>4 DEF MayAnswer
<1>5. TypeOK'
    BY <1>1, TypingStep DEF Next, Statement
<1> QED
    BY <1>2, <1>3, <1>4, <1>5, EndOfRequest DEF ReadClaim, MayComplete, IInv

\* So does the request that ran.
LEMMA CompleteKeeps == \A r \in Request : IInv /\ Complete(r) => IInv'
<1> SUFFICES ASSUME NEW r \in Request, IInv, Complete(r) PROVE IInv'
    OBVIOUS
<1>1. /\ TypeOK /\ Busy /\ OneHolder /\ AnswersAgree /\ OwnResults
    BY DEF IInv
<1>2. /\ order[r] \in Order /\ got[r] \in Result /\ got[r] # NoResult
      /\ Running(r) /\ Answer(r, "ok", got[r]) /\ UNCHANGED history
    BY <1>1 DEF Complete, Busy, TypeOK, Running
<1>3. \A k \in Key : MayComplete(r, "ok", got[r], k)
    BY <1>1, <1>2, CompletedCases DEF Complete, MayComplete
<1>4. MayAnswer(r, got[r])
    <2>1. KeyOf(r) \in Key \ lost =>
             /\ claims[KeyOf(r)] # NoClaim /\ claims[KeyOf(r)].result = NoResult
             /\ \A q \in Request \ {r} : ~ RunsUnder(q, KeyOf(r))
             /\ \A a \in told : ~ (a.status = "ok" /\ a.order.key = KeyOf(r))
        BY <1>1, <1>2 DEF OneHolder, AnswersAgree, RunsUnder
    <2>2. KeyOf(r) \in Key \ lost => claims'[KeyOf(r)].result \in {NoResult, got[r]}
        BY <1>3, <2>1 DEF MayComplete
    <2> QED
        BY <1>1, <1>2, <2>1, <2>2 DEF MayAnswer, OwnResults
<1>5. TypeOK'
    BY <1>1, TypingStep DEF Next, Statement
<1> QED
    BY <1>2, <1>3, <1>4, <1>5, EndOfRequest DEF IInv

\* A request that ends without a 200 changes no claim.
LEMMA OthersKeep ==
    \A r \in Request : IInv /\ (ClaimDeadlock(r) \/ GetNone(r) \/ Fail(r)) => IInv'
<1> SUFFICES ASSUME NEW r \in Request, IInv, ClaimDeadlock(r) \/ GetNone(r) \/ Fail(r)
             PROVE IInv'
    OBVIOUS
<1>1. TypeOK /\ Busy
    BY DEF IInv
<1>2. order[r] \in Order /\ UNCHANGED history /\ claims' = claims
    BY <1>1 DEF Busy, ClaimDeadlock, GetNone, Fail
<1>3. PICK status \in {"error", "notfound"} : Answer(r, status, NoResult)
    BY DEF ClaimDeadlock, GetNone, Fail
<1>4. TypeOK'
    BY <1>1, TypingStep DEF Next, Statement
<1> QED
    BY <1>2, <1>3, <1>4, EndOfRequest DEF MayComplete, IInv

-----------------------------------------------------------------------------
(* The steps of a request that goes on: nobody is told anything. *)

\* While no answer is given and no claim changes, what was told stays right,
\* as long as no request starts to run.
LEMMA ToldStays ==
    ASSUME IInv, told' = told, claims' = claims, lost' = lost,
           \A q \in Request, k \in Key \ lost : RunsUnder(q, k)' => RunsUnder(q, k)
    PROVE  AnswersAgree' /\ SameAnswer' /\ OwnNotesOnly'
<1>1. AnswersAgree /\ SameAnswer /\ OwnNotesOnly
    BY DEF IInv
<1>2. AnswersAgree'
    BY <1>1 DEF AnswersAgree
<1>3. SameAnswer' /\ OwnNotesOnly'
    BY <1>1 DEF SameAnswer, OwnNotesOnly
<1> QED
    BY <1>2, <1>3

\* A request that begins runs under no key yet.
LEMMA BeginKeeps == \A r \in Request, o \in Order : IInv /\ Begin(r, o) => IInv'
<1> SUFFICES ASSUME NEW r \in Request, NEW o \in Order, IInv, Begin(r, o) PROVE IInv'
    OBVIOUS
<1>1. /\ TypeOK /\ Busy /\ OneHolder /\ WriteSpent /\ WrittenOnce
      /\ AnswersAgree /\ SameAnswer /\ OwnResults /\ OwnNotesOnly
    BY DEF IInv
<1>2. /\ pc[r] = "idle" /\ order'[r] = o /\ UNCHANGED << rowVars, claims, got, told, history >>
      /\ pc'[r] = (IF o.key = NoKey THEN "run" ELSE "claim")
      /\ \A q \in Request \ {r} : pc'[q] = pc[q] /\ order'[q] = order[q]
    BY <1>1 DEF Begin, Goto, TypeOK
<1>3. o.key \in Key \cup {NoKey} /\ (o.key = NoKey => o.key \notin Key)
    BY OrderAssumption, NullAssumption
<1>4. \A q \in Request, k \in Key : RunsUnder(q, k)' => q # r /\ RunsUnder(q, k)
    BY <1>2, <1>3 DEF RunsUnder, Running, KeyOf
<1>5. TypeOK'
    BY <1>1, TypingStep DEF Next
<1>6. Busy'
    BY <1>1, <1>2, <1>3 DEF Busy, KeyOf
<1>7. OneHolder' /\ WriteSpent' /\ WrittenOnce'
    BY <1>1, <1>2, <1>4 DEF OneHolder, WriteSpent, WrittenOnce, TypeOK, history
<1>8. AnswersAgree' /\ SameAnswer' /\ OwnNotesOnly'
    BY <1>2, <1>4, ToldStays DEF history
<1>9. OwnResults'
    BY <1>1, <1>2 DEF OwnResults, Busy
<1> QED
    BY <1>5, <1>6, <1>7, <1>8, <1>9 DEF IInv

\* A Claim that finds no row starts the only run of its key, or loses it.
LEMMA ClaimKeeps == \A r \in Request : IInv /\ Claim(r) => IInv'
<1> SUFFICES ASSUME NEW r \in Request, IInv, Claim(r) PROVE IInv'
    OBVIOUS
<1> DEFINE k0 == KeyOf(r)
<1>1. /\ TypeOK /\ Busy /\ OneHolder /\ WriteSpent /\ WrittenOnce
      /\ AnswersAgree /\ SameAnswer /\ OwnResults /\ OwnNotesOnly
    BY DEF IInv
<1>2. /\ pc[r] = "claim" /\ pc'[r] = "run" /\ order[r] \in Order /\ k0 \in Key
      /\ claims[k0] = NoClaim
      /\ \A q \in Request \ {r} : pc'[q] = pc[q]
      /\ UNCHANGED << rowVars, order, got, told, wrote, rewrote >>
    BY <1>1 DEF Claim, Goto, TypeOK, Busy
<1>3. \/ /\ claims' = claims /\ lost' = lost \cup {k0}
      \/ /\ lost' = lost
         /\ claims'[k0] # NoClaim /\ claims'[k0].order = order[r] /\ claims'[k0].result = NoResult
         /\ \A k \in Key \ {k0} : claims'[k] = claims[k]
    BY <1>1, <1>2, NullAssumption DEF Claim, TypeOK
<1>4. \A q \in Request, k \in Key : RunsUnder(q, k)' =>
         \/ q # r /\ RunsUnder(q, k) /\ pc'[q] = pc[q]
         \/ q = r /\ k = k0
    BY <1>2 DEF RunsUnder, Running, KeyOf
<1>5. /\ k0 \notin lost => k0 \notin wrote
      /\ \A q \in Request : k0 \notin lost => ~ RunsUnder(q, k0)
      /\ \A a \in told : k0 \notin lost /\ a.status = "ok" => a.order.key # k0
    BY <1>1, <1>2 DEF WriteSpent, OneHolder, AnswersAgree
<1>6. TypeOK'
    BY <1>1, TypingStep DEF Next, Statement
<1>7. Busy'
    BY <1>1, <1>2, <1>3 DEF Busy, KeyOf
<1>8. OneHolder'
    BY <1>1, <1>2, <1>3, <1>4, <1>5 DEF OneHolder
<1>9. WriteSpent' /\ WrittenOnce'
    BY <1>1, <1>2, <1>3, <1>4, <1>5 DEF WriteSpent, WrittenOnce, TypeOK
<1>10. AnswersAgree'
    BY <1>1, <1>2, <1>3, <1>4, <1>5 DEF AnswersAgree
<1>11. SameAnswer' /\ OwnNotesOnly'
    BY <1>1, <1>2, <1>3 DEF SameAnswer, OwnNotesOnly
<1>12. OwnResults'
    BY <1>1, <1>2, <1>3 DEF OwnResults
<1> QED
    BY <1>6, <1>7, <1>8, <1>9, <1>10, <1>11, <1>12 DEF IInv

\* A Claim that finds its key, and a SELECT that finds its note, change
\* nothing that others see.
LEMMA QuietKeeps == \A r \in Request : IInv /\ (Collide(r) \/ Get(r)) => IInv'
<1> SUFFICES ASSUME NEW r \in Request, IInv, Collide(r) \/ Get(r) PROVE IInv'
    OBVIOUS
<1>1. /\ TypeOK /\ Busy /\ OneHolder /\ WriteSpent /\ WrittenOnce /\ OwnResults
    BY DEF IInv
<1>2. /\ UNCHANGED << rowVars, claims, order, told, history >>
      /\ \A q \in Request \ {r} : pc'[q] = pc[q] /\ got'[q] = got[q]
      /\ \/ pc[r] = "claim" /\ pc'[r] = "dup" /\ got' = got /\ claims[KeyOf(r)] # NoClaim
         \/ /\ \/ pc[r] = "wrote" /\ pc'[r] = "answer"
               \/ pc[r] = "run" /\ pc'[r] = "fetched" /\ order[r].method = "DELETE"
            /\ got'[r] = [note |-> order[r].note, text |-> text[order[r].note]]
            /\ Owner[order[r].note] = order[r].user
    BY <1>1 DEF Collide, Get, Goto, TypeOK, Matches
<1>3. pc'[r] # "dup" => got'[r] # NoResult /\ Owner[got'[r].note] = order[r].user
    <2>1. order[r] \in Order
        BY <1>1, <1>2 DEF Busy
    <2>2. [note |-> order[r].note, text |-> text[order[r].note]] \in Result
        BY <1>1, <2>1, OrderAssumption DEF TypeOK, Result
    <2> QED
        BY <1>2, <2>2, NullAssumption
<1>4. \A q \in Request, k \in Key : RunsUnder(q, k)' => RunsUnder(q, k)
    BY <1>2 DEF RunsUnder, Running, KeyOf
<1>5. TypeOK'
    BY <1>1, TypingStep DEF Next, Statement
<1>6. Busy'
    BY <1>1, <1>2, <1>3 DEF Busy, KeyOf
<1>7. OneHolder' /\ WrittenOnce'
    BY <1>1, <1>2, <1>4 DEF OneHolder, WrittenOnce, history
<1>8. WriteSpent'
    BY <1>1, <1>2, <1>4 DEF WriteSpent, TypeOK, history
<1>9. AnswersAgree' /\ SameAnswer' /\ OwnNotesOnly'
    BY <1>2, <1>4, ToldStays DEF history
<1>10. OwnResults'
    BY <1>1, <1>2, <1>3 DEF OwnResults, Busy
<1> QED
    BY <1>5, <1>6, <1>7, <1>8, <1>9, <1>10 DEF IInv

\* A write is the first under its key, unless the key's claim is lost.
LEMMA WriteKeeps == \A r \in Request : IInv /\ (Update(r) \/ Delete(r)) => IInv'
<1> SUFFICES ASSUME NEW r \in Request, IInv, Update(r) \/ Delete(r) PROVE IInv'
    OBVIOUS
<1>1. /\ TypeOK /\ Busy /\ OneHolder /\ WriteSpent /\ WrittenOnce /\ OwnResults
    BY DEF IInv
<1>2. /\ UNCHANGED << claims, order, got, told, lost >> /\ CountWrite(r)
      /\ \A q \in Request \ {r} : pc'[q] = pc[q]
      /\ \/ pc[r] = "run" /\ pc'[r] = "wrote"
         \/ pc[r] = "fetched" /\ pc'[r] = "answer"
    BY <1>1 DEF Update, Delete, Goto, TypeOK
<1>3. \A q \in Request, k \in Key : RunsUnder(q, k)' => RunsUnder(q, k)
    BY <1>2 DEF RunsUnder, Running, KeyOf
<1>4. /\ KeyOf(r) \in Key => RunsUnder(r, KeyOf(r))
      /\ KeyOf(r) \in Key \cup {NoKey}
    BY <1>1, <1>2, OrderAssumption DEF RunsUnder, Running, KeyOf, Busy
<1>5. KeyOf(r) \in wrote => KeyOf(r) \in lost
    BY <1>1, <1>2, <1>4 DEF WriteSpent, TypeOK
<1>6. TypeOK'
    BY <1>1, TypingStep DEF Next, Statement
<1>7. Busy'
    BY <1>1, <1>2 DEF Busy, KeyOf
<1>8. OneHolder'
    BY <1>1, <1>2, <1>3 DEF OneHolder
<1>9. WriteSpent'
    <2> SUFFICES ASSUME NEW k \in wrote' \ lost
                 PROVE  /\ claims[k] # NoClaim
                        /\ \A q \in Request : RunsUnder(q, k)' => pc'[q] \notin {"run", "fetched"}
        BY <1>2 DEF WriteSpent
    <2>1. CASE k \in wrote
        BY <1>1, <1>2, <1>3, <2>1 DEF WriteSpent, TypeOK
    <2>2. CASE k \notin wrote
        <3>1. k = KeyOf(r) /\ k \in Key
            BY <1>2, <1>4, <2>2 DEF CountWrite
        <3>2. claims[k] # NoClaim /\ \A q \in Request : RunsUnder(q, k)' => q = r
            BY <1>1, <1>3, <1>4, <1>2, <3>1 DEF OneHolder
        <3> QED
            BY <1>2, <3>2
    <2> QED
        BY <2>1, <2>2
<1>10. WrittenOnce'
    BY <1>1, <1>2, <1>5 DEF WrittenOnce, CountWrite
<1>11. AnswersAgree' /\ SameAnswer' /\ OwnNotesOnly'
    BY <1>2, <1>3, ToldStays
<1>12. OwnResults'
    BY <1>1, <1>2 DEF OwnResults
<1> QED
    BY <1>6, <1>7, <1>8, <1>9, <1>10, <1>11, <1>12 DEF IInv

-----------------------------------------------------------------------------
(* The invariant, and what follows from it. *)

\* No request has begun: nothing is claimed, read or told.
LEMMA Initially == Init => IInv
<1> SUFFICES ASSUME Init PROVE IInv
    OBVIOUS
<1>1. TypeOK
    BY DEF Init, TypeOK, Phase, Status
<1>2. Busy /\ OneHolder /\ WriteSpent /\ WrittenOnce
    BY DEF Init, Busy, OneHolder, WriteSpent, WrittenOnce, RunsUnder, Running
<1>3. AnswersAgree /\ SameAnswer /\ OwnResults /\ OwnNotesOnly
    BY DEF Init, AnswersAgree, SameAnswer, OwnResults, OwnNotesOnly
<1> QED
    BY <1>1, <1>2, <1>3 DEF IInv

\* Whatever step is taken, by whichever request, keeps the invariant.
LEMMA InvStep == IInv /\ [Next]_vars => IInv'
<1> SUFFICES ASSUME IInv, [Next]_vars PROVE IInv'
    OBVIOUS
<1>1. CASE Next
    BY <1>1, BeginKeeps, ClaimKeeps, QuietKeeps, WriteKeeps, ReadClaimKeeps, CompleteKeeps,
       OthersKeep DEF Next, Statement
<1>2. CASE UNCHANGED vars
    BY <1>2 DEF vars, rowVars, reqVars, history, IInv, TypeOK, Busy, OneHolder, WriteSpent,
       WrittenOnce, AnswersAgree, SameAnswer, OwnResults, OwnNotesOnly, RunsUnder, Running,
       KeyOf
<1> QED
    BY <1>1, <1>2

\* In every reachable state a key whose claim is in the table is in the hands
\* of one request, which writes once and alone tells the result.
THEOREM Invariance == Spec => []IInv
<1>1. Init => IInv
    BY Initially
<1>2. IInv /\ [Next]_vars => IInv'
    BY InvStep
<1> QED
    BY <1>1, <1>2, PTL DEF Spec

\* The rows, the claims and every request's local variables keep their types.
THEOREM Typing == Spec => []TypeOK
<1>1. IInv => TypeOK
    BY DEF IInv
<1> QED
    BY <1>1, Invariance, PTL

\* Under a key whose claim is in the table a note is written once, however
\* many retries there are and wherever their servers crash.
THEOREM Once == Spec => []WrittenOnce
<1>1. IInv => WrittenOnce
    BY DEF IInv
<1> QED
    BY <1>1, Invariance, PTL

\* All the 200s of a user under such a key carry the same note.
THEOREM Same == Spec => []SameAnswer
<1>1. IInv => SameAnswer
    BY DEF IInv
<1> QED
    BY <1>1, Invariance, PTL

\* No answer carries the note of another user, fresh or replayed.
THEOREM Own == Spec => []OwnNotesOnly
<1>1. IInv => OwnNotesOnly
    BY DEF IInv
<1> QED
    BY <1>1, Invariance, PTL

\* A stored result is never replaced, and a claim never changes hands.
THEOREM Final == Spec => ResultIsFinal
<1> DEFINE Keeps == \A k \in Key :
              claims[k] # NoClaim => /\ claims'[k] # NoClaim
                                     /\ claims'[k].order = claims[k].order
                                     /\ claims[k].result # NoResult
                                           => claims'[k] = claims[k]
<1>1. IInv /\ [Next]_vars => [Keeps]_vars
    <2> SUFFICES ASSUME IInv, Next PROVE Keeps
        OBVIOUS
    <2>1. TypeOK /\ Busy
        BY DEF IInv
    <2>2. PICK r \in Request : (\E o \in Order : Begin(r, o)) \/ Statement(r) \/ Fail(r)
        BY DEF Next
    <2>3. CASE Claim(r)
        BY <2>1, <2>3 DEF Claim, TypeOK, Busy
    <2>4. CASE Complete(r)
        <3>1. order[r] \in Order /\ got[r] \in Result
            BY <2>1, <2>4 DEF Complete, Busy, TypeOK
        <3> QED
            BY <2>1, <2>4, <3>1, CompletedCases DEF Complete
    <2>5. CASE claims' = claims
        BY <2>5
    <2> QED
        BY <2>2, <2>3, <2>4, <2>5 DEF Statement, Begin, Collide, ReadClaim, ClaimDeadlock,
           Update, Get, GetNone, Delete, Fail
<1> QED
    BY <1>1, Invariance, PTL DEF Spec, ResultIsFinal

\* No PUT that runs beside a DELETE brings the note back or changes it.
THEOREM Frozen == Spec => DeletedIsFrozen
<1> DEFINE Keeps == \A n \in deleted : n \in deleted' /\ text'[n] = text[n]
<1>1. IInv /\ [Next]_vars => [Keeps]_vars
    <2> SUFFICES ASSUME IInv, Next PROVE Keeps
        OBVIOUS
    <2>1. TypeOK
        BY DEF IInv
    <2>2. PICK r \in Request : (\E o \in Order : Begin(r, o)) \/ Statement(r) \/ Fail(r)
        BY DEF Next
    <2>3. CASE Update(r)
        BY <2>1, <2>3 DEF Update, Matches, TypeOK
    <2>4. CASE Delete(r)
        BY <2>1, <2>4 DEF Delete, Matches, TypeOK
    <2>5. CASE UNCHANGED rowVars
        BY <2>5 DEF rowVars
    <2> QED
        BY <2>2, <2>3, <2>4, <2>5 DEF Statement, Begin, Claim, Collide, ReadClaim,
           ClaimDeadlock, Get, GetNone, Complete, Fail
<1> QED
    BY <1>1, Invariance, PTL DEF Spec, DeletedIsFrozen

-----------------------------------------------------------------------------
(* The statements implement KeyedWrites. *)

\* What the refinement needs beyond IInv: a note is written before its answer
\* is made, and an answer is about the note that its key's owner named.
WrittenFirst ==
    /\ \A r \in Request : pc[r] \in {"wrote", "answer"} /\ Keyed(r) => KeyOf(r) \in wrote
    /\ \A k \in Key : claims[k] # NoClaim /\ claims[k].result # NoResult => k \in wrote
OwnersNote ==
    /\ \A r \in Request : got[r] # NoResult => got[r].note = order[r].note
    /\ \A k \in Key : claims[k] # NoClaim => claims[k].order.key = k
    /\ \A k \in Key \ lost : claims[k] # NoClaim /\ claims[k].result # NoResult =>
          claims[k].result.note = claims[k].order.note
RInv == WrittenFirst /\ OwnersNote

\* A step that ends r's request, or none does.
LEMMA RInvStep == IInv /\ RInv /\ [Next]_vars => RInv'
<1> SUFFICES ASSUME IInv, RInv, [Next]_vars PROVE RInv'
    OBVIOUS
<1>0. TypeOK /\ Busy /\ OneHolder
    BY DEF IInv
<1> USE DEF RInv
<1>1. ASSUME NEW r \in Request, NEW o \in Order, Begin(r, o) PROVE RInv'
    BY <1>0, <1>1 DEF Begin, Goto, WrittenFirst, OwnersNote, TypeOK, rowVars, history, Busy,
       Keyed, KeyOf
<1>2. ASSUME NEW r \in Request, Claim(r) PROVE RInv'
    <2>1. order[r] \in Order /\ KeyOf(r) \in Key
        BY <1>0, <1>2 DEF Claim, Busy
    <2>2. PICK C \in {claims, [claims EXCEPT ![KeyOf(r)] = [order |-> order[r], result |-> NoResult]]} :
              claims' = C
        BY <1>2 DEF Claim
    <2>3. \A k \in Key : \/ claims'[k] = claims[k]
                         \/ /\ claims'[k] = [order |-> order[r], result |-> NoResult]
                            /\ k = KeyOf(r)
        BY <1>0, <2>1, <2>2 DEF TypeOK
    <2>4. lost \subseteq lost' /\ UNCHANGED << wrote, got, order >> /\ Goto(r, "run")
        BY <1>2 DEF Claim
    <2>5. WrittenFirst'
        BY <1>0, <2>3, <2>4 DEF WrittenFirst, Goto, TypeOK, Keyed, KeyOf
    <2>6. OwnersNote'
        BY <1>0, <2>1, <2>3, <2>4 DEF OwnersNote, KeyOf
    <2> QED
        BY <2>5, <2>6
<1>3. ASSUME NEW r \in Request, Collide(r) PROVE RInv'
    BY <1>0, <1>3 DEF Collide, Goto, WrittenFirst, OwnersNote, TypeOK, history, Keyed, KeyOf
<1>4. ASSUME NEW r \in Request, NEW status, NEW result, Answer(r, status, result),
             UNCHANGED << claims, history >>
      PROVE  RInv'
    <2>1. /\ pc'[r] = "idle" /\ got'[r] = NoResult
          /\ \A q \in Request \ {r} : pc'[q] = pc[q] /\ order'[q] = order[q] /\ got'[q] = got[q]
        BY <1>0, <1>4, AnswerStep
    <2>2. WrittenFirst'
        BY <1>4, <2>1 DEF WrittenFirst, Keyed, KeyOf, history
    <2>3. OwnersNote'
        BY <1>4, <2>1 DEF OwnersNote, history
    <2> QED
        BY <2>2, <2>3
<1>5. ASSUME NEW r \in Request, ReadClaim(r) PROVE RInv'
    <2>1. \E status, result : Answer(r, status, result)
        BY <1>0, <1>5, ReadClaimCases
    <2> QED
        BY <1>4, <1>5, <2>1 DEF ReadClaim
<1>6. ASSUME NEW r \in Request, ClaimDeadlock(r) \/ GetNone(r) \/ Fail(r) PROVE RInv'
    BY <1>4, <1>6 DEF ClaimDeadlock, GetNone, Fail
<1>7. ASSUME NEW r \in Request, Update(r) \/ Delete(r) PROVE RInv'
    <2>1. /\ UNCHANGED << claims, order, got, lost >>
          /\ wrote' = wrote \cup ({KeyOf(r)} \ {NoKey})
          /\ \A q \in Request \ {r} : pc'[q] = pc[q]
        BY <1>0, <1>7 DEF Update, Delete, CountWrite, Goto, TypeOK
    <2> QED
        BY <2>1 DEF WrittenFirst, OwnersNote, Keyed, KeyOf
<1>8. ASSUME NEW r \in Request, Get(r) PROVE RInv'
    <2>1. /\ UNCHANGED << claims, order, history >>
          /\ got'[r] = [note |-> order[r].note, text |-> text[order[r].note]]
          /\ pc'[r] = IF pc[r] = "wrote" THEN "answer" ELSE "fetched"
          /\ \A q \in Request \ {r} : pc'[q] = pc[q] /\ got'[q] = got[q]
        BY <1>0, <1>8 DEF Get, Goto, TypeOK
    <2>2. WrittenFirst'
        BY <2>1 DEF WrittenFirst, Keyed, KeyOf, history
    <2>3. OwnersNote'
        BY <2>1 DEF OwnersNote, history
    <2> QED
        BY <2>2, <2>3
<1>9. ASSUME NEW r \in Request, Complete(r) PROVE RInv'
    <2>1. /\ order[r] \in Order /\ got[r] \in Result /\ got[r] # NoResult
          /\ Answer(r, "ok", got[r]) /\ UNCHANGED history /\ pc[r] = "answer"
        BY <1>0, <1>9 DEF Complete, Busy, TypeOK
    <2>2. /\ pc'[r] = "idle" /\ got'[r] = NoResult
          /\ \A q \in Request \ {r} : pc'[q] = pc[q] /\ order'[q] = order[q] /\ got'[q] = got[q]
        BY <1>0, <2>1, AnswerStep
    <2>3. \A k \in Key :
              \/ claims'[k] = claims[k]
              \/ /\ k = KeyOf(r) /\ claims[k] # NoClaim /\ claims'[k] # NoClaim
                 /\ claims'[k].order = claims[k].order /\ claims'[k].result = got[r]
        BY <1>0, <1>9, <2>1, CompletedCases DEF Complete
    <2>4. \A k \in Key : k = KeyOf(r) => Keyed(r) /\ k \in wrote
        BY <2>1, NullAssumption DEF WrittenFirst, Keyed
    <2>5. \A k \in Key \ lost : k = KeyOf(r) => claims[k].order = order[r]
        BY <1>0, <2>1 DEF OneHolder, RunsUnder, Running
    <2>6. WrittenFirst'
        <3>1. \A k \in Key : claims'[k] # NoClaim /\ claims'[k].result # NoResult => k \in wrote
            BY <2>3, <2>4 DEF WrittenFirst
        <3> QED
            BY <2>1, <2>2, <3>1 DEF WrittenFirst, Keyed, KeyOf, history
    <2>7. OwnersNote'
        <3>1. \A k \in Key : claims'[k] # NoClaim => claims'[k].order.key = k
            BY <2>3 DEF OwnersNote
        <3>2. \A k \in Key \ lost : claims'[k] # NoClaim /\ claims'[k].result # NoResult =>
                  claims'[k].result.note = claims'[k].order.note
            BY <2>1, <2>3, <2>5 DEF OwnersNote
        <3>3. \A q \in Request : got'[q] # NoResult => got'[q].note = order'[q].note
            BY <2>2 DEF OwnersNote
        <3> QED
            BY <2>1, <3>1, <3>2, <3>3 DEF OwnersNote, history
    <2> QED
        BY <2>6, <2>7
<1>10. CASE UNCHANGED vars
    BY <1>10 DEF vars, rowVars, reqVars, history, WrittenFirst, OwnersNote, Keyed, KeyOf
<1> QED
    BY <1>1, <1>2, <1>3, <1>5, <1>6, <1>7, <1>8, <1>9, <1>10 DEF Next, Statement

OwnerBar == [k \in Key |-> IF claims[k] = NoClaim THEN NoOrder ELSE claims[k].order]
WritesBar == [k \in Key |-> IF k \in rewrote THEN 2 ELSE IF k \in wrote THEN 1 ELSE 0]
GivenBar ==
    {[order |-> a.order, result |-> a.result] : a \in {t \in told : t.status = "ok"}}

\* The operations of KeyedWrites.
LEMMA KeySteps ==
    /\ \A k \in Key : Promise!Lose(k) \/ Promise!Write(k) => Promise!KeyNext
    /\ \A k \in Key, o \in Order : Promise!Own(k, o) => Promise!KeyNext
    /\ \A o \in Order, result \in Result : Promise!Reply(o, result) => Promise!KeyNext
BY DEF Promise!KeyNext

\* A step that no client sees and that writes under no key.
LEMMA Unseen ==
    ASSUME UNCHANGED << claims, told, history >>
    PROVE  UNCHANGED Promise!keyVars
BY DEF Promise!keyVars, history

\* The end of a request is a reply, or nothing.
LEMMA EndRefines ==
    ASSUME IInv, NEW r \in Request, NEW status, NEW result, Answer(r, status, result),
           order[r] \in Order, UNCHANGED history, OwnerBar' = OwnerBar,
           status = "ok" => result \in Result,
           status = "ok" /\ KeyOf(r) \in Key \ lost =>
               /\ claims[KeyOf(r)] # NoClaim /\ KeyOf(r) \in wrote
               /\ claims[KeyOf(r)].order.user = order[r].user
               /\ claims[KeyOf(r)].order.text = order[r].text
               /\ result.note = claims[KeyOf(r)].order.note
               /\ \A a \in told : a.status = "ok" /\ a.order.key = KeyOf(r) => a.result = result
    PROVE  [Promise!KeyNext]_(Promise!keyVars)
<1> DEFINE k == KeyOf(r)
           a == [order |-> order[r], status |-> status, result |-> result]
<1>1. WritesBar' = WritesBar /\ lost' = lost
    BY DEF WritesBar, history
<1>2. CASE GivenBar' = GivenBar
    BY <1>1, <1>2 DEF Promise!keyVars, OwnerBar, WritesBar, GivenBar
<1>3. CASE GivenBar' # GivenBar
    <2>1. status = "ok" /\ Keyed(r) /\ told' = told \cup {a}
        <3>1. told' # told
            BY <1>3 DEF GivenBar
        <3>2. told' = told \cup {a} /\ status \in {"ok", "notfound"} /\ Keyed(r)
            BY <3>1 DEF Answer
        <3>3. CASE status = "notfound"
            <4>1. {t \in told' : t.status = "ok"} = {t \in told : t.status = "ok"}
                BY <3>2, <3>3
            <4> QED
                BY <1>3, <4>1 DEF GivenBar
        <3> QED
            BY <3>2, <3>3
    <2>2. k \in Key /\ k = order[r].key
        BY <2>1, OrderAssumption DEF Keyed, KeyOf
    <2>3. GivenBar' = GivenBar \cup {[order |-> order[r], result |-> result]}
        <3>1. {t \in told' : t.status = "ok"} = {t \in told : t.status = "ok"} \cup {a}
            BY <2>1
        <3>2. a.order = order[r] /\ a.result = result
            OBVIOUS
        <3> DEFINE pick(t) == [order |-> t.order, result |-> t.result]
                   S == {t \in told : t.status = "ok"}
        <3> HIDE DEF a, S
        <3>3. {pick(t) : t \in S \cup {a}} = {pick(t) : t \in S} \cup {pick(a)}
            OBVIOUS
        <3> QED
            BY <3>1, <3>2, <3>3 DEF GivenBar, S
    <2>4. k \in lost \/ Promise!Entitled(order[r], result)
        <3> SUFFICES ASSUME k \notin lost PROVE Promise!Entitled(order[r], result)
            OBVIOUS
        <3>1. claims[k].order \in Order /\ claims[k] # NoClaim
            BY <2>1, <2>2 DEF IInv, TypeOK
        <3>2. OwnerBar[k] = claims[k].order /\ OwnerBar[k] # NoOrder
            BY <2>2, <3>1, NullAssumption DEF OwnerBar
        <3>3. WritesBar[k] = 1
            BY <2>1, <2>2 DEF WritesBar, IInv, WrittenOnce
        <3>4. \A g \in GivenBar : g.order.key = k => g.result = result
            BY <2>1, <2>2 DEF GivenBar
        <3> QED
            BY <2>1, <2>2, <3>2, <3>3, <3>4 DEF Promise!Entitled, OwnerBar, WritesBar, GivenBar
    <2>5. Promise!Reply(order[r], result)
        BY <1>1, <2>2, <2>3, <2>4 DEF Promise!Reply, OwnerBar, WritesBar, GivenBar
    <2> QED
        BY <2>1, <2>5, KeySteps
<1> QED
    BY <1>2, <1>3

\* A write under a key is counted, under a key that is not lost the first time only.
LEMMA WriteRefines ==
    ASSUME IInv, NEW r \in Request, Update(r) \/ Delete(r)
    PROVE  [Promise!KeyNext]_(Promise!keyVars)
<1>1. /\ UNCHANGED << claims, told, lost >> /\ CountWrite(r)
      /\ pc[r] \in {"run", "fetched"} /\ order[r] \in Order
    BY DEF Update, Delete, IInv, Busy
<1>2. OwnerBar' = OwnerBar /\ GivenBar' = GivenBar
    BY <1>1 DEF OwnerBar, GivenBar
<1>3. CASE KeyOf(r) = NoKey
    <2>1. wrote' = wrote /\ rewrote' = rewrote
        BY <1>1, <1>3, NullAssumption DEF CountWrite, IInv, TypeOK
    <2> QED
        BY <1>1, <2>1, Unseen DEF history
<1>4. CASE KeyOf(r) # NoKey
    <2>1. PICK k \in Key : k = KeyOf(r)
        BY <1>1, <1>4, OrderAssumption DEF KeyOf
    <2>2. wrote' = wrote \cup {k} /\ rewrote' = rewrote \cup ({k} \cap wrote)
        BY <1>1, <1>4, <2>1 DEF CountWrite
    <2>3. WritesBar' = [WritesBar EXCEPT ![k] = IF @ = 2 THEN 2 ELSE @ + 1]
        <3>1. rewrote \subseteq wrote
            BY DEF IInv, TypeOK
        <3>2. \A j \in Key : WritesBar'[j] = IF j = k THEN (IF WritesBar[j] = 2 THEN 2 ELSE WritesBar[j] + 1)
                                                     ELSE WritesBar[j]
            BY <2>2, <3>1 DEF WritesBar
        <3>3. /\ WritesBar = [j \in Key |-> WritesBar[j]]
              /\ WritesBar' = [j \in Key |-> WritesBar'[j]]
            BY DEF WritesBar
        <3> QED
            BY <2>1, <3>2, <3>3
    <2>4. k \in lost \/ (OwnerBar[k] # NoOrder /\ WritesBar[k] = 0)
        <3> SUFFICES ASSUME k \notin lost PROVE OwnerBar[k] # NoOrder /\ WritesBar[k] = 0
            OBVIOUS
        <3>1. claims[k] # NoClaim /\ claims[k].order = order[r]
            BY <1>1, <2>1 DEF IInv, OneHolder, RunsUnder, Running
        <3>2. k \notin wrote /\ k \notin rewrote
            BY <1>1, <2>1 DEF IInv, TypeOK, WriteSpent, RunsUnder, Running
        <3> QED
            BY <1>1, <2>1, <3>1, <3>2, NullAssumption DEF OwnerBar, WritesBar
    <2>5. Promise!Write(k)
        BY <1>1, <1>2, <2>3, <2>4 DEF Promise!Write, OwnerBar, WritesBar, GivenBar
    <2> QED
        BY <2>1, <2>5, KeySteps
<1> QED
    BY <1>3, <1>4

\* A Claim gives the key its owner, or loses it.
LEMMA ClaimRefines ==
    ASSUME IInv, NEW r \in Request, Claim(r)
    PROVE  [Promise!KeyNext]_(Promise!keyVars)
<1> DEFINE new == [order |-> order[r], result |-> NoResult]
<1>1. PICK k \in Key, o \in Order :
      /\ k = KeyOf(r) /\ o = order[r] /\ o.key = k
      /\ claims[k] = NoClaim /\ UNCHANGED << told, wrote, rewrote >>
    BY DEF Claim, IInv, Busy, KeyOf
<1>2. OwnerBar[k] = NoOrder /\ GivenBar' = GivenBar /\ WritesBar' = WritesBar
    BY <1>1 DEF OwnerBar, GivenBar, WritesBar
<1>3. CASE claims' = [claims EXCEPT ![k] = new] /\ lost' = lost
    <2>1. new # NoClaim
        BY <1>1, NullAssumption
    <2>2. \A j \in Key : claims'[j] = IF j = k THEN new ELSE claims[j]
        BY <1>1, <1>3 DEF IInv, TypeOK
    <2>3. OwnerBar' = [OwnerBar EXCEPT ![k] = o]
        <3>1. \A j \in Key : OwnerBar'[j] = IF j = k THEN o ELSE OwnerBar[j]
            <4>1. new.order = o
                BY <1>1
            <4> HIDE DEF new
            <4> QED
                BY <2>1, <2>2, <4>1 DEF OwnerBar
        <3>2. OwnerBar = [j \in Key |-> OwnerBar[j]] /\ OwnerBar' = [j \in Key |-> OwnerBar'[j]]
            BY DEF OwnerBar
        <3> QED
            BY <1>1, <3>1, <3>2
    <2>4. Promise!Own(k, o)
        BY <1>1, <1>2, <1>3, <2>3 DEF Promise!Own, OwnerBar, WritesBar, GivenBar
    <2> QED
        BY <1>1, <2>4, KeySteps
<1>4. CASE claims' = claims /\ lost' = lost \cup {k}
    <2>1. OwnerBar' = OwnerBar
        BY <1>4 DEF OwnerBar
    <2>2. Promise!Lose(k)
        BY <1>2, <1>4, <2>1 DEF Promise!Lose, OwnerBar, WritesBar, GivenBar
    <2> QED
        BY <1>1, <2>2, KeySteps
<1> QED
    BY <1>1, <1>3, <1>4 DEF Claim

\* A replay answers as the owner was answered, and a run as the owner.
LEMMA Simulation == IInv /\ RInv /\ [Next]_vars => [Promise!KeyNext]_(Promise!keyVars)
<1> SUFFICES ASSUME IInv, RInv, [Next]_vars PROVE [Promise!KeyNext]_(Promise!keyVars)
    OBVIOUS
<1>0. TypeOK /\ Busy /\ OneHolder /\ AnswersAgree
    BY DEF IInv
<1>1. ASSUME NEW r \in Request,
             \/ \E o \in Order : Begin(r, o)
             \/ Collide(r) \/ Get(r)
      PROVE  [Promise!KeyNext]_(Promise!keyVars)
    BY <1>1, Unseen DEF Begin, Collide, Get
<1>2. ASSUME NEW r \in Request, ReadClaim(r) PROVE [Promise!KeyNext]_(Promise!keyVars)
    <2> DEFINE k == KeyOf(r)
    <2>1. order[r] \in Order /\ k \in Key /\ claims[k] # NoClaim
        BY <1>0, <1>2 DEF ReadClaim, Busy
    <2>2. UNCHANGED << claims, history >> /\ OwnerBar' = OwnerBar
        BY <1>2 DEF ReadClaim, OwnerBar
    <2>3. PICK status \in Status, result \in Result \cup {NoResult} :
              /\ Answer(r, status, result)
              /\ status = "ok" => /\ result # NoResult /\ result = claims[k].result
                                  /\ claims[k].order.user = order[r].user
                                  /\ claims[k].order.text = order[r].text
        <3>1. CASE claims[k].order.user # order[r].user
            BY <1>2, <3>1 DEF ReadClaim, Status
        <3>2. CASE claims[k].order.user = order[r].user /\ claims[k].order.text # order[r].text
            BY <1>2, <3>2 DEF ReadClaim, Status
        <3>3. CASE claims[k].order.user = order[r].user /\ claims[k].order.text = order[r].text
            <4>1. claims[k].result \in Result \cup {NoResult}
                BY <1>0, <2>1 DEF TypeOK
            <4> QED
                BY <1>2, <3>3, <4>1 DEF ReadClaim, Status
        <3> QED
            BY <3>1, <3>2, <3>3
    <2>4. status = "ok" =>
              k \in wrote /\ (k \notin lost => result.note = claims[k].order.note)
        BY <2>1, <2>3 DEF RInv, WrittenFirst, OwnersNote
    <2>5. status = "ok" /\ k \notin lost =>
              \A a \in told : a.status = "ok" /\ a.order.key = k => a.result = result
        BY <1>0, <2>1, <2>3 DEF AnswersAgree
    <2> QED
        BY <2>1, <2>2, <2>3, <2>4, <2>5, EndRefines
<1>3. ASSUME NEW r \in Request, ClaimDeadlock(r) \/ GetNone(r) \/ Fail(r)
      PROVE  [Promise!KeyNext]_(Promise!keyVars)
    <2>1. order[r] \in Order /\ UNCHANGED history /\ claims' = claims
        BY <1>0, <1>3 DEF Busy, ClaimDeadlock, GetNone, Fail
    <2>2. PICK status \in {"error", "notfound"} : Answer(r, status, NoResult)
        BY <1>3 DEF ClaimDeadlock, GetNone, Fail
    <2>3. OwnerBar' = OwnerBar
        BY <2>1 DEF OwnerBar
    <2> QED
        BY <2>1, <2>2, <2>3, EndRefines
<1>4. ASSUME NEW r \in Request, Complete(r) PROVE [Promise!KeyNext]_(Promise!keyVars)
    <2> DEFINE k == KeyOf(r)
    <2>1. /\ order[r] \in Order /\ got[r] \in Result /\ got[r] # NoResult
          /\ Running(r) /\ pc[r] = "answer" /\ Answer(r, "ok", got[r]) /\ UNCHANGED history
        BY <1>0, <1>4 DEF Complete, Busy, TypeOK, Running
    <2>2. OwnerBar' = OwnerBar
        <3>1. \A j \in Key :
                  \/ claims'[j] = claims[j]
                  \/ /\ claims[j] # NoClaim /\ claims'[j] # NoClaim
                     /\ claims'[j].order = claims[j].order
            BY <1>0, <1>4, <2>1, CompletedCases DEF Complete
        <3> QED
            BY <3>1 DEF OwnerBar
    <2>3. k \in Key \ lost =>
              /\ claims[k] # NoClaim /\ claims[k].order = order[r] /\ k \in wrote
              /\ got[r].note = order[r].note
              /\ \A a \in told : ~ (a.status = "ok" /\ a.order.key = k)
        BY <1>0, <2>1, NullAssumption
           DEF OneHolder, RunsUnder, AnswersAgree, RInv, WrittenFirst, OwnersNote, Keyed
    <2> QED
        BY <2>1, <2>2, <2>3, EndRefines
<1>5. CASE UNCHANGED vars
    BY <1>5, Unseen DEF vars, history
<1> QED
    BY <1>1, <1>2, <1>3, <1>4, <1>5, ClaimRefines, WriteRefines DEF Next, Statement

\* The concurrent requests, with their failures and retries, implement the
\* promise of a key: one owner, one write, one answer, about the owner's note.
THEOREM Promised == Spec => KeepsPromise
<1>1. Init => Promise!KeyInit
    BY NullAssumption DEF Init, Promise!KeyInit
<1>2. Init => RInv
    BY DEF Init, RInv, WrittenFirst, OwnersNote
<1>3. IInv /\ RInv /\ [Next]_vars => RInv'
    BY RInvStep
<1>4. IInv /\ RInv /\ [Next]_vars => [Promise!KeyNext]_(Promise!keyVars)
    BY Simulation
<1> QED
    BY <1>1, <1>2, <1>3, <1>4, Invariance, PTL DEF Spec, KeepsPromise, Promise!KeySpec
=============================================================================
