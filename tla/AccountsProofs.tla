-------------------------- MODULE AccountsProofs --------------------------
(***************************************************************************)
(* Proofs about Accounts, for any requests, e-mails and number of ids.     *)
(***************************************************************************)
EXTENDS Accounts, TLAPS

\* The row a request is about, and what it has established before.
RowOf(r) ==
    /\ Registers(r) => row[r] \in Id \X {"user"} /\ accounts[row[r][1]] = ask[r].email
    /\ ask[r].what = "seed" => row[r] \in Id \X {"admin"} /\ seeded
    /\ Changes(r) => /\ row[r] = << ask[r].target, ask[r].role >>
                     /\ << ask[r].by, "admin" >> \in seen[r]

\* What each request is at each of its statements.
EnteredBy(r) ==
    /\ pc[r] # "idle" => ask[r] \in Ask
    /\ pc[r] = "create" => Registers(r)
    /\ pc[r] = "find" => ask[r].what = "seed"
    /\ pc[r] = "gate" => Changes(r)
    /\ pc[r] = "assign" => ask[r].what # "remove" /\ RowOf(r)
    /\ pc[r] = "unassign" => ask[r].what = "remove" /\ RowOf(r)
Entered == \A r \in Request : EnteredBy(r)

\* The ids not yet given have no account.
Unused == \A i \in Id : i >= next => accounts[i] = NoEmail

\* Without a seed no request under way has seen an admin either.
NoneSeen ==
    ~ seeded => \A i \in Id, r \in Request : << i, "admin" >> \notin seen[r]

IInv ==
    /\ TypeOK /\ Entered /\ Unused
    /\ RegisteredOnce
    /\ AdminsComeFromOperators /\ NoneSeen
    /\ RegisteredAreUsers

-----------------------------------------------------------------------------
LEMMA InitInvariant == Init => IInv
<1> SUFFICES ASSUME Init PROVE IInv
    OBVIOUS
<1> USE DEF Init
<1>1. TypeOK
    <2>1. accounts \in [Id -> Email \cup {NoEmail}] /\ next \in 1 .. LastId + 1
        BY AskAssumption
    <2>2. pc \in [Request -> Phase] /\ ask \in [Request -> Ask \cup {NoAsk}]
        BY DEF Phase
    <2>3. seen \in [Request -> SUBSET Row] /\ missing \in [Request -> SUBSET Row]
        OBVIOUS
    <2> QED
        BY <2>1, <2>2, <2>3 DEF TypeOK
<1>2. Entered /\ Unused /\ NoneSeen
    BY DEF Entered, EnteredBy, Unused, NoneSeen
<1>3. RegisteredOnce /\ AdminsComeFromOperators /\ RegisteredAreUsers
    BY DEF RegisteredOnce, AdminsComeFromOperators, RegisteredAreUsers
<1> QED
    BY <1>1, <1>2, <1>3 DEF IInv

\* A request that is asked for is of one of the four kinds.
LEMMA Kinds ==
    ASSUME NEW a \in Ask
    PROVE  /\ a.what \in {"register", "seed", "add", "remove"}
           /\ a.what \in {"register", "seed"} => a.email \in Email
           /\ a.what \in {"add", "remove"} =>
                 /\ a \in Change /\ a.by \in Id
                 /\ a.target \in Id /\ a.role \in Role \cup {"other"}
BY AskAssumption DEF Entry, Change

\* History variables of a step keep their types.
LEMMA WatchTyping ==
    ASSUME TypeOK, userRoles' \subseteq Id \X Role, Watch
    PROVE  /\ seen' \in [Request -> SUBSET Row] /\ missing' \in [Request -> SUBSET Row]
           /\ \A q \in Request : pc'[q] # "idle" => seen'[q] = seen[q] \cup userRoles'
           /\ \A q \in Request : seen'[q] \subseteq seen[q] \cup userRoles'
BY DEF TypeOK, Watch, Row, Role

\* A request that is about to write has the row of an id and of a role.
LEMMA RowTyping ==
    ASSUME NEW r \in Request, Entered, pc[r] \in {"assign", "unassign"}
    PROVE  /\ ask[r] \in Ask /\ RowOf(r)
           /\ ask[r].what \in IF pc[r] = "assign" THEN {"register", "seed", "add"} ELSE {"remove"}
           /\ row[r] = << row[r][1], row[r][2] >>
           /\ row[r][1] \in Id /\ row[r][2] \in Role \cup {"other"}
           /\ Changes(r) => ask[r].by \in Id
<1>1. /\ ask[r] \in Ask /\ RowOf(r)
      /\ ask[r].what \in IF pc[r] = "assign" THEN {"register", "seed", "add"} ELSE {"remove"}
    BY Kinds DEF Entered, EnteredBy
<1>2. CASE ask[r].what = "register"
    BY <1>1, <1>2 DEF RowOf, Registers, Changes, Role
<1>3. CASE ask[r].what = "seed"
    BY <1>1, <1>3 DEF RowOf, Registers, Changes, Role
<1>4. CASE ask[r].what \in {"add", "remove"}
    BY <1>1, <1>4, Kinds DEF RowOf, Changes
<1> QED
    BY <1>1, <1>2, <1>3, <1>4

\* A step of another request leaves q where it is: accounts stay, and what q
\* has seen stays seen.
LEMMA Frame ==
    ASSUME NEW q \in Request, TypeOK, EnteredBy(q),
           pc'[q] = pc[q], ask'[q] = ask[q], row'[q] = row[q],
           seeded => seeded',
           pc'[q] # "idle" => seen[q] \subseteq seen'[q],
           \A i \in Id : accounts[i] # NoEmail => accounts'[i] = accounts[i]
    PROVE  EnteredBy(q)'
<1>1. CASE pc[q] \in {"assign", "unassign"} /\ Registers(q)
    <2>1. ask[q] \in Ask /\ ask[q].email # NoEmail
        BY <1>1, Kinds, NullAssumption DEF EnteredBy, Registers
    <2>2. row[q] \in Id \X {"user"} /\ accounts[row[q][1]] = ask[q].email
        BY <1>1 DEF EnteredBy, RowOf
    <2>3. accounts'[row[q][1]] = ask[q].email
        BY <2>1, <2>2
    <2> QED
        BY <1>1, <2>2, <2>3 DEF EnteredBy, RowOf, Registers, Changes
<1>2. CASE ~ (pc[q] \in {"assign", "unassign"} /\ Registers(q))
    BY <1>2 DEF EnteredBy, RowOf, Registers, Changes
<1> QED
    BY <1>1, <1>2

\* Each step keeps the invariant.
LEMMA StepInvariant == IInv /\ [Next]_vars => IInv'
<1> SUFFICES ASSUME IInv, [Next]_vars PROVE IInv'
    OBVIOUS
<1> USE DEF IInv, tableVars, history
<1>1. ASSUME NEW r \in Request, NEW a \in Ask, Begin(r, a) PROVE IInv'
    <2> USE <1>1 DEF Begin
    <2>1. TypeOK'
        BY WatchTyping, Kinds DEF TypeOK, Goto, Phase
    <2>2. EnteredBy(r)'
        BY Kinds DEF TypeOK, EnteredBy, Registers, Changes, Goto
    <2>2a. \A q \in Request \ {r} : EnteredBy(q)'
        BY Frame, WatchTyping DEF TypeOK, Entered, Goto
    <2>3. (Unused /\ RegisteredOnce /\ AdminsComeFromOperators /\ NoneSeen /\ RegisteredAreUsers)'
        BY <2>1, WatchTyping
           DEF TypeOK, Unused, RegisteredOnce, AdminsComeFromOperators, NoneSeen, RegisteredAreUsers
    <2> QED
        BY <2>1, <2>2, <2>2a, <2>3 DEF Entered
<1>2. ASSUME NEW r \in Request, Create(r) PROVE IInv'
    <2> USE <1>2 DEF Create
    <2>1. Registers(r) /\ ask[r] \in Ask /\ ask[r].email \in Email
        BY Kinds DEF Entered, EnteredBy, Registers
    <2>2. TypeOK'
        <3>1. next' \in 1 .. LastId + 1
            BY AskAssumption DEF TypeOK, Id
        <3>2. row' \in [Request -> Row \cup {NoRow}]
            BY DEF TypeOK, Take, Row, Role
        <3>3. pc' \in [Request -> Phase] /\ ask' = ask /\ answer' = answer
            BY DEF TypeOK, Take, Goto, Phase
        <3> QED
            BY <2>1, <3>1, <3>2, <3>3, WatchTyping DEF TypeOK
    <2>3. accounts' = [accounts EXCEPT ![next] = ask[r].email] /\ accounts[next] = NoEmail
        BY DEF Unused, TypeOK, Id
    <2>4. EnteredBy(r)'
        BY <2>1, <2>3 DEF TypeOK, EnteredBy, RowOf, Registers, Changes, Take, Goto, Id
    <2>4a. \A q \in Request \ {r} : EnteredBy(q)'
        BY <2>3, Frame, WatchTyping DEF TypeOK, Entered, Take, Goto
    <2>5. Unused'
        BY <2>3, AskAssumption DEF TypeOK, Unused, Id
    <2>6. RegisteredOnce'
        <3>1. \A i, j \in Id : accounts'[i] # NoEmail /\ accounts'[i] = accounts'[j] => i = j
            BY <2>3 DEF TypeOK, RegisteredOnce, Taken
        <3>2. ASSUME NEW x \in told PROVE x[1] \in Id /\ x[1] # next /\ accounts[x[1]] = x[2]
            BY <2>3, NullAssumption DEF TypeOK, RegisteredOnce
        <3> QED
            BY <2>3, <3>1, <3>2 DEF TypeOK, RegisteredOnce
    <2>7. (AdminsComeFromOperators /\ NoneSeen /\ RegisteredAreUsers)'
        BY <2>2, WatchTyping DEF TypeOK, AdminsComeFromOperators, NoneSeen, RegisteredAreUsers
    <2> QED
        BY <2>2, <2>4, <2>4a, <2>5, <2>6, <2>7 DEF Entered
<1>3. ASSUME NEW r \in Request, CreateConflict(r) PROVE IInv'
    <2> USE <1>3 DEF CreateConflict, Answer
    <2>1. TypeOK'
        BY WatchTyping DEF TypeOK, Goto, Phase
    <2>2. Entered'
        BY Frame, WatchTyping DEF TypeOK, Entered, EnteredBy, Goto
    <2>3. (Unused /\ RegisteredOnce /\ AdminsComeFromOperators /\ NoneSeen /\ RegisteredAreUsers)'
        BY <2>1, WatchTyping
           DEF TypeOK, Unused, RegisteredOnce, AdminsComeFromOperators, NoneSeen,
               RegisteredAreUsers, Id
    <2> QED
        BY <2>1, <2>2, <2>3
<1>4. ASSUME NEW r \in Request, Find(r) PROVE IInv'
    <2> USE <1>4 DEF Find
    <2>0. ask[r].what = "seed" /\ ~ Registers(r)
        BY DEF Entered, EnteredBy, Registers
    <2>1. TypeOK'
        <3>1. told' = told
            BY <2>0 DEF Answer
        <3>2. /\ pc' \in [Request -> Phase] /\ ask' \in [Request -> Ask \cup {NoAsk}]
              /\ row' \in [Request -> Row \cup {NoRow}]
              /\ answer' \in [Request -> {"none", "ok", "refused", "error"}]
            BY DEF TypeOK, Take, Answer, Goto, Phase, Row, Role
        <3> QED
            BY <3>1, <3>2, WatchTyping DEF TypeOK
    <2>2. \A q \in Request \ {r} : EnteredBy(q)'
        BY Frame, WatchTyping DEF TypeOK, Entered, Take, Answer, Goto
    <2>3. EnteredBy(r)'
        BY DEF TypeOK, Entered, EnteredBy, RowOf, Registers, Changes, Take, Answer, Goto
    <2>4. told' = told
        BY <2>0 DEF Answer
    <2>5. (Unused /\ RegisteredOnce /\ AdminsComeFromOperators /\ NoneSeen /\ RegisteredAreUsers)'
        BY <2>1, <2>4, WatchTyping
           DEF TypeOK, Unused, RegisteredOnce, AdminsComeFromOperators, NoneSeen, RegisteredAreUsers
    <2> QED
        BY <2>1, <2>2, <2>3, <2>5 DEF Entered
<1>5. ASSUME NEW r \in Request, Enter(r) PROVE IInv'
    <2> USE <1>5 DEF Enter
    <2>1. /\ ask[r] \in Ask /\ Changes(r) /\ ~ Registers(r)
          /\ ask[r].target \in Id /\ ask[r].role \in Role \cup {"other"}
          /\ ask[r].what \in {"add", "remove"}
        BY Kinds DEF Entered, EnteredBy, Changes, Registers
    <2>2. told' = told
        BY <2>1 DEF Answer
    <2>3. TypeOK'
        BY <2>1, <2>2, WatchTyping DEF TypeOK, Take, Answer, Goto, Phase, Row
    <2>4. \A q \in Request \ {r} : EnteredBy(q)'
        BY Frame, WatchTyping DEF TypeOK, Entered, Take, Answer, Goto
    <2>5. EnteredBy(r)'
        <3>1. CASE Has(ask[r].by, "admin")
            <4>1. /\ pc'[r] = IF ask[r].what = "add" THEN "assign" ELSE "unassign"
                  /\ ask' = ask /\ row'[r] = << ask[r].target, ask[r].role >>
                BY <3>1 DEF Take, Goto, TypeOK
            <4>2. << ask[r].by, "admin" >> \in seen'[r]
                BY <3>1, <4>1, WatchTyping DEF Has, TypeOK
            <4> QED
                BY <2>1, <4>1, <4>2 DEF EnteredBy, RowOf, Registers, Changes
        <3>2. CASE ~ Has(ask[r].by, "admin")
            BY <3>2 DEF EnteredBy, Answer, Goto, TypeOK
        <3> QED
            BY <3>1, <3>2
    <2>6. (Unused /\ RegisteredOnce /\ AdminsComeFromOperators /\ NoneSeen /\ RegisteredAreUsers)'
        BY <2>2, <2>3, WatchTyping
           DEF TypeOK, Unused, RegisteredOnce, AdminsComeFromOperators, NoneSeen, RegisteredAreUsers
    <2> QED
        BY <2>3, <2>4, <2>5, <2>6 DEF Entered
<1>6. ASSUME NEW r \in Request, NoRole(r) PROVE IInv'
    <2> USE <1>6 DEF NoRole, Answer
    <2>1. TypeOK'
        BY WatchTyping DEF TypeOK, Goto, Phase
    <2>2. Entered'
        BY Frame, WatchTyping DEF TypeOK, Entered, EnteredBy, Goto
    <2>3. (Unused /\ RegisteredOnce /\ AdminsComeFromOperators /\ NoneSeen /\ RegisteredAreUsers)'
        BY <2>1, WatchTyping
           DEF TypeOK, Unused, RegisteredOnce, AdminsComeFromOperators, NoneSeen, RegisteredAreUsers
    <2> QED
        BY <2>1, <2>2, <2>3
<1>7. ASSUME NEW r \in Request, Assign(r) PROVE IInv'
    <2> USE <1>7 DEF Assign
    <2>0. row[r] = << row[r][1], row[r][2] >> /\ row[r][1] \in Id
        BY RowTyping
    <2>1. /\ ask[r] \in Ask /\ ask[r].what \in {"register", "seed", "add"} /\ RowOf(r)
          /\ row[r] \in Id \X Role
        BY <2>0, RowTyping
    <2>2. Registers(r) => /\ << row[r][1], ask[r].email >> \in Id \X Email
                          /\ accounts[row[r][1]] = ask[r].email
                          /\ << row[r][1], "user" >> \in userRoles'
        BY <2>1, Kinds DEF RowOf, Registers
    <2>3. TypeOK'
        BY <2>1, <2>2, WatchTyping DEF TypeOK, Answer, Goto, Phase
    <2>4. \A q \in Request \ {r} : EnteredBy(q)'
        BY Frame, WatchTyping, <2>3 DEF TypeOK, Entered, Answer, Goto
    <2>5. EnteredBy(r)'
        BY DEF TypeOK, EnteredBy, Answer, Goto
    <2>6. RegisteredOnce' /\ RegisteredAreUsers' /\ Unused'
        BY <2>2 DEF Answer, RegisteredOnce, RegisteredAreUsers, Unused
    <2>7. ~ seeded => row[r][2] # "admin"
        BY <2>1, RowTyping DEF RowOf, Registers, Changes, NoneSeen
    <2>8. AdminsComeFromOperators' /\ NoneSeen'
        BY <2>3, <2>7, WatchTyping DEF AdminsComeFromOperators, NoneSeen, TypeOK
    <2> QED
        BY <2>3, <2>4, <2>5, <2>6, <2>8 DEF Entered
<1>8. ASSUME NEW r \in Request, Unassign(r) PROVE IInv'
    <2> USE <1>8 DEF Unassign, Removed
    <2>1. row[r] \in Id \X Role /\ ~ Registers(r)
        BY RowTyping DEF Registers
    <2>2. told' = told
        BY <2>1 DEF Answer
    <2>3. TypeOK'
        BY <2>1, <2>2, WatchTyping DEF TypeOK, Answer, Goto, Phase
    <2>4. \A q \in Request \ {r} : EnteredBy(q)'
        BY Frame, WatchTyping, <2>3 DEF TypeOK, Entered, Answer, Goto
    <2>5. EnteredBy(r)'
        BY DEF TypeOK, EnteredBy, Answer, Goto
    <2>6. RegisteredAreUsers'
        <3> SUFFICES ASSUME NEW x \in told
                     PROVE  << x[1], "user" >> \in userRoles' \/ x[1] \in spoilt'
            BY <2>2 DEF RegisteredAreUsers
        <3>1. CASE row[r] = << x[1], "user" >>
            BY <3>1
        <3>2. CASE row[r] # << x[1], "user" >>
            BY <3>2 DEF RegisteredAreUsers
        <3> QED
            BY <3>1, <3>2
    <2>7. (Unused /\ RegisteredOnce /\ AdminsComeFromOperators /\ NoneSeen)'
        BY <2>2, <2>3, WatchTyping
           DEF TypeOK, Unused, RegisteredOnce, AdminsComeFromOperators, NoneSeen
    <2> QED
        BY <2>3, <2>4, <2>5, <2>6, <2>7 DEF Entered
<1>9. ASSUME NEW r \in Request, Fail(r) PROVE IInv'
    <2> USE <1>9 DEF Fail
    <2>1. pc[r] = "assign" /\ Registers(r) =>
             /\ << row[r][1], ask[r].email >> \in Id \X Email
             /\ accounts[row[r][1]] = ask[r].email
        <3> SUFFICES ASSUME pc[r] = "assign", Registers(r)
                     PROVE  /\ row[r][1] \in Id /\ ask[r].email \in Email
                            /\ accounts[row[r][1]] = ask[r].email
            OBVIOUS
        <3>1. ask[r] \in Ask /\ RowOf(r) /\ row[r][1] \in Id
            BY RowTyping
        <3>2. ask[r].email \in Email
            BY <3>1, Kinds DEF Registers
        <3> QED
            BY <3>1, <3>2 DEF RowOf
    <2>2. /\ told' = told
             \/ /\ pc[r] = "assign" /\ Registers(r)
                /\ told' = told \cup {<< row[r][1], ask[r].email >>}
          /\ pc' = [pc EXCEPT ![r] = "idle"]
          /\ ask' = [ask EXCEPT ![r] = NoAsk] /\ row' = [row EXCEPT ![r] = NoRow]
          /\ \E status \in {"ok", "refused", "error"} : answer' = [answer EXCEPT ![r] = status]
        BY DEF Answer, Goto
    <2>3. /\ spoilt \subseteq spoilt' /\ spoilt' \subseteq Id
          /\ pc[r] = "assign" /\ Registers(r) => row[r][1] \in spoilt'
        BY <2>1 DEF TypeOK
    <2>4. TypeOK'
        BY <2>1, <2>2, <2>3, WatchTyping DEF TypeOK, Phase
    <2>5. \A q \in Request \ {r} : EnteredBy(q)'
        BY <2>2, Frame, WatchTyping DEF TypeOK, Entered
    <2>6. EnteredBy(r)'
        BY <2>2 DEF TypeOK, EnteredBy
    <2>7. (Unused /\ RegisteredOnce /\ AdminsComeFromOperators /\ NoneSeen)'
        BY <2>1, <2>2, <2>4, WatchTyping
           DEF TypeOK, Unused, RegisteredOnce, AdminsComeFromOperators, NoneSeen
    <2>8. RegisteredAreUsers'
        <3> SUFFICES ASSUME NEW x \in told'
                     PROVE  << x[1], "user" >> \in userRoles \/ x[1] \in spoilt'
            BY DEF RegisteredAreUsers
        <3>1. CASE x \in told
            BY <3>1, <2>3 DEF RegisteredAreUsers
        <3>2. CASE x \notin told
            <4>1. pc[r] = "assign" /\ Registers(r) /\ x = << row[r][1], ask[r].email >>
                BY <3>2, <2>2
            <4> QED
                BY <4>1, <2>3
        <3> QED
            BY <3>1, <3>2
    <2> QED
        BY <2>4, <2>5, <2>6, <2>7, <2>8 DEF Entered
<1>10. CASE UNCHANGED vars
    BY <1>10 DEF vars, requestVars, watchVars, TypeOK, Entered, EnteredBy, RowOf, Registers, Changes,
                 Unused, RegisteredOnce, AdminsComeFromOperators, NoneSeen, RegisteredAreUsers
<1> QED
    BY <1>1, <1>2, <1>3, <1>4, <1>5, <1>6, <1>7, <1>8, <1>9, <1>10 DEF Next, Statement

\* Every reachable state satisfies the invariant.
LEMMA Invariance == Spec => []IInv
<1>1. Init => IInv
    BY InitInvariant
<1>2. IInv /\ [Next]_vars => IInv'
    BY StepInvariant
<1> QED
    BY <1>1, <1>2, PTL DEF Spec

-----------------------------------------------------------------------------
\* Every reachable state is well typed.
THEOREM Typing == Spec => []TypeOK
<1>1. IInv => TypeOK
    BY DEF IInv
<1> QED
    BY <1>1, Invariance, PTL

\* An e-mail has one account, and who was told of a registration has it.
THEOREM Registered == Spec => []RegisteredOnce
<1>1. IInv => RegisteredOnce
    BY DEF IInv
<1> QED
    BY <1>1, Invariance, PTL

\* No registrations and requests make the first admin: only the operator does.
THEOREM Operators == Spec => []AdminsComeFromOperators
<1>1. IInv => AdminsComeFromOperators
    BY DEF IInv
<1> QED
    BY <1>1, Invariance, PTL

\* A registered account has its role but for the two reasons that spoilt has.
THEOREM Users == Spec => []RegisteredAreUsers
<1>1. IInv => RegisteredAreUsers
    BY DEF IInv
<1> QED
    BY <1>1, Invariance, PTL

\* Who has been removed as an admin changes no roles any more, but by the
\* requests that were under way.
THEOREM Authorised == Spec => ChangedByAdmins
<1>1. IInv /\ [Next]_vars => [ \A x \in Row :
          (x \in userRoles) # (x \in userRoles') =>
              \E r \in Request :
                 /\ pc[r] # "idle" /\ row[r] = x
                 /\ Changes(r) => << ask[r].by, "admin" >> \in seen[r] ]_vars
    <2> SUFFICES ASSUME IInv, Next,
                        NEW x \in Row, (x \in userRoles) # (x \in userRoles')
                 PROVE  \E r \in Request :
                           /\ pc[r] # "idle" /\ row[r] = x
                           /\ Changes(r) => << ask[r].by, "admin" >> \in seen[r]
        BY DEF vars
    <2>1. PICK r \in Request : (\E a \in Ask : Begin(r, a)) \/ Statement(r) \/ Fail(r)
        BY DEF Next
    <2>2. (Assign(r) \/ Unassign(r)) /\ row[r] = x
        BY <2>1 DEF Statement, Begin, Create, CreateConflict, Find, Enter, NoRole, Fail,
                    Assign, Unassign, Removed, tableVars
    <2>3. RowOf(r)
        BY <2>2, RowTyping DEF Assign, Unassign, IInv
    <2> QED
        BY <2>2, <2>3 DEF Assign, Unassign, RowOf
<1> QED
    BY <1>1, Invariance, PTL DEF Spec, ChangedByAdmins

\* An admin's 204 tells what was true at some instant of the request.
THEOREM Truthful == Spec => AnswersAreTrue
<1>1. IInv /\ [Next]_vars => [ \A r \in Request :
          pc[r] # "idle" /\ pc'[r] = "idle" /\ answer'[r] = "ok" /\ Changes(r) =>
              row[r] \in IF ask[r].what = "add" THEN seen[r] \cup userRoles'
                         ELSE missing[r] \cup (Row \ userRoles') ]_vars
    <2> SUFFICES ASSUME IInv, Next, NEW r \in Request,
                        pc[r] # "idle", pc'[r] = "idle", answer'[r] = "ok", Changes(r)
                 PROVE  row[r] \in IF ask[r].what = "add" THEN seen[r] \cup userRoles'
                                   ELSE missing[r] \cup (Row \ userRoles')
        BY DEF vars
    <2>1. PICK q \in Request : (\E a \in Ask : Begin(q, a)) \/ Statement(q) \/ Fail(q)
        BY DEF Next
    <2>2. q = r
        BY <2>1 DEF Statement, Begin, Create, CreateConflict, Find, Enter, NoRole, Fail,
                    Assign, Unassign, Take, Answer, Goto, IInv, TypeOK
    <2>3. Assign(r) \/ Unassign(r)
        BY <2>1, <2>2
           DEF Statement, Begin, Create, CreateConflict, Find, Enter, NoRole, Fail,
               Take, Answer, Goto, IInv, TypeOK, Changes, Registers
    <2>4. /\ row[r] = << row[r][1], row[r][2] >> /\ row[r][1] \in Id
          /\ ask[r].what \in IF pc[r] = "assign" THEN {"register", "seed", "add"} ELSE {"remove"}
        BY <2>3, RowTyping DEF Assign, Unassign, IInv
    <2> QED
        BY <2>3, <2>4 DEF Assign, Unassign, Removed, Changes, Row, Role
<1> QED
    BY <1>1, Invariance, PTL DEF Spec, AnswersAreTrue
=============================================================================
