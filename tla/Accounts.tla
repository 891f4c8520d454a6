------------------------------ MODULE Accounts ------------------------------
(***************************************************************************)
(* Accounts and their roles: Register (handlers/auth.go), the admin API    *)
(* for roles (handlers/admin_roles.go) behind RequireRole                  *)
(* (middleware/roles.go), and the command cmd/seed-admin.                  *)
(*                                                                         *)
(* Every one of them is two or more SQL statements, each on its own: who   *)
(* asks is looked up before the roles are changed, and an account is       *)
(* stored before it has a role.                                            *)
(***************************************************************************)
EXTENDS Naturals

CONSTANTS
    Email, Request,
    Ask,      \* what clients and the operator may ask for
    LastId,   \* bound: the last AUTO_INCREMENT id of users
    NoEmail, NoAsk, NoRow

Id == 1 .. LastId
Role == {"admin", "user"}              \* the rows of roles
Row == Id \X (Role \cup {"other"})     \* a request may name any role

Entry == [what : {"register", "seed"}, email : Email]
Change == [what : {"add", "remove"}, by : Id, target : Id, role : Role \cup {"other"}]

ASSUME AskAssumption == LastId \in Nat /\ Ask \subseteq Entry \cup Change
ASSUME NullAssumption == NoEmail \notin Email /\ NoAsk \notin Entry \cup Change /\ NoRow \notin Row

VARIABLES
    accounts,   \* users: the e-mail of each id
    next,       \* the AUTO_INCREMENT of users
    userRoles,  \* user_roles
    pc, ask,    \* where each request is, and what it asks for
    row,        \* the row of user_roles it is about
    answer,     \* its latest answer
    seen,       \* history: rows that were there at some instant of the request,
    missing,    \* and rows that were not
    told,       \* history: answered registrations
    seeded,     \* history: has the operator made anyone an admin
    spoilt      \* history: ids that were not given, or lost, the role user

tableVars == << accounts, next, userRoles >>
requestVars == << pc, ask, row, answer >>
watchVars == << seen, missing >>
history == << told, seeded, spoilt >>
vars == << tableVars, requestVars, watchVars, history >>

Phase == {"idle", "create", "find", "gate", "assign", "unassign"}

TypeOK ==
    /\ accounts \in [Id -> Email \cup {NoEmail}] /\ next \in 1 .. LastId + 1
    /\ userRoles \subseteq Id \X Role
    /\ pc \in [Request -> Phase]
    /\ ask \in [Request -> Ask \cup {NoAsk}]
    /\ row \in [Request -> Row \cup {NoRow}]
    /\ answer \in [Request -> {"none", "ok", "refused", "error"}]
    /\ seen \in [Request -> SUBSET Row] /\ missing \in [Request -> SUBSET Row]
    /\ told \subseteq Id \X Email /\ seeded \in BOOLEAN /\ spoilt \subseteq Id

Init ==
    /\ accounts = [i \in Id |-> NoEmail] /\ next = 1 /\ userRoles = {}
    /\ pc = [r \in Request |-> "idle"]
    /\ ask = [r \in Request |-> NoAsk] /\ row = [r \in Request |-> NoRow]
    /\ answer = [r \in Request |-> "none"]
    /\ seen = [r \in Request |-> {}] /\ missing = [r \in Request |-> {}]
    /\ told = {} /\ seeded = FALSE /\ spoilt = {}

-----------------------------------------------------------------------------
Registers(r) == ask[r].what = "register"
Changes(r) == ask[r].what \in {"add", "remove"}
Goto(r, phase) == pc' = [pc EXCEPT ![r] = phase]

\* The request goes on with the row x of user_roles.
Take(r, x, phase) ==
    /\ Goto(r, phase)
    /\ row' = [row EXCEPT ![r] = x]
    /\ UNCHANGED << ask, answer >>

Answer(r, status) ==
    /\ Goto(r, "idle")
    /\ ask' = [ask EXCEPT ![r] = NoAsk] /\ row' = [row EXCEPT ![r] = NoRow]
    /\ answer' = [answer EXCEPT ![r] = status]
    /\ told' = IF Registers(r) /\ status = "ok"
               THEN told \cup {<< row[r][1], ask[r].email >>} ELSE told

\* What the requests under way have seen of user_roles, in every step.
Watch ==
    /\ seen' = [q \in Request |-> IF pc'[q] = "idle" THEN {} ELSE seen[q] \cup userRoles']
    /\ missing' = [q \in Request |->
                     IF pc'[q] = "idle" THEN {} ELSE missing[q] \cup (Row \ userRoles')]

\* A valid request: an admin request has the token of an account (AuthWith).
Begin(r, a) ==
    /\ pc[r] = "idle"
    /\ a \in Change => accounts[a.by] # NoEmail
    /\ Goto(r, CASE a.what = "register" -> "create"
                 [] a.what = "seed" -> "find"
                 [] a.what \in {"add", "remove"} -> "gate")
    /\ ask' = [ask EXCEPT ![r] = a]
    /\ answer' = [answer EXCEPT ![r] = "none"]
    /\ UNCHANGED << tableVars, row, history >>
    /\ Watch

-----------------------------------------------------------------------------
(* Register and seed-admin, up to their row of user_roles.                 *)

\* Mutant of Taken: e-mails need not be unique.
NeverTaken(email) == FALSE

\* email VARCHAR(255) NOT NULL UNIQUE
Taken(email) == \E i \in Id : accounts[i] = email

\* Users.Create.
Create(r) ==
    /\ pc[r] = "create"
    /\ ~ Taken(ask[r].email) /\ next \in Id
    /\ accounts' = [accounts EXCEPT ![next] = ask[r].email]
    /\ next' = next + 1
    /\ Take(r, << next, "user" >>, "assign")
    /\ UNCHANGED << userRoles, history >>
    /\ Watch

\* 409.  The id that InnoDB has reserved is not used again.
CreateConflict(r) ==
    /\ pc[r] = "create"
    /\ Taken(ask[r].email)
    /\ next' \in {next, next + 1} \cap 1 .. LastId + 1
    /\ Answer(r, "refused")
    /\ UNCHANGED << accounts, userRoles, seeded, spoilt >>
    /\ Watch

\* Users.FindByEmail in seed-admin.
Find(r) ==
    /\ pc[r] = "find"
    /\ \/ /\ \E i \in Id : accounts[i] = ask[r].email /\ Take(r, << i, "admin" >>, "assign")
          /\ seeded' = TRUE /\ UNCHANGED told
       \/ /\ ~ Taken(ask[r].email)
          /\ Answer(r, "error") /\ UNCHANGED seeded
    /\ UNCHANGED << tableVars, spoilt >>
    /\ Watch

-----------------------------------------------------------------------------
(* RequireRole and AdminRoles.Post.                                        *)

\* Mutant of Has: the name of the role is not compared.
HasAny(id, role) == \E name \in Role : << id, name >> \in userRoles

\* Roles.Has
Has(id, role) == << id, role >> \in userRoles

\* RequireRole(roles, "admin") lets the request in, or 403.
Enter(r) ==
    /\ pc[r] = "gate"
    /\ IF Has(ask[r].by, "admin")
       THEN /\ Take(r, << ask[r].target, ask[r].role >>,
                    IF ask[r].what = "add" THEN "assign" ELSE "unassign")
            /\ UNCHANGED told
       ELSE Answer(r, "refused")
    /\ UNCHANGED << tableVars, seeded, spoilt >>
    /\ Watch

\* Mutant of NoRole: the row that is not found is no error.
NoRoleIgnored(r) ==
    /\ pc[r] \in {"assign", "unassign"}
    /\ row[r][2] \notin Role
    /\ Answer(r, "ok")
    /\ UNCHANGED << tableVars, seeded, spoilt >>
    /\ Watch

\* SELECT id FROM roles: there is no such role.
NoRole(r) ==
    /\ pc[r] \in {"assign", "unassign"}
    /\ row[r][2] \notin Role
    /\ Answer(r, "error")
    /\ UNCHANGED << tableVars, seeded, spoilt >>
    /\ Watch

\* Mutant of Assign: the row is stored whatever role it names.
AssignAny(r) ==
    /\ pc[r] = "assign"
    /\ userRoles' = userRoles \cup {row[r]}
    /\ Answer(r, "ok") \/ Answer(r, "error")
    /\ UNCHANGED << accounts, next, seeded, spoilt >>
    /\ Watch

\* INSERT IGNORE INTO user_roles.  That there is an account with this id is
\* not asked for.  Even if it succeeds the answer may be an error.
Assign(r) ==
    /\ pc[r] = "assign"
    /\ row[r][2] \in Role
    /\ userRoles' = userRoles \cup {row[r]}
    /\ Answer(r, "ok") \/ Answer(r, "error")
    /\ UNCHANGED << accounts, next, seeded, spoilt >>
    /\ Watch

\* Mutant of Removed: a DELETE without role_id=?.
RemovedAll(x) == {y \in userRoles : y[1] # x[1]}

\* DELETE FROM user_roles WHERE user_id=? AND role_id=?
Removed(x) == userRoles \ {x}

Unassign(r) ==
    /\ pc[r] = "unassign"
    /\ row[r][2] \in Role
    /\ userRoles' = Removed(row[r])
    /\ spoilt' = IF row[r][2] = "user" THEN spoilt \cup {row[r][1]} ELSE spoilt
    /\ Answer(r, "ok") \/ Answer(r, "error")
    /\ UNCHANGED << accounts, next, seeded >>
    /\ Watch

\* A failed statement, the deadline or a crash.  Register takes any error of
\* Create for a conflict, does not look at the error of Assign and answers
\* with the id; RequireRole takes any error for a missing role.
Fail(r) ==
    /\ pc[r] # "idle"
    /\ \/ Answer(r, "error")
       \/ pc[r] \in {"create", "gate"} /\ Answer(r, "refused")
       \/ pc[r] = "assign" /\ Registers(r) /\ Answer(r, "ok")
    /\ spoilt' = IF pc[r] = "assign" /\ Registers(r) THEN spoilt \cup {row[r][1]} ELSE spoilt
    /\ UNCHANGED << tableVars, seeded >>
    /\ Watch

-----------------------------------------------------------------------------
Statement(r) ==
    \/ Create(r) \/ CreateConflict(r) \/ Find(r) \/ Enter(r)
    \/ NoRole(r) \/ Assign(r) \/ Unassign(r)

Next == \E r \in Request : (\E a \in Ask : Begin(r, a)) \/ Statement(r) \/ Fail(r)

Spec == Init /\ [][Next]_vars

-----------------------------------------------------------------------------
\* Whoever is told that an e-mail is registered has the only account of that
\* e-mail and an id that nobody else was told, however registrations race.
RegisteredOnce ==
    /\ \A i, j \in Id : accounts[i] # NoEmail /\ accounts[i] = accounts[j] => i = j
    /\ \A x \in told : accounts[x[1]] = x[2]

\* As long as the operator has not run seed-admin there is no admin: no
\* sequence of registrations and requests makes one.
AdminsComeFromOperators == ~ seeded => \A i \in Id : << i, "admin" >> \notin userRoles

\* A registered account may use the notes, unless the dropped error of Assign
\* kept it from it or an admin took the role away: not because of what else
\* happened between the two statements of Register.
RegisteredAreUsers ==
    \A x \in told : << x[1], "user" >> \in userRoles \/ x[1] \in spoilt

\* A 204 is true: at some instant of the request the role was there, or was
\* gone, whatever other admins did to it before and after.
AnswersAreTrue ==
    [][\A r \in Request :
          pc[r] # "idle" /\ pc'[r] = "idle" /\ answer'[r] = "ok" /\ Changes(r) =>
              row[r] \in IF ask[r].what = "add" THEN seen[r] \cup userRoles'
                         ELSE missing[r] \cup (Row \ userRoles') ]_vars

\* A role comes or goes only by a request about it, and if that is not of the
\* operator or a registration its sender was an admin at some instant of it:
\* an admin who has been removed changes nothing but by the requests that
\* were under way, not even to come back.
ChangedByAdmins ==
    [][\A x \in Row :
          (x \in userRoles) # (x \in userRoles') =>
              \E r \in Request :
                 /\ pc[r] # "idle" /\ row[r] = x
                 /\ Changes(r) => << ask[r].by, "admin" >> \in seen[r] ]_vars
=============================================================================
