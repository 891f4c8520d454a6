---------------------------- MODULE MCAccounts ----------------------------
(* A small instance of Accounts for TLC: what may be asked. *)
EXTENDS Accounts, TLC

CONSTANTS e1, e2

Register(e) == [what |-> "register", email |-> e]
Seed(e) == [what |-> "seed", email |-> e]
Post(what, by, target, role) == [what |-> what, by |-> by, target |-> target, role |-> role]

\* Two registrations; a seed; an admin names another one, also before that
\* account exists, or a role that does not exist; both try to remove the first.
Asks ==
    {Register(e1), Register(e2), Seed(e1),
     Post("add", 1, 2, "admin"), Post("add", 2, 1, "admin"), Post("add", 1, 2, "other"),
     Post("remove", 1, 1, "admin"), Post("remove", 2, 1, "admin"), Post("remove", 1, 2, "user")}
=============================================================================
