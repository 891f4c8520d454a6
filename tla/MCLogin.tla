----------------------------- MODULE MCLogin -----------------------------
(* A small instance of Login for TLC. *)
EXTENDS Login

CONSTANT e1

OneMail == [c \in Client |-> e1]
=============================================================================
