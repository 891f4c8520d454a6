----------------------------- MODULE OneServer -----------------------------
(***************************************************************************)
(* What access tokens promise, as one server that signs and checks them    *)
(* and never changes its key: a token is accepted until it expires, and    *)
(* never after.  Nothing here knows of replicas, releases, key ids or      *)
(* Redis: AccessTokens shows that the replicas of a gradual rotation look  *)
(* like this server.                                                       *)
(***************************************************************************)
EXTENDS Integers

CONSTANTS Token, TTL

VARIABLES
    now,    \* the clock, in half seconds
    exp,    \* until when each token is accepted
    answer  \* the latest answer to a request with a token

serverVars == << now, exp, answer >>

Unsigned == -1
NoAnswer == [what |-> "none"]

ServerInit == now = 0 /\ exp = [t \in Token |-> Unsigned] /\ answer = NoAnswer

\* A token lives as long as configured, less the fraction of a second.
Sign(t) ==
    /\ exp[t] = Unsigned
    /\ \E e \in {now + TTL - 1, now + TTL} : exp' = [exp EXCEPT ![t] = e]
    /\ UNCHANGED << now, answer >>

Accept(t) ==
    /\ exp[t] # Unsigned /\ now < exp[t]
    /\ answer' = [what |-> "ok", token |-> t]
    /\ UNCHANGED << now, exp >>

Refuse(t) ==
    /\ exp[t] # Unsigned /\ now >= exp[t]
    /\ answer' = [what |-> "refused", token |-> t]
    /\ UNCHANGED << now, exp >>

Tick ==
    /\ now' = now + 1 /\ answer' = NoAnswer
    /\ UNCHANGED exp

ServerNext == Tick \/ \E t \in Token : Sign(t) \/ Accept(t) \/ Refuse(t)

ServerSpec == ServerInit /\ [][ServerNext]_serverVars
=============================================================================
