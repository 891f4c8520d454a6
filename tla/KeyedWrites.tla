---------------------------- MODULE KeyedWrites ----------------------------
(***************************************************************************)
(* What an Idempotency-Key promises, without statements, requests or       *)
(* failures: the first request under a key owns it, a note is written      *)
(* once, and then everyone who asks the owner's question gets the owner's  *)
(* answer.  NoteWrites implements it.                                      *)
(***************************************************************************)
EXTENDS Naturals

CONSTANTS Key, Order, Result, NoOrder

VARIABLES
    owner,   \* by key: the request that owns it
    writes,  \* by key: how often a note was written, up to twice
    given,   \* the answers that clients have had
    loose    \* keys whose claim was lost, for which nothing is promised

keyVars == << owner, writes, given, loose >>

KeyInit ==
    /\ owner = [k \in Key |-> NoOrder] /\ writes = [k \in Key |-> 0]
    /\ given = {} /\ loose = {}

Own(k, o) ==
    /\ owner[k] = NoOrder /\ o.key = k
    /\ owner' = [owner EXCEPT ![k] = o]
    /\ UNCHANGED << writes, given, loose >>

Lose(k) ==
    /\ owner[k] = NoOrder
    /\ loose' = loose \cup {k}
    /\ UNCHANGED << owner, writes, given >>

Write(k) ==
    /\ k \in loose \/ (owner[k] # NoOrder /\ writes[k] = 0)
    /\ writes' = [writes EXCEPT ![k] = IF @ = 2 THEN 2 ELSE @ + 1]
    /\ UNCHANGED << owner, given, loose >>

\* The answer goes to the owner's user, who sends the owner's body again, and
\* is about the owner's note: method and path of the retry do not count.
Entitled(o, result) ==
    LET k == o.key IN
    /\ owner[k] # NoOrder /\ writes[k] = 1
    /\ o.user = owner[k].user /\ o.text = owner[k].text
    /\ result.note = owner[k].note
    /\ \A g \in given : g.order.key = k => g.result = result

Reply(o, result) ==
    /\ o.key \in loose \/ (o.key \in Key /\ Entitled(o, result))
    /\ given' = given \cup {[order |-> o, result |-> result]}
    /\ UNCHANGED << owner, writes, loose >>

KeyNext ==
    \/ \E k \in Key : Lose(k) \/ Write(k) \/ \E o \in Order : Own(k, o)
    \/ \E o \in Order, result \in Result : Reply(o, result)

KeySpec == KeyInit /\ [][KeyNext]_keyVars
=============================================================================
