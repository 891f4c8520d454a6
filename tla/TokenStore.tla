----------------------------- MODULE TokenStore -----------------------------
(***************************************************************************)
(* What the refresh tokens of the API promise, as one table whose          *)
(* operations are atomic.  A session is born at a login, each successful   *)
(* refresh consumes the session's token and puts one new token in its      *)
(* place, and presenting a consumed token cancels every session its user   *)
(* has at that moment.  Nothing here knows of transactions, row locks,     *)
(* failed statements or lost answers: RefreshTokens shows that             *)
(* internal/repos/refresh_tokens.go, run by concurrent requests against    *)
(* such a database, implements this table.                                 *)
(***************************************************************************)
CONSTANTS
    Token,    \* the values crypto/rand can produce
    User,
    NoToken,  \* no token: the client sent garbage, or none was made
    NoUser    \* the owner of a token that has never been stored

VARIABLES
    rows,      \* tokens that have a row in refresh_tokens
    usedAt,    \* those of them whose used_at is not NULL
    expired,   \* tokens whose expires_at has passed
    owner,     \* user_id of every token that ever had a row
    root,      \* the token the session of a token began with, at login
    known,     \* tokens a client has received in an answer
    cancelled  \* tokens whose user's sessions were cancelled after they began,
               \* less the sessions that came back to life (see Rotate)

storeVars == << rows, usedAt, expired, owner, root, known, cancelled >>

TokensOf(u) == { t \in Token : owner[t] = u }

\* A client learns the new token n, or the answer never reaches it.
MayLearn(n) == known' = known \cup {n} \/ known' = known

-----------------------------------------------------------------------------
StoreInit ==
    /\ rows = {} /\ usedAt = {} /\ expired = {}
    /\ owner = [t \in Token |-> NoUser]
    /\ root = [t \in Token |-> NoToken]
    /\ known = {} /\ cancelled = {}

Issue(u, n) ==
    /\ owner[n] = NoUser
    /\ rows' = rows \cup {n}
    /\ owner' = [owner EXCEPT ![n] = u]
    /\ root' = [root EXCEPT ![n] = n]
    /\ MayLearn(n)
    /\ UNCHANGED << usedAt, expired, cancelled >>

\* A cancelled session has no token left to refresh with, but for one that
\* ran out while its refresh was under way: that refresh revives the session.
Rotate(t, n) ==
    /\ t \in rows \ usedAt
    /\ root[t] \in cancelled => t \in expired
    /\ owner[n] = NoUser
    /\ rows' = rows \cup {n}
    /\ usedAt' = usedAt \cup {t}
    /\ owner' = [owner EXCEPT ![n] = owner[t]]
    /\ root' = [root EXCEPT ![n] = root[t]]
    /\ cancelled' = cancelled \ {root[t]}
    /\ MayLearn(n)
    /\ UNCHANGED expired

\* Only a consumed token gives its user's sessions away.
CancelAll(t) ==
    /\ t \in rows \cap usedAt
    /\ rows' \subseteq rows
    /\ rows \ TokensOf(owner[t]) \subseteq rows'
    /\ rows' \cap TokensOf(owner[t]) \subseteq expired
    /\ usedAt' = usedAt \cap rows'
    /\ cancelled' = cancelled \cup TokensOf(owner[t])
    /\ UNCHANGED << expired, owner, root, known >>

Revoke(t) ==
    /\ rows' = rows \ {t}
    /\ usedAt' = usedAt \ {t}
    /\ UNCHANGED << expired, owner, root, known, cancelled >>

Expire(t) ==
    /\ t \in rows
    /\ expired' = expired \cup {t}
    /\ UNCHANGED << rows, usedAt, owner, root, known, cancelled >>

StoreNext ==
    \E t \in Token :
        \/ \E u \in User : Issue(u, t)
        \/ \E n \in Token : Rotate(t, n)
        \/ CancelAll(t)
        \/ Revoke(t)
        \/ Expire(t)

StoreSpec == StoreInit /\ [][StoreNext]_storeVars

-----------------------------------------------------------------------------
\* A session has at most one token that a refresh would still accept: two
\* requests that present the same token never both get a successor.
OneUsableToken ==
    \A t1, t2 \in rows \ usedAt : root[t1] = root[t2] => t1 = t2

\* Cancelling a user's sessions is final: no row of a cancelled session is
\* accepted again, even if a refresh of it was under way at that moment.
NoSurvivor == \A t \in rows : root[t] \in cancelled => t \in expired
=============================================================================
