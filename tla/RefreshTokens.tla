--------------------------- MODULE RefreshTokens ---------------------------
(***************************************************************************)
(* internal/repos/refresh_tokens.go and the handlers of                    *)
(* internal/handlers/auth.go that call it, run by concurrent requests.     *)
(*                                                                         *)
(* UseAndRotate is one MySQL transaction: SELECT ... FOR UPDATE of the     *)
(* presented token, UPDATE of its used_at, then an INSERT of the new token *)
(* or, when the token had been used, a DELETE of the user's rows, then     *)
(* COMMIT.  Each statement is a step.  What a transaction has written      *)
(* stays in the request's own variables until it commits; what it has      *)
(* locked is Locks(r).  The other operations are single statements.        *)
(*                                                                         *)
(* MySQL is modelled from how the code uses it: InnoDB at its default      *)
(* REPEATABLE READ, where a locking statement reads the last committed     *)
(* rows and waits for those another transaction has locked.  The table has *)
(* an index on expires_at and none on user_id, so the DELETE of a reuse    *)
(* scans every row that has not expired, of every user, locks what it      *)
(* scans, and keeps new rows out until COMMIT.                             *)
(***************************************************************************)
EXTENDS Naturals, FiniteSets

CONSTANTS Token, User, Request, NoToken, NoUser

ASSUME NullAssumption == NoToken \notin Token /\ NoUser \notin User

VARIABLES
    rows, usedAt, expired, owner, root, known, cancelled,  \* see TokenStore
    minted,   \* the values crypto/rand has produced so far
    pc,       \* how far each request of POST /auth/refresh has come
    tok,      \* the token it presented
    sawUsed,  \* the requests whose SELECT returned a non-NULL used_at
    new,      \* the token its transaction has inserted
    gone,     \* the rows its transaction has deleted
    reply     \* how each request was answered, until it is used again

tableVars == << rows, usedAt, expired, owner, root, known, cancelled >>
txVars == << pc, tok, sawUsed, new, gone >>
vars == << tableVars, minted, txVars, reply >>

Store == INSTANCE TokenStore

Phase == {"idle", "begun", "selected", "marked", "inserted", "purged"}
InTx(r) == pc[r] \in {"selected", "marked", "inserted", "purged"}

Pending == { new[r] : r \in { q \in Request : pc[q] = "inserted" } }

\* The rows a DELETE over expires_at > NOW() has to lock: uncommitted ones too.
Scan == (rows \ expired) \cup Pending

\* The rows request r holds locked.
Locks(r) ==
    CASE pc[r] \in {"selected", "marked"} -> {tok[r]}
      [] pc[r] = "inserted" -> {tok[r], new[r]}
      [] pc[r] = "purged" -> {tok[r]} \cup Scan
      [] OTHER -> {}

\* Mutant of Unlocked: a SELECT that is not FOR UPDATE.
UnlockedAlways(t) == t = t

Unlocked(t) == \A r \in Request : t \notin Locks(r)

\* No DELETE holds the gaps that new rows go into.
GapFree == \A r \in Request : pc[r] # "purged"

\* Bound of the model: a rotation only starts while there is a fresh token
\* left for it, so that crypto/rand never runs dry in the middle of one.
Supply ==
    Cardinality(Token \ minted) >
        Cardinality({ r \in Request : pc[r] # "idle" /\ tok[r] \in rows \ usedAt })

TypeOK ==
    /\ rows \subseteq Token /\ usedAt \subseteq rows /\ expired \subseteq Token
    /\ owner \in [Token -> User \cup {NoUser}]
    /\ root \in [Token -> Token \cup {NoToken}]
    /\ known \subseteq Token /\ cancelled \subseteq Token /\ minted \subseteq Token
    /\ pc \in [Request -> Phase]
    /\ tok \in [Request -> Token \cup {NoToken}]
    /\ sawUsed \subseteq Request
    /\ new \in [Request -> Token \cup {NoToken}]
    /\ gone \in [Request -> SUBSET Token]
    /\ reply \in [Request -> {"none", "ok", "invalid", "reused", "error"}]

Init ==
    /\ Store!StoreInit
    /\ minted = {}
    /\ pc = [r \in Request |-> "idle"]
    /\ tok = [r \in Request |-> NoToken]
    /\ sawUsed = {}
    /\ new = [r \in Request |-> NoToken]
    /\ gone = [r \in Request |-> {}]
    /\ reply = [r \in Request |-> "none"]

-----------------------------------------------------------------------------
(* Single statements.                                                      *)

\* Login, once the password has been checked: one INSERT.  The answer may
\* be lost, or be a 500 for an INSERT that took effect after all.
Issue(u, n) ==
    /\ Supply
    /\ n \notin minted
    /\ GapFree
    /\ minted' = minted \cup {n}
    /\ rows' = rows \cup {n}
    /\ owner' = [owner EXCEPT ![n] = u]
    /\ root' = [root EXCEPT ![n] = n]
    /\ known' = known \cup {n} \/ known' = known
    /\ UNCHANGED << usedAt, expired, cancelled, txVars, reply >>

\* The DELETE a logout ends with, when its body names a refresh token.
Revoke(t) ==
    /\ t \in known
    /\ Unlocked(t)
    /\ rows' = rows \ {t}
    /\ usedAt' = usedAt \ {t}
    /\ UNCHANGED << expired, owner, root, known, cancelled, minted, txVars, reply >>

\* expires_at > NOW() turns false for a row.
Expire(t) ==
    /\ t \in rows \ expired
    /\ expired' = expired \cup {t}
    /\ UNCHANGED << rows, usedAt, owner, root, known, cancelled, minted, txVars, reply >>

-----------------------------------------------------------------------------
(* POST /auth/refresh, a statement at a time.                              *)

Finish(r, answer) ==
    /\ pc' = [pc EXCEPT ![r] = "idle"]
    /\ tok' = [tok EXCEPT ![r] = NoToken]
    /\ sawUsed' = sawUsed \ {r}
    /\ new' = [new EXCEPT ![r] = NoToken]
    /\ gone' = [gone EXCEPT ![r] = {}]
    /\ reply' = [reply EXCEPT ![r] = answer]

\* The body names a token some client was given, or one that never existed.
Begin(r, t) ==
    /\ pc[r] = "idle"
    /\ t \in known \cup {NoToken}
    /\ t \in rows \ usedAt => Supply
    /\ pc' = [pc EXCEPT ![r] = "begun"]
    /\ tok' = [tok EXCEPT ![r] = t]
    /\ reply' = [reply EXCEPT ![r] = "none"]
    /\ UNCHANGED << tableVars, minted, sawUsed, new, gone >>

\* SELECT ... FOR UPDATE finds the row and keeps it locked.
Select(r) ==
    /\ pc[r] = "begun"
    /\ Unlocked(tok[r])
    /\ tok[r] \in rows \ expired
    /\ pc' = [pc EXCEPT ![r] = "selected"]
    /\ sawUsed' = IF tok[r] \in usedAt THEN sawUsed \cup {r} ELSE sawUsed
    /\ UNCHANGED << tableVars, minted, tok, new, gone, reply >>

\* It finds none: sql.ErrNoRows, rollback, 401 "invalid".
SelectNone(r) ==
    /\ pc[r] = "begun"
    /\ Unlocked(tok[r])
    /\ tok[r] \notin rows \ expired
    /\ Finish(r, "invalid")
    /\ UNCHANGED << tableVars, minted >>

\* Mutant of Mark: an UPDATE outside of the transaction.
MarkAtOnce(r) ==
    /\ pc[r] = "selected"
    /\ pc' = [pc EXCEPT ![r] = "marked"]
    /\ usedAt' = usedAt \cup {tok[r]}
    /\ UNCHANGED << rows, expired, owner, root, known, cancelled, minted, tok, sawUsed,
                    new, gone, reply >>

\* UPDATE used_at: nobody else sees it before COMMIT.
Mark(r) ==
    /\ pc[r] = "selected"
    /\ pc' = [pc EXCEPT ![r] = "marked"]
    /\ UNCHANGED << tableVars, minted, tok, sawUsed, new, gone, reply >>

Insert(r, n) ==
    /\ pc[r] = "marked" /\ r \notin sawUsed
    /\ n \notin minted
    /\ GapFree
    /\ minted' = minted \cup {n}
    /\ new' = [new EXCEPT ![r] = n]
    /\ pc' = [pc EXCEPT ![r] = "inserted"]
    /\ UNCHANGED << tableVars, tok, sawUsed, gone, reply >>

\* COMMIT of a rotation.  The client gets the new token, or a 500 because
\* the acknowledgement of the COMMIT was lost, or no answer at all.
CommitRotation(r) ==
    /\ pc[r] = "inserted"
    /\ rows' = rows \cup {new[r]}
    /\ usedAt' = usedAt \cup {tok[r]}
    /\ owner' = [owner EXCEPT ![new[r]] = owner[tok[r]]]
    /\ root' = [root EXCEPT ![new[r]] = root[tok[r]]]
    /\ cancelled' = IF tok[r] \in expired THEN cancelled \ {root[tok[r]]} ELSE cancelled
    /\ \/ known' = known \cup {new[r]} /\ Finish(r, "ok")
       \/ known' = known /\ Finish(r, "error")
    /\ UNCHANGED << expired, minted >>

\* The rows the DELETE of a reuse removes.
Active(u) == { t \in rows \ expired : owner[t] = u }

\* Mutant of Purge: a DELETE that skips the rows others hold.
PurgeNoWait(r) ==
    /\ pc[r] = "marked" /\ r \in sawUsed
    /\ pc' = [pc EXCEPT ![r] = "purged"]
    /\ gone' = [gone EXCEPT ![r] = Active(owner[tok[r]])]
    /\ UNCHANGED << tableVars, minted, tok, sawUsed, new, reply >>

\* DELETE, once no other transaction holds a row it scans.
Purge(r) ==
    /\ pc[r] = "marked" /\ r \in sawUsed
    /\ \A r2 \in Request \ {r} : Locks(r2) \cap Scan = {}
    /\ pc' = [pc EXCEPT ![r] = "purged"]
    /\ gone' = [gone EXCEPT ![r] = Active(owner[tok[r]])]
    /\ UNCHANGED << tableVars, minted, tok, sawUsed, new, reply >>

\* COMMIT of a cancellation; its acknowledgement may be lost too.
CommitPurge(r) ==
    /\ pc[r] = "purged"
    /\ rows' = rows \ gone[r]
    /\ usedAt' = usedAt \ gone[r]
    /\ cancelled' = cancelled \cup { t \in Token : owner[t] = owner[tok[r]] }
    /\ Finish(r, "reused") \/ Finish(r, "error")
    /\ UNCHANGED << expired, owner, root, known, minted >>

\* Mutant of PurgeDeadlock: nothing breaks the deadlock.
PurgeStuck(r) == FALSE /\ UNCHANGED vars

\* The DELETE waits for a row of another transaction that itself waits for
\* this one, and InnoDB rolls this one back.  The code drops the error of
\* the DELETE, its COMMIT of nothing succeeds, and it reports a reuse.
PurgeDeadlock(r) ==
    /\ pc[r] = "marked" /\ r \in sawUsed
    /\ \E r2 \in Request \ {r} : pc[r2] = "marked" /\ tok[r2] \in Scan
    /\ Finish(r, "reused")
    /\ UNCHANGED << tableVars, minted >>

\* Any other failure before COMMIT took effect: an error of BEGIN, SELECT,
\* UPDATE, INSERT or COMMIT, the deadline of the context, or a crash of the
\* server.  MySQL rolls the transaction back; the answer, if any, is a 500.
Fail(r) ==
    /\ pc[r] # "idle"
    /\ Finish(r, "error")
    /\ UNCHANGED << tableVars, minted >>

-----------------------------------------------------------------------------
\* The next statement of request r, or the answer its failure brings.
Statement(r) ==
    \/ Select(r) \/ SelectNone(r) \/ Mark(r)
    \/ \E n \in Token : Insert(r, n)
    \/ CommitRotation(r)
    \/ Purge(r) \/ CommitPurge(r) \/ PurgeDeadlock(r)

Next ==
    \/ \E n \in Token : \E u \in User : Issue(u, n)
    \/ \E t \in Token : Revoke(t) \/ Expire(t)
    \/ \E r \in Request :
          \/ \E t \in Token \cup {NoToken} : Begin(r, t)
          \/ Statement(r)
          \/ Fail(r)

Spec == Init /\ [][Next]_vars

\* A server runs the statements of a request one after another, and InnoDB
\* grants row locks in the order they were asked for and breaks deadlocks,
\* so that a statement that waits is not passed over for ever: strong
\* fairness, for a lock comes and goes.  No fairness is put on Begin, on the
\* other operations or on failures.
Fairness == \A r \in Request : SF_vars(Statement(r))

FairSpec == Spec /\ Fairness

-----------------------------------------------------------------------------
(* What the table promises holds of this database and these requests.      *)

\* Two requests that present the same refresh token are never both given a
\* successor: of a session, one token at most is still unused.
OneUsableToken == Store!OneUsableToken

\* A rotation under way when a reuse cancels the user's sessions does not
\* leave a usable token behind.
NoSurvivor == Store!NoSurvivor

\* Concurrent, failing and deadlocking requests are indistinguishable, in
\* the table and in what clients learn, from atomic operations on it.
ActsAtomically == Store!StoreSpec

\* No refresh is left waiting for a row lock for ever, even when two
\* cancellations wait for each other's rows.
EveryRefreshEnds == \A r \in Request : pc[r] # "idle" ~> pc[r] = "idle"

\* README.md:59: "If a refresh token that is not used_at IS NULL is reused,
\* all active refresh tokens are canceled."  A request is only told of the
\* reuse when they have been.
ReuseCancelsAll ==
    [][\A r \in Request :
          (pc[r] # "idle" /\ pc'[r] = "idle" /\ reply'[r] = "reused")
              => \A t \in rows' \ expired' : owner'[t] # owner[tok[r]] ]_vars
=============================================================================
