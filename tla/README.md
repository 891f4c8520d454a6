# A formal model of go-notes-api

TLA+ modules that describe the concurrent core of this API, TLC configurations
that check them on small instances, and TLAPS proofs of the most important
results for instances of every size. Paths are relative to the repository.

## The system

The program is one HTTP server (`cmd/api`), run in several replicas over one MySQL
database and one Redis. A server keeps almost no state of its own: what makes
it hard is that each handler is a *sequence* of SQL statements or Redis commands,
that the handlers of many requests interleave between those statements, and that
a request may stop between any two of them (failed statement, deadline, crash).

| Part | State it keeps | Operations | Works with | What makes it correct |
|---|---|---|---|---|
| Refresh tokens (`repos/refresh_tokens.go`, `handlers/auth.go`) | table `refresh_tokens`; InnoDB row locks while a transaction is open | Issue (login), UseAndRotate (refresh), Revoke (logout) | called by the auth handlers | a token is rotated once; presenting a used token cancels the user's tokens for good; each operation is atomic |
| Writes of notes under idempotency keys (`handlers/notes.go`, `repos/idempotency_generic.go`, `repos/notes.go`) | tables `idempotency_keys`, `notes` | Claim, Update, Get, Delete, Complete | the handler calls Claim, then the note statements, then Complete, each on its own | a keyed write runs once; its retries get its answer; users do not see each other's notes; a deleted note is left alone |
| Reading and creating notes, ETags (`handlers/notes.go`) | table `notes`; the client's cached copy | list, get, create, If-None-Match | same rows as above | a 304 means the client's copy is current; a list's total and items agree |
| Login, brute-force counter, rate limits (`security/brute.go`, `middleware/rlredis.go`, `repos/limiters.go`, `middleware/ratelimit.go`) | Redis counters with a TTL; a token bucket per e-mail | INCR+EXPIRE, Allow | run before the handlers | no more than the limit in any window; a client that stays under it is served |
| Access tokens (`middleware/auth.go`, `jti/store.go`, `handlers/admin_jti.go`, `jwtauth/`) | revoked ids in Redis; keys read from the environment | sign, verify, Revoke, IsRevoked | logout and the admin API revoke, AuthWith verifies | a revoked token is refused until it expires; replicas accept each other's tokens |
| Accounts and roles (`repos/users.go`, `repos/roles.go`, `middleware/roles.go`, `handlers/admin_roles.go`, `cmd/seed-admin`) | tables `users`, `user_roles` | Register, Assign, Unassign, Has | RequireRole reads what the admin API writes | an e-mail has one account; admins come from the operator; a removed admin only finishes what was under way |
| Audit log and request pipeline (`middleware/*.go`, `server/server.go`) | table `audit_logs` | one row per request | wraps every handler | who is answered by a handler finds the request in `audit_logs` |
| Lifecycle and pool (`cmd/api/main.go`, `db/db.go`) | ten connections | start, shutdown | closes the pool the handlers use | a request in flight ends before its pool is closed; shutdown ends; no request starves for a connection |

## The plan

Most important behaviour first.

1. `TokenStore` and `RefreshTokens`: the only transaction of the program with
   several statements and locks. Abstract table, detailed transactions, refinement,
   proofs. *Done.*
2. `NoteWrites`: idempotency keys over the note rows, proofs of its invariants, and
   `KeyedWrites`, the abstract idempotent write that it refines. *Done.*
3. `NoteReads`: create and get, list (COUNT and SELECT are two statements), the two
   ETags against a client's cached copy; proofs. *Done.*
4. `RateCounter`: INCR+EXPIRE, used by the rate limiters and by `Brute`; proofs. *Done.*
5. `AccessTokens`: key sets of replicas during a rotation, logout and admin revocation;
   proofs, and `OneServer`, the single server that a gradual rotation looks like. *Done.*
6. `Accounts`: Register's two statements, the roles against RequireRole (read before the
   handler runs), the admin API and the seed command; proofs. *Done.*
7. `Server`: the order of the middlewares, what an early return, a panic or a cancelled
   context skips, the audit row, the pool, shutdown with requests in flight; proofs. *Done.*
8. `Login`: the e-mail bucket of login, per replica, composed with `RateCounter`; proofs. *Done.*
9. Left: a session as the composition of `AccessTokens` and `TokenStore`; the lists of users and of audit rows, which have the
   COUNT and SELECT of `NoteReads` again and would add a row order of their own.

A run is kept for each question; a module with safety and liveness checks both in one run
where the instance allows it.

## What is modelled

### TokenStore: what the refresh tokens promise

One table with five atomic operations: `Issue` (a session begins), `Rotate` (its token
is replaced), `CancelAll` (a used token was presented), `Revoke`, `Expire`. `root[t]`
is the token the session of `t` began with, `cancelled` what has been cancelled. It
allows one exception the code makes: a token that runs out (`expires_at`) while its refresh
is under way is not seen by the DELETE of a concurrent cancellation, so that this
refresh revives its session.

### RefreshTokens: the transactions

| TLA+ | Code |
|---|---|
| `Issue` | `RefreshTokens.Issue`, the last statement of `Auth.Login` |
| `Begin` | `Auth.Refresh` up to `UseAndRotate` |
| `Select`, `SelectNone` | `SELECT ... FOR UPDATE`: the row, or `sql.ErrNoRows` and 401 |
| `Mark` | `UPDATE ... SET used_at` inside the transaction |
| `Insert`, `CommitRotation` | INSERT of the new token, COMMIT, the answer |
| `Purge`, `CommitPurge` | DELETE of the user's unexpired rows, COMMIT, `token_reused_detected` |
| `PurgeDeadlock` | the DELETE's dropped error after InnoDB rolled the transaction back |
| `Fail` | any other error, the deadline, a crash: rolled back |
| `Revoke`, `Expire` | `RefreshTokens.Revoke` at logout; the clock |

A transaction's own writes are in `new`, `gone` and `pc` until COMMIT copies them to
`rows`, `usedAt`, `owner`; `sawUsed` is what its SELECT returned. MySQL is not part of the
repository and is modelled from how the code uses it: `Locks(r)` are the rows a
transaction holds; `Purge` waits for every row it scans, because `user_id` has no index
and the scan is by `expires_at`; no row is inserted while a DELETE holds its gaps
(`GapFree`). A COMMIT may take effect although its client gets a 500 or nothing
(`known` is what clients have received), which is why a client may honestly present an
old token.

Bounds: `Token` is finite, so a rotation starts only while a fresh token is left for it
(`Supply`); everything else is unbounded in time. Three tokens make a session of two
rotations, that is two used tokens and a live one, which is what two cancellations that
wait for each other need; a second session or user takes the proofs, which are for any number.

### NoteWrites: PUT and DELETE under an Idempotency-Key

| TLA+ | Code |
|---|---|
| `Begin` | the handlers `update` and `delete` up to `Claim`; without a key they go straight on |
| `Claim` | `Idem.Claim`: INSERT and COMMIT; the COMMIT's error is dropped, so the row may be missing (`lost`) |
| `Collide`, `ReadClaim`, `ClaimDeadlock` | the INSERT hits the key; `SELECT ... FOR UPDATE` and its outcomes (500, 409, 409 with Retry-After, replay); two of them deadlock |
| `Update`, `Get`, `GetNone` | `repos.Notes.Update` and the SELECT in it |
| `Get`, `GetNone`, `Delete` | `repos.Notes.Delete`: SELECT, then UPDATE |
| `Complete` | `Idem.Complete` (its error is dropped) and the 200 |
| `Fail` | a failed statement, the deadline, a crash, at any point |

`claims` is `idempotency_keys` as migration 0007 creates it: the key alone is the primary
key, 0010 finds the table and does nothing. The migrations are taken as the schema
of their Up sections. `told` (every 200 and 404 given under a key), `wrote`, `rewrote` and
`lost` are history: no action reads them. `Order` is the set of requests clients may send,
chosen per run, and every one of them may be sent again at any time by any of the
concurrent `Request`s.

### KeyedWrites: what an Idempotency-Key promises

Four atomic operations and no failures: `Own` (the first request under a key owns it), `Write`
(a note is written), `Reply`, `Lose`. `NoteWrites` maps its claims to `owner`, its history `wrote` and
`rewrote` to `writes`, the 200s of `told` to `given`, and `lost` to `loose`. `Entitled` is the promise: the
note was written exactly once, whoever is answered is the owner's user, sent the owner's body
and gets the owner's result. `Lose` is the exception the code makes: `Claim` drops the error of its
COMMIT and goes on, so that under such a key nothing is promised. A retry with another
path or method is entitled too: only the body is compared.

### NoteReads: GET and POST, and the ETags

| TLA+ | Code |
|---|---|
| `BeginCreate`, `Insert`, `Fetch` | `repos.Notes.Create` and the SELECT that `create` sends after it; InnoDB hands out the id when the INSERT starts |
| `Get` | `get`: one SELECT, `noteETag`, 304; any error is a 404 |
| `Count`, `Select` | `ListFiltered`, two statements, then `collETag`, 304 |
| `Matching`, `Before`, `Ordered`, `Window` | WHERE, `sanitizeSort`, LIMIT and OFFSET |
| `Update`, `Delete` | the statements of other requests, see `NoteWrites` |
| `Fail` | a failed statement, the deadline, a crash |

`noteCopy` and `pageCopy` are what a client keeps of the answers for If-None-Match. The rows
are one user's: every statement has `user_id=?`, and other users only take ids. `noteETag`
keeps four bytes of the SHA-256 of title, bar and body: `Digest` gives them, any function of the joined text
(`Joined`), so that texts may collide. `Like` says what a query's LIKE finds. Time
has whole seconds, as DATETIME has; `Update` may carry the second before, since
CURRENT_TIMESTAMP is taken when the statement starts and it may wait for the row. Bounds:
`LastId` ids, `Horizon` seconds. `Kept` are the notes whose copies are followed: the instance follows one
of its two notes. Two of its three texts have the same digest.

### RateCounter: requests in a window

| TLA+ | Code |
|---|---|
| `Count` | `TxPipeline`: INCR, EXPIRE, EXEC, in `RedisLimiter.Middleware` and in `Brute.Allow` |
| `Admit`, `Refuse`, `AdmitOnError` | the comparison with the limit; the dropped error of EXEC, after which the value is 0 |
| `TellRetryAfter` | Brute's TTL, a command of its own, and Login's Retry-After |
| `Tick`, `Restart` | Redis: time, and a restart with an empty memory |

`Client` are the keys of one limiter; the three limiters (all routes, /auth, login) use
keys that never coincide. The limiters of all replicas share a counter, which is why no replica
appears. The clock runs in thirds of a second, to tell the nearest second from
the last. `seen` is history. Bounds: `Horizon` instants, `MaxCount` for a counter; two
requests and a window of four thirds already let two bursts meet at a border.
RedisLimiter's own Retry-After is always 1 and not modelled. Addresses in RATE_ALLOW_CIDR pass it without
being counted or limited (`rlredis.go:33-39`): `Client` has the keys of all other requests.

### Login: the bucket of an e-mail, then Brute

| TLA+ | Code |
|---|---|
| `Allow`, `Loaded` | `EmailLimiter` (`LoadOrStore`) and `Allow` of its `rate.Limiter`, in front of everything else in `Login` |
| `Verify` | `Brute.Allow` after it: `Admit`, `Refuse` or `AdmitOnError` of `RateCounter` |
| `LoginTick` | the clock of Redis and of every bucket |
| `RestartReplica` | a replica starts with an empty `sync.Map` and loses its requests |

The module EXTENDS `RateCounter`: one step of `Verify` is one step of the counter, and a request that
its bucket refuses leaves Redis alone. A bucket is a number of ticks' worth of tokens, `Refill` of which
make one (`rate.Every`); `Loaded` is what `LoadOrStore` makes sure of, that two first requests with
an e-mail share one limiter: the call is taken to be atomic, so the race of two first requests is not
a pair of steps here, and the mutant `OwnLimiter` shows what it would cost. The bucket has the e-mail as written for its key, Brute address and
lower-cased e-mail; `Mail` says which counters share an e-mail. `passes` is history. Bound: a client has
one request at a time between the two guards of a replica (`waiting`).

### AccessTokens: keys and revocation

| TLA+ | Code |
|---|---|
| `LoginKeys`, `CurrentKID`, `NewSignature` | `jwtauth/load.go`, with which login and refresh sign and logout verifies |
| `AuthKeys`, `AuthCandidates` | `jwtauth/keys.go` and the key function of `AuthWith`; an unknown kid gets any key |
| `Sign`, `Use`, `Logout` | the end of Login and Refresh, `AuthWith`, the first half of `Logout` |
| `LeaveRevoked`, `LeaveAnyway` | SETEX and 204; its dropped error and 204 |
| `AdminRevoke` | `AdminJTI.Revoke`, whose SETEX replaces what a logout has put there; `shortened` marks the tokens it cut short |
| `Deploy` | a replica starts and reads the environment |
| `Release`, `RedisRestart`, `Tick` | the operator, Redis, the clock (half seconds, as SETEX and `exp` have whole ones) |

`Releases` are the environments that the operator rolls out one after another, over replicas
that hold two of them meanwhile (ops/k8s/deployment.yaml has two replicas). `Release` waits for the
lifetime of a token, and `Gradual` says what neighbours must have in common: a new key is
added first, then made current, and the old one is dropped last. The code does not
enforce either; both are what an operator has to do for `LiveTokensAccepted`.

### OneServer: what access tokens promise

Four actions of one server: `Sign`, `Accept`, `Refuse`, `Tick`. It knows until when each token
lives and has no keys, replicas, releases or Redis. `AccessTokens` maps the `exp` of its signed tokens to
it and hides the rest, so that deploying, logging out and revoking are stutters: no client can tell a
gradual rotation from a server that never changes its key. It also says what revocation is worth
today, that is nothing: no action of `OneServer` knows of it.

### Accounts: accounts and roles

| TLA+ | Code |
|---|---|
| `Create`, `CreateConflict` | `Users.Create` in `Register`: the id, or 409 |
| `Find` | `FindByEmail` in `cmd/seed-admin` |
| `Enter`, `Has` | `RequireRole(roles, "admin")` in front of `AdminRoles.Post` |
| `Assign`, `Unassign`, `NoRole` | `repos.Roles`, called by all three; `Register` drops the error of `Assign` |
| `Fail` | a failed statement, the deadline, a crash |

`row` is the row of `user_roles` that a request has taken on, between its check and its
write. A name of a role that is not in `roles` is "other". The SELECT of the role's id is one step with
the INSERT or DELETE after it, since no code changes `roles`. The sender of an admin request is
any account (`AuthWith` is in `AccessTokens`). `seen` and `missing` record what each request
has seen of `user_roles`, in every step; with `told`, `seeded` and `spoilt` they are history. Bounds:
`LastId` ids; `Ask` is what may be asked, any number of times.

### Server: one replica, its requests and its connections

| TLA+ | Code |
|---|---|
| `Start`, `Signal`, `Tick`, `ShutdownReturns`, `ClosePool`, `Exit` | `main`: `OpenAndMigrate`, ListenAndServe, SIGTERM, `Shutdown` with ten seconds, the deferred `Close` |
| `Crash` | `log.Fatalf`, the kernel, the operator |
| `Accept`, `Refuse`, `Enter`, `Proceed` | the router: CORS and the limiter may answer, or the request passes Audit, RequireRole and the route's handler with some statements to run |
| `Take`, `Released`, `Capacity` | the `sql.DB` pool |
| `Work`, `Finish`, `Answered` | a statement of RequireRole or the handler ends; `errors.Write` or a 2xx |
| `Deadline`, `Abort`, `Panic` | `context.WithTimeout`; a cancelled `r.Context()` or a closed pool; `RecoverJSON` |
| `Insert`, `Recorded` | Audit's INSERT with the status its `ResponseWriter` saw |
| `Reply`, `Disconnect`, `Hang` | net/http ends the answer; the client goes; the database stops to answer |

A request is at `front` (request id, CORS, RecoverJSON, limiter), then at statements that are `timed` (the
handler's context has a deadline) or `bare` (on `r.Context()` as it is: the SELECT of RequireRole, `Claim`,
`Complete`, logout's `Revoke`, the Ping of /readyz), at `finish`, `audit`, `reply`. What the statements do is in the
other modules; here each only needs a connection, and which statements are timed is left open, so
that every route is among the behaviours. golang-migrate keeps one connection and the closer
that `OpenAndMigrate` returns for it is empty, which leaves MaxOpen - 1. `sql.DB.Close` does not
wait for statements in progress, and a connection that was open at the signal may bring
a request while Shutdown waits. A second SIGTERM is swallowed and changes nothing. OPTIONS and 429 are
answered outside of Audit and leave no row; so does a panic, which passes metrics, Logger and
Audit on its way to RecoverJSON. The client that goes after its COMMIT leaves none either, since
the INSERT runs on `r.Context()`. A statement here stands for those of every handler; where the map names lines
for one (`Statement`, `Deadline`, `Abort`), they are one handler's, as a representative. Bounds: `Request`, `MaxUses` statements of a request, `Grace` ticks.

## What the runs check

| Run | Instance | Shows |
|---|---|---|
| `RefreshTokens_transactions` | 3 tokens, 1 user, 2 refreshes, fair | `OneUsableToken`, `NoSurvivor`, `TypeOK`; `ActsAtomically`: the transactions implement `TokenStore`; `EveryRefreshEnds`, also when two cancellations deadlock |
| `RefreshTokens_reuse` | the same, unfair | **violated**: `ReuseCancelsAll` |
| `NoteWrites_requests` | 2 requests, fair: a keyed PUT, a DELETE with its key and one without, and another user with the same key | `WrittenOnce`, `SameAnswer`, `OwnNotesOnly`, `ResultIsFinal`, `DeletedIsFrozen`, `TypeOK`; `KeepsPromise`: the statements implement `KeyedWrites`; `EveryRequestEnds`, also when two claims deadlock |
| `NoteWrites_notfound` | a keyed PUT of a note that gets deleted | **violated**: `NotFoundIsFinal` |
| `NoteReads_answers` | 2 notes of 3 texts, two of one digest, one note followed, pages of one note, 2 requests, 2 seconds | `NoteNotModified`, `CreatedOwn`, `NewestKnown`, `TotalDrift`, `PagesFit`, `TypeOK` |
| `NoteReads_list` | a page sorted by time of update | **violated**: `PageNotModified` |
| `RateCounter_window` | `Login` with 1 replica, 1 e-mail and 1 client, limit 2, a window of 4 and 6 instants, burst 2, a token in 2 instants | `BucketBound`; behind the bucket `WindowBound`, `PauseClears`, `RetryAfterSuffices`, `TypeOK` |
| `RateCounter_rate` | the counter alone, as the middleware uses it | **violated**: `ServedWithinRate` |
| `AccessTokens_rotation` | 2 replicas, 4 releases, a token of 2 seconds in 7 | `LiveTokensAccepted`, `LogoutHolds`, `TypeOK`; `LooksLikeOneServer`: the replicas implement `OneServer` |
| `Accounts_roles` | 2 e-mails, 2 ids, 2 requests out of nine | `RegisteredOnce`, `AdminsComeFromOperators`, `RegisteredAreUsers`, `AnswersAreTrue`, `ChangedByAdmins`, `TypeOK` |
| `AccessTokens_revoked` | 1 replica, 1 token | **violated**: `RevokedRefused` |
| `Server_requests` | 2 requests again and again, one connection for them, 2 statements and Audit's, fair | `AnsweredIsLogged`, `NoneCutEarly`, `TypeOK`; `ShutdownEnds`, `DeadlinesHold`, `EveryRequestEnds` |

The instances are small because the properties are about pairs: two requests
with one token, key or e-mail, each of which may be sent again at any time, so that a third
and a fourth follow the two; the proofs are for any number at once. Counters and tokens do not
touch each other, so that one client and one token are enough. In `Server` two requests compete
for one connection, which is every request against a full pool. Symmetry is used in two
runs: in `NoteReads_answers` over the two requests and over the bodies of the two texts with one digest (and one
title), with invariants only, and in `AccessTokens_rotation` over replicas and tokens. The specifications name none of
them. The properties of the second are invariants and a refinement without fairness, that is a condition on
the initial states and on each step, which treats all tokens alike. In `NoteWrites_requests` no key is reused for
another note; the theorem `Promised` has every such reuse.

The violated ones compare the code with a sentence of the repository:

* `ReuseCancelsAll` (README.md:59, "all active refresh tokens are canceled"): the error of the
  DELETE at `refresh_tokens.go:64` is dropped. When InnoDB makes the transaction a deadlock
  victim nothing is cancelled, but the client is told `token_reused_detected`.
* `NotFoundIsFinal` (openapi.yaml:148): after a 404 under a key the claim stays open, and
  retries are told 409, Retry-After 2, for ever.
* `PageNotModified` (openapi.yaml:101, 304 Not Modified): the ETag of a page has the largest
  id and the number of its items, so that a PUT of one of them does not change it. What
  does hold is `NewestKnown`.
* `ServedWithinRate` (README.md:81, RATE_RPS): each request renews the EXPIRE, so that a counter
  adds up all requests since the last pause of a whole window; a client below any
  rate is refused in the end, and as long as it keeps coming. RATE_RPS has no effect. The
  renewal is what gives `WindowBound`: a counter of fixed windows lets twice the limit
  through around a border (the mutant `FixedWindow`).
* `RevokedRefused` (openapi.yaml:72 and 175): logout and the admin API write the id to Redis,
  and `AuthWith` never asks for it; `IsRevoked` has no caller.

Read in the code, and left without a run of its own:

* openapi.yaml:157 says that a DELETE returns the note's previous state. `Notes.Delete` reads in one
  statement and deletes in the next (`repos/notes.go:136`): a PUT that is answered 200 between the two is what
  gets deleted, and the DELETE returns the text before it.
* The error of `JTIStore.Revoke` is dropped (`auth.go:211`): without Redis a logout is a 204 that
  revokes nothing.
* A key reused for a DELETE of another note replays the first note (`idempotency_generic.go:31`
  compares the body only, which a DELETE does not have).
* migrations/0010 wants a key to be unique per user, but the table of 0007, where it is unique over
  all users, is already there: a second user with the same key gets a 500.
* `noteETag` has the second of the last update and four bytes of the SHA-256 of title, bar and body
  (`notes.go:51-52`). A PUT within the second of the text a client has, to a text with the same four bytes, is
  invisible to If-None-Match: the client gets a 304 and keeps the old text. The four bytes are always the same if two texts differ
  only in where the title ends, and otherwise by chance, one in 2^32. `NoteNotModified` allows
  exactly that; the instance has such texts, and stale copies are among its states.
* `oldest` and `updated` (`repos/notes.go:36` and 40) order by a time in whole seconds and leave ties open: a client
  that goes through the pages may see a note of such a second twice and another one not at all. `PagesFit` is
  about `newest` and `title`, where the id decides.
* An admin's revocation replaces the entry of a logout (`store.go:24`), and nobody compares the two: with a `ttl_sec`
  below what the token has left to live (`admin_jti.go:27-31`; an hour if none is given) the revocation that
  its owner was promised ends early. Four steps of the instance do it: a token is signed, its owner logs
  out, SETEX, and an admin revokes it for a second. `LogoutHolds` excepts these tokens (`shortened`) and no others.
* After a lost COMMIT (`idempotency_generic.go:19`) a keyed write runs again with the next retry. `WrittenOnce` and
  `SameAnswer` except such keys (`lost`).
* While EXEC fails, a limiter admits whatever comes (`rlredis.go:45`, `brute.go`): `WindowBound` is about the
  requests that Redis has counted.
* When `Assign` fails in Register (`auth.go:76`) the account stays without a role, and registering again is a
  conflict. `RegisteredAreUsers` excepts these accounts (`spoilt`).
* `user_roles` has no foreign key and `AdminRoles.Post` does not look for the account: an admin who
  names an id too high gives the role to whoever registers into it. The instance of
  `Accounts` does that, and no property forbids it.
* When the answer to the INSERT of `Users.Create` is lost, Register answers 409, now and on every
  retry, for an account that exists and has no role.
* An admin who is removed while a request of that admin is between `RequireRole` and its statement
  still changes a role: `ChangedByAdmins` says "at some instant of the request", not "at the
  change".
* `middleware/audit.go:23` reads the user from the request as it was before `AuthWith` put it there:
  every row of `audit_logs` has user 0. The row of `Server` has the status only.
* `Claim`, `Complete`, logout's `Revoke`, RequireRole and Audit have no deadline: when the database hangs,
  their requests keep their connections until the client goes. `DeadlinesHold` says where a
  request may stay, and no more.
* The migration files are named `0001_x.sql` and have annotations of another tool, where golang-migrate
  wants `.up.sql`; 0011 indexes columns (`action`, `role`) that no table has. All modules take the
  Up sections of 0001 to 0010 as the schema.
* README.md:112-116 rotates a key in one step. With two replicas that is not `Gradual`: until
  the rollout is over, the old replica refuses the new one's tokens.

Fairness: in `RefreshTokens` and `NoteWrites`, `SF_vars(Statement(r))` for each request and nothing else. The
server runs a handler's statements one after another without waiting for anything but the
database; InnoDB grants locks in order and breaks deadlocks, and a lock that comes and goes makes the
waiting statement enabled again and again, hence strong fairness. Begin, logouts, expiry
and failures are not fair: nothing needs to fail for a request to end.
In `Server`, goroutines run and timers fire (`Main`, `Enter`, `Finish`, `Reply`, `Deadline`, `Abort`: weak
fairness), a statement that has its connection ends unless the database hangs (WF of
`~ hangs /\ Statement(r)`: nothing is assumed of a hanging one), and a connection that becomes free again and
again reaches each waiting request (SF of `Take(r)`: `database/sql` hands it to some waiting request, and
newer ones have no preference over older ones). Clients, signals, panics and crashes are not fair.

Every property has a mutant beside the definition it changes (`UnlockedAlways`,
`ClaimAgain`, ...): the definition as a plausible bug would have it, under which the
property fails in the same run.

## What is proved

For every value of the constants. The proofs rest on the named assumptions of the modules
and nothing else.

`RefreshTokensProofs` (`NullAssumption`: the null values are not tokens or users): `Typing`,
`OneUsable`, `NoneSurvives` (`Spec => []OneUsableToken`, `[]NoSurvivor`), `Atomicity`
(`Spec => ActsAtomically`, the refinement of `TokenStore`) and `Deadlocks`.
The invariants the runs check are not inductive. `IInv` adds what the open
transactions know: a transaction holds the row it selected, alone, and `used_at` stays as it
read it (`HoldsRow`); an inserted token is its transaction's alone (`InsertIsPrivate`); a DELETE
has taken every usable row of its user, none that another transaction holds, and no insert
gets past it (`PurgeIsComplete`); every stored token belongs to a user and to a session of the
same user (`Owned`). The argument has two halves: `Simulation` maps each step to an
operation of the table or to none, using `IInv`; `StoreStep` shows that the *atomic* operations keep
the invariants of the table, so that the statements need to be considered only for `TxStep`. `Deadlocks` is about circles of
requests that wait for each other's locks, of any length: rotations alone never form one, and each has two
cancellations of which `PurgeDeadlock` ends one. `EveryRefreshEnds` checks two requests; this is
the part of it that more requests could have changed.

`NoteWritesProofs` (`OwnerAssumption`, `OrderAssumption`, `NullAssumption`): `Typing`, `Once`,
`Same`, `Own`, `Final`, `Frozen`, that is each safety property of `NoteWrites_requests`. `IInv` adds
what a request at each statement knows of its claim and its note (`Busy`), that a
claim that reached the table has one request that may write under it (`OneHolder`), that no
open claim remains where a key was written and nobody is on the way to complete
it unseen (`WriteSpent`), and that stored results, answers and fetched notes agree
(`AnswersAgree`, `OwnResults`). `Promised` (`Spec => KeepsPromise`) is the refinement of `KeyedWrites`: `Simulation`
maps a claim to `Own` or `Lose`, a write to `Write`, each 200 to `Reply` and the rest to a stutter. Beside `IInv`
it needs `RInv`: an answered key was written before (`WrittenFirst`), and about the owner's note (`OwnersNote`).

`NoteReadsProofs` (the assumptions of `NoteReads`; `RankAssumption`: a collation compares titles by
numbers): `Typing`, `NotModified` (`NoteNotModified`, for any texts and any `Digest`), `Own` (`CreatedOwn`), `Drift`
(`TotalDrift`), `Newest` (`NewestKnown`), `Fitting` (`PagesFit`) and `OnePlace` (`EachNoteOnce`).
The invariant: ids not handed out have no
row, and a create has one of its own (`Fresh`, `Given`); a copy is of a note that was stored (`KeptStored`) and the
latest 304 is still right (`Answered`); and a total is as far from what matches now as writes have come between
(`Drifting`, from the lemma `OneApart` that two sets which differ in one id differ by one in size).
The last three are about sorted sequences of any length and take induction. The library's induction theorems
cannot be used, so `Least` gets a least element of a set of naturals from the well-foundedness of `<`,
and `Induction` follows, with sets in place of predicates. By it a finite set of rows has an order (`SomeOrder`) and
one only (`OneOrder`), if no two of its rows tie, which the id, as the last column of ORDER BY, takes care of.
`LargestId` is a fold, whose recursive equation `LargestIsFold` and `LargestSolved` establish, and `Largest` says that it
returns the largest id; on a first page of the newest notes that is the first row (`TopSorted`), and `PInv` keeps the page
a client has under the answer it got. `EachNoteOnce` is what `PagesFit` is for: while nothing is written, a note that
matches is on exactly one page, once, for any size of the pages.

`RateCounterProofs` (`LimitAssumption`, `WindowAssumption`): `Typing`, `Bounded` (`WindowBound`),
`Pausing` (`PauseClears`), `Returning` (`RetryAfterSuffices`). The invariant: a living counter
knows its last request (`LastSeen`), the requests of the last window are numbered below it
(`RecentBelow`), no two of an interval have the same number (`Distinct`), each number but the
first has its predecessor less than a window before (`Preceded`), and a promise lies behind the
expiry (`Promised`). `Bounded` then counts: numbering the admitted requests of an interval is an
injection into 1..Limit.

`LoginProofs` (`ReplicaAssumption`: finitely many; `MailAssumption`, `BucketAssumption`): `BucketBounded` (`BucketBound`),
`GuessesBounded`, and `BehindBuckets` (`LoginSpec => Spec`), by which the theorems of `RateCounterProofs` hold for Brute behind the buckets. What a
bucket has let through since any instant and what it still holds never exceed a full bucket and
the time since (`Potential`); the passes of a bucket are numbered (`Numbered`), so that each is counted. `GuessBound` adds the replicas up, by induction
over their number: a bucket is in the memory of a replica, so that an operator who scales out multiplies
the logins that an e-mail is good for.

`AccessTokensProofs` (`ReleasesAssumption`, `TimeAssumption`, `ReplicaAssumption`,
`KidAssumption`, `NullAssumption`): `Typing`, `LogoutLasts` (`LogoutHolds`, with its exception for a shorter SETEX of an admin) and, with the premise `Gradual`, `Accepted`
(`LiveTokensAccepted`) and `Rotating` (`LooksLikeOneServer`, the refinement of `OneServer`). The invariant: replicas hold one of two releases (`InUse`), live tokens
are signed with one of them (`Genuine`), none lives longer than TTL (`Fresh`), so that after
a rollout and the wait only tokens of the latest release are left (`Settled`); what a
logout measured reaches from now to the token's end (`Measured`), and an admin's SETEX that is no shorter
than that keeps what a logout has put there (`AdminStep`).

`AccountsProofs` (`AskAssumption`, `NullAssumption`): `Typing` and every property of
`Accounts_roles` (`Registered`, `Operators`, `Users`, `Truthful`, `Authorised`). The invariant: a request
at its write has the row it named, and a sender whom it has seen as an admin (`RowOf`, `Entered`);
without a seed no request under way has seen an admin (`NoneSeen`), which is what makes
`AdminsComeFromOperators` inductive; ids not yet given are free (`Unused`).

`ServerProofs` (`PoolAssumption`, `BoundAssumption`): `Typing`, `Logged` (`AnsweredIsLogged`) and `NotCut`
(`NoneCutEarly`). The invariant: finitely many connections are in use, fewer than MaxOpen since one is always the
migrations' (`Pool`); a request at a statement still has one to run (`Remaining`); a
handler's answer that net/http is about to end has its row, or the INSERT has failed (`AuditedFirst`);
who has been answered is under way no more (`OverOnceTold`).

Only model-checked: liveness (`EveryRefreshEnds`, `EveryRequestEnds`, `ShutdownEnds`, `DeadlinesHold`), since fairness
and ENABLED are out of the prover's reach. Every other property of a passing run is a theorem.

## Not modelled

* The in-memory limiter of `middleware/ratelimit.go`: built only if the Redis client is nil, which
  `redisx.New` never returns; nothing calls its Cleanup. `repos/idempotency.go`, `RefreshTokens.Use` and
  `IsRevoked` have no caller.
* Lists of users and of audit rows (`handlers/admin_users.go`, `handlers/admin_audit.go`, `repos/users.go`): read only;
  `Server` has their requests, not their rows.
* Configuration, logging, metrics, tracing, the OpenAPI pages, headers and the deployment files: no state
  that the API's answers depend on.
* Hazards without a property. The text that a DELETE returns (`notes.go:136`) and the dropped errors of a
  logout (`auth.go:211`): they go wrong, as said above, in one step of `NoteWrites` or `AccessTokens`, and no run
  is spent on them. The user of an audit row (`audit.go:23`): a constant leaves a
  property nothing to tell apart. The lost answer to Register (`auth.go:71`): `Accounts` has the step, and
  nothing in the repository says what the client is owed then. The dropped error of Register's `Assign` (`auth.go:76`):
  `Accounts` has it too, and it goes wrong in that one step.
