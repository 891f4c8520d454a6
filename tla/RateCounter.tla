---------------------------- MODULE RateCounter ----------------------------
(***************************************************************************)
(* The Redis counters in front of the handlers: RedisLimiter (middleware/  *)
(* rlredis.go, one counter per address for all routes and one for /auth)   *)
(* and Brute (security/brute.go, one per address and e-mail at login).     *)
(*                                                                         *)
(* INCR and EXPIRE are one MULTI/EXEC, so that a request of any replica is *)
(* one step.  Only Brute's TTL is a command of its own.  Redis restarts    *)
(* with an empty memory.  Requests from addresses in RATE_ALLOW_CIDR pass  *)
(* RedisLimiter without being counted and are left out.                    *)
(***************************************************************************)
EXTENDS Integers, FiniteSets

CONSTANTS
    Client,    \* the keys of the requests that are counted
    Limit, Window,
    Horizon,   \* bound: the last instant
    MaxCount   \* bound: the highest value of a counter

ASSUME LimitAssumption == Limit \in Nat \ {0}
ASSUME WindowAssumption == Window \in Nat \ {0}
ASSUME BoundAssumption == Horizon \in Nat /\ MaxCount \in Nat

VARIABLES
    now,       \* the clock, in thirds of a second
    count,     \* the value of each counter ...
    expires,   \* ... and when Redis drops it
    refused,   \* clients with a refused request that has not read the TTL
    retryAt,   \* when the last Retry-After told the client to come back
    seen       \* every request Redis has counted since it started

redisVars == << count, expires >>
vars == << now, redisVars, refused, retryAt, seen >>

None == -1

\* n is the value INCR returned; a request whose answer got lost read 0.
Seen == [client : Client, at : Nat, n : Nat \ {0}, answered : BOOLEAN]

TypeOK ==
    /\ now \in Nat
    /\ count \in [Client -> Nat]
    /\ expires \in [Client -> Nat]
    /\ refused \subseteq Client
    /\ retryAt \in [Client -> Nat \cup {None}]
    /\ seen \subseteq Seen

Init ==
    /\ now = 0
    /\ count = [c \in Client |-> 0]
    /\ expires = [c \in Client |-> 0]
    /\ refused = {}
    /\ retryAt = [c \in Client |-> None]
    /\ seen = {}

-----------------------------------------------------------------------------
Alive(c) == now < expires[c]

\* Mutant of Incremented: the value before INCR.
BeforeIncrement(c) == IF Alive(c) THEN count[c] ELSE 0

\* What INCR returns.
Incremented(c) == IF Alive(c) THEN count[c] + 1 ELSE 1

\* Mutant of NewExpiry: the window starts with the first request.
FixedWindow(c) == IF Alive(c) THEN expires[c] ELSE now + Window

\* Mutant of NewExpiry: the counter is never dropped.
NeverExpires(c) == Horizon + 1

\* EXPIRE, on every request.
NewExpiry(c) == now + Window

\* TxPipeline: INCR, EXPIRE, EXEC.
Count(c, answered) ==
    /\ Incremented(c) <= MaxCount
    /\ count' = [count EXCEPT ![c] = Incremented(c)]
    /\ expires' = [expires EXCEPT ![c] = NewExpiry(c)]
    /\ seen' = seen \cup {[client |-> c, at |-> now, n |-> Incremented(c), answered |-> answered]}
    /\ retryAt' = [retryAt EXCEPT ![c] = None]

\* The request goes on to its handler.
Admit(c) ==
    /\ Incremented(c) <= Limit
    /\ Count(c, TRUE)
    /\ UNCHANGED << now, refused >>

\* 429.
Refuse(c) ==
    /\ Incremented(c) > Limit
    /\ Count(c, TRUE)
    /\ refused' = refused \cup {c}
    /\ UNCHANGED now

\* EXEC's error is dropped, and the value reads as 0: the request goes on,
\* whatever the counter is.  (If Redis did not run it, nothing changes.)
AdmitOnError(c) ==
    /\ Count(c, FALSE)
    /\ UNCHANGED << now, refused >>

\* Mutant of Seconds: rounded down.
WholeSeconds(d) == IF d > 0 THEN d \div 3 ELSE 0

\* Redis rounds a TTL to the nearest second; a key that is gone gives -2,
\* which Login prints as 0.
Seconds(d) == IF d > 0 THEN (2 * d + 3) \div 6 ELSE 0

\* Brute reads the TTL and Login answers with Retry-After.  If the TTL fails
\* the header says 0, which is taken for no promise.
TellRetryAfter(c) ==
    /\ c \in refused
    /\ \E at \in {None, now + 3 * Seconds(expires[c] - now)} :
          retryAt' = [retryAt EXCEPT ![c] = at]
    /\ refused' \in {refused, refused \ {c}}
    /\ UNCHANGED << now, redisVars, seen >>

Tick ==
    /\ now < Horizon
    /\ now' = now + 1
    /\ UNCHANGED << redisVars, refused, retryAt, seen >>

\* Redis comes back empty.  The history speaks of one life of Redis.
Restart ==
    /\ count' = [c \in Client |-> 0]
    /\ expires' = [c \in Client |-> 0]
    /\ seen' = {}
    /\ UNCHANGED << now, refused, retryAt >>

Next ==
    \/ \E c \in Client : Admit(c) \/ Refuse(c) \/ AdmitOnError(c) \/ TellRetryAfter(c)
    \/ Tick
    \/ Restart

Spec == Init /\ [][Next]_vars

-----------------------------------------------------------------------------
\* The requests of c that were let through by the counter from t until
\* before t + Window.
LetThrough(c, t) ==
    {s \in seen : /\ s.client = c /\ s.n <= Limit /\ s.answered
                  /\ t <= s.at /\ s.at < t + Window}

\* However the requests are spread, over any replicas, no interval of the
\* length of the window lets more than Limit of them through.  A counter of
\* fixed windows does not have this property: two bursts may meet.
WindowBound == \A c \in Client, t \in 0 .. now : Cardinality(LetThrough(c, t)) <= Limit

\* Nobody is locked out for good: who has sent nothing for a window is let
\* through, whatever was sent before, by a refused request too.
PauseClears ==
    \A s \in seen : s.n > Limit =>
        \E x \in seen : /\ x.client = s.client /\ x.n < s.n
                        /\ x.at <= s.at /\ s.at - x.at < Window

\* Who has been told to come back, and comes a moment later than told (less
\* than half a second, for the rounding), finds the counter gone, although
\* the TTL is read after the counter and others may have come in between.
RetryAfterSuffices ==
    \A c \in Client : retryAt[c] # None /\ now > retryAt[c] => ~ Alive(c)

-----------------------------------------------------------------------------
\* README.md:81: "RATE_RPS, RATE_BURST - Rate limit per IP."  A client whose
\* rate is within the limit is served.  It is not: the counter adds up all
\* requests since the last pause of a whole window.
ServedWithinRate ==
    \A s \in seen : s.n > Limit =>
        Cardinality({x \in seen : /\ x.client = s.client
                                  /\ x.at <= s.at /\ s.at - x.at < Window}) > Limit
=============================================================================
