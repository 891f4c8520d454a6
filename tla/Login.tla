------------------------------- MODULE Login -------------------------------
(***************************************************************************)
(* The two guards of Login (handlers/auth.go) in front of its password     *)
(* check: the token bucket of the e-mail (repos/limiters.go), in the       *)
(* memory of each replica, and after it Brute, whose counter in Redis all  *)
(* replicas share (RateCounter).                                           *)
(***************************************************************************)
EXTENDS RateCounter

CONSTANTS
    Replica,
    Email,    \* e-mails, as they are written in the requests
    Mail,     \* the e-mail that belongs to each counter
    Burst,    \* tokens that a bucket holds
    Refill    \* the time in which it gains one

ASSUME ReplicaAssumption == IsFiniteSet(Replica)
ASSUME MailAssumption == Mail \in [Client -> Email]
ASSUME BucketAssumption == Burst \in Nat \ {0} /\ Refill \in Nat \ {0}

VARIABLES
    level,    \* what each bucket holds, by replica and e-mail: Refill is a token
    waiting,  \* requests between their bucket and Brute; bound: one of a client on a replica
    passes    \* every request that a bucket has let through since its replica started

bucketVars == << level, waiting, passes >>
loginVars == << vars, bucketVars >>

Bucket == Replica \X Email
Full == Burst * Refill
Pass == [bucket : Bucket, at : Nat, n : Nat]

\* Mutant of Loaded: Load, then Store: of first requests that come together
\* each has a limiter of its own.
OwnLimiter(b) == Full

\* LoadOrStore: whatever the order, the limiter is the one that is stored.
Loaded(b) == level[b]

OfBucket(b) == {x \in passes : x.bucket = b}

\* EmailLimiter, without the 429, which leaves the bucket as it is.
Allow(p, c) ==
    LET b == << p, Mail[c] >> IN
    /\ << p, c >> \notin waiting
    /\ Loaded(b) >= Refill
    /\ level' = [level EXCEPT ![b] = Loaded(b) - Refill]
    /\ waiting' = waiting \cup {<< p, c >>}
    /\ passes' = passes \cup {[bucket |-> b, at |-> now, n |-> Cardinality(OfBucket(b))]}
    /\ UNCHANGED vars

\* Brute.Allow, and the password is checked, or 429.
Verify(p, c) ==
    /\ << p, c >> \in waiting
    /\ Admit(c) \/ Refuse(c) \/ AdmitOnError(c)
    /\ waiting' = waiting \ {<< p, c >>}
    /\ UNCHANGED << level, passes >>

\* time.Now() in every bucket: a token comes back little by little.
LoginTick ==
    /\ Tick
    /\ level' = [b \in Bucket |-> IF level[b] < Full THEN level[b] + 1 ELSE Full]
    /\ UNCHANGED << waiting, passes >>

\* A replica starts again, with an empty sync.Map.
RestartReplica(p) ==
    /\ level' = [b \in Bucket |-> IF b[1] = p THEN Full ELSE level[b]]
    /\ waiting' = {x \in waiting : x[1] # p}
    /\ passes' = {x \in passes : x.bucket[1] # p}
    /\ UNCHANGED vars

LoginInit ==
    /\ Init
    /\ level = [b \in Bucket |-> Full] /\ waiting = {} /\ passes = {}

LoginNext ==
    \/ \E p \in Replica, c \in Client : Allow(p, c) \/ Verify(p, c)
    \/ \E p \in Replica : RestartReplica(p)
    \/ LoginTick
    \/ (\E c \in Client : TellRetryAfter(c)) /\ UNCHANGED bucketVars
    \/ Restart /\ UNCHANGED bucketVars

LoginSpec == LoginInit /\ [][LoginNext]_loginVars

-----------------------------------------------------------------------------
\* The requests that a bucket has let through from s to t.
Through(b, s, t) == {x \in OfBucket(b) : s <= x.at /\ x.at <= t}

\* However the logins with an e-mail are spread over its clients, in no
\* interval does a replica let more of them through to a password check than
\* the burst and what the bucket gains meanwhile.
BucketBound ==
    \A b \in Bucket, t \in 0 .. now : \A s \in 0 .. t :
        Cardinality(Through(b, s, t)) * Refill <= Full + (t - s)
=============================================================================
