---------------------------- MODULE LoginProofs ----------------------------
(***************************************************************************)
(* Proofs about Login: the bound of its buckets, for any burst, refill and  *)
(* number of clients and replicas, and that what is proved of RateCounter   *)
(* also holds behind them.                                                  *)
(***************************************************************************)
EXTENDS Login, RateCounterProofs, WellFoundedInduction

BucketsOK ==
    /\ now \in Nat
    /\ level \in [Bucket -> Nat] /\ \A b \in Bucket : level[b] <= Full
    /\ passes \subseteq Pass /\ IsFiniteSet(passes)
    /\ \A x \in passes : x.at <= now

\* The requests of a bucket are numbered from zero.
Numbered == \A b \in Bucket : \A x \in OfBucket(b) : x.n < Cardinality(OfBucket(b))

\* What the bucket has let through since s, and what it still holds.
Potential ==
    \A b \in Bucket, s \in 0 .. now :
        Cardinality(Through(b, s, now)) * Refill + level[b] <= Full + (now - s)

BucketInv == BucketsOK /\ Numbered /\ Potential /\ BucketBound

-----------------------------------------------------------------------------
LEMMA Products ==
    /\ \A n, k \in Nat : n * k \in Nat /\ (n + 1) * k = n * k + k
    /\ \A k \in Nat : 0 * k = 0
OBVIOUS

LEMMA FullNat == Full \in Nat /\ Refill \in Nat
BY BucketAssumption, Products DEF Full

\* The sets that are counted are finite.
LEMMA Counted ==
    ASSUME IsFiniteSet(passes), NEW b, NEW s, NEW t
    PROVE  /\ IsFiniteSet(OfBucket(b)) /\ Cardinality(OfBucket(b)) \in Nat
           /\ IsFiniteSet(Through(b, s, t)) /\ Cardinality(Through(b, s, t)) \in Nat
<1>1. OfBucket(b) \subseteq passes /\ Through(b, s, t) \subseteq passes
    BY DEF OfBucket, Through
<1>2. IsFiniteSet(OfBucket(b)) /\ IsFiniteSet(Through(b, s, t))
    BY <1>1, FS_Subset
<1> QED
    BY <1>2, FS_CardinalityType

\* The bound of an interval that ends now is what the potential leaves; one
\* that ended before keeps its requests, or loses them all.
LEMMA BoundStep ==
    ASSUME BucketsOK, BucketBound, BucketsOK', Potential', now <= now',
           ASSUME NEW b \in Bucket, NEW t \in 0 .. now', NEW s \in 0 .. t, t # now'
           PROVE  t \in 0 .. now /\ Through(b, s, t)' \in {Through(b, s, t), {}}
    PROVE  BucketBound'
<1> SUFFICES ASSUME NEW b \in Bucket, NEW t \in 0 .. now', NEW s \in 0 .. t
             PROVE  Cardinality(Through(b, s, t)') * Refill <= Full + (t - s)
    BY DEF BucketBound, Full
<1>1. CASE t = now'
    <2> DEFINE m == Cardinality(Through(b, s, now)') * Refill
    <2>1. Cardinality(Through(b, s, now)') \in Nat
        <3>1. Through(b, s, now)' \subseteq passes'
            BY DEF Through, OfBucket
        <3> QED
            BY <3>1, FS_Subset, FS_CardinalityType DEF BucketsOK
    <2>2. m \in Nat
        BY <2>1, FullNat, Products
    <2>3. m + level'[b] <= Full + (now' - s)
        BY <1>1 DEF Potential, Full
    <2>4. level'[b] \in Nat /\ now' \in Nat
        BY DEF BucketsOK
    <2>5. Through(b, s, t)' = Through(b, s, now)'
        BY <1>1 DEF Through, OfBucket
    <2> DEFINE l == level'[b]
               f == Full + (now' - s)
    <2>6. l \in Nat /\ f \in Int /\ m + l <= f
        BY <2>3, <2>4, FullNat
    <2> HIDE DEF m, l, f
    <2>7. m <= f
        BY <2>2, <2>6
    <2> QED
        BY <1>1, <2>5, <2>7 DEF m, f
<1>2. CASE t # now'
    <2>1. t \in 0 .. now /\ Through(b, s, t)' \in {Through(b, s, t), {}}
        BY <1>2
    <2>2. CASE Through(b, s, t)' = Through(b, s, t)
        BY <2>1, <2>2 DEF BucketBound
    <2>3. CASE Through(b, s, t)' = {}
        <3>1. Cardinality({}) = 0 /\ 0 * Refill = 0
            BY FS_EmptySet, FullNat, Products
        <3> QED
            BY <2>3, <3>1, FullNat
    <2> QED
        BY <2>1, <2>2, <2>3
<1> QED
    BY <1>1, <1>2

LEMMA BucketInit == LoginInit => BucketInv
<1> SUFFICES ASSUME LoginInit PROVE BucketInv
    OBVIOUS
<1>1. now = 0 /\ passes = {} /\ level = [b \in Bucket |-> Full]
    BY DEF LoginInit, Init
<1>2. \A b, s, t : Through(b, s, t) = {} /\ OfBucket(b) = {}
    BY <1>1 DEF Through, OfBucket
<1>3. IsFiniteSet({}) /\ Cardinality({}) = 0
    BY FS_EmptySet
<1>4. BucketsOK /\ Numbered
    BY <1>1, <1>2, <1>3, FullNat DEF BucketsOK, Numbered
<1>5. \A b \in Bucket, s, t \in {0} :
         /\ Cardinality(Through(b, s, t)) * Refill = 0
         /\ level[b] = Full
    BY <1>1, <1>2, <1>3, Products, FullNat
<1>6. 0 .. now = {0} /\ \A t \in {0} : 0 .. t = {0}
    BY <1>1
<1>7. Potential
    BY <1>1, <1>5, <1>6, FullNat DEF Potential
<1>8. BucketBound
    BY <1>5, <1>6, FullNat DEF BucketBound
<1> QED
    BY <1>4, <1>7, <1>8 DEF BucketInv

-----------------------------------------------------------------------------
\* A bucket lets a request through.
LEMMA AllowStep ==
    ASSUME BucketInv, NEW p \in Replica, NEW c \in Client, Allow(p, c)
    PROVE  BucketInv'
<1> DEFINE b0 == << p, Mail[c] >>
<1> DEFINE x0 == [bucket |-> b0, at |-> now, n |-> Cardinality(OfBucket(b0))]
<1>0. b0 \in Bucket
    BY MailAssumption DEF Bucket
<1>1. /\ passes' = passes \cup {x0} /\ now' = now
      /\ level' = [level EXCEPT ![b0] = level[b0] - Refill]
      /\ level[b0] >= Refill
    BY DEF Allow, Loaded, vars
<1>2. Cardinality(OfBucket(b0)) \in Nat
    BY Counted DEF BucketInv, BucketsOK
<1>3. x0 \in Pass /\ x0.at = now /\ x0.bucket = b0 /\ x0.n = Cardinality(OfBucket(b0))
    BY <1>0, <1>2 DEF Pass, BucketInv, BucketsOK
<1> HIDE DEF x0
<1>4. x0 \notin OfBucket(b0)
    <2> SUFFICES ASSUME x0 \in OfBucket(b0) PROVE FALSE
        OBVIOUS
    <2>1. x0.n < Cardinality(OfBucket(b0))
        BY <1>0 DEF BucketInv, Numbered
    <2> QED
        BY <2>1, <1>2, <1>3
<1> HIDE DEF b0
<1>5. /\ OfBucket(b0)' = OfBucket(b0) \cup {x0}
      /\ \A b \in Bucket \ {b0} : OfBucket(b)' = OfBucket(b)
    BY <1>1, <1>3 DEF OfBucket
<1>6. BucketsOK'
    <2>1. IsFiniteSet(passes')
        BY <1>1, FS_AddElement DEF BucketInv, BucketsOK
    <2>2. level[b0] \in Nat /\ level[b0] - Refill \in Nat /\ level[b0] <= Full
        BY <1>0, <1>1, FullNat DEF BucketInv, BucketsOK
    <2>3. level' \in [Bucket -> Nat] /\ \A b \in Bucket : level'[b] <= Full
        BY <1>0, <1>1, <2>2, FullNat DEF BucketInv, BucketsOK
    <2>4. Full' = Full
        BY DEF Full
    <2> QED
        BY <1>1, <1>3, <2>1, <2>3, <2>4 DEF BucketInv, BucketsOK
<1>7. Cardinality(OfBucket(b0)') = Cardinality(OfBucket(b0)) + 1
    BY <1>4, <1>5, Counted, FS_AddElement DEF BucketInv, BucketsOK
<1>8. Numbered'
    <2> SUFFICES ASSUME NEW b \in Bucket, NEW x \in OfBucket(b)'
                 PROVE  x.n < Cardinality(OfBucket(b)')
        BY DEF Numbered
    <2>1. CASE b # b0
        BY <1>5, <2>1 DEF BucketInv, Numbered
    <2>2. CASE b = b0 /\ x = x0
        BY <1>2, <1>3, <1>7, <2>2
    <2>3. CASE b = b0 /\ x # x0
        <3>1. x \in OfBucket(b0) /\ x \in passes
            BY <1>5, <2>3 DEF OfBucket
        <3>2. x.n \in Nat /\ x.n < Cardinality(OfBucket(b0))
            BY <1>0, <3>1 DEF BucketInv, BucketsOK, Pass, Numbered
        <3> QED
            BY <1>2, <1>7, <2>3, <3>2
    <2> QED
        BY <2>1, <2>2, <2>3
<1>9. \A s \in 0 .. now :
         Cardinality(Through(b0, s, now)') = Cardinality(Through(b0, s, now)) + 1
    <2> TAKE s \in 0 .. now
    <2>1. Through(b0, s, now)' = Through(b0, s, now) \cup {x0} /\ x0 \notin Through(b0, s, now)
        BY <1>1, <1>3, <1>4, <1>5 DEF Through, BucketInv, BucketsOK
    <2> QED
        BY <2>1, Counted, FS_AddElement DEF BucketInv, BucketsOK
<1>10. Potential'
    <2> SUFFICES ASSUME NEW b \in Bucket, NEW s \in 0 .. now
                 PROVE  Cardinality(Through(b, s, now)') * Refill + level'[b] <= Full + (now - s)
        BY <1>1 DEF Potential, Full
    <2> DEFINE m == Cardinality(Through(b, s, now))
    <2>1. m \in Nat /\ m * Refill + level[b] <= Full + (now - s) /\ level[b] \in Nat
        BY Counted DEF BucketInv, BucketsOK, Potential
    <2>2. CASE b # b0
        <3>1. Through(b, s, now)' = Through(b, s, now) /\ level'[b] = level[b]
            BY <1>1, <1>5, <2>2 DEF Through, BucketInv, BucketsOK
        <3> QED
            BY <2>1, <3>1
    <2>3. CASE b = b0
        <3>1. Cardinality(Through(b, s, now)') = m + 1 /\ level'[b] = level[b] - Refill
            BY <1>0, <1>1, <1>9, <2>3 DEF BucketInv, BucketsOK
        <3> HIDE DEF m
        <3>2. (m + 1) * Refill = m * Refill + Refill /\ m * Refill \in Nat
            BY <2>1, FullNat, Products
        <3>3. (m + 1) * Refill + (level[b] - Refill) = m * Refill + level[b]
            <4> DEFINE k == m * Refill
            <4>1. k \in Nat /\ (m + 1) * Refill = k + Refill
                BY <3>2
            <4> HIDE DEF k
            <4>2. (m + 1) * Refill + (level[b] - Refill) = k + level[b]
                BY <4>1, <2>1, FullNat
            <4> QED
                BY <4>2 DEF k
        <3> QED
            BY <2>1, <3>1, <3>3
    <2> QED
        BY <2>2, <2>3
<1>11. BucketBound'
    <2>1. ASSUME NEW b \in Bucket, NEW t \in 0 .. now', NEW s \in 0 .. t, t # now'
          PROVE  t \in 0 .. now /\ Through(b, s, t)' \in {Through(b, s, t), {}}
        <3>1. t \in 0 .. now /\ ~ (now <= t)
            BY <1>1, <2>1 DEF BucketInv, BucketsOK
        <3>2. Through(b, s, t)' = Through(b, s, t)
            BY <1>3, <1>5, <3>1 DEF Through
        <3> QED
            BY <3>1, <3>2
    <2>2. now <= now'
        BY <1>1 DEF BucketInv, BucketsOK
    <2> QED
        BY <1>6, <1>10, <2>1, <2>2, BoundStep DEF BucketInv
<1> QED
    BY <1>6, <1>8, <1>10, <1>11 DEF BucketInv

\* Time passes.
LEMMA TickStep ==
    ASSUME BucketInv, LoginTick
    PROVE  BucketInv'
<1>1. /\ now' = now + 1 /\ passes' = passes /\ now \in Nat
      /\ level' = [b \in Bucket |-> IF level[b] < Full THEN level[b] + 1 ELSE Full]
    BY DEF LoginTick, Tick, BucketInv, BucketsOK
<1>2. \A b \in Bucket : /\ level[b] \in Nat /\ level'[b] \in Nat
                        /\ level'[b] <= Full /\ level'[b] <= level[b] + 1
    BY <1>1, FullNat DEF BucketInv, BucketsOK
<1>3. BucketsOK'
    <2>1. \A x \in passes : x.at <= now + 1
        BY <1>1 DEF BucketInv, BucketsOK, Pass
    <2> QED
        BY <1>1, <1>2, <2>1 DEF BucketInv, BucketsOK, Full
<1>4. /\ \A b : OfBucket(b)' = OfBucket(b)
      /\ \A b, s, t : Through(b, s, t)' = Through(b, s, t)
    BY <1>1 DEF OfBucket, Through
<1>5. Numbered'
    BY <1>4 DEF BucketInv, Numbered
<1>6. Potential'
    <2> SUFFICES ASSUME NEW b \in Bucket, NEW s \in 0 .. now + 1
                 PROVE  Cardinality(Through(b, s, now + 1)) * Refill + level'[b] <= Full + (now + 1 - s)
        BY <1>1, <1>4 DEF Potential, Full, Through, OfBucket
    <2>1. CASE s = now + 1
        <3>1. Through(b, s, now + 1) = {}
            BY <1>1, <2>1 DEF Through, OfBucket, BucketInv, BucketsOK, Pass
        <3>2. Cardinality({}) = 0 /\ 0 * Refill = 0
            BY FS_EmptySet, FullNat, Products
        <3> QED
            BY <1>1, <1>2, <2>1, <3>1, <3>2, FullNat
    <2>2. CASE s \in 0 .. now
        <3>1. Through(b, s, now + 1) = Through(b, s, now)
            BY <1>1 DEF Through, OfBucket, BucketInv, BucketsOK, Pass
        <3> DEFINE m == Cardinality(Through(b, s, now)) * Refill
        <3>2. m \in Nat
            BY Counted, FullNat, Products DEF BucketInv, BucketsOK
        <3>3. m + level[b] <= Full + (now - s)
            BY <2>2 DEF BucketInv, Potential
        <3> HIDE DEF m
        <3>4. m + level'[b] <= Full + (now + 1 - s)
            BY <1>1, <1>2, <2>2, <3>2, <3>3, FullNat
        <3> QED
            BY <3>1, <3>4 DEF m
    <2> QED
        BY <1>1, <2>1, <2>2
<1>7. BucketBound'
    <2>1. ASSUME NEW b \in Bucket, NEW t \in 0 .. now', NEW s \in 0 .. t, t # now'
          PROVE  t \in 0 .. now /\ Through(b, s, t)' \in {Through(b, s, t), {}}
        BY <1>1, <1>4, <2>1
    <2>2. now <= now'
        BY <1>1
    <2> QED
        BY <1>3, <1>6, <2>1, <2>2, BoundStep DEF BucketInv
<1> QED
    BY <1>3, <1>5, <1>6, <1>7 DEF BucketInv

\* A replica restarts: its buckets are full, and it has let nothing through.
LEMMA RestartStep ==
    ASSUME BucketInv, NEW p \in Replica, RestartReplica(p)
    PROVE  BucketInv'
<1>1. /\ now' = now /\ now \in Nat /\ passes' = {x \in passes : x.bucket[1] # p}
      /\ level' = [b \in Bucket |-> IF b[1] = p THEN Full ELSE level[b]]
    BY DEF RestartReplica, vars, BucketInv, BucketsOK
<1>2. \A b \in Bucket : /\ level'[b] \in Nat /\ level'[b] <= Full
                        /\ b[1] # p => level'[b] = level[b]
    BY <1>1, FullNat DEF BucketInv, BucketsOK
<1>3. BucketsOK'
    <2>1. passes' \subseteq passes
        BY <1>1
    <2>2. IsFiniteSet(passes')
        BY <2>1, FS_Subset DEF BucketInv, BucketsOK
    <2> QED
        BY <1>1, <1>2, <2>1, <2>2 DEF BucketInv, BucketsOK, Full
<1>4. \A b \in Bucket :
         /\ OfBucket(b)' = IF b[1] = p THEN {} ELSE OfBucket(b)
         /\ \A s, t : Through(b, s, t)' = IF b[1] = p THEN {} ELSE Through(b, s, t)
    BY <1>1 DEF OfBucket, Through
<1>5. Numbered'
    BY <1>4 DEF BucketInv, Numbered
<1>6. Potential'
    <2> SUFFICES ASSUME NEW b \in Bucket, NEW s \in 0 .. now
                 PROVE  Cardinality(Through(b, s, now)') * Refill + level'[b] <= Full + (now - s)
        BY <1>1 DEF Potential, Full, Through, OfBucket
    <2>1. CASE b[1] = p
        <3>1. Cardinality({}) = 0 /\ 0 * Refill = 0
            BY FS_EmptySet, FullNat, Products
        <3>2. Through(b, s, now)' = {}
            BY <1>1, <2>1 DEF Through, OfBucket
        <3> QED
            BY <1>1, <1>2, <3>1, <3>2, FullNat
    <2>2. CASE b[1] # p
        <3>1. Through(b, s, now)' = Through(b, s, now)
            BY <1>1, <2>2 DEF Through, OfBucket
        <3> QED
            BY <1>2, <2>2, <3>1 DEF BucketInv, Potential
    <2> QED
        BY <2>1, <2>2
<1>7. BucketBound'
    <2>1. ASSUME NEW b \in Bucket, NEW t \in 0 .. now', NEW s \in 0 .. t, t # now'
          PROVE  t \in 0 .. now /\ Through(b, s, t)' \in {Through(b, s, t), {}}
        BY <1>1, <1>4, <2>1
    <2>2. now <= now'
        BY <1>1
    <2> QED
        BY <1>3, <1>6, <2>1, <2>2, BoundStep DEF BucketInv
<1> QED
    BY <1>3, <1>5, <1>6, <1>7 DEF BucketInv

\* The other steps leave time and the buckets alone.
LEMMA FrameStep ==
    ASSUME BucketInv, now' = now, level' = level, passes' = passes
    PROVE  BucketInv'
BY DEF BucketInv, BucketsOK, Numbered, Potential, BucketBound, Through, OfBucket, Full

LEMMA BucketStep ==
    ASSUME BucketInv, [LoginNext]_loginVars
    PROVE  BucketInv'
<1>1. ASSUME NEW p \in Replica, NEW c \in Client, Verify(p, c)
      PROVE  BucketInv'
    BY <1>1, FrameStep DEF Verify, Admit, Refuse, AdmitOnError
<1>2. ASSUME NEW c \in Client, TellRetryAfter(c), UNCHANGED bucketVars
      PROVE  BucketInv'
    BY <1>2, FrameStep DEF TellRetryAfter, bucketVars
<1>3. CASE Restart /\ UNCHANGED bucketVars
    BY <1>3, FrameStep DEF Restart, bucketVars
<1>4. CASE UNCHANGED loginVars
    BY <1>4, FrameStep DEF loginVars, vars, bucketVars
<1> QED
    BY <1>1, <1>2, <1>3, <1>4, AllowStep, TickStep, RestartStep DEF LoginNext

\* In any interval a replica lets no more requests with an e-mail through
\* than the burst and what the bucket gains, however many clients share it.
THEOREM BucketBounded == LoginSpec => []BucketBound
<1>1. BucketInv => BucketBound
    BY DEF BucketInv
<1> QED
    BY <1>1, BucketInit, BucketStep, PTL DEF LoginSpec

-----------------------------------------------------------------------------
(* All replicas together. *)

\* The requests with an e-mail that replicas have let through from s to t.
Guesses(R, e, s, t) == 
    {x \in passes : x.bucket[1] \in R /\ x.bucket[2] = e /\ s <= x.at /\ x.at <= t}

\* Each replica has a bucket of its own for an e-mail, so that more replicas
\* mean more logins: as many times the bound of a bucket as there are replicas.
GuessBound ==
    \A e \in Email, t \in 0 .. now : \A s \in 0 .. t :
        Cardinality(Guesses(Replica, e, s, t)) * Refill <= Cardinality(Replica) * (Full + (t - s))

\* A set of naturals has a least one.
LEMMA Least ==
    ASSUME NEW S \in SUBSET Nat, S # {}
    PROVE  \E m \in S : \A n \in S : m <= n
<1> DEFINE R == OpToRel(<, Nat)
<1>1. IsWellFoundedOn(R, Nat)
    BY NatLessThanWellFounded
<1> HIDE DEF R
<1>2. PICK m \in S : \A n \in S : << n, m >> \notin R
    BY <1>1, WFMin
<1>3. \A n \in S : n < m => << n, m >> \in R
    BY DEF R, OpToRel
<1>4. \A n \in S : ~ (n < m)
    BY <1>2, <1>3
<1>5. \A n \in S : n \in Nat /\ m \in Nat
    OBVIOUS
<1>6. \A n \in S : m <= n
    BY <1>4, <1>5
<1> QED
    BY <1>6

\* Induction: a set of naturals that has zero and every successor has them all.
LEMMA Induction ==
    ASSUME NEW S \in SUBSET Nat, 0 \in S, \A n \in S : n + 1 \in S
    PROVE  S = Nat
<1> SUFFICES ASSUME Nat \ S # {} PROVE FALSE
    OBVIOUS
<1>1. PICK m \in Nat \ S : \A n \in Nat \ S : m <= n
    BY Least
<1>2. m # 0 /\ m - 1 \in Nat
    BY <1>1
<1>3. m - 1 \in S
    BY <1>1, <1>2
<1> QED
    BY <1>1, <1>2, <1>3

LEMMA Sums ==
    \A a, b, n \in Nat, k, f \in Nat :
        a * k <= n * f /\ b * k <= f => (a + b) * k <= (n + 1) * f
<1> TAKE a, b, n \in Nat, k, f \in Nat
<1> DEFINE p == a * k
           q == b * k
           z == n * f
<1>1. (a + b) * k = p + q /\ (n + 1) * f = z + f
    OBVIOUS
<1>2. p \in Nat /\ q \in Nat /\ z \in Nat
    OBVIOUS
<1> HIDE DEF p, q, z
<1>3. p <= z /\ q <= f => p + q <= z + f
    BY <1>2
<1> QED
    BY <1>1, <1>3 DEF p, q, z

\* One replica more lets through what its bucket does.
LEMMA OneMore ==
    ASSUME BucketsOK, BucketBound, NEW e \in Email, NEW t \in 0 .. now, NEW s \in 0 .. t,
           NEW n \in Nat, NEW R \in SUBSET Replica, NEW p \in Replica \ R,
           Cardinality(Guesses(R, e, s, t)) * Refill <= n * (Full + (t - s))
    PROVE  Cardinality(Guesses(R \cup {p}, e, s, t)) * Refill <= (n + 1) * (Full + (t - s))
<1> DEFINE A == Guesses(R, e, s, t)
           B == Through(<< p, e >>, s, t)
           C == Guesses(R \cup {p}, e, s, t)
<1>1. C = A \cup B /\ A \cap B = {}
    <2>1. \A x \in passes : x.bucket = << x.bucket[1], x.bucket[2] >>
        BY DEF BucketsOK, Pass, Bucket
    <2> QED
        BY <2>1 DEF Guesses, Through, OfBucket
<1>2. IsFiniteSet(A) /\ IsFiniteSet(B)
    <2>1. A \subseteq passes /\ B \subseteq passes
        BY DEF Guesses, Through, OfBucket
    <2> QED
        BY <2>1, FS_Subset DEF BucketsOK
<1>3. << p, e >> \in Bucket
    BY DEF Bucket
<1>4. Cardinality(B) * Refill <= Full + (t - s)
    BY <1>3 DEF BucketBound
<1> HIDE DEF A, B, C
<1>5. Cardinality(A) \in Nat /\ Cardinality(B) \in Nat /\ Cardinality({}) = 0
    BY <1>2, FS_CardinalityType, FS_EmptySet
<1>6. Cardinality(C) = Cardinality(A) + Cardinality(B)
    BY <1>1, <1>2, <1>5, FS_Union
<1>7. Full + (t - s) \in Nat
    BY FullNat DEF BucketsOK
<1>8. Cardinality(A) * Refill <= n * (Full + (t - s))
    BY DEF A
<1> DEFINE f == Full + (t - s)
<1> HIDE DEF f
<1>9. (Cardinality(A) + Cardinality(B)) * Refill <= (n + 1) * f
    BY <1>4, <1>5, <1>7, <1>8, FullNat, Sums DEF f
<1> QED
    BY <1>6, <1>9 DEF C, f

LEMMA AllReplicas ==
    ASSUME BucketsOK, BucketBound
    PROVE  GuessBound
<1> SUFFICES ASSUME NEW e \in Email, NEW t \in 0 .. now, NEW s \in 0 .. t
             PROVE  Cardinality(Guesses(Replica, e, s, t)) * Refill
                      <= Cardinality(Replica) * (Full + (t - s))
    BY DEF GuessBound
<1> DEFINE Below(R, n) == Cardinality(Guesses(R, e, s, t)) * Refill <= n * (Full + (t - s))
           N == {n \in Nat : \A R \in SUBSET Replica : Cardinality(R) = n => Below(R, n)}
<1>1. \A R \in SUBSET Replica : IsFiniteSet(R) /\ Cardinality(R) \in Nat
    BY ReplicaAssumption, FS_Subset, FS_CardinalityType
<1>2. 0 \in N
    <2> SUFFICES ASSUME NEW R \in SUBSET Replica, Cardinality(R) = 0 PROVE Below(R, 0)
        OBVIOUS
    <2>1. R = {}
        BY <1>1, FS_EmptySet
    <2>2. Guesses(R, e, s, t) = {}
        BY <2>1 DEF Guesses
    <2>3. Cardinality({}) = 0 /\ 0 * Refill = 0 /\ Full + (t - s) \in Nat
        BY FS_EmptySet, FullNat, Products DEF BucketsOK
    <2>4. 0 * (Full + (t - s)) = 0
        BY <2>3, Products
    <2> QED
        BY <2>2, <2>3, <2>4
<1>3. \A n \in N : n + 1 \in N
    <2> SUFFICES ASSUME NEW n \in Nat, n \in N, NEW R \in SUBSET Replica, Cardinality(R) = n + 1
                 PROVE  Below(R, n + 1)
        OBVIOUS
    <2>1. R # {}
        BY FS_EmptySet
    <2>2. PICK p \in R : TRUE
        BY <2>1
    <2> DEFINE Q == R \ {p}
    <2>3. Q \in SUBSET Replica /\ p \in Replica \ Q /\ R = Q \cup {p}
        BY <2>2
    <2>4. Cardinality(Q) = n
        <3>1. IsFiniteSet(R) /\ Cardinality(R) = n + 1
            BY <1>1
        <3>2. Cardinality(Q) = Cardinality(R) - 1
            BY <2>2, <3>1, FS_RemoveElement
        <3> QED
            BY <3>1, <3>2
    <2>5. Below(Q, n)
        BY <2>3, <2>4
    <2> HIDE DEF Q
    <2>6. Below(Q \cup {p}, n + 1)
        BY <2>3, <2>5, OneMore
    <2> QED
        BY <2>3, <2>6
<1>4. N = Nat
    <2> HIDE DEF N
    <2>1. N \in SUBSET Nat
        BY DEF N
    <2> QED
        BY <1>2, <1>3, <2>1, Induction
<1>5. Cardinality(Replica) \in N
    BY <1>1, <1>4
<1> QED
    BY <1>5

\* With any number of replicas, in no interval do they let more logins with an
\* e-mail through than the buckets of that many replicas hold and gain.
THEOREM GuessesBounded == LoginSpec => []GuessBound
<1>1. BucketInv => GuessBound
    BY AllReplicas DEF BucketInv
<1> QED
    BY <1>1, BucketInit, BucketStep, PTL DEF LoginSpec

-----------------------------------------------------------------------------
\* Behind the buckets, Brute's counter is a RateCounter.
THEOREM BehindBuckets == LoginSpec => Spec
<1>1. LoginInit => Init
    BY DEF LoginInit
<1>2. [LoginNext]_loginVars => [Next]_vars
    BY DEF LoginNext, Next, Allow, Verify, LoginTick, RestartReplica, loginVars
<1> QED
    BY <1>1, <1>2, PTL DEF LoginSpec, Spec
=============================================================================
