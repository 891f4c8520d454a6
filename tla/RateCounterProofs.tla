------------------------- MODULE RateCounterProofs -------------------------
(***************************************************************************)
(* Proofs about RateCounter, for every limit and window, any number of     *)
(* clients and any length of time.                                         *)
(***************************************************************************)
EXTENDS RateCounter, FiniteSetTheorems, TLAPS

Of(c) == {s \in seen : s.client = c}

\* A counter lives a whole window after the last request it has seen, which
\* carries its value.
LastSeen ==
    \A c \in Client :
        /\ \A s \in Of(c) : s.at <= now /\ s.at + Window <= expires[c]
        /\ Alive(c) => \E s \in Of(c) : s.n = count[c] /\ expires[c] = s.at + Window

\* What it has seen within a window had no greater values.
RecentBelow ==
    \A c \in Client : \A s \in Of(c) : now < s.at + Window => s.n <= count[c]

\* Within a window no value is given twice.
Distinct ==
    \A c \in Client : \A s, x \in Of(c) :
        s.n = x.n /\ s.at <= x.at /\ x.at < s.at + Window => s = x

\* A value above one has its predecessor within a window.
Preceded ==
    \A s \in seen : s.n > 1 =>
        \E x \in seen : /\ x.client = s.client /\ x.n < s.n
                        /\ x.at <= s.at /\ s.at - x.at < Window

\* The promise covers the counter it was made about.
Promised == \A c \in Client : retryAt[c] # None => expires[c] <= retryAt[c] + 1

IInv == TypeOK /\ LastSeen /\ RecentBelow /\ Distinct /\ Preceded /\ Promised

-----------------------------------------------------------------------------
\* Rounding to the nearest second is short of a third of a second at most.
LEMMA Rounding == \A d \in Int : Seconds(d) \in Nat /\ d <= 3 * Seconds(d) + 1
BY DEF Seconds

\* Every step keeps the variables in their types.
LEMMA TypingStep == TypeOK /\ [Next]_vars => TypeOK'
<1> SUFFICES ASSUME TypeOK, [Next]_vars PROVE TypeOK'
    OBVIOUS
<1> USE DEF TypeOK, redisVars, None
<1>1. ASSUME NEW c \in Client, NEW b \in BOOLEAN, Count(c, b), now' = now, refused' \subseteq Client
      PROVE  TypeOK'
    <2>1. Incremented(c) \in Nat \ {0} /\ NewExpiry(c) \in Nat
        BY WindowAssumption DEF Incremented, NewExpiry
    <2> QED
        BY <1>1, <2>1 DEF Count, Seen
<1>2. ASSUME NEW c \in Client, TellRetryAfter(c) PROVE TypeOK'
    BY <1>2, Rounding DEF TellRetryAfter
<1>3. CASE Tick
    BY <1>3 DEF Tick
<1>4. CASE Restart
    BY <1>4 DEF Restart
<1>5. CASE UNCHANGED vars
    BY <1>5 DEF vars
<1> QED
    BY <1>1, <1>2, <1>3, <1>4, <1>5 DEF Next, Admit, Refuse, AdmitOnError

\* A request that is counted gets a value that no other request of the last
\* window has.
LEMMA CountKeeps ==
    ASSUME IInv, TypeOK', NEW c \in Client, NEW b \in BOOLEAN, Count(c, b), now' = now
    PROVE  IInv'
<1> DEFINE new == [client |-> c, at |-> now, n |-> Incremented(c), answered |-> b]
<1>1. TypeOK /\ LastSeen /\ RecentBelow /\ Distinct /\ Preceded /\ Promised
    BY DEF IInv
<1>2. /\ seen' = seen \cup {new} /\ count'[c] = Incremented(c) /\ expires'[c] = now + Window
      /\ retryAt'[c] = None
      /\ \A d \in Client \ {c} : /\ count'[d] = count[d] /\ expires'[d] = expires[d]
                                 /\ retryAt'[d] = retryAt[d]
    BY <1>1 DEF Count, TypeOK, NewExpiry
<1>3. /\ new.client = c /\ new.at = now /\ new.n = Incremented(c)
      /\ Incremented(c) \in Nat \ {0}
    BY <1>1 DEF TypeOK, Incremented
<1> HIDE DEF new
<1>4. /\ \A d \in Client \ {c} : Of(d)' = Of(d)
      /\ Of(c)' = Of(c) \cup {new}
    BY <1>2, <1>3 DEF Of
<1>5. \A d \in Client : \A s \in Of(d) : /\ s \in seen /\ s.client = d /\ s.at \in Nat
                                         /\ s.n \in Nat /\ s.at <= now
    BY <1>1 DEF Of, TypeOK, Seen, LastSeen
<1>6. now \in Nat /\ Window \in Nat /\ Window > 0 /\ \A d \in Client : expires[d] \in Nat /\ count[d] \in Nat
    BY <1>1, WindowAssumption DEF TypeOK
<1>7. \A s \in Of(c) : now < s.at + Window => s.n < Incremented(c)
    <2> SUFFICES ASSUME NEW s \in Of(c), now < s.at + Window PROVE s.n < Incremented(c)
        OBVIOUS
    <2>1. Alive(c) /\ s.n <= count[c]
        BY <1>1, <1>5, <1>6 DEF LastSeen, RecentBelow, Alive
    <2> QED
        BY <2>1, <1>5, <1>6 DEF Incremented
<1>8. LastSeen'
    <2>1. \A d \in Client \ {c} : Alive(d)' = Alive(d)
        BY <1>2 DEF Alive
    <2>2. \A s \in Of(c)' : s.at <= now /\ s.at + Window <= now + Window
        BY <1>3, <1>4, <1>5, <1>6
    <2>3. new \in Of(c)' /\ new.n = count'[c] /\ expires'[c] = new.at + Window
        BY <1>2, <1>3, <1>4
    <2> QED
        BY <1>1, <1>2, <1>4, <2>1, <2>2, <2>3 DEF LastSeen
<1>9. RecentBelow'
    <2>1. \A s \in Of(c)' : now < s.at + Window => s.n <= count'[c]
        BY <1>2, <1>3, <1>4, <1>5, <1>7
    <2> QED
        BY <1>1, <1>2, <1>4, <2>1 DEF RecentBelow
<1>10. Distinct'
    <2>1. ASSUME NEW s \in Of(c)', NEW x \in Of(c)', s.n = x.n, s.at <= x.at, x.at < s.at + Window
          PROVE  s = x
        <3>1. CASE s \in Of(c) /\ x \in Of(c)
            BY <1>1, <2>1, <3>1 DEF Distinct
        <3>2. CASE s \in Of(c) /\ x = new
            BY <1>3, <1>5, <1>7, <2>1, <3>2
        <3>3. CASE s = new /\ x \in Of(c)
            <4>1. x.at = now
                BY <1>3, <1>5, <1>6, <2>1, <3>3
            <4> QED
                BY <1>3, <1>5, <1>6, <1>7, <2>1, <3>3, <4>1
        <3> QED
            BY <1>4, <3>1, <3>2, <3>3
    <2> QED
        BY <1>1, <1>4, <2>1 DEF Distinct
<1>11. Preceded'
    <2>1. Incremented(c) > 1 => \E x \in seen : /\ x.client = c /\ x.n < Incremented(c)
                                                /\ x.at <= now /\ now - x.at < Window
        <3> SUFFICES ASSUME Incremented(c) > 1
                     PROVE  \E x \in seen : /\ x.client = c /\ x.n < Incremented(c)
                                            /\ x.at <= now /\ now - x.at < Window
            OBVIOUS
        <3>1. Alive(c) /\ Incremented(c) = count[c] + 1
            BY DEF Incremented
        <3>2. PICK x \in Of(c) : x.n = count[c] /\ expires[c] = x.at + Window
            BY <1>1, <3>1 DEF LastSeen
        <3>3. now < x.at + Window
            BY <3>1, <3>2 DEF Alive
        <3> QED
            BY <1>5, <1>6, <3>1, <3>2, <3>3
    <2> QED
        BY <1>1, <1>2, <1>3, <2>1 DEF Preceded
<1>12. Promised'
    BY <1>1, <1>2 DEF Promised
<1> QED
    BY <1>8, <1>9, <1>10, <1>11, <1>12 DEF IInv

\* Every step keeps the invariant.
LEMMA InvStep == IInv /\ [Next]_vars => IInv'
<1> SUFFICES ASSUME IInv, [Next]_vars PROVE IInv'
    OBVIOUS
<1>1. TypeOK /\ LastSeen /\ RecentBelow /\ Distinct /\ Preceded /\ Promised
    BY DEF IInv
<1>2. TypeOK'
    BY <1>1, TypingStep
<1>3. \A c \in Client : \A s \in Of(c) : s.at \in Nat /\ s.n \in Nat /\ s.at <= now
    BY <1>1 DEF Of, TypeOK, Seen, LastSeen
<1>4. ASSUME NEW c \in Client, Admit(c) \/ Refuse(c) \/ AdmitOnError(c) PROVE IInv'
    BY <1>2, <1>4, CountKeeps DEF Admit, Refuse, AdmitOnError
<1>5. ASSUME NEW c \in Client, TellRetryAfter(c) PROVE IInv'
    <2>1. UNCHANGED << now, count, expires, seen >>
        BY <1>5 DEF TellRetryAfter, redisVars
    <2>2. LastSeen' /\ RecentBelow' /\ Distinct' /\ Preceded'
        BY <1>1, <2>1 DEF LastSeen, RecentBelow, Distinct, Preceded, Of, Alive
    <2>3. retryAt'[c] # None => expires[c] <= retryAt'[c] + 1
        <3> DEFINE d == expires[c] - now
        <3>1. d \in Int /\ expires[c] = now + d /\ now \in Nat
            BY <1>1 DEF TypeOK
        <3>2. Seconds(d) \in Nat /\ d <= 3 * Seconds(d) + 1
            BY <3>1, Rounding
        <3>3. retryAt'[c] \in {None, now + 3 * Seconds(d)}
            BY <1>1, <1>5 DEF TellRetryAfter, TypeOK
        <3> HIDE DEF d
        <3> QED
            BY <3>1, <3>2, <3>3
    <2>4. \A d \in Client \ {c} : retryAt'[d] = retryAt[d]
        BY <1>1, <1>5 DEF TellRetryAfter, TypeOK
    <2> QED
        BY <1>1, <1>2, <2>1, <2>2, <2>3, <2>4 DEF IInv, Promised
<1>6. CASE Tick
    <2>1. now' = now + 1 /\ now \in Nat /\ UNCHANGED << count, expires, seen, retryAt >>
        BY <1>1, <1>6 DEF Tick, TypeOK, redisVars
    <2>2. \A c \in Client : Of(c)' = Of(c)
        BY <2>1 DEF Of
    <2>3. \A c \in Client : expires[c] \in Nat
        BY <1>1 DEF TypeOK
    <2>4. LastSeen'
        <3>1. \A c \in Client : Alive(c)' => Alive(c)
            BY <2>1, <2>3 DEF Alive
        <3>2. \A c \in Client : \A s \in Of(c) : s.at <= now + 1
            BY <1>3, <2>1
        <3> QED
            BY <1>1, <2>1, <2>2, <3>1, <3>2 DEF LastSeen
    <2>5. RecentBelow'
        BY <1>1, <1>3, <2>1, <2>2, WindowAssumption DEF RecentBelow
    <2>6. Distinct' /\ Preceded' /\ Promised'
        BY <1>1, <2>1, <2>2 DEF Distinct, Preceded, Promised
    <2> QED
        BY <1>2, <2>4, <2>5, <2>6 DEF IInv
<1>7. CASE Restart
    <2>1. /\ seen' = {} /\ now' = now /\ now \in Nat /\ retryAt' = retryAt
          /\ \A c \in Client : expires'[c] = 0 /\ retryAt[c] \in Nat \cup {None}
        BY <1>1, <1>7 DEF Restart, TypeOK
    <2>2. LastSeen' /\ RecentBelow' /\ Distinct' /\ Preceded'
        BY <2>1 DEF LastSeen, RecentBelow, Distinct, Preceded, Of, Alive
    <2>3. Promised'
        BY <2>1 DEF Promised, None
    <2> QED
        BY <1>2, <2>2, <2>3 DEF IInv
<1>8. CASE UNCHANGED vars
    BY <1>1, <1>2, <1>8 DEF vars, redisVars, IInv, LastSeen, RecentBelow, Distinct, Preceded,
       Promised, Of, Alive
<1> QED
    BY <1>4, <1>5, <1>6, <1>7, <1>8 DEF Next

\* In every reachable state a counter's value is that of its last request.
THEOREM Invariance == Spec => []IInv
<1>1. Init => IInv
    BY DEF Init, IInv, TypeOK, LastSeen, RecentBelow, Distinct, Preceded, Promised, Of, Alive, None
<1>2. IInv /\ [Next]_vars => IInv'
    BY InvStep
<1> QED
    BY <1>1, <1>2, PTL DEF Spec

\* No interval of the window's length lets more than Limit requests of a
\* client through: their values are distinct numbers from 1 to Limit.
THEOREM Bounded == Spec => []WindowBound
<1>1. IInv => WindowBound
    <2> SUFFICES ASSUME IInv, NEW c \in Client, NEW t \in 0 .. now
                 PROVE  Cardinality(LetThrough(c, t)) <= Limit
        BY DEF WindowBound
    <2> DEFINE L == LetThrough(c, t)
               val == [s \in L |-> s.n]
    <2>1. \A s \in L : /\ s \in Of(c) /\ s.n \in Nat \ {0} /\ s.at \in Nat /\ s.n <= Limit
                       /\ t <= s.at /\ s.at < t + Window
        BY DEF LetThrough, Of, IInv, TypeOK, Seen
    <2>2. t \in Int /\ Limit \in Nat /\ Window \in Nat
        BY LimitAssumption, WindowAssumption
    <2>3. \A s, x \in L : s.n = x.n => s = x
        <3> SUFFICES ASSUME NEW s \in L, NEW x \in L, s.n = x.n PROVE s = x
            OBVIOUS
        <3>1. CASE s.at <= x.at
            BY <2>1, <2>2, <3>1 DEF IInv, Distinct
        <3>2. CASE x.at <= s.at
            BY <2>1, <2>2, <3>2 DEF IInv, Distinct
        <3> QED
            BY <2>1, <3>1, <3>2
    <2> HIDE DEF L
    <2>4. val \in Injection(L, 1 .. Limit)
        BY <2>1, <2>2, <2>3 DEF Injection, IsInjective
    <2>5. IsFiniteSet(1 .. Limit) /\ Cardinality(1 .. Limit) = Limit
        BY <2>2, LimitAssumption, FS_Interval
    <2> QED
        BY <2>4, <2>5, FS_Injection DEF L
<1> QED
    BY <1>1, Invariance, PTL

\* Who pauses for a window is let through, whatever happened before.
THEOREM Pausing == Spec => []PauseClears
<1>1. IInv => PauseClears
    BY LimitAssumption DEF IInv, PauseClears, Preceded, TypeOK, Seen
<1> QED
    BY <1>1, Invariance, PTL

\* A client that obeys Retry-After and is a moment late finds no counter.
THEOREM Returning == Spec => []RetryAfterSuffices
<1>1. IInv => RetryAfterSuffices
    BY DEF IInv, RetryAfterSuffices, Promised, Alive, TypeOK
<1> QED
    BY <1>1, Invariance, PTL

\* Clock, counters and history keep their types.
THEOREM Typing == Spec => []TypeOK
<1>1. IInv => TypeOK
    BY DEF IInv
<1> QED
    BY <1>1, Invariance, PTL
=============================================================================
