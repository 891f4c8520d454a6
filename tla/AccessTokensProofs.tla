------------------------- MODULE AccessTokensProofs -------------------------
(***************************************************************************)
(* Theorems about AccessTokens, for any replicas, tokens, environments and *)
(* lifetimes.                                                              *)
(***************************************************************************)
EXTENDS AccessTokens, TLAPS

USE ReleasesAssumption, TimeAssumption, ReplicaAssumption, KidAssumption

-----------------------------------------------------------------------------
(* The operators. *)

\* exp is a time, at most TTL away.
LEMMA ExpiryBound ==
    ASSUME now \in Nat
    PROVE  Expiry \in Nat /\ Expiry <= now + TTL
BY DEF Expiry

\* Rounding a lifetime to seconds takes less than a second from it.
LEMMA SecondsBound ==
    ASSUME NEW d \in Int, Seconds(d) > 0
    PROVE  Seconds(d) \in Nat /\ 2 * Seconds(d) + 1 >= d
BY DEF Seconds

\* What a replica signs has the form of a signature.
LEMMA SignatureType ==
    ASSUME NEW e \in Env
    PROVE  NewSignature(e) \in Signature
<1>1. PICK K \in SUBSET Kid : e.keys \in [K -> Secret]
  BY DEF Env
<1>2. e.current \in Kid \cup {NoKid} /\ e.secret \in Secret \cup {NoSecret}
  BY DEF Env
<1>3. CurrentKID(e) \in Kid \cup {NoKid}
  BY <1>2 DEF CurrentKID
<1>4. \A k \in DOMAIN LoginKeys(e) : LoginKeys(e)[k] \in Secret \cup {NoSecret}
  BY <1>1, <1>2 DEF LoginKeys, Single
<1>. QED
  BY <1>3, <1>4 DEF NewSignature, Signature

\* Where e fits f, neither AuthWith nor Logout of a replica with e tries a
\* wrong key on a token signed with f.
LEMMA Understood ==
    ASSUME NEW e \in Env, NEW f \in Env, Fits(e, f)
    PROVE  LET s == NewSignature(f) IN
           /\ \A key \in AuthCandidates(e, s.kid) : key = s.secret
           /\ s.secret \in LogoutCandidates(e, s.kid)
<1>. DEFINE s == NewSignature(f)
<1>1. Knows(AuthKeys(e), s) /\ Knows(LoginKeys(e), s) /\ CurrentKID(e) \in DOMAIN LoginKeys(e)
  BY DEF Fits
<1>. HIDE DEF s
<1>2. \A key \in AuthCandidates(e, s.kid) : key = s.secret
  BY <1>1 DEF Knows, AuthCandidates
<1>3. s.secret \in LogoutCandidates(e, s.kid)
  <2>1. CASE s.kid \in DOMAIN LoginKeys(e)
    BY <1>1, <2>1 DEF Knows, LogoutCandidates
  <2>2. CASE s.kid \notin DOMAIN LoginKeys(e)
    BY <1>1, <2>2 DEF Knows, LogoutCandidates
  <2>. QED
    BY <2>1, <2>2
<1>. QED
  BY <1>2, <1>3 DEF s

-----------------------------------------------------------------------------
(* The inductive invariant.                                                *)

\* During a rollout there are two releases.
InUse == \A r \in Replica : at[r] \in {release - 1, release}

\* A live token was signed by one of them.
Genuine ==
    \A t \in Token : Live(t) =>
        \E i \in {release - 1, release} \cap (1 .. Len(Releases)) :
            tokens[t].sig = NewSignature(Releases[i])

\* No token lives longer than TTL from now.
Fresh == \A t \in Token : Signed(t) => tokens[t].exp <= now + TTL

\* After a rollout, the tokens that outlive the wait are of the latest release.
Settled ==
    Rolled => \A t \in Token :
        Signed(t) /\ tokens[t].exp > since + TTL =>
            tokens[t].sig = NewSignature(Releases[release])

\* The ttl that a logout has computed reaches from now to exp at least.
Measured == \A l \in leaving : Signed(l.token) /\ now + l.ttl >= tokens[l.token].exp

\* Logouts and answers are about tokens that were signed.
About ==
    /\ \A t \in loggedOut : Signed(t)
    /\ answer.what # "none" => Signed(answer.token)

\* What the deployment knows, and what the logouts know.
DeployInv == InUse /\ Genuine /\ Fresh /\ Settled
LogoutInv == Measured /\ About /\ LogoutHolds

IInv == TypeOK /\ DeployInv /\ LogoutInv

-----------------------------------------------------------------------------
(* Types. *)

\* Every step keeps the types.
LEMMA TypeStep ==
    ASSUME TypeOK, [Next]_vars
    PROVE  TypeOK'
<1>. USE DEF TypeOK, deployVars, jtiVars
<1>1. ASSUME NEW r \in Replica, NEW t \in Token, Sign(r, t)
      PROVE  TypeOK'
  <2>1. NewSignature(Releases[at[r]]) \in Signature
    BY SignatureType
  <2>. QED
    BY <1>1, <2>1, ExpiryBound DEF Sign
<1>2. ASSUME NEW r \in Replica, NEW t \in Token, Use(r, t)
      PROVE  TypeOK'
  BY <1>2 DEF Use
<1>3. ASSUME NEW r \in Replica, NEW t \in Token, Logout(r, t)
      PROVE  TypeOK'
  <2>1. CASE Verified(r, t)
    <3>1. tokens[t].exp \in Nat /\ tokens[t].exp - now \in Nat
      BY <2>1 DEF Verified, Live, Signed
    <3>. QED
      BY <1>3, <2>1, <3>1 DEF Logout
  <2>2. CASE ~ Verified(r, t)
    BY <1>3, <2>2 DEF Logout
  <2>. QED
    BY <2>1, <2>2
<1>4. ASSUME NEW l \in leaving, LeaveRevoked(l)
      PROVE  TypeOK'
  <2>1. l.token \in Token /\ l.ttl \in Nat
    OBVIOUS
  <2>2. now + 2 * Seconds(l.ttl) \in Nat
    BY <1>4, <2>1, SecondsBound DEF LeaveRevoked, SetEx
  <2>. QED
    BY <1>4, <2>1, <2>2 DEF LeaveRevoked, SetEx
<1>5. ASSUME NEW l \in leaving, LeaveAnyway(l)
      PROVE  TypeOK'
  BY <1>5 DEF LeaveAnyway
<1>6. ASSUME NEW t \in Token, NEW seconds \in AdminTTL, AdminRevoke(t, seconds)
      PROVE  TypeOK'
  <2>. DEFINE d == IF seconds <= 0 THEN Hour ELSE 2 * seconds
  <2>1. d \in Int
    OBVIOUS
  <2>2. Seconds(d) > 0 /\ revoked' = [revoked EXCEPT ![t] = now + 2 * Seconds(d)]
    BY <1>6 DEF AdminRevoke, SetEx
  <2>. HIDE DEF d
  <2>3. now + 2 * Seconds(d) \in Nat
    BY <2>1, <2>2, SecondsBound
  <2>. QED
    BY <1>6, <2>2, <2>3 DEF AdminRevoke
<1>7. CASE Release
  BY <1>7 DEF Release
<1>8. ASSUME NEW r \in Replica, Deploy(r)
      PROVE  TypeOK'
  BY <1>8 DEF Deploy
<1>9. CASE RedisRestart
  BY <1>9 DEF RedisRestart
<1>10. CASE Tick
  BY <1>10 DEF Tick
<1>11. CASE UNCHANGED vars
  BY <1>11 DEF vars
<1>. QED
  BY <1>1, <1>2, <1>3, <1>4, <1>5, <1>6, <1>7, <1>8, <1>9, <1>10, <1>11 DEF Next

-----------------------------------------------------------------------------
(* The deployment. *)

\* While neither the deployment nor the tokens change, time does no harm.
LEMMA SameTokens ==
    ASSUME TypeOK, DeployInv, UNCHANGED << deployVars, tokens >>, now' \in {now, now + 1}
    PROVE  DeployInv'
<1>. USE DEF deployVars, DeployInv
<1>1. \A t \in Token : Live(t)' => Live(t)
  BY DEF TypeOK, Live, Signed
<1>2. InUse'
  BY DEF InUse
<1>3. Genuine'
  BY <1>1 DEF Genuine
<1>4. Fresh'
  BY DEF Fresh, Signed, TypeOK
<1>5. Settled'
  BY DEF Settled, Rolled, Signed
<1>. QED
  BY <1>2, <1>3, <1>4, <1>5

\* A new token is signed with a release in use; when a release has been rolled
\* out, it is that one.
LEMMA SignStep ==
    ASSUME TypeOK, DeployInv, NEW r \in Replica, NEW t \in Token, Sign(r, t)
    PROVE  DeployInv'
<1>. USE DEF deployVars, DeployInv, Sign
<1>. DEFINE new == [sig |-> NewSignature(Releases[at[r]]), exp |-> Expiry]
<1>1. tokens' = [tokens EXCEPT ![t] = new]
  OBVIOUS
<1>2. Expiry \in Nat /\ Expiry <= now + TTL
  BY ExpiryBound DEF TypeOK
<1>3. tokens'[t].sig = NewSignature(Releases[at[r]]) /\ tokens'[t].exp = Expiry
  BY <1>1 DEF TypeOK
<1>4. \A u \in Token \ {t} : tokens'[u] = tokens[u]
  BY <1>1 DEF TypeOK
<1>. HIDE DEF new
<1>5. InUse'
  BY DEF InUse
<1>6. Genuine'
  <2>. SUFFICES ASSUME NEW u \in Token, Live(u)'
                PROVE  \E i \in {release - 1, release} \cap (1 .. Len(Releases)) :
                          tokens'[u].sig = NewSignature(Releases[i])
    BY DEF Genuine
  <2>1. CASE u = t
    <3>1. at[r] \in {release - 1, release} \cap (1 .. Len(Releases))
      BY DEF InUse, TypeOK
    <3>. QED
      BY <2>1, <1>3, <3>1
  <2>2. CASE u # t
    BY <2>2, <1>4 DEF Genuine, Live, Signed
  <2>. QED
    BY <2>1, <2>2
<1>7. Fresh'
  BY <1>2, <1>3, <1>4 DEF Fresh, Signed
<1>8. Settled'
  BY <1>3, <1>4 DEF Settled, Rolled, Signed
<1>. QED
  BY <1>5, <1>6, <1>7, <1>8

\* The next release starts when the tokens of the last but one are gone.
LEMMA ReleaseStep ==
    ASSUME TypeOK, DeployInv, Release
    PROVE  DeployInv'
<1>. USE DEF deployVars, DeployInv, Release
<1>1. InUse'
  BY DEF InUse, Rolled, TypeOK
<1>2. Genuine'
  <2>. SUFFICES ASSUME NEW t \in Token, Live(t)'
                PROVE  tokens[t].sig = NewSignature(Releases[release])
    BY DEF Genuine, TypeOK
  <2>1. Live(t) /\ tokens[t].exp \in Nat
    BY DEF Live, Signed, TypeOK
  <2>2. tokens[t].exp > since + TTL
    BY <2>1 DEF Live, TypeOK
  <2>. QED
    BY <2>1, <2>2 DEF Settled, Live
<1>3. Fresh'
  BY DEF Fresh, Signed
<1>4. Settled'
  <2>1. ~ Rolled'
    BY DEF Rolled, TypeOK
  <2>. QED
    BY <2>1 DEF Settled
<1>. QED
  BY <1>1, <1>2, <1>3, <1>4

\* When the last replica is replaced, no token outlives the wait to come.
LEMMA DeployStep ==
    ASSUME TypeOK, DeployInv, NEW r \in Replica, Deploy(r)
    PROVE  DeployInv'
<1>. USE DEF deployVars, DeployInv, Deploy
<1>1. InUse'
  BY DEF InUse, TypeOK
<1>2. Genuine'
  BY DEF Genuine, Live, Signed
<1>3. Fresh'
  BY DEF Fresh, Signed
<1>4. Settled'
  <2>. SUFFICES ASSUME Rolled', NEW t \in Token, Signed(t)', tokens'[t].exp > since' + TTL
                PROVE  FALSE
    BY DEF Settled
  <2>1. since' = now
    BY DEF Rolled
  <2>2. Signed(t) /\ tokens[t].exp \in Nat
    BY DEF Signed, TypeOK
  <2>. QED
    BY <2>1, <2>2 DEF Fresh, TypeOK
<1>. QED
  BY <1>1, <1>2, <1>3, <1>4

-----------------------------------------------------------------------------
(* The logouts. *)

\* While the tokens and the logouts' state do not change, time does no harm.
LEMMA SameLogouts ==
    ASSUME TypeOK, LogoutInv, UNCHANGED << tokens, jtiVars >>, now' \in {now, now + 1},
           answer' # answer => answer'.what = "none" \/ Signed(answer'.token)
    PROVE  LogoutInv'
<1>. USE DEF jtiVars, LogoutInv
<1>1. Measured'
  <2>. SUFFICES ASSUME NEW l \in leaving
                PROVE  Signed(l.token)' /\ now' + l.ttl >= tokens[l.token].exp
    BY DEF Measured
  <2>1. Signed(l.token) /\ now + l.ttl >= tokens[l.token].exp
    BY DEF Measured
  <2>2. l.ttl \in Nat /\ tokens[l.token].exp \in Nat
    BY <2>1 DEF TypeOK, Signed
  <2>. QED
    BY <2>1, <2>2 DEF Signed, TypeOK
<1>2. About'
  BY DEF About, Signed
<1>3. LogoutHolds'
  BY DEF LogoutHolds
<1>. QED
  BY <1>1, <1>2, <1>3

\* A token is signed once, so that nothing that is known of one changes.
LEMMA SignLogout ==
    ASSUME TypeOK, LogoutInv, NEW r \in Replica, NEW t \in Token, Sign(r, t)
    PROVE  LogoutInv'
<1>. USE DEF jtiVars, LogoutInv
<1>1. \A u \in Token : Signed(u) => Signed(u)' /\ tokens'[u] = tokens[u]
  <2>. DEFINE new == [sig |-> NewSignature(Releases[at[r]]), exp |-> Expiry]
  <2>1. tokens' = [tokens EXCEPT ![t] = new] /\ ~ Signed(t)
    BY DEF Sign
  <2>. HIDE DEF new
  <2>. QED
    BY <2>1 DEF TypeOK, Signed
<1>2. /\ now' = now /\ answer' = answer
      /\ leaving' = leaving /\ loggedOut' = loggedOut
      /\ revoked' = revoked /\ shortened' = shortened
  BY DEF Sign
<1>3. Measured'
  BY <1>1, <1>2 DEF Measured, TypeOK
<1>4. About'
  BY <1>1, <1>2 DEF About, TypeOK, NoAnswer
<1>5. LogoutHolds'
  BY <1>1, <1>2 DEF LogoutHolds, About, TypeOK
<1>. QED
  BY <1>3, <1>4, <1>5

\* The ttl is measured from now.
LEMMA LogoutStep ==
    ASSUME TypeOK, LogoutInv, NEW r \in Replica, NEW t \in Token, Logout(r, t)
    PROVE  LogoutInv'
<1>. USE DEF jtiVars, LogoutInv
<1>1. Signed(t) /\ tokens[t].exp \in Nat
  BY DEF Logout, TypeOK, Signed
<1>2. /\ tokens' = tokens /\ now' = now
      /\ revoked' = revoked /\ loggedOut' = loggedOut /\ shortened' = shortened
  BY DEF Logout
<1>3. leaving' \subseteq leaving \cup {[token |-> t, ttl |-> tokens[t].exp - now]}
  BY DEF Logout
<1>4. answer' = answer \/ answer' = [what |-> "refused", token |-> t]
  BY DEF Logout
<1>5. Measured'
  BY <1>1, <1>2, <1>3 DEF Measured, Signed, TypeOK
<1>6. About'
  BY <1>1, <1>2, <1>4 DEF About, Signed
<1>7. LogoutHolds'
  BY <1>2 DEF LogoutHolds
<1>. QED
  BY <1>5, <1>6, <1>7

\* SETEX keeps the id for the time that was measured, from now on.
LEMMA LeaveStep ==
    ASSUME TypeOK, LogoutInv, NEW l \in leaving, LeaveRevoked(l)
    PROVE  LogoutInv'
<1>. USE DEF jtiVars, LogoutInv, LeaveRevoked
<1>1. l.token \in Token /\ l.ttl \in Nat
  BY DEF TypeOK
<1>2. Signed(l.token) /\ now + l.ttl >= tokens[l.token].exp /\ tokens[l.token].exp \in Nat
  BY <1>1 DEF Measured, Signed, TypeOK
<1>3. Seconds(l.ttl) \in Nat /\ 2 * Seconds(l.ttl) + 1 >= l.ttl
  BY <1>1, SecondsBound DEF SetEx
<1>4. revoked'[l.token] = now + 2 * Seconds(l.ttl)
  BY <1>1 DEF SetEx, TypeOK
<1>5. \A u \in Token \ {l.token} : revoked'[u] = revoked[u]
  BY DEF SetEx, TypeOK
<1>6. Measured'
  BY DEF Measured, Signed
<1>7. About'
  BY <1>2 DEF About, Signed
<1>8. LogoutHolds'
  <2>1. revoked'[l.token] + 1 >= tokens[l.token].exp
    BY <1>1, <1>2, <1>3, <1>4 DEF TypeOK
  <2>. QED
    BY <2>1, <1>5 DEF LogoutHolds, TypeOK
<1>. QED
  BY <1>6, <1>7, <1>8

\* An admin's SETEX shortens no revocation but the one that is marked.
LEMMA AdminStep ==
    ASSUME TypeOK, LogoutInv, NEW t \in Token, NEW seconds \in AdminTTL,
           AdminRevoke(t, seconds)
    PROVE  LogoutInv'
<1>. USE DEF jtiVars, LogoutInv
<1>. DEFINE ttl == IF seconds <= 0 THEN Hour ELSE 2 * seconds
<1>1. /\ tokens' = tokens /\ now' = now /\ answer' = answer
      /\ leaving' = leaving /\ loggedOut' = loggedOut
  BY DEF AdminRevoke
<1>2. ttl \in Int /\ SetEx(t, ttl)
  BY DEF AdminRevoke
<1>3. shortened' = IF t \in loggedOut /\ now + ttl < tokens[t].exp
                   THEN shortened \cup {t} ELSE shortened \ {t}
  BY DEF AdminRevoke
<1>. HIDE DEF ttl
<1>4. Seconds(ttl) \in Nat /\ 2 * Seconds(ttl) + 1 >= ttl
  BY <1>2, SecondsBound DEF SetEx
<1>5. /\ revoked'[t] = now + 2 * Seconds(ttl)
      /\ \A u \in Token \ {t} : revoked'[u] = revoked[u]
  BY <1>2 DEF SetEx, TypeOK
<1>6. Measured'
  BY <1>1 DEF Measured, Signed
<1>7. About'
  BY <1>1 DEF About, Signed
<1>8. LogoutHolds'
  <2>. SUFFICES ASSUME NEW u \in loggedOut, u \notin shortened'
                PROVE  revoked'[u] + 1 >= tokens[u].exp
    BY <1>1 DEF LogoutHolds
  <2>1. CASE u = t
    <3>1. ~ (now + ttl < tokens[t].exp)
      BY <1>3, <2>1
    <3>2. tokens[t].exp \in Nat
      BY <2>1 DEF About, Signed, TypeOK
    <3>. QED
      BY <1>2, <1>4, <1>5, <2>1, <3>1, <3>2 DEF TypeOK
  <2>2. CASE u # t
    <3>1. u \in loggedOut \ shortened /\ u \in Token \ {t}
      BY <1>3, <2>2 DEF TypeOK
    <3>. QED
      BY <1>5, <3>1 DEF LogoutHolds
  <2>. QED
    BY <2>1, <2>2
<1>. QED
  BY <1>6, <1>7, <1>8

\* A logout whose SETEX fails and a restart of Redis only forget.
LEMMA ForgetStep ==
    ASSUME TypeOK, LogoutInv,
           (\E l \in leaving : LeaveAnyway(l)) \/ RedisRestart
    PROVE  LogoutInv'
<1>. USE DEF jtiVars, LogoutInv
<1>1. /\ tokens' = tokens /\ now' = now /\ answer' = answer
      /\ leaving' \subseteq leaving /\ loggedOut' \subseteq loggedOut
  BY DEF LeaveAnyway, RedisRestart
<1>2. loggedOut' = {} \/ (shortened' = shortened /\ revoked' = revoked)
  BY DEF LeaveAnyway, RedisRestart
<1>3. Measured'
  BY <1>1 DEF Measured, Signed
<1>4. About'
  BY <1>1 DEF About, Signed
<1>5. LogoutHolds'
  BY <1>1, <1>2 DEF LogoutHolds
<1>. QED
  BY <1>3, <1>4, <1>5

-----------------------------------------------------------------------------
(* The theorems.                                                           *)

\* Every step keeps the invariant.
LEMMA Step ==
    ASSUME IInv, [Next]_vars
    PROVE  IInv'
<1>. USE DEF IInv
<1>0. TypeOK'
  BY TypeStep
<1>1. ASSUME NEW r \in Replica, NEW t \in Token, Sign(r, t)
      PROVE  IInv'
  BY <1>0, <1>1, SignStep, SignLogout
<1>2. ASSUME NEW r \in Replica, NEW t \in Token, Use(r, t)
      PROVE  IInv'
  <2>1. UNCHANGED << now, deployVars, tokens, jtiVars >> /\ Signed(t) /\ answer'.token = t
    BY <1>2 DEF Use
  <2>. QED
    BY <1>0, <2>1, SameTokens, SameLogouts DEF Signed
<1>3. ASSUME NEW r \in Replica, NEW t \in Token, Logout(r, t)
      PROVE  IInv'
  <2>1. UNCHANGED << deployVars, tokens >> /\ now' = now
    BY <1>3 DEF Logout
  <2>. QED
    BY <1>0, <1>3, <2>1, SameTokens, LogoutStep
<1>4. ASSUME NEW l \in leaving, LeaveRevoked(l)
      PROVE  IInv'
  <2>1. UNCHANGED << deployVars, tokens >> /\ now' = now
    BY <1>4 DEF LeaveRevoked
  <2>. QED
    BY <1>0, <1>4, <2>1, SameTokens, LeaveStep
<1>5. ASSUME NEW t \in Token, NEW seconds \in AdminTTL, AdminRevoke(t, seconds)
      PROVE  IInv'
  <2>1. UNCHANGED << deployVars, tokens >> /\ now' = now
    BY <1>5 DEF AdminRevoke
  <2>. QED
    BY <1>0, <1>5, <2>1, SameTokens, AdminStep
<1>6. CASE (\E l \in leaving : LeaveAnyway(l)) \/ RedisRestart
  <2>1. UNCHANGED << deployVars, tokens >> /\ now' = now
    BY <1>6 DEF LeaveAnyway, RedisRestart
  <2>. QED
    BY <1>0, <1>6, <2>1, SameTokens, ForgetStep
<1>7. CASE Release
  <2>1. UNCHANGED << now, tokens, jtiVars, answer >>
    BY <1>7 DEF Release
  <2>. QED
    BY <1>0, <1>7, <2>1, ReleaseStep, SameLogouts
<1>8. ASSUME NEW r \in Replica, Deploy(r)
      PROVE  IInv'
  <2>1. UNCHANGED << now, tokens, jtiVars, answer >>
    BY <1>8 DEF Deploy
  <2>. QED
    BY <1>0, <1>8, <2>1, DeployStep, SameLogouts
<1>9. CASE Tick
  <2>1. UNCHANGED << deployVars, tokens, jtiVars >> /\ now' = now + 1 /\ answer'.what = "none"
    BY <1>9 DEF Tick, NoAnswer
  <2>. QED
    BY <1>0, <2>1, SameTokens, SameLogouts
<1>10. CASE UNCHANGED vars
  <2>1. UNCHANGED << now, deployVars, tokens, jtiVars, answer >>
    BY <1>10 DEF vars, deployVars, jtiVars
  <2>. QED
    BY <1>0, <2>1, SameTokens, SameLogouts
<1>. QED
  BY <1>1, <1>2, <1>3, <1>4, <1>5, <1>6, <1>7, <1>8, <1>9, <1>10 DEF Next

\* IInv is an invariant.
THEOREM Invariance == Spec => []IInv
<1>1. Init => IInv
  <2>. SUFFICES ASSUME Init
                PROVE  IInv
    OBVIOUS
  <2>. USE DEF Init
  <2>1. TypeOK
    BY DEF TypeOK
  <2>2. DeployInv
    BY DEF DeployInv, InUse, Genuine, Fresh, Settled, Live, Signed
  <2>3. LogoutInv
    BY DEF LogoutInv, Measured, About, LogoutHolds, NoAnswer
  <2>. QED
    BY <2>1, <2>2, <2>3 DEF IInv
<1>2. IInv /\ [Next]_vars => IInv'
  BY Step
<1>. QED
  BY <1>1, <1>2, PTL DEF Spec

\* Every reachable state is well typed.
THEOREM Typing == Spec => []TypeOK
<1>1. IInv => TypeOK
  BY DEF IInv
<1>. QED
  BY <1>1, Invariance, PTL

\* The id that a logout has put into Redis stays there until the token
\* expires, but for a fraction of a second, unless Redis loses its memory or an
\* admin's SETEX replaces the entry and asks for less.
THEOREM LogoutLasts == Spec => []LogoutHolds
<1>1. IInv => LogoutHolds
  BY DEF IInv, LogoutInv
<1>. QED
  BY <1>1, Invariance, PTL

\* In a gradual rotation a handler refuses no live token.
LEMMA Accepting ==
    ASSUME Gradual, IInv, NEW r \in Replica, NEW t \in Token, Live(t)
    PROVE  /\ \A key \in AuthCandidates(Releases[at[r]], tokens[t].sig.kid) :
                 key = tokens[t].sig.secret
           /\ Verified(r, t)
<1>. USE DEF IInv, DeployInv
<1>1. PICK i \in {release - 1, release} \cap (1 .. Len(Releases)) :
          tokens[t].sig = NewSignature(Releases[i])
  BY DEF Genuine
<1>2. at[r] \in {release - 1, release} \cap (1 .. Len(Releases))
  BY DEF InUse, TypeOK
<1>3. Releases[i] \in Env /\ Releases[at[r]] \in Env
  BY <1>2
<1>4. Fits(Releases[at[r]], Releases[i])
  BY <1>1, <1>2 DEF Gradual, TypeOK
<1>. QED
  BY <1>1, <1>3, <1>4, Understood DEF Verified

\* While keys are rotated gradually, by a rolling release at a time and with
\* the wait between two, no replica refuses a token that has not expired.
THEOREM Accepted == Gradual /\ Spec => []LiveTokensAccepted
<1>. SUFFICES ASSUME Gradual
              PROVE  Spec => []LiveTokensAccepted
  OBVIOUS
<1>1. Init => LiveTokensAccepted
  BY DEF Init, LiveTokensAccepted, NoAnswer
<1>2. IInv /\ LiveTokensAccepted /\ [Next]_vars => LiveTokensAccepted'
  <2>. SUFFICES ASSUME IInv, LiveTokensAccepted, [Next]_vars
                PROVE  LiveTokensAccepted'
    OBVIOUS
  <2>1. ASSUME NEW r \in Replica, NEW t \in Token, Use(r, t)
        PROVE  LiveTokensAccepted'
    BY <2>1, Accepting DEF Use, LiveTokensAccepted, Live, Signed
  <2>2. ASSUME NEW r \in Replica, NEW t \in Token, Logout(r, t)
        PROVE  LiveTokensAccepted'
    BY <2>2, Accepting DEF Logout, LiveTokensAccepted, Live, Signed
  <2>3. ASSUME NEW r \in Replica, NEW t \in Token, Sign(r, t)
        PROVE  LiveTokensAccepted'
    <3>1. answer' = answer /\ now' = now
      BY <2>3 DEF Sign
    <3>2. \A u \in Token : Signed(u) => tokens'[u] = tokens[u]
      BY <2>3 DEF Sign, Signed, IInv, TypeOK
    <3>. QED
      BY <3>1, <3>2 DEF LiveTokensAccepted, Live, Signed, IInv, LogoutInv, About, TypeOK, NoAnswer
  <2>4. CASE UNCHANGED << now, tokens, answer >>
    BY <2>4 DEF LiveTokensAccepted, Live, Signed
  <2>5. CASE Tick
    BY <2>5 DEF Tick, LiveTokensAccepted, NoAnswer
  <2>6. \/ UNCHANGED << now, tokens, answer >>
        \/ Tick
        \/ \E r \in Replica, t \in Token : Sign(r, t) \/ Use(r, t) \/ Logout(r, t)
    BY DEF Next, LeaveRevoked, LeaveAnyway, AdminRevoke, Release, Deploy, RedisRestart, vars
  <2>. QED
    BY <2>1, <2>2, <2>3, <2>4, <2>5, <2>6
<1>. QED
  BY <1>1, <1>2, Invariance, PTL DEF Spec

-----------------------------------------------------------------------------
(* The refinement.                                                         *)

\* What AuthWith and Logout answer is what the one server would answer; what
\* the deployment, the admin and Redis do leaves it alone.
LEMMA Simulation ==
    ASSUME Gradual, IInv, [Next]_vars
    PROVE  [Server!ServerNext]_(Server!serverVars)
<1>. DEFINE exp == [t \in Token |-> IF Signed(t) THEN tokens[t].exp ELSE -1]
<1>0. TypeOK /\ now \in Nat
  BY DEF IInv, TypeOK
<1>1. \A t \in Token : Signed(t) => /\ exp[t] = tokens[t].exp /\ exp[t] \in Nat
                                    /\ Live(t) <=> now < exp[t]
  BY <1>0 DEF Signed, Live, TypeOK
<1>2. ASSUME NEW r \in Replica, NEW t \in Token, Sign(r, t)
      PROVE  Server!Sign(t)
  <2>. DEFINE new == [sig |-> NewSignature(Releases[at[r]]), exp |-> Expiry]
  <2>1. tokens' = [tokens EXCEPT ![t] = new] /\ ~ Signed(t) /\ UNCHANGED << now, answer >>
    BY <1>2 DEF Sign
  <2>2. Expiry \in {now + TTL - 1, now + TTL} /\ Expiry \in Nat
    BY <1>0 DEF Expiry
  <2>3. new \in [sig : Signature, exp : Nat]
    <3>1. NewSignature(Releases[at[r]]) \in Signature
      BY <1>0, SignatureType DEF TypeOK
    <3>. QED
      BY <2>2, <3>1
  <2>4. new.exp = Expiry
    OBVIOUS
  <2>. HIDE DEF new
  <2>5. tokens'[t] = new /\ \A u \in Token \ {t} : tokens'[u] = tokens[u]
    BY <1>0, <2>1 DEF TypeOK
  <2>6. Signed(t)' /\ exp'[t] = Expiry
    <3>1. Signed(t)'
      BY <2>3, <2>5, NullAssumption DEF Signed
    <3>. QED
      BY <2>4, <2>5, <3>1
  <2>7. \A u \in Token \ {t} : exp'[u] = exp[u]
    BY <2>5 DEF Signed
  <2>8. exp[t] = -1
    BY <2>1
  <2>9. exp' = [u \in Token |-> exp'[u]]
    OBVIOUS
  <2>10. exp' = [exp EXCEPT ![t] = Expiry]
    BY <2>6, <2>7, <2>9
  <2>. QED
    BY <2>1, <2>2, <2>8, <2>10 DEF Server!Sign, Server!Unsigned
<1>3. ASSUME NEW r \in Replica, NEW t \in Token, Use(r, t)
      PROVE  Server!Accept(t) \/ Server!Refuse(t)
  <2>1. Signed(t) /\ UNCHANGED << now, tokens >>
    BY <1>3 DEF Use
  <2>2. exp' = exp /\ exp[t] \in Nat /\ (Live(t) <=> now < exp[t])
    BY <1>1, <2>1 DEF Signed
  <2>3. CASE Live(t)
    <3>1. answer' = [what |-> "ok", token |-> t]
      BY <1>3, <2>3, Accepting DEF Use
    <3>. QED
      BY <2>1, <2>2, <2>3, <3>1 DEF Server!Accept, Server!Unsigned
  <2>4. CASE ~ Live(t)
    <3>1. answer' = [what |-> "refused", token |-> t]
      BY <1>3, <2>4 DEF Use
    <3>. QED
      BY <1>0, <2>1, <2>2, <2>4, <3>1 DEF Server!Refuse, Server!Unsigned
  <2>. QED
    BY <2>3, <2>4
<1>4. ASSUME NEW r \in Replica, NEW t \in Token, Logout(r, t)
      PROVE  Server!Refuse(t) \/ UNCHANGED Server!serverVars
  <2>1. Signed(t) /\ UNCHANGED << now, tokens >>
    BY <1>4 DEF Logout
  <2>2. exp' = exp /\ exp[t] \in Nat /\ (Live(t) <=> now < exp[t])
    BY <1>1, <2>1 DEF Signed
  <2>3. CASE Live(t)
    <3>1. answer' = answer
      BY <1>4, <2>3, Accepting DEF Logout
    <3>. QED
      BY <2>1, <2>2, <3>1 DEF Server!serverVars
  <2>4. CASE ~ Live(t)
    <3>1. answer' = [what |-> "refused", token |-> t]
      BY <1>4, <2>4 DEF Logout, Verified
    <3>. QED
      BY <1>0, <2>1, <2>2, <2>4, <3>1 DEF Server!Refuse, Server!Unsigned
  <2>. QED
    BY <2>3, <2>4
<1>5. ASSUME Tick
      PROVE  Server!Tick
  <2>1. now' = now + 1 /\ answer' = NoAnswer /\ tokens' = tokens
    BY <1>5 DEF Tick
  <2>2. exp' = exp
    BY <2>1 DEF Signed
  <2>. QED
    BY <2>1, <2>2 DEF Server!Tick, NoAnswer, Server!NoAnswer
<1>6. CASE UNCHANGED << now, tokens, answer >>
  BY <1>6 DEF Server!serverVars, Signed
<1>7. \/ UNCHANGED << now, tokens, answer >>
      \/ Tick
      \/ \E r \in Replica, t \in Token : Sign(r, t) \/ Use(r, t) \/ Logout(r, t)
  BY DEF Next, LeaveRevoked, LeaveAnyway, AdminRevoke, Release, Deploy, RedisRestart, vars
<1>. QED
  BY <1>2, <1>3, <1>4, <1>5, <1>6, <1>7 DEF Server!ServerNext

\* The replicas of a gradual rotation, however many, with whatever keys and
\* releases, look like one server that never changes its key.
THEOREM Rotating == Gradual /\ Spec => LooksLikeOneServer
<1>. SUFFICES ASSUME Gradual
              PROVE  Spec => LooksLikeOneServer
  OBVIOUS
<1>1. Init => Server!ServerInit
  BY DEF Init, Server!ServerInit, Server!Unsigned, Signed, NoAnswer, Server!NoAnswer
<1>2. IInv /\ [Next]_vars => [Server!ServerNext]_(Server!serverVars)
  BY Simulation
<1>. QED
  BY <1>1, <1>2, Invariance, PTL DEF Spec, LooksLikeOneServer, Server!ServerSpec
=============================================================================
