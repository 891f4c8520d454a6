---------------------------- MODULE AccessTokens ----------------------------
(***************************************************************************)
(* Access tokens: signed at login and refresh (handlers/auth.go with the   *)
(* keys of jwtauth/load.go), verified by AuthWith (middleware/auth.go with *)
(* the keys of jwtauth/keys.go), and their ids revoked in Redis by logout  *)
(* and by the admin (jti/store.go).                                        *)
(*                                                                         *)
(* A replica reads JWT_KEYS, JWT_CURRENT_KID and JWT_SECRET when it        *)
(* starts.  The operator changes them by a rolling release.                *)
(***************************************************************************)
EXTENDS Integers, Sequences

CONSTANTS
    Replica, Token,
    Kid, Secret,
    Releases,  \* the environments, in the order the operator rolls them out
    TTL,       \* JWT_TTL, in half seconds
    AdminTTL,  \* what admins ask for as ttl_sec
    Hour,      \* the ttl, in half seconds, if they ask for none
    Horizon,   \* bound: the last instant
    NoKid, NoSecret, NoToken

Env == [keys : UNION {[K -> Secret] : K \in SUBSET Kid},
        current : Kid \cup {NoKid}, secret : Secret \cup {NoSecret}]

ASSUME ReleasesAssumption == Releases \in Seq(Env) /\ Releases # << >>
ASSUME TimeAssumption ==
    TTL \in Nat \ {0} /\ AdminTTL \subseteq Int /\ Hour \in Nat /\ Horizon \in Nat
ASSUME ReplicaAssumption == Replica # {}
ASSUME KidAssumption == {"key1", "default"} \subseteq Kid

VARIABLES
    now,       \* the clock, in half seconds
    release,   \* the latest release ...
    since,     \* ... when every replica had the latest one at last ...
    at,        \* ... and the release that each replica has
    tokens,    \* what each token says
    revoked,   \* until when Redis keeps each token's id
    leaving,   \* logouts between the ttl they computed and SETEX
    loggedOut, \* tokens whose id was put there by a logout
    shortened, \* those of them whose entry an admin has replaced by a shorter one
    answer     \* the latest answer to a request with a token

deployVars == << release, since, at >>
jtiVars == << revoked, leaving, loggedOut, shortened >>
vars == << now, deployVars, tokens, jtiVars, answer >>

Signature == [kid : Kid \cup {NoKid}, secret : Secret \cup {NoSecret}]
NoAnswer == [what |-> "none"]

ASSUME NullAssumption == NoToken \notin [sig : Signature, exp : Nat]

TypeOK ==
    /\ now \in Nat /\ since \in 0 .. now
    /\ release \in 1 .. Len(Releases) /\ at \in [Replica -> 1 .. release]
    /\ tokens \in [Token -> [sig : Signature, exp : Nat] \cup {NoToken}]
    /\ revoked \in [Token -> Nat]
    /\ leaving \subseteq [token : Token, ttl : Nat]
    /\ loggedOut \subseteq Token /\ shortened \subseteq loggedOut
    /\ answer \in [what : {"ok", "refused"}, token : Token] \cup {NoAnswer}

Init ==
    /\ now = 0 /\ since = 0
    /\ release = 1 /\ at = [r \in Replica |-> 1]
    /\ tokens = [t \in Token |-> NoToken]
    /\ revoked = [t \in Token |-> 0]
    /\ leaving = {} /\ loggedOut = {} /\ shortened = {}
    /\ answer = NoAnswer

Signed(t) == tokens[t] # NoToken
Live(t) == Signed(t) /\ now < tokens[t].exp
Rolled == \A r \in Replica : at[r] = release

-----------------------------------------------------------------------------
(* The two readings of the environment. *)

Single(kid, secret) == [k \in {kid} |-> secret]

\* load.go, for signing and for logout.  Without JWT_KEYS, JWT_SECRET gets
\* the current id, or key1.
CurrentKID(e) ==
    IF DOMAIN e.keys = {} /\ e.secret # NoSecret /\ e.current = NoKid THEN "key1" ELSE e.current
LoginKeys(e) ==
    IF DOMAIN e.keys = {} /\ e.secret # NoSecret THEN Single(CurrentKID(e), e.secret) ELSE e.keys

\* keys.go, for AuthWith.  Here it gets the id default.
AuthKeys(e) == IF DOMAIN e.keys = {} THEN Single("default", e.secret) ELSE e.keys

\* The id and the key of a new token; without a current id the key is nil.
NewSignature(e) ==
    LET kid == CurrentKID(e) IN
    [kid |-> kid,
     secret |-> IF kid \in DOMAIN LoginKeys(e) THEN LoginKeys(e)[kid] ELSE NoSecret]

\* Mutant of AuthCandidates: the kid in the header is not looked at.
AnyKey(e, kid) == {AuthKeys(e)[k] : k \in DOMAIN AuthKeys(e)}

\* The keys that AuthWith may try: the one that the token names, or else the
\* first of a map, which is any.
AuthCandidates(e, kid) ==
    IF kid \in DOMAIN AuthKeys(e) THEN {AuthKeys(e)[kid]}
    ELSE {AuthKeys(e)[k] : k \in DOMAIN AuthKeys(e)}

\* The key that Logout tries: that one, or else the current one, or none.
LogoutCandidates(e, kid) ==
    LET keys == LoginKeys(e) IN
    IF kid \in DOMAIN keys THEN {keys[kid]}
    ELSE {keys[k] : k \in {CurrentKID(e)} \cap DOMAIN keys}

-----------------------------------------------------------------------------
\* exp is in whole seconds.
Expiry == 2 * ((now + TTL) \div 2)

\* The end of Login and of Refresh.
Sign(r, t) ==
    /\ ~ Signed(t)
    /\ tokens' = [tokens EXCEPT ![t] = [sig |-> NewSignature(Releases[at[r]]), exp |-> Expiry]]
    /\ UNCHANGED << now, deployVars, jtiVars, answer >>

\* Mutant of Use: exp is not checked.
UseExpired(r, t) ==
    /\ Signed(t)
    /\ \E key \in AuthCandidates(Releases[at[r]], tokens[t].sig.kid) :
          answer' = [what |-> IF key = tokens[t].sig.secret THEN "ok" ELSE "refused", token |-> t]
    /\ UNCHANGED << now, deployVars, tokens, jtiVars >>

\* AuthWith.  It does not ask Redis for the id.
Use(r, t) ==
    /\ Signed(t)
    /\ \E key \in AuthCandidates(Releases[at[r]], tokens[t].sig.kid) :
          answer' = [what |-> IF key = tokens[t].sig.secret /\ Live(t) THEN "ok" ELSE "refused",
                     token |-> t]
    /\ UNCHANGED << now, deployVars, tokens, jtiVars >>

\* Mutant of Verified: exp is not checked.
VerifiedExpired(r, t) ==
    tokens[t].sig.secret \in LogoutCandidates(Releases[at[r]], tokens[t].sig.kid)

\* jwt.Parse in Logout.
Verified(r, t) ==
    Live(t) /\ tokens[t].sig.secret \in LogoutCandidates(Releases[at[r]], tokens[t].sig.kid)

\* Logout verifies the token and computes how long it still lives, or 401.
Logout(r, t) ==
    /\ Signed(t)
    /\ IF Verified(r, t)
       THEN /\ leaving' = leaving \cup {[token |-> t, ttl |-> tokens[t].exp - now]}
            /\ UNCHANGED answer
       ELSE /\ answer' = [what |-> "refused", token |-> t]
            /\ UNCHANGED leaving
    /\ UNCHANGED << now, deployVars, tokens, revoked, loggedOut, shortened >>

\* The client rounds a duration down to seconds, but less than one up to one.
Seconds(d) == IF d = 1 THEN 1 ELSE d \div 2

\* SETEX replaces what was there.  Redis refuses a ttl of 0.
SetEx(t, d) ==
    /\ Seconds(d) > 0
    /\ revoked' = [revoked EXCEPT ![t] = now + 2 * Seconds(d)]

\* Mutant of LeaveRevoked: an id that is there already is left as it is.
LeaveKept(l) ==
    /\ IF revoked[l.token] > now THEN revoked' = revoked ELSE SetEx(l.token, l.ttl)
    /\ leaving' = leaving \ {l}
    /\ loggedOut' = loggedOut \cup {l.token} /\ shortened' = shortened \ {l.token}
    /\ UNCHANGED << now, deployVars, tokens, answer >>

\* 204, also if Redis fails.  (The refresh token is RefreshTokens.Revoke.)
LeaveRevoked(l) ==
    /\ SetEx(l.token, l.ttl)
    /\ leaving' = leaving \ {l}
    /\ loggedOut' = loggedOut \cup {l.token} /\ shortened' = shortened \ {l.token}
    /\ UNCHANGED << now, deployVars, tokens, answer >>

LeaveAnyway(l) ==
    /\ leaving' = leaving \ {l}
    /\ UNCHANGED << now, deployVars, tokens, revoked, loggedOut, shortened, answer >>

\* AdminJTI.Revoke; an error of Redis is a 500 and changes nothing.  Nobody
\* compares the ttl with what a logout has put there.
AdminRevoke(t, seconds) ==
    LET ttl == IF seconds <= 0 THEN Hour ELSE 2 * seconds IN
    /\ SetEx(t, ttl)
    /\ shortened' = IF t \in loggedOut /\ now + ttl < tokens[t].exp
                    THEN shortened \cup {t} ELSE shortened \ {t}
    /\ UNCHANGED << now, deployVars, tokens, leaving, loggedOut, answer >>

-----------------------------------------------------------------------------
\* The operator starts the next release once the latest one is everywhere
\* and the tokens of the one before it have expired.
Release ==
    /\ Rolled /\ release < Len(Releases) /\ now >= since + TTL
    /\ release' = release + 1
    /\ UNCHANGED << now, since, at, tokens, jtiVars, answer >>

\* A replica is replaced.
Deploy(r) ==
    /\ at[r] # release
    /\ at' = [at EXCEPT ![r] = release]
    /\ since' = IF \A q \in Replica : at'[q] = release THEN now ELSE since
    /\ UNCHANGED << now, release, tokens, jtiVars, answer >>

RedisRestart ==
    /\ revoked' = [t \in Token |-> 0] /\ loggedOut' = {} /\ shortened' = {}
    /\ UNCHANGED << now, deployVars, tokens, leaving, answer >>

Tick ==
    /\ now < Horizon
    /\ now' = now + 1 /\ answer' = NoAnswer
    /\ UNCHANGED << deployVars, tokens, jtiVars >>

Next ==
    \/ \E r \in Replica, t \in Token : Sign(r, t) \/ Use(r, t) \/ Logout(r, t)
    \/ \E l \in leaving : LeaveRevoked(l) \/ LeaveAnyway(l)
    \/ \E t \in Token, seconds \in AdminTTL : AdminRevoke(t, seconds)
    \/ Release \/ (\E r \in Replica : Deploy(r))
    \/ RedisRestart \/ Tick

Spec == Init /\ [][Next]_vars

-----------------------------------------------------------------------------
\* An environment has the key of a signature under its id, or no other key.
Knows(keys, sig) ==
    IF sig.kid \in DOMAIN keys THEN keys[sig.kid] = sig.secret
    ELSE \A kid \in DOMAIN keys : keys[kid] = sig.secret

\* Replicas with environment e understand the tokens of those with f.
Fits(e, f) ==
    /\ Knows(AuthKeys(e), NewSignature(f)) /\ Knows(LoginKeys(e), NewSignature(f))
    /\ CurrentKID(e) \in DOMAIN LoginKeys(e)

\* Each release understands its own tokens, and neighbours each other's: a
\* key is added first, then used to sign, and the old one dropped last.
Gradual ==
    \A i, j \in 1 .. Len(Releases) : j \in {i - 1, i, i + 1} => Fits(Releases[i], Releases[j])

\* While keys are rotated gradually, no replica refuses a token before it has
\* expired, whichever replica signed it.
LiveTokensAccepted == answer.what = "refused" => ~ Live(answer.token)

\* The id that a logout has put into Redis stays there until the token
\* expires, but for a fraction of a second, however late the SETEX is, if
\* several logouts of the token overlap, and if an admin revoked it before.
\* Two things end it early: Redis loses its memory, or an admin's SETEX
\* replaces the entry and asks for less than the token has left to live.
LogoutHolds == \A t \in loggedOut \ shortened : revoked[t] + 1 >= tokens[t].exp

\* A gradual rotation is invisible to clients: whichever replicas sign, check
\* and log out a token, with whichever keys they have, the answers are those of
\* one server with one key that accepts a token until it expires.
Server == INSTANCE OneServer WITH
    exp <- [t \in Token |-> IF Signed(t) THEN tokens[t].exp ELSE -1]

LooksLikeOneServer == Server!ServerSpec

-----------------------------------------------------------------------------
\* internal/openapi/openapi.yaml:72 of POST /auth/logout: "Geçerli access JTI
\* revoke" (the valid access JTI is revoked).  A token is not accepted while
\* its id is revoked.
RevokedRefused ==
    [][\A t \in Token :
          answer' = [what |-> "ok", token |-> t] /\ answer' # answer => revoked[t] <= now]_vars
=============================================================================
