--------------------------- MODULE MCAccessTokens ---------------------------
(* Small instances of AccessTokens for TLC: the environments rolled out. *)
EXTENDS AccessTokens, TLC

CONSTANTS s1, s2

\* From JWT_SECRET to JWT_KEYS, and on to another key.
Steps == <<
    [keys |-> << >>,                       current |-> NoKid,  secret |-> s1],
    [keys |-> "key1" :> s1 @@ "key2" :> s2, current |-> "key1", secret |-> NoSecret],
    [keys |-> "key1" :> s1 @@ "key2" :> s2, current |-> "key2", secret |-> NoSecret],
    [keys |-> "key2" :> s2,                current |-> "key2", secret |-> NoSecret] >>

OneRelease == << [keys |-> "key1" :> s1, current |-> "key1", secret |-> NoSecret] >>

Kids == {"key1", "key2", "default"}

ASSUME GradualAssumption == Gradual

Interchangeable == Permutations(Replica) \cup Permutations(Token)
=============================================================================
