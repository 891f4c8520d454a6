---------------------------- MODULE MCNoteReads ----------------------------
(* Small instances of NoteReads for TLC: the texts, their digests and what *)
(* the queries find.                                                       *)
EXTENDS NoteReads

CONSTANTS x, y  \* bodies

T(title, body) == [title |-> title, body |-> body]

\* Two texts whose hashes begin with the same four bytes, and one other.
Same == {T(<<"b">>, <<x>>), T(<<"b">>, <<y>>)}
Other == T(<<"a">>, << >>)
Plain == Same \cup {Other}

Collide == [j \in {Joined(t) : t \in Plain} |-> IF j = Joined(Other) THEN "alpha" ELSE "beta"]

\* The empty query, which every note matches.
All == [query \in {""} |-> Plain]

Rank == [t \in Plain |-> IF t = Other THEN 1 ELSE 2]

\* The two requests, and the two bodies, differ in their names only.
Alike == Permutations(Request) \cup Permutations({x, y})
=============================================================================
