--------------------------- MODULE MCNoteWrites ---------------------------
(* Small instances of NoteWrites for TLC: what clients may ask. *)
EXTENDS NoteWrites, TLC

CONSTANTS u1, u2, n1, n2, x, y, k1

Owners == n1 :> u1 @@ n2 :> u2
OneOwner == n1 :> u1

Put(u, key, n, t) == [user |-> u, key |-> key, method |-> "PUT", note |-> n, text |-> t]
Del(u, key, n) == [user |-> u, key |-> key, method |-> "DELETE", note |-> n, text |-> NoText]

\* One user retries a PUT, writes and deletes without a key meanwhile.
OneUser == {Put(u1, k1, n1, x), Put(u1, NoKey, n1, y), Del(u1, NoKey, n1)}

\* One user retries a PUT, uses its key for a DELETE as well and deletes without a
\* key meanwhile; another user comes up with the same key.
OneKey == {Put(u1, k1, n1, x), Del(u1, k1, n1), Del(u1, NoKey, n1), Put(u2, k1, n2, x)}
=============================================================================
