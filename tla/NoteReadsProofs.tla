-------------------------- MODULE NoteReadsProofs --------------------------
(***************************************************************************)
(* Proofs about NoteReads, for any number of ids, texts, pages, requests   *)
(* and seconds.  The second half is about the order of a page and needs    *)
(* induction, which Least stands for: a set of naturals has a least one.   *)
(***************************************************************************)
EXTENDS NoteReads, FiniteSetTheorems, SequenceTheorems, WellFoundedInduction, TLAPS

\* The tables and the client's copies are functions.
Shape ==
    /\ rows = [i \in Id |-> rows[i]] /\ req = [r \in Request |-> req[r]]
    /\ noteCopy = [i \in Kept |-> noteCopy[i]] /\ pageCopy = [p \in Param |-> pageCopy[p]]

\* Ids not yet handed out have no row.
Fresh == \A i \in Id : i >= nextId => rows[i] = NoNote

\* A create has an id of its own, which has no row before its INSERT.
Given ==
    \A r \in Request : req[r].at \in {"insert", "fetch"} =>
        /\ req[r].id < nextId
        /\ req[r].at = "insert" => rows[req[r].id] = NoNote
        /\ \A q \in Request \ {r} : req[q].at \in {"insert", "fetch"} => req[q].id # req[r].id

\* A copy is of a note that was stored, and all but its text, its time of
\* update and its end is as it was.
CopyOf(i) ==
    /\ rows[i] \in Row /\ noteCopy[i] \in Row
    /\ ~ noteCopy[i].deleted
    /\ noteCopy[i].id = rows[i].id /\ noteCopy[i].created = rows[i].created
KeptStored == \A i \in Kept : noteCopy[i] # NoCopy => CopyOf(i)

\* What the latest answer told is still so.
Answered ==
    /\ answer.what = "note304" =>
          /\ answer.id \in Kept /\ noteCopy[answer.id] # NoCopy
          /\ answer.id \in Live
          /\ NoteETag(noteCopy[answer.id]) = NoteETag(rows[answer.id])
    /\ answer.what = "created" => answer.id \in Id /\ answer.id < nextId

\* A number of notes within d of the notes that match now.
Near(total, query, d) ==
    /\ total - Cardinality(Matching(query)) <= d
    /\ Cardinality(Matching(query)) - total <= d

Drifting ==
    \A r \in Request : req[r].at = "select" =>
        /\ req[r].total \in 0 .. LastId /\ req[r].drift \in 0 .. LastId
        /\ Near(req[r].total, req[r].param.query, req[r].drift)

IInv ==
    /\ TypeOK /\ Shape /\ Fresh /\ Given
    /\ KeptStored /\ Answered /\ CreatedOwn
    /\ Drifting /\ TotalDrift

-----------------------------------------------------------------------------
(* Counting. *)

\* Sets of ids that differ in one id at most, and their sizes.
LEMMA OneApart ==
    ASSUME NEW S \in SUBSET Id, NEW T \in SUBSET Id, NEW i,
           S \subseteq T \cup {i}, T \subseteq S \cup {i}
    PROVE  /\ IsFiniteSet(S)
           /\ Cardinality(S) \in 0 .. LastId /\ Cardinality(T) \in 0 .. LastId
           /\ Cardinality(S) - Cardinality(T) <= 1 /\ Cardinality(T) - Cardinality(S) <= 1
<1>1. IsFiniteSet(Id) /\ Cardinality(Id) = LastId
    BY FS_Interval, IdAssumption DEF Id
<1>2. IsFiniteSet(S) /\ Cardinality(S) <= LastId /\ IsFiniteSet(T) /\ Cardinality(T) <= LastId
    BY <1>1, FS_Subset
<1>3. Cardinality(S) \in Nat /\ Cardinality(T) \in Nat
    BY <1>2, FS_CardinalityType
<1>4. /\ IsFiniteSet(S \cup {i}) /\ Cardinality(S \cup {i}) <= Cardinality(S) + 1
      /\ Cardinality(S \cup {i}) \in Nat
    <2>1. IsFiniteSet(S \cup {i})
        BY <1>2, FS_AddElement
    <2>2. Cardinality(S \cup {i}) = IF i \in S THEN Cardinality(S) ELSE Cardinality(S) + 1
        BY <1>2, FS_AddElement
    <2> QED
        BY <1>3, <2>1, <2>2
<1>5. /\ IsFiniteSet(T \cup {i}) /\ Cardinality(T \cup {i}) <= Cardinality(T) + 1
      /\ Cardinality(T \cup {i}) \in Nat
    <2>1. IsFiniteSet(T \cup {i})
        BY <1>2, FS_AddElement
    <2>2. Cardinality(T \cup {i}) = IF i \in T THEN Cardinality(T) ELSE Cardinality(T) + 1
        BY <1>2, FS_AddElement
    <2> QED
        BY <1>3, <2>1, <2>2
<1>6. Cardinality(S) <= Cardinality(T \cup {i}) /\ Cardinality(T) <= Cardinality(S \cup {i})
    BY <1>4, <1>5, FS_Subset
<1> QED
    BY <1>2, <1>3, <1>4, <1>5, <1>6, IdAssumption

LEMMA MatchingIds ==
    ASSUME NEW query
    PROVE  /\ Matching(query) \in SUBSET Id
           /\ IsFiniteSet(Matching(query)) /\ Cardinality(Matching(query)) \in 0 .. LastId
<1>1. Matching(query) \in SUBSET Id
    BY DEF Matching, Live
<1> QED
    BY <1>1, OneApart

\* What SELECT returns has one row for each id that matches.
LEMMA OrderedLength ==
    ASSUME TypeOK, NEW query, NEW sort, NEW s \in Ordered(query, sort)
    PROVE  Len(s) = Cardinality(Matching(query)) /\ Len(s) \in 0 .. LastId
           /\ \E S : s \in Seq(S)
<1> DEFINE M == Matching(query)
           S == {rows[i] : i \in M}
           f == [i \in M |-> rows[i]]
<1>1. \A i \in M : i \in Id /\ rows[i] # NoNote
    BY DEF Matching, Live
<1>2. f \in Bijection(M, S)
    <2>1. \A i \in M : rows[i].id = i
        BY <1>1 DEF TypeOK
    <2>2. f \in [M -> S]
        OBVIOUS
    <2>3. \A i, j \in M : f[i] = f[j] => i = j
        BY <2>1
    <2>4. \A t \in S : \E i \in M : f[i] = t
        OBVIOUS
    <2> QED
        BY <2>2, <2>3, <2>4 DEF Bijection, Injection, Surjection, IsInjective
<1>3. IsFiniteSet(S) /\ Cardinality(S) = Cardinality(M)
    BY <1>2, MatchingIds, FS_Bijection DEF ExistsBijection
<1>4. s \in [1 .. Cardinality(S) -> S]
    BY DEF Ordered, SetToSeqs
<1>5. Cardinality(S) \in Nat
    BY <1>3, FS_CardinalityType
<1> HIDE DEF S
<1>6. \A n \in Nat : s \in [1 .. n -> S] => s \in Seq(S) /\ Len(s) = n
    OBVIOUS
<1>7. s \in Seq(S) /\ Len(s) = Cardinality(S)
    BY <1>4, <1>5, <1>6
<1> QED
    BY <1>3, <1>7, MatchingIds

\* A page is no longer than its size.
LEMMA WindowLength ==
    ASSUME TypeOK, NEW p \in Param, NEW s \in Ordered(p.query, p.sort)
    PROVE  Len(Window(s, p)) <= p.size
<1> DEFINE m == (p.page - 1) * p.size + 1
           n == IF p.page * p.size < Len(s) THEN p.page * p.size ELSE Len(s)
<1>1. p.page \in Nat \ {0} /\ p.size \in 1 .. 100
    BY PageAssumption DEF Param
<1>2. PICK S : s \in Seq(S)
    BY OrderedLength
<1>3. Len(s) \in Nat
    BY <1>2
<1>4. p.page * p.size \in Nat /\ m = p.page * p.size - p.size + 1 /\ m \in Nat \ {0}
    <2>1. (p.page - 1) * p.size = p.page * p.size - p.size
        BY <1>1
    <2>2. (p.page - 1) * p.size \in Nat /\ p.page * p.size \in Nat
        BY <1>1
    <2> QED
        BY <1>1, <2>1, <2>2
<1>5. n \in Nat /\ n <= p.page * p.size /\ n <= Len(s)
    BY <1>3, <1>4
<1>6. \A i \in m .. n : s[i] \in S
    BY <1>2, <1>4, <1>5
<1>7. Len(SubSeq(s, m, n)) = IF m <= n THEN n - m + 1 ELSE 0
    BY <1>4, <1>5, <1>6, SubSeqProperties
<1>8. \A k \in Nat, l \in 1 .. 100, a, b \in Nat :
          a = k - l + 1 /\ b <= k => (IF a <= b THEN b - a + 1 ELSE 0) <= l
    OBVIOUS
<1>9. (IF m <= n THEN n - m + 1 ELSE 0) <= p.size
    <2> DEFINE k == p.page * p.size
    <2>1. k \in Nat /\ m = k - p.size + 1 /\ m \in Nat /\ n \in Nat /\ n <= k
        BY <1>4, <1>5
    <2> HIDE DEF m, n, k
    <2> QED
        BY <1>1, <2>1, <1>8
<1> QED
    BY <1>7, <1>9 DEF Window

-----------------------------------------------------------------------------
(* The initial states, and what a request is at each of its statements. *)

LEMMA InitInvariant == Init => IInv
<1> SUFFICES ASSUME Init PROVE IInv
    OBVIOUS
<1> USE DEF Init
<1>1. TypeOK
    BY IdAssumption DEF TypeOK
<1>2. Shape /\ Fresh /\ KeptStored
    BY DEF Shape, Fresh, KeptStored
<1>3. Given /\ Drifting
    BY DEF Given, Drifting, Idle
<1>4. Answered /\ CreatedOwn /\ TotalDrift
    BY DEF Answered, CreatedOwn, TotalDrift, NoAnswer
<1> QED
    BY <1>1, <1>2, <1>3, <1>4 DEF IInv

LEMMA Stages ==
    ASSUME TypeOK, NEW r \in Request
    PROVE  /\ req[r].at \in {"idle", "insert", "fetch", "select"}
           /\ req[r].at \in {"insert", "fetch"} => req[r].id \in Id
           /\ req[r].at = "insert" => req[r].stamp \in Nat
           /\ req[r].at = "select" => req[r] \in Listing /\ req[r].param \in Param
BY DEF TypeOK, Idle, Creating, Listing

\* A write moves the counts of the lists under way and nothing else.
LEMMA WrittenReq ==
    ASSUME NEW reqs, \A r \in Request : reqs[r].at = "select" => reqs[r] \in Listing,
           Written(reqs)
    PROVE  /\ req' = [r \in Request |-> req'[r]]
           /\ \A r \in Request :
                 /\ req'[r].at = reqs[r].at
                 /\ reqs[r].at # "select" => req'[r] = reqs[r]
                 /\ reqs[r].at = "select" =>
                       /\ req'[r] \in Listing
                       /\ req'[r].param = reqs[r].param /\ req'[r].total = reqs[r].total
                       /\ req'[r].drift =
                              IF reqs[r].drift < LastId THEN reqs[r].drift + 1 ELSE reqs[r].drift
           /\ answer' = NoAnswer
BY IdAssumption DEF Written, Listing

\* A write to one row puts a total off by one more.
LEMMA WriteDrift ==
    ASSUME NEW i \in Id, \A j \in Id \ {i} : rows'[j] = rows[j],
           NEW query, NEW total \in 0 .. LastId, NEW d \in 0 .. LastId,
           Near(total, query, d)
    PROVE  LET e == IF d < LastId THEN d + 1 ELSE d
           IN  /\ e \in 0 .. LastId
               /\ total - Cardinality(Matching(query)') <= e
               /\ Cardinality(Matching(query)') - total <= e
<1> DEFINE S == Matching(query)
           T == Matching(query)'
<1>1. S \in SUBSET Id /\ T \in SUBSET Id /\ S \subseteq T \cup {i} /\ T \subseteq S \cup {i}
    BY DEF Matching, Live
<1>2. /\ Cardinality(S) \in 0 .. LastId /\ Cardinality(T) \in 0 .. LastId
      /\ Cardinality(S) - Cardinality(T) <= 1 /\ Cardinality(T) - Cardinality(S) <= 1
    BY <1>1, OneApart
<1>3. total - Cardinality(S) <= d /\ Cardinality(S) - total <= d
    BY DEF Near
<1> HIDE DEF S, T
<1>4. LET e == IF d < LastId THEN d + 1 ELSE d
      IN  /\ e \in 0 .. LastId
          /\ total - Cardinality(T) <= e
          /\ Cardinality(T) - total <= e
    BY <1>2, <1>3, IdAssumption
<1> QED
    BY <1>4 DEF T

\* The drift of the lists under way, when one row is written.
LEMMA WriteDrifting ==
    ASSUME IInv, NEW i \in Id, \A j \in Id \ {i} : rows'[j] = rows[j],
           \A r \in Request : req'[r].at = "select" =>
              /\ req[r].at = "select"
              /\ req'[r].param = req[r].param /\ req'[r].total = req[r].total
              /\ req'[r].drift =
                     IF req[r].drift < LastId THEN req[r].drift + 1 ELSE req[r].drift
    PROVE  Drifting'
<1> SUFFICES ASSUME NEW r \in Request, req'[r].at = "select"
             PROVE  /\ req'[r].total \in 0 .. LastId /\ req'[r].drift \in 0 .. LastId
                    /\ Near(req[r].total, req[r].param.query, req[r].drift)'
    BY DEF Drifting
<1>1. /\ req[r].total \in 0 .. LastId /\ req[r].drift \in 0 .. LastId
      /\ Near(req[r].total, req[r].param.query, req[r].drift)
    BY DEF IInv, Drifting
<1> DEFINE q == req[r].param.query
           t == req[r].total
           d == req[r].drift
           e == IF d < LastId THEN d + 1 ELSE d
<1>2. /\ e \in 0 .. LastId
      /\ t - Cardinality(Matching(q)') <= e /\ Cardinality(Matching(q)') - t <= e
    BY <1>1, WriteDrift
<1> QED
    BY <1>1, <1>2 DEF Near, Matching, Live

-----------------------------------------------------------------------------
(* The steps. *)

\* UPDATE and DELETE: a live row gets another text or end.
LEMMA WriteStep ==
    ASSUME IInv, NEW i \in Id, i \in Live,
           rows' = [rows EXCEPT ![i] = rows'[i]],
           rows'[i] \in Row, rows'[i].id = i, rows'[i].created = rows[i].created,
           Written(req), UNCHANGED << now, nextId, copies >>
    PROVE  IInv'
<1> USE DEF IInv
<1>0. \A r \in Request : req[r].at = "select" => req[r] \in Listing
    BY Stages
<1>1. \A j \in Id \ {i} : rows'[j] = rows[j]
    BY DEF Shape
<1>2. rows[i] # NoNote /\ rows[i] \in Row
    BY DEF Live, TypeOK
<1>3. TypeOK'
    <2>1. \A j \in Id : rows'[j] # NoNote => rows'[j] \in Row /\ rows'[j].id = j
        BY <1>1 DEF TypeOK
    <2>2. \A r \in Request : req'[r] = Idle \/ req'[r] \in Creating \/ req'[r] \in Listing
        BY <1>0, WrittenReq DEF TypeOK
    <2> QED
        BY <2>1, <2>2 DEF TypeOK, copies
<1>4. Shape' /\ Fresh'
    BY <1>0, <1>1, <1>2, WrittenReq DEF Shape, Fresh, copies
<1>5. Given' /\ CreatedOwn'
    <2>1. \A r \in Request : req'[r].at \in {"insert", "fetch"} =>
              req'[r] = req[r] /\ req[r].id \in Id /\ (req[r].at = "insert" => req[r].id # i)
        BY <1>0, <1>2, WrittenReq, Stages DEF Given
    <2>2. Given'
        BY <1>1, <2>1 DEF Given
    <2> QED
        BY <1>0, <2>2, WrittenReq DEF CreatedOwn, NoAnswer
<1>6. KeptStored'
    <2> SUFFICES ASSUME NEW j \in Kept, noteCopy[j] # NoCopy PROVE CopyOf(j)'
        BY DEF KeptStored, copies
    <2>1. CopyOf(j) /\ j \in Id
        BY IdAssumption DEF KeptStored, Id
    <2>2. rows'[j] \in Row /\ rows'[j].id = rows[j].id /\ rows'[j].created = rows[j].created
        BY <1>1, <1>2, <2>1 DEF CopyOf, TypeOK
    <2> QED
        BY <2>1, <2>2 DEF CopyOf, copies
<1>7. Drifting'
    BY <1>0, <1>1, WrittenReq, WriteDrifting
<1>8. Answered' /\ TotalDrift'
    BY <1>0, WrittenReq DEF Answered, TotalDrift, NoAnswer
<1> QED
    BY <1>3, <1>4, <1>5, <1>6, <1>7, <1>8

LEMMA UpdateStep ==
    ASSUME IInv, NEW i \in Id, NEW t \in Text, NEW began \in {now, now - 1} \cap Nat,
           Update(i, t, began)
    PROVE  IInv'
<1>1. rows[i] \in Row /\ rows[i].id = i
    BY DEF IInv, Update, Live, TypeOK
<1>2. rows' = [rows EXCEPT ![i] = [rows[i] EXCEPT !.text = t, !.updated = began]]
    BY DEF Update
<1>3. rows'[i] = [rows[i] EXCEPT !.text = t, !.updated = began]
    BY <1>2 DEF IInv, Shape
<1>4. rows'[i] \in Row /\ rows'[i].id = i /\ rows'[i].created = rows[i].created
    BY <1>1, <1>3 DEF Row
<1> QED
    BY <1>2, <1>3, <1>4, WriteStep DEF Update

LEMMA DeleteStep ==
    ASSUME IInv, NEW i \in Id, Delete(i)
    PROVE  IInv'
<1>1. rows[i] \in Row /\ rows[i].id = i /\ now \in Nat
    BY DEF IInv, Delete, Live, TypeOK
<1>2. rows' = [rows EXCEPT ![i] = [rows[i] EXCEPT !.deleted = TRUE, !.updated = now]]
    BY DEF Delete
<1>3. rows'[i] = [rows[i] EXCEPT !.deleted = TRUE, !.updated = now]
    BY <1>2 DEF IInv, Shape
<1>4. rows'[i] \in Row /\ rows'[i].id = i /\ rows'[i].created = rows[i].created
    BY <1>1, <1>3 DEF Row
<1> QED
    BY <1>2, <1>3, <1>4, WriteStep DEF Delete

LEMMA TickStep ==
    ASSUME IInv, Tick
    PROVE  IInv'
<1> USE DEF IInv, Tick, table, copies
<1>1. now' \in 0 .. Horizon
    BY IdAssumption DEF TypeOK
<1>2. TypeOK' /\ Shape' /\ Fresh' /\ Given' /\ KeptStored'
    BY <1>1 DEF TypeOK, Shape, Fresh, Given, KeptStored, CopyOf
<1>3. Drifting'
    BY DEF Drifting, Near, Matching, Live
<1>4. Answered' /\ CreatedOwn' /\ TotalDrift'
    BY DEF Answered, CreatedOwn, TotalDrift, NoAnswer
<1> QED
    BY <1>2, <1>3, <1>4

\* A step that changes one request and the answer, and no row.
LEMMA ReadDrifting ==
    ASSUME IInv, NEW r \in Request, UNCHANGED rows,
           \A q \in Request \ {r} : req'[q] = req[q],
           req'[r].at = "select" =>
               /\ req'[r].total \in 0 .. LastId /\ req'[r].drift \in 0 .. LastId
               /\ Near(req'[r].total, req'[r].param.query, req'[r].drift)
    PROVE  Drifting'
<1> SUFFICES ASSUME NEW q \in Request, req'[q].at = "select"
             PROVE  /\ req'[q].total \in 0 .. LastId /\ req'[q].drift \in 0 .. LastId
                    /\ Near(req'[q].total, req'[q].param.query, req'[q].drift)
    BY DEF Drifting, Near, Matching, Live
<1> QED
    BY DEF IInv, Drifting

LEMMA BeginCreateStep ==
    ASSUME IInv, NEW r \in Request, BeginCreate(r)
    PROVE  IInv'
<1> USE DEF IInv
<1>1. PICK i \in Id : /\ nextId <= i /\ nextId' = i + 1
                     /\ req' = [req EXCEPT ![r] = [at |-> "insert", id |-> i, stamp |-> now]]
    BY DEF BeginCreate
<1>2. UNCHANGED << now, rows, copies, answer >> /\ i \in 1 .. LastId /\ nextId \in 1 .. LastId + 1
    BY DEF BeginCreate, Id, TypeOK
<1>3. /\ req'[r] = [at |-> "insert", id |-> i, stamp |-> now]
      /\ \A q \in Request \ {r} : req'[q] = req[q]
    BY <1>1 DEF Shape
<1>4. TypeOK'
    <2>1. \A q \in Request : req'[q] = Idle \/ req'[q] \in Creating \/ req'[q] \in Listing
        BY <1>3 DEF TypeOK, Creating
    <2>2. nextId' \in 1 .. LastId + 1
        BY <1>1, <1>2, IdAssumption
    <2> QED
        BY <1>2, <2>1, <2>2 DEF TypeOK, copies
<1>5. Shape' /\ Fresh' /\ KeptStored'
    BY <1>1, <1>2 DEF Shape, Fresh, KeptStored, CopyOf, copies, Id
<1>6. Given'
    <2>1. \A q \in Request \ {r} : req[q].at \in {"insert", "fetch"} => req[q].id \in Id /\ req[q].id < i
        BY <1>1, <1>2, Stages DEF Given, Id
    <2>2. rows[i] = NoNote
        BY <1>1, <1>2 DEF Fresh
    <2> QED
        BY <1>1, <1>2, <1>3, <2>1, <2>2 DEF Given, Id
<1>7. Drifting'
    BY <1>2, <1>3, ReadDrifting
<1>8. Answered'
    BY <1>1, <1>2 DEF Answered, Live, copies, Id, NoteETag
<1>9. CreatedOwn' /\ TotalDrift'
    BY <1>1, <1>2, <1>3 DEF Answered, CreatedOwn, TotalDrift, Id
<1> QED
    BY <1>4, <1>5, <1>6, <1>7, <1>8, <1>9

LEMMA InsertStep ==
    ASSUME IInv, NEW r \in Request, NEW t \in Text, Insert(r, t)
    PROVE  IInv'
<1> USE DEF IInv
<1> DEFINE i == req[r].id
           new == [id |-> i, text |-> t, created |-> req[r].stamp, updated |-> req[r].stamp,
                   deleted |-> FALSE]
           mid == [req EXCEPT ![r] = [at |-> "fetch", id |-> i]]
<1>1. req[r].at = "insert" /\ i \in Id /\ req[r].stamp \in Nat /\ rows[i] = NoNote /\ i < nextId
    BY Stages DEF Insert, Given
<1>2. UNCHANGED << now, nextId, noteCopy, pageCopy >> /\ answer' = NoAnswer
    BY DEF Insert, Written, copies
<1>3. rows'[i] = new /\ new \in Row /\ \A j \in Id \ {i} : rows'[j] = rows[j]
    BY <1>1 DEF Insert, Shape, Row
<1>4. /\ req'[r] = [at |-> "fetch", id |-> i]
      /\ \A q \in Request \ {r} :
            /\ req'[q].at = req[q].at
            /\ req[q].at # "select" => req'[q] = req[q]
            /\ req[q].at = "select" =>
                  /\ req'[q] \in Listing
                  /\ req'[q].param = req[q].param /\ req'[q].total = req[q].total
                  /\ req'[q].drift =
                         IF req[q].drift < LastId THEN req[q].drift + 1 ELSE req[q].drift
    <2>1. mid[r] = [at |-> "fetch", id |-> i] /\ \A q \in Request \ {r} : mid[q] = req[q]
        BY DEF Shape
    <2>2. Written(mid) /\ \A q \in Request : mid[q].at = "select" => mid[q] \in Listing
        BY <2>1, Stages DEF Insert
    <2> HIDE DEF mid
    <2> QED
        BY <2>1, <2>2, WrittenReq
<1>5. TypeOK'
    <2>1. \A j \in Id : rows'[j] # NoNote => rows'[j] \in Row /\ rows'[j].id = j
        BY <1>3 DEF TypeOK
    <2>2. \A q \in Request : req'[q] = Idle \/ req'[q] \in Creating \/ req'[q] \in Listing
        BY <1>1, <1>4 DEF TypeOK, Creating
    <2> QED
        BY <1>2, <2>1, <2>2 DEF TypeOK
<1>6. Shape'
    BY <1>2 DEF Shape, Insert, Written
<1>7. Fresh'
    BY <1>1, <1>2, <1>3 DEF Fresh, TypeOK, Id
<1>8. Given'
    <2>1. \A q \in Request \ {r} : req[q].at \in {"insert", "fetch"} =>
              req[q].id # i /\ req[q].id \in Id /\ req'[q] = req[q]
        BY <1>1, <1>4, Stages DEF Given
    <2> QED
        BY <1>1, <1>2, <1>3, <1>4, <2>1 DEF Given
<1>9. KeptStored'
    <2> SUFFICES ASSUME NEW j \in Kept, noteCopy[j] # NoCopy PROVE CopyOf(j)'
        BY <1>2 DEF KeptStored
    <2>1. CopyOf(j) /\ j \in Id /\ j # i
        BY <1>1, IdAssumption, NullAssumption DEF KeptStored, CopyOf, Id
    <2> QED
        BY <1>2, <1>3, <2>1 DEF CopyOf
<1>10. Drifting'
    BY <1>1, <1>3, <1>4, WriteDrifting
<1>11. Answered' /\ CreatedOwn' /\ TotalDrift'
    BY <1>2 DEF Answered, CreatedOwn, TotalDrift, NoAnswer
<1> QED
    BY <1>5, <1>6, <1>7, <1>8, <1>9, <1>10, <1>11

\* A request that ends, while no row changes.
LEMMA EndStep ==
    ASSUME IInv, NEW r \in Request, req' = [req EXCEPT ![r] = Idle],
           UNCHANGED << now, table >>,
           noteCopy' = [j \in Kept |-> noteCopy'[j]],
           \A j \in Kept : noteCopy'[j] = noteCopy[j] \/ (j \in Live /\ noteCopy'[j] = rows[j]),
           pageCopy' = [p \in Param |-> pageCopy'[p]],
           \A p \in Param : pageCopy'[p] # NoCopy => Len(pageCopy'[p]) <= p.size,
           Answered', CreatedOwn', TotalDrift'
    PROVE  IInv'
<1> USE DEF IInv, table
<1>1. req'[r] = Idle /\ \A q \in Request \ {r} : req'[q] = req[q]
    BY DEF Shape
<1>2. KeptStored'
    <2> SUFFICES ASSUME NEW j \in Kept, noteCopy'[j] # NoCopy PROVE CopyOf(j)'
        BY DEF KeptStored
    <2>1. CASE noteCopy'[j] = noteCopy[j]
        BY <2>1 DEF KeptStored, CopyOf
    <2>2. CASE j \in Live /\ noteCopy'[j] = rows[j]
        BY <2>2 DEF CopyOf, Live, TypeOK
    <2> QED
        BY <2>1, <2>2
<1>3. TypeOK'
    <2>1. \A q \in Request : req'[q] = Idle \/ req'[q] \in Creating \/ req'[q] \in Listing
        BY <1>1 DEF TypeOK
    <2>2. \A j \in Kept : noteCopy'[j] # NoCopy => noteCopy'[j] \in Row
        BY <1>2 DEF KeptStored, CopyOf
    <2> QED
        BY <2>1, <2>2 DEF TypeOK
<1>4. Shape' /\ Fresh'
    BY DEF Shape, Fresh
<1>5. Given'
    BY <1>1 DEF Given, Idle
<1>6. Drifting'
    BY <1>1, ReadDrifting DEF Idle
<1> QED
    BY <1>2, <1>3, <1>4, <1>5, <1>6

LEMMA FetchStep ==
    ASSUME IInv, NEW r \in Request, Fetch(r)
    PROVE  IInv'
<1> USE DEF IInv
<1> DEFINE i == req[r].id
<1>1. req[r].at = "fetch" /\ i \in Id /\ i < nextId
    BY Stages DEF Fetch, Given
<1>2. req' = [req EXCEPT ![r] = Idle] /\ UNCHANGED << now, table, pageCopy >>
    BY DEF Fetch
<1>3. /\ noteCopy' = [j \in Kept |-> noteCopy'[j]]
      /\ \A j \in Kept : noteCopy'[j] = noteCopy[j] \/ (j \in Live /\ noteCopy'[j] = rows[j])
    BY DEF Fetch, InsertId, Shape
<1>4. answer' = [what |-> "created", id |-> i] \/ answer' = [what |-> "error"]
    BY DEF Fetch, InsertId
<1>5. CreatedOwn'
    BY <1>1, <1>2, <1>4 DEF CreatedOwn, Given, Shape, Idle
<1>6. Answered' /\ TotalDrift'
    BY <1>1, <1>2, <1>4 DEF Answered, TotalDrift, table
<1> QED
    BY <1>2, <1>3, <1>5, <1>6, EndStep DEF Shape, TypeOK

LEMMA FailStep ==
    ASSUME IInv, NEW r \in Request, Fail(r)
    PROVE  IInv'
<1>1. Answered' /\ CreatedOwn' /\ TotalDrift'
    BY DEF Fail, Answered, CreatedOwn, TotalDrift
<1> QED
    BY <1>1, EndStep DEF IInv, Fail, copies, Shape, TypeOK

LEMMA SelectStep ==
    ASSUME IInv, NEW r \in Request, NEW conditional \in BOOLEAN, Select(r, conditional)
    PROVE  IInv'
<1> USE DEF IInv
<1> DEFINE p == req[r].param
<1>1. p \in Param /\ req[r].at = "select"
    BY Stages DEF Select
<1>2. PICK s \in Ordered(p.query, p.sort) :
          \/ /\ answer' = [what |-> "page304", param |-> p, items |-> Window(s, p)]
             /\ UNCHANGED pageCopy
          \/ /\ answer' = [what |-> "page200", all |-> Len(s), total |-> req[r].total,
                             drift |-> req[r].drift]
             /\ pageCopy' = [pageCopy EXCEPT ![p] = Window(s, p)]
    BY DEF Select
<1>3. UNCHANGED << now, table, noteCopy >> /\ req' = [req EXCEPT ![r] = Idle]
    BY DEF Select
<1>4. /\ pageCopy' = [x \in Param |-> pageCopy'[x]]
      /\ \A x \in Param : pageCopy'[x] # NoCopy => Len(pageCopy'[x]) <= x.size
    <2>1. Len(Window(s, p)) <= p.size
        BY <1>1, WindowLength
    <2> QED
        BY <1>1, <1>2, <2>1 DEF Shape, TypeOK
<1>5. Len(s) = Cardinality(Matching(p.query)) /\ Near(req[r].total, p.query, req[r].drift)
    BY <1>1, OrderedLength DEF Drifting
<1>6. Answered' /\ CreatedOwn' /\ TotalDrift'
    BY <1>2, <1>5 DEF Answered, CreatedOwn, TotalDrift, Near
<1> QED
    BY <1>3, <1>4, <1>6, EndStep DEF Shape

LEMMA CountStep ==
    ASSUME IInv, NEW r \in Request, NEW p \in Param, Count(r, p)
    PROVE  IInv'
<1> USE DEF IInv
<1> DEFINE new == [at |-> "select", param |-> p, total |-> Cardinality(Matching(p.query)),
                   drift |-> 0]
<1>1. UNCHANGED << now, table, copies, answer >>
    BY DEF Count
<1>2. req'[r] = new /\ \A q \in Request \ {r} : req'[q] = req[q]
    BY DEF Count, Shape
<1>3. Cardinality(Matching(p.query)) \in 0 .. LastId
    BY MatchingIds
<1>4. TypeOK'
    BY <1>1, <1>2, <1>3 DEF TypeOK, Listing, table, copies
<1>5. Shape' /\ Fresh' /\ KeptStored'
    BY <1>1 DEF Count, Shape, Fresh, KeptStored, CopyOf, table, copies
<1>6. Given' /\ CreatedOwn' /\ TotalDrift'
    BY <1>1, <1>2 DEF Given, CreatedOwn, TotalDrift, table
<1>7. Answered'
    BY <1>1 DEF Answered, Live, NoteETag, table, copies
<1>8. Near(new.total, p.query, new.drift)
    BY <1>3 DEF Near
<1>9. Drifting'
    BY <1>1, <1>2, <1>3, <1>8, IdAssumption, ReadDrifting DEF table
<1> QED
    BY <1>4, <1>5, <1>6, <1>7, <1>9

\* The answer is made from what the one SELECT read.
LEMMA GetStep ==
    ASSUME IInv, NEW i \in Kept, NEW conditional \in BOOLEAN, Get(i, conditional)
    PROVE  IInv'
<1> USE DEF IInv
<1>1. UNCHANGED << now, table, req, pageCopy >>
    BY DEF Get
<1>2. /\ noteCopy' = [j \in Kept |-> noteCopy'[j]]
      /\ \A j \in Kept : noteCopy'[j] = noteCopy[j] \/ (j \in Live /\ noteCopy'[j] = rows[j])
    BY DEF Get, Shape
<1>3. KeptStored'
    <2> SUFFICES ASSUME NEW j \in Kept, noteCopy'[j] # NoCopy PROVE CopyOf(j)'
        BY DEF KeptStored
    <2>1. CASE noteCopy'[j] = noteCopy[j]
        BY <1>1, <2>1 DEF KeptStored, CopyOf, table
    <2>2. CASE j \in Live /\ noteCopy'[j] = rows[j]
        BY <1>1, <2>2 DEF CopyOf, Live, TypeOK, table
    <2> QED
        BY <1>2, <2>1, <2>2
<1>4. TypeOK' /\ Shape' /\ Fresh' /\ Given'
    BY <1>1, <1>2, <1>3 DEF TypeOK, Shape, Fresh, Given, KeptStored, CopyOf, table
<1>5. Drifting'
    BY <1>1 DEF Drifting, Near, Matching, Live, table
<1>6. Answered'
    <2>1. CASE answer'.what = "note304"
        <3>1. /\ answer' = [what |-> "note304", id |-> i] /\ UNCHANGED noteCopy
              /\ i \in Live /\ noteCopy[i] # NoCopy
              /\ NoteETag(noteCopy[i]) = NoteETag(rows[i])
            BY <2>1 DEF Get
        <3> QED
            BY <1>1, <3>1 DEF Answered, Live, NoteETag, table
    <2>2. CASE answer'.what # "note304"
        BY <2>2 DEF Get, Answered
    <2> QED
        BY <2>1, <2>2
<1>7. CreatedOwn' /\ TotalDrift'
    BY DEF Get, CreatedOwn, TotalDrift
<1> QED
    BY <1>3, <1>4, <1>5, <1>6, <1>7

-----------------------------------------------------------------------------
LEMMA StepInvariant == IInv /\ [Next]_vars => IInv'
<1> SUFFICES ASSUME IInv, [Next]_vars PROVE IInv'
    OBVIOUS
<1>1. CASE \E i \in Id, t \in Text, began \in {now, now - 1} \cap Nat : Update(i, t, began)
    BY <1>1, UpdateStep
<1>2. CASE \E i \in Id : Delete(i)
    BY <1>2, DeleteStep
<1>3. CASE \E i \in Kept, conditional \in BOOLEAN : Get(i, conditional)
    BY <1>3, GetStep
<1>4. ASSUME NEW r \in Request,
             \/ BeginCreate(r) \/ (\E t \in Text : Insert(r, t)) \/ Fetch(r)
             \/ \E p \in Param : Count(r, p)
             \/ \E conditional \in BOOLEAN : Select(r, conditional)
             \/ Fail(r)
      PROVE  IInv'
    BY <1>4, BeginCreateStep, InsertStep, FetchStep, CountStep, SelectStep, FailStep
<1>5. CASE Tick
    BY <1>5, TickStep
<1>6. CASE UNCHANGED vars
    <2>1. UNCHANGED << now, rows, nextId, req, noteCopy, pageCopy, answer >>
        BY <1>6 DEF vars, table, copies
    <2>2. TypeOK' /\ Shape' /\ Fresh' /\ Given' /\ KeptStored'
        BY <2>1 DEF IInv, TypeOK, Shape, Fresh, Given, KeptStored, CopyOf
    <2>3. Answered' /\ CreatedOwn' /\ TotalDrift'
        BY <2>1 DEF IInv, Answered, CreatedOwn, TotalDrift, Live, NoteETag
    <2>4. Drifting'
        BY <2>1 DEF IInv, Drifting, Near, Matching, Live
    <2> QED
        BY <2>2, <2>3, <2>4 DEF IInv
<1> QED
    BY <1>1, <1>2, <1>3, <1>4, <1>5, <1>6 DEF Next

\* Every reachable state has the invariant.
THEOREM Invariance == Spec => []IInv
<1>1. Init => IInv
    BY InitInvariant
<1>2. IInv /\ [Next]_vars => IInv'
    BY StepInvariant
<1> QED
    BY <1>1, <1>2, PTL DEF Spec

\* Rows, requests and copies have their types; a page is no longer than its size.
THEOREM Typing == Spec => []TypeOK
<1>1. IInv => TypeOK
    BY DEF IInv
<1> QED
    BY <1>1, Invariance, PTL

\* A 304 for a note leaves the client with the stored note, or with one that
\* differs in the text only: the time of update is the same second, and the
\* two texts have the same digest.  So it is for any digest, however many
\* writes fit into a second and in whatever order their times come.
THEOREM NotModified == Spec => []NoteNotModified
<1>1. IInv => NoteNotModified
    <2> SUFFICES ASSUME IInv, answer.what = "note304"
                 PROVE  LET copy == noteCopy[answer.id]  row == rows[answer.id] IN
                        /\ [copy EXCEPT !.text = row.text] = row
                        /\ Digest[Joined(copy.text)] = Digest[Joined(row.text)]
        BY DEF NoteNotModified
    <2> DEFINE copy == noteCopy[answer.id]
               row == rows[answer.id]
    <2>1. copy \in Row /\ row \in Row /\ copy.id = row.id /\ copy.created = row.created
        BY DEF IInv, Answered, KeptStored, CopyOf
    <2>2. copy.deleted = row.deleted
        BY <2>1 DEF IInv, Answered, KeptStored, CopyOf, Live, Row
    <2>3. copy.updated = row.updated /\ Digest[Joined(copy.text)] = Digest[Joined(row.text)]
        BY DEF IInv, Answered, NoteETag
    <2>4. [copy EXCEPT !.text = row.text] = row
        BY <2>1, <2>2, <2>3 DEF Row
    <2> QED
        BY <2>3, <2>4
<1> QED
    BY <1>1, Invariance, PTL

\* However many creates are under way, each is answered with its own note.
THEOREM Own == Spec => []CreatedOwn
<1>1. IInv => CreatedOwn
    BY DEF IInv
<1> QED
    BY <1>1, Invariance, PTL

\* The total and the items of a page are apart by the writes between the
\* two statements at most, for any number of notes and of writers.
THEOREM Drift == Spec => []TotalDrift
<1>1. IInv => TotalDrift
    BY DEF IInv
<1> QED
    BY <1>1, Invariance, PTL

-----------------------------------------------------------------------------
(* The order of the notes. *)

\* Every nonempty set of naturals has a least element.
LEMMA Least ==
    ASSUME NEW S \in SUBSET Nat, S # {}
    PROVE  \E m \in S : \A n \in S : m <= n
<1> DEFINE R == OpToRel(<, Nat)
<1>1. IsWellFoundedOn(R, Nat)
    BY NatLessThanWellFounded
<1> HIDE DEF R
<1>2. PICK m \in S : \A n \in S : << n, m >> \notin R
    BY <1>1, WFMin
<1>3. \A n \in S : n < m => << n, m >> \in R
    BY DEF R, OpToRel
<1>4. \A n \in S : ~ (n < m)
    BY <1>2, <1>3
<1>5. \A n \in S : n \in Nat /\ m \in Nat
    OBVIOUS
<1>6. \A n \in S : m <= n
    BY <1>4, <1>5
<1> QED
    BY <1>6

\* Induction: a set of naturals that has zero and every successor has them all.
LEMMA Induction ==
    ASSUME NEW S \in SUBSET Nat, 0 \in S, \A n \in S : n + 1 \in S
    PROVE  S = Nat
<1> SUFFICES ASSUME Nat \ S # {} PROVE FALSE
    OBVIOUS
<1>1. PICK m \in Nat \ S : \A n \in Nat \ S : m <= n
    BY Least
<1>2. m # 0 /\ m - 1 \in Nat
    BY <1>1
<1>3. m - 1 \in S
    BY <1>1, <1>2
<1> QED
    BY <1>1, <1>2, <1>3

\* A bounded set of naturals has a greatest element.
LEMMA Greatest ==
    ASSUME NEW n \in Nat, NEW S \in SUBSET (0 .. n), S # {}
    PROVE  \E m \in S : \A k \in S : k <= m
<1> DEFINE T == {n - k : k \in S}
<1>0. \A k \in S : k \in Nat /\ n - k \in Nat
    OBVIOUS
<1>1. T \in SUBSET Nat /\ T # {}
    BY <1>0
<1>2. PICK m \in T : \A k \in T : m <= k
    BY <1>1, Least
<1>3. PICK l \in S : m = n - l
    BY <1>2
<1>4. \A k \in S : m <= n - k
    BY <1>2
<1>5. \A k \in S : k <= l
    BY <1>0, <1>3, <1>4
<1> QED
    BY <1>5

-----------------------------------------------------------------------------
\* By id and by title, rows of different ids are in a strict total order.
LEMMA Order ==
    ASSUME NEW sort \in {"newest", "title"}
    PROVE  /\ \A a, b, c \in Row : Before(a, b, sort) /\ Before(b, c, sort) => Before(a, c, sort)
           /\ \A a, b \in Row : a.id # b.id => Before(a, b, sort) \/ Before(b, a, sort)
           /\ \A a, b \in Row : Before(a, b, sort) => a # b /\ ~ Before(b, a, sort)
<1>1. \A a \in Row : a.id \in Nat /\ TitleRank[a.text] \in Int
    BY RankAssumption DEF Row, Id
<1>2. CASE sort = "newest"
    BY <1>1, <1>2 DEF Before
<1>3. CASE sort = "title"
    BY <1>1, <1>3 DEF Before
<1> QED
    BY <1>2, <1>3

\* What is in order from each place to the next is in order throughout.
LEMMA Sorted ==
    ASSUME NEW sort \in {"newest", "title"}, NEW n \in Nat, NEW s \in [1 .. n -> Row],
           \A k \in 1 .. n - 1 : Before(s[k], s[k + 1], sort)
    PROVE  \A j, k \in 1 .. n : j < k => Before(s[j], s[k], sort)
<1> DEFINE D == {d \in Nat : \A j \in 1 .. n : j + d + 1 <= n => Before(s[j], s[j + d + 1], sort)}
<1>1. 0 \in D
    BY Zenon, SMT
<1>2. ASSUME NEW d \in D PROVE d + 1 \in D
    <2> SUFFICES ASSUME NEW j \in 1 .. n, j + (d + 1) + 1 <= n
                 PROVE  Before(s[j], s[j + (d + 1) + 1], sort)
        OBVIOUS
    <2>1. j + d + 1 \in 1 .. n - 1 /\ j + (d + 1) + 1 = (j + d + 1) + 1
        OBVIOUS
    <2>2. Before(s[j], s[j + d + 1], sort) /\ Before(s[j + d + 1], s[j + (d + 1) + 1], sort)
        BY <2>1
    <2>3. s[j] \in Row /\ s[j + d + 1] \in Row /\ s[j + (d + 1) + 1] \in Row
        BY <2>1
    <2> QED
        BY <2>2, <2>3, Order
<1>3. D = Nat
    <2> HIDE DEF D
    <2>1. D \in SUBSET Nat
        BY DEF D
    <2> QED
        BY <1>1, <1>2, <2>1, Induction
<1> SUFFICES ASSUME NEW j \in 1 .. n, NEW k \in 1 .. n, j < k PROVE Before(s[j], s[k], sort)
    OBVIOUS
<1> DEFINE d == k - j - 1
<1>4. d \in Nat /\ j + d + 1 = k
    OBVIOUS
<1>5. d \in D
    BY <1>3, <1>4
<1>6. j + d + 1 <= n => Before(s[j], s[j + d + 1], sort)
    BY <1>5
<1>7. j + d + 1 <= n
    BY <1>4
<1> HIDE DEF d
<1> QED
    BY <1>4, <1>6, <1>7

\* There is one order of a set of rows: two that differ would each have, at
\* the first place where they do, a row that comes later in the other.
LEMMA OneOrder ==
    ASSUME NEW sort \in {"newest", "title"}, NEW n \in Nat, NEW S \in SUBSET Row,
           NEW s \in [1 .. n -> S], \A x \in S : \E k \in 1 .. n : s[k] = x,
           NEW t \in [1 .. n -> S], \A x \in S : \E k \in 1 .. n : t[k] = x,
           \A k \in 1 .. n - 1 : Before(s[k], s[k + 1], sort) /\ Before(t[k], t[k + 1], sort)
    PROVE  s = t
<1>1. \A j, k \in 1 .. n : j < k => Before(s[j], s[k], sort) /\ Before(t[j], t[k], sort)
    <2>1. s \in [1 .. n -> Row] /\ t \in [1 .. n -> Row]
        OBVIOUS
    <2> QED
        BY <2>1, Sorted
<1> DEFINE D == {k \in 1 .. n : s[k] # t[k]}
<1>0. D = {} => s = t
    <2> SUFFICES ASSUME \A k \in 1 .. n : s[k] = t[k] PROVE s = t
        OBVIOUS
    <2> QED
        OBVIOUS
<1> SUFFICES ASSUME D # {} PROVE FALSE
    BY <1>0
<1>2. PICK k \in D : \A j \in D : k <= j
    <2>1. D \in SUBSET Nat
        OBVIOUS
    <2> HIDE DEF D
    <2> QED
        BY <2>1, Least
<1>3. \A j \in 1 .. n : j < k => s[j] = t[j]
    BY <1>2
<1>4. PICK i, j \in 1 .. n : s[k] = t[j] /\ t[k] = s[i]
    BY <1>2
<1>5. s[k] \in Row /\ t[k] \in Row /\ s[k] # t[k] /\ k \in 1 .. n
    BY <1>2
<1>6. j > k
    <2>1. j # k
        BY <1>4, <1>5
    <2>2. CASE j < k
        <3>1. Before(s[j], s[k], sort) /\ s[j] = s[k]
            BY <1>1, <1>3, <1>4, <1>5, <2>2
        <3> QED
            BY <1>5, <3>1, Order
    <2> QED
        BY <2>1, <2>2
<1>7. i > k
    <2>1. i # k
        BY <1>4, <1>5
    <2>2. CASE i < k
        <3>1. Before(t[i], t[k], sort) /\ t[i] = t[k]
            BY <1>1, <1>3, <1>4, <1>5, <2>2
        <3> QED
            BY <1>5, <3>1, Order
    <2> QED
        BY <2>1, <2>2
<1>8. Before(t[k], s[k], sort) /\ Before(s[k], t[k], sort)
    BY <1>1, <1>4, <1>5, <1>6, <1>7
<1> QED
    BY <1>5, <1>8, Order

\* And there is an order: the place of a row is given by the rows before it.
LEMMA SomeOrder ==
    ASSUME NEW sort \in {"newest", "title"}, NEW S \in SUBSET Row, IsFiniteSet(S),
           \A a, b \in S : a.id = b.id => a = b
    PROVE  \E s \in [1 .. Cardinality(S) -> S] :
               /\ \A j, k \in 1 .. Cardinality(S) : j # k => s[j] # s[k]
               /\ \A k \in 1 .. Cardinality(S) - 1 : Before(s[k], s[k + 1], sort)
<1> DEFINE n == Cardinality(S)
           Prior(x) == {y \in S : Before(y, x, sort)}
           place == [x \in S |-> Cardinality(Prior(x)) + 1]
<1>1. n \in Nat
    BY FS_CardinalityType
<1>2. \A x \in S : IsFiniteSet(Prior(x)) /\ Cardinality(Prior(x)) \in Nat
    BY FS_Subset, FS_CardinalityType
<1>3. ASSUME NEW x \in S, NEW y \in S, Before(x, y, sort)
      PROVE  Cardinality(Prior(x)) < Cardinality(Prior(y))
    <2>1. Prior(x) \in SUBSET Prior(y) /\ x \in Prior(y) /\ x \notin Prior(x)
        BY <1>3, Order
    <2>2. /\ Cardinality(Prior(x)) <= Cardinality(Prior(y))
          /\ Cardinality(Prior(x)) # Cardinality(Prior(y))
        <3> HIDE DEF Prior
        <3> QED
            BY <1>2, <2>1, FS_Subset
    <2> HIDE DEF Prior
    <2> QED
        BY <1>2, <2>2
<1>4. \A x \in S : Cardinality(Prior(x)) < n
    <2> TAKE x \in S
    <2>1. Prior(x) \in SUBSET S /\ x \notin Prior(x)
        BY Order
    <2> QED
        BY <1>1, <1>2, <2>1, FS_Subset
<1>5. \A x, y \in S : x # y => Before(x, y, sort) \/ Before(y, x, sort)
    BY Order
<1> HIDE DEF Prior, n
<1>6. place \in Injection(S, 1 .. n)
    <2>1. place \in [S -> 1 .. n]
        BY <1>1, <1>2, <1>4
    <2>2. \A x, y \in S : place[x] = place[y] => x = y
        BY <1>2, <1>3, <1>5
    <2> QED
        BY <2>1, <2>2 DEF Injection, IsInjective
<1>7. place \in Surjection(S, 1 .. n)
    <2>1. IsFiniteSet(1 .. n) /\ Cardinality(1 .. n) = n
        BY <1>1, FS_Interval
    <2> QED
        BY <1>6, <2>1, FS_Injection DEF n
<1>8. \A k \in 1 .. n : \E x \in S : place[x] = k
    BY <1>7 DEF Surjection
<1> DEFINE s == [k \in 1 .. n |-> CHOOSE x \in S : place[x] = k]
<1>9. \A k \in 1 .. n : s[k] \in S /\ place[s[k]] = k
    BY <1>8
<1> HIDE DEF s
<1>10. s \in [1 .. n -> S]
    BY <1>9 DEF s
<1>11. \A j, k \in 1 .. n : j # k => s[j] # s[k]
    BY <1>9
<1>12. ASSUME NEW k \in 1 .. n - 1 PROVE Before(s[k], s[k + 1], sort)
    <2>1. k \in 1 .. n /\ k + 1 \in 1 .. n
        BY <1>1
    <2>2. s[k] \in S /\ s[k + 1] \in S /\ s[k] # s[k + 1]
        <3>1. k # k + 1
            OBVIOUS
        <3> QED
            BY <1>9, <1>11, <2>1, <3>1
    <2>3. CASE Before(s[k + 1], s[k], sort)
        <3>1. Cardinality(Prior(s[k + 1])) < Cardinality(Prior(s[k]))
            BY <1>3, <2>2, <2>3
        <3>2. Cardinality(Prior(s[k + 1])) + 1 = k + 1 /\ Cardinality(Prior(s[k])) + 1 = k
            BY <1>9, <2>1, <2>2
        <3> QED
            BY <1>2, <2>2, <3>1, <3>2
    <2> QED
        BY <1>5, <2>2, <2>3
<1> QED
    BY <1>10, <1>11, <1>12 DEF n

-----------------------------------------------------------------------------
\* The rows that a query matches.
Found(query) == {rows[i] : i \in Matching(query)}

LEMMA FoundRows ==
    ASSUME TypeOK, NEW query
    PROVE  /\ Found(query) \in SUBSET Row /\ IsFiniteSet(Found(query))
           /\ Cardinality(Found(query)) = Cardinality(Matching(query))
           /\ \A a, b \in Found(query) : a.id = b.id => a = b
<1> DEFINE M == Matching(query)
           S == Found(query)
           f == [i \in M |-> rows[i]]
<1>1. \A i \in M : i \in Id /\ rows[i] # NoNote /\ rows[i] \in Row /\ rows[i].id = i
    BY DEF Matching, Live, TypeOK
<1>2. f \in Bijection(M, S)
    <2>1. f \in [M -> S]
        BY DEF Found
    <2>2. \A i, j \in M : f[i] = f[j] => i = j
        BY <1>1
    <2>3. \A t \in S : \E i \in M : f[i] = t
        BY DEF Found
    <2> QED
        BY <2>1, <2>2, <2>3 DEF Bijection, Injection, Surjection, IsInjective
<1>3. IsFiniteSet(S) /\ Cardinality(S) = Cardinality(M)
    BY <1>2, MatchingIds, FS_Bijection DEF ExistsBijection
<1> QED
    BY <1>1, <1>3 DEF Found

\* What SELECT returns has each row that matches, once.
LEMMA OrderedRows ==
    ASSUME TypeOK, NEW query, NEW sort, NEW s \in Ordered(query, sort)
    PROVE  LET n == Cardinality(Matching(query)) IN
           /\ n \in Nat /\ s \in [1 .. n -> Found(query)] /\ s \in [1 .. n -> Row]
           /\ s \in Seq(Row) /\ Len(s) = n
           /\ \A j, k \in 1 .. n : j # k => s[j] # s[k]
           /\ \A x \in Found(query) : \E k \in 1 .. n : s[k] = x
           /\ \A k \in 1 .. n - 1 : Before(s[k], s[k + 1], sort)
<1> DEFINE n == Cardinality(Matching(query))
           S == Found(query)
<1>1. n \in Nat /\ n = Cardinality(S) /\ IsFiniteSet(S) /\ S \in SUBSET Row
    BY FoundRows, MatchingIds
<1>2. /\ s \in [1 .. n -> S] /\ \A j, k \in 1 .. n : j # k => s[j] # s[k]
      /\ \A k \in 1 .. Len(s) - 1 : Before(s[k], s[k + 1], sort)
    BY <1>1 DEF Ordered, SetToSeqs, Found
<1> HIDE DEF S, n
<1>3. s \in [1 .. n -> Row]
    BY <1>1, <1>2
<1>4. s \in Seq(Row) /\ Len(s) = n
    BY <1>1, <1>3
<1>5. s \in Surjection(1 .. n, S)
    <2>1. s \in Injection(1 .. n, S)
        BY <1>2 DEF Injection, IsInjective
    <2>2. Cardinality(1 .. n) = n
        BY <1>1, FS_Interval
    <2> QED
        BY <1>1, <2>1, <2>2, FS_Injection
<1>6. \A x \in S : \E k \in 1 .. n : s[k] = x
    BY <1>5 DEF Surjection
<1> QED
    BY <1>1, <1>2, <1>3, <1>4, <1>6 DEF S, n

\* In every state there is one order of the notes that match.
LEMMA Fit == TypeOK => PagesFit
<1> SUFFICES ASSUME TypeOK, NEW query \in Query, NEW sort \in {"newest", "title"}
             PROVE  \E s \in Ordered(query, sort) :
                        /\ Ordered(query, sort) = {s}
                        /\ ToSet(s) = {rows[i] : i \in Matching(query)}
    BY DEF PagesFit
<1> DEFINE n == Cardinality(Matching(query))
           S == Found(query)
<1>1. /\ n \in Nat /\ n = Cardinality(S) /\ IsFiniteSet(S) /\ S \in SUBSET Row
      /\ \A a, b \in S : a.id = b.id => a = b
    BY FoundRows, MatchingIds
<1>2. PICK s \in [1 .. n -> S] :
          /\ \A j, k \in 1 .. n : j # k => s[j] # s[k]
          /\ \A k \in 1 .. n - 1 : Before(s[k], s[k + 1], sort)
    <2> HIDE DEF S, n
    <2> QED
        BY <1>1, SomeOrder
<1>3. s \in Ordered(query, sort)
    <2> HIDE DEF n
    <2>1. Len(s) = n
        BY <1>1, <1>2
    <2>2. s \in SetToSeqs(S)
        BY <1>1, <1>2 DEF SetToSeqs
    <2> QED
        BY <1>2, <2>1, <2>2 DEF Ordered, Found
<1>4. ASSUME NEW t \in Ordered(query, sort) PROVE t = s
    <2>1. /\ t \in [1 .. n -> S] /\ \A x \in S : \E k \in 1 .. n : t[k] = x
          /\ \A x \in S : \E k \in 1 .. n : s[k] = x
          /\ \A k \in 1 .. n - 1 : Before(t[k], t[k + 1], sort)
        BY <1>3, OrderedRows
    <2> HIDE DEF S, n
    <2>2. \A k \in 1 .. n - 1 : Before(s[k], s[k + 1], sort) /\ Before(t[k], t[k + 1], sort)
        BY <1>2, <2>1
    <2>3. t \in [1 .. n -> S] /\ n \in Nat /\ S \in SUBSET Row
        BY <1>1, <2>1
    <2>4. \A x \in S : \E k \in 1 .. n : s[k] = x
        BY <2>1
    <2>5. \A x \in S : \E k \in 1 .. n : t[k] = x
        BY <2>1
    <2> QED
        BY <2>2, <2>3, <2>4, <2>5, OneOrder, Zenon
<1>5. ToSet(s) = S
    <2>1. \A x \in S : \E k \in 1 .. n : s[k] = x
        BY <1>3, OrderedRows
    <2> HIDE DEF S, n
    <2> QED
        BY <1>2, <2>1 DEF ToSet
<1> QED
    BY <1>3, <1>4, <1>5 DEF Found

-----------------------------------------------------------------------------
(* The largest id of a page. *)

\* The equation of the fold that LargestId is.
LargestEq(f, s) ==
    f = [T \in SUBSET DOMAIN s |->
            IF T = {} THEN 0
            ELSE IF s[Max(T)].id > f[T \ {Max(T)}] THEN s[Max(T)].id ELSE f[T \ {Max(T)}]]

LEMMA LargestIsFold ==
    ASSUME NEW s
    PROVE  LargestId(s) = (CHOOSE f : LargestEq(f, s))[DOMAIN s]
BY DEF LargestId, FoldLeft, MapThenFoldSet, LargestEq

\* It has a solution: the largest id of each part.
LEMMA LargestSolved ==
    ASSUME NEW n \in Nat, NEW s \in [1 .. n -> Row]
    PROVE  \E f : LargestEq(f, s)
<1> DEFINE Ids(T) == {0} \cup {s[k].id : k \in T}
           IsBig(m, T) == m \in Ids(T) /\ \A i \in Ids(T) : i <= m
           g == [T \in SUBSET (1 .. n) |-> CHOOSE m \in Nat : IsBig(m, T)]
<1>1. \A k \in 1 .. n : s[k].id \in Nat /\ s[k].id \in 0 .. LastId
    BY IdAssumption DEF Row, Id
<1>2. \A T \in SUBSET (1 .. n) : g[T] \in Nat /\ IsBig(g[T], T)
    <2> TAKE T \in SUBSET (1 .. n)
    <2>1. Ids(T) \in SUBSET (0 .. LastId) /\ Ids(T) # {}
        BY <1>1, IdAssumption
    <2>2. \E m \in Ids(T) : \A i \in Ids(T) : i <= m
        <3> HIDE DEF Ids
        <3> QED
            BY <2>1, Greatest, IdAssumption
    <2>3. \E m \in Nat : IsBig(m, T)
        BY <2>1, <2>2
    <2> HIDE DEF IsBig
    <2> QED
        BY <2>3
<1>3. \A T \in SUBSET (1 .. n), m \in Nat : IsBig(m, T) => m = g[T]
    <2> SUFFICES ASSUME NEW T \in SUBSET (1 .. n), NEW m \in Nat, IsBig(m, T) PROVE m = g[T]
        OBVIOUS
    <2>1. m <= g[T] /\ g[T] <= m /\ g[T] \in Nat
        <3> HIDE DEF Ids, g
        <3> QED
            BY <1>2
    <2> HIDE DEF g
    <2> QED
        BY <2>1
<1> HIDE DEF g
<1>4. g = [T \in SUBSET (1 .. n) |-> g[T]]
    BY DEF g
<1>5. ASSUME NEW T \in SUBSET (1 .. n)
      PROVE  g[T] = IF T = {} THEN 0
                    ELSE IF s[Max(T)].id > g[T \ {Max(T)}] THEN s[Max(T)].id ELSE g[T \ {Max(T)}]
    <2>1. CASE T = {}
        BY <1>3, <2>1
    <2>2. CASE T # {}
        <3>1. Max(T) \in T
            <4>1. \E m \in T : \A k \in T : k <= m
                <5>1. T \in SUBSET (0 .. n)
                    OBVIOUS
                <5> QED
                    BY <2>2, <5>1, Greatest
            <4>2. \E m \in T : \A k \in T : m >= k
                BY <4>1
            <4> QED
                BY <4>2 DEF Max
        <3> DEFINE x == Max(T)
                   U == T \ {x}
                   v == s[x].id
                   w == g[U]
        <3>2. U \in SUBSET (1 .. n) /\ x \in 1 .. n /\ T = U \cup {x}
            BY <3>1
        <3> HIDE DEF x, U
        <3>3. v \in Nat /\ w \in Nat /\ IsBig(w, U)
            BY <1>1, <1>2, <3>2
        <3>4. Ids(T) = Ids(U) \cup {v}
            BY <3>2
        <3>5. \A i \in Ids(U) : i \in Nat /\ i <= w
            BY <1>1, <3>2, <3>3
        <3>6. CASE v > w
            <4>1. IsBig(v, T)
                <5> HIDE DEF v, w, Ids
                <5> QED
                    BY <3>3, <3>4, <3>5, <3>6
            <4> QED
                BY <1>3, <2>2, <3>3, <3>6, <4>1 DEF x, U
        <3>7. CASE ~ (v > w)
            <4>1. IsBig(w, T)
                <5> HIDE DEF v, w, Ids
                <5> QED
                    BY <3>3, <3>4, <3>5, <3>7
            <4> QED
                BY <1>3, <2>2, <3>3, <3>7, <4>1 DEF x, U
        <3> QED
            BY <3>6, <3>7
    <2> QED
        BY <2>1, <2>2
<1>6. DOMAIN s = 1 .. n
    OBVIOUS
<1>7. LargestEq(g, s)
    BY <1>4, <1>5, <1>6 DEF LargestEq
<1> QED
    BY <1>7

\* No id of a page is larger than LargestId, which is one of them or zero.
LEMMA Largest ==
    ASSUME NEW n \in Nat, NEW s \in [1 .. n -> Row]
    PROVE  /\ \A k \in 1 .. n : s[k].id <= LargestId(s)
           /\ LargestId(s) \in {0} \cup {s[k].id : k \in 1 .. n}
<1> DEFINE f == CHOOSE f : LargestEq(f, s)
<1>1. LargestEq(f, s) /\ LargestId(s) = f[1 .. n]
    <2>1. DOMAIN s = 1 .. n
        OBVIOUS
    <2> QED
        BY <2>1, LargestSolved, LargestIsFold
<1> HIDE DEF f
<1>2. \A k \in 1 .. n : s[k].id \in Nat
    BY DEF Row, Id
<1> DEFINE Done(k) == /\ f[1 .. k] \in Nat
                      /\ \A j \in 1 .. k : s[j].id <= f[1 .. k]
                      /\ f[1 .. k] \in {0} \cup {s[j].id : j \in 1 .. k}
           D == {k \in Nat : k <= n => Done(k)}
<1>3. 0 \in D
    <2>1. 1 .. 0 = {} /\ {} \in SUBSET DOMAIN s
        OBVIOUS
    <2>2. f[{}] = 0
        BY <1>1, <2>1 DEF LargestEq
    <2> QED
        BY <2>1, <2>2
<1>4. ASSUME NEW k \in D PROVE k + 1 \in D
    <2> SUFFICES ASSUME k + 1 <= n PROVE Done(k + 1)
        OBVIOUS
    <2>1. k \in Nat /\ Done(k) /\ k + 1 \in 1 .. n
        OBVIOUS
    <2> DEFINE T == 1 .. (k + 1)
               v == s[k + 1].id
               w == f[1 .. k]
    <2>2. T \in SUBSET DOMAIN s /\ T # {} /\ T \ {k + 1} = 1 .. k
        <3>1. DOMAIN s = 1 .. n /\ T \in SUBSET (1 .. n) /\ k + 1 \in T
            BY <2>1
        <3>2. \A j \in T : j # k + 1 <=> j \in 1 .. k
            BY <2>1
        <3>3. \A j \in 1 .. k : j \in T /\ j # k + 1
            BY <2>1
        <3> HIDE DEF T
        <3> QED
            BY <3>1, <3>2, <3>3
    <2>3. Max(T) = k + 1
        <3>1. k + 1 \in T /\ \A j \in T : k + 1 >= j
            BY <2>1
        <3>2. \A m \in T : (\A j \in T : m >= j) => m = k + 1
            BY <2>1
        <3> HIDE DEF T
        <3> QED
            BY <3>1, <3>2 DEF Max
    <2>4. f[T] = IF v > w THEN v ELSE w
        <3> HIDE DEF T
        <3> QED
            BY <1>1, <2>2, <2>3 DEF LargestEq
    <2>5. \A j \in 1 .. (k + 1) : j \in 1 .. k \/ j = k + 1
        BY <2>1
    <2>6. v \in Nat /\ w \in Nat
        BY <1>2, <2>1
    <2>7. \A j \in 1 .. k : s[j].id \in Nat /\ s[j].id <= w /\ j \in 1 .. (k + 1)
        BY <1>2, <2>1
    <2>8. w \in {0} \cup {s[j].id : j \in 1 .. (k + 1)} /\ v \in {s[j].id : j \in 1 .. (k + 1)}
        BY <2>1, <2>7
    <2>9. \A j \in 1 .. (k + 1) : s[j].id <= f[T]
        <3> HIDE DEF T, w
        <3> QED
            BY <2>4, <2>5, <2>6, <2>7
    <2>10. f[T] \in Nat /\ f[T] \in {0} \cup {s[j].id : j \in 1 .. (k + 1)}
        <3> HIDE DEF T, w, v
        <3> QED
            BY <2>4, <2>6, <2>8
    <2> QED
        BY <2>9, <2>10
<1>5. D = Nat
    <2> HIDE DEF D
    <2>1. D \in SUBSET Nat
        BY DEF D
    <2> QED
        BY <1>3, <1>4, <2>1, Induction
<1>6. Done(n)
    BY <1>5
<1> QED
    BY <1>1, <1>6

-----------------------------------------------------------------------------
(* Pages of the newest notes. *)

\* The items of a page that is sorted by id.
NewestFirst(s) == s \in Seq(Row) /\ \A j, k \in 1 .. Len(s) : j < k => s[j].id > s[k].id

\* The first page of the newest notes.
OnTop(p) == p.page = 1 /\ p.sort = "newest"

\* The client keeps such a page as it was sorted ...
PagesKept == \A p \in Param : OnTop(p) /\ pageCopy[p] # NoCopy => NewestFirst(pageCopy[p])

\* ... and the items of the latest 304 had the ETag of the client's copy.
PageAnswered ==
    answer.what = "page304" =>
        LET p == answer.param IN
        /\ p \in Param /\ CollETag(p, pageCopy[p]) = CollETag(p, answer.items)
        /\ OnTop(p) => NewestFirst(pageCopy[p]) /\ NewestFirst(answer.items)

PInv == PagesKept /\ PageAnswered

\* Multiplication, which the provers know little about.
LEMMA Products ==
    /\ \A a, c \in Nat : a * c \in Nat
    /\ \A a \in Nat \ {0}, c \in Nat : (a - 1) * c \in Nat /\ a * c = (a - 1) * c + c
    /\ \A a, b, c \in Nat : a <= b => a * c <= b * c
<1>1. \A a, c \in Nat : a * c \in Nat
    OBVIOUS
<1>2. \A a \in Nat \ {0}, c \in Nat : (a - 1) * c \in Nat /\ a * c = (a - 1) * c + c
    OBVIOUS
<1>3. \A a, b, c \in Nat : a <= b => a * c <= b * c
    <2> SUFFICES ASSUME NEW a \in Nat, NEW b \in Nat, NEW c \in Nat, a <= b PROVE a * c <= b * c
        OBVIOUS
    <2> DEFINE d == b - a
    <2>1. d \in Nat /\ b = a + d
        OBVIOUS
    <2> HIDE DEF d
    <2>2. b * c = a * c + d * c /\ d * c \in Nat /\ a * c \in Nat
        BY <2>1
    <2> QED
        BY <2>2
<1> QED
    BY <1>1, <1>2, <1>3

\* Items are a slice of a list: LIMIT size OFFSET from.
IsSlice(items, s, from, size) ==
    /\ items \in Seq(Row)
    /\ Len(items) = IF from >= Len(s) THEN 0 ELSE IF from + size < Len(s) THEN size ELSE Len(s) - from
    /\ \A k \in 1 .. Len(items) : from + k \in 1 .. Len(s) /\ items[k] = s[from + k]

LEMMA Slice ==
    ASSUME NEW s \in Seq(Row), NEW from \in Nat, NEW size \in Nat, NEW n \in Nat,
           n = IF from + size < Len(s) THEN from + size ELSE Len(s)
    PROVE  IsSlice(SubSeq(s, from + 1, n), s, from, size)
<1> DEFINE w == SubSeq(s, from + 1, n)
<1>1. n <= Len(s) /\ from + 1 \in Nat /\ Len(s) \in Nat
    OBVIOUS
<1>2. \A k \in from + 1 .. n : s[k] \in Row
    BY <1>1
<1>3. /\ w \in Seq(Row)
      /\ Len(w) = (IF from + 1 <= n THEN n - (from + 1) + 1 ELSE 0)
      /\ \A k \in 1 .. n - (from + 1) + 1 : w[k] = s[(from + 1) + k - 1]
    BY <1>1, <1>2, SubSeqProperties
<1> HIDE DEF w
<1>4. Len(w) = IF from < n THEN n - from ELSE 0
    BY <1>3
<1>5. ASSUME NEW k \in 1 .. Len(w) PROVE from + k \in 1 .. Len(s) /\ w[k] = s[from + k]
    <2>1. from < n /\ k \in 1 .. n - from
        BY <1>4
    <2>2. k \in 1 .. n - (from + 1) + 1 /\ (from + 1) + k - 1 = from + k /\ from + k \in 1 .. n
        BY <2>1
    <2> QED
        BY <1>1, <1>3, <2>2
<1>6. Len(w) = IF from >= Len(s) THEN 0 ELSE IF from + size < Len(s) THEN size ELSE Len(s) - from
    BY <1>1, <1>4
<1>7. IsSlice(w, s, from, size)
    BY <1>3, <1>5, <1>6 DEF IsSlice
<1> QED
    BY <1>7 DEF w

\* Where a page begins.
Offset(page, size) == (page - 1) * size

LEMMA Offsets ==
    /\ \A page \in Nat \ {0}, size \in Nat :
          Offset(page, size) \in Nat /\ page * size = Offset(page, size) + size
    /\ \A size \in Nat : Offset(1, size) = 0
    /\ \A page, next \in Nat \ {0}, size \in Nat :
          page < next => Offset(page, size) + size <= Offset(next, size)
<1>1. \A page \in Nat \ {0}, size \in Nat :
          Offset(page, size) \in Nat /\ page * size = Offset(page, size) + size
    BY Products DEF Offset
<1>2. \A size \in Nat : Offset(1, size) = 0
    BY DEF Offset
<1>3. ASSUME NEW page \in Nat \ {0}, NEW next \in Nat \ {0}, NEW size \in Nat, page < next
      PROVE  Offset(page, size) + size <= Offset(next, size)
    <2>1. page \in Nat /\ next - 1 \in Nat /\ page <= next - 1
        BY <1>3
    <2>2. page * size <= (next - 1) * size
        BY <2>1, Products
    <2> QED
        BY <1>1, <2>2 DEF Offset
<1> QED
    BY <1>1, <1>2, <1>3

\* A page is a slice.
LEMMA WindowSlice ==
    ASSUME NEW s \in Seq(Row), NEW p, p.page \in Nat \ {0}, p.size \in Nat
    PROVE  IsSlice(Window(s, p), s, Offset(p.page, p.size), p.size)
<1> DEFINE from == Offset(p.page, p.size)
           to == p.page * p.size
           n == IF to < Len(s) THEN to ELSE Len(s)
<1>1. from \in Nat /\ to = from + p.size /\ Len(s) \in Nat
    <2>1. from \in Nat /\ to = from + p.size
        BY Offsets, Zenon
    <2>2. Len(s) \in Nat
        OBVIOUS
    <2> QED
        BY <2>1, <2>2
<1>2. Window(s, p) = SubSeq(s, from + 1, n)
    BY DEF Window, Offset
<1> HIDE DEF from, to
<1>3. n \in Nat /\ n = IF from + p.size < Len(s) THEN from + p.size ELSE Len(s)
    BY <1>1
<1> HIDE DEF n
<1>4. IsSlice(SubSeq(s, from + 1, n), s, from, p.size)
    BY <1>1, <1>3, Slice
<1> QED
    BY <1>2, <1>4 DEF from

\* SELECT with ORDER BY id DESC, LIMIT and OFFSET 0 returns such a page.
LEMMA TopSorted ==
    ASSUME TypeOK, NEW p \in Param, OnTop(p), NEW s \in Ordered(p.query, p.sort)
    PROVE  NewestFirst(Window(s, p))
<1> DEFINE n == Cardinality(Matching(p.query))
           w == Window(s, p)
<1>1. n \in Nat /\ s \in [1 .. n -> Row] /\ s \in Seq(Row) /\ Len(s) = n
    BY OrderedRows
<1>2. \A k \in 1 .. n - 1 : Before(s[k], s[k + 1], "newest")
    BY OrderedRows DEF OnTop
<1> HIDE DEF n
<1>3. \A j, k \in 1 .. n : j < k => s[j].id > s[k].id
    <2>1. \A j, k \in 1 .. n : j < k => Before(s[j], s[k], "newest")
        BY <1>1, <1>2, Sorted
    <2> QED
        BY <2>1 DEF Before
<1>4. p.page = 1 /\ p.page \in Nat \ {0} /\ p.size \in Nat
    <2>1. p.page = 1
        BY DEF OnTop
    <2>2. p.size \in 1 .. 100
        BY PageAssumption DEF Param
    <2> QED
        BY <2>1, <2>2
<1> HIDE DEF w
<1>7. w \in Seq(Row) /\ \A k \in 1 .. Len(w) : k \in 1 .. n /\ w[k] = s[k]
    <2>1. IsSlice(w, s, 0, p.size)
        <3>1. Offset(p.page, p.size) = 0
            BY <1>4, Offsets
        <3> QED
            BY <1>1, <1>4, <3>1, WindowSlice DEF w
    <2>2. \A k \in 1 .. Len(w) : k \in Nat /\ 0 + k = k
        OBVIOUS
    <2> QED
        BY <1>1, <2>1, <2>2 DEF IsSlice
<1>8. \A j, k \in 1 .. Len(w) : j < k => w[j].id > w[k].id
    BY <1>1, <1>3, <1>7
<1> QED
    BY <1>7, <1>8 DEF NewestFirst, w

\* The ETag of a page that is sorted by id has the id at its top.
LEMMA TopId ==
    ASSUME NEW s, NewestFirst(s)
    PROVE  LargestId(s) = IF s = << >> THEN 0 ELSE s[1].id
<1> DEFINE n == Len(s)
<1>1. n \in Nat /\ s \in [1 .. n -> Row]
    BY DEF NewestFirst
<1>2. /\ \A k \in 1 .. n : s[k].id <= LargestId(s)
      /\ LargestId(s) \in {0} \cup {s[k].id : k \in 1 .. n}
    <2> HIDE DEF n
    <2> QED
        BY <1>1, Largest
<1>3. \A k \in 1 .. n : s[k].id \in Nat /\ s[k].id > 0
    BY <1>1 DEF Row, Id
<1>4. CASE n = 0
    <2>1. s = << >>
        BY <1>4 DEF NewestFirst
    <2> QED
        BY <1>2, <1>4, <2>1
<1>5. CASE n > 0
    <2>1. s # << >> /\ 1 \in 1 .. n
        BY <1>1, <1>5
    <2>2. \A k \in 1 .. n : s[k].id <= s[1].id
        <3>1. \A k \in 1 .. n : k = 1 \/ 1 < k
            BY <1>1
        <3> QED
            BY <1>3, <2>1, <3>1 DEF NewestFirst
    <2>3. LargestId(s) # 0 => \E k \in 1 .. n : LargestId(s) = s[k].id
        BY <1>2
    <2>4. s[1].id <= LargestId(s)
        BY <1>2, <2>1
    <2> HIDE DEF n
    <2>5. LargestId(s) = s[1].id
        BY <1>3, <2>1, <2>2, <2>3, <2>4
    <2> QED
        BY <2>1, <2>5
<1> QED
    BY <1>1, <1>4, <1>5

LEMMA PageInit == Init => PInv
BY DEF Init, PInv, PagesKept, PageAnswered, NoAnswer

LEMMA PageSelect ==
    ASSUME TypeOK, PInv, NEW r \in Request, NEW conditional \in BOOLEAN, Select(r, conditional)
    PROVE  PInv'
<1> DEFINE p == req[r].param
<1>1. p \in Param
    BY DEF Select, TypeOK, Idle, Creating, Listing
<1>2. PICK s \in Ordered(p.query, p.sort) :
          LET items == Window(s, p) IN
          IF conditional /\ CollETag(p, pageCopy[p]) = CollETag(p, items)
          THEN /\ answer' = [what |-> "page304", param |-> p, items |-> items]
               /\ UNCHANGED pageCopy
          ELSE /\ answer' = [what |-> "page200", all |-> Len(s), total |-> req[r].total,
                             drift |-> req[r].drift]
               /\ pageCopy' = [pageCopy EXCEPT ![p] = items]
    BY DEF Select
<1> DEFINE items == Window(s, p)
<1>3. OnTop(p) => NewestFirst(items)
    BY <1>1, TopSorted
<1>4. conditional => pageCopy[p] # NoCopy
    BY DEF Select
<1>5. CASE conditional /\ CollETag(p, pageCopy[p]) = CollETag(p, items)
    <2>1. /\ answer' = [what |-> "page304", param |-> p, items |-> items]
          /\ pageCopy' = pageCopy
        BY <1>2, <1>5
    <2> HIDE DEF items, p
    <2>2. PagesKept'
        BY <2>1 DEF PInv, PagesKept, NewestFirst
    <2>3. /\ answer'.param = p /\ answer'.items = items
        BY <2>1
    <2>4. PageAnswered'
        BY <1>1, <1>3, <1>4, <1>5, <2>1, <2>3 DEF PInv, PagesKept, PageAnswered
    <2> QED
        BY <2>2, <2>4 DEF PInv
<1>6. CASE ~ (conditional /\ CollETag(p, pageCopy[p]) = CollETag(p, items))
    <2>1. /\ answer'.what = "page200"
          /\ pageCopy' = [pageCopy EXCEPT ![p] = items]
        BY <1>2, <1>6
    <2> HIDE DEF items, p
    <2>2. \A q \in Param : pageCopy'[q] \in {pageCopy[q], items} /\ (q # p => pageCopy'[q] = pageCopy[q])
        BY <2>1
    <2>3. PagesKept'
        BY <1>3, <2>2 DEF PInv, PagesKept
    <2>4. PageAnswered'
        BY <2>1 DEF PageAnswered
    <2> QED
        BY <2>3, <2>4 DEF PInv
<1> QED
    BY <1>5, <1>6

LEMMA PageStep ==
    ASSUME TypeOK, PInv, [Next]_vars
    PROVE  PInv'
<1>1. ASSUME pageCopy' = pageCopy, answer' = answer \/ answer'.what # "page304"
      PROVE  PInv'
    BY <1>1 DEF PInv, PagesKept, PageAnswered
<1>2. CASE \E i \in Id, t \in Text, began \in {now, now - 1} \cap Nat : Update(i, t, began)
    BY <1>1, <1>2 DEF Update, Written, NoAnswer, copies
<1>3. CASE \E i \in Id : Delete(i)
    BY <1>1, <1>3 DEF Delete, Written, NoAnswer, copies
<1>4. CASE \E i \in Kept, conditional \in BOOLEAN : Get(i, conditional)
    BY <1>1, <1>4 DEF Get
<1>5. ASSUME NEW r \in Request, BeginCreate(r) PROVE PInv'
    BY <1>1, <1>5 DEF BeginCreate, copies
<1>6. ASSUME NEW r \in Request, \E t \in Text : Insert(r, t) PROVE PInv'
    BY <1>1, <1>6 DEF Insert, Written, NoAnswer, copies
<1>7. ASSUME NEW r \in Request, Fetch(r) PROVE PInv'
    BY <1>1, <1>7 DEF Fetch
<1>8. ASSUME NEW r \in Request, \E p \in Param : Count(r, p) PROVE PInv'
    BY <1>1, <1>8 DEF Count, copies
<1>9. ASSUME NEW r \in Request, \E conditional \in BOOLEAN : Select(r, conditional) PROVE PInv'
    BY <1>9, PageSelect
<1>10. ASSUME NEW r \in Request, Fail(r) PROVE PInv'
    BY <1>1, <1>10 DEF Fail, copies
<1>11. CASE Tick
    BY <1>1, <1>11 DEF Tick, NoAnswer, copies
<1>12. CASE UNCHANGED vars
    BY <1>1, <1>12 DEF vars, copies
<1> QED
    BY <1>2, <1>3, <1>4, <1>5, <1>6, <1>7, <1>8, <1>9, <1>10, <1>11, <1>12 DEF Next

LEMMA Known == PInv => NewestKnown
<1> SUFFICES ASSUME PInv, answer.what = "page304", OnTop(answer.param)
             PROVE  LET copy == pageCopy[answer.param] IN
                    /\ Len(copy) = Len(answer.items)
                    /\ copy # << >> => copy[1].id = answer.items[1].id
    BY DEF NewestKnown, OnTop
<1> DEFINE p == answer.param
           a == pageCopy[p]
           b == answer.items
<1>1. CollETag(p, a) = CollETag(p, b) /\ NewestFirst(a) /\ NewestFirst(b)
    BY DEF PInv, PageAnswered
<1>2. LargestId(a) = LargestId(b) /\ Len(a) = Len(b)
    BY <1>1 DEF CollETag
<1>3. a # << >> => b # << >>
    BY <1>1, <1>2 DEF NewestFirst
<1>4. a # << >> => a[1].id = b[1].id
    BY <1>1, <1>2, <1>3, TopId
<1> QED
    BY <1>2, <1>4

-----------------------------------------------------------------------------
(* Going through the pages. *)

\* Among all pages of a size, a note that matches is on one page and once.
EachNoteOnce ==
    \A query \in Query, sort \in {"newest", "title"}, size \in Size : \A i \in Matching(query) :
        \E q \in Nat \ {0}, j \in 1 .. size :
            \A s \in Ordered(query, sort), p \in Nat \ {0} :
                LET items == Window(s, [page |-> p, size |-> size]) IN
                /\ p = q => j <= Len(items)
                /\ \A k \in 1 .. Len(items) : items[k] = rows[i] <=> p = q /\ k = j

\* The page on which the m-th note of a list is, and its place there.
LEMMA PageOf ==
    ASSUME NEW m \in Nat \ {0}, NEW size \in Nat \ {0}
    PROVE  \E q \in Nat \ {0}, j \in 1 .. size :
               \A p \in Nat \ {0}, k \in 1 .. size : Offset(p, size) + k = m <=> p = q /\ k = j
<1> DEFINE Q == {q \in Nat : m <= q * size}
<1>1. m \in Q
    <2> DEFINE d == size - 1
    <2>1. d \in Nat /\ size = 1 + d
        OBVIOUS
    <2> HIDE DEF d
    <2>2. m * size = m + m * d /\ m * d \in Nat
        BY <2>1
    <2> QED
        BY <2>2
<1>2. PICK q \in Q : \A r \in Q : q <= r
    <2>1. Q \in SUBSET Nat
        OBVIOUS
    <2> HIDE DEF Q
    <2> QED
        BY <1>1, <2>1, Least
<1>3. q \in Nat \ {0} /\ m <= q * size
    BY <1>2
<1>4. ~ (m <= Offset(q, size))
    <2>1. q - 1 \notin Q /\ q - 1 \in Nat
        BY <1>2, <1>3
    <2> QED
        BY <2>1 DEF Offset
<1> HIDE DEF Q
<1>5. \A p \in Nat \ {0} : Offset(p, size) \in Nat
    BY Offsets
<1>6. Offset(q, size) < m /\ m <= Offset(q, size) + size
    <2>1. q * size = Offset(q, size) + size
        BY <1>3, Offsets
    <2> QED
        BY <1>3, <1>4, <1>5, <2>1
<1> DEFINE j == m - Offset(q, size)
<1>7. j \in 1 .. size /\ m = Offset(q, size) + j
    BY <1>3, <1>5, <1>6
<1> HIDE DEF j
<1>8. ASSUME NEW p \in Nat \ {0}, NEW k \in 1 .. size PROVE Offset(p, size) + k = m <=> p = q /\ k = j
    <2>1. Offset(p, size) \in Nat /\ Offset(q, size) \in Nat
        BY <1>3, <1>5
    <2>2. CASE p = q
        BY <1>7, <2>1, <2>2
    <2>3. CASE p < q
        <3>1. Offset(p, size) + size <= Offset(q, size)
            BY <1>3, <2>3, Offsets
        <3> QED
            BY <1>6, <2>1, <2>3, <3>1
    <2>4. CASE q < p
        <3>1. Offset(q, size) + size <= Offset(p, size)
            BY <1>3, <2>4, Offsets
        <3> QED
            BY <1>6, <2>1, <2>4, <3>1
    <2> QED
        BY <1>3, <2>2, <2>3, <2>4
<1> QED
    BY <1>3, <1>7, <1>8

LEMMA Once == TypeOK => EachNoteOnce
<1> SUFFICES ASSUME TypeOK, NEW query \in Query, NEW sort \in {"newest", "title"}, NEW size \in Size,
                    NEW i \in Matching(query)
             PROVE  \E q \in Nat \ {0}, j \in 1 .. size :
                        \A s \in Ordered(query, sort), p \in Nat \ {0} :
                            LET items == Window(s, [page |-> p, size |-> size]) IN
                            /\ p = q => j <= Len(items)
                            /\ \A k \in 1 .. Len(items) : items[k] = rows[i] <=> p = q /\ k = j
    BY DEF EachNoteOnce
<1>1. PICK t \in Seq(Row) : Ordered(query, sort) = {t}
    BY Fit, OrderedRows DEF PagesFit
<1> DEFINE n == Cardinality(Matching(query))
           x == rows[i]
<1>2. /\ n \in Nat /\ t \in Seq(Row) /\ Len(t) = n
      /\ \A j, k \in 1 .. n : j # k => t[j] # t[k]
      /\ \E m \in 1 .. n : t[m] = x
    <2>1. t \in Ordered(query, sort)
        BY <1>1
    <2>2. x \in Found(query)
        BY DEF Found
    <2> QED
        BY <2>1, <2>2, OrderedRows
<1> HIDE DEF n, x
<1>3. PICK m \in 1 .. n : t[m] = x
    BY <1>2
<1>4. size \in Nat \ {0} /\ m \in Nat \ {0}
    BY PageAssumption, <1>2
<1>5. PICK q \in Nat \ {0}, j \in 1 .. size :
          \A p \in Nat \ {0}, k \in 1 .. size : Offset(p, size) + k = m <=> p = q /\ k = j
    BY <1>4, PageOf
<1> SUFFICES ASSUME NEW p \in Nat \ {0},
                    NEW items, items = Window(t, [page |-> p, size |-> size])
             PROVE  /\ p = q => j <= Len(items)
                    /\ \A k \in 1 .. Len(items) : items[k] = x <=> p = q /\ k = j
    <2> SUFFICES \A s \in Ordered(query, sort), p \in Nat \ {0} :
                     LET items == Window(s, [page |-> p, size |-> size]) IN
                     /\ p = q => j <= Len(items)
                     /\ \A k \in 1 .. Len(items) : items[k] = x <=> p = q /\ k = j
        BY <1>5, Zenon DEF x
    <2> QED
        BY <1>1, Zenon
<1>6. PICK from \in Nat : from = Offset(p, size)
    BY <1>4, Offsets
<1>7. IsSlice(items, t, from, size)
    <2> DEFINE w == [page |-> p, size |-> size]
    <2>1. w.page = p /\ w.size = size /\ items = Window(t, w)
        OBVIOUS
    <2> HIDE DEF w
    <2>2. w.page \in Nat \ {0} /\ w.size \in Nat
        BY <1>4, <2>1
    <2>3. IsSlice(Window(t, w), t, Offset(w.page, w.size), w.size)
        BY <2>2, WindowSlice
    <2> QED
        BY <1>6, <2>1, <2>3
<1>8. p = q => j <= Len(items)
    <2> SUFFICES ASSUME p = q PROVE j <= Len(items)
        OBVIOUS
    <2>1. m = from + j
        BY <1>5, <1>6
    <2> QED
        BY <1>2, <1>4, <1>7, <2>1 DEF IsSlice
<1>9. ASSUME NEW k \in 1 .. Len(items) PROVE items[k] = x <=> p = q /\ k = j
    <2>1. k \in 1 .. size /\ from + k \in 1 .. n /\ items[k] = t[from + k]
        BY <1>2, <1>4, <1>7 DEF IsSlice
    <2>2. t[from + k] = x <=> from + k = m
        BY <1>2, <1>3, <2>1
    <2>3. from + k = m <=> p = q /\ k = j
        BY <1>5, <1>6, <2>1
    <2> QED
        BY <2>1, <2>2, <2>3
<1> QED
    BY <1>8, <1>9

-----------------------------------------------------------------------------
\* A 304 for the first page of the newest notes leaves no newer note out of
\* the client's copy, for any number of notes, sizes and queries.
THEOREM Newest == Spec => []NewestKnown
<1>1. Init => PInv
    BY PageInit
<1>2. TypeOK /\ PInv /\ [Next]_vars => PInv'
    BY PageStep
<1>3. PInv => NewestKnown
    BY Known
<1> QED
    BY <1>1, <1>2, <1>3, Typing, PTL DEF Spec

\* Sorted by id or by title there is one order, of the notes that match and
\* of no others.
THEOREM Fitting == Spec => []PagesFit
BY Fit, Typing, PTL

\* So whoever goes through the pages sees each note once: LIMIT and OFFSET
\* neither leave a note out nor repeat one.
THEOREM OnePlace == Spec => []EachNoteOnce
BY Once, Typing, PTL
=============================================================================
