----------------------------- MODULE NoteReads -----------------------------
(***************************************************************************)
(* GET /notes, GET /notes/{id} and POST /notes of internal/handlers/       *)
(* notes.go over the rows of internal/repos/notes.go, and what a client    *)
(* keeps of the answers for If-None-Match.                                 *)
(*                                                                         *)
(* The rows are those that user_id=? selects.  Each SQL statement is a     *)
(* step; the INSERT of a create is two, since InnoDB hands out the id when *)
(* the INSERT starts and shows the row when it commits.                    *)
(***************************************************************************)
EXTENDS Integers, SequencesExt

CONSTANTS
    LastId,     \* bound: the last id that AUTO_INCREMENT hands out
    Text,       \* titles and bodies, as sequences
    TitleRank,  \* the collation's order of the titles
    Digest,     \* the first four bytes of SHA-256
    Page, Size, Query, Sort,
    Like,       \* the texts that LIKE finds for each query
    Request,
    Kept,       \* the notes that the client reads one by one and keeps
    Horizon,    \* bound: the last second
    NoNote, NoCopy

ASSUME IdAssumption == LastId \in Nat /\ Kept \subseteq 1 .. LastId /\ Horizon \in Nat
ASSUME PageAssumption == Page \subseteq Nat \ {0} /\ Size \subseteq 1 .. 100
ASSUME TextAssumption == \A t \in Text : DOMAIN t = {"title", "body"}
ASSUME QueryAssumption == \A query \in Query : Like[query] \subseteq Text
ASSUME RankAssumption == \A t \in Text : TitleRank[t] \in Int
ASSUME SortAssumption == Sort \subseteq {"newest", "oldest", "title", "updated"}

Id == 1 .. LastId
Param == [page : Page, size : Size, query : Query, sort : Sort]
Row == [id : Id, text : Text, created : Nat, updated : Nat, deleted : BOOLEAN]
NoAnswer == [what |-> "none"]

ASSUME NullAssumption == NoNote \notin Row

VARIABLES
    now,        \* MySQL's clock, in seconds
    rows,       \* the table, by id
    nextId,     \* its AUTO_INCREMENT
    req,        \* each request: the statement it is at and what it has read
    noteCopy,   \* the client's copy of each note ...
    pageCopy,   \* ... and of each page, with the ETag they came with
    answer      \* the latest answer, until the table or the clock moves on

table == << rows, nextId >>
copies == << noteCopy, pageCopy >>
vars == << now, table, req, copies, answer >>

Idle == [at |-> "idle"]
Creating == [at : {"insert"}, id : Id, stamp : Nat] \cup [at : {"fetch"}, id : Id]
Listing == [at : {"select"}, param : Param, total : Nat, drift : Nat]

TypeOK ==
    /\ now \in 0 .. Horizon /\ nextId \in 1 .. LastId + 1
    /\ \A i \in Id : rows[i] # NoNote => rows[i] \in Row /\ rows[i].id = i
    /\ \A r \in Request : req[r] = Idle \/ req[r] \in Creating \/ req[r] \in Listing
    /\ \A i \in Kept : noteCopy[i] # NoCopy => noteCopy[i] \in Row
    /\ \A p \in Param : pageCopy[p] # NoCopy => Len(pageCopy[p]) <= p.size

Init ==
    /\ now = 0
    /\ rows = [i \in Id |-> NoNote] /\ nextId = 1
    /\ req = [r \in Request |-> Idle]
    /\ noteCopy = [i \in Kept |-> NoCopy] /\ pageCopy = [p \in Param |-> NoCopy]
    /\ answer = NoAnswer

Live == {i \in Id : rows[i] # NoNote /\ ~ rows[i].deleted}

-----------------------------------------------------------------------------
(* The ETags. *)

\* title + "|" + body
Joined(t) == t.title \o << "|" >> \o t.body

\* Texts may have the same digest: if they differ only in where the title
\* ends, or by chance.
ASSUME DigestAssumption == \A t \in Text : Joined(t) \in DOMAIN Digest

\* Mutant of NoteETag: without the hash.
StampETag(n) == << n.id, n.updated >>

NoteETag(n) == << n.id, n.updated, Digest[Joined(n.text)] >>

LargestId(items) == FoldLeft(LAMBDA m, n : IF n.id > m THEN n.id ELSE m, 0, items)

\* Mutant of CollETag: without the largest id.
CountETag(p, items) == << Len(items), p >>

CollETag(p, items) == << LargestId(items), Len(items), p >>

-----------------------------------------------------------------------------
(* The statements of other requests: PUT and DELETE, see NoteWrites. *)

\* A write to the table: no answer is the latest any more, and the COUNTs of
\* requests under way fall behind (counted up to the number of ids: a total
\* cannot be further off).
Written(reqs) ==
    /\ answer' = NoAnswer
    /\ req' = [r \in Request |->
                  IF reqs[r].at = "select" /\ reqs[r].drift < LastId
                  THEN [reqs[r] EXCEPT !.drift = @ + 1] ELSE reqs[r]]

\* UPDATE: CURRENT_TIMESTAMP is when the statement began, perhaps before it
\* got the row's lock, and is set only if title or body changes.
Update(i, t, began) ==
    /\ i \in Live /\ rows[i].text # t
    /\ rows' = [rows EXCEPT ![i].text = t, ![i].updated = began]
    /\ Written(req)
    /\ UNCHANGED << now, nextId, copies >>

Delete(i) ==
    /\ i \in Live
    /\ rows' = [rows EXCEPT ![i].deleted = TRUE, ![i].updated = now]
    /\ Written(req)
    /\ UNCHANGED << now, nextId, copies >>

Tick ==
    /\ now < Horizon
    /\ now' = now + 1
    /\ answer' = NoAnswer
    /\ UNCHANGED << table, req, copies >>

-----------------------------------------------------------------------------
(* Notes.create. *)

\* INSERT, from its start: an id and a time.  Other users take ids as well.
BeginCreate(r) ==
    /\ req[r] = Idle
    /\ \E i \in Id :
          /\ nextId <= i /\ nextId' = i + 1
          /\ req' = [req EXCEPT ![r] = [at |-> "insert", id |-> i, stamp |-> now]]
    /\ UNCHANGED << now, rows, copies, answer >>

\* Its row is there.
Insert(r, t) ==
    LET i == req[r].id IN
    /\ req[r].at = "insert"
    /\ rows' = [rows EXCEPT ![i] =
                   [id |-> i, text |-> t, created |-> req[r].stamp, updated |-> req[r].stamp,
                    deleted |-> FALSE]]
    /\ Written([req EXCEPT ![r] = [at |-> "fetch", id |-> i]])
    /\ UNCHANGED << now, nextId, copies >>

\* Mutant of InsertId: the newest note, instead of the connection's own id.
NewestId(r) == CHOOSE i \in Id : rows[i] # NoNote /\ \A j \in Id : rows[j] # NoNote => j <= i

\* LastInsertId.
InsertId(r) == req[r].id

\* The SELECT after it.  A note that is gone already makes a 500.
Fetch(r) ==
    LET i == InsertId(r) IN
    /\ req[r].at = "fetch"
    /\ IF i \in Live
       THEN /\ noteCopy' = [noteCopy EXCEPT ![i] = rows[i]]
            /\ answer' = [what |-> "created", id |-> i]
       ELSE /\ answer' = [what |-> "error"]
            /\ UNCHANGED noteCopy
    /\ req' = [req EXCEPT ![r] = Idle]
    /\ UNCHANGED << now, table, pageCopy >>

-----------------------------------------------------------------------------
(* Notes.get: one SELECT, and the answer from what it read. *)

Get(i, conditional) ==
    /\ conditional => noteCopy[i] # NoCopy
    /\ \/ \* no row, or any other error: 404 too
          /\ answer' = [what |-> "error"]
          /\ UNCHANGED noteCopy
       \/ /\ i \in Live
          /\ IF conditional /\ NoteETag(noteCopy[i]) = NoteETag(rows[i])
             THEN /\ answer' = [what |-> "note304", id |-> i]
                  /\ UNCHANGED noteCopy
             ELSE /\ answer' = [what |-> "note200", id |-> i]
                  /\ noteCopy' = [noteCopy EXCEPT ![i] = rows[i]]
    /\ UNCHANGED << now, table, req, pageCopy >>

-----------------------------------------------------------------------------
(* Notes.list: COUNT, then SELECT. *)

\* The WHERE clause as the mutant CountAll has it: without deleted_at.
MatchingAll(query) == {i \in Id : rows[i] # NoNote /\ rows[i].text \in Like[query]}

\* The WHERE clause.
Matching(query) == {i \in Live : rows[i].text \in Like[query]}

\* Mutant of Before: notes of the same title come in any order.
BeforeByTitle(a, b, sort) ==
    CASE sort = "newest"  -> a.id > b.id
      [] sort = "oldest"  -> a.created <= b.created
      [] sort = "title"   -> TitleRank[a.text] <= TitleRank[b.text]
      [] sort = "updated" -> a.updated >= b.updated

\* ORDER BY.  Notes of the same second may come in any order.
Before(a, b, sort) ==
    CASE sort = "newest"  -> a.id > b.id
      [] sort = "oldest"  -> a.created <= b.created
      [] sort = "title"   -> \/ TitleRank[a.text] < TitleRank[b.text]
                             \/ TitleRank[a.text] = TitleRank[b.text] /\ a.id > b.id
      [] sort = "updated" -> a.updated >= b.updated

Ordered(query, sort) ==
    {s \in SetToSeqs({rows[i] : i \in Matching(query)}) :
        \A k \in 1 .. Len(s) - 1 : Before(s[k], s[k + 1], sort)}

\* Mutant of Window: no LIMIT.
WindowToEnd(s, p) == SubSeq(s, (p.page - 1) * p.size + 1, Len(s))

\* LIMIT size OFFSET (page-1)*size
Window(s, p) ==
    SubSeq(s, (p.page - 1) * p.size + 1, IF p.page * p.size < Len(s) THEN p.page * p.size ELSE Len(s))

\* Mutant of Count: it counts the deleted notes as well.
CountAll(r, p) ==
    /\ req[r] = Idle
    /\ req' = [req EXCEPT ![r] = [at |-> "select", param |-> p,
                                  total |-> Cardinality(MatchingAll(p.query)), drift |-> 0]]
    /\ UNCHANGED << now, table, copies, answer >>

Count(r, p) ==
    /\ req[r] = Idle
    /\ req' = [req EXCEPT ![r] = [at |-> "select", param |-> p,
                                  total |-> Cardinality(Matching(p.query)), drift |-> 0]]
    /\ UNCHANGED << now, table, copies, answer >>

Select(r, conditional) ==
    LET p == req[r].param IN
    /\ req[r].at = "select"
    /\ conditional => pageCopy[p] # NoCopy
    /\ \E s \in Ordered(p.query, p.sort) :
          LET items == Window(s, p) IN
          IF conditional /\ CollETag(p, pageCopy[p]) = CollETag(p, items)
          THEN /\ answer' = [what |-> "page304", param |-> p, items |-> items]
               /\ UNCHANGED pageCopy
          ELSE /\ answer' = [what |-> "page200", all |-> Len(s), total |-> req[r].total,
                             drift |-> req[r].drift]
               /\ pageCopy' = [pageCopy EXCEPT ![p] = items]
    /\ req' = [req EXCEPT ![r] = Idle]
    /\ UNCHANGED << now, table, noteCopy >>

\* A statement fails or the server crashes; what was committed stays.
Fail(r) ==
    /\ req[r] # Idle
    /\ req' = [req EXCEPT ![r] = Idle]
    /\ answer' = [what |-> "error"]
    /\ UNCHANGED << now, table, copies >>

-----------------------------------------------------------------------------
Next ==
    \/ \E i \in Id, t \in Text, began \in {now, now - 1} \cap Nat : Update(i, t, began)
    \/ \E i \in Id : Delete(i)
    \/ \E i \in Kept, conditional \in BOOLEAN : Get(i, conditional)
    \/ \E r \in Request :
          \/ BeginCreate(r) \/ (\E t \in Text : Insert(r, t)) \/ Fetch(r)
          \/ \E p \in Param : Count(r, p)
          \/ \E conditional \in BOOLEAN : Select(r, conditional)
          \/ Fail(r)
    \/ Tick

Spec == Init /\ [][Next]_vars

-----------------------------------------------------------------------------
\* A 304 for a note means that the client's copy is the stored note, although
\* timestamps have seconds only, several writes fit into one, and a write may
\* be stamped with an earlier second than the one before it.  What it may hide
\* is a change of the text that MySQL has stamped with the very second of the
\* copy, to a text with the same four bytes of hash; nothing else may be stale.
NoteNotModified ==
    answer.what = "note304" =>
        LET copy == noteCopy[answer.id]  row == rows[answer.id] IN
        \/ copy = row
        \/ /\ [copy EXCEPT !.text = row.text] = row
           /\ Digest[Joined(copy.text)] = Digest[Joined(row.text)]

\* A 304 for the first page of the newest notes means at least that no newer
\* note is missing from the client's copy.
NewestKnown ==
    answer.what = "page304" /\ answer.param.page = 1 /\ answer.param.sort = "newest" =>
        LET copy == pageCopy[answer.param] IN
        /\ Len(copy) = Len(answer.items)
        /\ copy # << >> => copy[1].id = answer.items[1].id

\* A create is answered with its own note, also when others are stored between
\* its INSERT and its SELECT: no other create under way, whose INSERT may have
\* begun earlier or later, has that id or will be answered with it.
CreatedOwn ==
    answer.what = "created" =>
        \A r \in Request : req[r].at \in {"insert", "fetch"} => req[r].id # answer.id

\* The total of a page is off by no more than the writes since its COUNT.
TotalDrift ==
    answer.what = "page200" =>
        /\ answer.total - answer.all <= answer.drift
        /\ answer.all - answer.total <= answer.drift

\* Sorted by id or by title, a table has one order only, so that the pages a
\* client goes through fit together while nothing is written.  Sorted by time
\* a note may come twice and another one not at all.
PagesFit ==
    \A query \in Query, sort \in {"newest", "title"} :
        \E s \in Ordered(query, sort) :
            /\ Ordered(query, sort) = {s}
            /\ ToSet(s) = {rows[i] : i \in Matching(query)}

-----------------------------------------------------------------------------
\* internal/openapi/openapi.yaml:101 of GET /notes: "304: Not Modified".  The
\* page the client keeps is the page it would have got.
PageNotModified == answer.what = "page304" => pageCopy[answer.param] = answer.items
=============================================================================
