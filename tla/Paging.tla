------------------------------- MODULE Paging -------------------------------
(* One caller walking the pages of a listing (readable_page over            *)
(* StorageAdapter.query) or of a search, while others write to the store.   *)
(* A request of the listing scans the store batch by batch; when several    *)
(* processes serve one store, their writes fall between two batches. A      *)
(* search ranks and cuts its page in one query.                             *)
(*                                                                          *)
(* A cell is what the walk's filter and the access rules make of it:        *)
(*   shown       it matches owner, type and status, and the caller reads it *)
(*   unreadable  it matches, and the caller may not read it                 *)
(*   filtered    it does not match (another owner, archived, deleted ...)   *)
EXTENDS Integers, Sequences, FiniteSets, SequencesExt

CONSTANTS
    CellId,
    Limit,        \* the page size the caller asks for
    ScanBatch,    \* _SCAN_BATCH
    ScanCeiling,  \* SCAN_CEILING
    SharedStore,  \* other processes write while a listing is scanned
    Reorders,     \* a write may move its row (a table read without ORDER BY)
    MaxChanges    \* bound on the writes of others during the walk

ASSUME PagingAssumption ==
    /\ {Limit, ScanBatch, ScanCeiling} \subseteq Nat \ {0}
    /\ {SharedStore, Reorders} \subseteq BOOLEAN
    /\ MaxChanges \in Nat
    /\ IsFiniteSet(CellId)

View == {"shown", "unreadable", "filtered"}

VARIABLES
    rows,       \* the order the store, or the ranking, lists the cells in
    view,       \* what the walk makes of each cell
    kind,       \* "list" or "search"
    offset,     \* the offset of the page being asked for
    scan,       \* the locals of readable_page
    returned,   \* the cells of the pages answered so far
    more,       \* has_more of the last page
    pc,         \* "scanning" a page, "answered", or "done"
    steady,     \* history: the cells shown all through the walk
    departures, \* history: changes that took a cell from what the caller reads
    arrivals,   \* history: changes that put one there; one made while a page
                \* is scanned is both
    quiet       \* history: nothing was written since the page was asked for

server == <<offset, scan, returned, more, pc>>
history == <<steady, departures, arrivals>>
vars == <<rows, view, kind, server, history, quiet>>

-----------------------------------------------------------------------------
(* The store and its windows.                                               *)

\* seq[first : first + count] of Python, first counted from 0.
Window(seq, first, count) ==
    SubSeq(seq, first + 1, IF first + count < Len(seq) THEN first + count ELSE Len(seq))

\* The cells of seq that are in S, in their order.
Only(seq, S) ==
    LET only[n \in 0..Len(seq)] ==
          IF n = 0 THEN <<>>
          ELSE IF seq[n] \in S THEN Append(only[n - 1], seq[n]) ELSE only[n - 1]
    IN only[Len(seq)]

Matching == {c \in CellId : view[c] # "filtered"}
Shown == {c \in CellId : view[c] = "shown"}

\* StorageAdapter.query: the filter, then the window.
Query(count, first) == Window(Only(rows, Matching), first, count)

\* StorageAdapter.search: the filter and the access rules, the ranking (the
\* order of rows), then the window.
Search(count, first) == Window(Only(rows, Shown), first, count)

-----------------------------------------------------------------------------
(* readable_page.                                                           *)

NewScan == [collected |-> <<>>, skipped |-> 0, examined |-> 0, store_offset |-> 0]

\* Fault: the next batch starts after the cells collected, not examined.
ExaminedByCollected(s, batch) ==
    LET readable == Only(batch, Shown)
        toSkip == IF offset - s.skipped < Len(readable) THEN offset - s.skipped ELSE Len(readable)
    IN [collected    |-> s.collected \o Window(readable, toSkip, Len(readable)),
        skipped      |-> s.skipped + toSkip,
        examined     |-> s.examined + Len(batch),
        store_offset |-> s.store_offset + Len(readable)]

\* One batch examined: the offset is spent on readable cells, the readable
\* cells after it are collected.
Examined(s, batch) ==
    LET readable == Only(batch, Shown)
        toSkip == IF offset - s.skipped < Len(readable) THEN offset - s.skipped ELSE Len(readable)
    IN [collected    |-> s.collected \o Window(readable, toSkip, Len(readable)),
        skipped      |-> s.skipped + toSkip,
        examined     |-> s.examined + Len(batch),
        store_offset |-> s.store_offset + Len(batch)]

\* The page is answered, with the scan as it ended.
Answer(s, page, has_more) ==
    /\ scan' = s
    /\ returned' = returned \o page
    /\ more' = has_more
    /\ pc' = "answered"
    /\ UNCHANGED offset

\* Fault: the cell past the page is returned with it.
EndOfBatchUncut(s, batch) ==
    IF Len(s.collected) > Limit THEN Answer(s, s.collected, TRUE)
    ELSE IF Len(batch) < ScanBatch \/ s.examined >= ScanCeiling
    THEN Answer(s, s.collected, FALSE)
    ELSE scan' = s /\ UNCHANGED <<offset, returned, more, pc>>

\* Fault: a full page is taken for one with more behind it.
EndOfBatchFullPage(s, batch) ==
    IF Len(s.collected) >= Limit THEN Answer(s, Window(s.collected, 0, Limit), TRUE)
    ELSE IF Len(batch) < ScanBatch \/ s.examined >= ScanCeiling
    THEN Answer(s, s.collected, FALSE)
    ELSE scan' = s /\ UNCHANGED <<offset, returned, more, pc>>

\* After a batch: the page is full and more follow, the store or the ceiling
\* is reached, or the next batch is read.
EndOfBatch(s, batch) ==
    IF Len(s.collected) > Limit THEN Answer(s, Window(s.collected, 0, Limit), TRUE)
    ELSE IF Len(batch) < ScanBatch \/ s.examined >= ScanCeiling
    THEN Answer(s, s.collected, FALSE)
    ELSE scan' = s /\ UNCHANGED <<offset, returned, more, pc>>

ScanStep ==
    LET batch == Query(ScanBatch, scan.store_offset)
        s == Examined(scan, batch)
    IN /\ kind = "list" /\ pc = "scanning"
       /\ EndOfBatch(s, batch)
       /\ UNCHANGED <<rows, view, kind, history, quiet>>

\* search_memories: one cell past the page tells whether more follow.
SearchStep ==
    LET cells == Search(Limit + 1, offset) IN
    /\ kind = "search" /\ pc = "scanning"
    /\ Answer(scan, Window(cells, 0, Limit), Len(cells) > Limit)
    /\ UNCHANGED <<rows, view, kind, history, quiet>>

\* Fault: the next page starts after the cell that told has_more.
NextPageSkipping ==
    /\ pc = "answered"
    /\ IF more
       THEN /\ offset' = offset + Limit + 1 /\ scan' = NewScan /\ pc' = "scanning"
            /\ quiet' = TRUE
            /\ UNCHANGED <<returned, more>>
       ELSE pc' = "done" /\ UNCHANGED <<offset, scan, returned, more, quiet>>
    /\ UNCHANGED <<rows, view, kind, history>>

\* The caller asks for the next page, or has the last one.
NextPage ==
    /\ pc = "answered"
    /\ IF more
       THEN /\ offset' = offset + Limit /\ scan' = NewScan /\ pc' = "scanning"
            /\ quiet' = TRUE
            /\ UNCHANGED <<returned, more>>
       ELSE pc' = "done" /\ UNCHANGED <<offset, scan, returned, more, quiet>>
    /\ UNCHANGED <<rows, view, kind, history>>

-----------------------------------------------------------------------------
(* The others.                                                              *)

\* What a write of others does: the cell c of view v goes to position i of
\* the order without it, or out of the store for i = 0.
Disturb(c, v, i) ==
    LET others == Only(rows, CellId \ {c})
        before == IF c \in ToSet(rows) THEN view[c] ELSE "filtered"
        after == IF i = 0 THEN "filtered" ELSE v
        moved == i # 0 /\ c \in ToSet(rows) /\ rows # InsertAt(others, i, c)
        midway == pc = "scanning" /\ scan # NewScan
        shifts(v1) == IF midway \/ v1 = "shown" THEN 1 ELSE 0
    IN /\ pc # "done"
       /\ midway => SharedStore
       /\ departures + arrivals < MaxChanges
       /\ rows' = IF i = 0 THEN others ELSE InsertAt(others, i, c)
       /\ view' = [view EXCEPT ![c] = after]
       /\ <<rows', view'>> # <<rows, view>>
       /\ steady' = IF after = "shown" THEN steady ELSE steady \ {c}
       /\ departures' = departures + (IF moved \/ before # after THEN shifts(before) ELSE 0)
       /\ arrivals' = arrivals + (IF moved \/ before # after THEN shifts(after) ELSE 0)
       /\ quiet' = FALSE
       /\ UNCHANGED <<kind, server>>

PositionOf(c) == CHOOSE i \in DOMAIN rows : rows[i] = c

\* A status, scoring or policy change: what the walk makes of c changes.
Rewrite(c) ==
    /\ c \in ToSet(rows)
    /\ \E v \in View : Disturb(c, v, PositionOf(c))

\* A write that moves the row, or a read that changes the cell's rank.
Reorder(c) ==
    /\ Reorders \/ kind = "search"
    /\ c \in ToSet(rows)
    /\ \E i \in DOMAIN rows : Disturb(c, view[c], i)

\* A cell is created; only a table without order puts it before others.
Insert(c) ==
    /\ c \notin ToSet(rows)
    /\ \E v \in View, i \in 1..(Len(rows) + 1) :
          /\ i = Len(rows) + 1 \/ Reorders \/ kind = "search"
          /\ Disturb(c, v, i)

Purge(c) ==
    /\ c \in ToSet(rows)
    /\ Disturb(c, view[c], 0)

-----------------------------------------------------------------------------
Init ==
    /\ kind \in {"list", "search"}
    /\ rows \in {r \in SeqOf(CellId, Cardinality(CellId)) : IsInjective(r)}
    /\ view \in [CellId -> View]
    /\ \A c \in CellId \ ToSet(rows) : view[c] = "filtered"
    /\ offset = 0 /\ scan = NewScan /\ returned = <<>> /\ more = FALSE /\ pc = "scanning"
    /\ steady = ToSet(rows) \cap Shown
    /\ departures = 0 /\ arrivals = 0 /\ quiet = TRUE

Next ==
    \/ ScanStep
    \/ SearchStep
    \/ NextPage
    \/ \E c \in CellId : Rewrite(c) \/ Reorder(c) \/ Insert(c) \/ Purge(c)

Spec == Init /\ [][Next]_vars

-----------------------------------------------------------------------------
(* Properties.                                                              *)

\* The locals stay in their ranges: a request examines at most the ceiling
\* and the batch that reaches it, spends no more than its offset, collects
\* nothing before the offset is spent, and no page exceeds its limit.
TypeOK ==
    /\ IsInjective(rows) /\ ToSet(rows) \subseteq CellId
    /\ view \in [CellId -> View]
    /\ pc \in {"scanning", "answered", "done"} /\ more \in BOOLEAN /\ quiet \in BOOLEAN
    /\ scan.examined < ScanCeiling + ScanBatch /\ scan.store_offset = scan.examined
    /\ scan.skipped \in 0..offset
    /\ scan.skipped < offset => scan.collected = <<>>
    /\ pc = "scanning" => Len(scan.collected) <= Limit
    /\ Len(returned) <= offset + Limit

\* A page answered while nothing was written is the window of what the caller
\* may read, and has_more tells whether more of it follows: for a search of
\* everything, for a listing of the whole batches within the scan ceiling.
PageIsWindow ==
    LET scanned == ((ScanCeiling + ScanBatch - 1) \div ScanBatch) * ScanBatch
        readable == IF kind = "search" THEN Only(rows, Shown)
                    ELSE Only(Query(scanned, 0), Shown)
        page == Window(readable, offset, Limit)
    IN pc = "answered" /\ quiet =>
          /\ more = (Len(readable) > offset + Limit)
          /\ IsSuffix(page, returned)

\* A walk that ends before the ceiling misses no more of the cells it could
\* see all along than readable cells left their place while it walked (or than
\* rows came and went while a page was being scanned): what is created or
\* revealed between two pages never makes it miss a cell.
MissedOnlyAsOthersLeft ==
    pc = "done" /\ (kind = "search" \/ scan.examined < ScanCeiling) =>
        Cardinality(steady \ ToSet(returned)) <= departures

\* It returns no more cells twice than readable cells took a place in the
\* listing (or than rows came and went while a page was being scanned).
RepeatedOnlyAsOthersCame ==
    Len(returned) - Cardinality(ToSet(returned)) <= arrivals
=============================================================================
