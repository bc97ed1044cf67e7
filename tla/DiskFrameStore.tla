--------------------------- MODULE DiskFrameStore ---------------------------
(***************************************************************************)
(* The replay store that spills payloads to a file (ord-core               *)
(* disk_store.rs).  The index is the queue of FrameQueue.tla; payloads are *)
(* appended to the file in order of arrival, and an incremental compaction *)
(* copies the live ones to a second file, a budget of bytes at each push,  *)
(* and swaps the files when all are there.                                 *)
(*                                                                         *)
(* A file is a sequence of cells, one per byte; a cell holds the id of the *)
(* frame whose payload it belongs to, so that a payload in the wrong place *)
(* can be told.  Any write, read or rename may fail.                       *)
(***************************************************************************)
EXTENDS FrameQueue

CONSTANTS
    MinDead,    \* compact_min_dead_bytes
    Budget,     \* COMPACT_BUDGET_BYTES
    MaxRead     \* MAX_COALESCED_READ

ASSUME BudgetAssumption == MinDead \in Nat /\ Budget \in Nat \ {0} /\ MaxRead \in Nat

VARIABLES
    disk,           \* the index, the files and their accounts
    capacity_ticks, \* DiskFrameStore::capacity_ticks
    max_pts,        \* DiskFrameStore::max_pts
    arrived,        \* how many frames the encoder has delivered
    received        \* every frame stored since the last clear (history)

vars == <<disk, capacity_ticks, max_pts, arrived, received>>

-----------------------------------------------------------------------------
(* Files and entries.                                                      *)

NoOffset == -1

NoCompaction == [on |-> FALSE, cells |-> <<>>]

\* DiskFrameStore::create.
Fresh == [index |-> <<>>,        \* the entries, in presentation order
          file |-> <<>>,         \* the spill file
          write_offset |-> 0,
          live_bytes |-> 0,
          dead_bytes |-> 0,
          compaction |-> NoCompaction,
          linked |-> TRUE]       \* the path leads to this file

Payload(f) == [k \in 1..Size(f) |-> f.id]

\* write_all_at; a gap reads as zeros.
WriteAt(file, offset, cells) ==
    LET end == offset + Len(cells)
    IN  [k \in 1..(IF end > Len(file) THEN end ELSE Len(file)) |->
            IF k > offset /\ k <= end THEN cells[k - offset]
            ELSE IF k <= Len(file) THEN file[k] ELSE 0]

\* read_exact_at: what the file has there, shorter at its end.
ReadAt(file, offset, len) == SubSeq(file, offset + 1,
    IF offset + len <= Len(file) THEN offset + len ELSE Len(file))

Entry(f, offset) == [id |-> f.id, pts |-> f.pts, key |-> f.key,
                     offset |-> offset, new_offset |-> NoOffset]

Moved(e) ==
    IF e.new_offset = NoOffset THEN e
    ELSE [e EXCEPT !.offset = e.new_offset, !.new_offset = NoOffset]

FrameOf(e) == [id |-> e.id, pts |-> e.pts, key |-> e.key]

ForgetCopies(q) == [i \in DOMAIN q |-> [q[i] EXCEPT !.new_offset = NoOffset]]

\* Entry i is at a place of the second file too.
CopiedTo(q, i, new_offset) ==
    [k \in DOMAIN q |-> IF k = i THEN [q[i] EXCEPT !.new_offset = new_offset] ELSE q[k]]

-----------------------------------------------------------------------------
(* Reading a window back.                                                  *)

\* Entries i..j lie one after the other in the file and fit one read.
OneRead(q, i, j) ==
    /\ \A k \in (i + 1)..j : q[k].offset = q[k - 1].offset + Size(q[k - 1])
    /\ j > i => TotalSize(SubSeq(q, i, j)) <= MaxRead

\* The longest run that starts with entry i, and the bytes before entry k in it.
LastOfRun(q, i) == Max({j \in i..Len(q) : OneRead(q, i, j)})
BytesTo(q, i, k) == TotalSize(SubSeq(q, i, k - 1))

\* One read for the run of entry i, cut into payloads, before what is from the
\* next run on; a read that fails ends the window.
RunFrom(q, file, from, i) ==
    LET j == LastOfRun(q, i)
        buf == ReadAt(file, q[i].offset, BytesTo(q, i, j + 1))
    IN  IF Len(buf) < BytesTo(q, i, j + 1) THEN <<>>
        ELSE [n \in 1..(j - i + 1) |->
                 SubSeq(buf, BytesTo(q, i, i + n - 1) + 1, BytesTo(q, i, i + n))]
             \o from[j + 1]

\* window: the payloads of count entries from start.
Window(d, start, count) ==
    LET q == SubSeq(d.index, start, start + count - 1)
        from[i \in 1..(Len(q) + 1)] ==
            IF i > Len(q) THEN <<>> ELSE RunFrom(q, d.file, from, i)
    IN  from[1]

-----------------------------------------------------------------------------
(* The steps of a push.                                                    *)

Spill(d, f) ==
    [d EXCEPT !.file = WriteAt(@, d.write_offset, Payload(f)),
              !.index = InsertTsOrdered(@, Entry(f, d.write_offset)),
              !.write_offset = @ + Size(f),
              !.live_bytes = @ + Size(f)]

\* A fault: evicted bytes are not remembered.
EvictForgetting(d, cutoff) ==
    LET kept == EvictBefore(d.index, cutoff)
    IN  [d EXCEPT !.index = kept, !.live_bytes = TotalSize(kept)]

Evict(d, cutoff) ==
    LET kept == EvictBefore(d.index, cutoff)
        gone == TotalSize(d.index) - TotalSize(kept)
    IN  [d EXCEPT !.index = kept,
                  !.live_bytes = @ - gone,
                  !.dead_bytes = @ + gone]

\* abort_compaction, and what is left of a compaction whose rename failed.
AbortCompaction(d) ==
    [d EXCEPT !.compaction = NoCompaction, !.index = ForgetCopies(@)]

\* The second file, complete, is renamed to the path of the first.
SwapFiles(d) ==
    LET left == Len(d.compaction.cells) - d.live_bytes
    IN  [d EXCEPT !.file = d.compaction.cells,
                  !.index = [i \in DOMAIN d.index |-> Moved(d.index[i])],
                  !.write_offset = Len(d.compaction.cells),
                  !.dead_bytes = IF left > 0 THEN left ELSE 0,
                  !.linked = TRUE,
                  !.compaction = NoCompaction]

\* A fault: what does not fit the budget is not remembered.
CopyEntryForgetting(s, file, i) ==
    LET e == s.index[i]
    IN  IF e.new_offset # NoOffset \/ s.left < Size(e) THEN s
        ELSE [s EXCEPT !.index = CopiedTo(s.index, i, Len(s.cells)),
                       !.cells = @ \o ReadAt(file, e.offset, Size(e)),
                       !.left = @ - Size(e)]

\* One entry: copied to the end of the second file unless it was before; the
\* first that does not fit the budget ends the slice, as a failed read does.
CopyEntry(s, file, i) ==
    LET e == s.index[i]
        payload == ReadAt(file, e.offset, Size(e))
    IN  IF s.ended # "no" \/ e.new_offset # NoOffset THEN s
        ELSE IF s.left < Size(e) THEN [s EXCEPT !.ended = "remaining"]
        ELSE IF Len(payload) < Size(e) THEN [s EXCEPT !.ended = "failed"]
        ELSE [s EXCEPT !.index = CopiedTo(s.index, i, Len(s.cells)),
                       !.cells = @ \o payload,
                       !.left = @ - Size(e)]

\* The entries a step visits, in the order of the index.
CopySlice(index, cells, file) ==
    LET after[i \in 0..Len(index)] ==
            IF i = 0
            THEN [index |-> index, cells |-> cells, left |-> Budget, ended |-> "no"]
            ELSE CopyEntry(after[i - 1], file, i)
    IN  after[Len(index)]

\* One slice of the migration; the slice that ends it swaps the files.
CompactStep(d, io) ==
    LET s == CopySlice(IF d.compaction.on THEN d.index ELSE ForgetCopies(d.index),
                       d.compaction.cells, d.file)
        copied == [d EXCEPT !.index = s.index,
                            !.compaction = [on |-> TRUE, cells |-> s.cells]]
    IN  IF io = "copy_fails" \/ s.ended = "failed" THEN AbortCompaction(d)
        ELSE IF s.ended = "remaining" THEN copied
        ELSE IF io = "rename_fails" THEN AbortCompaction(copied)
        ELSE SwapFiles(copied)

\* maybe_compact: a compaction runs on, or starts once more than half of the
\* file is dead.
MaybeCompact(d, io) ==
    IF d.compaction.on \/ (d.dead_bytes >= MinDead /\ d.dead_bytes * 2 > d.write_offset)
    THEN CompactStep(d, io) ELSE d

-----------------------------------------------------------------------------

Init ==
    /\ disk = Fresh
    /\ \E c \in Capacities : capacity_ticks = c * TicksPerSec
    /\ max_pts = NoPts
    /\ arrived = 0
    /\ received = {}

Push(pts, key, io) ==
    /\ arrived < MaxArrivals
    /\ InOrder(received, pts)
    /\ LET f == [id |-> arrived + 1, pts |-> pts, key |-> key]
           newest == Newest(max_pts, pts)
       IN  /\ max_pts' = newest
           /\ disk' = MaybeCompact(Evict(Spill(disk, f), newest - capacity_ticks), io)
           /\ received' = received \cup {f}
    /\ arrived' = arrived + 1
    /\ UNCHANGED capacity_ticks

\* The spill write fails, part of it done: the frame is dropped.
WriteFails(key) ==
    /\ arrived < MaxArrivals
    /\ \E n \in 0..(Size([key |-> key]) - 1) :
          disk' = [disk EXCEPT !.file =
                      WriteAt(@, disk.write_offset, [k \in 1..n |-> arrived + 1])]
    /\ arrived' = arrived + 1
    /\ UNCHANGED <<capacity_ticks, max_pts, received>>

SetCapacity(c) ==
    /\ capacity_ticks' = c * TicksPerSec
    /\ disk' = IF max_pts = NoPts THEN disk ELSE Evict(disk, max_pts - c * TicksPerSec)
    /\ UNCHANGED <<max_pts, arrived, received>>

\* A fault: the eviction anchor survives.
ClearKeepsAnchor ==
    /\ \E file \in {<<>>, disk.file} :
          disk' = [Fresh EXCEPT !.file = file, !.linked = disk.linked]
    /\ received' = {}
    /\ UNCHANGED <<capacity_ticks, arrived, max_pts>>

\* The file may fail to be truncated.
Clear ==
    /\ \E file \in {<<>>, disk.file} :
          disk' = [Fresh EXCEPT !.file = file, !.linked = disk.linked]
    /\ max_pts' = NoPts
    /\ received' = {}
    /\ UNCHANGED <<capacity_ticks, arrived>>

Next ==
    \/ \E pts \in Pts, key \in BOOLEAN, io \in {"ok", "copy_fails", "rename_fails"} :
          Push(pts, key, io)
    \/ \E key \in BOOLEAN : WriteFails(key)
    \/ \E c \in Capacities : SetCapacity(c)
    \/ Clear

Spec == Init /\ [][Next]_vars

-----------------------------------------------------------------------------

Held == {FrameOf(disk.index[i]) : i \in DOMAIN disk.index}

TypeOK ==
    /\ disk.index \in Seq([id : Nat, pts : Pts, key : BOOLEAN,
                           offset : Nat, new_offset : Nat \cup {NoOffset}])
    /\ disk.write_offset \in Nat
    /\ disk.live_bytes \in Nat
    /\ disk.dead_bytes \in Nat
    /\ disk.compaction.on \in BOOLEAN
    /\ capacity_ticks \in {c * TicksPerSec : c \in Capacities}
    /\ max_pts \in Pts \cup {NoPts}
    /\ arrived \in 0..MaxArrivals
    /\ received \in SUBSET Frame

\* A window read back, wherever it starts, is its frames' own payloads, all of
\* them: across compactions, failed ones too, late frames, failed writes and
\* clears, and however the reads are joined.
PayloadsIntact ==
    \A start \in DOMAIN disk.index :
        LET count == Len(disk.index) + 1 - start
        IN  Window(disk, start, count) =
                [n \in 1..count |-> Payload(disk.index[start + n - 1])]

\* What a compaction has copied it will find again after the swap; without a
\* compaction no entry believes it was copied.
CopiesIntact ==
    \A i \in DOMAIN disk.index :
        LET e == disk.index[i]
        IN  e.new_offset # NoOffset =>
                /\ disk.compaction.on
                /\ ReadAt(disk.compaction.cells, e.new_offset, Size(e)) = Payload(e)

\* The footage is there, in the file in use and in the one to come.
FootageIntact == PayloadsIntact /\ CopiesIntact

\* The accounts that decide when to compact are exact: live bytes are those
\* of the index, and every other byte before the end is dead.
AccountsExact ==
    /\ disk.live_bytes = TotalSize(disk.index)
    /\ disk.live_bytes + disk.dead_bytes = disk.write_offset

\* The spill file implements the same store as the ring, except that a frame
\* whose write fails is lost: order, window, gaps and clears are the same.
Store == INSTANCE FrameStore WITH held <- Held

ImplementsFrameStore == Store!Spec

=============================================================================
