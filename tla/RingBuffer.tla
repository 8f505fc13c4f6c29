----------------------------- MODULE RingBuffer -----------------------------
(***************************************************************************)
(* The single-producer single-consumer block ring of                       *)
(* include/data_struct/ring_buffer.h and source/data_struct/               *)
(* ring_buffer.cpp.  A writer thread asks for a window of free blocks,     *)
(* fills it in place and commits; a reader thread asks for the first       *)
(* unread block, reads it in place and commits.  The two threads share     *)
(* only the two indices and the blocks.  Each side keeps a private         *)
(* "screenshot" of the other side's index and reloads it only when the     *)
(* screenshot does not satisfy the request, so it usually decides on stale *)
(* information.                                                            *)
(*                                                                         *)
(* Every operation of the class makes at most one access to the other      *)
(* side's atomic index, and that access (acquire load, release store) is   *)
(* its only interaction: one operation is one action.  Filling and reading *)
(* a block happen outside the class, between a get and a commit, and are   *)
(* actions of their own.                                                   *)
(***************************************************************************)
EXTENDS Integers

CONSTANTS
    BlockCnt,   \* block_cnt passed to init
    Vals,       \* what a block can contain
    MaxIdx      \* bound on writer_.idx_ (2^64 in the code)

ASSUME BlockCntAssumption == BlockCnt \in Nat \ {0}
ASSUME MaxIdxAssumption == MaxIdx \in Nat
ASSUME ValsAssumption == Vals # {}

VARIABLES
    writerIdx,      \* writer_.idx_
    readerShot,     \* writer_.reader_idx_screenshot_
    wInfo,          \* writer_.buf_info_: first block and block count
    readerIdx,      \* reader_.idx_
    writerShot,     \* reader_.writer_idx_screenshot_
    rInfo,          \* reader_.buf_info_
    data,           \* the blocks of data_
    wHold, filled,  \* writer client: holds a window; blocks of it filled
    rKnown,         \* reader client: unread elements it has been told of
    out             \* reader client: the value it read last

wVars == <<writerIdx, readerShot, wInfo, wHold, filled>>
rVars == <<readerIdx, writerShot, rInfo, rKnown, out>>
vars == <<wVars, rVars, data>>

-----------------------------------------------------------------------------
(* util::is_power_of_2 and util::roundup_power_of_two, for counts up to 2^30 *)
PowersOfTwo == {2^k : k \in 0..30}

roundup_power_of_two(n) ==
    CHOOSE p \in PowersOfTwo : p >= n /\ \A q \in PowersOfTwo : q >= n => p <= q

ASSUME RoundupAssumption == \E p \in PowersOfTwo : BlockCnt <= p

(* init: mask_ comes from the rounded count, data_ has only BlockCnt blocks *)
real_block_cnt ==
    IF BlockCnt \in PowersOfTwo THEN BlockCnt ELSE roundup_power_of_two(BlockCnt)

mask == real_block_cnt - 1

(* idx & mask_, where mask_ + 1 is a power of two *)
Slot(idx) == idx % (mask + 1)

Blocks == 0 .. BlockCnt - 1

Init ==
    /\ writerIdx = 0 /\ readerShot = 0 /\ wInfo = [iov |-> 0, cnt |-> 0]
    /\ readerIdx = 0 /\ writerShot = 0 /\ rInfo = [iov |-> 0, cnt |-> 0]
    /\ data \in [Blocks -> Vals]      \* not initialised
    /\ wHold = FALSE /\ filled = 0
    /\ rKnown = 0 /\ out \in Vals

-----------------------------------------------------------------------------
(* The writer. *)

(* Mutant of WriterCnt: the fullness test is off by one. *)
WriterCntPastFull(read_idx) ==
    LET idx_w == Slot(writerIdx)
        idx_r == Slot(read_idx)
    IN  IF writerIdx - read_idx <= BlockCnt
        THEN IF idx_w >= idx_r THEN BlockCnt - idx_w ELSE idx_r - idx_w
        ELSE 0

(* Mutant of WriterCnt: all free blocks, not only those up to the lap's end. *)
WriterCntAcrossLap(read_idx) ==
    IF writerIdx - read_idx < BlockCnt THEN BlockCnt - (writerIdx - read_idx) ELSE 0

(* internal_writer_get_buffer(read_idx): null when the count is 0, whatever  *)
(* address it has stored by then                                            *)
WriterCnt(read_idx) ==
    LET idx_w == Slot(writerIdx)
        idx_r == Slot(read_idx)
    IN  IF writerIdx - read_idx < BlockCnt
        THEN IF idx_w >= idx_r THEN BlockCnt - idx_w ELSE idx_r - idx_w
        ELSE 0

(* The client side of a get: it holds the window, or nothing. *)
WriterTake(read_idx) ==
    /\ wInfo' = IF WriterCnt(read_idx) > 0
                THEN [iov |-> Slot(writerIdx), cnt |-> WriterCnt(read_idx)]
                ELSE wInfo
    /\ wHold' = (WriterCnt(read_idx) > 0)
    /\ filled' = 0
    /\ UNCHANGED <<writerIdx, rVars, data>>

(* writer_get_buffer(): decides on the reader's index itself *)
WriterGetBuffer ==
    /\ WriterTake(readerIdx)
    /\ UNCHANGED readerShot

(* Mutant of WriterGetBufferN: the reader's index is not reloaded. *)
WriterGetBufferNStale(need_cnt) ==
    WriterTake(readerShot) /\ UNCHANGED readerShot

(* writer_get_buffer(need_cnt): decides on the screenshot while that is enough *)
WriterGetBufferN(need_cnt) ==
    LET cnt == WriterCnt(readerShot)
    IN  IF cnt > 0 /\ cnt >= need_cnt
        THEN WriterTake(readerShot) /\ UNCHANGED readerShot
        ELSE WriterTake(readerIdx) /\ readerShot' = readerIdx

(* The client fills the next block of its window. *)
WriterFill(v) ==
    /\ wHold /\ filled < wInfo.cnt
    /\ data' = [data EXCEPT ![wInfo.iov + filled] = v]
    /\ filled' = filled + 1
    /\ UNCHANGED <<writerIdx, readerShot, wInfo, wHold, rVars>>

(* writer_commit(done_cnt), for blocks the client has filled *)
WriterCommit(done_cnt) ==
    /\ wHold /\ done_cnt <= filled
    /\ writerIdx + done_cnt <= MaxIdx
    /\ writerIdx' = writerIdx + done_cnt
    /\ wHold' = FALSE /\ filled' = 0
    /\ UNCHANGED <<readerShot, wInfo, rVars, data>>

-----------------------------------------------------------------------------
(* The reader. *)

(* the count both internal_reader_get_buffer functions compute: 0 means null *)
ReaderCnt(write_idx, read_idx) ==
    LET idx_w == Slot(write_idx)
        idx_r == Slot(read_idx)
    IN  IF write_idx > read_idx
        THEN IF idx_w > idx_r THEN idx_w - idx_r ELSE BlockCnt - idx_r
        ELSE 0

(* internal_reader_get_buffer(write_idx, read_idx) sets iov_ and not iov_cnt_ *)
ReaderTake(write_idx) ==
    /\ rInfo' = IF write_idx > readerIdx
                THEN [rInfo EXCEPT !.iov = Slot(readerIdx)]
                ELSE rInfo
    /\ rKnown' = IF ReaderCnt(write_idx, readerIdx) > 0 THEN 1 ELSE 0
    /\ UNCHANGED <<readerIdx, out, wVars, data>>

(* reader_get_buffer() and empty() *)
ReaderGetBuffer ==
    /\ ReaderTake(writerIdx)
    /\ UNCHANGED writerShot

(* reader_get_buffer(need_cnt): compares need_cnt with the iov_cnt_ left there *)
ReaderGetBufferN(need_cnt) ==
    IF ReaderCnt(writerShot, readerIdx) > 0 /\ rInfo.cnt >= need_cnt
    THEN ReaderTake(writerShot) /\ UNCHANGED writerShot
    ELSE ReaderTake(writerIdx) /\ writerShot' = writerIdx

(* reader_get_buffer(buf_info_ptr, read_idx, ...): look ahead at read_idx.  *)
(* The overloads decide on the writer's index, on the screenshot or on one  *)
(* the caller keeps (write_idx); the one with need_cnt reloads its          *)
(* screenshot when that is not enough.  The caller's buffer_info is never   *)
(* filled, so the client learns nothing.                                    *)
ReaderPeek(read_idx, write_idx) ==
    LET cnt == ReaderCnt(write_idx, read_idx)
    IN  /\ read_idx >= readerIdx
        /\ rInfo' = IF cnt > 0 THEN [iov |-> Slot(read_idx), cnt |-> cnt] ELSE rInfo
        /\ \/ UNCHANGED writerShot
           \/ write_idx = writerIdx /\ writerShot' = writerIdx
        /\ rKnown' = 0
        /\ UNCHANGED <<readerIdx, out, wVars, data>>

(* reader_get_unread_cnt() *)
ReaderGetUnreadCnt ==
    /\ writerShot' = writerIdx
    /\ rKnown' = IF rKnown > 0 THEN writerIdx - readerIdx ELSE 0
    /\ UNCHANGED <<readerIdx, rInfo, out, wVars, data>>

(* The client reads the block it was given. *)
ReaderRead ==
    /\ rKnown > 0
    /\ out' = data[rInfo.iov]
    /\ UNCHANGED <<readerIdx, writerShot, rInfo, rKnown, wVars, data>>

(* reader_commit(done_cnt), for elements the client knows to be there *)
ReaderCommit(done_cnt) ==
    /\ done_cnt <= rKnown
    /\ readerIdx' = readerIdx + done_cnt
    /\ rKnown' = 0
    /\ UNCHANGED <<writerShot, rInfo, out, wVars, data>>

(* reader_reset_out(): drop whatever is unread *)
ReaderResetOut ==
    /\ readerIdx' = writerIdx
    /\ writerShot' = writerIdx
    /\ rKnown' = 0
    /\ UNCHANGED <<rInfo, out, wVars, data>>

(* Mutant of Reset: the screenshots are left as they are. *)
ResetIndicesOnly ==
    /\ ~wHold /\ rKnown = 0
    /\ writerIdx' = 0 /\ readerIdx' = 0
    /\ UNCHANGED <<readerShot, writerShot, wInfo, wHold, filled, rInfo, rKnown, out, data>>

(* reset(), called while neither client is inside the ring *)
Reset ==
    /\ ~wHold /\ rKnown = 0
    /\ writerIdx' = 0 /\ readerShot' = 0 /\ readerIdx' = 0 /\ writerShot' = 0
    /\ UNCHANGED <<wInfo, wHold, filled, rInfo, rKnown, out, data>>

Writer ==
    \/ WriterGetBuffer
    \/ \E n \in 1..BlockCnt : WriterGetBufferN(n) \/ WriterCommit(n)
    \/ \E v \in Vals : WriterFill(v)

Reader ==
    \/ ReaderGetBuffer
    \/ \E n \in 1..BlockCnt : ReaderGetBufferN(n) \/ ReaderCommit(n)
    \/ \E k \in 0..BlockCnt, w \in readerIdx..writerIdx : ReaderPeek(readerIdx + k, w)
    \/ ReaderGetUnreadCnt
    \/ ReaderRead
    \/ ReaderResetOut

Next == Writer \/ Reader \/ Reset

Spec == Init /\ [][Next]_vars

-----------------------------------------------------------------------------
Info == [iov : Nat, cnt : Nat]

(* The indices are naturals, the blocks hold values, the clients' counters  *)
(* are within what they were given.                                         *)
TypeOK ==
    /\ writerIdx \in 0..MaxIdx /\ readerShot \in 0..MaxIdx
    /\ readerIdx \in 0..MaxIdx /\ writerShot \in 0..MaxIdx
    /\ wInfo \in Info /\ rInfo \in Info
    /\ data \in [Blocks -> Vals]
    /\ wHold \in BOOLEAN /\ filled \in 0..BlockCnt
    /\ rKnown \in 0..BlockCnt /\ out \in Vals

Unread == readerIdx .. writerIdx - 1

(* The blocks the writer client may store into at this moment. *)
WindowBlocks ==
    IF wHold THEN wInfo.iov .. wInfo.iov + wInfo.cnt - 1 ELSE {}

(* The window internal_writer_get_buffer hands out, whichever stale         *)
(* screenshot it was computed from and however far the reader has moved     *)
(* since, lies inside data_ and holds no block of an unread element.        *)
WindowSafe ==
    /\ WindowBlocks \subseteq Blocks
    /\ \A i \in Unread : Slot(i) \notin WindowBlocks

(* A screenshot is never ahead of the index it is a copy of, so a decision  *)
(* taken on it errs towards "full" for the writer and towards "empty" for   *)
(* the reader.                                                              *)
ScreenshotsBehind ==
    /\ readerShot <= readerIdx
    /\ writerShot <= writerIdx

(* The block internal_reader_get_buffer points the reader at is the block   *)
(* of its first unread element for as long as it may read it.               *)
ReaderAtFirstUnread ==
    rKnown > 0 => /\ rInfo.iov = Slot(readerIdx)
                  /\ readerIdx + rKnown <= writerIdx

(* A get comes back empty-handed only when it must: writer_get_buffer gives *)
(* nothing only when every block is unread, reader_get_buffer only when     *)
(* none is.  A stale screenshot alone never makes an operation fail.  The   *)
(* one exception is a block count that is no power of two: init rounds      *)
(* mask_ and not the blocks, so the writer also gets nothing at the end of  *)
(* the first lap, whatever the reader has removed.                          *)
NullOnlyAtTheLimit ==
    [][/\ (\E n \in 1..BlockCnt : WriterGetBufferN(n)) /\ ~wHold' =>
             \/ writerIdx - readerIdx = BlockCnt
             \/ BlockCnt \notin PowersOfTwo /\ writerIdx = BlockCnt
       /\ (\E n \in 1..BlockCnt : ReaderGetBufferN(n)) /\ rKnown' = 0 =>
             writerIdx = readerIdx]_vars

(* A held window starts at the writer's slot, ends before data_ does and    *)
(* before the reader's lap does: the reader has only moved on since the     *)
(* index the window was computed from.                                      *)
WindowBounded ==
    wHold => /\ wInfo.iov = Slot(writerIdx)
             /\ wInfo.iov + wInfo.cnt <= BlockCnt
             /\ writerIdx + wInfo.cnt <= readerIdx + BlockCnt
             /\ filled <= wInfo.cnt

(* mask_ + 1 blocks exist only for a power of two; otherwise the indices     *)
(* stay in the first lap, where every slot below BlockCnt is a block.        *)
FirstLapOnly == BlockCnt \in PowersOfTwo \/ writerIdx <= BlockCnt

(* The two sides of the ring agree, whatever each knows of the other: the    *)
(* writer is at most one ring ahead, no screenshot is ahead of its index, a  *)
(* held window stays in the free part of one lap, the reader's block is its  *)
(* first unread one, and no index leads out of the blocks, also when their   *)
(* number is no power of two.  It is inductive.                              *)
IndInv ==
    /\ TypeOK
    /\ readerIdx <= writerIdx /\ writerIdx <= readerIdx + BlockCnt
    /\ FirstLapOnly
    /\ ScreenshotsBehind
    /\ WindowBounded
    /\ ReaderAtFirstUnread

(* The committed elements the reader has not removed, oldest first. *)
UnreadSeq ==
    [i \in 1..(writerIdx - readerIdx) |-> data[Slot(readerIdx + i - 1)]]

(* The ring is a bounded FIFO queue: what the reader sees is what the       *)
(* writer committed, in order, each element once, at most BlockCnt unread.  *)
Fifo == INSTANCE BoundedFifo WITH Capacity <- BlockCnt, q <- UnreadSeq

ImplementsFifo == Fifo!Spec
=============================================================================
