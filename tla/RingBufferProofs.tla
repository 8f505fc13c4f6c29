-------------------------- MODULE RingBufferProofs --------------------------
(***************************************************************************)
(* For every block count up to 2^30, every set of values and every index   *)
(* bound: the safety properties of RingBuffer, and that RingBuffer         *)
(* implements BoundedFifo.  A count that is no power of two is the odd     *)
(* case: mask_ is that of the rounded count, and the proofs go through     *)
(* because the writer then never leaves its first lap.                     *)
(***************************************************************************)
EXTENDS RingBuffer, ModularFacts, SequenceTheorems, WellFoundedInduction, TLAPS

-----------------------------------------------------------------------------
(* What init computes. *)

(* The counts is_power_of_2 accepts are numbers. *)
LEMMA PowersNat == PowersOfTwo \subseteq Nat
  BY DEF PowersOfTwo

(* A set of naturals has a least element. *)
LEMMA LeastNat ==
    ASSUME NEW S \in SUBSET Nat, S # {}
    PROVE  \E p \in S : \A q \in S : p <= q
<1>1. IsWellFoundedOn(OpToRel(<, Nat), Nat)
  BY NatLessThanWellFounded, Zenon
<1>2. \E x \in S : \A y \in S : ~(<<y, x>> \in OpToRel(<, Nat))
  BY <1>1, WFMin, Zenon
<1>3. PICK x \in S : \A y \in S : ~(<<y, x>> \in OpToRel(<, Nat))
  BY <1>2, Zenon
<1>4. \A y \in S : y < x => <<y, x>> \in OpToRel(<, Nat)
  BY DEF OpToRel
<1>5. \A y \in S : ~(y < x)
  BY <1>3, <1>4, Zenon
<1> QED BY <1>5

(* init leaves mask_ + 1 = block_cnt for a power of two, and more than there *)
(* are blocks otherwise.                                                     *)
LEMMA RealCount ==
    /\ BlockCnt \in PowersOfTwo => mask + 1 = BlockCnt
    /\ BlockCnt \notin PowersOfTwo => mask + 1 \in Nat /\ mask + 1 > BlockCnt
<1> USE BlockCntAssumption
<1>1. CASE BlockCnt \in PowersOfTwo
  BY <1>1 DEF mask, real_block_cnt
<1>2. CASE BlockCnt \notin PowersOfTwo
  <2> DEFINE S == {p \in PowersOfTwo : p >= BlockCnt}
             up == roundup_power_of_two(BlockCnt)
  <2>1. S \in SUBSET Nat
    BY PowersNat
  <2>2. S # {}
    <3>1. PICK p \in PowersOfTwo : BlockCnt <= p
      BY RoundupAssumption
    <3> QED BY <3>1, PowersNat
  <2>3. PICK p \in S : \A q \in S : p <= q
    <3> HIDE DEF S
    <3> QED BY <2>1, <2>2, LeastNat
  <2>4. \E q \in PowersOfTwo : q >= BlockCnt /\ \A r \in PowersOfTwo : r >= BlockCnt => q <= r
    BY <2>3
  <2>5. up \in PowersOfTwo /\ up >= BlockCnt
    BY <2>4, Zenon DEF roundup_power_of_two
  <2>6. mask = up - 1
    BY <1>2 DEF mask, real_block_cnt
  <2> HIDE DEF up
  <2>7. up \in Nat /\ up # BlockCnt
    BY <1>2, <2>5, PowersNat
  <2>8. mask + 1 \in Nat /\ mask + 1 > BlockCnt
    BY <2>5, <2>6, <2>7
  <2> QED BY <1>2, <2>8, Zenon
<1> QED BY <1>1, <1>2, Zenon

-----------------------------------------------------------------------------
(* The operators of the ring. *)

(* An index of a power-of-two ring, or one of the first lap, has its slot    *)
(* inside data_.                                                             *)
LEMMA SlotIsMod ==
    ASSUME NEW i \in Nat, BlockCnt \in PowersOfTwo \/ i < BlockCnt
    PROVE  Slot(i) = i % BlockCnt /\ Slot(i) \in Blocks
<1> USE BlockCntAssumption
<1>1. CASE BlockCnt \in PowersOfTwo
  <2>1. mask + 1 = BlockCnt
    BY <1>1, RealCount, Zenon
  <2> QED BY <2>1, DivMod DEF Slot, Blocks
<1>2. CASE BlockCnt \notin PowersOfTwo
  <2> DEFINE m == mask + 1
  <2>1. m \in Nat \ {0} /\ m > BlockCnt /\ i < BlockCnt
    BY <1>2, RealCount
  <2>2. Slot(i) = i % m
    BY DEF Slot
  <2> HIDE DEF m
  <2>3. i = m * 0 + i /\ i = BlockCnt * 0 + i /\ i \in 0..m-1 /\ i \in 0..BlockCnt-1 /\ 0 \in Int
    BY <2>1
  <2>4. i % m = i
    BY <2>1, <2>3, RemainderOf, Zenon
  <2>5. i % BlockCnt = i
    BY <2>3, RemainderOf, Zenon
  <2> QED BY <2>2, <2>3, <2>4, <2>5, Zenon DEF Blocks
<1> QED BY <1>1, <1>2, Zenon

(* The slot after the last block, where the writer of any other ring stops. *)
LEMMA SlotInFirstLap ==
    ASSUME BlockCnt \notin PowersOfTwo, NEW i \in 0..BlockCnt
    PROVE  Slot(i) = i
<1> DEFINE m == mask + 1
<1>1. m \in Nat \ {0} /\ m > BlockCnt
  BY RealCount, BlockCntAssumption
<1>2. Slot(i) = i % m
  BY DEF Slot
<1> HIDE DEF m
<1>3. i = m * 0 + i /\ i \in 0..m-1 /\ i \in Nat /\ 0 \in Int
  BY <1>1, BlockCntAssumption
<1> QED BY <1>1, <1>2, <1>3, RemainderOf, Zenon

(* A slot is a number. *)
LEMMA SlotNat ==
    ASSUME NEW i \in Nat
    PROVE  Slot(i) \in Nat
<1> DEFINE m == mask + 1
<1>1. m \in Nat \ {0}
  BY RealCount, BlockCntAssumption
<1>2. Slot(i) = i % m
  BY DEF Slot
<1> HIDE DEF m
<1> QED BY <1>1, <1>2, DivMod

(* The window internal_writer_get_buffer computes from any reader index at   *)
(* or behind the writer's ends before data_ does and before the lap of that  *)
(* reader index; there is none exactly when that lap is full, or over.       *)
LEMMA WriterCntProperty ==
    ASSUME FirstLapOnly, writerIdx \in Nat, NEW r \in Nat, r <= writerIdx
    PROVE  /\ WriterCnt(r) \in Nat
           /\ WriterCnt(r) > 0 => /\ Slot(writerIdx) + WriterCnt(r) <= BlockCnt
                                  /\ writerIdx + WriterCnt(r) <= r + BlockCnt
           /\ WriterCnt(r) = 0 => \/ writerIdx >= r + BlockCnt
                                  \/ BlockCnt \notin PowersOfTwo /\ writerIdx = BlockCnt
<1> USE BlockCntAssumption
<1>1. CASE ~(writerIdx - r < BlockCnt)
  BY <1>1 DEF WriterCnt
<1>2. CASE writerIdx - r < BlockCnt /\ BlockCnt \in PowersOfTwo
  <2>1. /\ Slot(writerIdx) = writerIdx % BlockCnt /\ Slot(writerIdx) \in 0..BlockCnt-1
        /\ Slot(r) = r % BlockCnt /\ Slot(r) \in 0..BlockCnt-1
    BY <1>2, SlotIsMod DEF Blocks
  <2>2. writerIdx < r + BlockCnt
    BY <1>2
  <2>3. /\ Slot(writerIdx) >= Slot(r) => writerIdx - r = Slot(writerIdx) - Slot(r)
        /\ Slot(writerIdx) < Slot(r) =>
              writerIdx - r = BlockCnt + Slot(writerIdx) - Slot(r)
    <3>1. /\ writerIdx % BlockCnt >= r % BlockCnt =>
                writerIdx - r = (writerIdx % BlockCnt) - (r % BlockCnt)
          /\ writerIdx % BlockCnt < r % BlockCnt =>
                writerIdx - r = BlockCnt + (writerIdx % BlockCnt) - (r % BlockCnt)
      BY <2>2, SlotDistance
    <3> QED BY <2>1, <3>1
  <2>4. WriterCnt(r) = IF Slot(writerIdx) >= Slot(r) THEN BlockCnt - Slot(writerIdx)
                                                     ELSE Slot(r) - Slot(writerIdx)
    BY <1>2 DEF WriterCnt
  <2> QED BY <2>1, <2>2, <2>3, <2>4
<1>3. CASE writerIdx - r < BlockCnt /\ BlockCnt \notin PowersOfTwo
  <2>1. writerIdx \in 0..BlockCnt /\ r \in 0..BlockCnt
    BY <1>3 DEF FirstLapOnly
  <2>2. Slot(writerIdx) = writerIdx /\ Slot(r) = r
    BY <1>3, <2>1, SlotInFirstLap
  <2>3. WriterCnt(r) = BlockCnt - writerIdx
    BY <1>3, <2>2 DEF WriterCnt
  <2> QED BY <1>3, <2>1, <2>2, <2>3
<1> QED BY <1>1, <1>2, <1>3

(* internal_reader_get_buffer gives a block exactly when one is unread. *)
LEMMA ReaderCntProperty ==
    ASSUME NEW w \in Nat, NEW r \in Nat, BlockCnt \in PowersOfTwo \/ w <= BlockCnt
    PROVE  /\ ReaderCnt(w, r) \in Nat
           /\ ReaderCnt(w, r) > 0 <=> w > r
<1> USE BlockCntAssumption
<1>1. CASE ~(w > r)
  BY <1>1 DEF ReaderCnt
<1>2. CASE w > r /\ BlockCnt \in PowersOfTwo
  <2>1. Slot(w) \in 0..BlockCnt-1 /\ Slot(r) \in 0..BlockCnt-1
    BY <1>2, SlotIsMod DEF Blocks
  <2> QED BY <1>2, <2>1 DEF ReaderCnt
<1>3. CASE w > r /\ BlockCnt \notin PowersOfTwo
  <2>1. w \in 0..BlockCnt /\ r \in 0..BlockCnt
    BY <1>3
  <2>2. Slot(w) = w /\ Slot(r) = r
    BY <1>3, <2>1, SlotInFirstLap
  <2> QED BY <1>3, <2>2 DEF ReaderCnt
<1> QED BY <1>1, <1>2, <1>3

-----------------------------------------------------------------------------
(* The initial states satisfy the invariant. *)
LEMMA InitIndInv ==
    Init => IndInv
<1> SUFFICES ASSUME Init PROVE IndInv
  OBVIOUS
<1>1. TypeOK
  <2>1. wHold \in BOOLEAN
    BY Zenon DEF Init
  <2>2. wInfo \in Info /\ rInfo \in Info
    BY DEF Init, Info
  <2> QED BY <2>1, <2>2, BlockCntAssumption, MaxIdxAssumption DEF Init, TypeOK
<1> QED BY <1>1, BlockCntAssumption
       DEF Init, IndInv, FirstLapOnly, ScreenshotsBehind, WindowBounded, ReaderAtFirstUnread

(* A get of the writer preserves the invariant from whichever reader index *)
(* at or behind the real one it starts.                                    *)
LEMMA WriterTakeInv ==
    ASSUME IndInv,
           NEW r \in Nat, r <= readerIdx, WriterTake(r),
           readerShot' = readerShot \/ readerShot' = readerIdx
    PROVE  IndInv'
<1> USE BlockCntAssumption
<1> DEFINE c == WriterCnt(r)
<1>1. writerIdx \in Nat /\ readerIdx \in Nat /\ r <= writerIdx /\ FirstLapOnly
  BY MaxIdxAssumption DEF IndInv, TypeOK
<1>2. /\ c \in Nat
      /\ c > 0 => /\ Slot(writerIdx) + c <= BlockCnt
                  /\ writerIdx + c <= r + BlockCnt
  BY <1>1, WriterCntProperty
<1>3. Slot(writerIdx) \in Nat
  BY <1>1, SlotNat
<1> HIDE DEF c
<1>4. /\ wInfo' = IF c > 0 THEN [iov |-> Slot(writerIdx), cnt |-> c] ELSE wInfo
      /\ wHold' = (c > 0) /\ filled' = 0
      /\ UNCHANGED <<writerIdx, rVars, data>>
  BY DEF WriterTake, c
<1>5. TypeOK'
  BY <1>2, <1>3, <1>4 DEF IndInv, TypeOK, Info, rVars
<1>6. Slot(writerIdx)' = Slot(writerIdx) /\ Slot(readerIdx)' = Slot(readerIdx)
  BY <1>4 DEF Slot, rVars
<1>7. ReaderAtFirstUnread'
  BY <1>4, <1>6 DEF IndInv, ReaderAtFirstUnread, rVars
<1>8. ScreenshotsBehind'
  BY <1>1, <1>4 DEF IndInv, ScreenshotsBehind, rVars
<1>9. WindowBounded'
  <2>1. CASE c > 0
    <3>1. wInfo'.iov = Slot(writerIdx) /\ wInfo'.cnt = c
      BY <1>4, <2>1
    <3> QED BY <1>1, <1>2, <1>3, <1>4, <1>6, <2>1, <3>1 DEF WindowBounded, rVars
  <2>2. CASE ~(c > 0)
    BY <1>4, <2>2 DEF WindowBounded
  <2> QED BY <2>1, <2>2
<1>10. FirstLapOnly'
  BY <1>1, <1>4 DEF FirstLapOnly
<1> QED BY <1>4, <1>5, <1>7, <1>8, <1>9, <1>10 DEF IndInv, rVars

(* So does a get of the reader, from a writer index at or behind the real one. *)
LEMMA ReaderTakeInv ==
    ASSUME IndInv,
           NEW w \in Nat, w <= writerIdx, ReaderTake(w),
           writerShot' = writerShot \/ writerShot' = writerIdx
    PROVE  IndInv'
<1> USE BlockCntAssumption
<1>1. writerIdx \in Nat /\ readerIdx \in Nat /\ (BlockCnt \in PowersOfTwo \/ writerIdx <= BlockCnt)
  BY MaxIdxAssumption DEF IndInv, TypeOK, FirstLapOnly
<1>2. ReaderCnt(w, readerIdx) > 0 <=> w > readerIdx
  <2>1. BlockCnt \in PowersOfTwo \/ w <= BlockCnt
    BY <1>1
  <2> QED BY <1>1, <2>1, ReaderCntProperty, Zenon
<1>3. Slot(readerIdx) \in Nat
  BY <1>1, SlotNat
<1>4. /\ rInfo' = IF w > readerIdx THEN [rInfo EXCEPT !.iov = Slot(readerIdx)] ELSE rInfo
      /\ rKnown' = IF w > readerIdx THEN 1 ELSE 0
      /\ UNCHANGED <<readerIdx, out, wVars, data>>
  BY <1>2 DEF ReaderTake
<1>5. TypeOK'
  BY <1>3, <1>4 DEF IndInv, TypeOK, Info, wVars
<1>6. Slot(writerIdx)' = Slot(writerIdx) /\ Slot(readerIdx)' = Slot(readerIdx)
  BY <1>4 DEF Slot, wVars
<1>7. ReaderAtFirstUnread'
  <2>1. rKnown' > 0 => rInfo'.iov = Slot(readerIdx)
    BY <1>4 DEF IndInv, TypeOK, Info
  <2> QED BY <1>1, <1>4, <1>6, <2>1 DEF ReaderAtFirstUnread, wVars
<1>8. ScreenshotsBehind'
  BY <1>1, <1>4 DEF IndInv, ScreenshotsBehind, wVars
<1>9. WindowBounded'
  BY <1>4, <1>6 DEF IndInv, WindowBounded, wVars
<1>10. FirstLapOnly'
  BY <1>1, <1>4 DEF FirstLapOnly, wVars
<1> QED BY <1>4, <1>5, <1>7, <1>8, <1>9, <1>10 DEF IndInv, wVars

(* Every step preserves the invariant. *)
LEMMA NextIndInv ==
    ASSUME IndInv, [Next]_vars
    PROVE  IndInv'
<1> USE BlockCntAssumption, MaxIdxAssumption
<1>t. /\ writerIdx \in Nat /\ readerIdx \in Nat /\ readerShot \in Nat /\ writerShot \in Nat
      /\ readerShot <= readerIdx /\ writerShot <= writerIdx
      /\ readerIdx <= writerIdx /\ writerIdx <= readerIdx + BlockCnt
      /\ BlockCnt \in PowersOfTwo \/ writerIdx <= BlockCnt
  BY DEF IndInv, TypeOK, ScreenshotsBehind, FirstLapOnly
<1>1. CASE WriterGetBuffer
  BY <1>1, <1>t, WriterTakeInv DEF WriterGetBuffer
<1>2. CASE \E n \in 1..BlockCnt : WriterGetBufferN(n)
  <2>1. \/ WriterTake(readerShot) /\ readerShot' = readerShot
        \/ WriterTake(readerIdx) /\ readerShot' = readerIdx
    BY <1>2 DEF WriterGetBufferN
  <2> QED BY <1>t, <2>1, WriterTakeInv
<1>3. CASE \E n \in 1..BlockCnt : WriterCommit(n)
  <2>1. PICK n \in 1..BlockCnt : WriterCommit(n)
    BY <1>3
  <2>2. writerIdx' \in 0..MaxIdx /\ writerIdx' = writerIdx + n
    BY <1>t, <2>1 DEF WriterCommit
  <2>3. TypeOK'
    <3>1. wHold' \in BOOLEAN
      BY <2>1, Zenon DEF WriterCommit
    <3> QED BY <2>1, <2>2, <3>1 DEF WriterCommit, IndInv, TypeOK, rVars
  <2>4. writerIdx' <= readerIdx + BlockCnt
    BY <1>t, <2>1, <2>2 DEF WriterCommit, IndInv, WindowBounded, TypeOK, Info
  <2>5. Slot(readerIdx)' = Slot(readerIdx)
    BY <2>1 DEF WriterCommit, Slot, rVars
  <2>6. WindowBounded'
    BY <2>1 DEF WriterCommit, WindowBounded
  <2>7. ReaderAtFirstUnread'
    BY <1>t, <2>1, <2>2, <2>5 DEF WriterCommit, IndInv, ReaderAtFirstUnread, TypeOK, rVars
  <2>8. FirstLapOnly'
    <3>1. CASE BlockCnt \in PowersOfTwo
      BY <3>1 DEF FirstLapOnly
    <3>2. CASE BlockCnt \notin PowersOfTwo
      <4>1. Slot(writerIdx) = writerIdx
        BY <1>t, <3>2, SlotInFirstLap
      <4>2. n <= wInfo.cnt /\ Slot(writerIdx) + wInfo.cnt <= BlockCnt /\ wInfo.cnt \in Nat
        BY <2>1 DEF WriterCommit, IndInv, WindowBounded, TypeOK, Info
      <4> QED BY <1>t, <2>2, <4>1, <4>2 DEF FirstLapOnly
    <3> QED BY <3>1, <3>2
  <2> QED BY <1>t, <2>1, <2>2, <2>3, <2>4, <2>6, <2>7, <2>8
          DEF WriterCommit, IndInv, ScreenshotsBehind, rVars
<1>4. CASE \E v \in Vals : WriterFill(v)
  <2>1. PICK v \in Vals : WriterFill(v)
    BY <1>4
  <2>2. TypeOK'
    <3>1. filled' \in 0..BlockCnt
      BY <2>1 DEF WriterFill, IndInv, TypeOK, Info, WindowBounded
    <3>2. data' \in [Blocks -> Vals]
      BY <2>1 DEF WriterFill, IndInv, TypeOK
    <3> QED BY <2>1, <3>1, <3>2 DEF WriterFill, IndInv, TypeOK, rVars
  <2>3. Slot(writerIdx)' = Slot(writerIdx) /\ Slot(readerIdx)' = Slot(readerIdx)
    BY <2>1 DEF WriterFill, Slot, rVars
  <2>4. WindowBounded'
    BY <2>1, <2>3 DEF WriterFill, IndInv, WindowBounded, TypeOK, Info, rVars
  <2> QED BY <1>t, <2>1, <2>2, <2>3, <2>4
          DEF WriterFill, IndInv, ScreenshotsBehind, ReaderAtFirstUnread, FirstLapOnly, rVars
<1>5. CASE ReaderGetBuffer
  BY <1>5, <1>t, ReaderTakeInv DEF ReaderGetBuffer
<1>6. CASE \E n \in 1..BlockCnt : ReaderGetBufferN(n)
  <2>1. \/ ReaderTake(writerShot) /\ writerShot' = writerShot
        \/ ReaderTake(writerIdx) /\ writerShot' = writerIdx
    BY <1>6 DEF ReaderGetBufferN
  <2> QED BY <1>t, <2>1, ReaderTakeInv
<1>7. CASE \E n \in 1..BlockCnt : ReaderCommit(n)
  <2>1. PICK n \in 1..BlockCnt : ReaderCommit(n)
    BY <1>7
  <2>2. readerIdx' = readerIdx + n /\ readerIdx' <= writerIdx
    BY <1>t, <2>1 DEF ReaderCommit, IndInv, ReaderAtFirstUnread, TypeOK
  <2>3. TypeOK'
    BY <1>t, <2>1, <2>2 DEF ReaderCommit, IndInv, TypeOK, wVars
  <2>4. Slot(writerIdx)' = Slot(writerIdx)
    BY <2>1 DEF ReaderCommit, Slot, wVars
  <2>5. WindowBounded'
    BY <1>t, <2>1, <2>2, <2>4 DEF ReaderCommit, IndInv, WindowBounded, TypeOK, Info, wVars
  <2> QED BY <1>t, <2>1, <2>2, <2>3, <2>5
          DEF ReaderCommit, IndInv, ScreenshotsBehind, ReaderAtFirstUnread, FirstLapOnly, wVars
<1>8. CASE \E k \in 0..BlockCnt, w \in readerIdx..writerIdx : ReaderPeek(readerIdx + k, w)
  <2>1. PICK k \in 0..BlockCnt, w \in readerIdx..writerIdx : ReaderPeek(readerIdx + k, w)
    BY <1>8
  <2>2. ReaderCnt(w, readerIdx + k) \in Nat
    <3>1. w \in Nat /\ readerIdx + k \in Nat /\ (BlockCnt \in PowersOfTwo \/ w <= BlockCnt)
      BY <1>t
    <3> QED BY <3>1, ReaderCntProperty
  <2>3. Slot(readerIdx + k) \in Nat
    BY <1>t, SlotNat
  <2>4. TypeOK'
    BY <1>t, <2>1, <2>2, <2>3 DEF ReaderPeek, IndInv, TypeOK, Info, wVars
  <2>5. Slot(writerIdx)' = Slot(writerIdx)
    BY <2>1 DEF ReaderPeek, Slot, wVars
  <2> QED BY <1>t, <2>1, <2>4, <2>5 DEF ReaderPeek, IndInv, ScreenshotsBehind,
          ReaderAtFirstUnread, WindowBounded, FirstLapOnly, wVars
<1>9. CASE ReaderGetUnreadCnt
  <2>1. Slot(writerIdx)' = Slot(writerIdx) /\ Slot(readerIdx)' = Slot(readerIdx)
    BY <1>9 DEF ReaderGetUnreadCnt, Slot, wVars
  <2>2. TypeOK'
    BY <1>t, <1>9 DEF ReaderGetUnreadCnt, IndInv, TypeOK, wVars
  <2>3. ReaderAtFirstUnread'
    BY <1>t, <1>9, <2>1
       DEF ReaderGetUnreadCnt, IndInv, TypeOK, ReaderAtFirstUnread, wVars
  <2> QED BY <1>t, <1>9, <2>1, <2>2, <2>3
          DEF ReaderGetUnreadCnt, IndInv, ScreenshotsBehind, WindowBounded, FirstLapOnly, wVars
<1>10. CASE ReaderRead
  <2>1. Slot(writerIdx)' = Slot(writerIdx) /\ Slot(readerIdx)' = Slot(readerIdx)
    BY <1>10 DEF ReaderRead, Slot, wVars
  <2>2. rInfo.iov \in Blocks
    <3>1. readerIdx < writerIdx /\ rInfo.iov = Slot(readerIdx)
      BY <1>t, <1>10 DEF ReaderRead, IndInv, ReaderAtFirstUnread, TypeOK
    <3> QED BY <1>t, <3>1, SlotIsMod
  <2>3. TypeOK'
    BY <1>10, <2>2 DEF ReaderRead, IndInv, TypeOK, wVars
  <2> QED BY <1>t, <1>10, <2>1, <2>3 DEF ReaderRead, IndInv, ScreenshotsBehind,
          ReaderAtFirstUnread, WindowBounded, FirstLapOnly, wVars
<1>11. CASE ReaderResetOut
  <2>1. Slot(writerIdx)' = Slot(writerIdx)
    BY <1>11 DEF ReaderResetOut, Slot, wVars
  <2>2. TypeOK'
    BY <1>t, <1>11 DEF ReaderResetOut, IndInv, TypeOK, wVars
  <2>3. WindowBounded'
    BY <1>t, <1>11, <2>1 DEF ReaderResetOut, IndInv, WindowBounded, TypeOK, Info, wVars
  <2> QED BY <1>t, <1>11, <2>2, <2>3
          DEF ReaderResetOut, IndInv, ScreenshotsBehind, ReaderAtFirstUnread, FirstLapOnly, wVars
<1>12. CASE Reset
  <2>1. TypeOK'
    BY <1>12 DEF Reset, IndInv, TypeOK
  <2> QED BY <1>12, <2>1
          DEF Reset, IndInv, ScreenshotsBehind, ReaderAtFirstUnread, WindowBounded, FirstLapOnly
<1>13. CASE UNCHANGED vars
  BY <1>13 DEF vars, wVars, rVars, IndInv, TypeOK, ScreenshotsBehind,
     ReaderAtFirstUnread, WindowBounded, FirstLapOnly, Slot
<1> QED BY <1>1, <1>2, <1>3, <1>4, <1>5, <1>6, <1>7, <1>8, <1>9, <1>10, <1>11,
       <1>12, <1>13 DEF Next, Writer, Reader

-----------------------------------------------------------------------------
(* What the invariant gives. *)

(* Block k of a held window is the slot of index writerIdx + k, which is less *)
(* than a lap ahead of every unread index.                                    *)
LEMMA WindowSlot ==
    ASSUME IndInv, wHold, NEW k \in 0..wInfo.cnt-1
    PROVE  /\ wInfo.iov + k = Slot(writerIdx + k)
           /\ wInfo.iov + k \in Blocks
           /\ \A i \in Unread : Slot(i) # wInfo.iov + k
<1> USE BlockCntAssumption, MaxIdxAssumption
<1>1. writerIdx \in Nat /\ readerIdx \in Nat /\ wInfo.cnt \in Nat /\ k \in Nat
  BY DEF IndInv, TypeOK, Info
<1>2. /\ wInfo.iov = Slot(writerIdx) /\ wInfo.iov + wInfo.cnt <= BlockCnt
      /\ writerIdx + wInfo.cnt <= readerIdx + BlockCnt
  BY DEF IndInv, WindowBounded
<1>l. BlockCnt \in PowersOfTwo \/ writerIdx + k < BlockCnt
  <2>1. CASE BlockCnt \in PowersOfTwo
    BY <2>1
  <2>2. CASE BlockCnt \notin PowersOfTwo
    <3>1. writerIdx \in 0..BlockCnt
      BY <1>1, <2>2 DEF IndInv, FirstLapOnly
    <3>2. Slot(writerIdx) = writerIdx
      BY <2>2, <3>1, SlotInFirstLap
    <3> QED BY <1>1, <1>2, <3>2
  <2> QED BY <2>1, <2>2
<1>3. Slot(writerIdx) = writerIdx % BlockCnt /\ Slot(writerIdx) \in 0..BlockCnt-1
  <2>1. BlockCnt \in PowersOfTwo \/ writerIdx < BlockCnt
    BY <1>1, <1>l
  <2> QED BY <1>1, <2>1, SlotIsMod DEF Blocks
<1>4. (writerIdx % BlockCnt) + k < BlockCnt
  BY <1>1, <1>2, <1>3
<1>5. (writerIdx + k) % BlockCnt = (writerIdx % BlockCnt) + k
  BY <1>1, <1>4, ModAdd
<1>6. writerIdx + k \in Nat /\ Slot(writerIdx + k) = (writerIdx + k) % BlockCnt
  <2>1. writerIdx + k \in Nat
    BY <1>1
  <2> QED BY <1>l, <2>1, SlotIsMod
<1>7. ASSUME NEW i \in Unread
      PROVE  Slot(i) # wInfo.iov + k
  <2>1. i \in Nat /\ i < writerIdx + k /\ writerIdx + k < i + BlockCnt
    BY <1>1, <1>2 DEF Unread
  <2>2. i % BlockCnt # (writerIdx + k) % BlockCnt
    BY <1>6, <2>1, SlotsDiffer
  <2>3. Slot(i) = i % BlockCnt
    <3>1. BlockCnt \in PowersOfTwo \/ i < BlockCnt
      BY <1>1, <1>l, <2>1
    <3> QED BY <2>1, <3>1, SlotIsMod
  <2> QED BY <1>2, <1>3, <1>5, <2>2, <2>3
<1> QED BY <1>1, <1>2, <1>3, <1>4, <1>5, <1>6, <1>7 DEF Blocks

(* The invariant keeps the writer's window clear of unread elements: two    *)
(* indices less than a lap apart have different slots.                       *)
LEMMA IndInvWindowSafe ==
    ASSUME IndInv
    PROVE  WindowSafe
<1>1. CASE wHold
  <2>1. \A b \in WindowBlocks : \E k \in 0..wInfo.cnt-1 : b = wInfo.iov + k
    <3> SUFFICES ASSUME NEW b \in WindowBlocks
                 PROVE  \E k \in 0..wInfo.cnt-1 : b = wInfo.iov + k
      OBVIOUS
    <3>1. b \in wInfo.iov .. wInfo.iov + wInfo.cnt - 1
      BY <1>1 DEF WindowBlocks
    <3>2. wInfo.iov \in Nat /\ wInfo.cnt \in Nat
      BY DEF IndInv, TypeOK, Info
    <3>3. b - wInfo.iov \in 0..wInfo.cnt-1 /\ b = wInfo.iov + (b - wInfo.iov)
      BY <3>1, <3>2
    <3> QED BY <3>3
  <2> QED BY <1>1, <2>1, WindowSlot DEF WindowSafe
<1>2. CASE ~wHold
  BY <1>2 DEF WindowSafe, WindowBlocks
<1> QED BY <1>1, <1>2

-----------------------------------------------------------------------------
(* IndInv holds in every reachable state. *)
THEOREM Invariance ==
    Spec => []IndInv
<1>1. Init => IndInv
  BY InitIndInv
<1>2. IndInv /\ [Next]_vars => IndInv'
  BY NextIndInv
<1> QED BY <1>1, <1>2, PTL DEF Spec

(* Type correctness of every reachable state. *)
THEOREM TypeCorrect ==
    Spec => []TypeOK
<1>1. IndInv => TypeOK
  BY DEF IndInv
<1> QED BY <1>1, Invariance, PTL

(* The writer's window never overlaps a block of an unread element and never *)
(* leaves data_, for every block count.                                      *)
THEOREM WindowIsSafe ==
    Spec => []WindowSafe
<1>1. IndInv => WindowSafe
  BY IndInvWindowSafe
<1> QED BY <1>1, Invariance, PTL

(* The screenshots lag behind the indices they copy.                         *)
THEOREM ScreenshotsStayBehind ==
    Spec => []ScreenshotsBehind
<1>1. IndInv => ScreenshotsBehind
  BY DEF IndInv
<1> QED BY <1>1, Invariance, PTL

(* The block the reader was given starts at its first unread element,        *)
(* whatever it looked ahead at or gave back.                                 *)
THEOREM ReaderStaysAtFirstUnread ==
    Spec => []ReaderAtFirstUnread
<1>1. IndInv => ReaderAtFirstUnread
  BY DEF IndInv
<1> QED BY <1>1, Invariance, PTL

(* Neither side fails on stale information: a get gives nothing only when    *)
(* the ring is full or empty or, if init was given a count that is no power  *)
(* of two, when the writer has come to the end of the blocks.                *)
THEOREM NoSpuriousNull ==
    Spec => NullOnlyAtTheLimit
<1> USE BlockCntAssumption
<1> DEFINE Limit == \/ writerIdx - readerIdx = BlockCnt
                    \/ BlockCnt \notin PowersOfTwo /\ writerIdx = BlockCnt
<1>1. ASSUME IndInv, NEW n \in 1..BlockCnt, WriterGetBufferN(n), ~wHold'
      PROVE  Limit
  <2>1. /\ writerIdx \in Nat /\ readerIdx \in Nat /\ FirstLapOnly
        /\ readerIdx <= writerIdx /\ writerIdx <= readerIdx + BlockCnt
    BY <1>1, MaxIdxAssumption DEF IndInv, TypeOK
  <2>2. WriterCnt(readerIdx) = 0
    <3>1. /\ WriterCnt(readerIdx) \in Nat
      BY <2>1, WriterCntProperty
    <3>2. ~(WriterCnt(readerIdx) > 0)
      BY <1>1 DEF WriterGetBufferN, WriterTake
    <3> QED BY <3>1, <3>2
  <2>3. \/ writerIdx >= readerIdx + BlockCnt
        \/ BlockCnt \notin PowersOfTwo /\ writerIdx = BlockCnt
    BY <2>1, <2>2, WriterCntProperty
  <2> QED BY <2>1, <2>3
<1>2. ASSUME IndInv, NEW n \in 1..BlockCnt, ReaderGetBufferN(n), rKnown' = 0
      PROVE  writerIdx = readerIdx
  <2>1. /\ writerIdx \in Nat /\ readerIdx \in Nat /\ readerIdx <= writerIdx
        /\ BlockCnt \in PowersOfTwo \/ writerIdx <= BlockCnt
    BY <1>2, MaxIdxAssumption DEF IndInv, TypeOK, FirstLapOnly
  <2>2. ~(ReaderCnt(writerIdx, readerIdx) > 0)
    BY <1>2 DEF ReaderGetBufferN, ReaderTake
  <2> QED BY <2>1, <2>2, ReaderCntProperty
<1> DEFINE A == /\ (\E n \in 1..BlockCnt : WriterGetBufferN(n)) /\ ~wHold' => Limit
                /\ (\E n \in 1..BlockCnt : ReaderGetBufferN(n)) /\ rKnown' = 0 =>
                      writerIdx = readerIdx
<1>3. IndInv /\ [Next]_vars => [A]_vars
  BY <1>1, <1>2
<1> QED BY <1>3, Invariance, PTL DEF Spec, NullOnlyAtTheLimit

-----------------------------------------------------------------------------
(* Refinement. *)

(* The slot of an unread element is a block. *)
LEMMA UnreadSlot ==
    ASSUME IndInv, NEW i \in Unread
    PROVE  i \in Nat /\ Slot(i) \in Blocks
<1>1. i \in Nat /\ i < writerIdx /\ writerIdx \in Nat
  BY MaxIdxAssumption DEF Unread, IndInv, TypeOK
<1>2. BlockCnt \in PowersOfTwo \/ i < BlockCnt
  BY <1>1, BlockCntAssumption DEF IndInv, FirstLapOnly
<1> QED BY <1>1, <1>2, SlotIsMod

(* UnreadSeq is a sequence of values, as long as the indices are apart. *)
LEMMA UnreadSeqType ==
    ASSUME IndInv
    PROVE  /\ writerIdx - readerIdx \in 0..BlockCnt
           /\ UnreadSeq \in Seq(Vals)
           /\ Len(UnreadSeq) = writerIdx - readerIdx
           /\ \A i \in 1..(writerIdx - readerIdx) :
                 UnreadSeq[i] = data[Slot(readerIdx + i - 1)]
<1>1. writerIdx \in Nat /\ readerIdx \in Nat /\ writerIdx - readerIdx \in 0..BlockCnt
  BY BlockCntAssumption, MaxIdxAssumption DEF IndInv, TypeOK
<1>2. ASSUME NEW i \in 1..(writerIdx - readerIdx)
      PROVE  data[Slot(readerIdx + i - 1)] \in Vals
  <2>1. readerIdx + i - 1 \in Unread
    BY <1>1 DEF Unread
  <2> QED BY <2>1, UnreadSlot DEF IndInv, TypeOK
<1> QED BY <1>1, <1>2 DEF UnreadSeq

(* A function on 1..n is a sequence of length n. *)
LEMMA FunctionIsSeq ==
    ASSUME NEW S, NEW n \in Nat, NEW f \in [1..n -> S]
    PROVE  f \in Seq(S) /\ Len(f) = n
  OBVIOUS

(* The steps that leave the indices and the unread blocks alone. *)
LEMMA SameSeq ==
    ASSUME UNCHANGED <<writerIdx, readerIdx, data>>
    PROVE  UnreadSeq' = UnreadSeq
  BY DEF UnreadSeq, Slot

(* Filling a block of the window touches no unread block. *)
LEMMA FillKeepsSeq ==
    ASSUME IndInv, NEW v \in Vals, WriterFill(v)
    PROVE  UnreadSeq' = UnreadSeq
<1>1. /\ wHold /\ filled \in 0..wInfo.cnt-1
      /\ data' = [data EXCEPT ![wInfo.iov + filled] = v]
      /\ writerIdx' = writerIdx /\ readerIdx' = readerIdx
  BY BlockCntAssumption DEF WriterFill, IndInv, TypeOK, Info, rVars
<1>2. \A i \in Unread : Slot(i) # wInfo.iov + filled
  BY <1>1, WindowSlot
<1>3. writerIdx \in Nat /\ readerIdx \in Nat
  BY MaxIdxAssumption DEF IndInv, TypeOK
<1>4. ASSUME NEW i \in 1..(writerIdx - readerIdx)
      PROVE  data'[Slot(readerIdx + i - 1)] = data[Slot(readerIdx + i - 1)]
  <2>1. readerIdx + i - 1 \in Nat /\ readerIdx + i - 1 \in Unread
    BY <1>3 DEF Unread
  <2>2. Slot(readerIdx + i - 1) \in Blocks
    BY <2>1, UnreadSlot
  <2> QED BY <1>1, <1>2, <2>1, <2>2 DEF IndInv, TypeOK
<1>5. UnreadSeq' = [i \in 1..(writerIdx - readerIdx) |-> data'[Slot(readerIdx + i - 1)]]
  BY <1>1 DEF UnreadSeq, Slot
<1> QED BY <1>4, <1>5 DEF UnreadSeq

(* A commit appends the committed blocks. *)
LEMMA CommitIsPut ==
    ASSUME IndInv, IndInv',
           NEW n \in 1..BlockCnt, WriterCommit(n)
    PROVE  Fifo!Next
<1> DEFINE s == [i \in 1..n |-> data[Slot(writerIdx + i - 1)]]
           len == writerIdx - readerIdx
<1>1. /\ writerIdx' = writerIdx + n /\ readerIdx' = readerIdx
      /\ data' = data /\ out' = out
  BY DEF WriterCommit, rVars
<1>2. writerIdx \in Nat /\ readerIdx \in Nat /\ n \in Nat
  BY MaxIdxAssumption, BlockCntAssumption DEF IndInv, TypeOK
<1>3. s \in [1..n -> Vals] /\ s \in Seq(Vals) /\ Len(s) = n
  <2>1. ASSUME NEW i \in 1..n PROVE data[Slot(writerIdx + i - 1)] \in Vals
    <3>1. writerIdx + i - 1 \in Nat /\ writerIdx + i - 1 < writerIdx'
      BY <1>1, <1>2
    <3>2. BlockCnt \in PowersOfTwo \/ writerIdx + i - 1 < BlockCnt
      BY <1>1, <1>2, <3>1, BlockCntAssumption DEF IndInv, FirstLapOnly
    <3>3. Slot(writerIdx + i - 1) \in Blocks
      BY <3>1, <3>2, SlotIsMod
    <3> QED BY <3>3 DEF IndInv, TypeOK
  <2>2. s \in [1..n -> Vals]
    BY <2>1
  <2> HIDE DEF s
  <2> QED BY <1>2, <2>2, FunctionIsSeq
<1>4. /\ len \in 0..BlockCnt /\ UnreadSeq \in Seq(Vals) /\ Len(UnreadSeq) = len
      /\ \A i \in 1..len : UnreadSeq[i] = data[Slot(readerIdx + i - 1)]
  BY UnreadSeqType
<1>5. len + n <= BlockCnt
  BY <1>1, <1>2, BlockCntAssumption DEF IndInv
<1>6. UnreadSeq' = [i \in 1..(len + n) |-> data[Slot(readerIdx + i - 1)]]
  <2>1. writerIdx' - readerIdx' = len + n
    BY <1>1, <1>2
  <2> QED BY <1>1, <2>1 DEF UnreadSeq, Slot
<1>7. UnreadSeq' = UnreadSeq \o s
  <2>1. /\ UnreadSeq \o s \in Seq(Vals) /\ Len(UnreadSeq \o s) = len + n
        /\ \A i \in 1..(len + n) : (UnreadSeq \o s)[i] =
              IF i <= len THEN UnreadSeq[i] ELSE s[i - len]
    <3> HIDE DEF s, len
    <3> QED BY <1>3, <1>4, ConcatProperties
  <2>2. ASSUME NEW i \in 1..(len + n)
        PROVE  (UnreadSeq \o s)[i] = data[Slot(readerIdx + i - 1)]
    <3>1. CASE i <= len
      BY <1>2, <1>4, <2>1, <3>1
    <3>2. CASE ~(i <= len)
      <4>1. i - len \in 1..n /\ writerIdx + (i - len) - 1 = readerIdx + i - 1
        BY <1>2, <1>4, <3>2
      <4> QED BY <2>1, <3>2, <4>1
    <3> QED BY <3>1, <3>2
  <2>3. UnreadSeq \o s = [i \in 1..(len + n) |-> (UnreadSeq \o s)[i]]
    BY <1>2, <1>4, <2>1
  <2> HIDE DEF s
  <2> QED BY <1>6, <2>2, <2>3
<1>8. n \in 1..(BlockCnt - Len(UnreadSeq))
  BY <1>2, <1>4, <1>5, BlockCntAssumption
<1> HIDE DEF s
<1>9. Fifo!Put(s)
  BY <1>1, <1>7 DEF Fifo!Put
<1> QED BY <1>3, <1>8, <1>9 DEF Fifo!Next

(* A reader commit removes the oldest elements. *)
LEMMA CommitIsGet ==
    ASSUME IndInv, IndInv',
           NEW n \in 1..BlockCnt, ReaderCommit(n)
    PROVE  Fifo!Next
<1> DEFINE len == writerIdx - readerIdx
<1>1. /\ writerIdx' = writerIdx /\ readerIdx' = readerIdx + n
      /\ data' = data /\ out' = out
  BY DEF ReaderCommit, wVars
<1>2. writerIdx \in Nat /\ readerIdx \in Nat /\ n \in Nat /\ n >= 1
  BY MaxIdxAssumption, BlockCntAssumption DEF IndInv, TypeOK
<1>3. /\ len \in 0..BlockCnt /\ UnreadSeq \in Seq(Vals) /\ Len(UnreadSeq) = len
      /\ \A i \in 1..len : UnreadSeq[i] = data[Slot(readerIdx + i - 1)]
  BY UnreadSeqType
<1>4. n <= len
  BY <1>1, <1>2 DEF IndInv
<1>5. UnreadSeq' = [i \in 1..(len - n) |-> data[Slot(readerIdx + n + i - 1)]]
  <2>1. writerIdx' - readerIdx' = len - n
    BY <1>1, <1>2
  <2> QED BY <1>1, <2>1 DEF UnreadSeq, Slot
<1>6. SubSeq(UnreadSeq, n + 1, len) = [i \in 1..(len - n) |-> UnreadSeq[n + i]]
  BY <1>2, <1>3, <1>4
<1>7. ASSUME NEW i \in 1..(len - n)
      PROVE  UnreadSeq[n + i] = data[Slot(readerIdx + n + i - 1)]
  <2>1. n + i \in 1..len /\ readerIdx + (n + i) - 1 = readerIdx + n + i - 1
    BY <1>2, <1>3, <1>4
  <2> QED BY <1>3, <2>1
<1>8. UnreadSeq' = SubSeq(UnreadSeq, n + 1, Len(UnreadSeq))
  BY <1>3, <1>5, <1>6, <1>7
<1>9. n \in 1..Len(UnreadSeq)
  BY <1>2, <1>3, <1>4
<1> QED BY <1>1, <1>8, <1>9 DEF Fifo!Next, Fifo!Get

(* Every step of the ring is a step of the queue or leaves it alone. *)
LEMMA StepRefines ==
    ASSUME IndInv, IndInv', [Next]_vars
    PROVE  [Fifo!Next]_<<UnreadSeq, out>>
<1>1. CASE WriterGetBuffer \/ (\E n \in 1..BlockCnt : WriterGetBufferN(n))
  <2>1. UNCHANGED <<writerIdx, readerIdx, data, out>>
    BY <1>1 DEF WriterGetBuffer, WriterGetBufferN, WriterTake, rVars
  <2> QED BY <2>1, SameSeq
<1>2. CASE \E n \in 1..BlockCnt : WriterCommit(n)
  BY <1>2, CommitIsPut
<1>3. CASE \E v \in Vals : WriterFill(v)
  <2>1. out' = out
    BY <1>3 DEF WriterFill, rVars
  <2> QED BY <1>3, <2>1, FillKeepsSeq
<1>4. CASE \/ ReaderGetBuffer \/ ReaderGetUnreadCnt
           \/ \E n \in 1..BlockCnt : ReaderGetBufferN(n)
           \/ \E k \in 0..BlockCnt, w \in readerIdx..writerIdx : ReaderPeek(readerIdx + k, w)
  <2>1. UNCHANGED <<writerIdx, readerIdx, data, out>>
    BY <1>4 DEF ReaderGetBuffer, ReaderGetUnreadCnt, ReaderGetBufferN, ReaderTake,
       ReaderPeek, wVars
  <2> QED BY <2>1, SameSeq
<1>5. CASE \E n \in 1..BlockCnt : ReaderCommit(n)
  BY <1>5, CommitIsGet
<1>6. CASE ReaderRead
  <2>1. /\ rKnown > 0 /\ out' = data[rInfo.iov]
        /\ UNCHANGED <<writerIdx, readerIdx, data>>
    BY <1>6 DEF ReaderRead, wVars
  <2>2. rInfo.iov = Slot(readerIdx) /\ writerIdx - readerIdx >= 1
    BY <2>1, BlockCntAssumption, MaxIdxAssumption
       DEF IndInv, TypeOK, ReaderAtFirstUnread
  <2>3. readerIdx + 1 - 1 = readerIdx
    BY MaxIdxAssumption DEF IndInv, TypeOK
  <2>4. UnreadSeq # <<>> /\ Head(UnreadSeq) = UnreadSeq[1]
    BY <2>2, UnreadSeqType, EmptySeq
  <2>5. UnreadSeq[1] = data[Slot(readerIdx)]
    <3>1. 1 \in 1..(writerIdx - readerIdx)
      BY <2>2, UnreadSeqType
    <3> QED BY <2>3, <3>1, UnreadSeqType
  <2>6. Fifo!Peek
    BY <2>1, <2>2, <2>4, <2>5, SameSeq DEF Fifo!Peek
  <2> QED BY <2>6 DEF Fifo!Next
<1>7. CASE ReaderResetOut \/ Reset
  <2>1. writerIdx \in Nat
    BY MaxIdxAssumption DEF IndInv, TypeOK
  <2>2. writerIdx' - readerIdx' = 0 /\ out' = out
    BY <1>7, <2>1 DEF ReaderResetOut, Reset, wVars
  <2>3. UnreadSeq' = <<>>
    BY <2>2 DEF UnreadSeq
  <2> QED BY <2>2, <2>3 DEF Fifo!Next, Fifo!Clear
<1>8. CASE UNCHANGED vars
  BY <1>8, SameSeq DEF vars, wVars, rVars
<1> QED BY <1>1, <1>2, <1>3, <1>4, <1>5, <1>6, <1>7, <1>8 DEF Next, Writer, Reader

(* The block ring implements the bounded FIFO queue, for every block count:  *)
(* no element is lost, duplicated, reordered or torn by a concurrent write,  *)
(* and at most BlockCnt are unread.                                          *)
THEOREM Refinement ==
    Spec => ImplementsFifo
<1>1. Init => Fifo!Init
  <2> SUFFICES ASSUME Init PROVE Fifo!Init
    OBVIOUS
  <2>1. writerIdx - readerIdx = 0
    BY DEF Init
  <2> QED BY <2>1 DEF Init, Fifo!Init, UnreadSeq
<1>2. IndInv /\ IndInv' /\ [Next]_vars => [Fifo!Next]_<<UnreadSeq, out>>
  BY StepRefines
<1> QED BY <1>1, <1>2, Invariance, PTL DEF Spec, ImplementsFifo, Fifo!Spec

=============================================================================
