--------------------------- MODULE EventLoopProofs ---------------------------
(* Proofs about EventLoop for every set of threads, jobs and handlers and    *)
(* every value of the bounds.                                                *)
EXTENDS EventLoop, SequenceTheorems, TLAPS

USE DEF jobVars, handlerVars, pollVars, loopVars, countVars

(* Appending to the second part of a concatenation. *)
LEMMA ConcatAppend ==
  ASSUME NEW S, NEW s \in Seq(S), NEW t \in Seq(S), NEW x \in S
  PROVE  s \o Append(t, x) = Append(s \o t, x)
  OBVIOUS

(* The empty sequence is neutral. *)
LEMMA ConcatEmpty ==
  ASSUME NEW S, NEW s \in Seq(S)
  PROVE  s \o <<>> = s /\ <<>> \o s = s
  OBVIOUS

(* Moving the first element of the second part to the end of the first.      *)
LEMMA MoveHead ==
  ASSUME NEW S, NEW s \in Seq(S), NEW t \in Seq(S), t # <<>>
  PROVE  Append(s, Head(t)) \o Tail(t) = s \o t
  OBVIOUS

(* The whole of a sequence, and what is left of it after its last element.   *)
LEMMA SubSeqEnds ==
  ASSUME NEW S, NEW s \in Seq(S)
  PROVE  SubSeq(s, 1, Len(s)) = s /\ SubSeq(s, Len(s) + 1, Len(s)) = <<>>
  OBVIOUS

(* What is left of a sequence after k elements begins with the next one.     *)
LEMMA RestHead ==
  ASSUME NEW S, NEW s \in Seq(S), NEW k \in Nat, k < Len(s)
  PROVE  /\ SubSeq(s, k + 1, Len(s)) \in Seq(S)
         /\ SubSeq(s, k + 1, Len(s)) # <<>>
         /\ Head(SubSeq(s, k + 1, Len(s))) = s[k + 1]
         /\ Tail(SubSeq(s, k + 1, Len(s))) = SubSeq(s, k + 2, Len(s))
<1>1. Head(SubSeq(s, k + 1, Len(s))) = s[k + 1]
      /\ Tail(SubSeq(s, k + 1, Len(s))) = SubSeq(s, k + 1 + 1, Len(s))
  <2>1. k + 1 \in 1..Len(s) /\ Len(s) \in k + 1 .. Len(s)
    OBVIOUS
  <2> QED
    BY <2>1, HeadTailOfSubSeq
<1>2. SubSeq(s, k + 1, Len(s)) \in Seq(S) /\ SubSeq(s, k + 1, Len(s)) # <<>>
  <2>1. \A i \in k + 1 .. Len(s) : s[i] \in S
    OBVIOUS
  <2>2. /\ SubSeq(s, k + 1, Len(s)) \in Seq(S)
        /\ Len(SubSeq(s, k + 1, Len(s))) > 0
    BY <2>1, SubSeqProperties
  <2> DEFINE r == SubSeq(s, k + 1, Len(s))
  <2>3. r \in Seq(S) /\ Len(r) > 0
    BY <2>2
  <2> HIDE DEF r
  <2>4. r # <<>>
    BY <2>3
  <2> QED
    BY <2>2, <2>4 DEF r
<1>3. k + 1 + 1 = k + 2
  OBVIOUS
<1> QED
  BY <1>1, <1>2, <1>3

(* The tail of a nonempty sequence with an element appended.                 *)
LEMMA TailAppend ==
  ASSUME NEW S, NEW s \in Seq(S), s # <<>>, NEW x \in S
  PROVE  Tail(Append(s, x)) = Append(Tail(s), x)
  OBVIOUS
-----------------------------------------------------------------------------
(* The initial state has the types. *)
LEMMA InitTypeOK == Init => TypeOK
<1> SUFFICES ASSUME Init
             PROVE  TypeOK
  OBVIOUS
<1>1. opc \in [Others -> Calls]
  BY DEF Init, Idle, Calls
<1>2. timeout0 \in BOOLEAN
  BY Zenon DEF Init
<1> QED
  BY <1>1, <1>2 DEF Init, TypeOK

(* A step of the loop thread keeps the types.  SamePop and SwapJobs need to  *)
(* know where the loop thread is: a front job is being run, the swapped      *)
(* vector is empty.                                                          *)
LEMMA LoopStepTypeOK ==
  ASSUME TypeOK, JobInv, LoopStep
  PROVE  TypeOK'
<1>1. CASE StartLoop
  BY <1>1 DEF TypeOK, StartLoop
<1>2. CASE EnterLoop
  BY <1>2 DEF TypeOK, EnterLoop
<1>3. CASE WhileTest
  BY <1>3 DEF TypeOK, WhileTest
<1>4. CASE InstrTest
  BY <1>4 DEF TypeOK, InstrTest
<1>5. CASE SwapInstr
  BY <1>5 DEF TypeOK, SwapInstr
<1>6. CASE ApplyInstr
  <2> DEFINE i == Head(newVec)
  <2>1. i \in Instrs /\ newVec' \in Seq(Instrs)
    BY <1>6, HeadTailProperties DEF TypeOK, ApplyInstr
  <2>2. i.evt \in Handlers
    BY <2>1 DEF Instrs
  <2>3. CASE RemoveInstr(i.evt)
    BY <1>6, <2>1, <2>2, <2>3 DEF TypeOK, ApplyInstr, RemoveInstr
  <2>4. CASE AddInstr(i.evt) /\ UNCHANGED <<removed, ready>>
    BY <1>6, <2>1, <2>2, <2>4 DEF TypeOK, ApplyInstr, AddInstr
  <2> QED
    BY <1>6, <2>3, <2>4 DEF ApplyInstr
<1>7. CASE ApplyDone
  BY <1>7 DEF TypeOK, ApplyDone
<1>8. CASE BusyBegin
  BY <1>8 DEF TypeOK, BusyBegin
<1>9. CASE BusyRun
  BY <1>9 DEF TypeOK, BusyRun
<1>10. CASE SameBegin
  BY <1>10 DEF TypeOK, SameBegin
<1>11. CASE SameRun
  BY <1>11 DEF TypeOK, RunJob, Items, SameRun
<1>12. CASE SamePop
  BY <1>12 DEF TypeOK, SamePop, JobInv, FrontRuns
<1>13. CASE SameDone
  BY <1>13 DEF TypeOK, SameDone
<1>14. CASE Dispatch
  BY <1>14 DEF TypeOK, Dispatch
<1>15. CASE HandleEvent
  BY <1>15 DEF TypeOK, OnTimer, HandleEvent
<1>16. CASE OtherTest
  BY <1>16 DEF TypeOK, OtherTest
<1>17. CASE SwapJobs
  BY <1>17 DEF TypeOK, SwapJobs, JobInv, At
<1>18. CASE OtherRun
  BY <1>18 DEF TypeOK, RunJob, Items, OtherRun
<1>19. CASE OtherClear
  BY <1>19 DEF TypeOK, OtherClear
<1>20. CASE ClearRemoved
  BY <1>20 DEF TypeOK, ClearRemoved
<1>21. CASE CbReturn
  BY <1>21 DEF TypeOK, CbReturn
<1> QED
  BY <1>1, <1>2, <1>3, <1>4, <1>5, <1>6, <1>7, <1>8, <1>9, <1>10, <1>11, <1>12, <1>13, <1>14, <1>15, <1>16, <1>17, <1>18, <1>19, <1>20, <1>21, LoopStep DEF LoopStep

(* A step of another thread inside a call, or of user code on the loop       *)
(* thread, keeps the types.                                                  *)
LEMMA CallTypeOK ==
  ASSUME TypeOK, Next, ~LoopStep
  PROVE  TypeOK'
<1>1. ASSUME NEW t \in Others, PostPush(t)
      PROVE  TypeOK'
  <2>1. opc[t].arg \in Items /\ opc' \in [Others -> Calls]
    BY <1>1 DEF TypeOK, PostPush, Calls
  <2>2. otherQ' \in Seq(Items) /\ posted' \in Seq(Items)
    BY <1>1, <2>1 DEF TypeOK, PostPush
  <2> QED
    BY <1>1, <2>1, <2>2, SMTT(30) DEF TypeOK, PostPush
<1>2. ASSUME NEW t \in Others, PostWake(t)
      PROVE  TypeOK'
  BY <1>2 DEF TypeOK, PostWake, Idle, Calls
<1>3. ASSUME NEW t \in Others, InstrPush(t)
      PROVE  TypeOK'
  <2>1. opc[t].arg \in Instrs /\ opc' \in [Others -> Calls]
    BY <1>3 DEF TypeOK, InstrPush, Calls
  <2> QED
    BY <1>3, <2>1 DEF TypeOK, InstrPush
<1>4. ASSUME NEW t \in Others, InstrUnlock(t)
      PROVE  TypeOK'
  BY <1>4 DEF TypeOK, InstrUnlock, Idle, Calls
<1>5. ASSUME NEW t \in Others, NEW j \in Jobs, PostCall(t, j)
      PROVE  TypeOK'
  BY <1>5, SMTT(30) DEF TypeOK, PostCall, Items, Calls
<1>6. ASSUME NEW t \in Others, CloseCall(t)
      PROVE  TypeOK'
  BY <1>6, SMTT(30) DEF TypeOK, CloseCall, Items, Calls
<1>7. ASSUME NEW t \in Others, NEW i \in Instrs, InstrCall(t, i)
      PROVE  TypeOK'
  BY <1>7 DEF TypeOK, InstrCall, Calls
<1>8. ASSUME NEW j \in Jobs, CbPost(j)
      PROVE  TypeOK'
  BY <1>8 DEF TypeOK, CbPost, Items
<1>9. CASE CbClose
  BY <1>9 DEF TypeOK, CbClose, Items
<1>10. ASSUME NEW i \in Instrs, CbInstr(i)
       PROVE  TypeOK'
  BY <1>10 DEF TypeOK, CbInstr
<1>11. ASSUME NEW x \in Handlers \cup {Timer}, BecomesReady(x)
       PROVE  TypeOK'
  BY <1>11 DEF TypeOK, BecomesReady
<1>12. CASE Terminated
  BY <1>12 DEF TypeOK, Terminated, vars
<1> QED
  BY <1>1, <1>2, <1>3, <1>4, <1>5, <1>6, <1>7, <1>8, <1>9, <1>10, <1>11, <1>12
  DEF Next, CallStep

-----------------------------------------------------------------------------
(* What JobInv is about, when a step leaves the queues alone and does not    *)
(* move the loop thread into or out of running a job.                        *)
LEMMA JobFrame ==
  ASSUME JobInv, UNCHANGED jobVars,
         At("otherRun")' <=> At("otherRun"), FrontRuns' <=> FrontRuns
  PROVE  JobInv'
  BY DEF JobInv, OtherJobsInOrder, SameJobsInOrder, jobVars

(* The same for the queue of the loop thread alone, and for the one of the   *)
(* other threads alone.                                                      *)
LEMMA SameFrame ==
  ASSUME JobInv, UNCHANGED <<samePosted, sameRan, sameQ, sameCnt>>,
         FrontRuns' <=> FrontRuns
  PROVE  SameJobsInOrder' /\ (FrontRuns' => sameCnt' > 0)
  BY DEF JobInv, SameJobsInOrder

(* A step that leaves the other-thread queues alone and does not enter or   *)
(* leave process_other_thread_job in the middle keeps that half of JobInv.   *)
LEMMA OtherFrame ==
  ASSUME JobInv, UNCHANGED <<posted, ran, swapVec, oi, otherQ>>,
         At("otherRun")' <=> At("otherRun")
  PROVE  OtherJobsInOrder' /\ (~At("otherRun")' => swapVec' = <<>> /\ oi' = 0)
  BY DEF JobInv, OtherJobsInOrder

(* Initially every queue is empty. *)
LEMMA InitJobInv == Init => JobInv
<1> SUFFICES ASSUME Init
             PROVE  JobInv
  OBVIOUS
<1>1. <<>> \in Seq(Items) /\ SubSeq(<<>>, 1, Len(<<>>)) = <<>> /\ <<>> \o <<>> = <<>>
  BY SubSeqEnds, ConcatEmpty
<1>2. Len(<<>>) = 0 /\ 0 + 1 = 1 /\ ~FrontRuns /\ ~At("otherRun")
  BY DEF Init, FrontRuns, At
<1> QED
  BY <1>1, <1>2 DEF Init, JobInv, OtherJobsInOrder, SameJobsInOrder

(* A push by another thread extends what is queued. *)
LEMMA PostPushJobInv ==
  ASSUME TypeOK, JobInv, NEW t \in Others, PostPush(t)
  PROVE  JobInv'
<1> DEFINE rest == SubSeq(swapVec, oi + 1, Len(swapVec))
           x == opc[t].arg
<1>1. x \in Items
  BY DEF TypeOK, PostPush, Calls
<1>2. rest \in Seq(Items) /\ ran \o rest \in Seq(Items)
  BY DEF TypeOK
<1>3. posted' = (ran \o rest) \o Append(otherQ, x)
  <2>1. posted' = Append((ran \o rest) \o otherQ, x)
    BY DEF PostPush, JobInv, OtherJobsInOrder
  <2> DEFINE u == ran \o rest
  <2>2. u \in Seq(Items) /\ otherQ \in Seq(Items)
    BY <1>2 DEF TypeOK
  <2>3. posted' = Append(u \o otherQ, x)
    BY <2>1
  <2> HIDE DEF u, rest, x
  <2>4. u \o Append(otherQ, x) = Append(u \o otherQ, x)
    BY <1>1, <2>2, ConcatAppend
  <2> QED
    BY <2>3, <2>4 DEF u
<1>4. OtherJobsInOrder'
  BY <1>3 DEF PostPush, OtherJobsInOrder
<1>5. ~At("otherRun")' => swapVec' = <<>> /\ oi' = 0
  BY DEF PostPush, JobInv, At
<1> QED
  BY <1>4, <1>5, SameFrame DEF PostPush, JobInv, FrontRuns

(* The swap moves the queued jobs to the empty vector. *)
LEMMA SwapJobsJobInv ==
  ASSUME TypeOK, JobInv, SwapJobs
  PROVE  JobInv'
<1>1. swapVec = <<>> /\ oi = 0
  BY DEF SwapJobs, JobInv, At
<1>2. posted = ran \o otherQ
  <2>1. SubSeq(swapVec, oi + 1, Len(swapVec)) = <<>>
    BY <1>1
  <2> QED
    BY <2>1, ConcatEmpty DEF JobInv, OtherJobsInOrder, TypeOK
<1>3. OtherJobsInOrder'
  <2>1. SubSeq(swapVec', oi' + 1, Len(swapVec')) = otherQ
    BY <1>1, SubSeqEnds DEF SwapJobs, TypeOK
  <2>2. ran \o otherQ \in Seq(Items)
    BY DEF TypeOK
  <2>3. (ran \o otherQ) \o <<>> = ran \o otherQ
    BY <2>2, ConcatEmpty
  <2> QED
    BY <1>1, <1>2, <2>1, <2>3 DEF SwapJobs, OtherJobsInOrder
<1> QED
  BY <1>3, SameFrame DEF SwapJobs, JobInv, FrontRuns, At

(* Running a job of the swapped vector moves it to those that have run. *)
LEMMA OtherRunJobInv ==
  ASSUME TypeOK, JobInv, OtherRun
  PROVE  JobInv'
<1> DEFINE rest == SubSeq(swapVec, oi + 1, Len(swapVec))
<1>1. /\ rest \in Seq(Items) /\ rest # <<>>
      /\ Head(rest) = swapVec[oi + 1]
      /\ Tail(rest) = SubSeq(swapVec, oi + 2, Len(swapVec))
  <2>1. oi \in Nat /\ oi < Len(swapVec) /\ swapVec \in Seq(Items)
    BY DEF OtherRun, TypeOK
  <2> QED
    BY <2>1, RestHead
<1>2. oi' + 1 = oi + 2
  BY DEF OtherRun, TypeOK
<1>3. Append(ran, Head(rest)) \o Tail(rest) = ran \o rest
  <2> HIDE DEF rest
  <2> QED
    BY <1>1, MoveHead DEF TypeOK
<1>4. OtherJobsInOrder'
  BY <1>1, <1>2, <1>3 DEF OtherRun, JobInv, OtherJobsInOrder
<1>5. At("otherRun")' /\ ~FrontRuns /\ ~FrontRuns'
  BY DEF OtherRun, RunJob, At, FrontRuns
<1> QED
  BY <1>4, <1>5, SameFrame DEF OtherRun, JobInv

(* Clearing the vector forgets only jobs that have run. *)
LEMMA OtherClearJobInv ==
  ASSUME TypeOK, JobInv, OtherClear
  PROVE  JobInv'
<1>1. SubSeq(swapVec, oi + 1, Len(swapVec)) = <<>>
  BY SubSeqEnds DEF OtherClear, TypeOK
<1>2. SubSeq(swapVec', oi' + 1, Len(swapVec')) = <<>>
  BY DEF OtherClear
<1>3. OtherJobsInOrder'
  BY <1>1, <1>2 DEF OtherClear, JobInv, OtherJobsInOrder
<1>4. ~At("otherRun")' /\ ~FrontRuns /\ ~FrontRuns'
  BY DEF OtherClear, At, FrontRuns
<1> QED
  BY <1>3, <1>4, SameFrame DEF OtherClear, JobInv

(* A post or close on the loop thread extends the deque at its back. *)
LEMMA SamePushJobInv ==
  ASSUME TypeOK, JobInv, NEW j \in Items, pc = "cb",
         sameQ' = Append(sameQ, j), samePosted' = Append(samePosted, j),
         UNCHANGED <<loopVars, otherQ, swapVec, oi, sameCnt, posted, ran, sameRan>>
  PROVE  JobInv'
<1> DEFINE rest == IF FrontRuns THEN Tail(sameQ) ELSE sameQ
<1>1. FrontRuns' <=> FrontRuns
  BY DEF FrontRuns
<1>2. FrontRuns => sameQ # <<>>
  BY DEF JobInv, TypeOK
<1>3. rest \in Seq(Items)
  BY <1>2, HeadTailProperties DEF TypeOK
<1>4. (IF FrontRuns' THEN Tail(sameQ') ELSE sameQ') = Append(rest, j)
  BY <1>1, <1>2, TailAppend DEF TypeOK
<1>5. sameRan \o Append(rest, j) = Append(sameRan \o rest, j)
  <2>1. sameRan \in Seq(Items)
    BY DEF TypeOK
  <2> HIDE DEF rest
  <2> QED
    BY <1>3, <2>1, ConcatAppend
<1>6. SameJobsInOrder'
  BY <1>4, <1>5 DEF JobInv, SameJobsInOrder
<1> QED
  BY <1>1, <1>6, OtherFrame DEF JobInv, At

(* The front job counts as run from the moment it starts... *)
LEMMA SameRunJobInv ==
  ASSUME TypeOK, JobInv, SameRun
  PROVE  JobInv'
<1>1. sameQ # <<>>
  BY DEF SameRun, TypeOK
<1>2. ~FrontRuns /\ FrontRuns' /\ ~At("otherRun") /\ ~At("otherRun")'
  BY DEF SameRun, RunJob, FrontRuns, At
<1>3. SameJobsInOrder'
  <2>1. sameRan \in Seq(Items) /\ sameQ \in Seq(Items)
    BY DEF TypeOK
  <2>2. sameRan \o sameQ = Append(sameRan, Head(sameQ)) \o Tail(sameQ)
    BY <1>1, <2>1, MoveHead
  <2> QED
    BY <1>2, <2>2 DEF SameRun, JobInv, SameJobsInOrder
<1> QED
  BY <1>2, <1>3, OtherFrame DEF SameRun, JobInv

(* ...so its pop changes nothing. *)
LEMMA SamePopJobInv ==
  ASSUME TypeOK, JobInv, SamePop
  PROVE  JobInv'
<1>1. FrontRuns /\ ~FrontRuns' /\ ~At("otherRun") /\ ~At("otherRun")'
  BY DEF SamePop, FrontRuns, At
<1>2. SameJobsInOrder'
  BY <1>1 DEF SamePop, JobInv, SameJobsInOrder
<1> QED
  BY <1>1, <1>2, OtherFrame DEF SamePop, JobInv

(* The whole next-state relation keeps the invariant of the job queues. *)
LEMMA NextJobInv ==
  ASSUME TypeOK, JobInv, [Next]_vars
  PROVE  JobInv'
<1>1. CASE SameBegin
  <2>1. ~FrontRuns /\ ~FrontRuns' /\ ~At("otherRun") /\ ~At("otherRun")'
    BY <1>1 DEF SameBegin, FrontRuns, At
  <2> QED
    BY <1>1, <2>1, OtherFrame DEF SameBegin, JobInv, SameJobsInOrder
<1>2. CASE SameRun
  BY <1>2, SameRunJobInv
<1>3. CASE SamePop
  BY <1>3, SamePopJobInv
<1>4. CASE SwapJobs
  BY <1>4, SwapJobsJobInv
<1>5. CASE OtherRun
  BY <1>5, OtherRunJobInv
<1>6. CASE OtherClear
  BY <1>6, OtherClearJobInv
<1>7. ASSUME NEW t \in Others, PostPush(t)
      PROVE  JobInv'
  BY <1>7, PostPushJobInv
<1>8. ASSUME NEW j \in Jobs, CbPost(j)
      PROVE  JobInv'
  BY <1>8, SamePushJobInv DEF CbPost, Items
<1>9. CASE CbClose
  BY <1>9, SamePushJobInv DEF CbClose, Items
<1>10. CASE StartLoop
  BY <1>10, JobFrame DEF StartLoop, FrontRuns, At, TypeOK
<1>11. CASE EnterLoop
  BY <1>11, JobFrame DEF EnterLoop, FrontRuns, At, TypeOK
<1>12. CASE WhileTest
  BY <1>12, JobFrame DEF WhileTest, FrontRuns, At, TypeOK
<1>13. CASE InstrTest
  BY <1>13, JobFrame DEF InstrTest, FrontRuns, At, TypeOK
<1>14. CASE SwapInstr
  BY <1>14, JobFrame DEF SwapInstr, FrontRuns, At, TypeOK
<1>15. CASE ApplyInstr
  BY <1>15, JobFrame DEF ApplyInstr, AddInstr, RemoveInstr, FrontRuns, At, TypeOK
<1>16. CASE ApplyDone
  BY <1>16, JobFrame DEF ApplyDone, FrontRuns, At, TypeOK
<1>17. CASE BusyBegin
  BY <1>17, JobFrame DEF BusyBegin, FrontRuns, At, TypeOK
<1>18. CASE BusyRun
  BY <1>18, JobFrame DEF BusyRun, FrontRuns, At, TypeOK
<1>19. CASE SameDone
  BY <1>19, JobFrame DEF SameDone, FrontRuns, At, TypeOK
<1>20. CASE Dispatch
  BY <1>20, JobFrame DEF Dispatch, FrontRuns, At, TypeOK
<1>21. CASE HandleEvent
  BY <1>21, JobFrame DEF HandleEvent, FrontRuns, At, TypeOK
<1>22. CASE OtherTest
  BY <1>22, JobFrame DEF OtherTest, FrontRuns, At, TypeOK
<1>23. CASE ClearRemoved
  BY <1>23, JobFrame DEF ClearRemoved, FrontRuns, At, TypeOK
<1>24. CASE CbReturn
  BY <1>24, JobFrame DEF CbReturn, FrontRuns, At, TypeOK
<1>25. ASSUME NEW t \in Others, NEW j \in Jobs, PostCall(t, j)
       PROVE  JobInv'
  BY <1>25, JobFrame DEF PostCall, FrontRuns, At
<1>26. ASSUME NEW t \in Others, CloseCall(t)
       PROVE  JobInv'
  BY <1>26, JobFrame DEF CloseCall, FrontRuns, At
<1>27. ASSUME NEW t \in Others, PostWake(t)
       PROVE  JobInv'
  BY <1>27, JobFrame DEF PostWake, FrontRuns, At
<1>28. ASSUME NEW t \in Others, NEW i \in Instrs, InstrCall(t, i)
       PROVE  JobInv'
  BY <1>28, JobFrame DEF InstrCall, FrontRuns, At
<1>29. ASSUME NEW t \in Others, InstrPush(t)
       PROVE  JobInv'
  BY <1>29, JobFrame DEF InstrPush, FrontRuns, At
<1>30. ASSUME NEW t \in Others, InstrUnlock(t)
       PROVE  JobInv'
  BY <1>30, JobFrame DEF InstrUnlock, FrontRuns, At
<1>31. ASSUME NEW i \in Instrs, CbInstr(i)
       PROVE  JobInv'
  BY <1>31, JobFrame DEF CbInstr, FrontRuns, At
<1>32. ASSUME NEW x \in Handlers \cup {Timer}, BecomesReady(x)
       PROVE  JobInv'
  BY <1>32, JobFrame DEF BecomesReady, FrontRuns, At
<1>33. CASE UNCHANGED vars
  BY <1>33, JobFrame DEF vars, FrontRuns, At
<1> QED
  BY <1>1, <1>2, <1>3, <1>4, <1>5, <1>6, <1>7, <1>8, <1>9, <1>10, <1>11, <1>12, <1>13, <1>14, <1>15, <1>16, <1>17, <1>18, <1>19, <1>20, <1>21, <1>22, <1>23, <1>24, <1>25, <1>26, <1>27, <1>28, <1>29, <1>30, <1>31, <1>32, <1>33
  DEF Next, LoopStep, CallStep, Terminated

-----------------------------------------------------------------------------
(* Initially there is no handler. *)
LEMMA InitHandlerInv == Init => HandlerInv
  BY DEF Init, HandlerInv, RegistrationsAgree

(* Applying an instruction keeps the loop's sets, the poller's reads and the *)
(* started handlers in step; no callback is pending while it does.           *)
LEMMA ApplyHandlerInv ==
  ASSUME TypeOK, HandlerInv, ApplyInstr
  PROVE  HandlerInv'
<1> DEFINE h == Head(newVec).evt
<1>1. busyIter = {} /\ due = {} /\ cur = None
  BY DEF ApplyInstr, HandlerInv, At
<1>2. h \in Handlers
  <2>1. Head(newVec) \in Instrs
    BY HeadTailProperties DEF ApplyInstr, TypeOK
  <2> QED
    BY <2>1 DEF Instrs
<1>3. CASE RemoveInstr(h)
  <2>1. /\ polled = live /\ live = handlers \cup (busy \cap BusyType)
        /\ busy \subseteq handlers \cup BusyType
        /\ handlers \subseteq Handlers \ BusyType /\ ready \subseteq live \cup {Timer}
    BY DEF HandlerInv, RegistrationsAgree, TypeOK
  <2>2. /\ busy' = busy \ {h} /\ live' = live \ {h}
        /\ handlers' = handlers \ {h}
    BY <1>3, <2>1 DEF RemoveInstr
  <2>3. polled' = polled \ {h}
    BY <1>2, <1>3, <2>1 DEF RemoveInstr
  <2>4. RegistrationsAgree'
    BY <2>1, <2>2, <2>3 DEF RegistrationsAgree
  <2>5. ready' \subseteq live' \cup {Timer}
    BY <1>3, <2>1, <2>2, <2>3 DEF RemoveInstr
  <2>6. busyIter' = {} /\ due' = {} /\ cur' = None
    BY <1>1 DEF ApplyInstr
  <2> QED
    BY <2>4, <2>5, <2>6 DEF HandlerInv
<1>4. CASE AddInstr(h) /\ UNCHANGED <<removed, ready>>
  <2>1. /\ polled = live /\ live = handlers \cup (busy \cap BusyType)
        /\ busy \subseteq handlers \cup BusyType
        /\ handlers \subseteq Handlers \ BusyType /\ ready \subseteq live \cup {Timer}
    BY DEF HandlerInv, RegistrationsAgree, TypeOK
  <2>2. RegistrationsAgree'
    BY <1>4, <2>1 DEF AddInstr, RegistrationsAgree
  <2>3. ready' \subseteq live' \cup {Timer}
    BY <1>4, <2>1 DEF AddInstr
  <2>4. busyIter' = {} /\ due' = {} /\ cur' = None
    BY <1>1 DEF ApplyInstr
  <2> QED
    BY <2>2, <2>3, <2>4 DEF HandlerInv
<1> QED
  BY <1>3, <1>4 DEF ApplyInstr

(* The whole next-state relation keeps the invariant of the handlers. *)
LEMMA NextHandlerInv ==
  ASSUME TypeOK, HandlerInv, [Next]_vars
  PROVE  HandlerInv'
<1>1. CASE ApplyInstr
  BY <1>1, ApplyHandlerInv
<1>2. CASE StartLoop
  BY <1>2, HandlerAssumption
  DEF StartLoop, HandlerInv, RegistrationsAgree, At, TypeOK
<1>3. CASE EnterLoop
  BY <1>3, HandlerAssumption
  DEF EnterLoop, HandlerInv, RegistrationsAgree, At, TypeOK
<1>4. CASE WhileTest
  BY <1>4, HandlerAssumption
  DEF WhileTest, HandlerInv, RegistrationsAgree, At, TypeOK
<1>5. CASE InstrTest
  BY <1>5, HandlerAssumption
  DEF InstrTest, HandlerInv, RegistrationsAgree, At, TypeOK
<1>6. CASE SwapInstr
  BY <1>6, HandlerAssumption
  DEF SwapInstr, HandlerInv, RegistrationsAgree, At, TypeOK
<1>7. CASE ApplyDone
  BY <1>7, HandlerAssumption
  DEF ApplyDone, HandlerInv, RegistrationsAgree, At, TypeOK
<1>8. CASE BusyBegin
  BY <1>8, HandlerAssumption
  DEF BusyBegin, HandlerInv, RegistrationsAgree, At, TypeOK
<1>9. CASE BusyRun
  BY <1>9, HandlerAssumption
  DEF BusyRun, HandlerInv, RegistrationsAgree, At, TypeOK
<1>10. CASE SameBegin
  BY <1>10, HandlerAssumption
  DEF SameBegin, HandlerInv, RegistrationsAgree, At, TypeOK
<1>11. CASE SameRun
  BY <1>11, HandlerAssumption
  DEF SameRun, RunJob, HandlerInv, RegistrationsAgree, At, TypeOK
<1>12. CASE SamePop
  BY <1>12, HandlerAssumption
  DEF SamePop, HandlerInv, RegistrationsAgree, At, TypeOK
<1>13. CASE SameDone
  BY <1>13, HandlerAssumption
  DEF SameDone, HandlerInv, RegistrationsAgree, At, TypeOK
<1>14. CASE Dispatch
  BY <1>14, HandlerAssumption
  DEF Dispatch, HandlerInv, RegistrationsAgree, At, TypeOK
<1>15. CASE HandleEvent
  BY <1>15, HandlerAssumption
  DEF HandleEvent, OnTimer, HandlerInv, RegistrationsAgree, At, TypeOK
<1>16. CASE OtherTest
  BY <1>16, HandlerAssumption
  DEF OtherTest, HandlerInv, RegistrationsAgree, At, TypeOK
<1>17. CASE SwapJobs
  BY <1>17, HandlerAssumption
  DEF SwapJobs, HandlerInv, RegistrationsAgree, At, TypeOK
<1>18. CASE OtherRun
  BY <1>18, HandlerAssumption
  DEF OtherRun, RunJob, HandlerInv, RegistrationsAgree, At, TypeOK
<1>19. CASE OtherClear
  BY <1>19, HandlerAssumption
  DEF OtherClear, HandlerInv, RegistrationsAgree, At, TypeOK
<1>20. CASE ClearRemoved
  BY <1>20, HandlerAssumption
  DEF ClearRemoved, HandlerInv, RegistrationsAgree, At, TypeOK
<1>21. CASE CbReturn
  BY <1>21, HandlerAssumption
  DEF CbReturn, HandlerInv, RegistrationsAgree, At, TypeOK
<1>22. CASE CbClose
  BY <1>22, HandlerAssumption
  DEF CbClose, HandlerInv, RegistrationsAgree, At, TypeOK
<1>23. ASSUME NEW t \in Others, NEW j \in Jobs, PostCall(t, j)
       PROVE  HandlerInv'
  BY <1>23 DEF PostCall, HandlerInv, RegistrationsAgree, At
<1>24. ASSUME NEW t \in Others, CloseCall(t)
       PROVE  HandlerInv'
  BY <1>24 DEF CloseCall, HandlerInv, RegistrationsAgree, At
<1>25. ASSUME NEW t \in Others, PostPush(t)
       PROVE  HandlerInv'
  BY <1>25 DEF PostPush, HandlerInv, RegistrationsAgree, At
<1>26. ASSUME NEW t \in Others, PostWake(t)
       PROVE  HandlerInv'
  BY <1>26 DEF PostWake, HandlerInv, RegistrationsAgree, At
<1>27. ASSUME NEW t \in Others, NEW i \in Instrs, InstrCall(t, i)
       PROVE  HandlerInv'
  BY <1>27 DEF InstrCall, HandlerInv, RegistrationsAgree, At
<1>28. ASSUME NEW t \in Others, InstrPush(t)
       PROVE  HandlerInv'
  BY <1>28 DEF InstrPush, HandlerInv, RegistrationsAgree, At
<1>29. ASSUME NEW t \in Others, InstrUnlock(t)
       PROVE  HandlerInv'
  BY <1>29 DEF InstrUnlock, HandlerInv, RegistrationsAgree, At
<1>30. ASSUME NEW j \in Jobs, CbPost(j)
       PROVE  HandlerInv'
  BY <1>30 DEF CbPost, HandlerInv, RegistrationsAgree, At
<1>31. ASSUME NEW i \in Instrs, CbInstr(i)
       PROVE  HandlerInv'
  BY <1>31 DEF CbInstr, HandlerInv, RegistrationsAgree, At
<1>32. ASSUME NEW x \in Handlers \cup {Timer}, BecomesReady(x)
       PROVE  HandlerInv'
  BY <1>32 DEF BecomesReady, HandlerInv, RegistrationsAgree, At
<1>33. CASE UNCHANGED vars
  BY <1>33 DEF vars, HandlerInv, RegistrationsAgree, At
<1> QED
  BY <1>1, <1>2, <1>3, <1>4, <1>5, <1>6, <1>7, <1>8, <1>9, <1>10, <1>11, <1>12, <1>13, <1>14, <1>15, <1>16, <1>17, <1>18, <1>19, <1>20, <1>21, <1>22, <1>23, <1>24, <1>25, <1>26, <1>27, <1>28, <1>29, <1>30, <1>31, <1>32, <1>33
  DEF Next, LoopStep, CallStep, Terminated

-----------------------------------------------------------------------------
(* The types and the two invariants hold in every reachable state of the     *)
(* loop.                                                                     *)
THEOREM LoopInvariant == Spec => [](TypeOK /\ JobInv /\ HandlerInv)
<1>1. Init => TypeOK /\ JobInv /\ HandlerInv
  BY InitTypeOK, InitJobInv, InitHandlerInv
<1>2. TypeOK /\ JobInv /\ HandlerInv /\ [Next]_vars => (TypeOK /\ JobInv /\ HandlerInv)'
  <2> SUFFICES ASSUME TypeOK, JobInv, HandlerInv, [Next]_vars
               PROVE  (TypeOK /\ JobInv /\ HandlerInv)'
    OBVIOUS
  <2>1. TypeOK'
    <3>1. CASE LoopStep
      BY <3>1, LoopStepTypeOK
    <3>2. CASE Next /\ ~LoopStep
      BY <3>2, CallTypeOK
    <3>3. CASE UNCHANGED vars
      BY <3>3 DEF vars, TypeOK
    <3> QED
      BY <3>1, <3>2, <3>3
  <2> QED
    BY <2>1, NextJobInv, NextHandlerInv
<1> QED
  BY <1>1, <1>2, PTL DEF Spec

(* Every variable of the loop keeps its type, in particular the count of     *)
(* same-thread jobs left to run never exceeds the deque it pops from.        *)
THEOREM LoopTypeCorrect == Spec => []TypeOK
  BY LoopInvariant, PTL

(* Jobs posted by other threads run once each and in the order pushed, for   *)
(* any number of threads and jobs.                                           *)
THEOREM OtherJobsOnceInOrder == Spec => []OtherJobsInOrder
<1>1. JobInv => OtherJobsInOrder
  BY DEF JobInv
<1> QED
  BY <1>1, LoopInvariant, PTL

(* Jobs posted on the loop thread run once each and in the order pushed.     *)
THEOREM SameJobsOnceInOrder == Spec => []SameJobsInOrder
<1>1. JobInv => SameJobsInOrder
  BY DEF JobInv
<1> QED
  BY <1>1, LoopInvariant, PTL

(* The poller watches exactly the handlers that are started, and those are   *)
(* the handlers in the loop's sets.                                          *)
THEOREM RegistrationsAlwaysAgree == Spec => []RegistrationsAgree
<1>1. HandlerInv => RegistrationsAgree
  BY DEF HandlerInv
<1> QED
  BY <1>1, LoopInvariant, PTL

(* No callback of a handler runs after its on_stopped. *)
THEOREM NoLateCallback == Spec => []NoCallbackAfterStop
<1>1. HandlerInv => NoCallbackAfterStop
  BY DEF HandlerInv, NoCallbackAfterStop
<1> QED
  BY <1>1, LoopInvariant, PTL

=============================================================================
