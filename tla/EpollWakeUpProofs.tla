-------------------------- MODULE EpollWakeUpProofs ---------------------------
(***************************************************************************)
(* Proof that the epoll backend loses no wake-up (WakeUpsKept), for every    *)
(* set of descriptors and tasks and all bounds.                              *)
(*                                                                           *)
(* NoLostWakeUp is not inductive.  That an edge is not lost needs why the    *)
(* flags are cleared (InsideFlags); that what is ready is scheduled needs    *)
(* how far handle_events has come: the n tasks it still tries are all there  *)
(* were when it began, so what a callback adds must have been queued again   *)
(* (ReadTried, WriteTried), behind the entry that do_ready_tasks is about to *)
(* pop (Later).  An accept and a group read stay submitted: they are tried   *)
(* once (StreamTried), and may then be left behind.                          *)
(***************************************************************************)
EXTENDS EpollProofs

-----------------------------------------------------------------------------
(* An edge is not lost. *)

(* EdgeNotLost, event by event *)
ReadNow(f) == sk[f].rx > 0 \/ sk[f].fin
ToldR(f) == \E r \in reported : r.fd = f /\ "R" \in r.mask
ToldW(f) == \E r \in reported : r.fd = f /\ "W" \in r.mask
EdgeOK ==
    \A f \in Fds : f \notin edge =>
        /\ "R" \in kern[f] /\ ReadNow(f) => ea[f].readable \/ ToldR(f)
        /\ "W" \in kern[f] /\ sk[f].space > 0 => ea[f].writable \/ ToldW(f)

(* EdgeOK says of each event what EdgeNotLost says of the sets of events. *)
LEMMA EdgeIs == EdgeOK => EdgeNotLost
<1> SUFFICES ASSUME EdgeOK, NEW f \in Fds, f \notin edge, NEW e \in kern[f] \cap ReadyNow(f)
             PROVE  e \in Flags(f) \cup Told(f)
  BY DEF EdgeNotLost
<1>1. e \in {"R", "W"} /\ e \in kern[f]
  BY DEF ReadyNow
<1>2. CASE e = "R"
  <2>1. ReadNow(f)
    BY <1>2 DEF ReadyNow, ReadNow
  <2>2. ea[f].readable \/ ToldR(f)
    BY <1>1, <1>2, <2>1 DEF EdgeOK
  <2> QED BY <1>2, <2>2 DEF ToldR, Flags, Told
<1>3. CASE e = "W"
  <2>1. sk[f].space > 0
    BY <1>3 DEF ReadyNow
  <2>2. ea[f].writable \/ ToldW(f)
    BY <1>1, <1>3, <2>1 DEF EdgeOK
  <2> QED BY <1>3, <2>2 DEF ToldW, Flags, Told
<1> QED BY <1>1, <1>2, <1>3

(* pop_front of a write, a read and a write put back leave the reads queued *)
(* (WriteOver, Reread, WriteBack).                                          *)
LEMMA KeepsReads ==
    ASSUME NEW a, NEW x
    PROVE  WriteOver(a).reads = a.reads /\ Reread(a, x).reads = a.reads /\ WriteBack(a).reads = a.reads
  BY DEF WriteOver, Reread, WriteBack, Rec

(* A group read that is not submitted waits, and no accept comes with it     *)
(* (Multishot).                                                              *)
LEMMA MultishotWaits ==
    ASSUME NEW a, NEW i \in BOOLEAN, ~i
    PROVE  Multishot(a, i).multi = "waiting" /\ Multishot(a, i).accept = a.accept
<1>1. i = FALSE
  OBVIOUS
<1>2. /\ Multishot(a, FALSE).multi = (IF FALSE THEN "submitted" ELSE "waiting")
      /\ Multishot(a, FALSE).accept = a.accept
  BY DEF Multishot, Rec
<1> QED BY <1>1, <1>2

(* User code does not touch is_readable_ and is_writable_. *)
LEMMA UserFlags ==
    ASSUME ActionTypes, UserStep, NEW f \in Fds
    PROVE  ea'[f].readable = ea[f].readable /\ ea'[f].writable = ea[f].writable
<1>1. UserSets
  BY TypesShape, UserCases
<1>2. ASSUME NEW g \in Fds, NEW b, Sets(g, b), b.readable = ea[g].readable, b.writable = ea[g].writable
      PROVE  ea'[f].readable = ea[f].readable /\ ea'[f].writable = ea[f].writable
  BY <1>2 DEF Sets
<1>3. ASSUME NEW g \in Fds, NEW t \in Reads, Sets(g, AddedRead(ea[g], t)) \/ Sets(g, KeptRead(ea[g], t))
      PROVE  ea'[f].readable = ea[f].readable /\ ea'[f].writable = ea[f].writable
  BY <1>2, <1>3 DEF AddedRead, KeptRead, Rec
<1>4. ASSUME NEW g \in Fds, NEW t \in Writes, Sets(g, AddedWrite(ea[g], t)) \/ Sets(g, KeptWrite(ea[g], t))
      PROVE  ea'[f].readable = ea[f].readable /\ ea'[f].writable = ea[f].writable
  BY <1>2, <1>4 DEF AddedWrite, KeptWrite, Rec
<1>5. ASSUME NEW g \in Fds, NEW s \in BOOLEAN, Sets(g, Multishot(ea[g], s))
      PROVE  ea'[f].readable = ea[f].readable /\ ea'[f].writable = ea[f].writable
  BY <1>2, <1>5, MultishotFields
<1>6. ASSUME NEW g \in Fds, Sets(g, Accepting(ea[g])) \/ Sets(g, NoRead(ea[g])) \/ Sets(g, NoWrite(ea[g]))
      PROVE  ea'[f].readable = ea[f].readable /\ ea'[f].writable = ea[f].writable
  BY <1>2, <1>6 DEF Accepting, NoRead, NoWrite, Rec
<1>7. CASE ea' = [g \in Fds |-> IF g \notin non_submit_events THEN ea[g] ELSE Submitted(ea[g])]
  BY <1>7, SubmittedFields, Zenon
<1>8. CASE ea' = [g \in Fds |-> Ungrouped(ea[g])]
  BY <1>8 DEF Ungrouped, Rec
<1> QED BY <1>1, <1>3, <1>4, <1>5, <1>6, <1>7, <1>8, Zenon DEF UserSets

(* handle_events clears is_readable_ only when it has taken all there was,   *)
(* and is_writable_ only when the kernel takes no more.                      *)
LEMMA InsideFlags ==
    ASSUME Types, Kinds, Inside
    PROVE  /\ \A f \in Fds : f # act => ea'[f] = ea[f]
           /\ ea[act].readable => ea'[act].readable \/ (sk'[act].rx = 0 /\ ~sk'[act].fin)
           /\ ea[act].writable => ea'[act].writable \/ sk'[act].space = 0
           /\ (ea'[act].readable => ea[act].readable) /\ (ea'[act].writable => ea[act].writable)
<1> ActionTypes /\ Place /\ Sockets
  BY DEF Types
<1>1. act \in Fds /\ Shapes
  BY InsideKeeps, TypesShape
<1> DEFINE a == ea[act]
           Goal == /\ \A f \in Fds : f # act => ea'[f] = ea[f]
                   /\ ea[act].readable => ea'[act].readable \/ (sk'[act].rx = 0 /\ ~sk'[act].fin)
                   /\ ea[act].writable => ea'[act].writable \/ sk'[act].space = 0
                   /\ (ea'[act].readable => ea[act].readable) /\ (ea'[act].writable => ea[act].writable)
<1>2. ASSUME NEW b, Sets(act, b), b.readable = a.readable \/ (sk'[act].rx = 0 /\ ~sk'[act].fin),
             b.writable = a.writable \/ sk'[act].space = 0,
             b.readable => a.readable, b.writable => a.writable
      PROVE  Goal
  BY <1>1, <1>2 DEF Sets
<1>3. CASE ea' = ea
  BY <1>3
<1>4. ASSUME NEW k, NEW x, Take(k, x), x => a.readable, x = a.readable \/ (sk[act].rx - k = 0 /\ ~sk[act].fin)
      PROVE  Goal
  <2>1. Sets(act, Reread(a, x))
    BY <1>1, <1>4, RereadSets
  <2>2. sk'[act].rx = sk[act].rx - k /\ sk'[act].fin = sk[act].fin
    BY <1>1, <1>4 DEF Take, Sockets
  <2>3. Reread(a, x).readable = x /\ Reread(a, x).writable = a.writable
    BY DEF Reread, Rec
  <2> QED BY <1>2, <1>4, <2>1, <2>2, <2>3
<1>5. sk[act].rx \in Nat /\ sk[act].space \in Nat
  BY <1>1, SocketFields, BoundAssumption
<1>6. act \notin TcpFds => ~sk[act].fin
  BY <1>1 DEF Kinds
<1>7. ASSUME NEW t, t = Head(a.reads), ea' = [ea EXCEPT ![act] = [ea[act] EXCEPT !.readable = FALSE, !.reads = Append(Tail(@), t)]],
             sk' = sk, sk[act].rx = 0, ~sk[act].fin
      PROVE  Goal
  <2>1. Sets(act, ReadBack(a))
    BY <1>1, <1>7, ReadBackSets
  <2>2. ReadBack(a).writable = a.writable /\ ~ReadBack(a).readable
    BY DEF ReadBack, Rec
  <2> QED BY <1>2, <1>7, <2>1, <2>2
<1>8. ASSUME Take(sk[act].rx, FALSE), ~sk[act].fin PROVE Goal
  <2>1. sk[act].rx - sk[act].rx = 0
    BY <1>5
  <2> QED BY <1>4, <1>8, <2>1, Zenon
<1>9. ASSUME Take(0, FALSE), ~sk[act].fin, sk[act].rx = 0 PROVE Goal
  <2>1. sk[act].rx - 0 = 0
    BY <1>9
  <2> QED BY <1>4, <1>9, <2>1, Zenon
<1>10. ASSUME NEW k, Take(k, a.readable) PROVE Goal
  BY <1>4, <1>10
<1> HIDE DEF Goal
<1>11. CASE DoReadTask
  <2> DEFINE t == Head(a.reads)
             Back == ea' = [ea EXCEPT ![act] = [ea[act] EXCEPT !.readable = FALSE, !.reads = Append(Tail(@), t)]]
  <2>1. \/ ea' = ea
        \/ t \notin Detect /\ act \in TcpFds /\ ReadTcp(t)
        \/ act \in UdpFds /\ ReadUdp(t)
        \/ act \in EventFds /\ ReadEvent(t)
    BY <1>11 DEF DoReadTask, ReadFile
  <2>2. ASSUME ReadTcp(t) PROVE Goal
    <3>1. \/ \E k : Take(k, a.readable)
          \/ ~sk[act].fin /\ Take(sk[act].rx, FALSE)
          \/ sk[act].rx = 0 /\ ~sk[act].fin /\ Back /\ sk' = sk
      BY <2>2, Zenon DEF ReadTcp
    <3> QED BY <1>7, <1>8, <1>10, <3>1, Zenon
  <2>3. ASSUME act \in UdpFds, ReadUdp(t) PROVE Goal
    <3>0. ~sk[act].fin
      BY <1>6, <2>3, FdAssumption
    <3>1. \/ Take(Min2(sk[act].rx, Cap(t)), a.readable /\ ~SawEmpty(sk[act].rx, t))
          \/ \E k : Take(k, a.readable)
          \/ sk[act].rx = 0 /\ Back /\ sk' = sk
      BY <2>3, Zenon DEF ReadUdp
    <3>2. ASSUME Take(Min2(sk[act].rx, Cap(t)), a.readable /\ ~SawEmpty(sk[act].rx, t)) PROVE Goal
      <4> DEFINE k == Min2(sk[act].rx, Cap(t))
                 x == a.readable /\ ~SawEmpty(sk[act].rx, t)
      <4>1. CASE SawEmpty(sk[act].rx, t)
        <5>1. k = sk[act].rx
          BY <1>5, <4>1, CapValue DEF SawEmpty, Min2
        <5>2. sk[act].rx - k = 0
          BY <1>5, <5>1
        <5> QED BY <1>4, <3>0, <3>2, <5>2, Zenon
      <4>2. CASE ~SawEmpty(sk[act].rx, t)
        <5>1. a.readable \in BOOLEAN
          BY <1>1 DEF ActionTypes, Typed
        <5>2. x = a.readable
          BY <4>2, <5>1
        <5> QED BY <1>4, <3>2, <5>2
      <4> QED BY <4>1, <4>2
    <3> QED BY <1>7, <1>10, <3>0, <3>1, <3>2, Zenon
  <2>4. ASSUME act \in EventFds, ReadEvent(t) PROVE Goal
    <3>1. ~sk[act].fin
      BY <1>6, <2>4, FdAssumption
    <3> QED BY <1>8, <2>4, <3>1 DEF ReadEvent
  <2> QED BY <1>3, <2>1, <2>2, <2>3, <2>4 DEF Goal
<1>12. CASE DoMultishot
  <2>1. \/ ea' = ea
        \/ \E k : Take(k, a.readable)
        \/ sk[act].rx = 0 /\ (~sk[act].fin \/ act \in UdpFds) /\ Take(0, FALSE)
    BY <1>12, Zenon DEF DoMultishot, MultishotTcp, MultishotUdp
  <2>2. act \in UdpFds => ~sk[act].fin
    BY <1>6, FdAssumption
  <2> QED BY <1>3, <1>9, <1>10, <2>1, <2>2, Zenon DEF Goal
<1>13. CASE DoAccept
  <2>1. \/ ea' = ea
        \/ \E k : Take(k, a.readable)
        \/ sk[act].rx = 0 /\ a.accept /\ Take(0, FALSE)
    BY <1>13, Zenon DEF DoAccept
  <2>2. a.accept => ~sk[act].fin
    BY <1>1, <1>6, FdAssumption DEF Kinds, ActionKind
  <2> QED BY <1>3, <1>9, <1>10, <2>1, <2>2, Zenon DEF Goal
<1>14. CASE DoWriteTask
  <2> DEFINE t == Head(a.writes)
             Back == ea' = [ea EXCEPT ![act].writable = FALSE, ![act].writes = Append(Tail(@), t)]
  <2>1. ea' = ea \/ (Back /\ sk' = sk /\ Blocks(t, sk[act].space))
    BY <1>14, Zenon DEF DoWriteTask
  <2>2. CASE Back /\ sk' = sk /\ Blocks(t, sk[act].space)
    <3>1. Sets(act, WriteBack(a))
      BY <1>1, <2>2, WriteBackSets
    <3>2. WriteBack(a).readable = a.readable /\ ~WriteBack(a).writable
      BY DEF WriteBack, Rec
    <3>3. sk'[act].space = 0
      BY <2>2 DEF Blocks
    <3> QED BY <1>2, <3>1, <3>2, <3>3 DEF Goal
  <2> QED BY <1>3, <2>1, <2>2, Zenon DEF Goal
<1>15. CASE PopRead \/ PopWrite
  <2>1. Sets(act, ReadOver(a)) \/ Sets(act, WriteOver(a))
    BY <1>1, <1>15, ReadOverSets, WriteOverSets
  <2>2. /\ ReadOver(a).readable = a.readable /\ ReadOver(a).writable = a.writable
        /\ WriteOver(a).readable = a.readable /\ WriteOver(a).writable = a.writable
    BY DEF ReadOver, WriteOver, Rec
  <2> QED BY <1>2, <2>1, <2>2 DEF Goal
<1>16. CASE ~(DoReadTask \/ DoMultishot \/ DoAccept \/ DoWriteTask \/ PopRead \/ PopWrite)
  <2>1. ea' = ea
    BY <1>16 DEF Inside, HandleEvents, NextDatagram, ReadsDone, MultishotAgain, WritesBegin, WritesDone,
                 CallbackReturns, Undefined, submitVars
  <2> QED BY <1>3, <2>1 DEF Goal
<1> QED BY <1>11, <1>12, <1>13, <1>14, <1>15, <1>16

(* No step loses an edge: apply_changes, epoll_wait and set_ready_events     *)
(* hand it on, the kernel raises it, and handle_events forgets it only when  *)
(* nothing is left.                                                          *)
LEMMA StepEdge ==
    ASSUME Types, Kinds, EdgeOK, [Next]_vars
    PROVE  EdgeOK'
<1> ActionTypes /\ Place /\ Queue /\ Reported /\ Books /\ Sockets
  BY DEF Types
<1>0. \A f \in Fds : sk[f].rx \in Nat /\ sk[f].space \in Nat
  BY SocketFields, BoundAssumption
<1>1. CASE Inside
  <2>1. UNCHANGED <<kern, edge, reported>> /\ act \in Fds /\ InsideSk
    BY <1>1, InsideKeeps, TypesShape, InsideSockets
  <2>2. ASSUME NEW f \in Fds
        PROVE  /\ sk'[f].fin = sk[f].fin /\ (sk'[f].rx > 0 => sk[f].rx > 0) /\ (sk'[f].space > 0 => sk[f].space > 0)
    BY <1>0, <2>1 DEF InsideSk, Sockets
  <2>3. /\ \A f \in Fds : f # act => ea'[f] = ea[f]
        /\ ea[act].readable => ea'[act].readable \/ (sk'[act].rx = 0 /\ ~sk'[act].fin)
        /\ ea[act].writable => ea'[act].writable \/ sk'[act].space = 0
    BY <1>1, InsideFlags
  <2>4. ASSUME NEW f \in Fds, f \notin edge', "R" \in kern'[f], ReadNow(f)' PROVE ea'[f].readable \/ ToldR(f)'
    <3>1. ea[f].readable \/ ToldR(f)
      BY <2>1, <2>2, <2>4 DEF EdgeOK, ReadNow
    <3>2. ~(sk'[f].rx = 0 /\ ~sk'[f].fin)
      BY <2>4 DEF ReadNow
    <3> QED BY <2>1, <2>3, <3>1, <3>2 DEF ToldR
  <2>5. ASSUME NEW f \in Fds, f \notin edge', "W" \in kern'[f], sk'[f].space > 0 PROVE ea'[f].writable \/ ToldW(f)'
    <3>1. ea[f].writable \/ ToldW(f)
      BY <2>1, <2>2, <2>5 DEF EdgeOK
    <3>2. sk'[f].space # 0
      BY <2>5
    <3> QED BY <2>1, <2>3, <3>1, <3>2 DEF ToldW
  <2> QED BY <2>4, <2>5 DEF EdgeOK
<1>2. CASE UserStep
  <2>1. \A f \in Fds : ea'[f].readable = ea[f].readable /\ ea'[f].writable = ea[f].writable
    BY <1>2, UserFlags
  <2>2. reported' = reported
    BY <1>2, UserGrows DEF Books, dispatchVars
  <2>3. CASE UNCHANGED kernelVars
    BY <2>1, <2>2, <2>3 DEF EdgeOK, ReadNow, ToldR, ToldW, kernelVars
  <2>4. ASSUME NEW g \in Fds, CloseFd(g) PROVE EdgeOK'
    <3>1. \A f \in Fds : f # g => kern'[f] = kern[f] /\ (f \in edge' <=> f \in edge) /\ sk'[f] = sk[f]
      BY <2>4 DEF CloseFd, Sockets, Books
    <3>2. kern'[g] = {}
      BY <2>4 DEF CloseFd, Books
    <3> QED BY <2>1, <2>2, <3>1, <3>2 DEF EdgeOK, ReadNow, ToldR, ToldW
  <2>5. ASSUME NEW g \in Fds, ReopenFd(g) PROVE EdgeOK'
    <3>1. UNCHANGED <<kern, edge>>
      BY <2>5 DEF ReopenFd
    <3>2. \A f \in Fds : sk'[f].rx = sk[f].rx /\ sk'[f].fin = sk[f].fin /\ sk'[f].space = sk[f].space
      BY <2>5 DEF ReopenFd, Sockets
    <3> QED BY <2>1, <2>2, <3>1, <3>2 DEF EdgeOK, ReadNow, ToldR, ToldW
  <2>6. UNCHANGED kernelVars \/ \E g \in Fds : CloseFd(g) \/ ReopenFd(g)
    BY <1>2, Zenon DEF UserStep, User, SubmitRead, SubmitWrite, SubmitMultishot, SubmitAccept, CancelRead, CancelAccept,
                CancelWrite, Submit, RegisterRingBuffer, UnregisterRingBuffer
  <2> QED BY <2>3, <2>4, <2>5, <2>6
<1>3. CASE KernelStep
  <2>1. UNCHANGED <<kern, ea, reported>>
    BY <1>3, KernelKeeps DEF submitVars, dispatchVars
  <2>2. PICK g \in Fds : Kernel(g)
    BY <1>3 DEF KernelStep
  <2>3. /\ \A f \in Fds : f # g => sk'[f] = sk[f]
        /\ edge \subseteq edge'
    BY <2>2 DEF Kernel, Arrive, PeerCloses, Drain, Raise, Sockets
  <2>4. CASE Arrive(g) \/ PeerCloses(g)
    <3>1. "R" \in kern[g] => g \in edge'
      BY <2>4 DEF Arrive, PeerCloses, Raise
    <3>2. sk'[g].space = sk[g].space
      BY <2>4 DEF Arrive, PeerCloses, Sockets
    <3> QED BY <2>1, <2>3, <3>1, <3>2 DEF EdgeOK, ReadNow, ToldR, ToldW
  <2>5. CASE Drain(g)
    <3>1. "W" \in kern[g] /\ sk[g].space = 0 => g \in edge'
      BY <2>5 DEF Drain, Raise
    <3>2. sk'[g].rx = sk[g].rx /\ sk'[g].fin = sk[g].fin
      BY <2>5 DEF Drain, Sockets
    <3>3. sk[g].space = 0 \/ sk[g].space > 0
      BY <1>0
    <3> QED BY <2>1, <2>3, <3>1, <3>2, <3>3 DEF EdgeOK, ReadNow, ToldR, ToldW
  <2> QED BY <2>2, <2>4, <2>5 DEF Kernel
<1>4. CASE ApplyChanges
  <2> DEFINE gone == {f \in changes : ea[f].events = {}}
             watched == {f \in changes \ gone : WatchWorks(f)}
  <2>1. /\ kern' = [f \in Fds |-> IF f \in gone THEN {} ELSE IF f \in watched THEN ea[f].events ELSE kern[f]]
        /\ edge' = (edge \ gone) \cup {f \in watched : ea[f].events \cap ReadyNow(f) # {}}
        /\ ea' = [f \in Fds |-> IF f \in gone THEN NewAction(f) ELSE ea[f]]
        /\ UNCHANGED <<sk, reported>>
    BY <1>4 DEF ApplyChanges, dispatchVars
  <2>2. watched \cap gone = {}
    OBVIOUS
  <2> HIDE DEF gone, watched
  <2>3. ASSUME NEW f \in Fds, f \in watched, f \notin edge'
        PROVE  ~("R" \in kern'[f] /\ ReadNow(f)) /\ ~("W" \in kern'[f] /\ sk[f].space > 0)
    <3>1. ea[f].events \cap ReadyNow(f) = {} /\ kern'[f] = ea[f].events
      BY <2>1, <2>2, <2>3
    <3> QED BY <3>1 DEF ReadyNow, ReadNow
  <2>4. ASSUME NEW f \in Fds, f \notin watched, f \notin gone, f \notin edge'
        PROVE  f \notin edge /\ kern'[f] = kern[f] /\ ea'[f] = ea[f]
    BY <2>1, <2>4
  <2>5. ASSUME NEW f \in Fds, f \in gone PROVE kern'[f] = {}
    BY <2>1, <2>5
  <2>6. UNCHANGED <<sk, reported>>
    BY <2>1
  <2> QED BY <2>3, <2>4, <2>5, <2>6 DEF EdgeOK, ReadNow, ToldR, ToldW
<1>5. CASE Wait
  <2>1. reported = {} /\ UNCHANGED <<sk, kern, ea>>
    BY <1>5 DEF Wait, Reported, submitVars, Busy
  <2>2. ASSUME NEW f \in Fds, f \in edge, kern[f] \cap ReadyNow(f) # {}
        PROVE  \E r \in reported' : r.fd = f /\ r.mask = kern[f] \cap ReadyNow(f)
    <3>1. [fd |-> f, mask |-> kern[f] \cap ReadyNow(f)] \in reported'
      BY <1>5, <2>2, Zenon DEF Wait
    <3> QED BY <3>1
  <2>3. ASSUME NEW f \in Fds, "R" \in kern'[f], ReadNow(f)' PROVE ea'[f].readable \/ ToldR(f)'
    <3>1. "R" \in kern[f] \cap ReadyNow(f) /\ ReadNow(f)
      BY <2>1, <2>3 DEF ReadNow, ReadyNow
    <3>2. CASE f \in edge
      BY <2>2, <3>1, <3>2 DEF ToldR
    <3>3. CASE f \notin edge
      BY <2>1, <3>1, <3>3 DEF EdgeOK, ToldR
    <3> QED BY <3>2, <3>3
  <2>4. ASSUME NEW f \in Fds, "W" \in kern'[f], sk'[f].space > 0 PROVE ea'[f].writable \/ ToldW(f)'
    <3>1. "W" \in kern[f] \cap ReadyNow(f) /\ sk[f].space > 0
      BY <2>1, <2>4 DEF ReadyNow
    <3>2. CASE f \in edge
      BY <2>2, <3>1, <3>2 DEF ToldW
    <3>3. CASE f \notin edge
      BY <2>1, <3>1, <3>3 DEF EdgeOK, ToldW
    <3> QED BY <3>2, <3>3
  <2> QED BY <2>3, <2>4 DEF EdgeOK
<1>6. CASE NextReported
  <2>1. UNCHANGED <<sk, kern, edge>>
    BY <1>6 DEF NextReported, kernelVars
  <2>2. ASSUME NEW r \in reported, Sets(r.fd, Flagged(ea[r.fd], "R" \in r.mask, "W" \in r.mask)),
               reported' = reported \ {r}
        PROVE  EdgeOK'
    <3>1. /\ \A f \in Fds : f # r.fd => ea'[f] = ea[f]
          /\ ea[r.fd].readable \/ "R" \in r.mask => ea'[r.fd].readable
          /\ ea[r.fd].writable \/ "W" \in r.mask => ea'[r.fd].writable
      BY <2>2, Zenon DEF Sets, Flagged, Rec, Reported
    <3>2. ASSUME NEW f \in Fds PROVE /\ ea[f].readable \/ ToldR(f) => ea'[f].readable \/ ToldR(f)'
                                     /\ ea[f].writable \/ ToldW(f) => ea'[f].writable \/ ToldW(f)'
      BY <2>2, <3>1 DEF ToldR, ToldW
    <3> QED BY <2>1, <3>2 DEF EdgeOK, ReadNow
  <2>3. CASE ea' = ea /\ UNCHANGED reported
    BY <2>1, <2>3 DEF EdgeOK, ReadNow, ToldR, ToldW
  <2> QED BY <1>6, <2>2, <2>3, ReportedSets, TypesShape, Zenon
<1>7. CASE WaitInterrupted \/ NextReady \/ Handled \/ UNCHANGED vars
  <2>1. UNCHANGED <<sk, kern, edge, ea, reported>>
    BY <1>7 DEF WaitInterrupted, NextReady, Handled, kernelVars, submitVars, dispatchVars, vars
  <2> QED BY <2>1 DEF EdgeOK, ReadNow, ToldR, ToldW
<1> QED BY <1>1, <1>2, <1>3, <1>4, <1>5, <1>6, <1>7, DispatchCases

-----------------------------------------------------------------------------
(* What is ready is scheduled. *)

(* The entries of ready_events_ that do_ready_tasks has still to take: all   *)
(* but the first while it handles that one                                   *)
From == IF pc \in Busy /\ ~trig THEN 2 ELSE 1
Later(f) == \E i \in From..Len(ready_events) : ready_events[i] = f

(* handle_events is at f and will come to all its reads, or writes *)
ReadTried(f) ==
    /\ act = f
    /\ \/ pc = "undef"
       \/ /\ pc \in Busy
          /\ \/ At = "handle"
             \/ At \in {"reads", "popRead", "dgram"} /\ Len(ea[f].reads) <= n
BeforeWrites == {"handle", "reads", "popRead", "dgram", "multi", "again", "accept", "write"}
WriteTried(f) ==
    /\ act = f
    /\ \/ pc = "undef"
       \/ /\ pc \in Busy
          /\ \/ At \in BeforeWrites
             \/ At \in {"writes", "popWrite"} /\ Len(ea[f].writes) <= n

(* The tasks that wait on a descriptor known to be ready will be tried *)
ReadsDue == \A f \in Fds : ea[f].reads # <<>> /\ ea[f].readable => Later(f) \/ ReadTried(f)
WritesDue == \A f \in Fds \ GroupFds : ea[f].writes # <<>> /\ ea[f].writable => Later(f) \/ WriteTried(f)

(* An accept or a group read is submitted; handle_events is at f and will    *)
(* come to it                                                                *)
Streams(f) == ea[f].accept \/ ea[f].multi = "submitted"
StreamTried(f) ==
    /\ act = f
    /\ \/ pc = "undef"
       \/ /\ pc \in Busy
          /\ \/ At = "handle"
             \/ f \in ListenFds /\ At \in {"reads", "accept"}
             \/ f \in GroupFds /\ At \in {"multi", "again", "dgram"} /\ n = 0
StreamsDue ==
    \A f \in Fds : Streams(f) /\ ea[f].readable => Later(f) \/ StreamTried(f) \/ f \in behind

(* What is due is in ready_events_, or handle_events is at it. *)
LEMMA DueIsQueued == Types /\ ReadsDue /\ WritesDue /\ StreamsDue => QueuedWhenReady
<1> SUFFICES ASSUME Types, ReadsDue, WritesDue, StreamsDue PROVE QueuedWhenReady
  OBVIOUS
<1>1. Queue
  BY DEF Types
<1>2. ASSUME NEW f \in Fds, Later(f) PROVE f \in Elems(ready_events)
  <2>1. PICK i \in From..Len(ready_events) : ready_events[i] = f
    BY <1>2 DEF Later
  <2>2. i \in DOMAIN ready_events
    BY <1>1 DEF From, Queue
  <2> QED BY <2>1, <2>2 DEF Elems
<1>3. ASSUME NEW f \in Fds, ReadTried(f) \/ WriteTried(f) \/ StreamTried(f) PROVE Handling(f)
  BY <1>3 DEF ReadTried, WriteTried, StreamTried, Handling, Busy
<1> QED BY <1>2, <1>3 DEF ReadsDue, WritesDue, StreamsDue, Streams, QueuedWhenReady, Scheduled

(* What user code queues stays queued, and what it adds is queued. *)
LEMMA UserLater ==
    ASSUME Types, UserStep, NEW f \in Fds
    PROVE  /\ From' = From /\ (Later(f) => Later(f)')
           /\ \A g \in Fds : ready_events' = Append(ready_events, g) => Later(g)'
           /\ \A s \in Seq(Fds) : ready_events' = ready_events \o s => \A i \in DOMAIN s : Later(s[i])'
<1> Queue /\ Books
  BY DEF Types
<1>1. UNCHANGED <<pc, trig>> /\ Longer(ready_events, ready_events')
  BY UserGrows DEF Books, dispatchVars, callVars
<1>2. From' = From /\ From \in {1, 2}
  BY <1>1 DEF From
<1>3. /\ ready_events \in Seq(Fds \cup {None}) /\ Len(ready_events) \in Nat
      /\ ready_events' \in Seq(Fds \cup {None}) /\ Len(ready_events') \in Nat
      /\ From <= Len(ready_events) + 1
  BY <1>1 DEF Queue, Longer, From
<1>4. ASSUME NEW CONSTANT g, NEW CONSTANT i \in From..Len(ready_events'), ready_events'[i] = g
      PROVE  Later(g)'
  BY <1>2, <1>4 DEF Later
<1>5. Later(f) => Later(f)'
  <2> SUFFICES ASSUME Later(f) PROVE Later(f)'
    OBVIOUS
  <2>1. PICK i \in From..Len(ready_events) : ready_events[i] = f
    BY DEF Later
  <2>2. i \in From..Len(ready_events') /\ ready_events'[i] = f
    BY <1>1, <1>2, <1>3, <2>1 DEF Longer
  <2> QED BY <1>4, <2>2
<1>6. ASSUME NEW g \in Fds, ready_events' = Append(ready_events, g) PROVE Later(g)'
  <2>1. Len(ready_events') = Len(ready_events) + 1 /\ ready_events'[Len(ready_events) + 1] = g
    BY <1>3, <1>6
  <2>2. Len(ready_events) + 1 \in From..Len(ready_events')
    BY <1>2, <1>3, <2>1
  <2> QED BY <1>4, <2>1, <2>2
<1>7. ASSUME NEW s \in Seq(Fds), ready_events' = ready_events \o s, NEW i \in DOMAIN s PROVE Later(s[i])'
  <2>1. i \in 1..Len(s) /\ Len(s) \in Nat
    OBVIOUS
  <2>2. Len(ready_events') = Len(ready_events) + Len(s)
    BY <1>3, <1>7
  <2>3. i + Len(ready_events) \in From..Len(ready_events')
    BY <1>2, <1>3, <2>1, <2>2
  <2>4. (i + Len(ready_events)) - Len(ready_events) = i /\ i + Len(ready_events) > Len(ready_events)
        /\ i + Len(ready_events) \in 1..(Len(ready_events) + Len(s))
    BY <1>3, <2>1
  <2>5. s \in Seq(Fds \cup {None})
    BY WiderSeqs
  <2>6. ready_events'[i + Len(ready_events)] = s[i]
    BY <1>3, <1>7, <2>4, <2>5, ConcatSeqs
  <2> QED BY <1>4, <2>3, <2>6
<1> QED BY <1>2, <1>5, <1>6, <1>7

(* A read or a write that user code adds to a ready descriptor is queued. *)
LEMMA UserDue ==
    ASSUME Types, UserStep, NEW f \in Fds
    PROVE  /\ \/ ea'[f].reads = ea[f].reads \/ ea'[f].reads = <<>>
              \/ ea[f].readable => Later(f)'
           /\ \/ ea'[f].writes = ea[f].writes \/ ea'[f].writes = <<>>
              \/ ea[f].writable => Later(f)'
<1> ActionTypes /\ Books /\ Queue
  BY DEF Types
<1> DEFINE Goal == /\ \/ ea'[f].reads = ea[f].reads \/ ea'[f].reads = <<>>
                      \/ ea[f].readable => Later(f)'
                   /\ \/ ea'[f].writes = ea[f].writes \/ ea'[f].writes = <<>>
                      \/ ea[f].writable => Later(f)'
<1>1. UserSets
  BY TypesShape, UserCases
<1>2. CASE ea'[f].reads = ea[f].reads /\ ea'[f].writes = ea[f].writes
  BY <1>2
<1>3. ASSUME NEW g \in Fds, NEW b, Sets(g, b), b.reads = ea[g].reads \/ b.reads = <<>>,
             b.writes = ea[g].writes \/ b.writes = <<>>
      PROVE  Goal
  BY <1>3 DEF Sets
<1>4. ASSUME NEW g \in Fds, NEW t \in Reads, SubmitRead(g, t, TRUE), Sets(g, AddedRead(ea[g], t)) PROVE Goal
  <2>1. ea[g].readable => ready_events' = Append(ready_events, g)
    BY <1>4 DEF SubmitRead, QueueIf
  <2>2. ea[g].readable => Later(g)'
    BY <2>1, UserLater
  <2>3. AddedRead(ea[g], t).writes = ea[g].writes
    BY DEF AddedRead, Rec
  <2> QED BY <1>4, <2>2, <2>3 DEF Sets
<1>5. ASSUME NEW g \in Fds, NEW t \in Writes, SubmitWrite(g, t, TRUE), Sets(g, AddedWrite(ea[g], t)) PROVE Goal
  <2>1. ea[g].writable => ready_events' = Append(ready_events, g)
    BY <1>5 DEF SubmitWrite, QueueIf
  <2>2. ea[g].writable => Later(g)'
    BY <2>1, UserLater
  <2>3. AddedWrite(ea[g], t).reads = ea[g].reads
    BY DEF AddedWrite, Rec
  <2> QED BY <1>5, <2>2, <2>3 DEF Sets
<1>6. ASSUME NEW g \in Fds, NEW t, Sets(g, KeptRead(ea[g], t)) \/ Sets(g, KeptWrite(ea[g], t)) PROVE Goal
  BY <1>3, <1>6 DEF KeptRead, KeptWrite, Rec
<1>7. ASSUME NEW g \in Fds, NEW s \in BOOLEAN, Sets(g, Multishot(ea[g], s)) PROVE Goal
  BY <1>3, <1>7, MultishotFields
<1>8. ASSUME NEW g \in Fds, Sets(g, Accepting(ea[g])) \/ Sets(g, NoRead(ea[g])) \/ Sets(g, NoWrite(ea[g])) PROVE Goal
  BY <1>3, <1>8 DEF Accepting, NoRead, NoWrite, Rec
<1>9. ASSUME Submit, ea' = [g \in Fds |-> IF g \notin non_submit_events THEN ea[g] ELSE Submitted(ea[g])] PROVE Goal
  <2> DEFINE T == {g \in non_submit_events : ea[g].readable \/ ea[g].writable}
  <2>1. PICK s \in Orders(T) : ready_events' = ready_events \o s
    BY <1>9, Zenon DEF Submit
  <2>2. T \in SUBSET Fds
    BY DEF Books
  <2>3. f \in non_submit_events /\ (ea[f].readable \/ ea[f].writable) => f \in T
    OBVIOUS
  <2> HIDE DEF T
  <2>4. s \in Seq(Fds) /\ Elems(s) = T
    BY <2>2, OrdersAreSeqs
  <2>5. f \in T => \E i \in DOMAIN s : s[i] = f
    BY <2>4 DEF Elems
  <2>6. f \in T => Later(f)'
    BY <2>1, <2>4, <2>5, UserLater
  <2>7. f \notin non_submit_events => ea'[f] = ea[f]
    BY <1>9
  <2> QED BY <2>3, <2>6, <2>7
<1>10. CASE ea' = [g \in Fds |-> Ungrouped(ea[g])]
  BY <1>10 DEF Ungrouped, Rec
<1> HIDE DEF Goal
<1>11. CASE UNCHANGED <<ea, ready_events, cancelled>>
  BY <1>2, <1>11 DEF Goal
<1>12. Goal
  BY <1>1, <1>4, <1>5, <1>6, <1>7, <1>8, <1>9, <1>10, <1>11, Zenon DEF UserSets, Goal
<1> QED BY <1>12 DEF Goal

(* handle_events takes nothing from ready_events_. *)
LEMMA InsideLater ==
    ASSUME Types, Inside, NEW f \in Fds, Later(f)
    PROVE  Later(f)'
<1>1. UNCHANGED <<ready_events, trig>> /\ pc \in Busy /\ Queue
  BY InsideKeeps, TypesShape DEF Types
<1>2. PICK i \in From..Len(ready_events) : ready_events[i] = f
  BY DEF Later
<1>3. From' = From \/ (From = 2 /\ From' = 1)
  BY <1>1 DEF From
<1>4. i \in From'..Len(ready_events')
  BY <1>1, <1>2, <1>3 DEF Queue
<1> QED BY <1>1, <1>2, <1>4 DEF Later

(* handle_events leaves no read behind on a readable descriptor: those       *)
(* submitted while it runs were queued.                                      *)
LEMMA InsideReadsDue ==
    ASSUME Types, Kinds, Inside, ReadsDue
    PROVE  ReadsDue'
<1> ActionTypes /\ Place /\ Queue
  BY DEF Types
<1>1. /\ act \in Fds /\ act' = act /\ pc \in Busy /\ pc' \in Busy \cup {"undef"} /\ Shapes
      /\ UNCHANGED <<ready_events, trig>>
  BY InsideKeeps, TypesShape
<1>2. /\ \A f \in Fds : f # act => ea'[f] = ea[f]
      /\ ea'[act].readable => ea[act].readable
  BY InsideFlags
<1>3. ASSUME NEW f \in Fds, f # act, ea'[f].reads # <<>>, ea'[f].readable PROVE Later(f)'
  <2>1. Later(f)
    BY <1>2, <1>3 DEF ReadsDue, ReadTried
  <2> QED BY <2>1, InsideLater
<1> SUFFICES ASSUME ea'[act].reads # <<>>, ea'[act].readable PROVE Later(act) \/ ReadTried(act)'
  BY <1>1, <1>3, InsideLater DEF ReadsDue
<1> DEFINE a == ea[act]
<1>4. ea[act].reads # <<>> /\ ea[act].readable => Later(act) \/ ReadTried(act)
  BY <1>1 DEF ReadsDue
<1>5. a.reads \in Seq(Reads) /\ Len(a.reads) \in Nat /\ n \in Nat /\ ActionKind(act, a)
  BY <1>1 DEF ActionTypes, Typed, Place, Kinds
<1>6. CASE HandleEvents
  <2>1. ea' = ea
    BY <1>6 DEF HandleEvents, submitVars
  <2>2. a.multi = "no" /\ a.readable
    BY <1>2, <1>5, <2>1, FdAssumption DEF ActionKind
  <2>3. pc' = "reads" /\ n' = Len(a.reads)
    BY <1>6, <2>2 DEF HandleEvents
  <2> QED BY <1>1, <1>5, <2>1, <2>3 DEF ReadTried, At, Busy
<1>7. CASE DoReadTask
  <2>1. \/ ea'[act].reads = a.reads /\ n' = n /\ ((pc' = "cb" /\ after' = "popRead") \/ pc' = "dgram")
        \/ ~ea'[act].readable
    <3> DEFINE t == Head(a.reads)
               Back == ea' = [ea EXCEPT ![act] = [ea[act] EXCEPT !.readable = FALSE, !.reads = Append(Tail(@), t)]]
               Same == ea' = ea \/ \E k, x : Take(k, x)
               Goes == (pc' = "cb" /\ after' = "popRead") \/ pc' = "dgram"
    <3>1. ASSUME ReadTcp(t) PROVE (Same /\ n' = n /\ Goes) \/ Back
      BY <3>1, Zenon DEF ReadTcp, Call
    <3>2. ASSUME ReadUdp(t) PROVE (Same /\ n' = n /\ Goes) \/ Back
      BY <3>2, Zenon DEF ReadUdp
    <3>3. ASSUME ReadEvent(t) PROVE Same /\ n' = n /\ Goes
      BY <3>3, Zenon DEF ReadEvent, Call
    <3>4. ASSUME ReadFile(t) PROVE Same /\ n' = n /\ Goes
      BY <3>4, Zenon DEF ReadFile, Call
    <3>5. (Same /\ n' = n /\ Goes) \/ Back
      <4> HIDE DEF Back
      <4> QED BY <1>7, <3>1, <3>2, <3>3, <3>4, Zenon DEF DoReadTask, Call
    <3>6. CASE Back
      <4>1. Sets(act, ReadBack(a))
        BY <1>1, <3>6, ReadBackSets
      <4>2. ea'[act] = ReadBack(a)
        BY <1>1, <4>1 DEF Sets
      <4> QED BY <4>2 DEF ReadBack, Rec
    <3>7. ASSUME NEW k, NEW x, Take(k, x) PROVE ea'[act].reads = a.reads
      <4>1. Sets(act, Reread(a, x))
        BY <1>1, <3>7, RereadSets
      <4>2. ea'[act] = Reread(a, x)
        BY <1>1, <4>1 DEF Sets
      <4> QED BY <4>2 DEF Reread, Rec
    <3> QED BY <3>5, <3>6, <3>7
  <2>2. pc = "reads"
    BY <1>7 DEF DoReadTask
  <2>3. Later(act) \/ Len(a.reads) <= n
    BY <1>2, <1>4, <2>1, <2>2 DEF ReadTried, At, Busy
  <2> QED BY <1>1, <2>1, <2>3 DEF ReadTried, At, Busy
<1>8. CASE NextDatagram
  <2>1. /\ pc = "dgram" /\ ea' = ea /\ n' = n
        /\ (pc' = "cb" /\ after' = "dgram") \/ (n > 0 /\ pc' = "popRead") \/ (~(n > 0) /\ pc' = "multi")
    BY <1>8 DEF NextDatagram, Call, submitVars
  <2>2. Later(act) \/ Len(a.reads) <= n
    BY <1>4, <2>1 DEF ReadTried, At, Busy
  <2>3. Len(a.reads) > 0
    BY <1>5, <2>1
  <2>4. CASE ~(n > 0)
    BY <1>5, <2>2, <2>3, <2>4
  <2> QED BY <1>1, <2>1, <2>2, <2>4 DEF ReadTried, At, Busy
<1>9. CASE PopRead
  <2>1. pc = "popRead" /\ a.reads # <<>> /\ pc' = "reads" /\ n' = n - 1
    BY <1>9 DEF PopRead
  <2>2. ea'[act] = ReadOver(a)
    BY <1>1, <1>9, ReadOverSets DEF Sets
  <2>3. ea'[act].reads = Tail(a.reads)
    BY <2>2 DEF ReadOver, Rec
  <2>4. Len(ea'[act].reads) = Len(a.reads) - 1
    BY <1>5, <2>1, <2>3
  <2>5. Later(act) \/ Len(a.reads) <= n
    BY <1>2, <1>4, <2>1 DEF ReadTried, At, Busy
  <2>6. Len(a.reads) <= n => Len(ea'[act].reads) <= n'
    BY <1>5, <2>1, <2>4
  <2> QED BY <1>1, <2>1, <2>5, <2>6 DEF ReadTried, At, Busy
<1>10. CASE ReadsDone
  <2>1. pc = "reads" /\ n = 0 /\ ea' = ea
    BY <1>10 DEF ReadsDone, submitVars
  <2>2. Len(a.reads) > 0
    BY <1>5, <2>1
  <2> QED BY <1>4, <1>5, <2>1, <2>2 DEF ReadTried, At, Busy
<1>11. CASE DoMultishot \/ MultishotAgain \/ DoAccept \/ WritesBegin \/ DoWriteTask \/ PopWrite \/ WritesDone
  <2>1. pc \in {"multi", "again", "accept", "write", "writes", "popWrite"}
    BY <1>11, Zenon DEF DoMultishot, MultishotAgain, DoAccept, WritesBegin, DoWriteTask, PopWrite, WritesDone
  <2>2. ~ReadTried(act)
    BY <2>1 DEF ReadTried, At
  <2>3. ea'[act].reads = a.reads
    <3>1. \/ PopRead
          \/ Sets(act, WriteOver(a)) \/ ea' = ea
          \/ \E x \in BOOLEAN \cup {ea[act].readable} : Sets(act, Reread(ea[act], x))
          \/ Sets(act, ReadBack(a)) \/ Sets(act, WriteBack(a))
      BY <1>1, InsideSets
    <3>2. ~PopRead
      BY <2>1 DEF PopRead
    <3>3. CASE Sets(act, ReadBack(a))
      <4>1. ~ea'[act].readable
        BY <1>1, <3>3 DEF Sets, ReadBack, Rec
      <4> QED BY <4>1
    <3>4. ASSUME NEW b, Sets(act, b), b.reads = a.reads PROVE ea'[act].reads = a.reads
      BY <1>1, <3>4, Zenon DEF Sets
    <3> QED BY <3>1, <3>2, <3>3, <3>4, KeepsReads, Zenon
  <2> QED BY <1>2, <1>4, <2>2, <2>3
<1>12. CASE CallbackReturns
  <2>1. ea' = ea /\ n' = n /\ At' = At /\ pc' \in Busy
    BY <1>1, <1>12 DEF CallbackReturns, submitVars, dispatchVars, callVars, At, Place, Busy
  <2> QED BY <1>1, <1>4, <2>1 DEF ReadTried, Busy
<1>13. CASE Undefined
  BY <1>1, <1>13 DEF Undefined, ReadTried
<1> QED BY <1>6, <1>7, <1>8, <1>9, <1>10, <1>11, <1>12, <1>13 DEF Inside

(* handle_events leaves no write behind on a writable descriptor. *)
LEMMA InsideWritesDue ==
    ASSUME Types, Kinds, Inside, WritesDue
    PROVE  WritesDue'
<1> ActionTypes /\ Place /\ Queue
  BY DEF Types
<1>1. /\ act \in Fds /\ act' = act /\ pc \in Busy /\ pc' \in Busy \cup {"undef"} /\ Shapes
      /\ UNCHANGED <<ready_events, trig>> /\ Place'
  BY InsideKeeps, TypesShape
<1>2. /\ \A f \in Fds : f # act => ea'[f] = ea[f]
      /\ ea'[act].writable => ea[act].writable
  BY InsideFlags
<1>3. ASSUME NEW f \in Fds \ GroupFds, f # act, ea'[f].writes # <<>>, ea'[f].writable PROVE Later(f)'
  <2>1. Later(f)
    BY <1>2, <1>3 DEF WritesDue, WriteTried
  <2> QED BY <2>1, InsideLater
<1> SUFFICES ASSUME act \notin GroupFds, ea'[act].writes # <<>>, ea'[act].writable PROVE Later(act) \/ WriteTried(act)'
  BY <1>1, <1>3, InsideLater DEF WritesDue
<1> DEFINE a == ea[act]
<1>4. ea[act].writes # <<>> /\ ea[act].writable => Later(act) \/ WriteTried(act)
  BY <1>1 DEF WritesDue
<1>5. a.writes \in Seq(Writes) /\ Len(a.writes) \in Nat /\ n \in Nat /\ ActionKind(act, a)
  BY <1>1 DEF ActionTypes, Typed, Place, Kinds
<1>6. CASE HandleEvents \/ DoReadTask \/ NextDatagram \/ PopRead \/ ReadsDone \/ DoMultishot \/ MultishotAgain \/ DoAccept
  <2>1. At' \in BeforeWrites
    <3>1. CASE HandleEvents
      <4>1. a.multi = "no"
        BY <1>5 DEF ActionKind
      <4> QED BY <3>1, <4>1 DEF HandleEvents, At, BeforeWrites
    <3>2. CASE DoReadTask
      <4>1. \/ pc' = "cb" /\ after' = "popRead"
            \/ pc' = "dgram"
            \/ pc' = "reads"
        BY <3>2, Zenon DEF DoReadTask, ReadTcp, ReadUdp, ReadEvent, ReadFile, Call
      <4> QED BY <4>1 DEF At, BeforeWrites
    <3>3. CASE NextDatagram \/ PopRead \/ ReadsDone \/ MultishotAgain \/ DoAccept
      BY <3>3, Zenon DEF NextDatagram, PopRead, ReadsDone, MultishotAgain, DoAccept, Call, At, BeforeWrites
    <3>4. CASE DoMultishot
      <4>1. \/ pc' = "cb" /\ after' \in {"multi", "accept"}
            \/ pc' \in {"accept", "dgram", "again", "multi"}
        BY <3>4, Zenon DEF DoMultishot, MultishotTcp, MultishotUdp, Call
      <4> QED BY <4>1 DEF At, BeforeWrites
    <3> QED BY <1>6, <3>1, <3>2, <3>3, <3>4
  <2> QED BY <1>1, <2>1 DEF WriteTried, At, BeforeWrites
<1>7. CASE WritesBegin
  <2>1. ea' = ea
    BY <1>7 DEF WritesBegin, submitVars
  <2>2. pc' = "writes" /\ n' = Len(a.writes)
    BY <1>7, <2>1 DEF WritesBegin
  <2> QED BY <1>1, <1>5, <2>1, <2>2 DEF WriteTried, At, Busy
<1>8. CASE DoWriteTask
  <2> DEFINE t == Head(a.writes)
             Back == ea' = [ea EXCEPT ![act].writable = FALSE, ![act].writes = Append(Tail(@), t)]
  <2>1. pc = "writes" /\ ((ea' = ea /\ n' = n /\ pc' = "cb" /\ after' = "popWrite") \/ Back)
    BY <1>8 DEF DoWriteTask, Call
  <2>2. ~Back
    <3> SUFFICES ASSUME Back PROVE FALSE
      OBVIOUS
    <3>1. Sets(act, WriteBack(a))
      BY <1>1, WriteBackSets
    <3>2. ea'[act] = WriteBack(a)
      BY <1>1, <3>1 DEF Sets
    <3> QED BY <3>2 DEF WriteBack, Rec
  <2>3. Later(act) \/ Len(a.writes) <= n
    BY <1>4, <2>1, <2>2 DEF WriteTried, At, Busy, BeforeWrites
  <2> QED BY <1>1, <2>1, <2>2, <2>3 DEF WriteTried, At, Busy
<1>9. CASE PopWrite
  <2>1. pc = "popWrite" /\ a.writes # <<>> /\ pc' = "writes" /\ n' = n - 1
    BY <1>9 DEF PopWrite
  <2>2. ea'[act] = WriteOver(a)
    BY <1>1, <1>9, WriteOverSets DEF Sets
  <2>3. ea'[act].writes = Tail(a.writes)
    BY <2>2 DEF WriteOver, Rec
  <2>4. Len(ea'[act].writes) = Len(a.writes) - 1
    BY <1>5, <2>1, <2>3
  <2>5. Later(act) \/ Len(a.writes) <= n
    BY <1>2, <1>4, <2>1 DEF WriteTried, At, Busy, BeforeWrites
  <2>6. Len(a.writes) <= n => Len(ea'[act].writes) <= n'
    BY <1>5, <2>1, <2>4
  <2> QED BY <1>1, <2>1, <2>5, <2>6 DEF WriteTried, At, Busy
<1>10. CASE WritesDone
  <2>1. pc = "writes" /\ n = 0 /\ ea' = ea
    BY <1>10 DEF WritesDone, submitVars
  <2>2. Len(a.writes) > 0
    BY <1>5, <2>1
  <2> QED BY <1>4, <1>5, <2>1, <2>2 DEF WriteTried, At, Busy, BeforeWrites
<1>12. CASE CallbackReturns
  <2>1. ea' = ea /\ n' = n /\ At' = At /\ pc' \in Busy
    BY <1>1, <1>12 DEF CallbackReturns, submitVars, dispatchVars, callVars, At, Place, Busy
  <2> QED BY <1>1, <1>4, <2>1 DEF WriteTried, Busy
<1>13. CASE Undefined
  BY <1>1, <1>13 DEF Undefined, WriteTried
<1> QED BY <1>6, <1>7, <1>8, <1>9, <1>10, <1>12, <1>13 DEF Inside

(* An accept or a group read that user code submits for a readable           *)
(* descriptor is queued.                                                     *)
LEMMA UserStreams ==
    ASSUME Types, Kinds, UserStep, NEW f \in Fds
    PROVE  \/ ~Streams(f)'
           \/ Streams(f) /\ (f \in behind => f \in behind')
           \/ ea[f].readable => Later(f)'
<1> ActionTypes /\ Books /\ Queue
  BY DEF Types
<1> DEFINE Goal == \/ ~Streams(f)'
                   \/ Streams(f) /\ (f \in behind => f \in behind')
                   \/ ea[f].readable => Later(f)'
<1>1. UserSets
  BY TypesShape, UserCases
<1>2. ASSUME NEW g \in Fds, NEW b, Sets(g, b), behind' = behind,
             b.accept => ea[g].accept, b.multi = "submitted" => ea[g].multi = "submitted"
      PROVE  Goal
  BY <1>2 DEF Sets, Streams
<1>3. ASSUME NEW g \in Fds, NEW t \in Reads, NEW i \in BOOLEAN, SubmitRead(g, t, i),
             Sets(g, AddedRead(ea[g], t)) \/ Sets(g, KeptRead(ea[g], t))
      PROVE  Goal
  <2>1. behind' = behind
    BY <1>3 DEF SubmitRead
  <2> QED BY <1>2, <1>3, <2>1 DEF AddedRead, KeptRead, Rec
<1>4. ASSUME NEW g \in Fds, NEW t \in Writes, NEW i \in BOOLEAN, SubmitWrite(g, t, i),
             Sets(g, AddedWrite(ea[g], t)) \/ Sets(g, KeptWrite(ea[g], t))
      PROVE  Goal
  <2>1. behind' = behind
    BY <1>4 DEF SubmitWrite
  <2> QED BY <1>2, <1>4, <2>1 DEF AddedWrite, KeptWrite, Rec
<1>5. ASSUME NEW g \in Fds, NEW i \in BOOLEAN, SubmitMultishot(g, i), Sets(g, Multishot(ea[g], i)) PROVE Goal
  <2>1. g \in GroupFds /\ behind' = behind \ {g}
    BY <1>5 DEF SubmitMultishot
  <2>2. CASE f # g
    <3>1. ea'[f] = ea[f]
      BY <1>5, <2>2 DEF Sets
    <3> QED BY <2>1, <2>2, <3>1 DEF Streams
  <2>3. CASE f = g /\ i
    <3>1. ea[g].readable => ready_events' = Append(ready_events, g)
      BY <1>5, <2>3 DEF SubmitMultishot, QueueIf
    <3> QED BY <2>3, <3>1, UserLater
  <2>4. CASE f = g /\ ~i
    <3>1. ea'[g] = Multishot(ea[g], i)
      BY <1>5 DEF Sets
    <3>2. ea'[g].multi = "waiting" /\ ea'[g].accept = ea[g].accept
      BY <2>4, <3>1, MultishotWaits, Zenon
    <3>3. ~ea[g].accept
      BY <2>1, FdAssumption DEF Kinds, ActionKind
    <3> QED BY <2>4, <3>2, <3>3 DEF Streams
  <2> QED BY <2>2, <2>3, <2>4
<1>6. ASSUME NEW g \in Fds, SubmitAccept(g), Sets(g, Accepting(ea[g])) PROVE Goal
  <2>1. behind' = behind \ {g} /\ (ea[g].readable => ready_events' = Append(ready_events, g))
    BY <1>6 DEF SubmitAccept, QueueIf
  <2>2. CASE f # g
    <3>1. ea'[f] = ea[f]
      BY <1>6, <2>2 DEF Sets
    <3> QED BY <2>1, <2>2, <3>1 DEF Streams
  <2>3. CASE f = g
    BY <2>1, <2>3, UserLater
  <2> QED BY <2>2, <2>3
<1>7. ASSUME NEW g \in Fds, CancelRead(g) \/ CancelAccept(g), Sets(g, NoRead(ea[g])) PROVE Goal
  <2>1. behind' = behind
    BY <1>7 DEF CancelRead, CancelAccept
  <2>2. ~NoRead(ea[g]).accept /\ NoRead(ea[g]).multi # "submitted"
    BY DEF NoRead, Rec
  <2> QED BY <1>2, <1>7, <2>1, <2>2
<1>8. ASSUME NEW g \in Fds, CancelWrite(g), Sets(g, NoWrite(ea[g])) PROVE Goal
  <2>1. behind' = behind
    BY <1>8 DEF CancelWrite
  <2>2. NoWrite(ea[g]).accept = ea[g].accept /\ NoWrite(ea[g]).multi = ea[g].multi
    BY DEF NoWrite, Rec
  <2> QED BY <1>2, <1>8, <2>1, <2>2
<1>9. ASSUME Submit, ea' = [g \in Fds |-> IF g \notin non_submit_events THEN ea[g] ELSE Submitted(ea[g])] PROVE Goal
  <2> DEFINE T == {g \in non_submit_events : ea[g].readable \/ ea[g].writable}
  <2>1. PICK s \in Orders(T) : ready_events' = ready_events \o s
    BY <1>9, Zenon DEF Submit
  <2>2. T \in SUBSET Fds
    BY DEF Books
  <2>3. f \in non_submit_events /\ ea[f].readable => f \in T
    OBVIOUS
  <2> HIDE DEF T
  <2>4. s \in Seq(Fds) /\ Elems(s) = T
    BY <2>2, OrdersAreSeqs
  <2>5. f \in T => \E i \in DOMAIN s : s[i] = f
    BY <2>4 DEF Elems
  <2>6. f \in T => Later(f)'
    BY <2>1, <2>4, <2>5, UserLater
  <2>7. f \notin non_submit_events => ea'[f] = ea[f] /\ (f \in behind => f \in behind')
    BY <1>9 DEF Submit
  <2> QED BY <2>3, <2>6, <2>7 DEF Streams
<1>10. ASSUME UnregisterRingBuffer, ea' = [g \in Fds |-> Ungrouped(ea[g])] PROVE Goal
  <2>1. behind' = behind
    BY <1>10 DEF UnregisterRingBuffer
  <2>2. ea'[f].accept = ea[f].accept /\ ea'[f].multi = "no"
    BY <1>10 DEF Ungrouped, Rec
  <2> QED BY <2>1, <2>2 DEF Streams
<1>11. ASSUME UNCHANGED <<ea, ready_events, cancelled>> PROVE Goal
  <2>1. CASE behind' = behind
    BY <1>11, <2>1 DEF Streams
  <2> HIDE DEF Goal
  <2>2. ASSUME NEW g \in Fds, NEW i \in BOOLEAN, SubmitMultishot(g, i) PROVE Goal
    BY <1>5, <2>2, MultishotSets, TypesShape, Zenon
  <2>3. ASSUME NEW g \in Fds, SubmitAccept(g) PROVE Goal
    BY <1>6, <2>3, AcceptingSets, TypesShape, Zenon
  <2>4. CASE Submit
    BY <1>9, <2>4, SubmittedSets, TypesShape, Zenon
  <2>5. CASE UnregisterRingBuffer \/ RegisterRingBuffer
    BY <2>1, <2>5, Zenon DEF UnregisterRingBuffer, RegisterRingBuffer
  <2>6. ASSUME NEW g \in Fds, User(g) PROVE Goal
    <3>1. \/ behind' = behind
          \/ \E i \in BOOLEAN : SubmitMultishot(g, i)
          \/ SubmitAccept(g)
      BY <2>6, Zenon DEF User, SubmitRead, SubmitWrite, CancelRead, CancelAccept, CancelWrite, CloseFd, ReopenFd, submitVars
    <3> QED BY <2>1, <2>2, <2>3, <3>1, Zenon
  <2> QED BY <2>4, <2>5, <2>6, Zenon DEF UserStep
<1> HIDE DEF Goal
<1>12. Goal
  BY <1>1, <1>3, <1>4, <1>5, <1>6, <1>7, <1>8, <1>9, <1>10, <1>11, Zenon DEF UserSets
<1> QED BY <1>12 DEF Goal

(* handle_events tries an accept or a group read on a readable descriptor:   *)
(* afterwards nothing is left, or it is left behind.                         *)
LEMMA InsideStreamsDue ==
    ASSUME Types, Kinds, Inside, StreamsDue
    PROVE  StreamsDue'
<1> ActionTypes /\ Place /\ Queue
  BY DEF Types
<1>1. /\ act \in Fds /\ act' = act /\ pc \in Busy /\ pc' \in Busy \cup {"undef"} /\ Shapes
  BY InsideKeeps, TypesShape
<1>2. /\ \A f \in Fds : f # act => ea'[f] = ea[f]
      /\ ea'[act].readable => ea[act].readable
      /\ \A f \in behind : f \in behind'
  BY InsideFlags, InsideLeaves
<1>3. ASSUME NEW f \in Fds, f # act, Streams(f)', ea'[f].readable PROVE Later(f)' \/ f \in behind'
  <2>1. Later(f) \/ f \in behind
    BY <1>2, <1>3 DEF StreamsDue, Streams, StreamTried
  <2> QED BY <1>2, <2>1, InsideLater
<1> DEFINE a == ea[act]
<1>4. ea'[act].accept = a.accept /\ ea'[act].multi = a.multi
  <2>1. \/ Sets(act, ReadOver(a)) \/ Sets(act, WriteOver(a)) \/ ea' = ea
        \/ \E x \in BOOLEAN \cup {a.readable} : Sets(act, Reread(a, x))
        \/ Sets(act, ReadBack(a)) \/ Sets(act, WriteBack(a))
    BY <1>1, InsideSets
  <2>2. ASSUME NEW b, Sets(act, b), b.accept = a.accept, b.multi = a.multi
        PROVE  ea'[act].accept = a.accept /\ ea'[act].multi = a.multi
    BY <1>1, <2>2 DEF Sets
  <2>3. CASE Sets(act, ReadOver(a))
    BY <2>2, <2>3 DEF ReadOver, Rec
  <2>4. CASE Sets(act, WriteOver(a))
    BY <2>2, <2>4 DEF WriteOver, Rec
  <2>5. ASSUME NEW x, Sets(act, Reread(a, x)) PROVE ea'[act].accept = a.accept /\ ea'[act].multi = a.multi
    BY <2>2, <2>5 DEF Reread, Rec
  <2>6. CASE Sets(act, ReadBack(a))
    BY <2>2, <2>6 DEF ReadBack, Rec
  <2>7. CASE Sets(act, WriteBack(a))
    BY <2>2, <2>7 DEF WriteBack, Rec
  <2> QED BY <2>1, <2>3, <2>4, <2>5, <2>6, <2>7
<1> SUFFICES ASSUME Streams(act), ea'[act].readable, StreamTried(act), act \notin behind'
             PROVE  StreamTried(act)'
  BY <1>1, <1>2, <1>3, <1>4, InsideLater DEF StreamsDue, Streams
<1>5. /\ ActionKind(act, a) /\ a.readable /\ n \in Nat
      /\ a.accept => act \in ListenFds /\ act \notin GroupFds /\ a.multi = "no"
      /\ a.multi = "submitted" => act \in GroupFds /\ act \notin ListenFds /\ ~a.accept
      /\ a.reads = <<>>
  BY <1>1, <1>2, FdAssumption DEF Kinds, ActionKind, Place, Streams
<1>6. CASE HandleEvents
  <2>1. \/ a.accept /\ pc' = "reads"
        \/ a.multi = "submitted" /\ pc' = "multi" /\ n' = 0
    BY <1>5, <1>6 DEF HandleEvents, Streams
  <2> QED BY <1>1, <1>5, <2>1 DEF StreamTried, At, Busy
<1>7. CASE ReadsDone
  <2>1. pc = "reads" /\ pc' = "accept"
    BY <1>7 DEF ReadsDone
  <2>2. act \in ListenFds
    BY <2>1 DEF StreamTried, At
  <2> QED BY <1>1, <2>1, <2>2 DEF StreamTried, At, Busy
<1>8. CASE DoAccept
  <2>1. pc = "accept"
    BY <1>8 DEF DoAccept
  <2>2. a.accept
    BY <1>5, <2>1 DEF StreamTried, At, Streams
  <2>3. act \in behind' \/ Take(0, FALSE)
    BY <1>8, <2>2, Zenon DEF DoAccept
  <2>4. ~Take(0, FALSE)
    <3> SUFFICES ASSUME Take(0, FALSE) PROVE FALSE
      OBVIOUS
    <3>1. ea'[act] = Reread(a, FALSE)
      BY <1>1, RereadSets DEF Sets
    <3> QED BY <3>1 DEF Reread, Rec
  <2> QED BY <2>3, <2>4
<1>9. CASE DoMultishot
  <2>1. pc = "multi" /\ n = 0 /\ n' = n /\ act \in GroupFds
    BY <1>9 DEF DoMultishot, Place, At, StreamTried
  <2>2. ~Take(0, FALSE)
    <3> SUFFICES ASSUME Take(0, FALSE) PROVE FALSE
      OBVIOUS
    <3>1. ea'[act] = Reread(a, FALSE)
      BY <1>1, RereadSets DEF Sets
    <3> QED BY <3>1 DEF Reread, Rec
  <2>3. MultishotTcp => act \in behind' \/ (pc' = "cb" /\ after' = "multi") \/ Take(0, FALSE)
    BY Zenon DEF MultishotTcp, Call
  <2>4. MultishotUdp => pc' = "dgram" \/ Take(0, FALSE)
    BY Zenon DEF MultishotUdp
  <2>5. (pc' = "cb" /\ after' = "multi") \/ pc' = "dgram"
    BY <1>9, <2>2, <2>3, <2>4, Zenon DEF DoMultishot
  <2> QED BY <1>1, <2>1, <2>5 DEF StreamTried, At, Busy
<1>10. CASE MultishotAgain
  <2>1. pc = "again" /\ pc' = "multi" /\ n' = n
    BY <1>10 DEF MultishotAgain, dispatchVars, callVars
  <2>2. act \in GroupFds /\ n = 0
    BY <2>1 DEF StreamTried, At
  <2> QED BY <1>1, <2>1, <2>2 DEF StreamTried, At, Busy
<1>11. CASE NextDatagram
  <2>1. pc = "dgram" /\ n' = n
    BY <1>11 DEF NextDatagram
  <2>2. act \in GroupFds /\ n = 0
    BY <2>1 DEF StreamTried, At
  <2>3. (pc' = "cb" /\ after' = "dgram") \/ pc' = "multi"
    BY <1>11, <2>2 DEF NextDatagram, Call
  <2> QED BY <1>1, <2>1, <2>2, <2>3 DEF StreamTried, At, Busy
<1>12. CASE DoReadTask
  BY <1>5, <1>12 DEF DoReadTask
<1>13. CASE PopRead \/ WritesBegin \/ DoWriteTask \/ PopWrite \/ WritesDone
  <2>1. pc \in {"popRead", "write", "writes", "popWrite"}
    BY <1>13, Zenon DEF PopRead, WritesBegin, DoWriteTask, PopWrite, WritesDone
  <2> QED BY <2>1 DEF StreamTried, At
<1>14. CASE CallbackReturns
  <2>1. n' = n /\ At' = At /\ pc' \in Busy
    BY <1>1, <1>14 DEF CallbackReturns, dispatchVars, callVars, At, Place, Busy
  <2> QED BY <1>1, <2>1 DEF StreamTried, Busy
<1>15. CASE Undefined
  BY <1>1, <1>15 DEF Undefined, StreamTried
<1> QED BY <1>6, <1>7, <1>8, <1>9, <1>10, <1>11, <1>12, <1>13, <1>14, <1>15 DEF Inside

(* All three *)
Due == ReadsDue /\ WritesDue /\ StreamsDue

(* Steps that leave the actions and the place in ready_events_ alone *)
LEMMA SameDue ==
    ASSUME Due, UNCHANGED <<ea, ready_events, behind>>, pc \notin Busy, pc' \notin Busy, pc # "undef"
    PROVE  Due'
<1>1. From = 1 /\ From' = 1
  BY DEF From
<1>2. \A f : ~ReadTried(f) /\ ~WriteTried(f) /\ ~StreamTried(f)
  BY DEF ReadTried, WriteTried, StreamTried
<1>3. \A f : Later(f) => Later(f)'
  BY <1>1 DEF Later
<1> QED BY <1>2, <1>3 DEF Due, ReadsDue, WritesDue, StreamsDue, Streams

(* A step of the kernel keeps what is due. *)
LEMMA StillDue ==
    ASSUME Due, UNCHANGED <<ea, ready_events, behind, pc, after, act, trig, n>>
    PROVE  Due'
BY DEF Due, ReadsDue, WritesDue, StreamsDue, Streams, Later, From, ReadTried, WriteTried, StreamTried, At

(* What user code submits for a ready descriptor is due, and nothing else    *)
(* changes.                                                                  *)
LEMMA UserKeepsDue ==
    ASSUME Types, Kinds, Due, UserStep
    PROVE  Due'
<1> ActionTypes /\ Queue /\ Books
  BY DEF Types
<1>1. UNCHANGED <<pc, after, act, trig, n>>
  BY UserGrows DEF Books, dispatchVars, callVars
<1>2. ASSUME NEW f \in Fds, ea'[f].reads # <<>>, ea'[f].readable PROVE Later(f)' \/ ReadTried(f)'
  <2>1. ea[f].readable
    BY <1>2, UserFlags
  <2>2. CASE ea'[f].reads = ea[f].reads
    <3>1. Later(f) \/ ReadTried(f)
      BY <1>2, <2>1, <2>2 DEF Due, ReadsDue
    <3>2. ReadTried(f) => ReadTried(f)'
      BY <1>1, <2>2 DEF ReadTried, At
    <3> QED BY <3>1, <3>2, UserLater
  <2> QED BY <1>2, <2>1, <2>2, UserDue
<1>3. ASSUME NEW f \in Fds \ GroupFds, ea'[f].writes # <<>>, ea'[f].writable PROVE Later(f)' \/ WriteTried(f)'
  <2>1. ea[f].writable
    BY <1>3, UserFlags
  <2>2. CASE ea'[f].writes = ea[f].writes
    <3>1. Later(f) \/ WriteTried(f)
      BY <1>3, <2>1, <2>2 DEF Due, WritesDue
    <3>2. WriteTried(f) => WriteTried(f)'
      BY <1>1, <2>2 DEF WriteTried, At
    <3> QED BY <3>1, <3>2, UserLater
  <2> QED BY <1>3, <2>1, <2>2, UserDue
<1>4. ASSUME NEW f \in Fds, Streams(f)', ea'[f].readable PROVE Later(f)' \/ StreamTried(f)' \/ f \in behind'
  <2>1. ea[f].readable
    BY <1>4, UserFlags
  <2>2. CASE Streams(f) /\ (f \in behind => f \in behind')
    <3>1. Later(f) \/ StreamTried(f) \/ f \in behind
      BY <2>1, <2>2 DEF Due, StreamsDue
    <3>2. StreamTried(f) => StreamTried(f)'
      BY <1>1 DEF StreamTried, At
    <3> QED BY <2>2, <3>1, <3>2, UserLater
  <2> QED BY <1>4, <2>1, <2>2, UserStreams
<1> QED BY <1>2, <1>3, <1>4, Zenon DEF Due, ReadsDue, WritesDue, StreamsDue

(* Every step keeps what is due. *)
LEMMA StepDue ==
    ASSUME Types, Kinds, Due, [Next]_vars
    PROVE  Due'
<1> ActionTypes /\ Place /\ Queue /\ Reported /\ Books
  BY DEF Types
<1>0. ready_events \in Seq(Fds \cup {None}) /\ Len(ready_events) \in Nat
  BY DEF Queue
<1>1. CASE Inside
  BY <1>1, InsideReadsDue, InsideWritesDue, InsideStreamsDue DEF Due
<1>2. CASE UserStep
  BY <1>2, UserKeepsDue
<1>3. CASE KernelStep
  BY <1>3, KernelKeeps, StillDue DEF submitVars, dispatchVars, callVars
<1>4. CASE Wait \/ WaitInterrupted
  BY <1>4, SameDue DEF Wait, WaitInterrupted, submitVars, Busy
<1>5. CASE UNCHANGED vars
  BY <1>5, StillDue DEF vars, submitVars, dispatchVars, callVars
<1>6. CASE ApplyChanges
  <2> DEFINE gone == {f \in changes : ea[f].events = {}}
  <2>1. /\ ea' = [f \in Fds |-> IF f \in gone THEN NewAction(f) ELSE ea[f]]
        /\ ready_events' = [i \in DOMAIN ready_events |-> IF ready_events[i] \in gone THEN None ELSE ready_events[i]]
        /\ pc = "user" /\ pc' = "wait" /\ behind' = behind
    BY <1>6 DEF ApplyChanges
  <2> HIDE DEF gone
  <2>2. From = 1 /\ From' = 1 /\ \A f : ~ReadTried(f) /\ ~WriteTried(f) /\ ~StreamTried(f)
    BY <2>1 DEF From, ReadTried, WriteTried, StreamTried, Busy
  <2>3. Len(ready_events') = Len(ready_events) /\ DOMAIN ready_events = 1..Len(ready_events)
    BY <1>0, <2>1
  <2>4. ASSUME NEW f \in Fds, f \notin gone, Later(f) PROVE Later(f)' /\ ea'[f] = ea[f]
    BY <2>1, <2>2, <2>3, <2>4 DEF Later
  <2>5. ASSUME NEW f \in Fds, f \in gone PROVE ea'[f].reads = <<>> /\ ea'[f].writes = <<>> /\ ~Streams(f)'
    BY <2>1, <2>5 DEF NewAction, Streams
  <2>6. ASSUME NEW f \in Fds, f \notin gone PROVE ea'[f] = ea[f]
    BY <2>1, <2>6
  <2>7. behind' = behind
    BY <2>1
  <2> QED BY <2>2, <2>4, <2>5, <2>6, <2>7 DEF Due, ReadsDue, WritesDue, StreamsDue, Streams
<1>7. CASE NextReported
  <2>1. pc = "events" /\ ready_events' = ready_events /\ behind' = behind
    BY <1>7 DEF NextReported
  <2>2. ASSUME NEW r \in reported, Sets(r.fd, Flagged(ea[r.fd], "R" \in r.mask, "W" \in r.mask)),
               act' = r.fd, trig' = TRUE, pc' = "handle"
        PROVE  Due'
    <3>1. \A f \in Fds : f # r.fd => ea'[f] = ea[f]
      BY <2>2 DEF Sets
    <3>2. From = 1 /\ From' = 1 /\ \A f : ~ReadTried(f) /\ ~WriteTried(f) /\ ~StreamTried(f)
      BY <2>1, <2>2 DEF From, ReadTried, WriteTried, StreamTried, Busy
    <3>3. \A f : Later(f) => Later(f)'
      BY <2>1, <3>2 DEF Later
    <3>4. \A f : f = r.fd => ReadTried(f)' /\ WriteTried(f)' /\ StreamTried(f)'
      BY <2>2 DEF ReadTried, WriteTried, StreamTried, At, Busy, BeforeWrites
    <3> QED BY <2>1, <3>1, <3>2, <3>3, <3>4 DEF Due, ReadsDue, WritesDue, StreamsDue, Streams
  <2>3. CASE ea' = ea /\ pc' = "ready"
    BY <2>1, <2>3, SameDue DEF Busy
  <2> QED BY <1>7, <2>2, <2>3, ReportedSets, TypesShape, Zenon
<1>8. CASE NextReady
  <2>1. pc = "ready" /\ UNCHANGED <<ea, ready_events, behind>>
    BY <1>8 DEF NextReady, submitVars
  <2>2. CASE pc' = "user"
    BY <2>1, <2>2, SameDue DEF Busy
  <2>3. CASE ready_cnt > 0 /\ act' = Head(ready_events) /\ trig' = FALSE
             /\ pc' = (IF Head(ready_events) = None THEN "handled" ELSE "handle")
    <3>1. ready_events # <<>> /\ Head(ready_events) = ready_events[1]
      BY <1>0, <2>3 DEF Queue
    <3>2. From = 1 /\ From' = 2 /\ \A f : ~ReadTried(f) /\ ~WriteTried(f) /\ ~StreamTried(f)
      BY <2>1, <2>3 DEF From, ReadTried, WriteTried, StreamTried, Busy
    <3>3. ASSUME NEW f \in Fds, f # act', Later(f) PROVE Later(f)'
      <4>1. PICK i \in 1..Len(ready_events) : ready_events[i] = f
        BY <3>2, <3>3 DEF Later
      <4>2. i # 1
        BY <2>3, <3>1, <3>3, <4>1
      <4>3. i \in 2..Len(ready_events')
        BY <1>0, <2>1, <4>1, <4>2
      <4> QED BY <2>1, <3>2, <4>1, <4>3 DEF Later
    <3>4. \A f \in Fds : f = act' => ReadTried(f)' /\ WriteTried(f)' /\ StreamTried(f)'
      BY <2>3, FdAssumption DEF ReadTried, WriteTried, StreamTried, At, Busy, BeforeWrites
    <3> QED BY <2>1, <3>2, <3>3, <3>4 DEF Due, ReadsDue, WritesDue, StreamsDue, Streams
  <2> QED BY <1>8, <2>2, <2>3, Zenon DEF NextReady
<1>9. CASE Handled
  <2>1. pc = "handled" /\ UNCHANGED <<ea, behind>>
    BY <1>9 DEF Handled
  <2>2. \A f : ~ReadTried(f) /\ ~WriteTried(f) /\ ~StreamTried(f)
    BY <2>1 DEF ReadTried, WriteTried, StreamTried, At, BeforeWrites
  <2>3. CASE trig
    <3>1. From = 1 /\ From' = 1 /\ ready_events' = ready_events
      BY <1>9, <2>3 DEF Handled, From, Busy
    <3>2. \A f : Later(f) => Later(f)'
      BY <3>1 DEF Later
    <3> QED BY <2>1, <2>2, <3>2 DEF Due, ReadsDue, WritesDue, StreamsDue, Streams
  <2>4. CASE ~trig
    <3>1. ready_events' = Tail(ready_events) /\ pc' = "ready"
      BY <1>9, <2>4 DEF Handled
    <3>2. ready_events # <<>>
      BY <1>0, <2>1, <2>4 DEF Queue, Busy
    <3>3. From = 2 /\ From' = 1
      BY <2>1, <2>4, <3>1 DEF From, Busy
    <3>4. /\ Len(ready_events') = Len(ready_events) - 1
          /\ \A i \in 1..(Len(ready_events) - 1) : ready_events'[i] = ready_events[i + 1]
      BY <1>0, <3>1, <3>2
    <3>5. ASSUME NEW f \in Fds, Later(f) PROVE Later(f)'
      <4>1. PICK i \in 2..Len(ready_events) : ready_events[i] = f
        BY <3>3, <3>5 DEF Later
      <4>2. i - 1 \in 1..(Len(ready_events) - 1) /\ (i - 1) + 1 = i
        BY <1>0, <4>1
      <4>3. ready_events'[i - 1] = f
        BY <3>4, <4>1, <4>2
      <4> QED BY <3>3, <3>4, <4>2, <4>3 DEF Later
    <3> QED BY <2>1, <2>2, <3>5 DEF Due, ReadsDue, WritesDue, StreamsDue, Streams
  <2> QED BY <2>3, <2>4
<1> QED BY <1>1, <1>2, <1>3, <1>4, <1>5, <1>6, <1>7, <1>8, <1>9, DispatchCases

(* The inductive invariant for the wake-ups *)
WakeInv == Base /\ EdgeOK /\ Due

(* The inductive invariant for the wake-ups holds in the beginning. *)
LEMMA InitWake == Init => WakeInv
<1> SUFFICES ASSUME Init PROVE WakeInv
  OBVIOUS
<1>1. Base
  BY InitBase
<1>2. EdgeOK
  BY DEF Init, EdgeOK
<1>3. \A f \in Fds : ea[f].reads = <<>> /\ ea[f].writes = <<>> /\ ~Streams(f)
  BY DEF Init, NewAction, Streams
<1> QED BY <1>1, <1>2, <1>3 DEF WakeInv, Due, ReadsDue, WritesDue, StreamsDue

(* Every step keeps it. *)
LEMMA StepWake == WakeInv /\ [Next]_vars => WakeInv'
BY StepBase, StepEdge, StepDue DEF WakeInv, Base

(* It always holds. *)
LEMMA WakeAlways == Spec => []WakeInv
BY InitWake, StepWake, PTL DEF Spec

(* No wake-up is lost, in any interleaving with the kernel: what is there is *)
(* on epoll's ready list, still to be handled or remembered, and what is     *)
(* remembered is scheduled for the tasks that wait for it.  The exceptions   *)
(* are those QueuedWhenReady names: an accept after its one connection and a *)
(* group read that has ended, whose descriptors stay readable (behind), and  *)
(* the writes of a descriptor with a group read.                             *)
THEOREM WakeUpsKept == Spec => []NoLostWakeUp
<1>1. WakeInv => NoLostWakeUp
  BY EdgeIs, DueIsQueued DEF WakeInv, Base, Due, NoLostWakeUp
<1> QED BY <1>1, WakeAlways, PTL
===============================================================================
