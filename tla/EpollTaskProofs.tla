--------------------------- MODULE EpollTaskProofs ----------------------------
(***************************************************************************)
(* Proofs about the tasks of the epoll backend, for every set of descriptors *)
(* and tasks and all bounds: each task is at one place until it is over      *)
(* (EachTaskOnce), pop_front removes the task whose callback has run         *)
(* (OwnTaskPopped), nothing that handle_events goes on to use is gone        *)
(* (NothingDangles), and no step drops a task, but for the pop_front after a *)
(* callback that cancelled its own operation (NoTaskDropped, NeverDropped).  *)
(*                                                                           *)
(* PopsItsOwn needs what the loops of handle_events rely on across a         *)
(* callback (Sound): n is never more than what is in the deque, and the      *)
(* callback runs for its first task.  TaskNotDropped needs the part of it    *)
(* that is left when a callback may cancel its own operation (Owner): the    *)
(* task the callback runs for is still first, or was cancelled.              *)
(***************************************************************************)
EXTENDS EpollProofs

-----------------------------------------------------------------------------
(* Each task once. *)

(* The tasks that an event_action holds *)
ReadsOf(a) == Elems(a.reads) \cup Elems(a.ns_reads)
WritesOf(a) == Elems(a.writes) \cup Elems(a.ns_writes)

(* Each of them once *)
Single(a) ==
    /\ Distinct(a.reads) /\ Distinct(a.ns_reads) /\ Elems(a.reads) \cap Elems(a.ns_reads) = {}
    /\ Distinct(a.writes) /\ Distinct(a.ns_writes) /\ Elems(a.writes) \cap Elems(a.ns_writes) = {}

(* The reads are reads and the writes are writes. *)
LEMMA OfTypes ==
    ASSUME NEW a, Typed(a)
    PROVE  ReadsOf(a) \subseteq Reads /\ WritesOf(a) \subseteq Writes
BY ElemsType DEF Typed, ReadsOf, WritesOf

(* is_readable_ set by a read keeps each task of an event_action once; which *)
(* tasks it holds then (Reread).                                             *)
LEMMA RereadOnce ==
    ASSUME NEW a, Single(a), NEW x
    PROVE  LET b == Reread(a, x) IN Single(b) /\ ReadsOf(b) = ReadsOf(a) /\ WritesOf(b) = WritesOf(a)
BY DEF Reread, Rec, Single, ReadsOf, WritesOf

(* set_ready_events keeps each task of an event_action once; which tasks it  *)
(* holds then (Flagged).                                                     *)
LEMMA FlaggedOnce ==
    ASSUME NEW a, Single(a), NEW x, NEW y
    PROVE  LET b == Flagged(a, x, y) IN Single(b) /\ ReadsOf(b) = ReadsOf(a) /\ WritesOf(b) = WritesOf(a)
BY DEF Flagged, Rec, Single, ReadsOf, WritesOf

(* unregister_ring_buffer keeps each task of an event_action once; which     *)
(* tasks it holds then (Ungrouped).                                          *)
LEMMA UngroupedOnce ==
    ASSUME NEW a, Single(a)
    PROVE  LET b == Ungrouped(a) IN Single(b) /\ ReadsOf(b) = ReadsOf(a) /\ WritesOf(b) = WritesOf(a)
BY DEF Ungrouped, Rec, Single, ReadsOf, WritesOf

(* submit_async_accept keeps each task of an event_action once; which tasks  *)
(* it holds then (Accepting).                                                *)
LEMMA AcceptingOnce ==
    ASSUME NEW a, Single(a)
    PROVE  LET b == Accepting(a) IN Single(b) /\ ReadsOf(b) = ReadsOf(a) /\ WritesOf(b) = WritesOf(a)
BY DEF Accepting, Rec, Single, ReadsOf, WritesOf

(* submit_async_read into a buffer group keeps each task of an event_action  *)
(* once; which tasks it holds then (Multishot).                              *)
LEMMA MultishotOnce ==
    ASSUME NEW a, Single(a), NEW s
    PROVE  LET b == Multishot(a, s) IN Single(b) /\ ReadsOf(b) = ReadsOf(a) /\ WritesOf(b) = WritesOf(a)
BY MultishotFields DEF Single, ReadsOf, WritesOf

(* submit() keeps each task of an event_action once; which tasks it holds    *)
(* then (Submitted).                                                         *)
LEMMA SubmittedOnce ==
    ASSUME NEW a, Typed(a), Single(a)
    PROVE  LET b == Submitted(a) IN Single(b) /\ ReadsOf(b) = ReadsOf(a) /\ WritesOf(b) = WritesOf(a)
<1> DEFINE b == Submitted(a)
           r == a.reads \o a.ns_reads
           w == a.writes \o a.ns_writes
<1>1. b.reads = r /\ b.ns_reads = <<>> /\ b.writes = w /\ b.ns_writes = <<>>
  BY SubmittedFields, Zenon
<1>2. a.reads \in Seq(Reads) /\ a.ns_reads \in Seq(Reads) /\ a.writes \in Seq(Writes) /\ a.ns_writes \in Seq(Writes)
  BY DEF Typed
<1>3. Elems(r) = ReadsOf(a) /\ Distinct(r)
  BY <1>2, ConcatElems DEF Single, ReadsOf
<1>4. Elems(w) = WritesOf(a) /\ Distinct(w)
  BY <1>2, ConcatElems DEF Single, WritesOf
<1> HIDE DEF b, r, w
<1>5. Single(b) /\ ReadsOf(b) = ReadsOf(a) /\ WritesOf(b) = WritesOf(a)
  BY <1>1, <1>3, <1>4, EmptyElems DEF Single, ReadsOf, WritesOf
<1> QED BY <1>5 DEF b

(* submit_async_read keeps each task of an event_action once; which tasks it *)
(* holds then (AddedRead).                                                   *)
LEMMA AddedReadOnce ==
    ASSUME NEW a, Typed(a), Single(a), NEW t \in Reads, t \notin ReadsOf(a)
    PROVE  LET b == AddedRead(a, t) IN Single(b) /\ ReadsOf(b) = ReadsOf(a) \cup {t} /\ WritesOf(b) = WritesOf(a)
<1> DEFINE b == AddedRead(a, t)
           q == Append(a.reads, t)
<1>1. b.reads = q /\ b.ns_reads = a.ns_reads /\ b.writes = a.writes /\ b.ns_writes = a.ns_writes
  BY DEF AddedRead, Rec
<1>2. Elems(q) = Elems(a.reads) \cup {t} /\ Distinct(q)
  BY AppendElems DEF Typed, Single, ReadsOf
<1> HIDE DEF b, q
<1>3. Single(b) /\ ReadsOf(b) = ReadsOf(a) \cup {t} /\ WritesOf(b) = WritesOf(a)
  BY <1>1, <1>2 DEF Single, ReadsOf, WritesOf
<1> QED BY <1>3 DEF b

(* submit_async_read with is_submit = false keeps each task of an            *)
(* event_action once; which tasks it holds then (KeptRead).                  *)
LEMMA KeptReadOnce ==
    ASSUME NEW a, Typed(a), Single(a), NEW t \in Reads, t \notin ReadsOf(a)
    PROVE  LET b == KeptRead(a, t) IN Single(b) /\ ReadsOf(b) = ReadsOf(a) \cup {t} /\ WritesOf(b) = WritesOf(a)
<1> DEFINE b == KeptRead(a, t)
           q == Append(a.ns_reads, t)
<1>1. b.ns_reads = q /\ b.reads = a.reads /\ b.writes = a.writes /\ b.ns_writes = a.ns_writes
  BY DEF KeptRead, Rec
<1>2. Elems(q) = Elems(a.ns_reads) \cup {t} /\ Distinct(q)
  BY AppendElems DEF Typed, Single, ReadsOf
<1> HIDE DEF b, q
<1>3. Single(b) /\ ReadsOf(b) = ReadsOf(a) \cup {t} /\ WritesOf(b) = WritesOf(a)
  BY <1>1, <1>2 DEF Single, ReadsOf, WritesOf
<1> QED BY <1>3 DEF b

(* submit_async_write keeps each task of an event_action once; which tasks   *)
(* it holds then (AddedWrite).                                               *)
LEMMA AddedWriteOnce ==
    ASSUME NEW a, Typed(a), Single(a), NEW t \in Writes, t \notin WritesOf(a)
    PROVE  LET b == AddedWrite(a, t) IN Single(b) /\ WritesOf(b) = WritesOf(a) \cup {t} /\ ReadsOf(b) = ReadsOf(a)
<1> DEFINE b == AddedWrite(a, t)
           q == Append(a.writes, t)
<1>1. b.writes = q /\ b.reads = a.reads /\ b.ns_reads = a.ns_reads /\ b.ns_writes = a.ns_writes
  BY DEF AddedWrite, Rec
<1>2. Elems(q) = Elems(a.writes) \cup {t} /\ Distinct(q)
  BY AppendElems DEF Typed, Single, WritesOf
<1> HIDE DEF b, q
<1>3. Single(b) /\ WritesOf(b) = WritesOf(a) \cup {t} /\ ReadsOf(b) = ReadsOf(a)
  BY <1>1, <1>2 DEF Single, ReadsOf, WritesOf
<1> QED BY <1>3 DEF b

(* submit_async_write with is_submit = false keeps each task of an           *)
(* event_action once; which tasks it holds then (KeptWrite).                 *)
LEMMA KeptWriteOnce ==
    ASSUME NEW a, Typed(a), Single(a), NEW t \in Writes, t \notin WritesOf(a)
    PROVE  LET b == KeptWrite(a, t) IN Single(b) /\ WritesOf(b) = WritesOf(a) \cup {t} /\ ReadsOf(b) = ReadsOf(a)
<1> DEFINE b == KeptWrite(a, t)
           q == Append(a.ns_writes, t)
<1>1. b.ns_writes = q /\ b.reads = a.reads /\ b.ns_reads = a.ns_reads /\ b.writes = a.writes
  BY DEF KeptWrite, Rec
<1>2. Elems(q) = Elems(a.ns_writes) \cup {t} /\ Distinct(q)
  BY AppendElems DEF Typed, Single, WritesOf
<1> HIDE DEF b, q
<1>3. Single(b) /\ WritesOf(b) = WritesOf(a) \cup {t} /\ ReadsOf(b) = ReadsOf(a)
  BY <1>1, <1>2 DEF Single, ReadsOf, WritesOf
<1> QED BY <1>3 DEF b

(* push_back of a read that found nothing keeps each task of an event_action *)
(* once; which tasks it holds then (ReadBack).                               *)
LEMMA ReadBackOnce ==
    ASSUME NEW a, Typed(a), Single(a), a.reads # <<>>
    PROVE  LET b == ReadBack(a) IN Single(b) /\ ReadsOf(b) = ReadsOf(a) /\ WritesOf(b) = WritesOf(a)
<1> DEFINE b == ReadBack(a)
           q == Append(Tail(a.reads), Head(a.reads))
<1>1. b.reads = q /\ b.ns_reads = a.ns_reads /\ b.writes = a.writes /\ b.ns_writes = a.ns_writes
  BY DEF ReadBack, Rec
<1>2. Elems(q) = Elems(a.reads) /\ Distinct(q)
  BY RotateElems DEF Typed, Single
<1> HIDE DEF b, q
<1>3. Single(b) /\ ReadsOf(b) = ReadsOf(a) /\ WritesOf(b) = WritesOf(a)
  BY <1>1, <1>2 DEF Single, ReadsOf, WritesOf
<1> QED BY <1>3 DEF b

(* push_back of a write that found no room keeps each task of an             *)
(* event_action once; which tasks it holds then (WriteBack).                 *)
LEMMA WriteBackOnce ==
    ASSUME NEW a, Typed(a), Single(a), a.writes # <<>>
    PROVE  LET b == WriteBack(a) IN Single(b) /\ WritesOf(b) = WritesOf(a) /\ ReadsOf(b) = ReadsOf(a)
<1> DEFINE b == WriteBack(a)
           q == Append(Tail(a.writes), Head(a.writes))
<1>1. b.writes = q /\ b.reads = a.reads /\ b.ns_reads = a.ns_reads /\ b.ns_writes = a.ns_writes
  BY DEF WriteBack, Rec
<1>2. Elems(q) = Elems(a.writes) /\ Distinct(q)
  BY RotateElems DEF Typed, Single
<1> HIDE DEF b, q
<1>3. Single(b) /\ WritesOf(b) = WritesOf(a) /\ ReadsOf(b) = ReadsOf(a)
  BY <1>1, <1>2 DEF Single, ReadsOf, WritesOf
<1> QED BY <1>3 DEF b

(* pop_front of a read keeps each task of an event_action once; which tasks  *)
(* it holds then (ReadOver).                                                 *)
LEMMA ReadOverOnce ==
    ASSUME NEW a, Typed(a), Single(a), a.reads # <<>>
    PROVE  LET b == ReadOver(a)
           IN  /\ Single(b) /\ ReadsOf(a) = ReadsOf(b) \cup {Head(a.reads)}
               /\ Head(a.reads) \notin ReadsOf(b) /\ WritesOf(b) = WritesOf(a)
<1> DEFINE b == ReadOver(a)
           q == Tail(a.reads)
<1>1. b.reads = q /\ b.ns_reads = a.ns_reads /\ b.writes = a.writes /\ b.ns_writes = a.ns_writes
  BY DEF ReadOver, Rec
<1>2. Elems(a.reads) = Elems(q) \cup {Head(a.reads)} /\ Distinct(q) /\ Head(a.reads) \notin Elems(q)
  BY TailElems DEF Typed, Single
<1> HIDE DEF b, q
<1>3. /\ Single(b) /\ ReadsOf(a) = ReadsOf(b) \cup {Head(a.reads)}
      /\ Head(a.reads) \notin ReadsOf(b) /\ WritesOf(b) = WritesOf(a)
  BY <1>1, <1>2 DEF Single, ReadsOf, WritesOf
<1> QED BY <1>3 DEF b

(* pop_front of a write keeps each task of an event_action once; which tasks *)
(* it holds then (WriteOver).                                                *)
LEMMA WriteOverOnce ==
    ASSUME NEW a, Typed(a), Single(a), a.writes # <<>>
    PROVE  LET b == WriteOver(a)
           IN  /\ Single(b) /\ WritesOf(a) = WritesOf(b) \cup {Head(a.writes)}
               /\ Head(a.writes) \notin WritesOf(b) /\ ReadsOf(b) = ReadsOf(a)
<1> DEFINE b == WriteOver(a)
           q == Tail(a.writes)
<1>1. b.writes = q /\ b.reads = a.reads /\ b.ns_reads = a.ns_reads /\ b.ns_writes = a.ns_writes
  BY DEF WriteOver, Rec
<1>2. Elems(a.writes) = Elems(q) \cup {Head(a.writes)} /\ Distinct(q) /\ Head(a.writes) \notin Elems(q)
  BY TailElems DEF Typed, Single
<1> HIDE DEF b, q
<1>3. /\ Single(b) /\ WritesOf(a) = WritesOf(b) \cup {Head(a.writes)}
      /\ Head(a.writes) \notin WritesOf(b) /\ ReadsOf(b) = ReadsOf(a)
  BY <1>1, <1>2 DEF Single, ReadsOf, WritesOf
<1> QED BY <1>3 DEF b

(* disable_read keeps each task of an event_action once; which tasks it      *)
(* holds then (NoRead).                                                      *)
LEMMA NoReadOnce ==
    ASSUME NEW a, Single(a)
    PROVE  LET b == NoRead(a) IN Single(b) /\ ReadsOf(b) = {} /\ WritesOf(b) = WritesOf(a)
<1> DEFINE b == NoRead(a)
<1>1. b.reads = <<>> /\ b.ns_reads = <<>> /\ b.writes = a.writes /\ b.ns_writes = a.ns_writes
  BY DEF NoRead, Rec
<1> HIDE DEF b
<1>2. Single(b) /\ ReadsOf(b) = {} /\ WritesOf(b) = WritesOf(a)
  BY <1>1, EmptyElems DEF Single, ReadsOf, WritesOf
<1> QED BY <1>2 DEF b

(* disable_write keeps each task of an event_action once; which tasks it     *)
(* holds then (NoWrite).                                                     *)
LEMMA NoWriteOnce ==
    ASSUME NEW a, Single(a)
    PROVE  LET b == NoWrite(a) IN Single(b) /\ WritesOf(b) = {} /\ ReadsOf(b) = ReadsOf(a)
<1> DEFINE b == NoWrite(a)
<1>1. b.writes = <<>> /\ b.ns_writes = <<>> /\ b.reads = a.reads /\ b.ns_reads = a.ns_reads
  BY DEF NoWrite, Rec
<1> HIDE DEF b
<1>2. Single(b) /\ WritesOf(b) = {} /\ ReadsOf(b) = ReadsOf(a)
  BY <1>1, EmptyElems DEF Single, ReadsOf, WritesOf
<1> QED BY <1>2 DEF b

(* All the tasks of an event_action *)
HeldBy(a) == ReadsOf(a) \cup WritesOf(a)

(* TasksOnce, by event_action. *)
LEMMA HeldIs == TasksOnce <=> /\ done \cap cancelled = {}
                              /\ \A f \in Fds : /\ Single(ea[f]) /\ HeldBy(ea[f]) \cap (done \cup cancelled) = {}
                                                /\ \A g \in Fds \ {f} : HeldBy(ea[f]) \cap HeldBy(ea[g]) = {}
<1>1. \A f : Held(f) = HeldBy(ea[f])
  BY DEF Held, HeldBy, ReadsOf, WritesOf
<1> QED BY <1>1, Zenon DEF TasksOnce, Single

(* The same in the next state. *)
LEMMA HeldIsNext == TasksOnce' <=> /\ done' \cap cancelled' = {}
                                   /\ \A f \in Fds : /\ Single(ea'[f]) /\ HeldBy(ea'[f]) \cap (done' \cup cancelled') = {}
                                                     /\ \A g \in Fds \ {f} : HeldBy(ea'[f]) \cap HeldBy(ea'[g]) = {}
<1>1. \A f : Held(f)' = HeldBy(ea'[f])
  BY DEF Held, HeldBy, ReadsOf, WritesOf
<1> QED BY <1>1, Zenon DEF TasksOnce, Single

(* Known, by event_action, now and in the next state. *)
LEMMA KnownIs == /\ \A t : t \in Known <=> t \in done \cup cancelled \/ \E f \in Fds : t \in HeldBy(ea[f])
                 /\ \A t : t \in Known' <=> t \in done' \cup cancelled' \/ \E f \in Fds : t \in HeldBy(ea'[f])
<1>1. \A f : Held(f) = HeldBy(ea[f])
  BY DEF Held, HeldBy, ReadsOf, WritesOf
<1>2. \A f : Held(f)' = HeldBy(ea'[f])
  BY DEF Held, HeldBy, ReadsOf, WritesOf
<1>3. Known' = done' \cup cancelled' \cup UNION {Held(f)' : f \in Fds}
  BY DEF Known
<1> QED BY <1>1, <1>2, <1>3 DEF Known

(* A step that moves no task in or out keeps every task once. *)
LEMMA SameHeld ==
    ASSUME TasksOnce, UNCHANGED <<done, cancelled>>,
           \A f \in Fds : Single(ea'[f]) /\ HeldBy(ea'[f]) = HeldBy(ea[f])
    PROVE  TasksOnce' /\ Known \subseteq Known'
<1>1. TasksOnce'
  BY HeldIs, HeldIsNext
<1>2. Known \subseteq Known'
  BY KnownIs
<1> QED BY <1>1, <1>2

(* A step that adds one new task keeps every task once. *)
LEMMA OneMore ==
    ASSUME TasksOnce, UNCHANGED <<done, cancelled>>, NEW f \in Fds, NEW b, Sets(f, b),
           NEW t, New(t), Single(b), HeldBy(b) = HeldBy(ea[f]) \cup {t}
    PROVE  TasksOnce' /\ Known \subseteq Known'
<1>0. \A g \in Fds : ea'[g] = IF g = f THEN b ELSE ea[g]
  BY DEF Sets
<1>1. t \notin done \cup cancelled /\ \A g \in Fds : t \notin HeldBy(ea[g])
  BY KnownIs DEF New
<1>2. TasksOnce'
  <2>1. ASSUME NEW g \in Fds
        PROVE  Single(ea'[g]) /\ HeldBy(ea'[g]) \cap (done' \cup cancelled') = {}
    BY <1>0, <1>1, HeldIs
  <2>2. ASSUME NEW g \in Fds, NEW h \in Fds \ {g}
        PROVE  HeldBy(ea'[g]) \cap HeldBy(ea'[h]) = {}
    BY <1>0, <1>1, HeldIs
  <2>3. done' \cap cancelled' = {}
    BY HeldIs
  <2> QED BY <2>1, <2>2, <2>3, HeldIsNext
<1>3. Known \subseteq Known'
  <2>1. \A g \in Fds : HeldBy(ea[g]) \subseteq HeldBy(ea'[g])
    BY <1>0
  <2> QED BY <2>1, KnownIs
<1> QED BY <1>2, <1>3

(* A step that completes, or cancels, some tasks of one descriptor keeps     *)
(* every task once.                                                          *)
LEMMA SomeOver ==
    ASSUME TasksOnce, NEW f \in Fds, NEW b, Sets(f, b), NEW X, Single(b),
           HeldBy(ea[f]) = HeldBy(b) \cup X, HeldBy(b) \cap X = {},
           \/ done' = done \cup X /\ cancelled' = cancelled
           \/ done' = done /\ cancelled' = cancelled \cup X
    PROVE  TasksOnce' /\ Known \subseteq Known'
<1>0. \A g \in Fds : ea'[g] = IF g = f THEN b ELSE ea[g]
  BY DEF Sets
<1>1. X \cap (done \cup cancelled) = {} /\ \A g \in Fds \ {f} : X \cap HeldBy(ea[g]) = {}
  BY HeldIs
<1>2. TasksOnce'
  <2>1. ASSUME NEW g \in Fds
        PROVE  Single(ea'[g]) /\ HeldBy(ea'[g]) \cap (done' \cup cancelled') = {}
    <3>1. HeldBy(ea'[g]) \subseteq HeldBy(ea[g]) /\ HeldBy(ea'[g]) \cap X = {}
      BY <1>0, <1>1
    <3>2. HeldBy(ea[g]) \cap (done \cup cancelled) = {} /\ Single(ea[g])
      BY HeldIs
    <3>3. done' \cup cancelled' = done \cup cancelled \cup X
      OBVIOUS
    <3> QED BY <1>0, <3>1, <3>2, <3>3
  <2>2. ASSUME NEW g \in Fds, NEW h \in Fds \ {g}
        PROVE  HeldBy(ea'[g]) \cap HeldBy(ea'[h]) = {}
    <3>1. HeldBy(ea'[g]) \subseteq HeldBy(ea[g]) /\ HeldBy(ea'[h]) \subseteq HeldBy(ea[h])
      BY <1>0
    <3>2. HeldBy(ea[g]) \cap HeldBy(ea[h]) = {}
      BY HeldIs
    <3> QED BY <3>1, <3>2
  <2>3. done' \cap cancelled' = {}
    <3>1. done \cap cancelled = {}
      BY HeldIs
    <3> QED BY <1>1, <3>1
  <2> QED BY <2>1, <2>2, <2>3, HeldIsNext
<1>3. Known \subseteq Known'
  <2>1. \A g \in Fds : HeldBy(ea[g]) \subseteq HeldBy(ea'[g]) \cup X
    BY <1>0
  <2>2. done \cup cancelled \cup X \subseteq done' \cup cancelled'
    OBVIOUS
  <2> QED BY <2>1, <2>2, KnownIs
<1> QED BY <1>2, <1>3

(* pop_front is about to take a task other than the one whose callback ran *)
PopsAnother ==
    \/ pc = "popRead" /\ ea[act].reads # <<>> /\ Head(ea[act].reads) # cb.task
    \/ pc = "popWrite" /\ ea[act].writes # <<>> /\ Head(ea[act].writes) # cb.task

(* Each task stays once, and none is dropped unless another's callback ran *)
Kept == TasksOnce' /\ (Known \subseteq Known' \/ PopsAnother)

(* A step that takes some tasks from one descriptor keeps the others once. *)
LEMMA SomeGone ==
    ASSUME TasksOnce, UNCHANGED <<done, cancelled>>, NEW f \in Fds, NEW b, Sets(f, b), Single(b),
           HeldBy(b) \subseteq HeldBy(ea[f])
    PROVE  TasksOnce'
<1>0. \A g \in Fds : ea'[g] = IF g = f THEN b ELSE ea[g]
  BY DEF Sets
<1>1. \A g \in Fds : HeldBy(ea'[g]) \subseteq HeldBy(ea[g])
  BY <1>0
<1>2. \A g \in Fds : Single(ea'[g]) /\ HeldBy(ea'[g]) \cap (done' \cup cancelled') = {}
  BY <1>0, <1>1, HeldIs
<1>3. ASSUME NEW g \in Fds, NEW h \in Fds \ {g}
      PROVE  HeldBy(ea'[g]) \cap HeldBy(ea'[h]) = {}
  <2>1. HeldBy(ea[g]) \cap HeldBy(ea[h]) = {}
    BY HeldIs
  <2> QED BY <1>1, <2>1
<1>4. done' \cap cancelled' = {}
  BY HeldIs
<1> QED BY <1>2, <1>3, <1>4, HeldIsNext

(* handle_events keeps every task once and drops none, unless it pops one    *)
(* other than the one whose callback ran.                                    *)
LEMMA InsideTasks ==
    ASSUME Types, TasksOnce, Inside
    PROVE  Kept
<1> ActionTypes /\ Place
  BY DEF Types
<1>1. act \in Fds /\ cancelled' = cancelled
  BY InsideKeeps, TypesShape
<1> DEFINE a == ea[act]
<1>2. Typed(a) /\ Single(a) /\ \A g \in Fds : Single(ea[g])
  BY <1>1, HeldIs DEF ActionTypes
<1>3. ASSUME NEW b, Sets(act, b), Single(b), ReadsOf(b) = ReadsOf(a), WritesOf(b) = WritesOf(a), done' = done
      PROVE  Kept
  <2>1. \A g \in Fds : Single(ea'[g]) /\ HeldBy(ea'[g]) = HeldBy(ea[g])
    BY <1>2, <1>3 DEF Sets, HeldBy
  <2> QED BY <1>1, <1>3, <2>1, SameHeld DEF Kept
<1>4. ASSUME NEW x, NEW b, Sets(act, b), Single(b), x \notin HeldBy(b),
             HeldBy(a) = HeldBy(b) \cup {x}, done' = done \cup {x}
      PROVE  Kept
  <2>1. HeldBy(b) \cap {x} = {}
    BY <1>4
  <2> QED BY <1>1, <1>4, <2>1, SomeOver, Zenon DEF Kept
<1>5. ReadsOf(a) \cap WritesOf(a) = {}
  BY <1>2, OfTypes, TaskAssumption
<1>6. CASE PopRead /\ Sets(act, ReadOver(a))
  <2> DEFINE b == ReadOver(a)
             x == Head(a.reads)
  <2>1. a.reads # <<>> /\ pc = "popRead" /\ done' = done \cup ({x} \cap {cb.task})
    BY <1>6 DEF PopRead
  <2>2. /\ Single(b) /\ ReadsOf(a) = ReadsOf(b) \cup {x}
        /\ x \notin ReadsOf(b) /\ WritesOf(b) = WritesOf(a)
    BY <1>2, <2>1, ReadOverOnce
  <2> HIDE DEF a, b, x
  <2>3. x \notin HeldBy(b) /\ HeldBy(a) = HeldBy(b) \cup {x}
    BY <1>5, <2>2 DEF HeldBy
  <2>4. Sets(act, b)
    BY <1>6 DEF b
  <2>5. CASE x = cb.task
    <3>1. done' = done \cup {x}
      BY <2>1, <2>5
    <3> QED BY <1>4, <2>2, <2>3, <2>4, <3>1
  <2>6. CASE x # cb.task
    <3>1. done' = done /\ PopsAnother
      BY <2>1, <2>6 DEF PopsAnother, a, x
    <3>2. HeldBy(b) \subseteq HeldBy(ea[act])
      BY <2>3 DEF a
    <3> QED BY <1>1, <2>2, <2>4, <3>1, <3>2, SomeGone DEF Kept
  <2> QED BY <2>5, <2>6
<1>7. CASE PopWrite /\ Sets(act, WriteOver(a))
  <2> DEFINE b == WriteOver(a)
             x == Head(a.writes)
  <2>1. a.writes # <<>> /\ pc = "popWrite" /\ done' = done \cup ({x} \cap {cb.task})
    BY <1>7 DEF PopWrite
  <2>2. /\ Single(b) /\ WritesOf(a) = WritesOf(b) \cup {x}
        /\ x \notin WritesOf(b) /\ ReadsOf(b) = ReadsOf(a)
    BY <1>2, <2>1, WriteOverOnce
  <2> HIDE DEF a, b, x
  <2>3. x \notin HeldBy(b) /\ HeldBy(a) = HeldBy(b) \cup {x}
    BY <1>5, <2>2 DEF HeldBy
  <2>4. Sets(act, b)
    BY <1>7 DEF b
  <2>5. CASE x = cb.task
    <3>1. done' = done \cup {x}
      BY <2>1, <2>5
    <3> QED BY <1>4, <2>2, <2>3, <2>4, <3>1
  <2>6. CASE x # cb.task
    <3>1. done' = done /\ PopsAnother
      BY <2>1, <2>6 DEF PopsAnother, a, x
    <3>2. HeldBy(b) \subseteq HeldBy(ea[act])
      BY <2>3 DEF a
    <3> QED BY <1>1, <2>2, <2>4, <3>1, <3>2, SomeGone DEF Kept
  <2> QED BY <2>5, <2>6
<1>8. CASE done' = done /\ ea' = ea
  BY <1>1, <1>2, <1>8, SameHeld DEF Kept
<1>9. ASSUME done' = done, NEW x, Sets(act, Reread(a, x)) PROVE Kept
  BY <1>2, <1>3, <1>9, RereadOnce
<1>10. CASE done' = done /\ a.reads # <<>> /\ Sets(act, ReadBack(a))
  BY <1>2, <1>3, <1>10, ReadBackOnce
<1>11. CASE done' = done /\ a.writes # <<>> /\ Sets(act, WriteBack(a))
  BY <1>2, <1>3, <1>11, WriteBackOnce
<1> QED BY <1>1, <1>6, <1>7, <1>8, <1>9, <1>10, <1>11, TypesShape, InsideSets

(* What user code calls keeps every task once and drops none. *)
LEMMA UserTasks ==
    ASSUME Types, TasksOnce, UserStep
    PROVE  Kept
<1> ActionTypes /\ Queue /\ Books
  BY DEF Types
<1>1. done' = done
  BY UserGrows DEF Books, dispatchVars
<1>2. \A f \in Fds : Typed(ea[f]) /\ Single(ea[f]) /\ ReadsOf(ea[f]) \cap WritesOf(ea[f]) = {}
  BY HeldIs, OfTypes, TaskAssumption DEF ActionTypes
<1>3. UserSets
  BY TypesShape, UserCases
<1>4. ASSUME NEW f \in Fds, NEW b, Sets(f, b), Single(b), HeldBy(b) = HeldBy(ea[f]), cancelled' = cancelled
      PROVE  Kept
  <2>1. \A g \in Fds : Single(ea'[g]) /\ HeldBy(ea'[g]) = HeldBy(ea[g])
    BY <1>2, <1>4 DEF Sets
  <2> QED BY <1>1, <1>4, <2>1, SameHeld DEF Kept
<1>5. ASSUME NEW f \in Fds, NEW t, NEW b, Sets(f, b), Single(b), New(t), HeldBy(b) = HeldBy(ea[f]) \cup {t},
             cancelled' = cancelled
      PROVE  Kept
  BY <1>1, <1>5, OneMore DEF Kept
<1>6. ASSUME NEW f \in Fds, NEW t, New(t) PROVE t \notin ReadsOf(ea[f]) /\ t \notin WritesOf(ea[f])
  BY <1>6, KnownIs DEF New, HeldBy
<1>7. ASSUME NEW f \in Fds, NEW t \in Reads, SubmitRead(f, t, TRUE) /\ Sets(f, AddedRead(ea[f], t)) PROVE Kept
  <2>1. New(t) /\ cancelled' = cancelled
    BY <1>7 DEF SubmitRead
  <2> DEFINE b == AddedRead(ea[f], t)
  <2>2. Single(b) /\ ReadsOf(b) = ReadsOf(ea[f]) \cup {t} /\ WritesOf(b) = WritesOf(ea[f])
    BY <1>2, <1>6, <2>1, AddedReadOnce
  <2> HIDE DEF b
  <2> QED BY <1>5, <1>7, <2>1, <2>2 DEF HeldBy, b
<1>8. ASSUME NEW f \in Fds, NEW t \in Reads, SubmitRead(f, t, FALSE) /\ Sets(f, KeptRead(ea[f], t)) PROVE Kept
  <2>1. New(t) /\ cancelled' = cancelled
    BY <1>8 DEF SubmitRead
  <2> DEFINE b == KeptRead(ea[f], t)
  <2>2. Single(b) /\ ReadsOf(b) = ReadsOf(ea[f]) \cup {t} /\ WritesOf(b) = WritesOf(ea[f])
    BY <1>2, <1>6, <2>1, KeptReadOnce
  <2> HIDE DEF b
  <2> QED BY <1>5, <1>8, <2>1, <2>2 DEF HeldBy, b
<1>9. ASSUME NEW f \in Fds, NEW t \in Writes, SubmitWrite(f, t, TRUE) /\ Sets(f, AddedWrite(ea[f], t)) PROVE Kept
  <2>1. New(t) /\ cancelled' = cancelled
    BY <1>9 DEF SubmitWrite
  <2> DEFINE b == AddedWrite(ea[f], t)
  <2>2. Single(b) /\ WritesOf(b) = WritesOf(ea[f]) \cup {t} /\ ReadsOf(b) = ReadsOf(ea[f])
    BY <1>2, <1>6, <2>1, AddedWriteOnce
  <2> HIDE DEF b
  <2> QED BY <1>5, <1>9, <2>1, <2>2 DEF HeldBy, b
<1>10. ASSUME NEW f \in Fds, NEW t \in Writes, SubmitWrite(f, t, FALSE) /\ Sets(f, KeptWrite(ea[f], t)) PROVE Kept
  <2>1. New(t) /\ cancelled' = cancelled
    BY <1>10 DEF SubmitWrite
  <2> DEFINE b == KeptWrite(ea[f], t)
  <2>2. Single(b) /\ WritesOf(b) = WritesOf(ea[f]) \cup {t} /\ ReadsOf(b) = ReadsOf(ea[f])
    BY <1>2, <1>6, <2>1, KeptWriteOnce
  <2> HIDE DEF b
  <2> QED BY <1>5, <1>10, <2>1, <2>2 DEF HeldBy, b
<1>11. ASSUME NEW f \in Fds, NEW s \in BOOLEAN, SubmitMultishot(f, s), Sets(f, Multishot(ea[f], s)) PROVE Kept
  <2>1. cancelled' = cancelled
    BY <1>11 DEF SubmitMultishot
  <2> QED BY <1>2, <1>4, <1>11, <2>1, MultishotOnce DEF HeldBy
<1>12. ASSUME NEW f \in Fds, SubmitAccept(f), Sets(f, Accepting(ea[f])) PROVE Kept
  <2>1. cancelled' = cancelled
    BY <1>12 DEF SubmitAccept
  <2> QED BY <1>2, <1>4, <1>12, <2>1, AcceptingOnce DEF HeldBy
<1>13. ASSUME NEW f \in Fds, CancelRead(f) \/ CancelAccept(f), Sets(f, NoRead(ea[f])) PROVE Kept
  <2> DEFINE b == NoRead(ea[f])
             X == ReadsOf(ea[f])
  <2>1. cancelled' = cancelled \cup X
    BY <1>13 DEF CancelRead, CancelAccept, ReadTasks, ReadsOf
  <2>2. Single(b) /\ ReadsOf(b) = {} /\ WritesOf(b) = WritesOf(ea[f])
    BY <1>2, NoReadOnce
  <2> HIDE DEF b
  <2>3. HeldBy(ea[f]) = HeldBy(b) \cup X /\ HeldBy(b) \cap X = {}
    BY <1>2, <2>2 DEF HeldBy
  <2> HIDE DEF X
  <2>4. Sets(f, b)
    BY <1>13 DEF b
  <2> QED BY <1>1, <2>1, <2>2, <2>3, <2>4, SomeOver DEF Kept
<1>14. ASSUME NEW f \in Fds, CancelWrite(f), Sets(f, NoWrite(ea[f])) PROVE Kept
  <2> DEFINE b == NoWrite(ea[f])
             X == WritesOf(ea[f])
  <2>1. cancelled' = cancelled \cup X
    BY <1>14 DEF CancelWrite, WriteTasks, WritesOf
  <2>2. Single(b) /\ WritesOf(b) = {} /\ ReadsOf(b) = ReadsOf(ea[f])
    BY <1>2, NoWriteOnce
  <2> HIDE DEF b
  <2>3. HeldBy(ea[f]) = HeldBy(b) \cup X /\ HeldBy(b) \cap X = {}
    BY <1>2, <2>2 DEF HeldBy
  <2> HIDE DEF X
  <2>4. Sets(f, b)
    BY <1>14 DEF b
  <2> QED BY <1>1, <2>1, <2>2, <2>3, <2>4, SomeOver DEF Kept
<1>15. ASSUME Submit, ea' = [f \in Fds |-> IF f \notin non_submit_events THEN ea[f] ELSE Submitted(ea[f])] PROVE Kept
  <2>1. cancelled' = cancelled
    BY <1>15, Zenon DEF Submit
  <2>2. \A g \in Fds : Single(ea'[g]) /\ HeldBy(ea'[g]) = HeldBy(ea[g])
    BY <1>2, <1>15, SubmittedOnce DEF HeldBy
  <2> QED BY <1>1, <2>1, <2>2, SameHeld DEF Kept
<1>16. ASSUME UnregisterRingBuffer, ea' = [f \in Fds |-> Ungrouped(ea[f])] PROVE Kept
  <2>1. cancelled' = cancelled
    BY <1>16 DEF UnregisterRingBuffer
  <2>2. \A g \in Fds : Single(ea'[g]) /\ HeldBy(ea'[g]) = HeldBy(ea[g])
    BY <1>2, <1>16, UngroupedOnce DEF HeldBy
  <2> QED BY <1>1, <2>1, <2>2, SameHeld DEF Kept
<1>17. CASE UNCHANGED <<ea, ready_events, cancelled>>
  BY <1>1, <1>2, <1>17, SameHeld DEF Kept
<1> QED BY <1>3, <1>7, <1>8, <1>9, <1>10, <1>11, <1>12, <1>13, <1>14, <1>15, <1>16, <1>17, Zenon DEF UserSets

(* Every step keeps every task once and drops none, unless pop_front takes   *)
(* one other than the one whose callback ran.                                *)
LEMMA StepTasks ==
    ASSUME Types, Kinds, TasksOnce, [Next]_vars
    PROVE  Kept
<1> ActionTypes /\ Queue /\ Books /\ Reported
  BY DEF Types
<1>1. \A f \in Fds : Single(ea[f])
  BY HeldIs
<1>2. CASE UNCHANGED <<ea, done, cancelled>>
  BY <1>1, <1>2, SameHeld DEF Kept
<1>3. CASE ApplyChanges
  <2>1. /\ UNCHANGED <<done, cancelled>>
        /\ \A f \in Fds : ea'[f] = ea[f] \/ (ea[f].events = {} /\ ea'[f] = NewAction(f))
    BY <1>3 DEF ApplyChanges, dispatchVars
  <2>2. ASSUME NEW f \in Fds, ea[f].events = {} PROVE HeldBy(ea[f]) = {}
    <3>1. ea[f].reads = <<>> /\ ea[f].ns_reads = <<>> /\ ea[f].writes = <<>> /\ ea[f].ns_writes = <<>>
      BY <2>2 DEF Kinds, ActionKind
    <3> QED BY <3>1, EmptyElems DEF HeldBy, ReadsOf, WritesOf
  <2>3. ASSUME NEW f \in Fds PROVE HeldBy(NewAction(f)) = {} /\ Single(NewAction(f))
    BY EmptyElems DEF HeldBy, ReadsOf, WritesOf, NewAction, Single
  <2>4. \A f \in Fds : Single(ea'[f]) /\ HeldBy(ea'[f]) = HeldBy(ea[f])
    BY <1>1, <2>1, <2>2, <2>3
  <2> QED BY <2>1, <2>4, SameHeld DEF Kept
<1>4. CASE NextReported
  <2>1. UNCHANGED <<done, cancelled>>
    BY <1>4 DEF NextReported
  <2>2. ASSUME NEW r \in reported, Sets(r.fd, Flagged(ea[r.fd], "R" \in r.mask, "W" \in r.mask)) PROVE Kept
    <3>1. r.fd \in Fds
      BY DEF Reported
    <3>2. \A g \in Fds : Single(ea'[g]) /\ HeldBy(ea'[g]) = HeldBy(ea[g])
      BY <1>1, <2>2, <3>1, FlaggedOnce DEF Sets, HeldBy
    <3> QED BY <2>1, <3>2, SameHeld DEF Kept
  <2> QED BY <1>2, <1>4, <2>1, <2>2, ReportedSets, TypesShape, Zenon
<1>5. CASE KernelStep
  BY <1>2, <1>5, KernelKeeps DEF submitVars, dispatchVars
<1>6. CASE Wait \/ WaitInterrupted \/ NextReady \/ Handled \/ UNCHANGED vars
  BY <1>2, <1>6 DEF Wait, WaitInterrupted, NextReady, Handled, submitVars, dispatchVars, vars
<1> QED BY <1>3, <1>4, <1>5, <1>6, DispatchCases, InsideTasks, UserTasks

(* The inductive invariant *)
Ind == Base /\ TasksOnce

(* The inductive invariant holds in the beginning. *)
LEMMA InitInd == Init => Ind
<1> SUFFICES ASSUME Init PROVE Ind
  OBVIOUS
<1>1. Base
  BY InitBase
<1>2. TasksOnce
  <2>1. ASSUME NEW f \in Fds PROVE HeldBy(ea[f]) = {} /\ Single(ea[f])
    BY EmptyElems DEF Init, HeldBy, ReadsOf, WritesOf, NewAction, Single
  <2>2. done = {} /\ cancelled = {}
    BY DEF Init
  <2> QED BY <2>1, <2>2, HeldIs
<1> QED BY <1>1, <1>2 DEF Ind

(* Every step keeps it. *)
LEMMA StepInd == Ind /\ [Next]_vars => Ind'
BY StepBase, StepTasks DEF Ind, Base, Kept

(* It always holds. *)
LEMMA IndAlways == Spec => []Ind
BY InitInd, StepInd, PTL DEF Spec

(* A task is in one deque, at one place, or over: through push_back of a     *)
(* retried task, submit(), pop_front and disable_read/write, for any number  *)
(* of descriptors and tasks.                                                 *)
THEOREM EachTaskOnce == Spec => []TasksOnce
BY IndAlways, PTL DEF Ind

-----------------------------------------------------------------------------
(* The loops of handle_events find what they left. *)

(* t has at its front what s has, and is no shorter *)
Ahead(s, t) == Len(s) <= Len(t) /\ (s # <<>> => Head(t) = Head(s))

(* A deque is ahead of itself. *)
LEMMA AheadSame ==
    ASSUME NEW T, NEW s \in Seq(T)
    PROVE  Ahead(s, s)
BY DEF Ahead

(* push_back leaves the front alone. *)
LEMMA AheadAppend ==
    ASSUME NEW T, NEW s \in Seq(T), NEW t \in T
    PROVE  Ahead(s, Append(s, t))
<1>1. Len(Append(s, t)) = Len(s) + 1 /\ Len(s) \in Nat
  OBVIOUS
<1>2. s # <<>> => Head(Append(s, t)) = Head(s)
  OBVIOUS
<1> QED BY <1>1, <1>2 DEF Ahead

(* submit() leaves the front alone. *)
LEMMA AheadConcat ==
    ASSUME NEW T, NEW s \in Seq(T), NEW r \in Seq(T)
    PROVE  Ahead(s, s \o r)
<1>1. Len(s \o r) = Len(s) + Len(r) /\ Len(s) \in Nat /\ Len(r) \in Nat
  OBVIOUS
<1>2. s # <<>> => Head(s \o r) = Head(s)
  OBVIOUS
<1> QED BY <1>1, <1>2 DEF Ahead

(* b keeps what the loops of handle_events over the reads, or the writes, of a need *)
KeepsReads(a, b) == /\ Ahead(a.reads, b.reads) /\ ("R" \in a.events => "R" \in b.events)
                    /\ (a.multi # "no" => b.multi # "no")
KeepsWrites(a, b) == Ahead(a.writes, b.writes)

(* An event_action that does not change keeps its front. *)
LEMMA KeepsSame ==
    ASSUME NEW a, Typed(a)
    PROVE  KeepsReads(a, a) /\ KeepsWrites(a, a)
BY AheadSame DEF Typed, KeepsReads, KeepsWrites

(* submit_async_read leaves the front of the deques and the multishot task   *)
(* in place (AddedRead).                                                     *)
LEMMA AddedReadKeeps ==
    ASSUME NEW a, Typed(a), NEW t \in Reads, NEW b, b = AddedRead(a, t) \/ b = KeptRead(a, t)
    PROVE  KeepsReads(a, b) /\ KeepsWrites(a, b)
<1>1. /\ Ahead(a.reads, a.reads) /\ Ahead(a.writes, a.writes) /\ Ahead(a.reads, Append(a.reads, t))
  BY AheadSame, AheadAppend DEF Typed
<1>2. CASE b = AddedRead(a, t)
  BY <1>1, <1>2 DEF KeepsReads, KeepsWrites, AddedRead, Rec
<1>3. CASE b = KeptRead(a, t)
  BY <1>1, <1>3 DEF KeepsReads, KeepsWrites, KeptRead, Rec
<1> QED BY <1>2, <1>3

(* submit_async_write leaves the front of the deques and the multishot task  *)
(* in place (AddedWrite).                                                    *)
LEMMA AddedWriteKeeps ==
    ASSUME NEW a, Typed(a), NEW t \in Writes, NEW b, b = AddedWrite(a, t) \/ b = KeptWrite(a, t)
    PROVE  KeepsReads(a, b) /\ KeepsWrites(a, b)
<1>1. /\ Ahead(a.reads, a.reads) /\ Ahead(a.writes, a.writes) /\ Ahead(a.writes, Append(a.writes, t))
  BY AheadSame, AheadAppend DEF Typed
<1>2. CASE b = AddedWrite(a, t)
  BY <1>1, <1>2 DEF KeepsReads, KeepsWrites, AddedWrite, Rec
<1>3. CASE b = KeptWrite(a, t)
  BY <1>1, <1>3 DEF KeepsReads, KeepsWrites, KeptWrite, Rec
<1> QED BY <1>2, <1>3

(* submit() leaves the front of the deques and the multishot task in place   *)
(* (Submitted).                                                              *)
LEMMA SubmittedKeeps ==
    ASSUME NEW a, Typed(a), NEW b, b = Submitted(a)
    PROVE  KeepsReads(a, b) /\ KeepsWrites(a, b)
<1>1. /\ Ahead(a.reads, a.reads \o a.ns_reads) /\ Ahead(a.writes, a.writes \o a.ns_writes)
  BY AheadConcat DEF Typed
<1>2. a.multi # "no" => b.multi # "no"
  <2> SUFFICES ASSUME a.multi # "no" PROVE b.multi # "no"
    OBVIOUS
  <2> DEFINE r == a.reads \o a.ns_reads
             w == a.writes \o a.ns_writes
  <2>1. b = Rec(a.events, a.readable, a.writable, r, <<>>, w, <<>>, "submitted", a.accept)
    BY DEF Submitted
  <2> HIDE DEF r, w
  <2>2. b.multi = "submitted"
    BY <2>1 DEF Rec
  <2> QED BY <2>2
<1> QED BY <1>1, <1>2, SubmittedFields, Zenon DEF KeepsReads, KeepsWrites

(* submit_async_read into a buffer group leaves the front of the deques and  *)
(* the multishot task in place (Multishot).                                  *)
LEMMA MultishotKeeps ==
    ASSUME NEW a, Typed(a), NEW s, NEW b, b = Multishot(a, s)
    PROVE  KeepsReads(a, b) /\ KeepsWrites(a, b)
<1>1. Ahead(a.reads, a.reads) /\ Ahead(a.writes, a.writes)
  BY AheadSame DEF Typed
<1>2. b.multi # "no"
  <2> DEFINE m == IF s THEN "submitted" ELSE "waiting"
  <2>1. b = Rec(a.events \cup {"R"}, a.readable, a.writable, a.reads, a.ns_reads, a.writes, a.ns_writes, m, a.accept)
    BY DEF Multishot
  <2>2. m # "no"
    OBVIOUS
  <2> HIDE DEF m
  <2>3. b.multi = m
    BY <2>1 DEF Rec
  <2> QED BY <2>2, <2>3
<1> QED BY <1>1, <1>2, MultishotFields DEF KeepsReads, KeepsWrites

(* The other calls: a cancelled read leaves the writes alone and a cancelled *)
(* write the reads.                                                          *)
LEMMA OthersKeep ==
    ASSUME NEW a, Typed(a)
    PROVE  /\ KeepsReads(a, Accepting(a)) /\ KeepsWrites(a, Accepting(a))
           /\ KeepsWrites(a, NoRead(a)) /\ KeepsReads(a, NoWrite(a))
           /\ KeepsWrites(a, Ungrouped(a)) /\ (a.multi = "no" => KeepsReads(a, Ungrouped(a)))
<1>1. Ahead(a.reads, a.reads) /\ Ahead(a.writes, a.writes)
  BY AheadSame DEF Typed
<1> QED BY <1>1 DEF KeepsReads, KeepsWrites, Accepting, NoRead, NoWrite, Ungrouped, Rec

(* User code in a callback only adds behind what handle_events is at. *)
LEMMA UserFront ==
    ASSUME ActionTypes, Kinds, UserStep, ~OwnCancel, pc = "cb", act \in Fds
    PROVE  /\ cb.op = "read" => KeepsReads(ea[act], ea'[act])
           /\ cb.op = "write" => KeepsWrites(ea[act], ea'[act])
<1> DEFINE a == ea[act]
           b == ea'[act]
           Goal == /\ cb.op = "read" => KeepsReads(a, b)
                   /\ cb.op = "write" => KeepsWrites(a, b)
<1>1. UserSets /\ Typed(a)
  BY TypesShape, UserCases DEF ActionTypes
<1>2. CASE b = a
  BY <1>1, <1>2, KeepsSame
<1>3. ASSUME NEW f \in Fds, NEW c, Sets(f, c) PROVE b = a \/ (f = act /\ b = c)
  BY <1>3 DEF Sets
<1>4. ASSUME NEW f \in Fds, NEW t \in Reads, Sets(f, AddedRead(ea[f], t)) \/ Sets(f, KeptRead(ea[f], t)) PROVE Goal
  <2>1. b = a \/ b = AddedRead(a, t) \/ b = KeptRead(a, t)
    BY <1>3, <1>4
  <2> QED BY <1>1, <1>2, <2>1, AddedReadKeeps
<1>5. ASSUME NEW f \in Fds, NEW t \in Writes, Sets(f, AddedWrite(ea[f], t)) \/ Sets(f, KeptWrite(ea[f], t)) PROVE Goal
  <2>1. b = a \/ b = AddedWrite(a, t) \/ b = KeptWrite(a, t)
    BY <1>3, <1>5
  <2> QED BY <1>1, <1>2, <2>1, AddedWriteKeeps
<1>6. ASSUME NEW f \in Fds, NEW s \in BOOLEAN, Sets(f, Multishot(ea[f], s)) PROVE Goal
  <2>1. b = a \/ b = Multishot(a, s)
    BY <1>3, <1>6
  <2> QED BY <1>1, <1>2, <2>1, MultishotKeeps
<1>7. ASSUME NEW f \in Fds, Sets(f, Accepting(ea[f])) PROVE Goal
  <2>1. b = a \/ b = Accepting(a)
    BY <1>3, <1>7
  <2> QED BY <1>1, <1>2, <2>1, OthersKeep
<1>8. ASSUME NEW f \in Fds, CancelRead(f) \/ CancelAccept(f), Sets(f, NoRead(ea[f])) PROVE Goal
  <2>1. act = f => cb.op # "read"
    BY <1>8 DEF CancelRead, CancelAccept, MayCancel
  <2>2. b = a \/ (f = act /\ b = NoRead(a))
    BY <1>3, <1>8
  <2> QED BY <1>1, <1>2, <2>1, <2>2, OthersKeep
<1>9. ASSUME NEW f \in Fds, CancelWrite(f), Sets(f, NoWrite(ea[f])) PROVE Goal
  <2>1. act = f => cb.op # "write"
    BY <1>9 DEF CancelWrite, MayCancel
  <2>2. b = a \/ (f = act /\ b = NoWrite(a))
    BY <1>3, <1>9
  <2> QED BY <1>1, <1>2, <2>1, <2>2, OthersKeep
<1>10. CASE ea' = [f \in Fds |-> IF f \notin non_submit_events THEN ea[f] ELSE Submitted(ea[f])]
  <2>1. b = a \/ b = Submitted(a)
    BY <1>10
  <2> QED BY <1>1, <1>2, <2>1, SubmittedKeeps
<1>11. CASE UnregisterRingBuffer /\ ea' = [f \in Fds |-> Ungrouped(ea[f])]
  <2>1. b = Ungrouped(a)
    BY <1>11
  <2>2. cb.op = "read" => act \notin GroupFds
    BY <1>11 DEF UnregisterRingBuffer
  <2>3. cb.op = "read" => a.multi = "no"
    BY <2>2 DEF Kinds, ActionKind
  <2> QED BY <1>1, <2>1, <2>3, OthersKeep
<1>12. CASE ea' = ea
  BY <1>2, <1>12
<1> QED BY <1>1, <1>4, <1>5, <1>6, <1>7, <1>8, <1>9, <1>10, <1>11, <1>12, Zenon DEF UserSets

(* handle_events can go on: where its loops stand, what they need is there *)
Sound ==
    /\ pc # "undef" /\ cb = [op |-> cb.op, ret |-> cb.ret, task |-> cb.task]
    /\ At \in {"reads", "popRead", "dgram"} => n <= Len(ea[act].reads)
    /\ At = "popRead" \/ (At = "dgram" /\ n > 0) => Head(ea[act].reads) = cb.task
    /\ At = "dgram" => "R" \in ea[act].events /\ (n > 0 \/ ea[act].multi # "no")
    /\ At \in {"multi", "again"} => n = 0 /\ ea[act].multi # "no"
    /\ At \in {"writes", "popWrite"} => n <= Len(ea[act].writes)
    /\ At = "popWrite" => Head(ea[act].writes) = cb.task
    /\ pc = "cb" /\ after \in {"popRead", "dgram", "multi"} => cb.op = "read"
    /\ pc = "cb" /\ after = "popWrite" => cb.op = "write"

(* Nothing that handle_events is about to use is gone. *)
LEMMA SoundGoesOn ==
    ASSUME Types, Sound
    PROVE  ~Dangling /\ PopsItsOwn
<1> ActionTypes /\ Place
  BY DEF Types
<1>1. pc \in {"reads", "popRead", "popWrite", "writes"} => act \in Fds
  BY DEF Place, Busy
<1>2. act \in Fds => /\ Len(ea[act].reads) \in Nat /\ (Len(ea[act].reads) > 0 => ea[act].reads # <<>>)
                     /\ Len(ea[act].writes) \in Nat /\ (Len(ea[act].writes) > 0 => ea[act].writes # <<>>)
  BY DEF ActionTypes, Typed
<1>3. pc = "popRead" => n > 0 /\ n <= Len(ea[act].reads) /\ Head(ea[act].reads) = cb.task
  BY DEF Sound, At, Place
<1>4. pc = "popWrite" => n > 0 /\ n <= Len(ea[act].writes) /\ Head(ea[act].writes) = cb.task
  BY DEF Sound, At, Place
<1>5. pc = "reads" => n <= Len(ea[act].reads)
  BY DEF Sound, At
<1>6. pc = "writes" => n <= Len(ea[act].writes)
  BY DEF Sound, At
<1>7. n \in Nat
  BY DEF Place
<1>8. pc = "popRead" => ea[act].reads # <<>>
  BY <1>1, <1>2, <1>3, <1>7
<1>9. pc = "popWrite" => ea[act].writes # <<>>
  BY <1>1, <1>2, <1>4, <1>7
<1>10. pc = "reads" /\ n > 0 => ea[act].reads # <<>>
  BY <1>1, <1>2, <1>5, <1>7
<1>11. pc = "writes" /\ n > 0 => ea[act].writes # <<>>
  BY <1>1, <1>2, <1>6, <1>7
<1>12. /\ pc = "dgram" => "R" \in ea[act].events
       /\ pc = "multi" => ea[act].multi # "no"
  BY DEF Sound, At
<1> QED BY <1>3, <1>4, <1>8, <1>9, <1>10, <1>11, <1>12 DEF Dangling, PopsItsOwn

(* The task that found nothing goes behind the others (ReadBack). *)
LEMMA ReadBackReads ==
    ASSUME NEW a
    PROVE  ReadBack(a).reads = Append(Tail(a.reads), Head(a.reads))
  BY DEF ReadBack, Rec

(* User code runs between dispatches and in callbacks. *)
LEMMA UserIsRunning ==
    ASSUME UserStep
    PROVE  UserRuns
<1>1. ASSUME NEW f \in Fds, User(f) PROVE UserRuns
  <2>1. ASSUME NEW t, NEW s, SubmitRead(f, t, s) \/ SubmitWrite(f, t, s) PROVE UserRuns
    BY <2>1, Zenon DEF SubmitRead, SubmitWrite, InUser
  <2>2. ASSUME NEW s, SubmitMultishot(f, s) PROVE UserRuns
    BY <2>2, Zenon DEF SubmitMultishot, InUser
  <2>3. CASE SubmitAccept(f)
    BY <2>3, Zenon DEF SubmitAccept, InUser
  <2>4. CASE CancelRead(f) \/ CancelAccept(f) \/ CancelWrite(f)
    BY <2>4, Zenon DEF CancelRead, CancelAccept, CancelWrite, MayCancel
  <2>5. CASE CloseFd(f) \/ ReopenFd(f)
    BY <2>5, Zenon DEF CloseFd, ReopenFd
  <2> QED BY <1>1, <2>1, <2>2, <2>3, <2>4, <2>5, Zenon DEF User
<1>2. ASSUME Submit \/ RegisterRingBuffer \/ UnregisterRingBuffer PROVE UserRuns
  BY <1>2, Zenon DEF Submit, RegisterRingBuffer, UnregisterRingBuffer, InUser
<1> QED BY <1>1, <1>2, Zenon DEF UserStep

(* User code, in a callback that does not cancel its own operation, leaves   *)
(* what handle_events comes back to.                                         *)
LEMMA UserSound ==
    ASSUME Types, Kinds, Sound, UserStep, ~OwnCancel
    PROVE  Sound'
<1> ActionTypes /\ Place /\ Queue /\ Books
  BY DEF Types
<1>1. UNCHANGED <<pc, after, act, n, cb, dgrams>>
  BY UserGrows DEF Books, dispatchVars, callVars
<1>2. pc \in {"user", "cb"}
  BY UserIsRunning DEF UserRuns
<1>3. CASE pc = "user"
  BY <1>1, <1>3 DEF Sound, At
<1>4. CASE pc = "cb"
  <2> DEFINE a == ea[act]
             b == ea'[act]
  <2>1. act \in Fds
    BY <1>4 DEF Place, Busy
  <2>2. /\ cb.op = "read" => KeepsReads(a, b)
        /\ cb.op = "write" => KeepsWrites(a, b)
    BY <1>4, <2>1, UserFront
  <2>3. /\ Len(a.reads) \in Nat /\ (Len(a.reads) > 0 => a.reads # <<>>)
        /\ Len(a.writes) \in Nat /\ (Len(a.writes) > 0 => a.writes # <<>>)
    BY <2>1 DEF ActionTypes, Typed
  <2>4. Typed(b)
    BY <2>1, UserTyped DEF ActionTypes
  <2>5. Len(b.reads) \in Nat /\ Len(b.writes) \in Nat /\ n \in Nat
    BY <2>4 DEF Typed, Place
  <2>6. At' = At /\ At = after /\ act' = act /\ n' = n /\ cb' = cb /\ pc' = pc /\ after' = after
    BY <1>1, <1>4 DEF At
  <2>7. after \in {"popRead", "dgram", "multi", "accept", "write", "popWrite"}
    BY <1>4 DEF Place
  <2>8. CASE after \in {"popRead", "dgram", "multi"}
    <3>1. KeepsReads(a, b)
      BY <1>4, <2>2, <2>8 DEF Sound
    <3>2. n <= Len(a.reads) => n <= Len(b.reads)
      BY <2>3, <2>5, <3>1 DEF KeepsReads, Ahead
    <3>3. n > 0 /\ n <= Len(a.reads) => Head(b.reads) = Head(a.reads)
      BY <2>3, <2>5, <3>1 DEF KeepsReads, Ahead
    <3>4. ("R" \in a.events => "R" \in b.events) /\ (a.multi # "no" => b.multi # "no")
      BY <3>1 DEF KeepsReads
    <3>5. after = "popRead" => n > 0
      BY <1>4 DEF Place, At
    <3> HIDE DEF a, b
    <3> QED BY <1>4, <2>6, <2>8, <3>2, <3>3, <3>4, <3>5 DEF Sound, a, b
  <2>9. CASE after = "popWrite"
    <3>1. KeepsWrites(a, b)
      BY <1>4, <2>2, <2>9 DEF Sound
    <3>2. n <= Len(a.writes) => n <= Len(b.writes)
      BY <2>3, <2>5, <3>1 DEF KeepsWrites, Ahead
    <3>3. n > 0 /\ n <= Len(a.writes) => Head(b.writes) = Head(a.writes)
      BY <2>3, <2>5, <3>1 DEF KeepsWrites, Ahead
    <3>4. n > 0
      BY <1>4, <2>9 DEF Place, At
    <3> QED BY <1>4, <2>6, <2>9, <3>2, <3>3, <3>4 DEF Sound
  <2>10. CASE after \in {"accept", "write"}
    BY <1>4, <2>6, <2>10 DEF Sound
  <2> QED BY <2>7, <2>8, <2>9, <2>10
<1> QED BY <1>2, <1>3, <1>4

(* A read from the kernel changes no deque. *)
LEMMA TakeKeeps ==
    ASSUME Shapes, act \in Fds, NEW k, NEW x, Take(k, x)
    PROVE  /\ ea'[act].reads = ea[act].reads /\ ea'[act].events = ea[act].events
           /\ ea'[act].multi = ea[act].multi /\ ea'[act].writes = ea[act].writes
<1>1. Sets(act, Reread(ea[act], x))
  BY RereadSets
<1>2. ea'[act] = Reread(ea[act], x)
  BY <1>1 DEF Sets
<1> QED BY <1>2 DEF Reread, Rec

(* handle_events leaves itself what it needs next. *)
LEMMA InsideSound ==
    ASSUME Types, Kinds, Sound, Inside
    PROVE  Sound'
<1> ActionTypes /\ Place
  BY DEF Types
<1>1. act \in Fds /\ act' = act /\ Shapes
  BY InsideKeeps, TypesShape
<1> DEFINE a == ea[act]
           b == ea'[act]
           Same == b.reads = a.reads /\ b.events = a.events /\ b.multi = a.multi /\ b.writes = a.writes
<1>2. /\ a.reads \in Seq(Reads) /\ a.writes \in Seq(Writes) /\ Len(a.reads) \in Nat /\ Len(a.writes) \in Nat
      /\ n \in Nat /\ ActionKind(act, a)
  BY <1>1 DEF ActionTypes, Typed, Place, Kinds
<1>3. cb = [op |-> cb.op, ret |-> cb.ret, task |-> cb.task]
  BY DEF Sound
<1>4. ASSUME ea' = ea PROVE Same
  BY <1>4
<1>5. ASSUME NEW k, NEW x, Take(k, x) PROVE Same
  BY <1>1, <1>5, TakeKeeps
<1>6. ASSUME NEW t, cb' = [cb EXCEPT !.task = t]
      PROVE  cb'.task = t /\ cb' = [op |-> cb'.op, ret |-> cb'.ret, task |-> cb'.task]
  BY <1>3, <1>6
<1>7. ASSUME NEW op, NEW r, NEW t, NEW g, Call(op, r, t, g)
      PROVE  /\ cb'.task = t /\ cb'.op = op /\ cb' = [op |-> cb'.op, ret |-> cb'.ret, task |-> cb'.task]
             /\ pc' = "cb" /\ after' = g
  BY <1>7 DEF Call
<1>8. CASE HandleEvents
  <2>1. ea' = ea /\ cb' = cb /\ \/ pc' \in {"write", "handled"}
                                \/ pc' = "multi" /\ n' = 0 /\ a.multi = "submitted"
                                \/ pc' = "reads" /\ n' = Len(a.reads)
    BY <1>8 DEF HandleEvents, submitVars
  <2> QED BY <1>1, <1>2, <1>3, <2>1 DEF Sound, At
<1>9. CASE DoReadTask
  <2> DEFINE t == Head(a.reads)
             Back == ea' = [ea EXCEPT ![act] = [ea[act] EXCEPT !.readable = FALSE, !.reads = Append(Tail(@), t)]]
             Taken == ea' = ea \/ \E k, x : Take(k, x)
             Calls == \E r : Call("read", r, t, "popRead")
             Datagrams == pc' = "dgram" /\ cb' = [cb EXCEPT !.task = t]
             Goes == (Taken /\ n' = n /\ (Calls \/ Datagrams)) \/ (Back /\ n' = n - 1 /\ pc' = pc /\ cb' = cb)
  <2>1. ASSUME ReadTcp(t) PROVE Goes
    BY <2>1, Zenon DEF ReadTcp
  <2>2. ASSUME ReadUdp(t) PROVE Goes
    BY <2>2, Zenon DEF ReadUdp
  <2>3. ASSUME ReadEvent(t) PROVE Goes
    BY <2>3, Zenon DEF ReadEvent
  <2>4. ASSUME ReadFile(t) PROVE Goes
    BY <2>4, Zenon DEF ReadFile
  <2>5. Goes
    <3>1. ASSUME Call("read", 0, t, "popRead"), n' = n, ea' = ea PROVE Goes
      BY <3>1, Zenon
    <3> HIDE DEF Goes
    <3> QED BY <1>9, <2>1, <2>2, <2>3, <2>4, <3>1, Zenon DEF DoReadTask
  <2>6. pc = "reads" /\ n > 0 /\ a.reads # <<>>
    BY <1>9 DEF DoReadTask
  <2>7. n <= Len(a.reads) /\ "R" \in a.events
    BY <1>2, <2>6 DEF Sound, At, ActionKind
  <2>8. CASE Taken /\ n' = n /\ Calls
    <3>1. Same
      BY <1>4, <1>5, <2>8
    <3>2. /\ cb'.task = t /\ cb'.op = "read" /\ cb' = [op |-> cb'.op, ret |-> cb'.ret, task |-> cb'.task]
          /\ pc' = "cb" /\ after' = "popRead"
      BY <1>7, <2>8
    <3> QED BY <1>1, <2>7, <2>8, <3>1, <3>2 DEF Sound, At
  <2>9. CASE Taken /\ n' = n /\ Datagrams
    <3>1. Same
      BY <1>4, <1>5, <2>9
    <3>2. cb'.task = t /\ cb' = [op |-> cb'.op, ret |-> cb'.ret, task |-> cb'.task] /\ pc' = "dgram"
      BY <1>6, <2>9
    <3> QED BY <1>1, <2>6, <2>7, <2>9, <3>1, <3>2 DEF Sound, At
  <2>10. CASE Back /\ n' = n - 1 /\ pc' = pc /\ cb' = cb
    <3>1. b = ReadBack(a)
      BY <1>1, <2>10, ReadBackSets, Zenon DEF Sets
    <3>2. b.reads = Append(Tail(a.reads), Head(a.reads))
      BY <3>1, ReadBackReads, Zenon
    <3>3. Len(b.reads) = Len(a.reads)
      BY <1>2, <2>6, <3>2
    <3>4. n' <= Len(b.reads)
      BY <1>2, <2>7, <2>10, <3>3
    <3> QED BY <1>1, <1>3, <2>6, <2>10, <3>4 DEF Sound, At
  <2> QED BY <2>5, <2>8, <2>9, <2>10
<1>10. CASE NextDatagram
  <2>1. pc = "dgram" /\ n' = n /\ ea' = ea
    BY <1>10 DEF NextDatagram, submitVars
  <2>2. /\ n <= Len(a.reads) /\ (n > 0 => Head(a.reads) = cb.task)
        /\ "R" \in a.events /\ (n > 0 \/ a.multi # "no")
    BY <2>1 DEF Sound, At
  <2>3. CASE Call("read", 1, cb.task, "dgram")
    <3>1. /\ cb'.task = cb.task /\ cb'.op = "read" /\ cb' = [op |-> cb'.op, ret |-> cb'.ret, task |-> cb'.task]
          /\ pc' = "cb" /\ after' = "dgram"
      BY <1>7, <2>3
    <3> QED BY <1>1, <2>1, <2>2, <3>1 DEF Sound, At
  <2>4. CASE cb' = cb /\ n > 0 /\ pc' = "popRead"
    BY <1>1, <1>3, <2>1, <2>2, <2>4 DEF Sound, At
  <2>5. CASE cb' = cb /\ ~(n > 0) /\ pc' = "multi"
    <3>1. n' = 0 /\ a.multi # "no"
      BY <1>2, <2>1, <2>2, <2>5
    <3> QED BY <1>1, <1>3, <2>1, <2>5, <3>1 DEF Sound, At
  <2> QED BY <1>10, <2>3, <2>4, <2>5 DEF NextDatagram
<1>11. CASE PopRead
  <2>1. pc = "popRead" /\ a.reads # <<>> /\ pc' = "reads" /\ n' = n - 1 /\ cb' = cb
    BY <1>11 DEF PopRead
  <2>2. b = ReadOver(a)
    BY <1>1, <1>11, ReadOverSets DEF Sets
  <2>3. b.reads = Tail(a.reads)
    BY <2>2 DEF ReadOver, Rec
  <2>4. Len(b.reads) = Len(a.reads) - 1 /\ n <= Len(a.reads)
    BY <1>2, <2>1, <2>3 DEF Sound, At
  <2>5. n' <= Len(b.reads)
    BY <1>2, <2>1, <2>4
  <2> QED BY <1>1, <1>3, <2>1, <2>5 DEF Sound, At
<1>12. CASE ReadsDone \/ WritesDone
  <2>1. pc' \in {"accept", "handled"} /\ cb' = cb
    BY <1>12 DEF ReadsDone, WritesDone, dispatchVars, callVars
  <2> QED BY <1>3, <2>1 DEF Sound, At
<1>13. CASE DoMultishot
  <2> DEFINE Taken == ea' = ea \/ \E k, x : Take(k, x)
             Tcp == Taken /\ (\/ \E r : Call("read", r, None, "multi") \/ Call("read", r, None, "accept")
                              \/ pc' = "accept" /\ cb' = cb)
             Udp == Taken /\ cb' = [cb EXCEPT !.task = None] /\ pc' \in {"dgram", "again"}
  <2>1. pc = "multi" /\ n' = n
    BY <1>13 DEF DoMultishot
  <2>2. n = 0 /\ a.multi # "no" /\ "R" \in a.events
    BY <1>2, <2>1 DEF Sound, At, ActionKind
  <2>3. MultishotTcp => Tcp
    BY Zenon DEF MultishotTcp
  <2>4. MultishotUdp => Udp
    BY Zenon DEF MultishotUdp
  <2>5. CASE Tcp
    <3>1. Same
      BY <1>4, <1>5, <2>5
    <3>2. \/ /\ cb'.op = "read" /\ cb' = [op |-> cb'.op, ret |-> cb'.ret, task |-> cb'.task]
             /\ pc' = "cb" /\ after' \in {"multi", "accept"}
          \/ pc' = "accept" /\ cb' = cb
      BY <1>7, <2>5
    <3> QED BY <1>1, <1>3, <2>1, <2>2, <3>1, <3>2 DEF Sound, At
  <2>6. CASE Udp
    <3>1. Same
      BY <1>4, <1>5, <2>6
    <3>2. cb' = [op |-> cb'.op, ret |-> cb'.ret, task |-> cb'.task] /\ pc' \in {"dgram", "again"}
      BY <1>6, <2>6
    <3>3. n' = 0 /\ ~(n' > 0) /\ n' <= Len(b.reads)
      BY <1>2, <2>1, <2>2, <3>1
    <3> QED BY <1>1, <2>2, <3>1, <3>2, <3>3 DEF Sound, At
  <2> QED BY <1>13, <2>3, <2>4, <2>5, <2>6 DEF DoMultishot
<1>14. CASE MultishotAgain
  BY <1>1, <1>14 DEF MultishotAgain, Sound, At, submitVars, dispatchVars, callVars
<1>15. CASE DoAccept
  <2>1. (\E r : Call("accept", r, None, "write")) \/ (pc' = "write" /\ cb' = cb)
    BY <1>15, Zenon DEF DoAccept
  <2>2. \/ pc' = "cb" /\ after' = "write" /\ cb' = [op |-> cb'.op, ret |-> cb'.ret, task |-> cb'.task]
        \/ pc' = "write" /\ cb' = cb
    BY <1>7, <2>1
  <2> QED BY <1>3, <2>2 DEF Sound, At
<1>16. CASE WritesBegin
  <2>1. ea' = ea /\ cb' = cb /\ (pc' = "handled" \/ (pc' = "writes" /\ n' = Len(a.writes)))
    BY <1>16 DEF WritesBegin, submitVars
  <2> QED BY <1>1, <1>2, <1>3, <2>1 DEF Sound, At
<1>17. CASE DoWriteTask
  <2> DEFINE t == Head(a.writes)
             Back == ea' = [ea EXCEPT ![act].writable = FALSE, ![act].writes = Append(Tail(@), t)]
  <2>1. pc = "writes" /\ n > 0 /\ a.writes # <<>>
    BY <1>17 DEF DoWriteTask
  <2>2. n <= Len(a.writes)
    BY <2>1 DEF Sound, At
  <2>3. \/ (\E r : Call("write", r, t, "popWrite")) /\ ea' = ea /\ n' = n
        \/ Back /\ n' = n - 1 /\ pc' = pc /\ cb' = cb
    BY <1>17, Zenon DEF DoWriteTask
  <2>4. CASE (\E r : Call("write", r, t, "popWrite")) /\ ea' = ea /\ n' = n
    <3>1. /\ cb'.task = t /\ cb'.op = "write" /\ cb' = [op |-> cb'.op, ret |-> cb'.ret, task |-> cb'.task]
          /\ pc' = "cb" /\ after' = "popWrite"
      BY <1>7, <2>4
    <3> QED BY <1>1, <2>2, <2>4, <3>1 DEF Sound, At
  <2>5. CASE Back /\ n' = n - 1 /\ pc' = pc /\ cb' = cb
    <3>1. b = WriteBack(a)
      BY <1>1, <2>5, WriteBackSets, Zenon DEF Sets
    <3>2. b.writes = Append(Tail(a.writes), Head(a.writes))
      BY <3>1 DEF WriteBack, Rec
    <3>3. Len(b.writes) = Len(a.writes)
      BY <1>2, <2>1, <3>2
    <3>4. n' <= Len(b.writes)
      BY <1>2, <2>2, <2>5, <3>3
    <3> QED BY <1>1, <1>3, <2>1, <2>5, <3>4 DEF Sound, At
  <2> QED BY <2>3, <2>4, <2>5, Zenon
<1>18. CASE PopWrite
  <2>1. pc = "popWrite" /\ a.writes # <<>> /\ pc' = "writes" /\ n' = n - 1 /\ cb' = cb
    BY <1>18 DEF PopWrite
  <2>2. b = WriteOver(a)
    BY <1>1, <1>18, WriteOverSets DEF Sets
  <2>3. b.writes = Tail(a.writes)
    BY <2>2 DEF WriteOver, Rec
  <2>4. Len(b.writes) = Len(a.writes) - 1 /\ n <= Len(a.writes)
    BY <1>2, <2>1, <2>3 DEF Sound, At
  <2>5. n' <= Len(b.writes)
    BY <1>2, <2>1, <2>4
  <2> QED BY <1>1, <1>3, <2>1, <2>5 DEF Sound, At
<1>19. CASE CallbackReturns
  <2>1. UNCHANGED <<ea, n, cb, act>> /\ At' = At /\ pc' # "cb" /\ pc' # "undef"
    BY <1>19 DEF CallbackReturns, submitVars, dispatchVars, callVars, At, Place
  <2> QED BY <2>1 DEF Sound
<1>20. CASE Undefined
  BY <1>20, SoundGoesOn DEF Undefined
<1> QED BY <1>8, <1>9, <1>10, <1>11, <1>12, <1>13, <1>14, <1>15, <1>16, <1>17, <1>18, <1>19, <1>20 DEF Inside

(* Every step leaves handle_events what it needs. *)
LEMMA StepSound ==
    ASSUME Types, Kinds, Sound, [Next]_vars, ~OwnCancel
    PROVE  Sound'
<1>1. CASE Inside
  BY <1>1, InsideSound
<1>2. CASE UserStep
  BY <1>2, UserSound
<1>3. CASE KernelStep \/ UNCHANGED vars
  <2>1. UNCHANGED <<ea, pc, after, act, n, cb>>
    BY <1>3, KernelKeeps DEF vars, submitVars, dispatchVars, callVars
  <2> QED BY <2>1 DEF Sound, At
<1>4. CASE ApplyChanges \/ Wait \/ WaitInterrupted \/ NextReported \/ NextReady \/ Handled
  <2>1. cb' = cb /\ pc' \in {"user", "wait", "events", "ready", "handle", "handled"}
    BY <1>4, Zenon DEF ApplyChanges, Wait, WaitInterrupted, NextReported, NextReady, Handled, dispatchVars, callVars
  <2> QED BY <2>1 DEF Sound, At
<1> QED BY <1>1, <1>2, <1>3, <1>4, DispatchCases

(* The inductive invariant for the loops of handle_events *)
SoundInv == Base /\ (~OwnCancel => Sound)

(* The inductive invariant for the loops of handle_events holds in the       *)
(* beginning.                                                                *)
LEMMA InitSound == Init => SoundInv
<1> SUFFICES ASSUME Init PROVE SoundInv
  OBVIOUS
<1>1. Base
  BY InitBase
<1>2. Sound
  BY DEF Init, Sound, At
<1> QED BY <1>1, <1>2 DEF SoundInv

(* Every step keeps it. *)
LEMMA StepSoundInv == SoundInv /\ [Next]_vars => SoundInv'
BY StepBase, StepSound DEF SoundInv, Base

(* Unless a callback cancels its own operation, pop_front in handle_events   *)
(* removes the task whose callback has run, whatever else that callback      *)
(* submitted or cancelled.                                                   *)
THEOREM OwnTaskPopped == Spec => [](~OwnCancel => PopsItsOwn)
<1>1. SoundInv => (~OwnCancel => PopsItsOwn)
  BY SoundGoesOn DEF SoundInv, Base
<1> QED BY <1>1, InitSound, StepSoundInv, PTL DEF Spec

(* Unless a callback cancels its own operation, handle_events never takes    *)
(* the front of an empty deque, calls a callback that was reset, or uses a   *)
(* multishot task that was deleted.                                          *)
THEOREM NothingDangles == Spec => [](~OwnCancel => ~Dangling /\ pc # "undef")
<1>1. SoundInv => (~OwnCancel => ~Dangling /\ pc # "undef")
  BY SoundGoesOn DEF SoundInv, Base, Sound
<1> QED BY <1>1, InitSound, StepSoundInv, PTL DEF Spec

-----------------------------------------------------------------------------
(* No task is dropped. *)

(* The task whose callback runs, or has run, is still first or was cancelled *)
Owner ==
    /\ cb = [op |-> cb.op, ret |-> cb.ret, task |-> cb.task]
    /\ At = "popRead" \/ (At = "dgram" /\ n > 0)
          => cb.task \in cancelled \/ (ea[act].reads # <<>> /\ Head(ea[act].reads) = cb.task)
    /\ At = "popWrite"
          => cb.task \in cancelled \/ (ea[act].writes # <<>> /\ Head(ea[act].writes) = cb.task)

(* What user code does in a callback leaves the first task in place or       *)
(* cancels it.                                                               *)
LEMMA UserLeavesFirst ==
    ASSUME Types, UserStep, act \in Fds
    PROVE  /\ Ahead(ea[act].reads, ea'[act].reads) \/ Elems(ea[act].reads) \subseteq cancelled'
           /\ Ahead(ea[act].writes, ea'[act].writes) \/ Elems(ea[act].writes) \subseteq cancelled'
           /\ cancelled \subseteq cancelled'
<1> ActionTypes
  BY DEF Types
<1> DEFINE a == ea[act]
           b == ea'[act]
           Goal == /\ Ahead(a.reads, b.reads) \/ Elems(a.reads) \subseteq cancelled'
                   /\ Ahead(a.writes, b.writes) \/ Elems(a.writes) \subseteq cancelled'
<1>0. cancelled \subseteq cancelled'
  <2>1. cancelled' = cancelled \/ \E f \in Fds : CancelRead(f) \/ CancelAccept(f) \/ CancelWrite(f)
    BY Zenon DEF UserStep, User, SubmitRead, SubmitWrite, SubmitMultishot, SubmitAccept, CloseFd, ReopenFd,
                Submit, RegisterRingBuffer, UnregisterRingBuffer, submitVars
  <2> QED BY <2>1 DEF CancelRead, CancelAccept, CancelWrite
<1> SUFFICES Goal
  BY <1>0
<1>1. UserSets /\ Typed(a)
  BY TypesShape, UserCases DEF ActionTypes
<1>2. ASSUME KeepsReads(a, b), KeepsWrites(a, b) PROVE Goal
  BY <1>2 DEF KeepsReads, KeepsWrites
<1>3. CASE b = a
  BY <1>1, <1>2, <1>3, KeepsSame
<1>4. ASSUME NEW f \in Fds, NEW c, Sets(f, c) PROVE b = a \/ (f = act /\ b = c)
  BY <1>4 DEF Sets
<1>5. ASSUME NEW f \in Fds, NEW t \in Reads, Sets(f, AddedRead(ea[f], t)) \/ Sets(f, KeptRead(ea[f], t)) PROVE Goal
  <2>1. b = a \/ b = AddedRead(a, t) \/ b = KeptRead(a, t)
    BY <1>4, <1>5
  <2> QED BY <1>1, <1>2, <1>3, <2>1, AddedReadKeeps
<1>6. ASSUME NEW f \in Fds, NEW t \in Writes, Sets(f, AddedWrite(ea[f], t)) \/ Sets(f, KeptWrite(ea[f], t)) PROVE Goal
  <2>1. b = a \/ b = AddedWrite(a, t) \/ b = KeptWrite(a, t)
    BY <1>4, <1>6
  <2> QED BY <1>1, <1>2, <1>3, <2>1, AddedWriteKeeps
<1>7. ASSUME NEW f \in Fds, NEW s \in BOOLEAN, Sets(f, Multishot(ea[f], s)) PROVE Goal
  <2>1. b = a \/ b = Multishot(a, s)
    BY <1>4, <1>7
  <2> QED BY <1>1, <1>2, <1>3, <2>1, MultishotKeeps
<1>8. ASSUME NEW f \in Fds, Sets(f, Accepting(ea[f])) PROVE Goal
  <2>1. b = a \/ b = Accepting(a)
    BY <1>4, <1>8
  <2> QED BY <1>1, <1>2, <1>3, <2>1, OthersKeep
<1>9. ASSUME NEW f \in Fds, CancelRead(f) \/ CancelAccept(f), Sets(f, NoRead(ea[f])) PROVE Goal
  <2>1. b = a \/ (f = act /\ b = NoRead(a))
    BY <1>4, <1>9
  <2>2. Elems(ea[f].reads) \subseteq cancelled'
    BY <1>9 DEF CancelRead, CancelAccept, ReadTasks
  <2>3. KeepsWrites(a, NoRead(a))
    BY <1>1, OthersKeep
  <2>4. CASE f = act /\ b = NoRead(a)
    BY <2>2, <2>3, <2>4 DEF KeepsWrites
  <2> QED BY <1>3, <2>1, <2>4
<1>10. ASSUME NEW f \in Fds, CancelWrite(f), Sets(f, NoWrite(ea[f])) PROVE Goal
  <2>1. b = a \/ (f = act /\ b = NoWrite(a))
    BY <1>4, <1>10
  <2>2. Elems(ea[f].writes) \subseteq cancelled'
    BY <1>10 DEF CancelWrite, WriteTasks
  <2>3. KeepsReads(a, NoWrite(a))
    BY <1>1, OthersKeep
  <2>4. CASE f = act /\ b = NoWrite(a)
    BY <2>2, <2>3, <2>4 DEF KeepsReads
  <2> QED BY <1>3, <2>1, <2>4
<1>11. CASE ea' = [f \in Fds |-> IF f \notin non_submit_events THEN ea[f] ELSE Submitted(ea[f])]
  <2>1. b = a \/ b = Submitted(a)
    BY <1>11
  <2> QED BY <1>1, <1>2, <1>3, <2>1, SubmittedKeeps
<1>12. CASE ea' = [f \in Fds |-> Ungrouped(ea[f])]
  <2>1. b = Ungrouped(a)
    BY <1>12
  <2>2. b.reads = a.reads /\ b.writes = a.writes
    BY <2>1 DEF Ungrouped, Rec
  <2>3. Ahead(a.reads, a.reads) /\ Ahead(a.writes, a.writes)
    BY <1>1, AheadSame DEF Typed
  <2> QED BY <2>2, <2>3
<1>13. CASE ea' = ea
  BY <1>3, <1>13
<1> HIDE DEF Goal, a, b
<1> QED BY <1>1, <1>5, <1>6, <1>7, <1>8, <1>9, <1>10, <1>11, <1>12, <1>13, Zenon DEF UserSets

(* User code leaves the task whose callback runs first, or cancels it. *)
LEMMA UserOwner ==
    ASSUME Types, Owner, UserStep
    PROVE  Owner'
<1> ActionTypes /\ Place /\ Queue /\ Books
  BY DEF Types
<1>0. UNCHANGED <<pc, after, act, n, cb>>
  BY UserGrows DEF Books, dispatchVars, callVars
<1>1. pc \in {"user", "cb"}
  BY UserIsRunning DEF UserRuns
<1>2. CASE pc = "user"
  BY <1>0, <1>2 DEF Owner, At
<1>3. CASE pc = "cb"
  <2>1. act \in Fds
    BY <1>3 DEF Place, Busy
  <2> DEFINE a == ea[act]
             b == ea'[act]
  <2>2. Typed(a) /\ Typed(b)
    BY <2>1, UserTyped DEF ActionTypes
  <2>3. /\ Ahead(a.reads, b.reads) \/ Elems(a.reads) \subseteq cancelled'
        /\ Ahead(a.writes, b.writes) \/ Elems(a.writes) \subseteq cancelled'
        /\ cancelled \subseteq cancelled'
    BY <2>1, UserLeavesFirst
  <2>4. ASSUME NEW T, NEW q \in Seq(T), NEW r \in Seq(T), NEW t, q # <<>>, Head(q) = t,
               Ahead(q, r) \/ Elems(q) \subseteq cancelled'
        PROVE  t \in cancelled' \/ (r # <<>> /\ Head(r) = t)
    <3>1. CASE Ahead(q, r)
      BY <2>4, <3>1 DEF Ahead
    <3>2. CASE Elems(q) \subseteq cancelled'
      BY <2>4, <3>2 DEF Elems
    <3> QED BY <2>4, <3>1, <3>2
  <2>5. a.reads \in Seq(Reads) /\ b.reads \in Seq(Reads) /\ a.writes \in Seq(Writes) /\ b.writes \in Seq(Writes)
    BY <2>2 DEF Typed
  <2>6. At' = At
    BY <1>0 DEF At
  <2>7. cb' = [op |-> cb'.op, ret |-> cb'.ret, task |-> cb'.task]
    BY <1>0 DEF Owner
  <2>8. cb.task \in cancelled \/ (a.reads # <<>> /\ Head(a.reads) = cb.task)
           => cb.task \in cancelled' \/ (b.reads # <<>> /\ Head(b.reads) = cb.task)
    BY <2>3, <2>4, <2>5
  <2>9. cb.task \in cancelled \/ (a.writes # <<>> /\ Head(a.writes) = cb.task)
           => cb.task \in cancelled' \/ (b.writes # <<>> /\ Head(b.writes) = cb.task)
    BY <2>3, <2>4, <2>5
  <2>10. act' = act /\ n' = n /\ cb' = cb
    BY <1>0
  <2> QED BY <2>6, <2>7, <2>8, <2>9, <2>10, Zenon DEF Owner
<1> QED BY <1>1, <1>2, <1>3

(* handle_events calls back for the first task, which stays first until it   *)
(* is popped.                                                                *)
LEMMA InsideOwner ==
    ASSUME Types, Owner, Inside
    PROVE  Owner'
<1> ActionTypes /\ Place
  BY DEF Types
<1>1. act \in Fds /\ act' = act /\ Shapes
  BY InsideKeeps, TypesShape
<1> DEFINE a == ea[act]
           b == ea'[act]
           Same == b.reads = a.reads /\ b.writes = a.writes
           Whole == cb' = [op |-> cb'.op, ret |-> cb'.ret, task |-> cb'.task]
<1>2. cb = [op |-> cb.op, ret |-> cb.ret, task |-> cb.task] /\ n \in Nat
  BY DEF Owner, Place
<1>3. ASSUME NEW k, NEW x, Take(k, x) PROVE Same
  BY <1>1, <1>3, TakeKeeps
<1>4. ASSUME NEW t, cb' = [cb EXCEPT !.task = t] PROVE cb'.task = t /\ Whole
  BY <1>2, <1>4
<1>5. ASSUME NEW op, NEW r, NEW t, NEW g, Call(op, r, t, g)
      PROVE  cb'.task = t /\ Whole /\ pc' = "cb" /\ after' = g
  BY <1>5 DEF Call
<1>6. ASSUME Whole, At' \notin {"popRead", "dgram", "popWrite"} PROVE Owner'
  BY <1>6 DEF Owner
<1>7. CASE HandleEvents \/ PopRead \/ ReadsDone \/ MultishotAgain \/ WritesBegin \/ PopWrite \/ WritesDone
  <2>1. cb' = cb /\ pc' \in {"write", "handled", "multi", "reads", "accept", "writes"}
    BY <1>7, Zenon DEF HandleEvents, PopRead, ReadsDone, MultishotAgain, WritesBegin, PopWrite, WritesDone,
                      dispatchVars, callVars
  <2> QED BY <1>2, <1>6, <2>1 DEF At
<1>8. CASE DoReadTask
  <2> DEFINE t == Head(a.reads)
             Taken == ea' = ea \/ \E k, x : Take(k, x)
             Calls == \E r : Call("read", r, t, "popRead")
             Datagrams == pc' = "dgram" /\ cb' = [cb EXCEPT !.task = t]
             Goes == (Taken /\ (Calls \/ Datagrams)) \/ (pc' = pc /\ cb' = cb)
  <2>1. ASSUME ReadTcp(t) PROVE Goes
    BY <2>1, Zenon DEF ReadTcp
  <2>2. ASSUME ReadUdp(t) PROVE Goes
    BY <2>2, Zenon DEF ReadUdp
  <2>3. ASSUME ReadEvent(t) PROVE Goes
    BY <2>3, Zenon DEF ReadEvent
  <2>4. ASSUME ReadFile(t) PROVE Goes
    BY <2>4, Zenon DEF ReadFile
  <2>5. Goes
    <3>1. ASSUME Call("read", 0, t, "popRead"), ea' = ea PROVE Goes
      BY <3>1, Zenon
    <3> HIDE DEF Goes
    <3> QED BY <1>8, <2>1, <2>2, <2>3, <2>4, <3>1, Zenon DEF DoReadTask
  <2>6. pc = "reads" /\ a.reads # <<>>
    BY <1>8 DEF DoReadTask
  <2>7. CASE Taken /\ (Calls \/ Datagrams)
    <3>1. Same
      BY <1>3, <2>7
    <3>2. cb'.task = t /\ Whole /\ At' \in {"popRead", "dgram"}
      BY <1>4, <1>5, <2>7 DEF At
    <3> QED BY <1>1, <2>6, <3>1, <3>2 DEF Owner
  <2>8. CASE pc' = pc /\ cb' = cb
    BY <1>2, <1>6, <2>6, <2>8 DEF At
  <2> QED BY <2>5, <2>7, <2>8
<1>9. CASE NextDatagram
  <2>1. pc = "dgram" /\ n' = n /\ ea' = ea /\ cancelled' = cancelled
    BY <1>9 DEF NextDatagram, submitVars
  <2>2. n > 0 => cb.task \in cancelled \/ (a.reads # <<>> /\ Head(a.reads) = cb.task)
    BY <2>1 DEF Owner, At
  <2>3. CASE Call("read", 1, cb.task, "dgram")
    <3>1. cb'.task = cb.task /\ Whole /\ At' = "dgram"
      BY <1>5, <2>3 DEF At
    <3> QED BY <1>1, <2>1, <2>2, <3>1 DEF Owner
  <2>4. CASE cb' = cb /\ n > 0 /\ pc' = "popRead"
    BY <1>1, <1>2, <2>1, <2>2, <2>4 DEF Owner, At
  <2>5. CASE cb' = cb /\ pc' = "multi"
    BY <1>2, <1>6, <2>5 DEF At
  <2> QED BY <1>9, <2>3, <2>4, <2>5 DEF NextDatagram
<1>10. CASE DoMultishot
  <2>1. pc = "multi" /\ n' = n
    BY <1>10 DEF DoMultishot
  <2>2. ~(n' > 0)
    BY <2>1 DEF Place, At
  <2>3. MultishotTcp => \/ \E r : Call("read", r, None, "multi") \/ Call("read", r, None, "accept")
                        \/ pc' = "accept" /\ cb' = cb
    BY Zenon DEF MultishotTcp
  <2>4. MultishotUdp => cb' = [cb EXCEPT !.task = None] /\ pc' \in {"dgram", "again"}
    BY Zenon DEF MultishotUdp
  <2>5. Whole /\ At' \notin {"popRead", "popWrite"}
    BY <1>2, <1>4, <1>5, <1>10, <2>3, <2>4 DEF DoMultishot, At
  <2> QED BY <2>2, <2>5 DEF Owner
<1>11. CASE DoAccept
  <2>1. (\E r : Call("accept", r, None, "write")) \/ (pc' = "write" /\ cb' = cb)
    BY <1>11, Zenon DEF DoAccept
  <2>2. Whole /\ At' = "write"
    BY <1>2, <1>5, <2>1 DEF At
  <2> QED BY <1>6, <2>2
<1>12. CASE DoWriteTask
  <2> DEFINE t == Head(a.writes)
  <2>1. pc = "writes" /\ a.writes # <<>>
    BY <1>12 DEF DoWriteTask
  <2>2. ((\E r : Call("write", r, t, "popWrite")) /\ ea' = ea) \/ (pc' = pc /\ cb' = cb)
    BY <1>12, Zenon DEF DoWriteTask
  <2>3. CASE (\E r : Call("write", r, t, "popWrite")) /\ ea' = ea
    <3>1. cb'.task = t /\ Whole /\ At' = "popWrite"
      BY <1>5, <2>3 DEF At
    <3> QED BY <1>1, <2>1, <2>3, <3>1 DEF Owner
  <2>4. CASE pc' = pc /\ cb' = cb
    BY <1>2, <1>6, <2>1, <2>4 DEF At
  <2> QED BY <2>2, <2>3, <2>4
<1>13. CASE CallbackReturns
  <2>1. UNCHANGED <<ea, n, cb, act, cancelled>> /\ At' = At
    BY <1>13 DEF CallbackReturns, submitVars, dispatchVars, callVars, At, Place
  <2> QED BY <2>1 DEF Owner
<1>14. CASE Undefined
  <2>1. cb' = cb /\ pc' = "undef"
    BY <1>14 DEF Undefined, dispatchVars, callVars
  <2> QED BY <1>2, <1>6, <2>1 DEF At
<1> QED BY <1>7, <1>8, <1>9, <1>10, <1>11, <1>12, <1>13, <1>14 DEF Inside

(* Every step leaves the task whose callback runs first, or cancels it. *)
LEMMA StepOwner ==
    ASSUME Types, Owner, [Next]_vars
    PROVE  Owner'
<1>1. CASE Inside
  BY <1>1, InsideOwner
<1>2. CASE UserStep
  BY <1>2, UserOwner
<1>3. CASE KernelStep \/ UNCHANGED vars
  <2>1. UNCHANGED <<ea, pc, after, act, n, cb, cancelled>>
    BY <1>3, KernelKeeps DEF vars, submitVars, dispatchVars, callVars
  <2> QED BY <2>1 DEF Owner, At
<1>4. CASE ApplyChanges \/ Wait \/ WaitInterrupted \/ NextReported \/ NextReady \/ Handled
  <2>1. cb' = cb /\ pc' \in {"user", "wait", "events", "ready", "handle", "handled"}
    BY <1>4, Zenon DEF ApplyChanges, Wait, WaitInterrupted, NextReported, NextReady, Handled, dispatchVars, callVars
  <2> QED BY <2>1 DEF Owner, At
<1> QED BY <1>1, <1>2, <1>3, <1>4, DispatchCases

(* A task other than the one whose callback ran is popped only when that one *)
(* was cancelled by the callback.                                            *)
LEMMA OnlyAfterOwnCancel ==
    ASSUME Owner, PopsAnother
    PROVE  CancelledItself
<1>1. CASE pc = "popRead"
  BY <1>1 DEF Owner, At, PopsAnother, CancelledItself
<1>2. CASE pc = "popWrite"
  BY <1>2 DEF Owner, At, PopsAnother, CancelledItself
<1> QED BY <1>1, <1>2 DEF PopsAnother

(* No step of the epoll backend drops a task that was submitted: it stays in *)
(* a deque until its callback has run or it is cancelled.  The one exception *)
(* is the pop_front after a callback that cancelled its own operation, which *)
(* takes whatever is first then.                                             *)
THEOREM NoTaskDropped == Spec => TaskNotDropped
<1>1. Init => Owner
  BY DEF Init, Owner, At
<1>2. Ind /\ Owner /\ [Next]_vars => Owner'
  BY StepOwner DEF Ind, Base
<1>3. Ind /\ Owner /\ [Next]_vars => [Known \subseteq Known' \/ CancelledItself]_vars
  BY StepTasks, OnlyAfterOwnCancel DEF Ind, Base, Kept
<1> QED BY <1>1, <1>2, <1>3, IndAlways, PTL DEF Spec, TaskNotDropped

(* As long as no callback cancels its own operation, no step of the epoll    *)
(* backend drops a task, without exception.                                  *)
THEOREM NeverDropped == ~OwnCancel => (Spec => [][Known \subseteq Known']_vars)
<1> SUFFICES ASSUME ~OwnCancel PROVE Spec => [][Known \subseteq Known']_vars
  OBVIOUS
<1>1. SoundInv => ~PopsAnother
  BY SoundGoesOn DEF SoundInv, Base, PopsAnother, PopsItsOwn
<1>2. Ind /\ SoundInv /\ [Next]_vars => [Known \subseteq Known']_vars
  BY <1>1, StepTasks DEF Ind, Base, Kept
<1> QED BY <1>2, IndAlways, InitSound, StepSoundInv, PTL DEF Spec

===============================================================================
