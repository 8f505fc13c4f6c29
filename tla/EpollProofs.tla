----------------------------- MODULE EpollProofs ------------------------------
(***************************************************************************)
(* Proofs about the epoll backend, for every set of descriptors and tasks    *)
(* and all bounds: the types (TypeCorrect), and what each kind of descriptor *)
(* can hold (Kinds). EpollTaskProofs and EpollWakeUpProofs rest on both.     *)
(*                                                                           *)
(* An event_action has nine fields, and each operation changes a few of      *)
(* them. The proofs first bring every operation into one form: Sets(f, b),   *)
(* where b is the record the event_action of f becomes. What an operation    *)
(* does to the types, the kinds and the tasks is then a lemma about that     *)
(* record alone, and a step of Next is a case of InsideSets or UserSets.     *)
(***************************************************************************)
EXTENDS Epoll, TLAPS

(* A deque of some tasks is a deque of more. *)
LEMMA WiderSeqs ==
    ASSUME NEW S, NEW T, S \subseteq T
    PROVE  Seq(S) \subseteq Seq(T)
OBVIOUS

(* Two deques put together, entry by entry. *)
LEMMA ConcatSeqs ==
    ASSUME NEW S, NEW s \in Seq(S), NEW t \in Seq(S)
    PROVE  /\ s \o t \in Seq(S) /\ Len(s \o t) = Len(s) + Len(t)
           /\ \A i \in 1..(Len(s) + Len(t)) : (s \o t)[i] = IF i <= Len(s) THEN s[i] ELSE t[i - Len(s)]
OBVIOUS

(* An event_action, field by field *)
Rec(ev, rd, wr, r, nr, w, nw, mu, ac) ==
    [events |-> ev, readable |-> rd, writable |-> wr, reads |-> r, ns_reads |-> nr, writes |-> w,
     ns_writes |-> nw, multi |-> mu, accept |-> ac]

(* An event_action is its fields *)
Shape(a) == a = Rec(a.events, a.readable, a.writable, a.reads, a.ns_reads, a.writes, a.ns_writes,
                    a.multi, a.accept)

(* So is each of them *)
Shapes == ea = [f \in Fds |-> ea[f]] /\ \A f \in Fds : Shape(ea[f])

(* The event_action of f becomes b, and no other changes *)
Sets(f, b) == ea' = [g \in Fds |-> IF g = f THEN b ELSE ea[g]]

(* submit_async_read; KeptRead is the same with is_submit = false *)
AddedRead(a, t) ==
    Rec(a.events \cup {"R"}, a.readable, a.writable, Append(a.reads, t), a.ns_reads,
        a.writes, a.ns_writes, a.multi, a.accept)
KeptRead(a, t) ==
    Rec(a.events \cup {"R"}, a.readable, a.writable, a.reads, Append(a.ns_reads, t),
        a.writes, a.ns_writes, a.multi, a.accept)

(* submit_async_write *)
AddedWrite(a, t) ==
    Rec(a.events \cup {"W"}, a.readable, a.writable, a.reads, a.ns_reads, Append(a.writes,
        t), a.ns_writes, a.multi, a.accept)
KeptWrite(a, t) ==
    Rec(a.events \cup {"W"}, a.readable, a.writable, a.reads, a.ns_reads, a.writes,
        Append(a.ns_writes, t), a.multi, a.accept)

(* submit_async_read into a group *)
Multishot(a, s) ==
    Rec(a.events \cup {"R"}, a.readable, a.writable, a.reads, a.ns_reads, a.writes,
        a.ns_writes, IF s THEN "submitted" ELSE "waiting", a.accept)

(* submit_async_accept *)
Accepting(a) ==
    Rec(a.events \cup {"R"}, a.readable, a.writable, a.reads, a.ns_reads, a.writes,
        a.ns_writes, a.multi, TRUE)

(* disable_read *)
NoRead(a) ==
    Rec(a.events \ {"R"}, a.readable, a.writable, <<>>, <<>>, a.writes, a.ns_writes, "no",
        FALSE)

(* disable_write *)
NoWrite(a) ==
    Rec(a.events \ {"W"}, a.readable, a.writable, a.reads, a.ns_reads, <<>>, <<>>, a.multi,
        a.accept)

(* is_readable_ after a read *)
Reread(a, x) ==
    Rec(a.events, x, a.writable, a.reads, a.ns_reads, a.writes, a.ns_writes, a.multi,
        a.accept)

(* The first read found nothing, and goes to the back *)
ReadBack(a) ==
    Rec(a.events, FALSE, a.writable, Append(Tail(a.reads), Head(a.reads)), a.ns_reads,
        a.writes, a.ns_writes, a.multi, a.accept)

(* The first write found no room *)
WriteBack(a) ==
    Rec(a.events, a.readable, FALSE, a.reads, a.ns_reads, Append(Tail(a.writes),
        Head(a.writes)), a.ns_writes, a.multi, a.accept)

(* pop_front *)
ReadOver(a) ==
    Rec(a.events, a.readable, a.writable, Tail(a.reads), a.ns_reads, a.writes, a.ns_writes,
        a.multi, a.accept)
WriteOver(a) ==
    Rec(a.events, a.readable, a.writable, a.reads, a.ns_reads, Tail(a.writes), a.ns_writes,
        a.multi, a.accept)

(* set_ready_events *)
Flagged(a, x, y) ==
    Rec(a.events, (a.readable \/ x), (a.writable \/ y), a.reads, a.ns_reads, a.writes,
        a.ns_writes, a.multi, a.accept)
(* submit(), unregister_ring_buffer() *)
Submitted(a) ==
    Rec(a.events, a.readable, a.writable, a.reads \o a.ns_reads, <<>>, a.writes \o a.ns_writes, <<>>,
        IF a.multi = "no" THEN "no" ELSE "submitted", a.accept)
Ungrouped(a) ==
    Rec(a.events, a.readable, a.writable, a.reads, a.ns_reads, a.writes, a.ns_writes, "no", a.accept)

-----------------------------------------------------------------------------
(* Each operation changes the event_actions in one of these ways. *)

(* submit_async_read: the event_action of one descriptor becomes the record  *)
(* AddedRead, and no other changes.                                          *)
LEMMA AddedReadSets ==
    ASSUME Shapes, NEW f \in Fds, NEW t, SubmitRead(f, t, TRUE)
    PROVE  Sets(f, AddedRead(ea[f], t))
<1> DEFINE a == ea[f]
           b == ea'[f]
<1>1. Shape(a) /\ ea = [g \in Fds |-> ea[g]]
  BY DEF Shapes
<1>2. b = [a EXCEPT !.events = a.events \cup {"R"}, !.reads = Append(a.reads, t)]
  BY <1>1 DEF SubmitRead
<1>3. ea' = [g \in Fds |-> IF g = f THEN b ELSE ea[g]]
  BY <1>1 DEF SubmitRead
<1> HIDE DEF a, b
<1>4. b = AddedRead(a, t)
  BY <1>1, <1>2, Zenon DEF AddedRead, Shape, Rec
<1> QED BY <1>3, <1>4 DEF Sets, a

(* submit_async_read with is_submit = false: the event_action of one         *)
(* descriptor becomes the record KeptRead, and no other changes.             *)
LEMMA KeptReadSets ==
    ASSUME Shapes, NEW f \in Fds, NEW t, SubmitRead(f, t, FALSE)
    PROVE  Sets(f, KeptRead(ea[f], t))
<1> DEFINE a == ea[f]
           b == ea'[f]
<1>1. Shape(a) /\ ea = [g \in Fds |-> ea[g]]
  BY DEF Shapes
<1>2. b = [a EXCEPT !.events = a.events \cup {"R"}, !.ns_reads = Append(a.ns_reads, t)]
  BY <1>1 DEF SubmitRead
<1>3. ea' = [g \in Fds |-> IF g = f THEN b ELSE ea[g]]
  BY <1>1 DEF SubmitRead
<1> HIDE DEF a, b
<1>4. b = KeptRead(a, t)
  BY <1>1, <1>2, Zenon DEF KeptRead, Shape, Rec
<1> QED BY <1>3, <1>4 DEF Sets, a

(* submit_async_write: the event_action of one descriptor becomes the record *)
(* AddedWrite, and no other changes.                                         *)
LEMMA AddedWriteSets ==
    ASSUME Shapes, NEW f \in Fds, NEW t, SubmitWrite(f, t, TRUE)
    PROVE  Sets(f, AddedWrite(ea[f], t))
<1> DEFINE a == ea[f]
           b == ea'[f]
<1>1. Shape(a) /\ ea = [g \in Fds |-> ea[g]]
  BY DEF Shapes
<1>2. b = [a EXCEPT !.events = a.events \cup {"W"}, !.writes = Append(a.writes, t)]
  BY <1>1 DEF SubmitWrite
<1>3. ea' = [g \in Fds |-> IF g = f THEN b ELSE ea[g]]
  BY <1>1 DEF SubmitWrite
<1> HIDE DEF a, b
<1>4. b = AddedWrite(a, t)
  BY <1>1, <1>2, Zenon DEF AddedWrite, Shape, Rec
<1> QED BY <1>3, <1>4 DEF Sets, a

(* submit_async_write with is_submit = false: the event_action of one        *)
(* descriptor becomes the record KeptWrite, and no other changes.            *)
LEMMA KeptWriteSets ==
    ASSUME Shapes, NEW f \in Fds, NEW t, SubmitWrite(f, t, FALSE)
    PROVE  Sets(f, KeptWrite(ea[f], t))
<1> DEFINE a == ea[f]
           b == ea'[f]
<1>1. Shape(a) /\ ea = [g \in Fds |-> ea[g]]
  BY DEF Shapes
<1>2. b = [a EXCEPT !.events = a.events \cup {"W"}, !.ns_writes = Append(a.ns_writes, t)]
  BY <1>1 DEF SubmitWrite
<1>3. ea' = [g \in Fds |-> IF g = f THEN b ELSE ea[g]]
  BY <1>1 DEF SubmitWrite
<1> HIDE DEF a, b
<1>4. b = KeptWrite(a, t)
  BY <1>1, <1>2, Zenon DEF KeptWrite, Shape, Rec
<1> QED BY <1>3, <1>4 DEF Sets, a

(* submit_async_read into a buffer group: the event_action of one descriptor *)
(* becomes the record Multishot, and no other changes.                       *)
LEMMA MultishotSets ==
    ASSUME Shapes, NEW f \in Fds, NEW s, SubmitMultishot(f, s)
    PROVE  Sets(f, Multishot(ea[f], s))
<1> DEFINE a == ea[f]
           b == ea'[f]
<1>1. Shape(a) /\ ea = [g \in Fds |-> ea[g]]
  BY DEF Shapes
<1>2. b = [a EXCEPT !.events = a.events \cup {"R"}, !.multi = IF s THEN "submitted" ELSE "waiting"]
  BY <1>1 DEF SubmitMultishot
<1>3. ea' = [g \in Fds |-> IF g = f THEN b ELSE ea[g]]
  BY <1>1 DEF SubmitMultishot
<1> HIDE DEF a, b
<1>4. b = Multishot(a, s)
  BY <1>1, <1>2, Zenon DEF Multishot, Shape, Rec
<1> QED BY <1>3, <1>4 DEF Sets, a

(* submit_async_accept: the event_action of one descriptor becomes the       *)
(* record Accepting, and no other changes.                                   *)
LEMMA AcceptingSets ==
    ASSUME Shapes, NEW f \in Fds, SubmitAccept(f)
    PROVE  Sets(f, Accepting(ea[f]))
<1> DEFINE a == ea[f]
           b == ea'[f]
<1>1. Shape(a) /\ ea = [g \in Fds |-> ea[g]]
  BY DEF Shapes
<1>2. b = [a EXCEPT !.events = a.events \cup {"R"}, !.accept = TRUE]
  BY <1>1 DEF SubmitAccept
<1>3. ea' = [g \in Fds |-> IF g = f THEN b ELSE ea[g]]
  BY <1>1 DEF SubmitAccept
<1> HIDE DEF a, b
<1>4. b = Accepting(a)
  BY <1>1, <1>2, Zenon DEF Accepting, Shape, Rec
<1> QED BY <1>3, <1>4 DEF Sets, a

(* disable_read: the event_action of one descriptor becomes the record       *)
(* NoRead, and no other changes.                                             *)
LEMMA NoReadSets ==
    ASSUME Shapes, NEW f \in Fds, CancelRead(f) \/ CancelAccept(f)
    PROVE  Sets(f, NoRead(ea[f]))
<1> DEFINE a == ea[f]
           b == ea'[f]
<1>1. Shape(a) /\ ea = [g \in Fds |-> ea[g]]
  BY DEF Shapes
<1>2. b = [a EXCEPT !.events = a.events \ {"R"}, !.reads = <<>>, !.ns_reads = <<>>, !.multi = "no", !.accept = FALSE]
  BY <1>1 DEF CancelRead, CancelAccept, DisabledRead
<1>3. ea' = [g \in Fds |-> IF g = f THEN b ELSE ea[g]]
  BY <1>1 DEF CancelRead, CancelAccept, DisabledRead
<1> HIDE DEF a, b
<1>4. b = NoRead(a)
  BY <1>1, <1>2, Zenon DEF NoRead, Shape, Rec
<1> QED BY <1>3, <1>4 DEF Sets, a

(* disable_write: the event_action of one descriptor becomes the record      *)
(* NoWrite, and no other changes.                                            *)
LEMMA NoWriteSets ==
    ASSUME Shapes, NEW f \in Fds, CancelWrite(f)
    PROVE  Sets(f, NoWrite(ea[f]))
<1> DEFINE a == ea[f]
           b == ea'[f]
<1>1. Shape(a) /\ ea = [g \in Fds |-> ea[g]]
  BY DEF Shapes
<1>2. b = [a EXCEPT !.events = a.events \ {"W"}, !.writes = <<>>, !.ns_writes = <<>>]
  BY <1>1 DEF CancelWrite, DisabledWrite
<1>3. ea' = [g \in Fds |-> IF g = f THEN b ELSE ea[g]]
  BY <1>1 DEF CancelWrite, DisabledWrite
<1> HIDE DEF a, b
<1>4. b = NoWrite(a)
  BY <1>1, <1>2, Zenon DEF NoWrite, Shape, Rec
<1> QED BY <1>3, <1>4 DEF Sets, a

(* is_readable_ set by a read: the event_action of one descriptor becomes    *)
(* the record Reread, and no other changes.                                  *)
LEMMA RereadSets ==
    ASSUME Shapes, act \in Fds, NEW k, NEW x, Take(k, x)
    PROVE  Sets(act, Reread(ea[act], x))
<1> DEFINE a == ea[act]
           b == ea'[act]
<1>1. Shape(a) /\ ea = [g \in Fds |-> ea[g]]
  BY DEF Shapes
<1>2. b = [a EXCEPT !.readable = x]
  BY <1>1 DEF Take
<1>3. ea' = [g \in Fds |-> IF g = act THEN b ELSE ea[g]]
  BY <1>1 DEF Take
<1> HIDE DEF a, b
<1>4. b = Reread(a, x)
  BY <1>1, <1>2 DEF Reread, Shape, Rec
<1> QED BY <1>3, <1>4 DEF Sets, a

(* push_back of a read that found nothing: the event_action of one           *)
(* descriptor becomes the record ReadBack, and no other changes.             *)
LEMMA ReadBackSets ==
    ASSUME Shapes, act \in Fds,
           ea' = [ea EXCEPT ![act] = [ea[act] EXCEPT !.readable = FALSE,
                                                     !.reads = Append(Tail(@), Head(ea[act].reads))]]
    PROVE  Sets(act, ReadBack(ea[act]))
<1> DEFINE a == ea[act]
           b == ea'[act]
<1>1. Shape(a) /\ ea = [g \in Fds |-> ea[g]]
  BY DEF Shapes
<1>2. b = [a EXCEPT !.readable = FALSE, !.reads = Append(Tail(a.reads), Head(a.reads))]
  BY <1>1
<1>3. ea' = [g \in Fds |-> IF g = act THEN b ELSE ea[g]]
  BY <1>1
<1> HIDE DEF a, b
<1>4. b = ReadBack(a)
  BY <1>1, <1>2, Zenon DEF ReadBack, Shape, Rec
<1> QED BY <1>3, <1>4, Zenon DEF Sets, a

(* push_back of a write that found no room: the event_action of one          *)
(* descriptor becomes the record WriteBack, and no other changes.            *)
LEMMA WriteBackSets ==
    ASSUME Shapes, act \in Fds,
           ea' = [ea EXCEPT ![act].writable = FALSE,
                            ![act].writes = Append(Tail(@), Head(ea[act].writes))]
    PROVE  Sets(act, WriteBack(ea[act]))
<1> DEFINE a == ea[act]
           b == ea'[act]
<1>1. Shape(a) /\ ea = [g \in Fds |-> ea[g]]
  BY DEF Shapes
<1>2. b = [a EXCEPT !.writable = FALSE, !.writes = Append(Tail(a.writes), Head(a.writes))]
  BY <1>1
<1>3. ea' = [g \in Fds |-> IF g = act THEN b ELSE ea[g]]
  BY <1>1
<1> HIDE DEF a, b
<1>4. b = WriteBack(a)
  BY <1>1, <1>2, Zenon DEF WriteBack, Shape, Rec
<1> QED BY <1>3, <1>4, Zenon DEF Sets, a

(* pop_front of a read: the event_action of one descriptor becomes the       *)
(* record ReadOver, and no other changes.                                    *)
LEMMA ReadOverSets ==
    ASSUME Shapes, act \in Fds, PopRead
    PROVE  Sets(act, ReadOver(ea[act]))
<1> DEFINE a == ea[act]
           b == ea'[act]
<1>1. Shape(a) /\ ea = [g \in Fds |-> ea[g]]
  BY DEF Shapes
<1>2. b = [a EXCEPT !.reads = Tail(a.reads)]
  BY <1>1 DEF PopRead
<1>3. ea' = [g \in Fds |-> IF g = act THEN b ELSE ea[g]]
  BY <1>1 DEF PopRead
<1> HIDE DEF a, b
<1>4. b = ReadOver(a)
  BY <1>1, <1>2, Zenon DEF ReadOver, Shape, Rec
<1> QED BY <1>3, <1>4 DEF Sets, a

(* pop_front of a write: the event_action of one descriptor becomes the      *)
(* record WriteOver, and no other changes.                                   *)
LEMMA WriteOverSets ==
    ASSUME Shapes, act \in Fds, PopWrite
    PROVE  Sets(act, WriteOver(ea[act]))
<1> DEFINE a == ea[act]
           b == ea'[act]
<1>1. Shape(a) /\ ea = [g \in Fds |-> ea[g]]
  BY DEF Shapes
<1>2. b = [a EXCEPT !.writes = Tail(a.writes)]
  BY <1>1 DEF PopWrite
<1>3. ea' = [g \in Fds |-> IF g = act THEN b ELSE ea[g]]
  BY <1>1 DEF PopWrite
<1> HIDE DEF a, b
<1>4. b = WriteOver(a)
  BY <1>1, <1>2, Zenon DEF WriteOver, Shape, Rec
<1> QED BY <1>3, <1>4 DEF Sets, a

(* set_ready_events: the event_action of one descriptor becomes the record   *)
(* Flagged, and no other changes.                                            *)
LEMMA FlaggedSets ==
    ASSUME Shapes, NEW f \in Fds, NEW x, NEW y,
           ea' = [ea EXCEPT ![f].readable = @ \/ x, ![f].writable = @ \/ y]
    PROVE  Sets(f, Flagged(ea[f], x, y))
<1> DEFINE a == ea[f]
           b == ea'[f]
<1>1. Shape(a) /\ ea = [g \in Fds |-> ea[g]]
  BY DEF Shapes
<1>2. b = [a EXCEPT !.readable = (a.readable \/ x), !.writable = (a.writable \/ y)]
  BY <1>1
<1>3. ea' = [g \in Fds |-> IF g = f THEN b ELSE ea[g]]
  BY <1>1
<1> HIDE DEF a, b
<1>4. b = Flagged(a, x, y)
  BY <1>1, <1>2, Zenon DEF Flagged, Shape, Rec
<1> QED BY <1>3, <1>4, Zenon DEF Sets, a

(* submit() reaches every descriptor with something kept back. *)
LEMMA SubmittedSets ==
    ASSUME Shapes, Submit
    PROVE  ea' = [f \in Fds |-> IF f \notin non_submit_events THEN ea[f] ELSE Submitted(ea[f])]
<1>1. ASSUME NEW a, NEW b, Shape(a),
             b = [a EXCEPT !.reads = @ \o a.ns_reads, !.ns_reads = <<>>,
                           !.writes = @ \o a.ns_writes, !.ns_writes = <<>>,
                           !.multi = IF @ = "no" THEN "no" ELSE "submitted"]
      PROVE  b = Submitted(a)
  BY <1>1, Zenon DEF Submitted, Shape, Rec
<1>2. \A f \in Fds : Shape(ea[f])
  BY DEF Shapes
<1> QED BY <1>1, <1>2, Zenon DEF Submit

(* unregister_ring_buffer reaches every descriptor. *)
LEMMA UngroupedSets ==
    ASSUME Shapes, UnregisterRingBuffer
    PROVE  ea' = [f \in Fds |-> Ungrouped(ea[f])]
<1>1. ASSUME NEW a, NEW b, Shape(a), b = [a EXCEPT !.multi = "no"]
      PROVE  b = Ungrouped(a)
  BY <1>1 DEF Ungrouped, Shape, Rec
<1>2. \A f \in Fds : Shape(ea[f])
  BY DEF Shapes
<1> QED BY <1>1, <1>2 DEF UnregisterRingBuffer

-----------------------------------------------------------------------------
(* Where dispatch stands, and ready_events_. *)

(* handle_events is at work, for the descriptor act *)
Busy == {"handle", "reads", "popRead", "dgram", "multi", "again", "accept", "write", "writes",
         "popWrite", "handled", "cb"}

(* Where handle_events goes on, now or after the callback *)
At == IF pc = "cb" THEN after ELSE pc

(* Where dispatch can be *)
Place ==
    /\ pc \in Busy \cup {"user", "wait", "events", "ready", "undef"}
    /\ pc = "cb" => after \in {"popRead", "dgram", "multi", "accept", "write", "popWrite"}
    /\ n \in Nat /\ (At \in {"popRead", "popWrite"} => n > 0) /\ (At \in {"multi", "again"} => n = 0)
    /\ act \in Fds \cup {None} /\ trig \in BOOLEAN
    /\ pc \in Busy \cup {"undef"} => act \in Fds \/ pc = "handled"

(* ready_events_ and how far do_ready_tasks is in it *)
Queue ==
    /\ ready_events \in Seq(Fds \cup {None}) /\ ready_cnt \in Nat /\ ready_cnt <= Len(ready_events)
    /\ pc \in Busy /\ ~trig => ready_cnt > 0 /\ Head(ready_events) = act

(* What epoll_wait returned and dispatch has not handled *)
Reported ==
    /\ \A r \in reported : r.fd \in Fds /\ r.mask \in (SUBSET RW) \ {{}}
    /\ reported # {} => pc = "events" \/ (trig /\ pc \in Busy \cup {"undef"})

(* What user code calls, in dispatch or between two calls of it *)
UserStep == \/ \E f \in Fds : User(f)
            \/ Submit \/ RegisterRingBuffer \/ UnregisterRingBuffer

(* What the kernel and the peers do *)
KernelStep == \E f \in Fds : Kernel(f)

(* s is q with more descriptors behind *)
Longer(q, s) ==
    /\ s \in Seq(Fds \cup {None}) /\ Len(q) <= Len(s)
    /\ \A k \in 1..Len(q) : s[k] = q[k]

(* What is queued stays where it was when a descriptor is appended. *)
LEMMA LongerAppend ==
    ASSUME NEW q \in Seq(Fds \cup {None}), NEW f \in Fds
    PROVE  Longer(q, q) /\ Longer(q, Append(q, f))
<1> DEFINE S == Fds \cup {None}
<1>1. f \in S
  OBVIOUS
<1> HIDE DEF S
<1>2. Append(q, f) \in Seq(S) /\ Len(Append(q, f)) = Len(q) + 1 /\ Len(q) \in Nat
      /\ \A k \in 1..Len(q) : Append(q, f)[k] = q[k]
  BY <1>1 DEF S
<1> QED BY <1>2 DEF Longer, S

(* What is queued stays where it was when submit() appends several           *)
(* descriptors.                                                              *)
LEMMA LongerConcat ==
    ASSUME NEW q \in Seq(Fds \cup {None}), NEW s \in Seq(Fds)
    PROVE  Longer(q, q \o s)
<1> DEFINE S == Fds \cup {None}
<1>1. s \in Seq(S)
  BY WiderSeqs
<1> HIDE DEF S
<1>2. q \o s \in Seq(S) /\ Len(q \o s) = Len(q) + Len(s) /\ Len(q) \in Nat /\ Len(s) \in Nat
      /\ \A k \in 1..Len(q) : (q \o s)[k] = q[k]
  BY <1>1 DEF S
<1> QED BY <1>2 DEF Longer, S

(* Orders gives sequences of descriptors. *)
LEMMA OrdersAreSeqs ==
    ASSUME NEW T \in SUBSET Fds, NEW s \in Orders(T)
    PROVE  s \in Seq(Fds) /\ Elems(s) = T
<1>1. Cardinality(T) \in Nat
  BY FdAssumption
<1>2. s \in [1..Cardinality(T) -> T] /\ Elems(s) = T
  BY DEF Orders
<1>3. s \in Seq(T)
  BY <1>1, <1>2
<1> QED BY <1>2, <1>3, WiderSeqs

(* User code leaves dispatch where it is, and only adds to ready_events_. *)
LEMMA UserGrows ==
    ASSUME Queue, UserStep, non_submit_events \subseteq Fds
    PROVE  UNCHANGED <<dispatchVars, pc>> /\ Longer(ready_events, ready_events')
<1>1. ready_events \in Seq(Fds \cup {None})
  BY DEF Queue
<1>2. CASE Submit
  <2> DEFINE T == {f \in non_submit_events : ea[f].readable \/ ea[f].writable}
  <2>1. PICK s \in Orders(T) : ready_events' = ready_events \o s
    BY <1>2, Zenon DEF Submit
  <2>2. T \in SUBSET Fds
    OBVIOUS
  <2> HIDE DEF T
  <2>3. s \in Seq(Fds)
    BY <2>2, OrdersAreSeqs
  <2> QED BY <1>1, <1>2, <2>1, <2>3, LongerConcat, Zenon DEF Submit
<1>3. CASE RegisterRingBuffer \/ UnregisterRingBuffer
  <2>1. ready_events' = ready_events /\ UNCHANGED <<dispatchVars, pc>>
    BY <1>3 DEF RegisterRingBuffer, UnregisterRingBuffer
  <2> QED BY <1>1, <2>1 DEF Longer
<1>4. ASSUME NEW f \in Fds, User(f)
      PROVE  UNCHANGED <<dispatchVars, pc>> /\ Longer(ready_events, ready_events')
  <2>1. UNCHANGED <<dispatchVars, pc>> /\ (ready_events' = ready_events \/ ready_events' = Append(ready_events, f))
    BY <1>4, Zenon DEF User, SubmitRead, SubmitWrite, SubmitMultishot, SubmitAccept, CancelRead, CancelAccept,
                CancelWrite, CloseFd, ReopenFd, QueueIf, submitVars
  <2> QED BY <1>1, <2>1, LongerAppend, Zenon
<1> QED BY <1>2, <1>3, <1>4 DEF UserStep

(* The steps of dispatch that touch neither ready_events_ nor what           *)
(* epoll_wait returned                                                       *)
Inside == \/ HandleEvents \/ DoReadTask \/ NextDatagram \/ PopRead \/ ReadsDone \/ DoMultishot
          \/ MultishotAgain \/ DoAccept \/ WritesBegin \/ DoWriteTask \/ PopWrite \/ WritesDone
          \/ CallbackReturns \/ Undefined

(* A step is one of user code, of the kernel, inside handle_events, or of    *)
(* dispatch around it.                                                       *)
LEMMA DispatchCases ==
    ASSUME [Next]_vars
    PROVE  \/ UserStep \/ KernelStep \/ Inside \/ UNCHANGED vars
           \/ ApplyChanges \/ Wait \/ WaitInterrupted \/ NextReported \/ NextReady \/ Handled
BY DEF Next, Dispatch, UserStep, KernelStep, Inside

(* The kernel touches neither the backend's books nor where dispatch stands. *)
LEMMA KernelKeeps ==
    ASSUME KernelStep
    PROVE  UNCHANGED <<submitVars, dispatchVars, pc, kern, closes>>
BY DEF KernelStep, Kernel, Arrive, PeerCloses, Drain

(* The deques hold tasks of their kind *)
Deques ==
    \A f \in Fds : /\ ea[f].reads \in Seq(Reads) /\ ea[f].ns_reads \in Seq(Reads)
                   /\ ea[f].writes \in Seq(Writes) /\ ea[f].ns_writes \in Seq(Writes)

(* Inside handle_events. *)
LEMMA InsideKeeps ==
    ASSUME Inside, Place, Deques
    PROVE  /\ UNCHANGED <<kern, edge, closes, ei, changes, ready_events, non_submit_events, group, cancelled,
                          act, trig, reported, ready_cnt>>
           /\ pc \in Busy /\ pc' \in Busy \cup {"undef"} /\ act \in Fds
           /\ Place'
<1>1. pc \in Busy /\ act \in Fds
  BY FdAssumption, Zenon DEF Inside, Place, Busy, HandleEvents, DoReadTask, NextDatagram, PopRead, ReadsDone, DoMultishot,
     MultishotAgain, DoAccept, WritesBegin, DoWriteTask, PopWrite, WritesDone, CallbackReturns, Undefined, Dangling
<1>2. CASE HandleEvents
  <2>1. Len(ea[act].reads) \in Nat
    BY <1>1 DEF Deques
  <2> QED BY <1>1, <1>2, <2>1 DEF HandleEvents, Place, Busy, At, kernelVars, submitVars
<1>3. CASE DoReadTask
  <2>1. /\ pc = "reads" /\ n > 0
        /\ UNCHANGED <<kern, edge, closes, ei, changes, ready_events, non_submit_events, group,
                       cancelled, act, trig, reported, ready_cnt>>
    BY <1>3 DEF DoReadTask
  <2>2. \/ pc' = "cb" /\ after' = "popRead" /\ n' = n
        \/ pc' = "dgram" /\ n' = n
        \/ pc' = pc /\ n' = n - 1
    BY <1>3, Zenon DEF DoReadTask, ReadTcp, ReadUdp, ReadEvent, ReadFile, Call
  <2> QED BY <1>1, <2>1, <2>2 DEF Place, Busy, At
<1>4. CASE NextDatagram \/ PopRead \/ ReadsDone
  BY <1>1, <1>4 DEF NextDatagram, PopRead, ReadsDone, Call, Place, Busy, At, kernelVars, submitVars, dispatchVars, callVars
<1>5. CASE DoMultishot \/ MultishotAgain
  <2>1. /\ pc \in {"multi", "again"} /\ n' = n
        /\ UNCHANGED <<kern, edge, closes, ei, changes, ready_events, non_submit_events, group,
                       cancelled, act, trig, reported, ready_cnt>>
    BY <1>5 DEF DoMultishot, MultishotAgain, kernelVars, submitVars, dispatchVars, callVars
  <2>2. \/ pc' = "cb" /\ after' \in {"multi", "accept"}
        \/ pc' \in {"accept", "dgram", "again", "multi"}
    BY <1>5, Zenon DEF DoMultishot, MultishotAgain, MultishotTcp, MultishotUdp, Call
  <2> QED BY <1>1, <2>1, <2>2 DEF Place, Busy, At
<1>6. CASE DoAccept
  BY <1>1, <1>6, Zenon DEF DoAccept, Call, Place, Busy, At
<1>9. CASE WritesBegin
  <2>1. Len(ea[act].writes) \in Nat
    BY <1>1 DEF Deques
  <2> QED BY <1>1, <1>9, <2>1 DEF WritesBegin, Place, Busy, At, kernelVars, submitVars
<1>7. CASE DoWriteTask
  BY <1>1, <1>7 DEF DoWriteTask, Call, Place, Busy, At, kernelVars, submitVars
<1>8. CASE PopWrite \/ WritesDone \/ CallbackReturns \/ Undefined
  BY <1>1, <1>8 DEF PopWrite, WritesDone, CallbackReturns, Undefined, Place, Busy, At, kernelVars, submitVars, dispatchVars, callVars
<1> QED BY <1>2, <1>3, <1>4, <1>5, <1>6, <1>7, <1>8, <1>9 DEF Inside

(* handle_events changes the event_action of act only. *)
LEMMA InsideSets ==
    ASSUME Inside, Shapes, act \in Fds
    PROVE  \/ PopRead /\ Sets(act, ReadOver(ea[act]))
           \/ PopWrite /\ Sets(act, WriteOver(ea[act]))
           \/ /\ done' = done
              /\ \/ ea' = ea
                 \/ \E x \in BOOLEAN \cup {ea[act].readable} : Sets(act, Reread(ea[act], x))
                 \/ ea[act].reads # <<>> /\ Sets(act, ReadBack(ea[act]))
                 \/ ea[act].writes # <<>> /\ Sets(act, WriteBack(ea[act]))
<1>1. ASSUME NEW k, NEW x \in BOOLEAN \cup {ea[act].readable}, Take(k, x)
      PROVE  \E y \in BOOLEAN \cup {ea[act].readable} : Sets(act, Reread(ea[act], y))
  BY <1>1, RereadSets
<1>2. CASE HandleEvents \/ NextDatagram \/ ReadsDone \/ MultishotAgain \/ WritesBegin \/ WritesDone
           \/ CallbackReturns \/ Undefined
  BY <1>2 DEF HandleEvents, NextDatagram, ReadsDone, MultishotAgain, WritesBegin, WritesDone,
              CallbackReturns, Undefined, submitVars, dispatchVars
<1>3. CASE DoReadTask
  <2> DEFINE t == Head(ea[act].reads)
             Back == ea' = [ea EXCEPT ![act] = [ea[act] EXCEPT !.readable = FALSE, !.reads = Append(Tail(@), t)]]
             Taken == \E x \in BOOLEAN \cup {ea[act].readable} : \E k : Take(k, x)
  <2>1. done' = done /\ ea[act].reads # <<>>
    BY <1>3 DEF DoReadTask
  <2>2. ASSUME ReadTcp(t) PROVE Taken \/ Back
    BY <2>2, Zenon DEF ReadTcp
  <2>3. ASSUME ReadUdp(t) PROVE Taken \/ Back
    BY <2>3, Zenon DEF ReadUdp
  <2>4. ASSUME ReadEvent(t) PROVE Taken
    BY <2>4, Zenon DEF ReadEvent
  <2>5. ea' = ea \/ Taken \/ Back
    <3> HIDE DEF Taken, Back
    <3> QED BY <1>3, <2>2, <2>3, <2>4 DEF DoReadTask, ReadFile
  <2>6. CASE Back
    BY <2>1, <2>6, ReadBackSets
  <2> QED BY <1>1, <2>1, <2>5, <2>6
<1>4. CASE DoMultishot
  <2>1. done' = done
    BY <1>4 DEF DoMultishot
  <2>2. ea' = ea \/ \E x \in BOOLEAN \cup {ea[act].readable} : \E k : Take(k, x)
    BY <1>4, Zenon DEF DoMultishot, MultishotTcp, MultishotUdp
  <2> QED BY <1>1, <2>1, <2>2
<1>5. CASE DoAccept
  <2>1. done' = done
    BY <1>5 DEF DoAccept
  <2>2. ea' = ea \/ \E x \in BOOLEAN \cup {ea[act].readable} : \E k : Take(k, x)
    BY <1>5, Zenon DEF DoAccept
  <2> QED BY <1>1, <2>1, <2>2
<1>6. CASE DoWriteTask
  <2> DEFINE t == Head(ea[act].writes)
             Back == ea' = [ea EXCEPT ![act].writable = FALSE, ![act].writes = Append(Tail(@), t)]
  <2>1. done' = done /\ ea[act].writes # <<>> /\ (ea' = ea \/ Back)
    BY <1>6, Zenon DEF DoWriteTask
  <2>2. CASE Back
    BY <2>1, <2>2, WriteBackSets
  <2> QED BY <2>1, <2>2, Zenon
<1>7. CASE PopRead \/ PopWrite
  BY <1>7, ReadOverSets, WriteOverSets
<1> QED BY <1>2, <1>3, <1>4, <1>5, <1>6, <1>7 DEF Inside

(* User code changes one event_action in one of these ways, or all. *)
UserSets ==
    \/ UNCHANGED <<ea, ready_events, cancelled>>
    \/ \E f \in Fds, t \in Reads : \/ SubmitRead(f, t, TRUE) /\ Sets(f, AddedRead(ea[f], t))
                                   \/ SubmitRead(f, t, FALSE) /\ Sets(f, KeptRead(ea[f], t))
    \/ \E f \in Fds, t \in Writes : \/ SubmitWrite(f, t, TRUE) /\ Sets(f, AddedWrite(ea[f], t))
                                    \/ SubmitWrite(f, t, FALSE) /\ Sets(f, KeptWrite(ea[f], t))
    \/ \E f \in Fds, s \in BOOLEAN : SubmitMultishot(f, s) /\ Sets(f, Multishot(ea[f], s))
    \/ \E f \in Fds : \/ SubmitAccept(f) /\ Sets(f, Accepting(ea[f]))
                      \/ (CancelRead(f) \/ CancelAccept(f)) /\ Sets(f, NoRead(ea[f]))
                      \/ CancelWrite(f) /\ Sets(f, NoWrite(ea[f]))
    \/ Submit /\ ea' = [f \in Fds |-> IF f \notin non_submit_events THEN ea[f] ELSE Submitted(ea[f])]
    \/ UnregisterRingBuffer /\ ea' = [f \in Fds |-> Ungrouped(ea[f])]

(* Whatever user code calls changes the event_actions in one of the ways of  *)
(* UserSets.                                                                 *)
LEMMA UserCases == ASSUME UserStep, Shapes PROVE UserSets
<1>1. CASE RegisterRingBuffer
  BY <1>1 DEF RegisterRingBuffer, UserSets
<1>2. CASE \E f \in Fds : CloseFd(f) \/ ReopenFd(f)
  BY <1>2, Zenon DEF CloseFd, ReopenFd, submitVars, UserSets
<1>3. CASE Submit
  BY <1>3, SubmittedSets, Zenon DEF UserSets
<1>4. CASE UnregisterRingBuffer
  BY <1>4, UngroupedSets, Zenon DEF UserSets
<1>5. ASSUME NEW f \in Fds, NEW t \in Reads, NEW s \in BOOLEAN, SubmitRead(f, t, s) PROVE UserSets
  <2>1. SubmitRead(f, t, TRUE) \/ SubmitRead(f, t, FALSE)
    BY <1>5, Zenon
  <2> QED BY <2>1, AddedReadSets, KeptReadSets, Zenon DEF UserSets
<1>6. ASSUME NEW f \in Fds, NEW t \in Writes, NEW s \in BOOLEAN, SubmitWrite(f, t, s) PROVE UserSets
  <2>1. SubmitWrite(f, t, TRUE) \/ SubmitWrite(f, t, FALSE)
    BY <1>6, Zenon
  <2> QED BY <2>1, AddedWriteSets, KeptWriteSets, Zenon DEF UserSets
<1>7. ASSUME NEW f \in Fds, NEW s \in BOOLEAN, SubmitMultishot(f, s) PROVE UserSets
  BY <1>7, MultishotSets, Zenon DEF UserSets
<1>8. ASSUME NEW f \in Fds, SubmitAccept(f) PROVE UserSets
  BY <1>8, AcceptingSets, Zenon DEF UserSets
<1>9. ASSUME NEW f \in Fds, CancelRead(f) \/ CancelAccept(f) PROVE UserSets
  BY <1>9, NoReadSets, Zenon DEF UserSets
<1>10. ASSUME NEW f \in Fds, CancelWrite(f) PROVE UserSets
  BY <1>10, NoWriteSets, Zenon DEF UserSets
<1> QED BY <1>1, <1>2, <1>3, <1>4, <1>5, <1>6, <1>7, <1>8, <1>9, <1>10 DEF UserStep, User

(* set_ready_events, for what epoll_wait returned. *)
LEMMA ReportedSets ==
    ASSUME Shapes, Reported, NextReported
    PROVE  \/ ea' = ea /\ act' = act /\ UNCHANGED <<reported, trig>> /\ reported = {} /\ pc' = "ready" /\ ready_cnt' = Len(ready_events)
           \/ \E r \in reported : /\ Sets(r.fd, Flagged(ea[r.fd], "R" \in r.mask, "W" \in r.mask))
                                  /\ act' = r.fd /\ reported' = reported \ {r} /\ trig' = TRUE
                                  /\ pc' = "handle" /\ ready_cnt' = ready_cnt
<1>1. ASSUME NEW r \in reported,
             ea' = [ea EXCEPT ![r.fd].readable = @ \/ "R" \in r.mask, ![r.fd].writable = @ \/ "W" \in r.mask]
      PROVE  Sets(r.fd, Flagged(ea[r.fd], "R" \in r.mask, "W" \in r.mask))
  <2> DEFINE x == "R" \in r.mask
             y == "W" \in r.mask
             f == r.fd
  <2>1. f \in Fds
    BY DEF Reported
  <2>2. ea' = [ea EXCEPT ![f].readable = @ \/ x, ![f].writable = @ \/ y]
    BY <1>1
  <2> HIDE DEF x, y, f
  <2>3. Sets(f, Flagged(ea[f], x, y))
    BY <2>1, <2>2, FlaggedSets, Zenon
  <2> QED BY <2>3 DEF x, y, f
<1> QED BY <1>1, Zenon DEF NextReported

-----------------------------------------------------------------------------
(* Types. *)

(* An event_action with fields of the right type *)
Typed(a) ==
    /\ Shape(a) /\ a.events \in SUBSET RW /\ a.readable \in BOOLEAN /\ a.writable \in BOOLEAN
    /\ a.reads \in Seq(Reads) /\ a.ns_reads \in Seq(Reads)
    /\ a.writes \in Seq(Writes) /\ a.ns_writes \in Seq(Writes)
    /\ a.multi \in {"no", "waiting", "submitted"} /\ a.accept \in BOOLEAN

(* Moving the first task to the back gives a deque of the same kind of       *)
(* tasks.                                                                    *)
LEMMA RotateType ==
    ASSUME NEW S, NEW s \in Seq(S), s # <<>>
    PROVE  Append(Tail(s), Head(s)) \in Seq(S) /\ Tail(s) \in Seq(S)
OBVIOUS

(* submit_async_read keeps the types of an event_action (AddedRead). *)
LEMMA AddedReadTyped ==
    ASSUME NEW a, Typed(a), NEW t \in Reads
    PROVE  Typed(AddedRead(a, t))
<1> /\ a.events \in SUBSET RW /\ a.readable \in BOOLEAN /\ a.writable \in BOOLEAN
    /\ a.reads \in Seq(Reads) /\ a.ns_reads \in Seq(Reads)
    /\ a.writes \in Seq(Writes) /\ a.ns_writes \in Seq(Writes)
    /\ a.multi \in {"no", "waiting", "submitted"} /\ a.accept \in BOOLEAN
  BY DEF Typed
<1>1. a.events \cup {"R"} \in SUBSET RW /\ Append(a.reads, t) \in Seq(Reads)
  BY RotateType DEF RW
<1> DEFINE b == AddedRead(a, t)
<1>2. /\ b.events = (a.events \cup {"R"}) /\ b.readable = a.readable /\ b.writable = a.writable
      /\ b.reads = Append(a.reads, t) /\ b.ns_reads = a.ns_reads
      /\ b.writes = a.writes /\ b.ns_writes = a.ns_writes
      /\ b.multi = a.multi /\ b.accept = a.accept
  BY DEF AddedRead, Rec
<1>3. Shape(b)
  BY <1>2, Zenon DEF Shape, AddedRead
<1> HIDE DEF b
<1>4. Typed(b)
  BY <1>1, <1>2, <1>3 DEF Typed
<1> QED BY <1>4 DEF b

(* submit_async_read with is_submit = false keeps the types of an            *)
(* event_action (KeptRead).                                                  *)
LEMMA KeptReadTyped ==
    ASSUME NEW a, Typed(a), NEW t \in Reads
    PROVE  Typed(KeptRead(a, t))
<1> /\ a.events \in SUBSET RW /\ a.readable \in BOOLEAN /\ a.writable \in BOOLEAN
    /\ a.reads \in Seq(Reads) /\ a.ns_reads \in Seq(Reads)
    /\ a.writes \in Seq(Writes) /\ a.ns_writes \in Seq(Writes)
    /\ a.multi \in {"no", "waiting", "submitted"} /\ a.accept \in BOOLEAN
  BY DEF Typed
<1>1. a.events \cup {"R"} \in SUBSET RW /\ Append(a.ns_reads, t) \in Seq(Reads)
  BY RotateType DEF RW
<1> DEFINE b == KeptRead(a, t)
<1>2. /\ b.events = (a.events \cup {"R"}) /\ b.readable = a.readable /\ b.writable = a.writable
      /\ b.reads = a.reads /\ b.ns_reads = Append(a.ns_reads, t)
      /\ b.writes = a.writes /\ b.ns_writes = a.ns_writes
      /\ b.multi = a.multi /\ b.accept = a.accept
  BY DEF KeptRead, Rec
<1>3. Shape(b)
  BY <1>2, Zenon DEF Shape, KeptRead
<1> HIDE DEF b
<1>4. Typed(b)
  BY <1>1, <1>2, <1>3 DEF Typed
<1> QED BY <1>4 DEF b

(* submit_async_write keeps the types of an event_action (AddedWrite). *)
LEMMA AddedWriteTyped ==
    ASSUME NEW a, Typed(a), NEW t \in Writes
    PROVE  Typed(AddedWrite(a, t))
<1> /\ a.events \in SUBSET RW /\ a.readable \in BOOLEAN /\ a.writable \in BOOLEAN
    /\ a.reads \in Seq(Reads) /\ a.ns_reads \in Seq(Reads)
    /\ a.writes \in Seq(Writes) /\ a.ns_writes \in Seq(Writes)
    /\ a.multi \in {"no", "waiting", "submitted"} /\ a.accept \in BOOLEAN
  BY DEF Typed
<1>1. a.events \cup {"W"} \in SUBSET RW /\ Append(a.writes, t) \in Seq(Writes)
  BY RotateType DEF RW
<1> DEFINE b == AddedWrite(a, t)
<1>2. /\ b.events = (a.events \cup {"W"}) /\ b.readable = a.readable /\ b.writable = a.writable
      /\ b.reads = a.reads /\ b.ns_reads = a.ns_reads
      /\ b.writes = Append(a.writes, t) /\ b.ns_writes = a.ns_writes
      /\ b.multi = a.multi /\ b.accept = a.accept
  BY DEF AddedWrite, Rec
<1>3. Shape(b)
  BY <1>2, Zenon DEF Shape, AddedWrite
<1> HIDE DEF b
<1>4. Typed(b)
  BY <1>1, <1>2, <1>3 DEF Typed
<1> QED BY <1>4 DEF b

(* submit_async_write with is_submit = false keeps the types of an           *)
(* event_action (KeptWrite).                                                 *)
LEMMA KeptWriteTyped ==
    ASSUME NEW a, Typed(a), NEW t \in Writes
    PROVE  Typed(KeptWrite(a, t))
<1> /\ a.events \in SUBSET RW /\ a.readable \in BOOLEAN /\ a.writable \in BOOLEAN
    /\ a.reads \in Seq(Reads) /\ a.ns_reads \in Seq(Reads)
    /\ a.writes \in Seq(Writes) /\ a.ns_writes \in Seq(Writes)
    /\ a.multi \in {"no", "waiting", "submitted"} /\ a.accept \in BOOLEAN
  BY DEF Typed
<1>1. a.events \cup {"W"} \in SUBSET RW /\ Append(a.ns_writes, t) \in Seq(Writes)
  BY RotateType DEF RW
<1> DEFINE b == KeptWrite(a, t)
<1>2. /\ b.events = (a.events \cup {"W"}) /\ b.readable = a.readable /\ b.writable = a.writable
      /\ b.reads = a.reads /\ b.ns_reads = a.ns_reads
      /\ b.writes = a.writes /\ b.ns_writes = Append(a.ns_writes, t)
      /\ b.multi = a.multi /\ b.accept = a.accept
  BY DEF KeptWrite, Rec
<1>3. Shape(b)
  BY <1>2, Zenon DEF Shape, KeptWrite
<1> HIDE DEF b
<1>4. Typed(b)
  BY <1>1, <1>2, <1>3 DEF Typed
<1> QED BY <1>4 DEF b

(* submit_async_read into a buffer group keeps the types of an event_action  *)
(* (Multishot).                                                              *)
LEMMA MultishotTyped ==
    ASSUME NEW a, Typed(a), NEW s \in BOOLEAN
    PROVE  Typed(Multishot(a, s))
<1> /\ a.events \in SUBSET RW /\ a.readable \in BOOLEAN /\ a.writable \in BOOLEAN
    /\ a.reads \in Seq(Reads) /\ a.ns_reads \in Seq(Reads)
    /\ a.writes \in Seq(Writes) /\ a.ns_writes \in Seq(Writes)
    /\ a.multi \in {"no", "waiting", "submitted"} /\ a.accept \in BOOLEAN
  BY DEF Typed
<1>1. a.events \cup {"R"} \in SUBSET RW /\ (IF s THEN "submitted" ELSE "waiting") \in {"no", "waiting", "submitted"}
  BY RotateType DEF RW
<1> DEFINE m == IF s THEN "submitted" ELSE "waiting"
           b == Rec(a.events \cup {"R"}, a.readable, a.writable, a.reads, a.ns_reads, a.writes, a.ns_writes, m, a.accept)
<1>5. m \in {"no", "waiting", "submitted"} /\ Multishot(a, s) = b
  BY <1>1 DEF Multishot
<1> HIDE DEF m
<1>2. /\ b.events = (a.events \cup {"R"}) /\ b.readable = a.readable /\ b.writable = a.writable
      /\ b.reads = a.reads /\ b.ns_reads = a.ns_reads
      /\ b.writes = a.writes /\ b.ns_writes = a.ns_writes
      /\ b.multi = m /\ b.accept = a.accept
  BY DEF Rec
<1>3. Shape(b)
  BY <1>2, Zenon DEF Shape
<1> HIDE DEF b
<1>4. Typed(b)
  BY <1>1, <1>5, <1>2, <1>3 DEF Typed
<1> QED BY <1>4, <1>5 DEF b

(* submit_async_accept keeps the types of an event_action (Accepting). *)
LEMMA AcceptingTyped ==
    ASSUME NEW a, Typed(a)
    PROVE  Typed(Accepting(a))
<1> /\ a.events \in SUBSET RW /\ a.readable \in BOOLEAN /\ a.writable \in BOOLEAN
    /\ a.reads \in Seq(Reads) /\ a.ns_reads \in Seq(Reads)
    /\ a.writes \in Seq(Writes) /\ a.ns_writes \in Seq(Writes)
    /\ a.multi \in {"no", "waiting", "submitted"} /\ a.accept \in BOOLEAN
  BY DEF Typed
<1>1. a.events \cup {"R"} \in SUBSET RW /\ TRUE \in BOOLEAN
  BY RotateType DEF RW
<1> DEFINE b == Accepting(a)
<1>2. /\ b.events = (a.events \cup {"R"}) /\ b.readable = a.readable /\ b.writable = a.writable
      /\ b.reads = a.reads /\ b.ns_reads = a.ns_reads
      /\ b.writes = a.writes /\ b.ns_writes = a.ns_writes
      /\ b.multi = a.multi /\ b.accept = TRUE
  BY DEF Accepting, Rec
<1>3. Shape(b)
  BY <1>2, Zenon DEF Shape, Accepting
<1> HIDE DEF b
<1>4. Typed(b)
  BY <1>1, <1>2, <1>3, Zenon DEF Typed
<1> QED BY <1>4 DEF b

(* disable_read keeps the types of an event_action (NoRead). *)
LEMMA NoReadTyped ==
    ASSUME NEW a, Typed(a)
    PROVE  Typed(NoRead(a))
<1> /\ a.events \in SUBSET RW /\ a.readable \in BOOLEAN /\ a.writable \in BOOLEAN
    /\ a.reads \in Seq(Reads) /\ a.ns_reads \in Seq(Reads)
    /\ a.writes \in Seq(Writes) /\ a.ns_writes \in Seq(Writes)
    /\ a.multi \in {"no", "waiting", "submitted"} /\ a.accept \in BOOLEAN
  BY DEF Typed
<1>1. a.events \ {"R"} \in SUBSET RW /\ <<>> \in Seq(Reads) /\ FALSE \in BOOLEAN /\ "no" \in {"no", "waiting", "submitted"}
  BY RotateType DEF RW
<1> DEFINE b == NoRead(a)
<1>2. /\ b.events = (a.events \ {"R"}) /\ b.readable = a.readable /\ b.writable = a.writable
      /\ b.reads = <<>> /\ b.ns_reads = <<>>
      /\ b.writes = a.writes /\ b.ns_writes = a.ns_writes
      /\ b.multi = "no" /\ b.accept = FALSE
  BY DEF NoRead, Rec
<1>3. Shape(b)
  BY <1>2, Zenon DEF Shape, NoRead
<1> HIDE DEF b
<1>4. Typed(b)
  BY <1>1, <1>2, <1>3, Zenon DEF Typed
<1> QED BY <1>4 DEF b

(* disable_write keeps the types of an event_action (NoWrite). *)
LEMMA NoWriteTyped ==
    ASSUME NEW a, Typed(a)
    PROVE  Typed(NoWrite(a))
<1> /\ a.events \in SUBSET RW /\ a.readable \in BOOLEAN /\ a.writable \in BOOLEAN
    /\ a.reads \in Seq(Reads) /\ a.ns_reads \in Seq(Reads)
    /\ a.writes \in Seq(Writes) /\ a.ns_writes \in Seq(Writes)
    /\ a.multi \in {"no", "waiting", "submitted"} /\ a.accept \in BOOLEAN
  BY DEF Typed
<1>1. a.events \ {"W"} \in SUBSET RW /\ <<>> \in Seq(Writes)
  BY RotateType DEF RW
<1> DEFINE b == NoWrite(a)
<1>2. /\ b.events = (a.events \ {"W"}) /\ b.readable = a.readable /\ b.writable = a.writable
      /\ b.reads = a.reads /\ b.ns_reads = a.ns_reads
      /\ b.writes = <<>> /\ b.ns_writes = <<>>
      /\ b.multi = a.multi /\ b.accept = a.accept
  BY DEF NoWrite, Rec
<1>3. Shape(b)
  BY <1>2, Zenon DEF Shape, NoWrite
<1> HIDE DEF b
<1>4. Typed(b)
  BY <1>1, <1>2, <1>3 DEF Typed
<1> QED BY <1>4 DEF b

(* is_readable_ set by a read keeps the types of an event_action (Reread). *)
LEMMA RereadTyped ==
    ASSUME NEW a, Typed(a), NEW x \in BOOLEAN
    PROVE  Typed(Reread(a, x))
<1> /\ a.events \in SUBSET RW /\ a.readable \in BOOLEAN /\ a.writable \in BOOLEAN
    /\ a.reads \in Seq(Reads) /\ a.ns_reads \in Seq(Reads)
    /\ a.writes \in Seq(Writes) /\ a.ns_writes \in Seq(Writes)
    /\ a.multi \in {"no", "waiting", "submitted"} /\ a.accept \in BOOLEAN
  BY DEF Typed
<1>1. x \in BOOLEAN
  BY RotateType DEF RW
<1> DEFINE b == Reread(a, x)
<1>2. /\ b.events = a.events /\ b.readable = x /\ b.writable = a.writable
      /\ b.reads = a.reads /\ b.ns_reads = a.ns_reads
      /\ b.writes = a.writes /\ b.ns_writes = a.ns_writes
      /\ b.multi = a.multi /\ b.accept = a.accept
  BY DEF Reread, Rec
<1>3. Shape(b)
  BY <1>2 DEF Shape, Reread
<1> HIDE DEF b
<1>4. Typed(b)
  BY <1>1, <1>2, <1>3 DEF Typed
<1> QED BY <1>4 DEF b

(* push_back of a read that found nothing keeps the types of an event_action *)
(* (ReadBack).                                                               *)
LEMMA ReadBackTyped ==
    ASSUME NEW a, Typed(a), a.reads # <<>>
    PROVE  Typed(ReadBack(a))
<1> /\ a.events \in SUBSET RW /\ a.readable \in BOOLEAN /\ a.writable \in BOOLEAN
    /\ a.reads \in Seq(Reads) /\ a.ns_reads \in Seq(Reads)
    /\ a.writes \in Seq(Writes) /\ a.ns_writes \in Seq(Writes)
    /\ a.multi \in {"no", "waiting", "submitted"} /\ a.accept \in BOOLEAN
  BY DEF Typed
<1>1. FALSE \in BOOLEAN /\ Append(Tail(a.reads), Head(a.reads)) \in Seq(Reads)
  BY RotateType DEF RW
<1> DEFINE b == ReadBack(a)
<1>2. /\ b.events = a.events /\ b.readable = FALSE /\ b.writable = a.writable
      /\ b.reads = Append(Tail(a.reads), Head(a.reads)) /\ b.ns_reads = a.ns_reads
      /\ b.writes = a.writes /\ b.ns_writes = a.ns_writes
      /\ b.multi = a.multi /\ b.accept = a.accept
  BY DEF ReadBack, Rec
<1>3. Shape(b)
  BY <1>2, Zenon DEF Shape, ReadBack
<1> HIDE DEF b
<1>4. Typed(b)
  BY <1>1, <1>2, <1>3, Zenon DEF Typed
<1> QED BY <1>4 DEF b

(* push_back of a write that found no room keeps the types of an             *)
(* event_action (WriteBack).                                                 *)
LEMMA WriteBackTyped ==
    ASSUME NEW a, Typed(a), a.writes # <<>>
    PROVE  Typed(WriteBack(a))
<1> /\ a.events \in SUBSET RW /\ a.readable \in BOOLEAN /\ a.writable \in BOOLEAN
    /\ a.reads \in Seq(Reads) /\ a.ns_reads \in Seq(Reads)
    /\ a.writes \in Seq(Writes) /\ a.ns_writes \in Seq(Writes)
    /\ a.multi \in {"no", "waiting", "submitted"} /\ a.accept \in BOOLEAN
  BY DEF Typed
<1>1. FALSE \in BOOLEAN /\ Append(Tail(a.writes), Head(a.writes)) \in Seq(Writes)
  BY RotateType DEF RW
<1> DEFINE b == WriteBack(a)
<1>2. /\ b.events = a.events /\ b.readable = a.readable /\ b.writable = FALSE
      /\ b.reads = a.reads /\ b.ns_reads = a.ns_reads
      /\ b.writes = Append(Tail(a.writes), Head(a.writes)) /\ b.ns_writes = a.ns_writes
      /\ b.multi = a.multi /\ b.accept = a.accept
  BY DEF WriteBack, Rec
<1>3. Shape(b)
  BY <1>2, Zenon DEF Shape, WriteBack
<1> HIDE DEF b
<1>4. Typed(b)
  BY <1>1, <1>2, <1>3, Zenon DEF Typed
<1> QED BY <1>4 DEF b

(* pop_front of a read keeps the types of an event_action (ReadOver). *)
LEMMA ReadOverTyped ==
    ASSUME NEW a, Typed(a), a.reads # <<>>
    PROVE  Typed(ReadOver(a))
<1> /\ a.events \in SUBSET RW /\ a.readable \in BOOLEAN /\ a.writable \in BOOLEAN
    /\ a.reads \in Seq(Reads) /\ a.ns_reads \in Seq(Reads)
    /\ a.writes \in Seq(Writes) /\ a.ns_writes \in Seq(Writes)
    /\ a.multi \in {"no", "waiting", "submitted"} /\ a.accept \in BOOLEAN
  BY DEF Typed
<1>1. Tail(a.reads) \in Seq(Reads)
  BY RotateType DEF RW
<1> DEFINE b == ReadOver(a)
<1>2. /\ b.events = a.events /\ b.readable = a.readable /\ b.writable = a.writable
      /\ b.reads = Tail(a.reads) /\ b.ns_reads = a.ns_reads
      /\ b.writes = a.writes /\ b.ns_writes = a.ns_writes
      /\ b.multi = a.multi /\ b.accept = a.accept
  BY DEF ReadOver, Rec
<1>3. Shape(b)
  BY <1>2, Zenon DEF Shape, ReadOver
<1> HIDE DEF b
<1>4. Typed(b)
  BY <1>1, <1>2, <1>3 DEF Typed
<1> QED BY <1>4 DEF b

(* pop_front of a write keeps the types of an event_action (WriteOver). *)
LEMMA WriteOverTyped ==
    ASSUME NEW a, Typed(a), a.writes # <<>>
    PROVE  Typed(WriteOver(a))
<1> /\ a.events \in SUBSET RW /\ a.readable \in BOOLEAN /\ a.writable \in BOOLEAN
    /\ a.reads \in Seq(Reads) /\ a.ns_reads \in Seq(Reads)
    /\ a.writes \in Seq(Writes) /\ a.ns_writes \in Seq(Writes)
    /\ a.multi \in {"no", "waiting", "submitted"} /\ a.accept \in BOOLEAN
  BY DEF Typed
<1>1. Tail(a.writes) \in Seq(Writes)
  BY RotateType DEF RW
<1> DEFINE b == WriteOver(a)
<1>2. /\ b.events = a.events /\ b.readable = a.readable /\ b.writable = a.writable
      /\ b.reads = a.reads /\ b.ns_reads = a.ns_reads
      /\ b.writes = Tail(a.writes) /\ b.ns_writes = a.ns_writes
      /\ b.multi = a.multi /\ b.accept = a.accept
  BY DEF WriteOver, Rec
<1>3. Shape(b)
  BY <1>2, Zenon DEF Shape, WriteOver
<1> HIDE DEF b
<1>4. Typed(b)
  BY <1>1, <1>2, <1>3 DEF Typed
<1> QED BY <1>4 DEF b

(* set_ready_events keeps the types of an event_action (Flagged). *)
LEMMA FlaggedTyped ==
    ASSUME NEW a, Typed(a), NEW x \in BOOLEAN, NEW y \in BOOLEAN
    PROVE  Typed(Flagged(a, x, y))
<1> /\ a.events \in SUBSET RW /\ a.readable \in BOOLEAN /\ a.writable \in BOOLEAN
    /\ a.reads \in Seq(Reads) /\ a.ns_reads \in Seq(Reads)
    /\ a.writes \in Seq(Writes) /\ a.ns_writes \in Seq(Writes)
    /\ a.multi \in {"no", "waiting", "submitted"} /\ a.accept \in BOOLEAN
  BY DEF Typed
<1>1. (a.readable \/ x) \in BOOLEAN /\ (a.writable \/ y) \in BOOLEAN
  BY RotateType DEF RW
<1> DEFINE b == Flagged(a, x, y)
<1>2. /\ b.events = a.events /\ b.readable = ((a.readable \/ x)) /\ b.writable = ((a.writable \/ y))
      /\ b.reads = a.reads /\ b.ns_reads = a.ns_reads
      /\ b.writes = a.writes /\ b.ns_writes = a.ns_writes
      /\ b.multi = a.multi /\ b.accept = a.accept
  BY Zenon DEF Flagged, Rec
<1>3. Shape(b)
  BY <1>2, Zenon DEF Shape, Flagged
<1> HIDE DEF b
<1>4. Typed(b)
  BY <1>1, <1>2, <1>3 DEF Typed
<1> QED BY <1>4 DEF b

(* submit() keeps the types of an event_action (Submitted). *)
LEMMA SubmittedTyped ==
    ASSUME NEW a, Typed(a)
    PROVE  Typed(Submitted(a))
<1> /\ a.events \in SUBSET RW /\ a.readable \in BOOLEAN /\ a.writable \in BOOLEAN
    /\ a.reads \in Seq(Reads) /\ a.ns_reads \in Seq(Reads)
    /\ a.writes \in Seq(Writes) /\ a.ns_writes \in Seq(Writes)
    /\ a.multi \in {"no", "waiting", "submitted"} /\ a.accept \in BOOLEAN
  BY DEF Typed
<1>1. a.reads \o a.ns_reads \in Seq(Reads) /\ a.writes \o a.ns_writes \in Seq(Writes) /\ <<>> \in Seq(Reads) /\ <<>> \in Seq(Writes)
      /\ (IF a.multi = "no" THEN "no" ELSE "submitted") \in {"no", "waiting", "submitted"}
  BY RotateType DEF RW
<1> DEFINE m == IF a.multi = "no" THEN "no" ELSE "submitted"
           b == Rec(a.events, a.readable, a.writable, a.reads \o a.ns_reads, <<>>, a.writes \o a.ns_writes, <<>>, m, a.accept)
<1>5. m \in {"no", "waiting", "submitted"} /\ Submitted(a) = b
  BY <1>1 DEF Submitted
<1> HIDE DEF m
<1>2. /\ b.events = a.events /\ b.readable = a.readable /\ b.writable = a.writable
      /\ b.reads = (a.reads \o a.ns_reads) /\ b.ns_reads = <<>>
      /\ b.writes = (a.writes \o a.ns_writes) /\ b.ns_writes = <<>>
      /\ b.multi = m /\ b.accept = a.accept
  BY Zenon DEF Rec
<1>3. Shape(b)
  BY <1>2, Zenon DEF Shape
<1> HIDE DEF b
<1>4. Typed(b)
  BY <1>1, <1>5, <1>2, <1>3 DEF Typed
<1> QED BY <1>4, <1>5 DEF b

(* unregister_ring_buffer keeps the types of an event_action (Ungrouped). *)
LEMMA UngroupedTyped ==
    ASSUME NEW a, Typed(a)
    PROVE  Typed(Ungrouped(a))
<1> /\ a.events \in SUBSET RW /\ a.readable \in BOOLEAN /\ a.writable \in BOOLEAN
    /\ a.reads \in Seq(Reads) /\ a.ns_reads \in Seq(Reads)
    /\ a.writes \in Seq(Writes) /\ a.ns_writes \in Seq(Writes)
    /\ a.multi \in {"no", "waiting", "submitted"} /\ a.accept \in BOOLEAN
  BY DEF Typed
<1>1. "no" \in {"no", "waiting", "submitted"}
  BY RotateType DEF RW
<1> DEFINE b == Ungrouped(a)
<1>2. /\ b.events = a.events /\ b.readable = a.readable /\ b.writable = a.writable
      /\ b.reads = a.reads /\ b.ns_reads = a.ns_reads
      /\ b.writes = a.writes /\ b.ns_writes = a.ns_writes
      /\ b.multi = "no" /\ b.accept = a.accept
  BY DEF Ungrouped, Rec
<1>3. Shape(b)
  BY <1>2, Zenon DEF Shape, Ungrouped
<1> HIDE DEF b
<1>4. Typed(b)
  BY <1>1, <1>2, <1>3 DEF Typed
<1> QED BY <1>4 DEF b

(* Every event_action is typed *)
ActionTypes == ea = [f \in Fds |-> ea[f]] /\ \A f \in Fds : Typed(ea[f])

(* Typed event_actions are records with deques of tasks. *)
LEMMA TypesShape == ASSUME ActionTypes PROVE Shapes /\ Deques
BY DEF ActionTypes, Shapes, Deques, Typed

(* If one event_action changes to a typed one, all stay typed. *)
LEMMA SetsTyped ==
    ASSUME ActionTypes, NEW f, NEW b, Sets(f, b), Typed(b)
    PROVE  ActionTypes'
<1>1. \A g \in Fds : ea'[g] = ea[g] \/ ea'[g] = b
  BY DEF Sets
<1>2. ea' = [g \in Fds |-> ea'[g]]
  BY DEF Sets
<1>3. ASSUME NEW g \in Fds PROVE Typed(ea'[g])
  BY <1>1 DEF ActionTypes
<1> QED BY <1>2, <1>3 DEF ActionTypes, Typed, Shape

(* A new event_action is typed. *)
LEMMA NewActionTyped == \A f : Typed(NewAction(f))
<1> TAKE f
<1> DEFINE b == NewAction(f)
<1>1. /\ b.events = {} /\ b.readable \in BOOLEAN /\ b.writable \in BOOLEAN /\ b.reads = <<>>
      /\ b.ns_reads = <<>> /\ b.writes = <<>> /\ b.ns_writes = <<>> /\ b.multi = "no" /\ b.accept = FALSE
  BY DEF NewAction
<1>2. Shape(b)
  BY <1>1, Zenon DEF Shape, Rec, NewAction
<1> HIDE DEF b
<1>4. <<>> \in Seq(Reads) /\ <<>> \in Seq(Writes) /\ {} \in SUBSET RW /\ FALSE \in BOOLEAN
  OBVIOUS
<1>3. Typed(b)
  BY <1>1, <1>2, <1>4, Zenon DEF Typed
<1> QED BY <1>3 DEF b

(* Unchanged event_actions stay typed. *)
LEMMA SameTyped == ASSUME ActionTypes, ea' = ea PROVE ActionTypes'
BY DEF ActionTypes, Typed, Shape

(* handle_events keeps the event_actions typed. *)
LEMMA InsideTyped ==
    ASSUME ActionTypes, Inside, Place
    PROVE  ActionTypes'
<1>1. act \in Fds /\ Shapes
  BY InsideKeeps, TypesShape
<1>2. Typed(ea[act])
  BY <1>1 DEF ActionTypes
<1>3. CASE PopRead /\ Sets(act, ReadOver(ea[act]))
  <2>1. ea[act].reads # <<>>
    BY <1>3 DEF PopRead
  <2> QED BY <1>2, <1>3, <2>1, ReadOverTyped, SetsTyped
<1>4. CASE PopWrite /\ Sets(act, WriteOver(ea[act]))
  <2>1. ea[act].writes # <<>>
    BY <1>4 DEF PopWrite
  <2> QED BY <1>2, <1>4, <2>1, WriteOverTyped, SetsTyped
<1>5. ASSUME NEW x \in BOOLEAN \cup {ea[act].readable}, Sets(act, Reread(ea[act], x))
      PROVE  ActionTypes'
  <2>1. x \in BOOLEAN
    BY <1>2 DEF Typed
  <2> QED BY <1>2, <1>5, <2>1, RereadTyped, SetsTyped
<1> QED BY <1>1, <1>2, <1>3, <1>4, <1>5, InsideSets, SameTyped, ReadBackTyped, WriteBackTyped, SetsTyped

(* What user code calls keeps the event_actions typed. *)
LEMMA UserTyped ==
    ASSUME ActionTypes, UserStep
    PROVE  ActionTypes'
<1>1. \A f \in Fds : Typed(ea[f])
  BY DEF ActionTypes
<1>2. UserSets
  BY TypesShape, UserCases
<1>3. ASSUME NEW f \in Fds, NEW t \in Reads, Sets(f, AddedRead(ea[f], t)) \/ Sets(f, KeptRead(ea[f], t))
      PROVE  ActionTypes'
  BY <1>1, <1>3, AddedReadTyped, KeptReadTyped, SetsTyped
<1>4. ASSUME NEW f \in Fds, NEW t \in Writes, Sets(f, AddedWrite(ea[f], t)) \/ Sets(f, KeptWrite(ea[f], t))
      PROVE  ActionTypes'
  BY <1>1, <1>4, AddedWriteTyped, KeptWriteTyped, SetsTyped
<1>5. ASSUME NEW f \in Fds, NEW s \in BOOLEAN, Sets(f, Multishot(ea[f], s)) PROVE ActionTypes'
  BY <1>1, <1>5, MultishotTyped, SetsTyped
<1>6. ASSUME NEW f \in Fds, Sets(f, Accepting(ea[f])) \/ Sets(f, NoRead(ea[f])) \/ Sets(f, NoWrite(ea[f]))
      PROVE  ActionTypes'
  BY <1>1, <1>6, AcceptingTyped, NoReadTyped, NoWriteTyped, SetsTyped
<1>7. CASE ea' = [f \in Fds |-> IF f \notin non_submit_events THEN ea[f] ELSE Submitted(ea[f])]
  <2>1. \A f \in Fds : Typed(ea'[f])
    BY <1>1, <1>7, SubmittedTyped
  <2>2. ea' = [f \in Fds |-> ea'[f]]
    BY <1>7
  <2> QED BY <2>1, <2>2 DEF ActionTypes, Typed, Shape
<1>8. CASE ea' = [f \in Fds |-> Ungrouped(ea[f])]
  <2>1. \A f \in Fds : Typed(ea'[f])
    BY <1>1, <1>8, UngroupedTyped
  <2>2. ea' = [f \in Fds |-> ea'[f]]
    BY <1>8
  <2> QED BY <2>1, <2>2 DEF ActionTypes, Typed, Shape
<1> QED BY <1>2, <1>3, <1>4, <1>5, <1>6, <1>7, <1>8, SameTyped, Zenon DEF UserSets

(* Every step keeps the event_actions typed. *)
LEMMA StepActionTypes ==
    ASSUME ActionTypes, Place, Reported, [Next]_vars
    PROVE  ActionTypes'
<1>1. CASE ApplyChanges
  <2> DEFINE gone == {f \in changes : ea[f].events = {}}
  <2>1. ea' = [f \in Fds |-> IF f \in gone THEN NewAction(f) ELSE ea[f]]
    BY <1>1 DEF ApplyChanges
  <2> HIDE DEF gone
  <2>2. \A f \in Fds : Typed(ea'[f])
    BY <2>1, NewActionTyped DEF ActionTypes
  <2>3. ea' = [f \in Fds |-> ea'[f]]
    BY <2>1
  <2> QED BY <2>2, <2>3 DEF ActionTypes, Typed, Shape
<1>2. CASE NextReported
  <2>1. ASSUME NEW r \in reported, Sets(r.fd, Flagged(ea[r.fd], "R" \in r.mask, "W" \in r.mask))
        PROVE  ActionTypes'
    <3>1. Typed(ea[r.fd])
      BY DEF ActionTypes, Reported
    <3>2. ("R" \in r.mask) \in BOOLEAN /\ ("W" \in r.mask) \in BOOLEAN
      OBVIOUS
    <3>3. Typed(Flagged(ea[r.fd], "R" \in r.mask, "W" \in r.mask))
      BY <3>1, <3>2, FlaggedTyped, Zenon
    <3> QED BY <2>1, <3>3, SetsTyped
  <2> QED BY <1>2, <2>1, TypesShape, ReportedSets, SameTyped, Zenon
<1>3. CASE KernelStep \/ Wait \/ WaitInterrupted \/ NextReady \/ Handled \/ UNCHANGED vars
  BY <1>3, KernelKeeps, SameTyped DEF Wait, WaitInterrupted, NextReady, Handled, submitVars, vars
<1> QED BY <1>1, <1>2, <1>3, DispatchCases, InsideTyped, UserTyped

(* The descriptors, what epfd_ watches, and the books of the backend *)
Books ==
    /\ kern \in [Fds -> SUBSET RW] /\ edge \subseteq Fds
    /\ ei \in [Fds -> [present : BOOLEAN, events : SUBSET RW, in_epoll : BOOLEAN]]
    /\ changes \subseteq Fds /\ non_submit_events \subseteq Fds /\ group \in BOOLEAN
    /\ closes \in 0..MaxCloses

(* The descriptors, with their bounds *)
Sockets == sk \in [Fds -> [open : BOOLEAN, rx : 0..MaxRx, fin : BOOLEAN, space : 0..Space]]

(* Every step leaves dispatch at one of its places, with a descriptor to     *)
(* work on.                                                                  *)
LEMMA StepPlace ==
    ASSUME Place, Queue, Reported, ActionTypes, non_submit_events \subseteq Fds, [Next]_vars
    PROVE  Place'
<1>1. CASE Inside
  BY <1>1, InsideKeeps, TypesShape
<1>2. CASE UserStep
  BY <1>2, UserGrows DEF Place, At, dispatchVars, callVars
<1>3. CASE KernelStep
  BY <1>3, KernelKeeps DEF Place, At, dispatchVars, callVars
<1>4. CASE NextReported
  <2>1. /\ UNCHANGED <<after, n>>
        /\ \/ pc' = "ready" /\ UNCHANGED <<act, trig>>
           \/ pc' = "handle" /\ act' \in Fds /\ trig' = TRUE
    BY <1>4, Zenon DEF NextReported, Reported
  <2> QED BY <2>1, Zenon DEF Place, At, Busy
<1>5. CASE NextReady
  <2>1. ready_cnt > 0 => Head(ready_events) \in Fds \cup {None}
    BY DEF Queue
  <2> QED BY <1>5, <2>1, Zenon DEF NextReady, Place, At, Busy
<1>6. CASE ApplyChanges \/ Wait \/ WaitInterrupted \/ Handled \/ UNCHANGED vars
  BY <1>6 DEF ApplyChanges, Wait, WaitInterrupted, Handled, Place, At, Busy, dispatchVars, callVars, vars
<1> QED BY <1>1, <1>2, <1>3, <1>4, <1>5, <1>6, DispatchCases

(* Every step keeps ready_cnt within ready_events_, whose first entry        *)
(* do_ready_tasks is at.                                                     *)
LEMMA StepQueue ==
    ASSUME Place, Queue, Reported, ActionTypes, non_submit_events \subseteq Fds, [Next]_vars
    PROVE  Queue'
<1>0. /\ ready_events \in Seq(Fds \cup {None}) /\ ready_cnt \in Nat /\ ready_cnt <= Len(ready_events)
      /\ Len(ready_events) \in Nat
  BY DEF Queue
<1>1. CASE Inside
  <2>1. UNCHANGED <<ready_events, ready_cnt, trig, act>> /\ pc \in Busy
    BY <1>1, InsideKeeps, TypesShape
  <2> QED BY <2>1 DEF Queue
<1>2. CASE UserStep
  <2>1. UNCHANGED <<ready_cnt, pc, trig, act>> /\ Longer(ready_events, ready_events')
    BY <1>2, UserGrows DEF dispatchVars, callVars
  <2>2. ready_events' \in Seq(Fds \cup {None}) /\ Len(ready_events) <= Len(ready_events') /\ Len(ready_events') \in Nat
    BY <2>1 DEF Longer
  <2>3. ready_cnt > 0 => Head(ready_events') = Head(ready_events)
    BY <1>0, <2>1, <2>2 DEF Longer
  <2> QED BY <1>0, <2>1, <2>2, <2>3 DEF Queue
<1>3. CASE KernelStep
  BY <1>3, KernelKeeps DEF Queue, submitVars, dispatchVars, callVars
<1>4. CASE NextReported
  <2>1. /\ ready_events' = ready_events
        /\ \/ pc' = "handle" /\ trig' = TRUE /\ ready_cnt' = ready_cnt
           \/ pc' = "ready" /\ ready_cnt' = Len(ready_events)
    BY <1>4, Zenon DEF NextReported
  <2>2. ready_cnt' \in Nat /\ ready_cnt' <= Len(ready_events')
    BY <1>0, <2>1
  <2>3. ~(pc' \in Busy /\ ~trig')
    BY <2>1 DEF Busy
  <2> QED BY <1>0, <2>1, <2>2, <2>3 DEF Queue
<1>5. CASE NextReady
  <2>1. UNCHANGED <<ready_events, ready_cnt>>
    BY <1>5 DEF NextReady, submitVars
  <2>2. \/ ready_cnt > 0 /\ act' = Head(ready_events)
        \/ pc' = "user"
    BY <1>5 DEF NextReady
  <2> QED BY <1>0, <2>1, <2>2 DEF Queue, Busy
<1>6. CASE ApplyChanges
  <2> DEFINE gone == {f \in changes : ea[f].events = {}}
             S == Fds \cup {None}
  <2>1. /\ ready_events' = [i \in DOMAIN ready_events |-> IF ready_events[i] \in gone THEN None ELSE ready_events[i]]
        /\ pc' = "wait" /\ ready_cnt' = ready_cnt
    BY <1>6 DEF ApplyChanges, dispatchVars
  <2>2. None \in S /\ ready_events \in Seq(S)
    BY <1>0
  <2> HIDE DEF gone, S
  <2>3. ready_events' \in Seq(S) /\ Len(ready_events') = Len(ready_events)
    BY <2>1, <2>2
  <2> QED BY <1>0, <2>1, <2>3 DEF Queue, S, Busy
<1>7. CASE Handled
  <2>1. CASE trig
    BY <1>7, <2>1 DEF Handled, Queue, Busy, callVars
  <2>2. CASE ~trig
    <3>1. ready_cnt > 0
      BY <1>7, <2>2 DEF Handled, Queue, Busy
    <3>2. ready_events' = Tail(ready_events) /\ ready_cnt' = ready_cnt - 1 /\ pc' = "ready"
      BY <1>7, <2>2 DEF Handled
    <3>3. ready_events # <<>>
      BY <1>0, <3>1
    <3>4. Tail(ready_events) \in Seq(Fds \cup {None}) /\ Len(Tail(ready_events)) = Len(ready_events) - 1
      BY <1>0, <3>3
    <3> QED BY <1>0, <3>1, <3>2, <3>4 DEF Queue, Busy
  <2> QED BY <2>1, <2>2
<1>8. CASE Wait \/ WaitInterrupted \/ UNCHANGED vars
  BY <1>8 DEF Wait, WaitInterrupted, Queue, Busy, submitVars, dispatchVars, callVars, vars
<1> QED BY <1>1, <1>2, <1>3, <1>4, <1>5, <1>6, <1>7, <1>8, DispatchCases

(* What epoll_wait returned is kept while dispatch goes through it, and only *)
(* then.                                                                     *)
LEMMA StepReported ==
    ASSUME Place, Queue, Reported, ActionTypes, Books, [Next]_vars
    PROVE  Reported'
<1>1. CASE Inside
  <2>1. UNCHANGED <<reported, trig>> /\ pc \in Busy /\ pc' \in Busy \cup {"undef"}
    BY <1>1, InsideKeeps, TypesShape
  <2> QED BY <2>1 DEF Reported, Busy
<1>2. CASE UserStep
  BY <1>2, UserGrows DEF Reported, dispatchVars, callVars, Books
<1>3. CASE KernelStep
  BY <1>3, KernelKeeps DEF Reported, dispatchVars, callVars
<1>4. CASE NextReported
  BY <1>4, Zenon DEF NextReported, Reported, Busy
<1>5. CASE Wait
  <2>1. pc' = "events"
    BY <1>5 DEF Wait
  <2>2. ASSUME NEW r \in reported' PROVE r.fd \in Fds /\ r.mask \in (SUBSET RW) \ {{}}
    <3>1. PICK f \in edge : kern[f] \cap ReadyNow(f) # {} /\ r = [fd |-> f, mask |-> kern[f] \cap ReadyNow(f)]
      BY <1>5, <2>2 DEF Wait
    <3>2. kern[f] \cap ReadyNow(f) \in SUBSET RW /\ f \in Fds
      BY DEF Books
    <3>3. r.fd = f /\ r.mask = kern[f] \cap ReadyNow(f)
      BY <3>1
    <3> QED BY <3>1, <3>2, <3>3
  <2> QED BY <2>1, <2>2 DEF Reported
<1>6. CASE NextReady \/ ApplyChanges \/ WaitInterrupted \/ Handled \/ UNCHANGED vars
  BY <1>6 DEF NextReady, ApplyChanges, WaitInterrupted, Handled, Reported, Busy, dispatchVars, callVars, vars
<1> QED BY <1>1, <1>2, <1>3, <1>4, <1>5, <1>6, DispatchCases

(* The room in the buffers of a task, in units. *)
LEMMA CapValue == \A t : Cap(t) \in {0, 1, 2} /\ (t \notin Detect => Cap(t) > 0)
BY DEF Cap

(* A new descriptor, field by field. *)
LEMMA FreshOpen ==
    ASSUME NEW x, NEW b, b = [Fresh EXCEPT !.open = x]
    PROVE  b = [open |-> x, rx |-> 0, fin |-> FALSE, space |-> Space]
<1> DEFINE a == Fresh
<1>1. a = [open |-> TRUE, rx |-> 0, fin |-> FALSE, space |-> Space] /\ b = [a EXCEPT !.open = x]
  BY DEF Fresh
<1> HIDE DEF a
<1> QED BY <1>1, Zenon

(* The fields of a descriptor, by type. *)
LEMMA SocketFields ==
    ASSUME Sockets, NEW f \in Fds
    PROVE  sk[f].open \in BOOLEAN /\ sk[f].rx \in 0..MaxRx /\ sk[f].fin \in BOOLEAN /\ sk[f].space \in 0..Space
BY DEF Sockets

(* handle_events takes from the kernel what is there, or gives it no more    *)
(* than there is room for.                                                   *)
InsideSk ==
    \/ sk' = sk
    \/ \E x \in 0..sk[act].rx : sk' = [sk EXCEPT ![act].rx = x]
    \/ \E x \in 0..sk[act].space : sk' = [sk EXCEPT ![act].space = x]

(* A read takes no more from the kernel than is there. *)
LEMMA TakeSk ==
    ASSUME Sockets, act \in Fds, NEW k \in 0..sk[act].rx, sk' = [sk EXCEPT ![act].rx = @ - k]
    PROVE  InsideSk
<1>1. sk[act].rx - k \in 0..sk[act].rx
  BY SocketFields, BoundAssumption
<1>2. sk' = [sk EXCEPT ![act].rx = sk[act].rx - k]
  OBVIOUS
<1> QED BY <1>1, <1>2, Zenon DEF InsideSk

(* handle_events changes the descriptors only in the ways of InsideSk. *)
LEMMA InsideSockets ==
    ASSUME Sockets, Place, ActionTypes, Inside
    PROVE  InsideSk
<1>1. act \in Fds
  BY InsideKeeps, TypesShape
<1>2. sk[act].rx \in Nat /\ sk[act].space \in Nat
  BY <1>1, SocketFields, BoundAssumption
<1>3. ASSUME NEW t PROVE Cap(t) \in Nat /\ (t \notin Detect => Cap(t) - 1 \in Nat)
  BY CapValue
<1>4. CASE DoReadTask
  <2> DEFINE t == Head(ea[act].reads)
  <2>1. \/ sk' = sk
        \/ t \notin Detect /\ (ReadTcp(t) \/ ReadUdp(t) \/ ReadEvent(t))
    BY <1>4 DEF DoReadTask, ReadFile
  <2> HIDE DEF t
  <2>2. ASSUME t \notin Detect, ReadTcp(t) PROVE InsideSk
    <3>1. \/ sk' = sk
          \/ \E k \in 0..sk[act].rx : sk' = [sk EXCEPT ![act].rx = @ - k]
      BY <1>2, <1>3, <2>2 DEF ReadTcp, Min2, Take
    <3> QED BY <1>1, <3>1, TakeSk DEF InsideSk
  <2>3. ASSUME t \notin Detect, ReadUdp(t) PROVE InsideSk
    <3>1. \/ sk' = sk
          \/ \E k \in 0..sk[act].rx : sk' = [sk EXCEPT ![act].rx = @ - k]
      BY <1>2, <1>3, <2>3 DEF ReadUdp, Min2, Take
    <3> QED BY <1>1, <3>1, TakeSk DEF InsideSk
  <2>4. ASSUME ReadEvent(t) PROVE InsideSk
    <3>1. sk[act].rx \in 0..sk[act].rx /\ sk' = [sk EXCEPT ![act].rx = @ - sk[act].rx]
      BY <1>2, <2>4 DEF ReadEvent, Take
    <3> QED BY <1>1, <3>1, TakeSk, Zenon
  <2> QED BY <2>1, <2>2, <2>3, <2>4 DEF InsideSk
<1>5. CASE DoMultishot
  <2>1. \/ sk' = sk
        \/ \E k \in 0..sk[act].rx : sk' = [sk EXCEPT ![act].rx = @ - k]
    BY <1>2, <1>5 DEF DoMultishot, MultishotTcp, MultishotUdp, Take
  <2> QED BY <1>1, <2>1, TakeSk DEF InsideSk
<1>6. CASE DoAccept
  <2>1. \/ sk' = sk
        \/ \E k \in 0..sk[act].rx : sk' = [sk EXCEPT ![act].rx = @ - k]
    BY <1>2, <1>6 DEF DoAccept, Take
  <2> QED BY <1>1, <2>1, TakeSk DEF InsideSk
<1>7. CASE DoWriteTask
  <2> DEFINE t == Head(ea[act].writes)
             room == sk[act].space
  <2>1. \/ sk' = sk
        \/ \E k \in 0..room : sk' = [sk EXCEPT ![act].space = IF act \in FileFds THEN @ ELSE @ - k]
    <3>1. ASSUME Cap(t) > 0, NEW k \in 0..Min2(room, Cap(t) - 1) PROVE k \in 0..room
      BY <1>2, <1>3, <3>1 DEF Min2
    <3>2. Min2(Cap(t), room) \in 0..room
      BY <1>2, <1>3 DEF Min2
    <3> QED BY <1>7, <3>1, <3>2 DEF DoWriteTask
  <2>2. ASSUME NEW k \in 0..room, sk' = [sk EXCEPT ![act].space = IF act \in FileFds THEN @ ELSE @ - k]
        PROVE  InsideSk
    <3> DEFINE x == IF act \in FileFds THEN room ELSE room - k
    <3>1. x \in 0..room
      BY <1>2
    <3>2. sk' = [sk EXCEPT ![act].space = x]
      BY <2>2
    <3> QED BY <3>1, <3>2, Zenon DEF InsideSk
  <2> QED BY <2>1, <2>2 DEF InsideSk
<1>8. CASE ~(DoReadTask \/ DoMultishot \/ DoAccept \/ DoWriteTask)
  <2>1. sk' = sk
    BY <1>8 DEF Inside, HandleEvents, NextDatagram, PopRead, ReadsDone, MultishotAgain, WritesBegin, PopWrite,
       WritesDone, CallbackReturns, Undefined, kernelVars
  <2> QED BY <2>1 DEF InsideSk
<1> QED BY <1>4, <1>5, <1>6, <1>7, <1>8

(* Every step keeps what waits in the kernel, and its room, within their     *)
(* bounds.                                                                   *)
LEMMA StepSockets ==
    ASSUME Sockets, Place, ActionTypes, [Next]_vars
    PROVE  Sockets'
<1>1. ASSUME NEW f \in Fds, NEW x \in 0..MaxRx, sk' = [sk EXCEPT ![f].rx = x] PROVE Sockets'
  BY <1>1 DEF Sockets
<1>2. ASSUME NEW f \in Fds, NEW x \in 0..Space, sk' = [sk EXCEPT ![f].space = x] PROVE Sockets'
  BY <1>2 DEF Sockets
<1>3. CASE Inside
  <2>1. act \in Fds
    BY <1>3, InsideKeeps, TypesShape
  <2>2. sk[act].rx \in 0..MaxRx /\ sk[act].space \in 0..Space
    BY <2>1, SocketFields
  <2>3. 0..sk[act].rx \subseteq 0..MaxRx /\ 0..sk[act].space \subseteq 0..Space
    BY <2>2, BoundAssumption
  <2>4. CASE sk' = sk
    BY <2>4 DEF Sockets
  <2> QED BY <1>1, <1>2, <1>3, <2>1, <2>3, <2>4, InsideSockets DEF InsideSk
<1>4. CASE KernelStep
  <2>1. PICK f \in Fds : Kernel(f)
    BY <1>4 DEF KernelStep
  <2>2. sk[f].rx \in 0..MaxRx /\ sk[f].space \in 0..Space
    BY SocketFields
  <2>3. CASE Arrive(f)
    <3>1. sk' = [sk EXCEPT ![f].rx = sk[f].rx + 1] /\ sk[f].rx + 1 \in 0..MaxRx
      BY <2>2, <2>3, BoundAssumption DEF Arrive
    <3> QED BY <1>1, <3>1, Zenon
  <2>4. CASE PeerCloses(f)
    BY <2>4, Zenon DEF PeerCloses, Sockets
  <2>5. CASE Drain(f)
    <3>1. sk' = [sk EXCEPT ![f].space = sk[f].space + 1] /\ sk[f].space + 1 \in 0..Space
      BY <2>2, <2>5, BoundAssumption DEF Drain
    <3> QED BY <1>2, <3>1, Zenon
  <2> QED BY <2>1, <2>3, <2>4, <2>5 DEF Kernel
<1>5. CASE UserStep
  <2>1. ASSUME NEW f \in Fds, CloseFd(f) PROVE Sockets'
    <3>1. [Fresh EXCEPT !.open = FALSE] = [open |-> FALSE, rx |-> 0, fin |-> FALSE, space |-> Space]
      BY FreshOpen, Zenon
    <3>2. sk' = [sk EXCEPT ![f] = [open |-> FALSE, rx |-> 0, fin |-> FALSE, space |-> Space]]
      BY <2>1, <3>1, Zenon DEF CloseFd
    <3>3. 0 \in 0..MaxRx /\ Space \in 0..Space
      BY BoundAssumption
    <3> QED BY <3>2, <3>3 DEF Sockets
  <2>2. ASSUME NEW f \in Fds, ReopenFd(f) PROVE Sockets'
    BY <2>2, Zenon DEF ReopenFd, Sockets
  <2>3. CASE sk' = sk
    BY <2>3 DEF Sockets
  <2>4. sk' = sk \/ \E f \in Fds : CloseFd(f) \/ ReopenFd(f)
    BY <1>5, Zenon DEF UserStep, User, SubmitRead, SubmitWrite, SubmitMultishot, SubmitAccept, CancelRead, CancelAccept,
                CancelWrite, Submit, RegisterRingBuffer, UnregisterRingBuffer, kernelVars
  <2> QED BY <2>1, <2>2, <2>3, <2>4
<1>6. CASE ApplyChanges \/ Wait \/ WaitInterrupted \/ NextReported \/ NextReady \/ Handled \/ UNCHANGED vars
  <2>1. sk' = sk
    BY <1>6 DEF ApplyChanges, Wait, WaitInterrupted, NextReported, NextReady, Handled, kernelVars, vars
  <2> QED BY <2>1 DEF Sockets
<1> QED BY <1>3, <1>4, <1>5, <1>6, DispatchCases

(* submit_async_... keeps the types of event_info and of the change list. *)
LEMMA RegisterBooks ==
    ASSUME Books, NEW f \in Fds, NEW e \in RW, Register(f, e)
    PROVE  /\ ei' \in [Fds -> [present : BOOLEAN, events : SUBSET RW, in_epoll : BOOLEAN]]
           /\ changes' \subseteq Fds
<1> DEFINE a == ei[f]
           b == ei'[f]
           ev == IF f \in FileFds THEN a.events ELSE a.events \cup {e}
           T == [present : BOOLEAN, events : SUBSET RW, in_epoll : BOOLEAN]
<1>1. a \in T /\ ev \in SUBSET RW /\ ei \in [Fds -> T]
  BY DEF Books
<1>2. b = [a EXCEPT !.present = TRUE, !.events = ev] /\ ei' = [ei EXCEPT ![f] = b]
  BY <1>1, Zenon DEF Register
<1> HIDE DEF a, b, ev
<1>3. b \in T
  BY <1>1, <1>2, Zenon
<1> HIDE DEF T
<1>4. ei' \in [Fds -> T]
  BY <1>1, <1>2, <1>3
<1>5. changes' \subseteq Fds
  BY DEF Register, Books
<1> QED BY <1>4, <1>5 DEF T

(* Every step keeps the types of the backend's books. *)
LEMMA StepBooks ==
    ASSUME Books, Sockets, Place, ActionTypes, [Next]_vars
    PROVE  Books'
<1>1. CASE Inside
  <2>1. UNCHANGED <<kern, edge, ei, changes, non_submit_events, group, closes>>
    BY <1>1, InsideKeeps, TypesShape
  <2> QED BY <2>1 DEF Books
<1>2. CASE KernelStep
  <2>1. edge' \subseteq Fds
    BY <1>2 DEF KernelStep, Kernel, Arrive, PeerCloses, Drain, Raise, Books
  <2>2. UNCHANGED <<kern, ei, changes, non_submit_events, group, closes>>
    BY <1>2, KernelKeeps DEF submitVars
  <2> QED BY <2>1, <2>2 DEF Books
<1>3. CASE Submit \/ RegisterRingBuffer \/ UnregisterRingBuffer
  BY <1>3, Zenon DEF Submit, RegisterRingBuffer, UnregisterRingBuffer, Books, kernelVars
<1>4. ASSUME NEW f \in Fds, User(f) PROVE Books'
  <2>1. CASE CancelRead(f) \/ CancelAccept(f) \/ CancelWrite(f)
    BY <2>1, Zenon DEF CancelRead, CancelAccept, CancelWrite, Books, kernelVars
  <2>2. CASE CloseFd(f)
    <3>1. closes' \in 0..MaxCloses
      BY <2>2, BoundAssumption DEF CloseFd, Books
    <3>2. kern' \in [Fds -> SUBSET RW] /\ edge' \subseteq Fds
      BY <2>2 DEF CloseFd, Books
    <3>3. UNCHANGED <<ei, changes, non_submit_events, group>>
      BY <2>2 DEF CloseFd, submitVars
    <3> QED BY <3>1, <3>2, <3>3 DEF Books
  <2>3. CASE ReopenFd(f)
    BY <2>3 DEF ReopenFd, submitVars, Books
  <2>4. ASSUME NEW e \in RW, Register(f, e), UNCHANGED <<kernelVars, group>>,
               non_submit_events' = non_submit_events \/ non_submit_events' = non_submit_events \cup {f}
        PROVE  Books'
    BY <2>4, RegisterBooks DEF Books, kernelVars
  <2>5. CASE \E t \in Reads, s \in BOOLEAN : SubmitRead(f, t, s)
    BY <2>4, <2>5 DEF SubmitRead, RW
  <2>6. CASE \E t \in Writes, s \in BOOLEAN : SubmitWrite(f, t, s)
    BY <2>4, <2>6 DEF SubmitWrite, RW
  <2>7. CASE SubmitAccept(f) \/ \E s \in BOOLEAN : SubmitMultishot(f, s)
    BY <2>4, <2>7 DEF SubmitAccept, SubmitMultishot, RW
  <2> QED BY <1>4, <2>1, <2>2, <2>3, <2>5, <2>6, <2>7 DEF User
<1>5. CASE ApplyChanges
  <2> DEFINE gone == {f \in changes : ea[f].events = {}}
             watched == {f \in changes \ gone : WatchWorks(f)}
             T == [present : BOOLEAN, events : SUBSET RW, in_epoll : BOOLEAN]
  <2>1. /\ kern' = [f \in Fds |-> IF f \in gone THEN {} ELSE IF f \in watched THEN ea[f].events ELSE kern[f]]
        /\ edge' = (edge \ gone) \cup {f \in watched : ea[f].events \cap ReadyNow(f) # {}}
        /\ ei' = [f \in Fds |-> IF f \in gone THEN NewInfo ELSE [ei[f] EXCEPT !.in_epoll = @ \/ f \in watched]]
        /\ non_submit_events' = non_submit_events \ gone
        /\ changes' = {} /\ UNCHANGED <<group, closes>>
    BY <1>5 DEF ApplyChanges
  <2>2. watched \subseteq Fds /\ ei \in [Fds -> T]
    BY DEF Books
  <2>3. \A f \in Fds : ea[f].events \in SUBSET RW
    BY DEF ActionTypes, Typed
  <2> HIDE DEF gone, watched
  <2>4. kern' \in [Fds -> SUBSET RW]
    BY <2>1, <2>3 DEF Books
  <2>5. edge' \subseteq Fds
    BY <2>1, <2>2 DEF Books
  <2>6. ei' \in [Fds -> T]
    <3>1. NewInfo \in T
      BY DEF NewInfo
    <3>2. ASSUME NEW f \in Fds PROVE [ei[f] EXCEPT !.in_epoll = @ \/ f \in watched] \in T
      <4> DEFINE a == ei[f]
                 x == a.in_epoll \/ f \in watched
      <4>1. a \in T /\ x \in BOOLEAN
        BY <2>2
      <4> HIDE DEF a, x
      <4>2. [a EXCEPT !.in_epoll = x] \in T
        BY <4>1
      <4> QED BY <4>2 DEF a, x
    <3> HIDE DEF T
    <3> QED BY <2>1, <3>1, <3>2
  <2> QED BY <2>1, <2>4, <2>5, <2>6 DEF Books
<1>6. CASE Wait
  BY <1>6 DEF Wait, Books, submitVars
<1>7. CASE WaitInterrupted \/ NextReported \/ NextReady \/ Handled \/ UNCHANGED vars
  BY <1>7 DEF WaitInterrupted, NextReported, NextReady, Handled, Books, kernelVars, submitVars, vars
<1> QED BY <1>1, <1>2, <1>3, <1>4, <1>5, <1>6, <1>7, DispatchCases DEF UserStep

(* The counter of datagrams, the tasks that are over, and the reads left *)
Over == dgrams \in Nat /\ done \subseteq Tasks /\ cancelled \subseteq Tasks /\ behind \subseteq Fds

(* The elements of a deque are of its kind. *)
LEMMA ElemsType == ASSUME NEW S, NEW s \in Seq(S) PROVE Elems(s) \subseteq S
BY DEF Elems

(* handle_events leaves a read or an accept behind for act only. *)
LEMMA InsideLeaves == Inside => behind' = behind \/ behind' = behind \cup {act}
<1> SUFFICES ASSUME Inside PROVE behind' = behind \/ behind' = behind \cup {act}
  OBVIOUS
<1>1. CASE DoMultishot \/ DoAccept
  BY <1>1, Zenon DEF DoMultishot, MultishotTcp, MultishotUdp, DoAccept
<1>2. CASE DoReadTask \/ PopRead \/ DoWriteTask \/ PopWrite
  BY <1>2, Zenon DEF DoReadTask, PopRead, DoWriteTask, PopWrite
<1>3. CASE ~(DoMultishot \/ DoAccept \/ DoReadTask \/ PopRead \/ DoWriteTask \/ PopWrite)
  <2>1. UNCHANGED submitVars
    BY <1>3, Zenon DEF Inside, HandleEvents, NextDatagram, ReadsDone, MultishotAgain, WritesBegin, WritesDone,
                CallbackReturns, Undefined
  <2> QED BY <2>1 DEF submitVars
<1> QED BY <1>1, <1>2, <1>3

(* User code leaves none behind. *)
LEMMA UserTakesUp == UserStep => behind' \subseteq behind
<1> SUFFICES ASSUME UserStep PROVE behind' \subseteq behind
  OBVIOUS
<1>1. CASE Submit \/ RegisterRingBuffer \/ UnregisterRingBuffer
  BY <1>1, Zenon DEF Submit, RegisterRingBuffer, UnregisterRingBuffer
<1>2. ASSUME NEW f \in Fds, User(f) PROVE behind' \subseteq behind
  <2>1. CASE CloseFd(f) \/ ReopenFd(f)
    BY <2>1 DEF CloseFd, ReopenFd, submitVars
  <2>2. CASE ~(CloseFd(f) \/ ReopenFd(f))
    <3>1. behind' = behind \/ behind' = behind \ {f}
      BY <1>2, <2>2, Zenon DEF User, SubmitAccept, SubmitMultishot, CancelRead, CancelAccept, CancelWrite, SubmitRead, SubmitWrite
    <3> QED BY <3>1
  <2> QED BY <2>1, <2>2
<1> QED BY <1>1, <1>2 DEF UserStep

(* Every step keeps the types of the counters, of the tasks that are over    *)
(* and of what is left behind.                                               *)
LEMMA StepOver ==
    ASSUME Over, Sockets, Place, ActionTypes, Books, Queue, [Next]_vars
    PROVE  Over'
<1>0. ASSUME NEW f \in Fds
      PROVE  /\ Elems(ea[f].reads) \subseteq Reads /\ Elems(ea[f].ns_reads) \subseteq Reads
             /\ Elems(ea[f].writes) \subseteq Writes /\ Elems(ea[f].ns_writes) \subseteq Writes
  BY ElemsType DEF ActionTypes, Typed
<1>1. CASE Inside
  <2>1. act \in Fds /\ cancelled' = cancelled
    BY <1>1, InsideKeeps, TypesShape
  <2>2. sk[act].rx \in Nat
    BY <2>1, SocketFields, BoundAssumption
  <2>3. ea[act].reads \in Seq(Reads) /\ ea[act].writes \in Seq(Writes)
    BY <2>1 DEF ActionTypes, Typed
  <2>4. done' \subseteq Tasks
    <3>1. CASE PopRead \/ PopWrite
      BY <2>3, <3>1 DEF PopRead, PopWrite, Over, Tasks
    <3>2. CASE done' = done
      BY <3>2 DEF Over
    <3> QED BY <1>1, <2>1, <3>1, <3>2, InsideSets, TypesShape
  <2>5. dgrams' \in Nat
    <3>1. CASE DoReadTask
      <4>1. \/ dgrams' = dgrams \/ dgrams' = 1
            \/ \E t \in {Head(ea[act].reads)} : dgrams' = Min2(sk[act].rx, Cap(t))
        BY <3>1 DEF DoReadTask, ReadUdp
      <4> QED BY <2>2, <4>1, CapValue DEF Min2, Over
    <3>2. CASE NextDatagram
      <4>1. dgrams' = dgrams \/ (dgrams > 0 /\ dgrams' = dgrams - 1)
        BY <3>2 DEF NextDatagram
      <4> QED BY <4>1 DEF Over
    <3>3. CASE DoMultishot
      <4>1. dgrams' = dgrams \/ dgrams' = 1 \/ \E k \in 1..sk[act].rx : dgrams' = k
        BY <3>3, Zenon DEF DoMultishot, MultishotTcp, MultishotUdp
      <4> QED BY <2>2, <4>1 DEF Over
    <3>4. CASE ~(DoReadTask \/ NextDatagram \/ DoMultishot)
      BY <1>1, <3>4, Zenon DEF Inside, HandleEvents, PopRead, ReadsDone, MultishotAgain, DoAccept, WritesBegin, DoWriteTask,
         PopWrite, WritesDone, CallbackReturns, Undefined, dispatchVars, callVars, Over
    <3> QED BY <3>1, <3>2, <3>3, <3>4
  <2>6. behind' \subseteq Fds
    <3>1. behind' = behind \/ behind' = behind \cup {act}
      BY <1>1, InsideLeaves
    <3> QED BY <2>1, <3>1 DEF Over
  <2> QED BY <2>1, <2>4, <2>5, <2>6 DEF Over
<1>2. CASE UserStep
  <2>1. UNCHANGED <<dgrams, done>>
    BY <1>2, UserGrows DEF Books, dispatchVars, callVars
  <2>2. ASSUME NEW f \in Fds, CancelRead(f) \/ CancelAccept(f) \/ CancelWrite(f) PROVE cancelled' \subseteq Tasks
    BY <1>0, <2>2 DEF CancelRead, CancelAccept, CancelWrite, ReadTasks, WriteTasks, Over, Tasks
  <2>3. cancelled' = cancelled \/ \E f \in Fds : CancelRead(f) \/ CancelAccept(f) \/ CancelWrite(f)
    BY <1>2, Zenon DEF UserStep, User, SubmitRead, SubmitWrite, SubmitMultishot, SubmitAccept, CloseFd, ReopenFd,
                Submit, RegisterRingBuffer, UnregisterRingBuffer, submitVars
  <2>4. behind' \subseteq Fds
    BY <1>2, UserTakesUp DEF Over
  <2> QED BY <2>1, <2>2, <2>3, <2>4 DEF Over
<1>3. CASE KernelStep
  BY <1>3, KernelKeeps DEF Over, submitVars, dispatchVars, callVars
<1>4. CASE ApplyChanges \/ Wait \/ WaitInterrupted \/ NextReported \/ NextReady \/ Handled \/ UNCHANGED vars
  BY <1>4 DEF ApplyChanges, Wait, WaitInterrupted, NextReported, NextReady, Handled, Over, submitVars, dispatchVars,
              callVars, vars
<1> QED BY <1>1, <1>2, <1>3, <1>4, DispatchCases

(* All of it *)
Types == ActionTypes /\ Place /\ Queue /\ Reported /\ Books /\ Sockets /\ Over

(* A record of a descriptor's fields is a descriptor. *)
LEMMA SocketType ==
    ASSUME NEW x \in BOOLEAN, NEW r \in 0..MaxRx, NEW y \in BOOLEAN, NEW s \in 0..Space
    PROVE  [open |-> x, rx |-> r, fin |-> y, space |-> s]
               \in [open : BOOLEAN, rx : 0..MaxRx, fin : BOOLEAN, space : 0..Space]
OBVIOUS

(* A new descriptor is a descriptor. *)
LEMMA FreshSocket ==
    ASSUME NEW x \in BOOLEAN, NEW b, b = [Fresh EXCEPT !.open = x]
    PROVE  b \in [open : BOOLEAN, rx : 0..MaxRx, fin : BOOLEAN, space : 0..Space]
<1>1. b = [open |-> x, rx |-> 0, fin |-> FALSE, space |-> Space]
  BY FreshOpen, Zenon
<1>2. 0 \in 0..MaxRx /\ Space \in 0..Space /\ FALSE \in BOOLEAN
  BY BoundAssumption
<1> DEFINE S == [open : BOOLEAN, rx : 0..MaxRx, fin : BOOLEAN, space : 0..Space]
           c == [open |-> x, rx |-> 0, fin |-> FALSE, space |-> Space]
<1>3. c \in S
  BY <1>2, SocketType
<1> HIDE DEF S, c
<1>4. b = c
  BY <1>1, Zenon DEF c
<1>5. b \in S
  BY <1>3, <1>4
<1> QED BY <1>5 DEF S

(* All types hold in the beginning. *)
LEMMA InitTypes == Init => Types
<1> SUFFICES ASSUME Init PROVE Types
  OBVIOUS
<1>1. ActionTypes
  BY NewActionTyped DEF Init, ActionTypes
<1>2. Place /\ Reported /\ Over
  BY Zenon DEF Init, Place, At, Busy, Reported, Over
<1>3. Queue
  <2>1. <<>> \in Seq(Fds \cup {None}) /\ Len(<<>>) = 0
    OBVIOUS
  <2> QED BY <2>1 DEF Init, Queue, Busy
<1>4. Books
  <2>1. NewInfo \in [present : BOOLEAN, events : SUBSET RW, in_epoll : BOOLEAN]
    BY DEF NewInfo
  <2>2. ei \in [Fds -> [present : BOOLEAN, events : SUBSET RW, in_epoll : BOOLEAN]]
    BY <2>1 DEF Init
  <2>3. closes \in 0..MaxCloses
    BY BoundAssumption DEF Init
  <2>4. kern \in [Fds -> SUBSET RW] /\ edge \subseteq Fds /\ changes \subseteq Fds
        /\ non_submit_events \subseteq Fds /\ group \in BOOLEAN
    BY Zenon DEF Init
  <2> QED BY <2>2, <2>3, <2>4 DEF Books
<1>5. Sockets
  <2>1. PICK S \in SUBSET Fds : sk = [f \in Fds |-> [Fresh EXCEPT !.open = f \in S]]
    BY Zenon DEF Init
  <2>2. ASSUME NEW f \in Fds
        PROVE  sk[f] \in [open : BOOLEAN, rx : 0..MaxRx, fin : BOOLEAN, space : 0..Space]
    <3> DEFINE x == f \in S
               b == sk[f]
    <3>1. b = [Fresh EXCEPT !.open = x] /\ x \in BOOLEAN
      BY <2>1
    <3> HIDE DEF x, b
    <3>4. b \in [open : BOOLEAN, rx : 0..MaxRx, fin : BOOLEAN, space : 0..Space]
      BY <3>1, FreshSocket, Zenon
    <3> QED BY <3>4 DEF b
  <2>3. sk = [f \in Fds |-> sk[f]]
    BY <2>1
  <2> QED BY <2>2, <2>3 DEF Sockets
<1> QED BY <1>1, <1>2, <1>3, <1>4, <1>5 DEF Types

(* Every step keeps all types. *)
LEMMA StepTypes == Types /\ [Next]_vars => Types'
<1> SUFFICES ASSUME Types, [Next]_vars PROVE Types'
  OBVIOUS
<1> ActionTypes /\ Place /\ Queue /\ Reported /\ Books /\ Sockets /\ Over /\ non_submit_events \subseteq Fds
  BY DEF Types, Books
<1>1. ActionTypes'
  BY StepActionTypes
<1>2. Place'
  BY StepPlace
<1>3. Queue'
  BY StepQueue
<1>4. Reported'
  BY StepReported
<1>5. Books'
  BY StepBooks
<1>6. Sockets'
  BY StepSockets
<1>7. Over'
  BY StepOver
<1> QED BY <1>1, <1>2, <1>3, <1>4, <1>5, <1>6, <1>7 DEF Types

(* The types always hold. *)
LEMMA TypesAlways == Spec => []Types
BY InitTypes, StepTypes, PTL DEF Spec

(* They give TypeOK. *)
LEMMA TypesOK == Types => TypeOK
<1> SUFFICES ASSUME Types PROVE TypeOK
  OBVIOUS
<1> ActionTypes /\ Place /\ Queue /\ Reported /\ Books /\ Sockets /\ Over
  BY DEF Types
<1>1. ea \in [Fds -> Action]
  <2>1. ASSUME NEW f \in Fds PROVE ea[f] \in Action
    <3> DEFINE a == ea[f]
    <3>1. Typed(a)
      BY DEF ActionTypes
    <3> HIDE DEF a
    <3>2. a \in Action
      BY <3>1 DEF Typed, Shape, Rec, Action
    <3> QED BY <3>2 DEF a
  <2>2. ea = [f \in Fds |-> ea[f]]
    BY DEF ActionTypes
  <2> HIDE DEF Action
  <2> QED BY <2>1, <2>2
<1>2. Elems(ready_events) \subseteq Fds \cup {None} /\ ready_cnt \in 0..Len(ready_events)
  BY ElemsType DEF Queue
<1> QED BY <1>1, <1>2, Zenon DEF TypeOK, Place, Reported, Books, Sockets, Over

(* The types hold, whatever the descriptors, tasks and bounds: no read takes *)
(* more from the kernel than is there, no write gives it more than it has    *)
(* room for, and do_ready_tasks never takes more from ready_events_ than it  *)
(* holds.                                                                    *)
THEOREM TypeCorrect == Spec => []TypeOK
BY TypesAlways, TypesOK, PTL

-----------------------------------------------------------------------------
(* What the deques hold. *)

(* An empty deque holds nothing. *)
LEMMA EmptyElems == Elems(<<>>) = {} /\ Distinct(<<>>)
BY DEF Elems, Distinct

(* push_back of a task that is not there adds it, once. *)
LEMMA AppendElems ==
    ASSUME NEW S, NEW s \in Seq(S), NEW t \in S
    PROVE  /\ Elems(Append(s, t)) = Elems(s) \cup {t}
           /\ Distinct(s) /\ t \notin Elems(s) => Distinct(Append(s, t))
<1> DEFINE u == Append(s, t)
<1>1. /\ Len(s) \in Nat /\ DOMAIN s = 1..Len(s) /\ DOMAIN u = 1..(Len(s) + 1)
      /\ u[Len(s) + 1] = t /\ \A i \in 1..Len(s) : u[i] = s[i]
  OBVIOUS
<1> HIDE DEF u
<1>2. Elems(u) \subseteq Elems(s) \cup {t}
  BY <1>1 DEF Elems
<1>3. Elems(s) \subseteq Elems(u)
  BY <1>1 DEF Elems
<1>4. t \in Elems(u)
  BY <1>1 DEF Elems
<1>5. ASSUME Distinct(s), t \notin Elems(s) PROVE Distinct(u)
  BY <1>1, <1>5 DEF Distinct, Elems
<1> QED BY <1>2, <1>3, <1>4, <1>5 DEF u

(* pop_front removes the first task, and that task only. *)
LEMMA TailElems ==
    ASSUME NEW S, NEW s \in Seq(S), s # <<>>
    PROVE  /\ Elems(s) = Elems(Tail(s)) \cup {Head(s)}
           /\ Distinct(s) => Distinct(Tail(s)) /\ Head(s) \notin Elems(Tail(s))
<1> DEFINE u == Tail(s)
<1>1. /\ Len(s) \in Nat \ {0} /\ DOMAIN s = 1..Len(s) /\ DOMAIN u = 1..(Len(s) - 1)
      /\ Head(s) = s[1] /\ \A i \in 1..(Len(s) - 1) : u[i] = s[i + 1]
  OBVIOUS
<1> HIDE DEF u
<1>2. ASSUME NEW i \in 1..Len(s) PROVE s[i] \in Elems(u) \cup {Head(s)}
  <2>1. CASE i = 1
    BY <1>1, <2>1
  <2>2. CASE i # 1
    <3>1. i - 1 \in 1..(Len(s) - 1) /\ s[i] = u[i - 1]
      BY <1>1, <2>2
    <3> QED BY <1>1, <3>1 DEF Elems
  <2> QED BY <2>1, <2>2
<1>3. ASSUME NEW i \in 1..(Len(s) - 1) PROVE i + 1 \in 1..Len(s) /\ i + 1 # 1 /\ u[i] = s[i + 1]
  BY <1>1
<1>4. Elems(u) \cup {Head(s)} \subseteq Elems(s)
  BY <1>1, <1>3 DEF Elems
<1>5. Elems(s) \subseteq Elems(u) \cup {Head(s)}
  BY <1>1, <1>2 DEF Elems
<1>6. ASSUME Distinct(s) PROVE Distinct(u) /\ Head(s) \notin Elems(u)
  <2>1. ASSUME NEW i \in 1..(Len(s) - 1), NEW j \in 1..(Len(s) - 1), u[i] = u[j] PROVE i = j
    <3>1. i + 1 = j + 1
      BY <1>1, <1>3, <1>6, <2>1 DEF Distinct
    <3> QED BY <3>1
  <2>2. ASSUME NEW i \in 1..(Len(s) - 1) PROVE Head(s) # u[i]
    BY <1>1, <1>3, <1>6 DEF Distinct
  <2> QED BY <1>1, <2>1, <2>2 DEF Distinct, Elems
<1> QED BY <1>4, <1>5, <1>6 DEF u

(* pop_front and push_back of the same task lose and repeat nothing. *)
LEMMA RotateElems ==
    ASSUME NEW S, NEW s \in Seq(S), s # <<>>
    PROVE  /\ Elems(Append(Tail(s), Head(s))) = Elems(s)
           /\ Distinct(s) => Distinct(Append(Tail(s), Head(s)))
<1> DEFINE r == Tail(s)
           h == Head(s)
<1>1. r \in Seq(S) /\ h \in S
  OBVIOUS
<1>2. /\ Elems(s) = Elems(r) \cup {h}
      /\ Distinct(s) => Distinct(r) /\ h \notin Elems(r)
  BY TailElems
<1> HIDE DEF r, h
<1>3. /\ Elems(Append(r, h)) = Elems(r) \cup {h}
      /\ Distinct(r) /\ h \notin Elems(r) => Distinct(Append(r, h))
  BY <1>1, AppendElems
<1>4. Elems(Append(r, h)) = Elems(s) /\ (Distinct(s) => Distinct(Append(r, h)))
  BY <1>2, <1>3
<1> QED BY <1>4 DEF r, h

(* submit() puts two deques together: nothing is lost or repeated. *)
LEMMA ConcatElems ==
    ASSUME NEW S, NEW s \in Seq(S), NEW t \in Seq(S)
    PROVE  /\ Elems(s \o t) = Elems(s) \cup Elems(t)
           /\ Distinct(s) /\ Distinct(t) /\ Elems(s) \cap Elems(t) = {} => Distinct(s \o t)
<1> DEFINE u == s \o t
           L == Len(s)
           M == Len(t)
<1>1. /\ L \in Nat /\ M \in Nat /\ DOMAIN s = 1..L /\ DOMAIN t = 1..M /\ DOMAIN u = 1..(L + M)
      /\ (\A i \in 1..L : u[i] = s[i])
  OBVIOUS
<1>2. \A i \in 1..(L + M) : i > L => u[i] = t[i - L]
  BY ConcatSeqs
<1> HIDE DEF u, L, M
<1>3. ASSUME NEW i \in 1..(L + M)
      PROVE  \/ i \in 1..L /\ u[i] = s[i]
             \/ i - L \in 1..M /\ u[i] = t[i - L]
  BY <1>1, <1>2
<1>4. ASSUME NEW i \in 1..M PROVE i + L \in 1..(L + M) /\ u[i + L] = t[i]
  <2>1. i + L \in 1..(L + M) /\ i + L > L /\ (i + L) - L = i
    BY <1>1
  <2> QED BY <1>2, <2>1
<1>5. Elems(u) \subseteq Elems(s) \cup Elems(t)
  BY <1>1, <1>3 DEF Elems
<1>6. Elems(s) \subseteq Elems(u)
  BY <1>1 DEF Elems
<1>7. Elems(t) \subseteq Elems(u)
  BY <1>1, <1>4 DEF Elems
<1>8. ASSUME Distinct(s), Distinct(t), Elems(s) \cap Elems(t) = {} PROVE Distinct(u)
  <2>1. ASSUME NEW i \in 1..(L + M), NEW j \in 1..(L + M), u[i] = u[j] PROVE i = j
    <3>1. CASE i \in 1..L /\ u[i] = s[i] /\ j \in 1..L /\ u[j] = s[j]
      BY <1>1, <1>8, <2>1, <3>1, Zenon DEF Distinct
    <3>2. CASE i - L \in 1..M /\ u[i] = t[i - L] /\ j - L \in 1..M /\ u[j] = t[j - L]
      <4>1. i - L = j - L
        BY <1>1, <1>8, <2>1, <3>2, Zenon DEF Distinct
      <4> QED BY <1>1, <4>1
    <3>3. ASSUME NEW p \in 1..L, NEW q \in 1..M PROVE s[p] # t[q]
      BY <1>1, <1>8 DEF Elems
    <3> QED BY <1>3, <2>1, <3>1, <3>2, <3>3
  <2> QED BY <1>1, <2>1 DEF Distinct
<1> QED BY <1>5, <1>6, <1>7, <1>8 DEF u

-----------------------------------------------------------------------------
(* What each kind of descriptor can hold. *)

(* What the event_action of f can hold, by the kind of f *)
ActionKind(f, a) ==
    /\ a.accept => f \in ListenFds
    /\ a.multi # "no" => f \in GroupFds /\ "R" \in a.events
    /\ f \in GroupFds \cup ListenFds => a.reads = <<>> /\ a.ns_reads = <<>>
    /\ a.reads # <<>> \/ a.ns_reads # <<>> => "R" \in a.events
    /\ a.writes # <<>> \/ a.ns_writes # <<>> => "W" \in a.events

(* For every descriptor; and only a TCP connection is closed by its peer *)
Kinds == \A f \in Fds : ActionKind(f, ea[f]) /\ (sk[f].fin => f \in TcpFds)

(* The fields of an event_action after submit(). *)
LEMMA SubmittedFields ==
    ASSUME NEW a, NEW b, b = Submitted(a)
    PROVE  /\ b.events = a.events /\ b.readable = a.readable /\ b.writable = a.writable
           /\ b.reads = a.reads \o a.ns_reads /\ b.ns_reads = <<>>
           /\ b.writes = a.writes \o a.ns_writes /\ b.ns_writes = <<>> /\ b.accept = a.accept
           /\ b.multi # "no" => a.multi # "no"
<1> DEFINE m == IF a.multi = "no" THEN "no" ELSE "submitted"
           r == a.reads \o a.ns_reads
           w == a.writes \o a.ns_writes
<1>1. b = Rec(a.events, a.readable, a.writable, r, <<>>, w, <<>>, m, a.accept)
  BY DEF Submitted
<1>2. m # "no" => a.multi # "no"
  OBVIOUS
<1> HIDE DEF m, r, w
<1>3. /\ b.events = a.events /\ b.readable = a.readable /\ b.writable = a.writable
      /\ b.reads = r /\ b.ns_reads = <<>> /\ b.writes = w /\ b.ns_writes = <<>>
      /\ b.multi = m /\ b.accept = a.accept
  BY <1>1 DEF Rec
<1> QED BY <1>2, <1>3 DEF r, w

(* The fields of an event_action after submit_async_read into a buffer       *)
(* group.                                                                    *)
LEMMA MultishotFields ==
    ASSUME NEW a, NEW s, NEW b, b = Multishot(a, s)
    PROVE  /\ b.events = a.events \cup {"R"} /\ b.readable = a.readable /\ b.writable = a.writable
           /\ b.reads = a.reads /\ b.ns_reads = a.ns_reads
           /\ b.writes = a.writes /\ b.ns_writes = a.ns_writes /\ b.accept = a.accept
<1> DEFINE m == IF s THEN "submitted" ELSE "waiting"
           e == a.events \cup {"R"}
<1>1. b = Rec(e, a.readable, a.writable, a.reads, a.ns_reads, a.writes, a.ns_writes, m, a.accept)
  BY DEF Multishot
<1> HIDE DEF m, e
<1>2. /\ b.events = e /\ b.readable = a.readable /\ b.writable = a.writable
      /\ b.reads = a.reads /\ b.ns_reads = a.ns_reads
      /\ b.writes = a.writes /\ b.ns_writes = a.ns_writes /\ b.accept = a.accept
  BY <1>1 DEF Rec
<1> QED BY <1>2 DEF e

(* submit_async_read leaves in an event_action only what the descriptor's    *)
(* kind allows (AddedRead).                                                  *)
LEMMA AddedReadKind ==
    ASSUME NEW f, NEW a, ActionKind(f, a), NEW t, f \notin GroupFds \cup ListenFds
    PROVE  ActionKind(f, AddedRead(a, t))
BY Zenon DEF ActionKind, AddedRead, Rec

(* submit_async_read with is_submit = false leaves in an event_action only   *)
(* what the descriptor's kind allows (KeptRead).                             *)
LEMMA KeptReadKind ==
    ASSUME NEW f, NEW a, ActionKind(f, a), NEW t, f \notin GroupFds \cup ListenFds
    PROVE  ActionKind(f, KeptRead(a, t))
BY Zenon DEF ActionKind, KeptRead, Rec

(* submit_async_write leaves in an event_action only what the descriptor's   *)
(* kind allows (AddedWrite).                                                 *)
LEMMA AddedWriteKind ==
    ASSUME NEW f, NEW a, ActionKind(f, a), NEW t
    PROVE  ActionKind(f, AddedWrite(a, t))
BY Zenon DEF ActionKind, AddedWrite, Rec

(* submit_async_write with is_submit = false leaves in an event_action only  *)
(* what the descriptor's kind allows (KeptWrite).                            *)
LEMMA KeptWriteKind ==
    ASSUME NEW f, NEW a, ActionKind(f, a), NEW t
    PROVE  ActionKind(f, KeptWrite(a, t))
BY Zenon DEF ActionKind, KeptWrite, Rec

(* submit_async_accept leaves in an event_action only what the descriptor's  *)
(* kind allows (Accepting).                                                  *)
LEMMA AcceptingKind ==
    ASSUME NEW f, NEW a, ActionKind(f, a), f \in ListenFds
    PROVE  ActionKind(f, Accepting(a))
BY Zenon DEF ActionKind, Accepting, Rec

(* disable_read leaves in an event_action only what the descriptor's kind    *)
(* allows (NoRead).                                                          *)
LEMMA NoReadKind ==
    ASSUME NEW f, NEW a, ActionKind(f, a)
    PROVE  ActionKind(f, NoRead(a))
BY Zenon DEF ActionKind, NoRead, Rec

(* disable_write leaves in an event_action only what the descriptor's kind   *)
(* allows (NoWrite).                                                         *)
LEMMA NoWriteKind ==
    ASSUME NEW f, NEW a, ActionKind(f, a)
    PROVE  ActionKind(f, NoWrite(a))
BY Zenon DEF ActionKind, NoWrite, Rec

(* is_readable_ set by a read leaves in an event_action only what the        *)
(* descriptor's kind allows (Reread).                                        *)
LEMMA RereadKind ==
    ASSUME NEW f, NEW a, ActionKind(f, a), NEW x
    PROVE  ActionKind(f, Reread(a, x))
BY Zenon DEF ActionKind, Reread, Rec

(* push_back of a read that found nothing leaves in an event_action only     *)
(* what the descriptor's kind allows (ReadBack).                             *)
LEMMA ReadBackKind ==
    ASSUME NEW f, NEW a, ActionKind(f, a), a.reads # <<>>
    PROVE  ActionKind(f, ReadBack(a))
BY Zenon DEF ActionKind, ReadBack, Rec

(* push_back of a write that found no room leaves in an event_action only    *)
(* what the descriptor's kind allows (WriteBack).                            *)
LEMMA WriteBackKind ==
    ASSUME NEW f, NEW a, ActionKind(f, a), a.writes # <<>>
    PROVE  ActionKind(f, WriteBack(a))
BY Zenon DEF ActionKind, WriteBack, Rec

(* pop_front of a read leaves in an event_action only what the descriptor's  *)
(* kind allows (ReadOver).                                                   *)
LEMMA ReadOverKind ==
    ASSUME NEW f, NEW a, ActionKind(f, a), a.reads # <<>>
    PROVE  ActionKind(f, ReadOver(a))
BY Zenon DEF ActionKind, ReadOver, Rec

(* pop_front of a write leaves in an event_action only what the descriptor's *)
(* kind allows (WriteOver).                                                  *)
LEMMA WriteOverKind ==
    ASSUME NEW f, NEW a, ActionKind(f, a), a.writes # <<>>
    PROVE  ActionKind(f, WriteOver(a))
BY Zenon DEF ActionKind, WriteOver, Rec

(* set_ready_events leaves in an event_action only what the descriptor's     *)
(* kind allows (Flagged).                                                    *)
LEMMA FlaggedKind ==
    ASSUME NEW f, NEW a, ActionKind(f, a), NEW x, NEW y
    PROVE  ActionKind(f, Flagged(a, x, y))
BY Zenon DEF ActionKind, Flagged, Rec

(* unregister_ring_buffer leaves in an event_action only what the            *)
(* descriptor's kind allows (Ungrouped).                                     *)
LEMMA UngroupedKind ==
    ASSUME NEW f, NEW a, ActionKind(f, a)
    PROVE  ActionKind(f, Ungrouped(a))
BY Zenon DEF ActionKind, Ungrouped, Rec

(* submit_async_read into a buffer group leaves in an event_action only what *)
(* the descriptor's kind allows (Multishot).                                 *)
LEMMA MultishotKind ==
    ASSUME NEW f, NEW a, ActionKind(f, a), NEW s, f \in GroupFds
    PROVE  ActionKind(f, Multishot(a, s))
BY MultishotFields DEF ActionKind

(* submit() leaves in an event_action only what the descriptor's kind allows *)
(* (Submitted).                                                              *)
LEMMA SubmittedKind ==
    ASSUME NEW f, NEW a, ActionKind(f, a)
    PROVE  ActionKind(f, Submitted(a))
<1>1. <<>> \o <<>> = <<>>
  OBVIOUS
<1> DEFINE b == Submitted(a)
<1>2. /\ b.events = a.events
      /\ b.reads = a.reads \o a.ns_reads /\ b.ns_reads = <<>>
      /\ b.writes = a.writes \o a.ns_writes /\ b.ns_writes = <<>> /\ b.accept = a.accept
      /\ b.multi # "no" => a.multi # "no"
  BY SubmittedFields, Zenon
<1> HIDE DEF b
<1>3. ActionKind(f, b)
  BY <1>1, <1>2 DEF ActionKind
<1> QED BY <1>3 DEF b

(* If one event_action changes to one its descriptor's kind allows, Kinds    *)
(* holds on.                                                                 *)
LEMMA SetsKinds ==
    ASSUME Kinds, NEW f \in Fds, NEW b, Sets(f, b), ActionKind(f, b)
    PROVE  \A g \in Fds : ActionKind(g, ea'[g])
<1>1. \A g \in Fds : ea'[g] = IF g = f THEN b ELSE ea[g]
  BY DEF Sets
<1> QED BY <1>1 DEF Kinds

(* Every step leaves in each event_action only what the kind of its          *)
(* descriptor allows.                                                        *)
LEMMA StepKinds ==
    ASSUME Types, Kinds, [Next]_vars
    PROVE  Kinds'
<1> ActionTypes /\ Place /\ Queue /\ Reported /\ Books /\ Sockets
  BY DEF Types
<1>0. \A f \in Fds : ActionKind(f, ea[f])
  BY DEF Kinds
<1>1. \A f \in Fds : ActionKind(f, ea'[f])
  <2>0. CASE ea' = ea
    BY <1>0, <2>0
  <2>1. CASE Inside
    <3>1. act \in Fds
      BY <2>1, InsideKeeps, TypesShape
    <3>2. ActionKind(act, ea[act])
      BY <1>0, <3>1
    <3>3. CASE PopRead /\ Sets(act, ReadOver(ea[act]))
      <4>1. ea[act].reads # <<>>
        BY <3>3 DEF PopRead
      <4> QED BY <3>1, <3>2, <3>3, <4>1, ReadOverKind, SetsKinds
    <3>4. CASE PopWrite /\ Sets(act, WriteOver(ea[act]))
      <4>1. ea[act].writes # <<>>
        BY <3>4 DEF PopWrite
      <4> QED BY <3>1, <3>2, <3>4, <4>1, WriteOverKind, SetsKinds
    <3> QED BY <2>0, <2>1, <3>1, <3>2, <3>3, <3>4, TypesShape, InsideSets, RereadKind, ReadBackKind, WriteBackKind, SetsKinds, Zenon
  <2>2. CASE UserStep
    <3>1. UserSets
      BY <2>2, TypesShape, UserCases
    <3>2. ASSUME NEW f \in Fds, NEW t \in Reads,
                 \/ SubmitRead(f, t, TRUE) /\ Sets(f, AddedRead(ea[f], t))
                 \/ SubmitRead(f, t, FALSE) /\ Sets(f, KeptRead(ea[f], t))
          PROVE  \A g \in Fds : ActionKind(g, ea'[g])
      <4>1. f \notin GroupFds \cup ListenFds
        BY <3>2 DEF SubmitRead
      <4> QED BY <1>0, <3>2, <4>1, AddedReadKind, KeptReadKind, SetsKinds, Zenon
    <3>3. ASSUME NEW f \in Fds, NEW t \in Writes, Sets(f, AddedWrite(ea[f], t)) \/ Sets(f, KeptWrite(ea[f], t))
          PROVE  \A g \in Fds : ActionKind(g, ea'[g])
      BY <1>0, <3>3, AddedWriteKind, KeptWriteKind, SetsKinds
    <3>4. ASSUME NEW f \in Fds, NEW s \in BOOLEAN, SubmitMultishot(f, s), Sets(f, Multishot(ea[f], s))
          PROVE  \A g \in Fds : ActionKind(g, ea'[g])
      <4>1. f \in GroupFds
        BY <3>4 DEF SubmitMultishot
      <4> QED BY <1>0, <3>4, <4>1, MultishotKind, SetsKinds
    <3>5. ASSUME NEW f \in Fds, SubmitAccept(f), Sets(f, Accepting(ea[f]))
          PROVE  \A g \in Fds : ActionKind(g, ea'[g])
      <4>1. f \in ListenFds
        BY <3>5 DEF SubmitAccept
      <4> QED BY <1>0, <3>5, <4>1, AcceptingKind, SetsKinds
    <3>6. ASSUME NEW f \in Fds, Sets(f, NoRead(ea[f])) \/ Sets(f, NoWrite(ea[f]))
          PROVE  \A g \in Fds : ActionKind(g, ea'[g])
      BY <1>0, <3>6, NoReadKind, NoWriteKind, SetsKinds
    <3>7. CASE ea' = [f \in Fds |-> IF f \notin non_submit_events THEN ea[f] ELSE Submitted(ea[f])]
      BY <1>0, <3>7, SubmittedKind
    <3>8. CASE ea' = [f \in Fds |-> Ungrouped(ea[f])]
      BY <1>0, <3>8, UngroupedKind
    <3> QED BY <2>0, <3>1, <3>2, <3>3, <3>4, <3>5, <3>6, <3>7, <3>8, Zenon DEF UserSets
  <2>3. CASE ApplyChanges
    <3>1. \A f \in Fds : ActionKind(f, NewAction(f))
      BY DEF ActionKind, NewAction
    <3>2. \A f \in Fds : ea'[f] = ea[f] \/ ea'[f] = NewAction(f)
      BY <2>3 DEF ApplyChanges
    <3> QED BY <1>0, <3>1, <3>2
  <2>4. CASE NextReported
    <3>1. \A r \in reported : r.fd \in Fds
      BY DEF Reported
    <3> QED BY <1>0, <2>0, <2>4, <3>1, TypesShape, ReportedSets, FlaggedKind, SetsKinds, Zenon
  <2>5. CASE KernelStep \/ Wait \/ WaitInterrupted \/ NextReady \/ Handled \/ UNCHANGED vars
    BY <2>0, <2>5, KernelKeeps, Zenon DEF Wait, WaitInterrupted, NextReady, Handled, submitVars, vars
  <2> QED BY <2>1, <2>2, <2>3, <2>4, <2>5, DispatchCases
<1>2. ASSUME NEW f \in Fds, sk'[f].fin PROVE f \in TcpFds
  <2>1. sk[f].fin => f \in TcpFds
    BY DEF Kinds
  <2>2. CASE Inside
    <3>1. act \in Fds /\ InsideSk
      BY <2>2, InsideKeeps, TypesShape, InsideSockets
    <3>2. sk'[f].fin = sk[f].fin
      BY <3>1 DEF InsideSk, Sockets
    <3> QED BY <1>2, <2>1, <3>2
  <2>3. CASE KernelStep
    <3>1. PICK g \in Fds : Kernel(g)
      BY <2>3 DEF KernelStep
    <3>2. sk'[f].fin = sk[f].fin \/ (f = g /\ g \in TcpFds)
      BY <3>1 DEF Kernel, Arrive, PeerCloses, Drain, Sockets
    <3> QED BY <1>2, <2>1, <3>2, Zenon
  <2>4. CASE UserStep
    <3>1. sk' = sk \/ \E g \in Fds : CloseFd(g) \/ ReopenFd(g)
      BY <2>4, Zenon DEF UserStep, User, SubmitRead, SubmitWrite, SubmitMultishot, SubmitAccept, CancelRead, CancelAccept,
                  CancelWrite, Submit, RegisterRingBuffer, UnregisterRingBuffer, kernelVars
    <3>2. ASSUME NEW g \in Fds, CloseFd(g) PROVE sk'[f].fin = sk[f].fin \/ ~sk'[f].fin
      <4>1. sk'[f] = sk[f] \/ sk'[f] = [Fresh EXCEPT !.open = FALSE]
        BY <3>2 DEF CloseFd, Sockets
      <4>2. [Fresh EXCEPT !.open = FALSE] = [open |-> FALSE, rx |-> 0, fin |-> FALSE, space |-> Space]
        BY FreshOpen, Zenon
      <4> QED BY <4>1, <4>2
    <3>3. ASSUME NEW g \in Fds, ReopenFd(g) PROVE sk'[f].fin = sk[f].fin
      BY <3>3 DEF ReopenFd, Sockets
    <3> QED BY <1>2, <2>1, <3>1, <3>2, <3>3, Zenon
  <2>5. CASE ApplyChanges \/ Wait \/ WaitInterrupted \/ NextReported \/ NextReady \/ Handled \/ UNCHANGED vars
    <3>1. sk' = sk
      BY <2>5 DEF ApplyChanges, Wait, WaitInterrupted, NextReported, NextReady, Handled, kernelVars, vars
    <3> QED BY <1>2, <2>1, <3>1
  <2> QED BY <2>2, <2>3, <2>4, <2>5, DispatchCases
<1> QED BY <1>1, <1>2 DEF Kinds

(* What the other invariants of this backend rest on: the types, and what   *)
(* each kind of descriptor can hold.                                         *)
Base == Types /\ Kinds

(* The backend as it is created. *)
LEMMA InitBase == Init => Base
<1> SUFFICES ASSUME Init PROVE Base
  OBVIOUS
<1>1. Types
  BY InitTypes
<1>2. ASSUME NEW f \in Fds PROVE ActionKind(f, ea[f])
  BY DEF Init, NewAction, ActionKind
<1>3. PICK S \in SUBSET Fds : sk = [f \in Fds |-> [Fresh EXCEPT !.open = f \in S]]
  BY Zenon DEF Init
<1>4. ASSUME NEW f \in Fds PROVE ~sk[f].fin
  BY <1>3 DEF Fresh
<1> QED BY <1>1, <1>2, <1>4 DEF Base, Kinds

(* Base is inductive. *)
LEMMA StepBase == Base /\ [Next]_vars => Base'
BY StepTypes, StepKinds DEF Base
===============================================================================
