--------------------------- MODULE WatcherProofs ---------------------------
(***************************************************************************)
(* A source keeps exactly one task with the poller, its fd_ is never stale *)
(* outside fd_t::close, and a callback is lethal only in the cases that    *)
(* KnownFaults names: for any number of threads that notify and close, and *)
(* any number of events and calls of open and close.                       *)
(*                                                                         *)
(* The argument: the instructions in the queue alternate, so that the loop *)
(* never registers the source twice nor drops the wrong tasks; hence there *)
(* is one task while it is registered, which its callback replaces.  Two   *)
(* threads that close may both copy fds_evts_ before either empties it, so *)
(* a REMOVE may carry descriptors of an event that is not registered; none *)
(* that is needed comes without them.                                      *)
(***************************************************************************)
EXTENDS Watcher, SequenceTheorems, TLAPS

Instructions == [ins : {"ADD", "REMOVE"}, evts : BOOLEAN]

TaskKinds == {"poll", "read", "bare"}

(* The types of the variables the argument is about *)
Fields ==
    /\ w = [fd |-> w.fd, st |-> w.st, svc |-> w.svc, active |-> w.active, cb |-> w.cb, evts |-> w.evts]
    /\ w.fd \in BOOLEAN /\ w.svc \in BOOLEAN /\ w.active \in BOOLEAN /\ w.evts \in BOOLEAN
Positions == th = [t \in Threads |-> th[t]]
Queues == tasks \in Seq(TaskKinds) /\ cache \in Seq(Instructions)
TypeOK ==
    /\ Fields /\ Positions /\ Queues
    /\ kind \in {"notifier", "inotify", "signal", "timer"}
    /\ count \in Nat /\ readable \in BOOLEAN /\ registered \in BOOLEAN /\ deaf \in BOOLEAN

(* Before open there is no descriptor; a timer has no fds_evts_; only a      *)
(* notifier is used by other threads, and one that closes has emptied        *)
(* fds_evts_ before fd_.                                                     *)
Object ==
    /\ ~w.svc => ~w.fd /\ number # "source"
    /\ ~w.fd \/ kind = "timer" => ~w.evts
    /\ \A t \in Threads : th[t] # "idle" => w.svc /\ kind = "notifier"
    /\ \A t \in Threads : th[t] \in {"cb", "fd", "close", "forget"} => ~w.evts

(* Whether the event is registered when the loop comes to instruction k of   *)
(* the queue c, and after the last one, when it is now if r                  *)
Before(c, r, k) == IF k = 1 THEN r ELSE c[k - 1].ins = "ADD"
After(c, r) == IF c = <<>> THEN r ELSE c[Len(c)].ins = "ADD"

(* Instructions alternate as far as they have an effect: an ADD meets an     *)
(* event that is not registered, and a REMOVE that meets a registered one    *)
(* carries its descriptors.                                                  *)
Alternates(c, r) ==
    \A k \in 1..Len(c) : IF c[k].ins = "ADD" THEN ~Before(c, r, k) ELSE (Before(c, r, k) => c[k].evts)

(* fds_evts_ is filled when the event will be registered in the end, which   *)
(* it will not after a thread's REMOVE, or when a thread found it empty.     *)
Queue ==
    /\ Alternates(cache, registered)
    /\ After(cache, registered) => w.evts
    /\ \A t \in Threads : th[t] \in {"pushEmpty", "evts"} => ~After(cache, registered)

(* What is with the poller *)
Tasks ==
    /\ Len(tasks) <= 1
    /\ kind # "timer" /\ ~registered => tasks = <<>>
    /\ kind = "timer" => cache = <<>> /\ ~registered
    /\ kind = "timer" /\ tasks # <<>> => w.svc /\ w.fd
    /\ pc # "loop" => Len(tasks) = 1 \/ (kind = "timer" /\ ~w.active)
    /\ w.active /\ readable /\ kind # "inotify" => count > 0
    /\ ~w.svc /\ w.active => ~registered /\ cache = <<>> /\ tasks = <<>> /\ ~readable
    /\ Opened /\ w.active /\ (registered \/ kind = "timer") => Len(tasks) = 1 \/ deaf
    /\ deaf => kind = "inotify"

IndInv == TypeOK /\ Object /\ Queue /\ Tasks /\ FdForgotten /\ KnownFaults

-----------------------------------------------------------------------------
(* The queue. *)

(* Nothing is left behind a single element. *)
LEMMA TailOfOne ==
    ASSUME NEW S, NEW c \in Seq(S), Len(c) = 1
    PROVE  Tail(c) = <<>>
<1>1. c # <<>>
  OBVIOUS
<1>2. Tail(c) \in Seq(S) /\ Len(Tail(c)) = 0
  BY <1>1
<1>3. Tail(c) # <<>> => Len(Tail(c)) \in Nat \ {0}
  BY <1>2, EmptySeq
<1> QED BY <1>2, <1>3

(* An ADD may follow when the event will not be registered. *)
LEMMA QueueAdd ==
    ASSUME NEW c \in Seq(Instructions), NEW r \in BOOLEAN, Alternates(c, r), ~After(c, r),
           NEW d, d = Append(c, [ins |-> "ADD", evts |-> TRUE])
    PROVE  Alternates(d, r) /\ After(d, r)
<1>1. /\ Len(d) = Len(c) + 1 /\ d[Len(c) + 1].ins = "ADD" /\ d # <<>>
      /\ \A k \in 1..Len(c) : d[k] = c[k]
  BY DEF Instructions
<1>2. After(d, r)
  BY <1>1 DEF After
<1>3. \A k \in 1..Len(c) : Before(d, r, k) = Before(c, r, k)
  BY <1>1 DEF Before
<1>4. ~Before(d, r, Len(c) + 1)
  BY <1>1 DEF Before, After
<1>5. \A k \in 1..Len(d) : k \in 1..Len(c) \/ k = Len(c) + 1
  BY <1>1
<1> QED BY <1>1, <1>2, <1>3, <1>4, <1>5 DEF Alternates

(* A REMOVE may follow, with descriptors when the event will be registered. *)
LEMMA QueueRemove ==
    ASSUME NEW c \in Seq(Instructions), NEW r \in BOOLEAN, Alternates(c, r),
           NEW e \in BOOLEAN, After(c, r) => e,
           NEW d, d = Append(c, [ins |-> "REMOVE", evts |-> e])
    PROVE  Alternates(d, r) /\ ~After(d, r)
<1>1. /\ Len(d) = Len(c) + 1 /\ d[Len(c) + 1].ins = "REMOVE" /\ d[Len(c) + 1].evts = e /\ d # <<>>
      /\ \A k \in 1..Len(c) : d[k] = c[k]
  BY DEF Instructions
<1>2. ~After(d, r)
  BY <1>1 DEF After
<1>3. \A k \in 1..Len(c) : Before(d, r, k) = Before(c, r, k)
  BY <1>1 DEF Before
<1>4. Before(d, r, Len(c) + 1) => e
  BY <1>1 DEF Before, After
<1>5. \A k \in 1..Len(d) : k \in 1..Len(c) \/ k = Len(c) + 1
  BY <1>1
<1> QED BY <1>1, <1>2, <1>3, <1>4, <1>5 DEF Alternates

(* The first instruction is an ADD for an event that is not registered or a  *)
(* REMOVE that carries its descriptors if it is.                             *)
LEMMA QueueHead ==
    ASSUME NEW c \in Seq(Instructions), NEW r \in BOOLEAN, Alternates(c, r), c # <<>>
    PROVE  IF c[1].ins = "ADD" THEN ~r ELSE (r => c[1].evts)
<1>1. 1 \in 1..Len(c)
  OBVIOUS
<1> QED BY <1>1 DEF Alternates, Before

(* The rest of the queue continues from what its first instruction leaves. *)
LEMMA QueueTail ==
    ASSUME NEW c \in Seq(Instructions), NEW r \in BOOLEAN, Alternates(c, r), c # <<>>,
           NEW s \in BOOLEAN, s <=> c[1].ins = "ADD"
    PROVE  Alternates(Tail(c), s) /\ (After(Tail(c), s) <=> After(c, r))
<1>1. /\ Len(c) \in Nat /\ Len(c) >= 1 /\ Len(Tail(c)) = Len(c) - 1
      /\ \A k \in 1..(Len(c) - 1) : Tail(c)[k] = c[k + 1]
  OBVIOUS
<1>2. \A k \in 1..Len(Tail(c)) : k + 1 \in 1..Len(c) /\ (Before(Tail(c), s, k) <=> Before(c, r, k + 1))
  BY <1>1 DEF Before
<1>3. Alternates(Tail(c), s)
  BY <1>1, <1>2 DEF Alternates
<1>4. After(Tail(c), s) <=> After(c, r)
  <2>1. CASE Len(c) = 1
    <3>1. Tail(c) = <<>>
      BY <2>1, TailOfOne
    <3> QED BY <3>1, <2>1 DEF After
  <2>2. CASE Len(c) > 1
    <3>1. Tail(c) # <<>> /\ Tail(c)[Len(Tail(c))] = c[Len(c)]
      BY <1>1, <2>2
    <3> QED BY <3>1 DEF After
  <2> QED BY <1>1, <2>1, <2>2
<1> QED BY <1>3, <1>4

(* A registered event that will not be registered in the end has a REMOVE    *)
(* in the queue.                                                             *)
LEMMA RemoveIsQueued ==
    ASSUME NEW c \in Seq(Instructions), ~After(c, TRUE)
    PROVE  \E k \in DOMAIN c : c[k].ins = "REMOVE"
<1>1. c # <<>> /\ c[Len(c)].ins # "ADD"
  BY DEF After
<1>2. Len(c) \in DOMAIN c /\ c[Len(c)] \in Instructions
  BY <1>1
<1> QED BY <1>1, <1>2 DEF Instructions

-----------------------------------------------------------------------------
(* Types. *)

(* What the next read does to the deque and to the process. *)
LEMMA SubmitsTypes ==
    ASSUME Queues, tasks # <<>>, NEW k \in TaskKinds, Submits(k)
    PROVE  tasks' \in Seq(TaskKinds)
<1>1. Tail(tasks) \in Seq(TaskKinds)
  BY DEF Queues
<1> QED BY <1>1 DEF Submits, Queues

(* The first read is submitted with its callback or without. *)
LEMMA FirstReadSubmits ==
    ASSUME FirstRead
    PROVE  \E k \in TaskKinds : Submits(k)
  BY Zenon DEF FirstRead, TaskKinds

(* A read of an inotify descriptor keeps its task, or fails and drops it. *)
LEMMA InotifyReadDoes ==
    ASSUME InotifyRead, count \in Nat
    PROVE  /\ Up /\ kind = "inotify" /\ pc = "loop" /\ tasks # <<>> /\ number = "source"
           /\ UNCHANGED <<kind, w, th, cache, registered, number, fault>>
           /\ count' \in Nat /\ (readable' = readable \/ readable' = FALSE)
           /\ \/ tasks' = tasks /\ deaf' = deaf
              \/ tasks' = Tail(tasks) /\ deaf' = TRUE /\ pc' = pc
<1>1. PICK n \in 0..count : InotifyTakes(n)
  BY DEF InotifyRead, InotifyEmptied, InotifyFull, InotifyFails
<1>2. /\ Up /\ kind = "inotify" /\ pc = "loop" /\ tasks # <<>> /\ number = "source"
      /\ UNCHANGED <<kind, w, th, cache, registered, number, fault>>
  BY <1>1 DEF InotifyTakes, Tries, object, threads
<1>3. count' \in Nat
  BY <1>1 DEF InotifyTakes
<1>4. /\ readable' = readable \/ readable' = FALSE
      /\ \/ tasks' = tasks /\ deaf' = deaf
         \/ tasks' = Tail(tasks) /\ deaf' = TRUE /\ pc' = pc
  BY Zenon DEF InotifyRead, InotifyEmptied, InotifyFull, InotifyFails
<1> QED BY <1>2, <1>3, <1>4

(* Every step keeps the fields of the source in their ranges. *)
LEMMA StepFields == Fields /\ [Next]_vars => Fields'
<1> SUFFICES ASSUME Fields, [Next]_vars PROVE Fields'
  OBVIOUS
<1>1. CASE ProcessInstruction
  BY <1>1 DEF ProcessInstruction, AddInstr, RemoveInstr, Fields
<1>2. CASE Open
  BY <1>2 DEF Open, OpenNotifier, OpenInotify, OpenSignal, OpenTimer, Registers, Fields
<1>3. CASE Close
  BY <1>3 DEF Close, CloseNotifier, CloseInotify, CloseSignal, CloseTimer, Fields
<1>4. ASSUME NEW t \in Threads, CloseEvts(t) \/ CloseCb(t) \/ CloseForget(t) \/ CloseState(t)
      PROVE  Fields'
  BY <1>4 DEF CloseEvts, CloseCb, CloseForget, CloseState, Fields
<1>5. ASSUME UNCHANGED w PROVE Fields'
  BY <1>5 DEF Fields
<1>6. CASE \/ Report \/ NextEvent \/ AddWatch \/ RemoveWatch \/ Happens \/ Reuse \/ UNCHANGED vars
           \/ ReadReady \/ ReadDone \/ ReadFails \/ BareReadDone \/ InotifyRead \/ HandlerReturns
  BY <1>5, <1>6 DEF Report, NextEvent, AddWatch, RemoveWatch, Happens, Reuse, vars, ReadReady, ReadDone,
                    ReadFails, BareReadDone, HandlerReturns, object, InotifyRead, InotifyEmptied, InotifyFull,
                    InotifyFails, InotifyTakes
<1>7. ASSUME NEW t \in Threads, NotifyCall(t) \/ NotifyWrite(t) \/ CloseCall(t) \/ CloseRemove(t) \/ ClosePush(t)
                              \/ CloseFd(t) \/ CloseNumber(t)
      PROVE  Fields'
  BY <1>5, <1>7 DEF NotifyCall, NotifyWrite, CloseCall, CloseRemove, ClosePush, CloseFd, CloseNumber, object
<1> QED BY <1>1, <1>2, <1>3, <1>4, <1>6, <1>7 DEF Next, LoopStep, ThreadStep

(* A thread that moves is the only one that does. *)
LEMMA GotoMoves ==
    ASSUME Positions, NEW t \in Threads, NEW from, NEW to, Goto(t, from, to)
    PROVE  /\ Positions' /\ th[t] = from /\ th'[t] = to /\ kind = "notifier" /\ Up
           /\ \A u \in Threads : u # t => th'[u] = th[u]
  BY DEF Goto, Positions

(* Threads take their steps one at a time, and nothing else moves them. *)
LEMMA StepPositions == Positions /\ [Next]_vars => Positions'
<1> SUFFICES ASSUME Positions, [Next]_vars PROVE Positions'
  OBVIOUS
<1>1. ASSUME NEW t \in Threads, ThreadStep(t) PROVE Positions'
  BY <1>1, GotoMoves DEF ThreadStep, NotifyCall, NotifyWrite, CloseCall, CloseRemove, ClosePush, CloseEvts,
                         CloseCb, CloseFd, CloseNumber, CloseForget, CloseState
<1>2. ASSUME UNCHANGED th PROVE Positions'
  BY <1>2 DEF Positions
<1>3. CASE LoopStep
  BY <1>2, <1>3 DEF LoopStep, Report, ProcessInstruction, ReadReady, ReadDone, ReadFails, BareReadDone, NextEvent,
                    HandlerReturns, threads, InotifyRead, InotifyEmptied, InotifyFull, InotifyFails, InotifyTakes
<1>4. CASE Open \/ Close \/ AddWatch \/ RemoveWatch \/ Happens \/ Reuse \/ UNCHANGED vars
  BY <1>2, <1>4 DEF Open, Close, AddWatch, RemoveWatch, Happens, Reuse, vars, threads
<1> QED BY <1>1, <1>3, <1>4 DEF Next

(* The deque and the queue hold what they are meant to. *)
LEMMA StepQueues == IndInv /\ [Next]_vars => Queues'
<1> SUFFICES ASSUME IndInv, [Next]_vars PROVE Queues'
  OBVIOUS
<1>1. Queues /\ w.evts \in BOOLEAN
  BY DEF IndInv, TypeOK, Fields
<1>2. \A e \in BOOLEAN : Removes(cache, e) \in Seq(Instructions)
  BY <1>1 DEF Removes, Queues, Instructions
<1>3. CASE ProcessInstruction
  <2>1. cache' \in Seq(Instructions)
    BY <1>1, <1>3 DEF ProcessInstruction, Queues
  <2>2. Append(tasks, "poll") \in Seq(TaskKinds) /\ <<>> \in Seq(TaskKinds)
    BY <1>1 DEF Queues, TaskKinds
  <2>3. tasks' \in {tasks, <<>>, Append(tasks, "poll")}
    BY <1>3 DEF ProcessInstruction, AddInstr, RemoveInstr
  <2> QED BY <1>1, <2>1, <2>2, <2>3 DEF Queues
<1>4. CASE ReadReady
  BY <1>1, <1>4, SubmitsTypes, FirstReadSubmits DEF ReadReady, Tries, Queues
<1>5. CASE ReadDone \/ ReadFails
  <2>1. tasks # <<>> /\ tasks' \in {tasks, Tail(tasks)} /\ UNCHANGED cache
    BY <1>5, Zenon DEF ReadDone, ReadFails, Tries
  <2> QED BY <1>1, <2>1 DEF Queues
<1>11. CASE BareReadDone
  BY <1>1, <1>11, SubmitsTypes, FirstReadSubmits DEF BareReadDone, Tries, Queues
<1>12. CASE InotifyRead
  <2>1. tasks # <<>> /\ tasks' \in {tasks, Tail(tasks)} /\ UNCHANGED cache
    BY <1>12, Zenon DEF InotifyRead, InotifyEmptied, InotifyFull, InotifyFails, InotifyTakes, Tries
  <2> QED BY <1>1, <2>1 DEF Queues
<1>6. CASE HandlerReturns
  <2>1. UNCHANGED tasks \/ (tasks # <<>> /\ Submits("read"))
    BY <1>6 DEF HandlerReturns, Goes, IndInv, Tasks
  <2>2. "read" \in TaskKinds
    BY DEF TaskKinds
  <2> QED BY <1>1, <1>6, <2>1, <2>2, SubmitsTypes DEF HandlerReturns, Queues
<1>7. CASE Open
  <2>1. Append(cache, [ins |-> "ADD", evts |-> TRUE]) \in Seq(Instructions) /\ <<"read">> \in Seq(TaskKinds)
    BY <1>1 DEF Queues, Instructions, TaskKinds
  <2> QED BY <1>1, <1>7, <2>1 DEF Open, OpenNotifier, OpenInotify, OpenSignal, OpenTimer, Registers, Queues
<1>8. CASE Close
  <2>1. tasks' \in {tasks, <<>>} /\ cache' \in {cache, Removes(cache, w.evts)}
    BY <1>8 DEF Close, CloseNotifier, CloseInotify, CloseSignal, CloseTimer, Unregisters
  <2>2. <<>> \in Seq(TaskKinds)
    OBVIOUS
  <2> QED BY <1>1, <1>2, <2>1, <2>2 DEF Queues
<1>9. CASE Report \/ NextEvent \/ AddWatch \/ RemoveWatch \/ Happens \/ Reuse \/ UNCHANGED vars
  BY <1>1, <1>9 DEF Report, NextEvent, AddWatch, RemoveWatch, Happens, Reuse, vars, poller, Queues
<1>10. ASSUME NEW t \in Threads, ThreadStep(t) PROVE Queues'
  <2>1. tasks' = tasks /\ cache' \in {cache, Removes(cache, TRUE), Removes(cache, FALSE)}
    BY <1>10 DEF ThreadStep, NotifyCall, NotifyWrite, CloseCall, CloseRemove, ClosePush, CloseEvts, CloseCb,
                 CloseFd, CloseNumber, CloseForget, CloseState, poller
  <2> QED BY <1>1, <1>2, <2>1 DEF Queues
<1> QED BY <1>3, <1>4, <1>5, <1>6, <1>7, <1>8, <1>9, <1>10, <1>11, <1>12 DEF Next, LoopStep

(* The types are kept; kind never changes. *)
LEMMA StepTypeOK == IndInv /\ [Next]_vars => TypeOK'
<1> SUFFICES ASSUME IndInv, [Next]_vars PROVE TypeOK'
  OBVIOUS
<1>1. Fields' /\ Positions' /\ Queues'
  BY StepFields, StepPositions, StepQueues DEF IndInv, TypeOK
<1>2. TypeOK
  BY DEF IndInv
<1>3. CASE InotifyRead
  BY <1>1, <1>2, <1>3, InotifyReadDoes DEF TypeOK
<1>4. ASSUME ~InotifyRead PROVE kind' = kind /\ readable' \in BOOLEAN
  BY <1>2, <1>4 DEF TypeOK, Next, LoopStep, ThreadStep, Report, ProcessInstruction, ReadReady, ReadDone, ReadFails, BareReadDone, NextEvent,
         HandlerReturns, Open, Close, AddWatch, RemoveWatch, Happens, Reuse, NotifyCall, NotifyWrite, CloseCall,
         CloseRemove, ClosePush, CloseEvts, CloseCb, CloseFd, CloseNumber, CloseForget, CloseState,
         vars, object, poller
<1>5. ASSUME ~InotifyRead PROVE registered' \in BOOLEAN /\ deaf' \in BOOLEAN
  BY <1>2, <1>5 DEF TypeOK, Next, LoopStep, ThreadStep, Report, ProcessInstruction, ReadReady, ReadDone, ReadFails, BareReadDone, NextEvent,
         HandlerReturns, Open, Close, AddWatch, RemoveWatch, Happens, Reuse, NotifyCall, NotifyWrite, CloseCall,
         CloseRemove, ClosePush, CloseEvts, CloseCb, CloseFd, CloseNumber, CloseForget, CloseState,
         vars, poller, AddInstr, RemoveInstr, history
<1>6. ASSUME ~InotifyRead PROVE count' \in {count, count + 1, 0} \/ (count > 0 /\ count' = count - 1)
  BY <1>6 DEF Next, LoopStep, ThreadStep, Report, ProcessInstruction, ReadReady, ReadDone, ReadFails, BareReadDone, NextEvent,
         HandlerReturns, Open, Close, AddWatch, RemoveWatch, Happens, Reuse, NotifyCall, NotifyWrite, CloseCall,
         CloseRemove, ClosePush, CloseEvts, CloseCb, CloseFd, CloseNumber, CloseForget, CloseState,
         vars, kernel, Taken, Gives, Left
<1>7. ASSUME ~InotifyRead PROVE count' \in Nat
  BY <1>2, <1>6, <1>7 DEF TypeOK
<1> QED BY <1>1, <1>2, <1>3, <1>4, <1>5, <1>7 DEF TypeOK

-----------------------------------------------------------------------------
(* The source and its threads. *)

(* The descriptor, the service and fds_evts_ of the source are given up in   *)
(* the order of notifier::close, whichever threads close.                    *)
LEMMA StepObject == IndInv /\ [Next]_vars => Object'
<1> SUFFICES ASSUME IndInv, [Next]_vars PROVE Object'
  OBVIOUS
<1>1. Object /\ Fields /\ Positions
  BY DEF IndInv, TypeOK
<1>2. ASSUME UNCHANGED <<kind, th>>, w'.fd = w.fd, w'.svc = w.svc, w'.evts = w.evts, number' = number \/ number' # "source"
      PROVE  Object'
  BY <1>1, <1>2 DEF Object
<1>3. CASE ProcessInstruction
  BY <1>1, <1>2, <1>3 DEF ProcessInstruction, AddInstr, RemoveInstr, Fields, kernel, threads
<1>4. CASE Open
  <2>1. \A t \in Threads : th[t] = "idle"
    BY <1>1, <1>4 DEF Open, Object
  <2>2. w'.svc /\ w'.fd /\ UNCHANGED <<kind, th>> /\ (kind = "timer" => w'.evts = w.evts)
    BY <1>1, <1>4 DEF Open, OpenNotifier, OpenInotify, OpenSignal, OpenTimer, Registers, Fields
  <2> QED BY <1>1, <2>1, <2>2 DEF Object
<1>5. CASE Close
  <2>1. /\ ~w'.fd /\ ~w'.evts /\ UNCHANGED <<kind, th>> /\ number' # "source"
        /\ w'.svc = w.svc \/ kind = "signal"
    BY <1>1, <1>5 DEF Close, CloseNotifier, CloseInotify, CloseSignal, CloseTimer, Fields, Object, threads
  <2> QED BY <1>1, <2>1 DEF Object
<1>6. CASE \/ Report \/ NextEvent \/ AddWatch \/ RemoveWatch \/ Happens \/ UNCHANGED vars
           \/ ReadReady \/ ReadDone \/ ReadFails \/ BareReadDone \/ HandlerReturns \/ Reuse
  BY <1>2, <1>6 DEF Report, NextEvent, AddWatch, RemoveWatch, Happens, Reuse, vars, ReadReady, ReadDone,
                    ReadFails, BareReadDone, HandlerReturns, object, kernel, threads
<1>8. CASE InotifyRead
  BY <1>2, <1>8, InotifyReadDoes DEF IndInv, TypeOK
<1>7. ASSUME NEW t \in Threads, ThreadStep(t) PROVE Object'
  <2>1. ASSUME NEW from, NEW to, Goto(t, from, to), UNCHANGED kind, w'.svc = w.svc, w.svc,
               w'.evts = w.evts, ~w'.fd => ~w'.evts,
               to \in {"cb", "fd", "close", "forget"} => ~w.evts
        PROVE  Object'
    BY <1>1, <2>1, GotoMoves DEF Object
  <2>2. CASE NotifyCall(t)
    BY <1>1, <2>1, <2>2 DEF NotifyCall, object, Object
  <2>3. CASE NotifyWrite(t)
    BY <1>1, <2>1, <2>3 DEF NotifyWrite, object, Object, Goto
  <2>4. CASE CloseCall(t)
    BY <1>1, <2>1, <2>4 DEF CloseCall, object, Object
  <2>5. CASE CloseEvts(t)
    <3>1. w'.svc = w.svc /\ w.svc /\ ~w'.evts /\ UNCHANGED kind
      BY <1>1, <2>5 DEF CloseEvts, Goto, Object, Fields
    <3> QED BY <1>1, <2>5, <3>1, GotoMoves DEF CloseEvts, Object
  <2>10. CASE CloseRemove(t)
    BY <1>1, <2>1, <2>10 DEF CloseRemove, object, Object, Goto
  <2>11. CASE ClosePush(t)
    BY <1>1, <2>1, <2>11 DEF ClosePush, object, Object, Goto
  <2>12. CASE CloseCb(t)
    BY <1>1, <2>1, <2>12 DEF CloseCb, Object, Goto, Fields
  <2>6. CASE CloseFd(t)
    BY <1>1, <2>1, <2>6 DEF CloseFd, object, Object, Goto
  <2>7. CASE CloseNumber(t)
    BY <1>1, <2>1, <2>7 DEF CloseNumber, object, Object, Goto
  <2>8. CASE CloseForget(t)
    BY <1>1, <2>1, <2>8 DEF CloseForget, Object, Goto, Fields
  <2>9. CASE CloseState(t)
    BY <1>1, <2>1, <2>9 DEF CloseState, Object, Goto, Fields
  <2> QED BY <1>7, <2>2, <2>3, <2>4, <2>5, <2>6, <2>7, <2>8, <2>9, <2>10, <2>11, <2>12 DEF ThreadStep
<1> QED BY <1>3, <1>4, <1>5, <1>6, <1>7, <1>8 DEF Next, LoopStep

(* The queue keeps alternating: an ADD comes from an open after a close, and *)
(* fds_evts_ is emptied only after a REMOVE that took it along.              *)
LEMMA StepQueue == IndInv /\ [Next]_vars => Queue'
<1> SUFFICES ASSUME IndInv, [Next]_vars PROVE Queue'
  OBVIOUS
<1>1. /\ Queue /\ Object /\ Fields /\ cache \in Seq(Instructions) /\ registered \in BOOLEAN /\ w.evts \in BOOLEAN
      /\ kind = "timer" => cache = <<>> /\ ~registered
  BY DEF IndInv, TypeOK, Queues, Fields, Tasks
<1>2. ASSUME UNCHANGED <<cache, registered, th>>, w'.evts = w.evts PROVE Queue'
  BY <1>1, <1>2 DEF Queue
<1>3. ASSUME NEW e \in BOOLEAN, After(cache, registered) => e, cache' = Removes(cache, e), UNCHANGED registered
      PROVE  Alternates(cache', registered') /\ ~After(cache', registered')
  BY <1>1, <1>3, QueueRemove DEF Queue, Removes
<1>4. CASE ProcessInstruction
  <2>1. w'.evts = w.evts /\ cache # <<>> /\ cache' = Tail(cache) /\ UNCHANGED th
    BY <1>1, <1>4 DEF ProcessInstruction, AddInstr, RemoveInstr, Fields, threads
  <2>2. registered' \in BOOLEAN /\ (registered' <=> cache[1].ins = "ADD")
    BY <1>4 DEF ProcessInstruction, AddInstr, RemoveInstr
  <2> QED BY <1>1, <2>1, <2>2, QueueTail DEF Queue
<1>5. CASE Open
  <2>1. CASE kind = "timer"
    BY <1>1, <1>2, <1>5, <2>1 DEF Open, OpenNotifier, OpenInotify, OpenSignal, OpenTimer, Fields
  <2>2. CASE kind # "timer"
    <3>1. /\ w'.evts = TRUE /\ UNCHANGED <<registered, th>> /\ \A t \in Threads : th[t] = "idle"
          /\ cache' = Append(cache, [ins |-> "ADD", evts |-> TRUE])
      BY <1>1, <1>5, <2>2 DEF Open, OpenNotifier, OpenInotify, OpenSignal, OpenTimer, Registers, Fields, Object
    <3>2. ~After(cache, registered)
      BY <1>1, <1>5 DEF Open, Object, Queue
    <3> QED BY <1>1, <3>1, <3>2, QueueAdd DEF Queue
  <2> QED BY <2>1, <2>2
<1>6. CASE Close
  <2>1. CASE kind = "timer"
    BY <1>1, <1>2, <1>6, <2>1 DEF Close, CloseNotifier, CloseInotify, CloseSignal, CloseTimer, Fields, threads
  <2>2. CASE kind # "timer"
    <3>1. cache' = Removes(cache, w.evts) /\ UNCHANGED <<registered, th>>
      BY <1>6, <2>2 DEF Close, CloseNotifier, CloseInotify, CloseSignal, CloseTimer, Unregisters, threads
    <3> QED BY <1>1, <1>3, <3>1 DEF Queue
  <2> QED BY <2>1, <2>2
<1>7. CASE \/ Report \/ NextEvent \/ AddWatch \/ RemoveWatch \/ Happens \/ UNCHANGED vars
           \/ ReadReady \/ ReadDone \/ ReadFails \/ BareReadDone \/ HandlerReturns \/ Reuse
  BY <1>2, <1>7 DEF Report, NextEvent, AddWatch, RemoveWatch, Happens, Reuse, vars, ReadReady, ReadDone,
                    ReadFails, BareReadDone, HandlerReturns, object, poller, threads
<1>9. CASE InotifyRead
  BY <1>2, <1>9, InotifyReadDoes DEF IndInv, TypeOK
<1>8. ASSUME NEW t \in Threads, ThreadStep(t) PROVE Queue'
  <2>1. ASSUME NEW from, NEW to, Goto(t, from, to), UNCHANGED <<cache, registered>>, w'.evts = w.evts,
               to \in {"pushEmpty", "evts"} => ~w.evts
        PROVE  Queue'
    <3>1. th'[t] = to /\ \A u \in Threads : u # t => th'[u] = th[u]
      BY <1>1, <2>1, GotoMoves DEF IndInv, TypeOK
    <3>2. ASSUME NEW u \in Threads, th'[u] \in {"pushEmpty", "evts"} PROVE ~After(cache, registered)
      BY <1>1, <2>1, <3>1, <3>2 DEF Queue
    <3> QED BY <1>1, <2>1, <3>2 DEF Queue
  <2>2. CASE NotifyCall(t) \/ NotifyWrite(t) \/ CloseCall(t) \/ CloseFd(t) \/ CloseNumber(t)
    BY <2>1, <2>2 DEF NotifyCall, NotifyWrite, CloseCall, CloseFd, CloseNumber, object, poller
  <2>3. CASE CloseCb(t) \/ CloseForget(t) \/ CloseState(t)
    BY <1>1, <2>1, <2>3 DEF CloseCb, CloseForget, CloseState, poller, Fields
  <2>4. CASE CloseRemove(t)
    BY <2>1, <2>4 DEF CloseRemove, object, poller
  <2>5. CASE ClosePush(t)
    <3>1. PICK copied \in BOOLEAN : /\ Goto(t, IF copied THEN "push" ELSE "pushEmpty", "evts")
                                    /\ cache' = Removes(cache, copied)
      BY <2>5 DEF ClosePush
    <3>2. UNCHANGED registered
      BY <2>5 DEF ClosePush
    <3>3. After(cache, registered) => copied
      BY <1>1, <3>1 DEF Queue, Goto
    <3>4. Alternates(cache', registered') /\ ~After(cache', registered')
      BY <1>3, <3>1, <3>2, <3>3
    <3> QED BY <3>4 DEF Queue
  <2>6. CASE CloseEvts(t)
    <3>1. Goto(t, "evts", "cb") /\ UNCHANGED <<cache, registered>>
      BY <2>6 DEF CloseEvts, poller
    <3>2. ~After(cache, registered)
      BY <1>1, <3>1 DEF Queue, Goto
    <3> QED BY <1>1, <3>1, <3>2 DEF Queue
  <2> QED BY <1>8, <2>2, <2>3, <2>4, <2>5, <2>6 DEF ThreadStep
<1> QED BY <1>4, <1>5, <1>6, <1>7, <1>8, <1>9 DEF Next, LoopStep

-----------------------------------------------------------------------------
(* The deque of the poller. *)

(* The next read takes the place of the task that called back, unless the    *)
(* process is lost.                                                          *)
LEMMA SubmitsOne ==
    ASSUME Queues, Len(tasks) = 1, NEW k, Submits(k)
    PROVE  Len(tasks') = 1
<1>1. Tail(tasks) = <<>>
  BY TailOfOne DEF Queues
<1>2. \A x : Len(Append(<<>>, x)) = 1
  OBVIOUS
<1> QED BY <1>1, <1>2 DEF Submits

(* A thread that stops closing leaves the source without a descriptor. *)
LEMMA StaysOpened ==
    ASSUME IndInv, NEW t \in Threads, ThreadStep(t)
    PROVE  Opened' => Opened
<1>1. Fields /\ Positions
  BY DEF IndInv, TypeOK
<1>2. ASSUME NEW from, NEW to, Goto(t, from, to), w'.fd = w.fd, w'.svc = w.svc,
             from \in {"evts", "cb", "fd", "close", "forget"} =>
                 to \in {"evts", "cb", "fd", "close", "forget"} \/ ~w.fd
      PROVE  Opened' => Opened
  BY <1>1, <1>2, GotoMoves DEF Opened, Closing
<1>3. CASE NotifyCall(t)
  BY <1>2, <1>3 DEF NotifyCall, object
<1>4. CASE NotifyWrite(t)
  BY <1>2, <1>4 DEF NotifyWrite, object
<1>5. CASE CloseCall(t)
  BY <1>2, <1>5 DEF CloseCall, object
<1>6. CASE CloseRemove(t) \/ ClosePush(t)
  BY <1>2, <1>6 DEF CloseRemove, ClosePush, object
<1>11. CASE CloseEvts(t) \/ CloseCb(t)
  BY <1>1, <1>2, <1>11 DEF CloseEvts, CloseCb, Fields
<1>7. CASE CloseFd(t)
  BY <1>2, <1>7 DEF CloseFd, object
<1>8. CASE CloseNumber(t)
  BY <1>2, <1>8 DEF CloseNumber, object
<1>9. CASE CloseForget(t)
  BY <1>1, <1>9 DEF CloseForget, Opened, Fields
<1>10. CASE CloseState(t)
  BY <1>1, <1>2, <1>10 DEF CloseState, Fields
<1> QED BY <1>3, <1>4, <1>5, <1>6, <1>7, <1>8, <1>9, <1>10, <1>11 DEF ThreadStep

(* One task: an ADD brings the first into an empty deque, a callback         *)
(* replaces its own, a REMOVE or a timer's close takes it away, and a read   *)
(* that ends the chain is one of a source that is closed or inactive, or of  *)
(* an inotify, which is deaf from then on.                                   *)
LEMMA StepTasks == IndInv /\ [Next]_vars => Tasks'
<1> SUFFICES ASSUME IndInv, [Next]_vars PROVE Tasks'
  OBVIOUS
<1>1. /\ Tasks /\ Object /\ Queue /\ Fields /\ Positions /\ Queues /\ count \in Nat
      /\ tasks \in Seq(TaskKinds) /\ cache \in Seq(Instructions)
      /\ registered \in BOOLEAN /\ readable \in BOOLEAN /\ deaf \in BOOLEAN
      /\ w.active \in BOOLEAN /\ w.fd \in BOOLEAN /\ w.svc \in BOOLEAN
  BY DEF IndInv, TypeOK, Queues, Fields
<1>2. Opened => number = "source"
  BY DEF IndInv, FdForgotten, Opened, Closing
<1>3. tasks # <<>> => Len(tasks) = 1
  <2>1. tasks # <<>> => Len(tasks) \in Nat \ {0}
    BY <1>1, EmptySeq
  <2>2. Len(tasks) <= 1
    BY <1>1 DEF Tasks
  <2>3. tasks # <<>> => Len(tasks) >= 1 /\ Len(tasks) \in Int
    BY <2>1
  <2> QED BY <2>2, <2>3
<1>4. CASE ProcessInstruction
  <2>1. /\ UNCHANGED <<kind, th, readable, count, pc, deaf>> /\ w'.svc = w.svc /\ w'.fd = w.fd /\ w'.active = w.active
        /\ pc = "loop" /\ cache # <<>>
    BY <1>1, <1>4 DEF ProcessInstruction, AddInstr, RemoveInstr, Fields, kernel, run, threads, history
  <2>2. kind # "timer" /\ (w.svc \/ ~w.active)
    BY <1>1, <2>1 DEF Tasks
  <2>3. CASE cache[1].ins = "ADD"
    <3>1. ~registered /\ tasks = <<>>
      BY <1>1, <2>1, <2>2, <2>3, QueueHead DEF Queue, Tasks
    <3>2. registered' = TRUE /\ tasks' = Append(tasks, "poll")
      BY <1>4, <2>3, <3>1 DEF ProcessInstruction, AddInstr, Inserted
    <3>3. Len(tasks') = 1
      BY <3>1, <3>2
    <3> QED BY <1>1, <2>1, <2>2, <3>2, <3>3 DEF Tasks
  <2>4. CASE cache[1].ins # "ADD"
    <3>1. registered => cache[1].evts
      BY <1>1, <2>1, <2>4, QueueHead DEF Queue
    <3>2. registered' = FALSE /\ tasks' = <<>>
      BY <1>1, <1>4, <2>2, <2>4, <3>1 DEF ProcessInstruction, RemoveInstr, Tasks
    <3> QED BY <1>1, <2>1, <2>2, <3>2 DEF Tasks
  <2> QED BY <2>3, <2>4
<1>5. ASSUME UNCHANGED <<kind, w, th, registered, cache>>, tasks # <<>> \/ tasks' = tasks,
             Len(tasks') = Len(tasks) \/ (Len(tasks') = 0 /\ (deaf' \/ ~(Opened /\ w.active /\ (registered \/ kind = "timer")))),
             deaf' = deaf \/ (deaf' /\ kind = "inotify"),
             tasks' \in Seq(TaskKinds),
             pc' # "loop" => Len(tasks') = 1 \/ (kind = "timer" /\ ~w.active),
             w.active /\ readable' /\ kind # "inotify" => count' > 0, readable' => readable \/ w.svc
      PROVE  Tasks'
  <2>1. Opened' = Opened
    BY <1>5 DEF Opened, Closing
  <2>2. Len(tasks') \in Nat /\ Len(tasks') <= Len(tasks)
    BY <1>1, <1>5
  <2>3. tasks = <<>> => tasks' = <<>>
    BY <1>5
  <2> QED BY <1>1, <1>5, <2>1, <2>2, <2>3 DEF Tasks
<1>6. w.active /\ readable /\ kind # "inotify" => count > 0
  BY <1>1 DEF Tasks
<1>7. pc # "loop" => Len(tasks) = 1 \/ (kind = "timer" /\ ~w.active)
  BY <1>1 DEF Tasks
<1>8. CASE Report
  BY <1>1, <1>5, <1>7, <1>8 DEF Report, Object, object, kernel, run, threads, history
<1>9. CASE ReadReady
  <2>1. Len(tasks) = 1 /\ tasks # <<>> /\ FirstRead
    BY <1>3, <1>9 DEF ReadReady, Tries
  <2>2. Len(tasks') = 1 /\ tasks' \in Seq(TaskKinds)
    BY <1>1, <2>1, FirstReadSubmits, SubmitsOne, SubmitsTypes
  <2>3. UNCHANGED <<kind, w, th, registered, cache, pc, readable, count, deaf>> /\ pc = "loop"
    BY <1>9 DEF ReadReady, Tries, object, kernel, run, threads
  <2> QED BY <1>5, <1>6, <2>1, <2>2, <2>3
<1>17. CASE BareReadDone
  <2>1. Len(tasks) = 1 /\ tasks # <<>> /\ FirstRead
    BY <1>3, <1>17 DEF BareReadDone, Tries
  <2>2. Len(tasks') = 1 /\ tasks' \in Seq(TaskKinds)
    BY <1>1, <2>1, FirstReadSubmits, SubmitsOne, SubmitsTypes
  <2>3. UNCHANGED <<kind, w, th, registered, cache, pc, deaf>> /\ pc = "loop" /\ readable' = FALSE
    BY <1>17 DEF BareReadDone, Tries, object, run, threads
  <2> QED BY <1>5, <2>1, <2>2, <2>3
<1>18. CASE InotifyRead
  <2>1. /\ kind = "inotify" /\ pc = "loop" /\ Len(tasks) = 1 /\ tasks # <<>>
        /\ UNCHANGED <<kind, w, th, registered, cache>>
    BY <1>1, <1>3, <1>18, InotifyReadDoes
  <2>4. readable' => readable
    BY <1>1, <1>18, InotifyReadDoes, Zenon
  <2>2. CASE tasks' = tasks /\ deaf' = deaf
    <3>1. Len(tasks') = 1 /\ Len(tasks') = Len(tasks) /\ tasks' \in Seq(TaskKinds)
      BY <1>1, <2>1, <2>2
    <3> QED BY <1>5, <2>1, <2>2, <2>4, <3>1
  <2>3. CASE tasks' = Tail(tasks) /\ deaf' = TRUE /\ pc' = pc
    <3>1. Len(tasks') = 0 /\ tasks' \in Seq(TaskKinds)
      BY <1>1, <2>1, <2>3
    <3> QED BY <1>5, <2>1, <2>3, <2>4, <3>1
  <2> QED BY <1>1, <1>18, <2>2, <2>3, InotifyReadDoes
<1>10. CASE ReadDone
  <2>1. Len(tasks) = 1 /\ tasks # <<>> /\ readable' = FALSE /\ UNCHANGED <<kind, w, th, registered, cache, deaf>>
    BY <1>3, <1>10 DEF ReadDone, Tries, object, threads
  <2>2. CASE kind \in {"signal", "timer"} /\ ~w.active
    <3>1. tasks' = Tail(tasks) /\ pc' = "loop"
      BY <1>10, <2>2 DEF ReadDone, Tries
    <3>2. Len(tasks') = 0 /\ tasks' \in Seq(TaskKinds)
      BY <1>1, <2>1, <3>1
    <3> QED BY <1>5, <2>1, <2>2, <3>1, <3>2
  <2>3. CASE ~(kind \in {"signal", "timer"} /\ ~w.active)
    <3>1. tasks' = tasks
      BY <1>10, <2>3 DEF ReadDone
    <3> QED BY <1>1, <1>5, <2>1, <3>1
  <2> QED BY <2>2, <2>3
<1>11. CASE ReadFails
  <2>1. /\ Len(tasks) = 1 /\ tasks # <<>> /\ readable /\ readable' = (kind = "inotify")
        /\ UNCHANGED <<kind, w, th, registered, cache, pc, deaf>>
    BY <1>3, <1>11 DEF ReadFails, Tries, object, threads, run, history
  <2>2. Len(tasks') = 0 /\ tasks' \in Seq(TaskKinds) /\ pc = "loop"
    BY <1>1, <1>11, <2>1 DEF ReadFails, Tries
  <2>3. ~(Opened /\ w.active)
    BY <1>2, <1>6, <1>11, <2>1 DEF ReadFails, GivesNot
  <2> QED BY <1>5, <2>1, <2>2, <2>3
<1>12. CASE HandlerReturns
  <2>1. UNCHANGED <<kind, w, th, registered, cache, readable, count, deaf>>
    BY <1>12 DEF HandlerReturns, object, kernel, threads
  <2>2. CASE tasks' = tasks
    BY <1>1, <1>5, <1>6, <1>7, <1>12, <2>1, <2>2 DEF HandlerReturns
  <2>3. CASE tasks' # tasks
    <3>0. pc # "loop" /\ pc' = "loop" /\ Goes
      BY <1>12, <2>3 DEF HandlerReturns
    <3>1. pc' = "loop" /\ Submits("read") /\ Len(tasks) = 1 /\ tasks # <<>>
      BY <1>7, <2>3, <3>0, EmptySeq DEF Goes
    <3>2. Len(tasks') = 1 /\ tasks' \in Seq(TaskKinds)
      BY <1>1, <3>1, SubmitsOne, SubmitsTypes DEF TaskKinds
    <3> QED BY <1>5, <1>6, <2>1, <3>1, <3>2
  <2> QED BY <2>2, <2>3
<1>13. CASE NextEvent \/ AddWatch \/ RemoveWatch \/ Happens \/ Reuse \/ UNCHANGED vars
  <2>1. /\ UNCHANGED <<kind, w, th, registered, cache, readable, tasks, deaf>> /\ count' \in {count, count + 1}
        /\ pc' # "loop" => pc # "loop"
    BY <1>13 DEF NextEvent, AddWatch, RemoveWatch, Happens, Reuse, vars, object, poller, kernel, run, threads, history
  <2>2. w.active /\ readable' /\ kind # "inotify" => count' > 0
    BY <1>1, <1>6, <2>1
  <2> QED BY <1>1, <1>5, <1>7, <2>1, <2>2
<1>14. CASE Open
  <2>1. UNCHANGED <<kind, registered, readable, pc, deaf>> /\ w'.svc /\ w'.fd /\ w'.active = w.active /\ ~w.svc
    BY <1>1, <1>14 DEF Open, OpenNotifier, OpenInotify, OpenSignal, OpenTimer, Registers, Fields, run
  <2>2. CASE kind = "timer"
    <3>1. tasks' = <<"read">> /\ UNCHANGED cache
      BY <1>14, <2>2 DEF Open, OpenNotifier, OpenInotify, OpenSignal, OpenTimer
    <3>2. Len(tasks') = 1
      BY <3>1
    <3> QED BY <1>1, <2>1, <2>2, <3>1, <3>2 DEF Tasks
  <2>3. CASE kind # "timer"
    <3>1. tasks' = tasks
      BY <1>14, <2>3 DEF Open, OpenNotifier, OpenInotify, OpenSignal, OpenTimer, Registers
    <3> QED BY <1>1, <2>1, <2>3, <3>1 DEF Tasks
  <2> QED BY <2>2, <2>3
<1>15. CASE Close
  <2>1. UNCHANGED <<kind, registered, readable, pc, count, deaf>> /\ ~w'.fd /\ w.svc
    BY <1>1, <1>15 DEF Close, CloseNotifier, CloseInotify, CloseSignal, CloseTimer, Fields
  <2>2. CASE kind = "timer"
    <3>1. tasks' = <<>> /\ UNCHANGED cache /\ ~w'.active
      BY <1>1, <1>15, <2>2 DEF Close, CloseNotifier, CloseInotify, CloseSignal, CloseTimer, Fields
    <3>2. Len(tasks') = 0
      BY <3>1
    <3> QED BY <1>1, <2>1, <2>2, <3>1, <3>2 DEF Tasks
  <2>3. CASE kind # "timer"
    <3>1. tasks' = tasks /\ (w'.active => w'.svc /\ w.active)
      BY <1>1, <1>15, <2>3 DEF Close, CloseNotifier, CloseInotify, CloseSignal, CloseTimer, Unregisters, Fields
    <3> QED BY <1>1, <2>1, <2>3, <3>1 DEF Tasks, Opened
  <2> QED BY <2>2, <2>3
<1>16. ASSUME NEW t \in Threads, ThreadStep(t) PROVE Tasks'
  <2>1. /\ UNCHANGED <<kind, registered, readable, pc, tasks, deaf>> /\ w'.active = w.active /\ w'.svc = w.svc
        /\ count' \in {count, count + 1} /\ w.svc /\ kind = "notifier"
    BY <1>1, <1>16 DEF ThreadStep, NotifyCall, NotifyWrite, CloseCall, CloseRemove, ClosePush, CloseEvts,
                       CloseCb, CloseFd, CloseNumber, CloseForget, CloseState, Goto, Object, Fields, object, poller,
                       kernel, run, history
  <2>2. Opened' => Opened
    BY <1>16, StaysOpened
  <2> QED BY <1>1, <2>1, <2>2 DEF Tasks
<1> QED BY <1>4, <1>8, <1>9, <1>10, <1>11, <1>12, <1>13, <1>14, <1>15, <1>16, <1>17, <1>18
       DEF Next, LoopStep

-----------------------------------------------------------------------------
(* Faults. *)

(* A callback that cannot go on belongs to a registered source without a     *)
(* service or a descriptor, which has given up fds_evts_: a REMOVE is queued. *)
LEMMA SubmitsFault ==
    ASSUME IndInv, Up, tasks # <<>>, NEW task, Submits(task), UNCHANGED <<kind, cache>>
    PROVE  KnownFaults'
<1>1. CASE w.svc /\ w.fd
  BY <1>1 DEF Submits, KnownFaults, Up
<1>2. CASE ~(w.svc /\ w.fd)
  <2>1. kind # "timer" /\ registered /\ ~w.evts
    BY <1>2 DEF IndInv, Tasks, Object
  <2>2. registered = TRUE /\ ~After(cache, TRUE) /\ cache \in Seq(Instructions)
    BY <2>1 DEF IndInv, Queue, TypeOK, Queues
  <2>3. \E k \in DOMAIN cache : cache[k].ins = "REMOVE"
    BY <2>2, RemoveIsQueued
  <2>4. fault' # "pop"
    BY DEF Submits, Up
  <2> QED BY <2>3, <2>4 DEF KnownFaults
<1> QED BY <1>1, <1>2

(* Only ReadReady, BareReadDone and HandlerReturns submit. *)
LEMMA StepKnownFaults == IndInv /\ [Next]_vars => KnownFaults'
<1> SUFFICES ASSUME IndInv, [Next]_vars PROVE KnownFaults'
  OBVIOUS
<1>1. ASSUME UNCHANGED fault, Up PROVE KnownFaults'
  BY <1>1 DEF Up, KnownFaults
<1>2. CASE ReadReady \/ BareReadDone
  BY <1>2, SubmitsFault, FirstReadSubmits DEF ReadReady, BareReadDone, Tries, object
<1>3. CASE HandlerReturns
  <2>1. CASE UNCHANGED fault
    BY <1>1, <1>3, <2>1 DEF HandlerReturns
  <2>2. CASE kind = "timer" /\ ~w.active /\ fault' = "pop"
    BY <1>3, <2>2 DEF HandlerReturns, KnownFaults, object
  <2>3. CASE Submits("read") /\ pc # "loop" /\ ~(kind = "timer" /\ ~w.active)
    <3>1. tasks # <<>>
      BY <2>3, EmptySeq DEF IndInv, Tasks
    <3> QED BY <1>3, <2>3, <3>1, SubmitsFault DEF HandlerReturns, object
  <2> QED BY <1>3, <2>1, <2>2, <2>3 DEF HandlerReturns, Goes
<1>4. CASE Report \/ ProcessInstruction \/ ReadDone \/ ReadFails \/ NextEvent
  BY <1>1, <1>4 DEF Report, ProcessInstruction, ReadDone, ReadFails, Tries, NextEvent, history
<1>8. CASE InotifyRead
  BY <1>1, <1>8, InotifyReadDoes DEF IndInv, TypeOK
<1>5. CASE Open \/ Close \/ AddWatch \/ RemoveWatch \/ Happens \/ Reuse
  BY <1>1, <1>5 DEF Open, Close, AddWatch, RemoveWatch, Happens, Reuse, OnLoop, history
<1>6. ASSUME NEW t \in Threads, ThreadStep(t) PROVE KnownFaults'
  BY <1>1, <1>6 DEF ThreadStep, NotifyCall, NotifyWrite, CloseCall, CloseRemove, ClosePush, CloseEvts, CloseCb,
                    CloseFd, CloseNumber, CloseForget, CloseState, Goto, history
<1>7. CASE UNCHANGED vars
  BY <1>7 DEF IndInv, KnownFaults, vars, object, poller, history
<1> QED BY <1>2, <1>3, <1>4, <1>5, <1>6, <1>7, <1>8 DEF Next, LoopStep

-----------------------------------------------------------------------------
(* fd_ *)

(* A step of another thread: only CloseNumber gives the number away, and it  *)
(* leaves its thread before the assignment that forgets it; a thread that    *)
(* is there stays there until it has made it.                                *)
LEMMA ThreadFdForgotten ==
    ASSUME IndInv, NEW t \in Threads, ThreadStep(t)
    PROVE  FdForgotten'
<1>1. FdForgotten /\ Fields /\ Positions
  BY DEF IndInv, TypeOK
<1>2. ASSUME NEW from, NEW to, Goto(t, from, to), from # "forget", w'.fd = w.fd, number' = number
      PROVE  FdForgotten'
  <2>1. \A u \in Threads : th[u] = "forget" => th'[u] = "forget"
    BY <1>1, <1>2, GotoMoves
  <2> QED BY <1>1, <1>2, <2>1 DEF FdForgotten
<1>3. CASE NotifyCall(t)
  BY <1>2, <1>3 DEF NotifyCall, object, kernel
<1>4. CASE NotifyWrite(t)
  BY <1>2, <1>4 DEF NotifyWrite, object
<1>5. CASE CloseCall(t)
  BY <1>2, <1>5 DEF CloseCall, object, kernel
<1>6. CASE CloseRemove(t) \/ ClosePush(t)
  BY <1>2, <1>6 DEF CloseRemove, ClosePush, object, kernel
<1>11. CASE CloseEvts(t) \/ CloseCb(t)
  BY <1>1, <1>2, <1>11 DEF CloseEvts, CloseCb, Fields, kernel
<1>7. CASE CloseFd(t)
  BY <1>2, <1>7 DEF CloseFd, object, kernel
<1>8. CASE CloseNumber(t)
  BY <1>1, <1>8, GotoMoves DEF CloseNumber, FdForgotten
<1>9. CASE CloseForget(t)
  BY <1>1, <1>9 DEF CloseForget, FdForgotten, Fields
<1>10. CASE CloseState(t)
  BY <1>1, <1>2, <1>10 DEF CloseState, Fields, kernel
<1> QED BY <1>3, <1>4, <1>5, <1>6, <1>7, <1>8, <1>9, <1>10, <1>11 DEF ThreadStep

(* Every other step runs on the loop thread or in the kernel. *)
LEMMA StepFdForgotten == IndInv /\ [Next]_vars => FdForgotten'
<1> SUFFICES ASSUME IndInv, [Next]_vars PROVE FdForgotten'
  OBVIOUS
<1>1. FdForgotten /\ Fields
  BY DEF IndInv, TypeOK
<1>2. ASSUME UNCHANGED <<th, number>>, w'.fd = w.fd PROVE FdForgotten'
  BY <1>1, <1>2 DEF FdForgotten
<1>3. CASE ProcessInstruction
  BY <1>1, <1>2, <1>3 DEF ProcessInstruction, AddInstr, RemoveInstr, Fields, kernel, threads
<1>4. CASE Report \/ ReadReady \/ ReadDone \/ ReadFails \/ BareReadDone \/ NextEvent \/ HandlerReturns
  BY <1>2, <1>4 DEF Report, ReadReady, ReadDone, ReadFails, BareReadDone, NextEvent, HandlerReturns, object, kernel, threads
<1>10. CASE InotifyRead
  BY <1>2, <1>10, InotifyReadDoes DEF IndInv, TypeOK
<1>5. CASE Open
  BY <1>5 DEF Open, FdForgotten
<1>6. CASE Close
  BY <1>1, <1>6 DEF Close, CloseNotifier, CloseInotify, CloseSignal, CloseTimer, Fields, FdForgotten
<1>7. CASE AddWatch \/ RemoveWatch \/ Happens \/ UNCHANGED vars
  BY <1>2, <1>7 DEF AddWatch, RemoveWatch, Happens, vars, object, kernel, threads
<1>8. CASE Reuse
  BY <1>1, <1>8 DEF Reuse, FdForgotten, object, threads
<1>9. ASSUME NEW t \in Threads, ThreadStep(t) PROVE FdForgotten'
  BY <1>9, ThreadFdForgotten
<1> QED BY <1>3, <1>4, <1>5, <1>6, <1>7, <1>8, <1>9, <1>10 DEF Next, LoopStep

-----------------------------------------------------------------------------
(* Before open there is nothing to read. *)
LEMMA InitIndInv == Init => IndInv
<1> SUFFICES ASSUME Init PROVE IndInv
  OBVIOUS
<1>1. TypeOK
  <2>1. Fields /\ Positions
    BY DEF Init, Fields, Positions
  <2>2. Queues
    BY DEF Init, Queues
  <2>3. kind \in {"notifier", "inotify", "signal", "timer"}
    BY WatcherAssumption DEF Init
  <2>4. count \in Nat /\ readable \in BOOLEAN /\ registered \in BOOLEAN /\ deaf \in BOOLEAN
    BY DEF Init
  <2> QED BY <2>1, <2>2, <2>3, <2>4 DEF TypeOK
<1>2. Object /\ FdForgotten /\ KnownFaults
  BY DEF Init, Object, FdForgotten, KnownFaults
<1>3. Queue
  BY DEF Init, Queue, Alternates, After
<1>4. Tasks
  BY DEF Init, Tasks, Opened
<1> QED BY <1>1, <1>2, <1>3, <1>4 DEF IndInv

(* IndInv holds in every reachable state of every instance. *)
THEOREM WatcherInvariant == FairSpec => []IndInv
<1>1. Init => IndInv
  BY InitIndInv
<1>2. IndInv /\ [Next]_vars => IndInv'
  BY StepTypeOK, StepObject, StepQueue, StepTasks, StepFdForgotten, StepKnownFaults DEF IndInv
<1> QED BY <1>1, <1>2, PTL DEF FairSpec

(* For every set of threads: fd_ names a descriptor of the notifier except   *)
(* between the close() inside fd_t::close and the assignment after it, so a  *)
(* notify or close that begins afterwards cannot reach a descriptor that was *)
(* given the number since.                                                   *)
THEOREM FdNeverStale == FairSpec => []FdForgotten
<1>1. IndInv => FdForgotten
  BY DEF IndInv
<1> QED BY <1>1, WatcherInvariant, PTL

(* For any number of threads, events and calls of open and close: a source   *)
(* keeps exactly one task with the poller while it is open and registered,   *)
(* never two; only an inotify can be left without, and only after a read     *)
(* that failed because the next event did not fit the buffer.                *)
THEOREM ExactlyOneRead == FairSpec => []OneRead
<1>1. IndInv => OneRead
  BY DEF IndInv, Tasks, OneRead
<1> QED BY <1>1, WatcherInvariant, PTL

(* For any number of threads, events and calls: a callback is lethal only    *)
(* while the REMOVE of a closed source is queued, or in a timer's handler.   *)
THEOREM OnlyLateCallbacksFail == FairSpec => []KnownFaults
<1>1. IndInv => KnownFaults
  BY DEF IndInv
<1> QED BY <1>1, WatcherInvariant, PTL
=============================================================================
