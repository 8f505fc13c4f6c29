------------------------------ MODULE Watcher ------------------------------
(***************************************************************************)
(* The event sources built on a descriptor and a handler: notifier.cpp,    *)
(* inotify.cpp, signal_event.cpp and timer.cpp, over the event loop and    *)
(* the epoll poller.                                                       *)
(*                                                                         *)
(* All four keep exactly one read with the poller: its callback runs the   *)
(* user's handler and submits the next read.  A notifier, inotify or       *)
(* signal_event is registered by an ADD instruction, whose poll task turns *)
(* into the first read; a timer submits its first read itself.  Threads    *)
(* other than the loop's notify and close a notifier in the steps of the   *)
(* source; everything else runs on the loop thread.                        *)
(*                                                                         *)
(* One source and one descriptor number are enough: what matters is that   *)
(* the number can be open for the source, closed, or reused by another.    *)
(***************************************************************************)
EXTENDS Integers, Sequences

CONSTANTS
    Kinds,      \* subset of {"notifier", "inotify", "signal", "timer"}
    Threads,    \* the other threads
    MaxEvents,  \* bound on the events the kernel holds for the source
    MaxCalls    \* bound on the calls of open and of the other threads

ASSUME WatcherAssumption ==
    /\ Kinds \subseteq {"notifier", "inotify", "signal", "timer"}
    /\ MaxEvents \in Nat \ {0} /\ MaxCalls \in Nat

VARIABLES
    kind,
    w,          \* fields of the source
    number,     \* whom the descriptor number is open for
    count,      \* events waiting in the source's descriptor
    edge,       \* on the ready list of epfd_
    readable,   \* is_readable_ of the event_action
    tasks,      \* pending_read_task_: "poll" for a detecting task, "read", "bare"
    cache,      \* evt_handlers_cache_: instructions, and whether fds_evts_ was filled
    registered, \* in evt_handlers_
    pc,         \* the loop thread: "loop", "batch" (inotify), "handler"
    batch,      \* inotify events in buffer_ not looked at yet
    watch,      \* the inotify watch: "none", "on", "removed"
    th, calls,  \* the other threads
    unhandled,  \* something happened since the handler ran last
    deaf,       \* a failed read ended the chain of an inotify that is open
    fault       \* how the process was lost

object == <<kind, w>>
poller == <<edge, readable, tasks, cache, registered>>
kernel == <<number, count>>
run == <<pc, batch, watch>>
threads == <<th, calls>>
history == <<unhandled, deaf, fault>>
vars == <<object, poller, kernel, run, threads, history>>

Init ==
    /\ kind \in Kinds
    /\ w = [fd |-> FALSE, st |-> "DEF", svc |-> FALSE, active |-> TRUE, cb |-> FALSE, evts |-> FALSE]
    /\ number = "none" /\ count = 0 /\ edge = FALSE /\ readable = FALSE
    /\ tasks = <<>> /\ cache = <<>> /\ registered = FALSE
    /\ pc = "loop" /\ batch = 0 /\ watch = "none"
    /\ th = [t \in Threads |-> "idle"] /\ calls = 0
    /\ unhandled = FALSE /\ deaf = FALSE /\ fault = "none"

Up == fault = "none"
OnLoop == Up /\ pc \in {"loop", "handler"}

-----------------------------------------------------------------------------
(* The poller: a task submitted while is_readable_ is tried at once, one     *)
(* submitted otherwise when the kernel reports the descriptor again.         *)

Report ==
    /\ Up /\ edge /\ count > 0 /\ number = "source"
    /\ edge' = FALSE /\ readable' = TRUE
    /\ UNCHANGED <<object, kernel, tasks, cache, registered, run, threads, history>>

(* The kernel: a file changes, a signal comes, the timer expires *)
Happens ==
    /\ Up /\ kind # "notifier" /\ number = "source" /\ count < MaxEvents
    /\ kind = "inotify" => watch = "on"
    /\ count' = count + 1 /\ edge' = TRUE /\ unhandled' = TRUE
    /\ UNCHANGED <<object, number, readable, tasks, cache, registered, run, threads, deaf, fault>>

(* Another part of the program opens a descriptor and gets the number *)
Reuse ==
    /\ Up /\ kind = "notifier" /\ number = "none" /\ w.svc /\ number' = "other"
    /\ UNCHANGED <<object, count, poller, run, threads, history>>

-----------------------------------------------------------------------------
(* open *)

(* A handler registers itself: an ADD instruction for the loop *)
Registers(st) ==
    /\ w' = [w EXCEPT !.fd = TRUE, !.svc = TRUE, !.cb = TRUE, !.evts = TRUE, !.st = st]
    /\ cache' = Append(cache, [ins |-> "ADD", evts |-> TRUE]) /\ UNCHANGED tasks

OpenNotifier == kind = "notifier" /\ w.st = "DEF" /\ Registers("OPENED")
OpenInotify == kind = "inotify" /\ w.st = "DEF" /\ Registers("OPENED")

(* A signal_event forgets its service when it is closed, so it can be opened *)
(* again; is_active_ stays FALSE then.                                       *)
OpenSignal == kind = "signal" /\ Registers(w.st)

(* A timer is no event_base: it submits its first read itself *)
OpenTimer ==
    /\ kind = "timer" /\ w' = [w EXCEPT !.fd = TRUE, !.svc = TRUE, !.cb = TRUE]
    /\ tasks' = <<"read">> /\ UNCHANGED cache

Open ==
    /\ OnLoop /\ ~w.svc /\ number = "none" /\ calls < MaxCalls /\ calls' = calls + 1
    /\ OpenNotifier \/ OpenInotify \/ OpenSignal \/ OpenTimer
    /\ number' = "source" /\ count' = 0 /\ edge' = FALSE /\ unhandled' = FALSE
    /\ UNCHANGED <<kind, readable, registered, run, th, deaf, fault>>

(* evt_handlers_.insert(ptr).second *)
Inserted(r) == ~r

(* process_add_instruction: the poll task, and on_started *)
AddInstr ==
    /\ tasks' = IF Inserted(registered) THEN Append(tasks, "poll") ELSE tasks
    /\ w' = IF Inserted(registered) THEN [w EXCEPT !.st = "OPENED"] ELSE w
    /\ registered' = TRUE

(* process_remove_instruction.  cancel_async_read without a callback drops   *)
(* the tasks and returns -1, so on_stopped(true) only reaches an event that  *)
(* was not registered.                                                       *)
RemoveInstr ==
    /\ tasks' = IF registered /\ cache[1].evts THEN <<>> ELSE tasks
    /\ w' = IF registered /\ cache[1].evts THEN w ELSE [w EXCEPT !.st = "CLOSED"]
    /\ registered' = FALSE

ProcessInstruction ==
    /\ Up /\ pc = "loop" /\ cache # <<>> /\ cache' = Tail(cache)
    /\ IF cache[1].ins = "ADD" THEN AddInstr ELSE RemoveInstr
    /\ UNCHANGED <<kind, edge, readable, kernel, run, threads, history>>

-----------------------------------------------------------------------------
(* The callbacks. *)

(* submit_async_read on fd_, appended after the task that called back:       *)
(* without a descriptor the assertion on its result ends the process,        *)
(* without a service the call does.                                          *)
Submits(task) ==
    IF ~w.svc THEN fault' = "null" /\ UNCHANGED tasks
    ELSE IF ~w.fd THEN fault' = "assert" /\ UNCHANGED tasks
    ELSE tasks' = Append(Tail(tasks), task) /\ UNCHANGED fault

(* handle_read_ready: a read that calls back handle_notify.  When read_cb_   *)
(* was cleared meanwhile the read is bare, and what the poller calls back is *)
(* still handle_event_ready.                                                 *)
FirstRead == Submits(IF w.cb THEN "read" ELSE "bare")

Tries(task) == Up /\ pc = "loop" /\ readable /\ tasks # <<>> /\ tasks[1] = task

ReadReady ==
    /\ Tries("poll") /\ FirstRead
    /\ UNCHANGED <<object, edge, readable, cache, registered, kernel, run, threads, unhandled, deaf>>

(* Mutant of Left: an eventfd with EFD_SEMAPHORE. *)
LeftOneLess(n) == n - 1

(* What a read leaves: an eventfd and a timerfd are emptied, a signalfd      *)
(* gives one signal.                                                         *)
Left(n) == IF kind = "signal" THEN n - 1 ELSE 0

(* A read of the source succeeds when events wait.  The number of a closed   *)
(* source reads nothing, and when it went to another descriptor, whatever    *)
(* that holds.                                                               *)
Gives == kind # "inotify" /\ (number = "other" \/ (number = "source" /\ count > 0))
GivesNot == IF kind = "inotify" THEN number # "source" ELSE number # "source" \/ count = 0
Taken == count' = IF number = "source" THEN Left(count) ELSE count

(* The read succeeds.  All of them say is_empty then, so is_readable_ is     *)
(* reset even when signals are left.  An inactive source does not go on.     *)
ReadDone ==
    /\ Tries("read") /\ Gives /\ Taken /\ readable' = FALSE
    /\ IF kind \in {"signal", "timer"} /\ ~w.active
       THEN tasks' = Tail(tasks) /\ UNCHANGED <<pc, unhandled>>
       ELSE pc' = "handler" /\ unhandled' = (number = "source" /\ Left(count) > 0) /\ UNCHANGED tasks
    /\ UNCHANGED <<object, edge, cache, registered, number, batch, watch, threads, deaf, fault>>

(* The read fails, the descriptor is closed or empty: ret <= 0 ends the      *)
(* chain.  Only an inotify descriptor is not taken for empty then.           *)
ReadFails ==
    /\ Tries("read") \/ Tries("bare")
    /\ GivesNot /\ tasks' = Tail(tasks) /\ readable' = (kind = "inotify")
    /\ UNCHANGED <<object, edge, cache, registered, kernel, run, threads, history>>

(* What a bare read takes no handler sees; handle_event_ready submits again *)
BareReadDone ==
    /\ Tries("bare") /\ Gives /\ Taken /\ readable' = FALSE /\ FirstRead
    /\ UNCHANGED <<object, edge, cache, registered, number, run, threads, unhandled, deaf>>

(* The read of an inotify descriptor goes on until EAGAIN, until the events  *)
(* fill the buffer to its last byte (is_readable_ stays then, whether or not *)
(* any are left), or until the next one does not fit into the rest.  Events  *)
(* differ in length, so each may happen after any number n of them.          *)
InotifyTakes(n) ==
    /\ Tries("read") /\ kind = "inotify" /\ number = "source" /\ count' = count - n
    /\ UNCHANGED <<object, edge, cache, registered, number, watch, threads, unhandled, fault>>

(* A read that was not triggered by an event and finds nothing is put back *)
InotifyEmptied ==
    /\ InotifyTakes(count) /\ readable' = FALSE /\ batch' = count
    /\ pc' = IF count > 0 THEN "batch" ELSE "loop"
    /\ UNCHANGED <<tasks, deaf>>

InotifyFull(n) ==
    /\ InotifyTakes(n) /\ n > 0 /\ batch' = n /\ pc' = "batch"
    /\ UNCHANGED <<readable, tasks, deaf>>

(* EINVAL: the n events read so far are lost, handle_notify returns at once *)
InotifyFails(n) ==
    /\ InotifyTakes(n) /\ n < count /\ tasks' = Tail(tasks) /\ deaf' = TRUE
    /\ UNCHANGED <<readable, batch, pc>>

InotifyRead == InotifyEmptied \/ \E n \in 0..count : InotifyFull(n) \/ InotifyFails(n)

(* inotify::handle_notify: the callback of each event's watch, if there is   *)
(* one; closing the object forgets them.                                     *)
NextEvent ==
    /\ Up /\ pc = "batch" /\ batch > 0 /\ batch' = batch - 1
    /\ pc' = IF watch = "none" THEN "batch" ELSE "handler"
    /\ UNCHANGED <<object, poller, kernel, watch, threads, history>>

(* Mutant of Goes: the next read is left out. *)
GoesNever == tasks' = Tail(tasks) /\ UNCHANGED fault

(* The end of the callback: the next read, except for an inactive timer,     *)
(* whose task was dropped by close already and is popped from an empty deque *)
Goes ==
    IF kind = "timer" /\ ~w.active THEN fault' = "pop" /\ UNCHANGED tasks ELSE Submits("read")

HandlerReturns ==
    /\ Up
    /\ \/ /\ pc = "handler" /\ kind = "inotify"
          /\ pc' = "batch" /\ UNCHANGED <<tasks, fault>>
       \/ /\ \/ pc = "handler" /\ kind # "inotify"
             \/ pc = "batch" /\ batch = 0
          /\ pc' = "loop" /\ Goes
    /\ unhandled' = IF kind = "inotify" THEN count > 0 \/ batch > 0 ELSE unhandled
    /\ UNCHANGED <<object, edge, readable, cache, registered, kernel, batch, watch, threads, deaf>>

-----------------------------------------------------------------------------
(* Calls of the user on the loop thread, also from a handler. *)

AddWatch ==
    /\ OnLoop /\ kind = "inotify" /\ w.fd /\ watch = "none" /\ watch' = "on"
    /\ UNCHANGED <<object, poller, kernel, pc, batch, threads, history>>

(* remove_watch: the kernel reports IN_IGNORED, the callback is kept *)
RemoveWatch ==
    /\ OnLoop /\ kind = "inotify" /\ w.fd /\ watch = "on" /\ count < MaxEvents
    /\ watch' = "removed" /\ count' = count + 1 /\ edge' = TRUE /\ unhandled' = TRUE
    /\ UNCHANGED <<object, number, readable, tasks, cache, registered, pc, batch, threads, deaf, fault>>

(* Mutant of Removes: the parent's close(), which queues the REMOVE, is left out. *)
RemovesNot(c, copied) == c

Removes(c, copied) == Append(c, [ins |-> "REMOVE", evts |-> copied])

(* close on the loop thread, in one step: how its accesses interleave with   *)
(* those of the other threads is seen when one of them closes.               *)
Unregisters == cache' = Removes(cache, w.evts) /\ UNCHANGED tasks

CloseNotifier ==
    /\ kind = "notifier" /\ w.st = "OPENED" /\ Unregisters /\ UNCHANGED watch
    /\ w' = [w EXCEPT !.fd = FALSE, !.cb = FALSE, !.evts = FALSE, !.st = "CLOSED"]

CloseInotify ==
    /\ kind = "inotify" /\ w.st = "OPENED" /\ Unregisters /\ watch' = "none"
    /\ w' = [w EXCEPT !.fd = FALSE, !.cb = FALSE, !.evts = FALSE, !.st = "CLOSED"]

CloseSignal ==
    /\ kind = "signal" /\ Unregisters /\ UNCHANGED watch
    /\ w' = [w EXCEPT !.fd = FALSE, !.cb = FALSE, !.evts = FALSE, !.active = FALSE, !.svc = FALSE]

(* its read is cancelled at once *)
CloseTimer ==
    /\ kind = "timer" /\ tasks' = <<>> /\ UNCHANGED <<cache, watch>>
    /\ w' = [w EXCEPT !.fd = FALSE, !.cb = FALSE, !.active = FALSE]

Close ==
    /\ OnLoop /\ w.svc /\ w.fd
    /\ CloseNotifier \/ CloseInotify \/ CloseSignal \/ CloseTimer
    /\ number' = IF number = "source" THEN "none" ELSE number
    /\ unhandled' = FALSE /\ edge' = FALSE
    /\ UNCHANGED <<kind, readable, registered, count, pc, batch, threads, deaf, fault>>

-----------------------------------------------------------------------------
(* notifier::notify and notifier::close on other threads. *)

Goto(t, from, to) == Up /\ kind = "notifier" /\ th[t] = from /\ th' = [th EXCEPT ![t] = to]

(* the descriptor is an argument of write, or of the close in fd_t::close;   *)
(* when the number went to another meanwhile, it is the other's that is hit  *)
NotifyCall(t) ==
    /\ Goto(t, "idle", IF w.fd THEN "write" ELSE "idle")
    /\ w.svc /\ calls < MaxCalls /\ calls' = calls + 1
    /\ UNCHANGED <<object, poller, kernel, run, history>>

NotifyWrite(t) ==
    /\ Goto(t, "write", "idle")
    /\ IF number = "source"
       THEN count < MaxEvents /\ count' = count + 1 /\ edge' = TRUE /\ unhandled' = w.fd
       ELSE UNCHANGED <<count, edge, unhandled>>
    /\ UNCHANGED <<object, number, readable, tasks, cache, registered, run, calls, deaf, fault>>

CloseCall(t) ==
    /\ Goto(t, "idle", IF w.st = "OPENED" THEN "remove" ELSE "idle")
    /\ w.svc /\ calls < MaxCalls /\ calls' = calls + 1
    /\ UNCHANGED <<object, poller, kernel, run, history>>

(* remove_event copies fds_evts_ before it takes the lock, and close empties *)
(* it and read_cb_ after                                                     *)
CloseRemove(t) ==
    /\ Goto(t, "remove", IF w.evts THEN "push" ELSE "pushEmpty")
    /\ UNCHANGED <<object, poller, kernel, run, calls, history>>

ClosePush(t) ==
    /\ \E copied \in BOOLEAN :
          /\ Goto(t, IF copied THEN "push" ELSE "pushEmpty", "evts")
          /\ cache' = Removes(cache, copied)
    /\ UNCHANGED <<object, edge, readable, tasks, registered, kernel, run, calls, history>>

CloseEvts(t) ==
    /\ Goto(t, "evts", "cb") /\ w' = [w EXCEPT !.evts = FALSE]
    /\ UNCHANGED <<kind, poller, kernel, run, calls, history>>

CloseCb(t) ==
    /\ Goto(t, "cb", "fd") /\ w' = [w EXCEPT !.cb = FALSE]
    /\ UNCHANGED <<kind, poller, kernel, run, calls, history>>

CloseFd(t) ==
    /\ Goto(t, "fd", IF w.fd THEN "close" ELSE "state")
    /\ UNCHANGED <<object, poller, kernel, run, calls, history>>

CloseNumber(t) ==
    /\ Goto(t, "close", "forget")
    /\ number' = "none" /\ edge' = FALSE /\ unhandled' = FALSE
    /\ UNCHANGED <<object, count, readable, tasks, cache, registered, run, calls, deaf, fault>>

(* Mutant of CloseForget: fd_t::close leaves the number in fd_. *)
CloseForgetNot(t) ==
    /\ Goto(t, "forget", "state") /\ UNCHANGED <<object, poller, kernel, run, calls, history>>

CloseForget(t) ==
    /\ Goto(t, "forget", "state") /\ w' = [w EXCEPT !.fd = FALSE]
    /\ UNCHANGED <<kind, poller, kernel, run, calls, history>>

CloseState(t) ==
    /\ Goto(t, "state", "idle") /\ w' = [w EXCEPT !.st = "CLOSED"]
    /\ UNCHANGED <<kind, poller, kernel, run, calls, history>>

-----------------------------------------------------------------------------
LoopStep ==
    \/ Report \/ ProcessInstruction \/ ReadReady \/ ReadDone \/ ReadFails \/ BareReadDone \/ InotifyRead
    \/ NextEvent \/ HandlerReturns
ThreadStep(t) ==
    \/ NotifyCall(t) \/ NotifyWrite(t) \/ CloseCall(t) \/ CloseRemove(t)
    \/ ClosePush(t) \/ CloseEvts(t) \/ CloseCb(t) \/ CloseFd(t) \/ CloseNumber(t) \/ CloseForget(t) \/ CloseState(t)

Next ==
    \/ LoopStep \/ Open \/ Close \/ AddWatch \/ RemoveWatch
    \/ Happens \/ Reuse \/ \E t \in Threads : ThreadStep(t)

(* The loop thread goes on, and handlers return *)
FairSpec == Init /\ [][Next]_vars /\ WF_vars(LoopStep)

-----------------------------------------------------------------------------
Closing == \E t \in Threads : th[t] \in {"evts", "cb", "fd", "close", "forget"}
Opened == w.fd /\ w.svc /\ ~Closing

(* The source keeps exactly one task with the poller from its registration   *)
(* to its close: with none it would be deaf, with two the second read would  *)
(* find the descriptor empty and end the chain.  The exception is an inotify *)
(* whose events once did not fit the buffer: the read fails, no other is     *)
(* submitted.  (A signal_event opened again is inactive and stops after the  *)
(* first signal.)                                                            *)
OneRead ==
    /\ Len(tasks) <= 1
    /\ Opened /\ w.active /\ (registered \/ kind = "timer") => Len(tasks) = 1 \/ deaf
    /\ deaf => kind = "inotify"

(* fd_ names a descriptor of the source, except between the close() inside   *)
(* fd_t::close and the assignment after it: a notify or close that begins    *)
(* later, on any thread, cannot reach a descriptor that got the number       *)
(* since.  (One that loaded fd_ before can.)                                 *)
FdForgotten == w.fd /\ number # "source" => \E t \in Threads : th[t] = "forget"

(* The process is lost only by a callback of a source that was closed and    *)
(* whose REMOVE is still queued, or by a timer closed in its own handler;    *)
(* once the REMOVE was carried out nothing can call back.                    *)
KnownFaults ==
    /\ fault \in {"assert", "null"} => \E k \in DOMAIN cache : cache[k].ins = "REMOVE"
    /\ fault = "pop" => kind = "timer"

(* What happened while the source is open is followed by a run of its        *)
(* handler, unless the source is closed: notifications are merged but none   *)
(* comes to nothing, whenever it arrives between the read, the handler and   *)
(* the next read, and whatever a full inotify buffer leaves.  Two exceptions *)
(* are the code's: signals that one read did not take are left in the        *)
(* signalfd until the next signal comes, and an inotify whose events did not *)
(* fit the buffer loses them and every later one.                            *)
Handled ==
    []<>(\/ ~unhandled \/ pc = "handler" \/ ~Up \/ ~Opened \/ ~w.active
         \/ deaf \/ (kind = "signal" /\ ~edge /\ ~readable))
=============================================================================
