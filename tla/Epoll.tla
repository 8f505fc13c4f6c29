------------------------------- MODULE Epoll -------------------------------
(***************************************************************************)
(* The epoll backend: source/event/epoll.cpp, source/event/event_action.cpp*)
(* and the read and write loops of include/event/fd_io_operation.h.        *)
(*                                                                         *)
(* Everything runs on the thread of the event loop: either user code       *)
(* between two calls of dispatch (pc = "user"), or dispatch itself, or a   *)
(* callback that dispatch runs (pc = "cb") and that may submit and cancel  *)
(* before it returns to "after".  What is concurrent is the kernel: data,  *)
(* connections and free space arrive between any two steps.                *)
(*                                                                         *)
(* Amounts are counted in units: bytes of a stream, datagrams, expirations *)
(* of an eventfd or timerfd, connections of a listener.  Inotify and       *)
(* signalfd descriptors, whose reads take a part and clear is_readable_    *)
(* otherwise, are in Watcher.                                              *)
(***************************************************************************)
EXTENDS Integers, Sequences, FiniteSets

CONSTANTS
    TcpFds, UdpFds, EventFds, ListenFds, FileFds,   \* descriptors by FD_TYPE
    GroupFds,       \* those read through a buffer group instead of a task's buffers
    Reads, Writes,  \* tasks, each submitted at most once
    Detect,         \* those with buffer_iov_cnt_ = 0, that only detect readiness
    Big,            \* those with room for two units instead of one
    None,
    MaxRx,          \* bound on what waits to be read from one descriptor
    Space,          \* units the kernel takes before a write would block
    MaxReady,       \* bound on ready_events_
    MaxOpen,        \* descriptors open at one time
    MaxCloses,      \* bound on closing and reopening descriptors
    OwnCancel       \* user code cancels an operation in that operation's callback

Fds == TcpFds \cup UdpFds \cup EventFds \cup ListenFds \cup FileFds
Tasks == Reads \cup Writes

ASSUME TaskAssumption ==
    Reads \cap Writes = {} /\ Detect \subseteq Tasks /\ Big \subseteq Tasks \ Detect
ASSUME FdAssumption ==
    /\ \A S \in SUBSET Fds : Cardinality(S) \in Nat       \* Fds is finite
    /\ None \notin Fds \cup Tasks /\ GroupFds \subseteq TcpFds \cup UdpFds
    /\ TcpFds \cap (UdpFds \cup EventFds \cup ListenFds \cup FileFds) = {}
    /\ UdpFds \cap (EventFds \cup ListenFds \cup FileFds) = {}
    /\ EventFds \cap (ListenFds \cup FileFds) = {} /\ ListenFds \cap FileFds = {}
ASSUME BoundAssumption ==
    /\ MaxRx \in Nat \ {0} /\ Space \in Nat \ {0} /\ MaxReady \in Nat
    /\ MaxOpen \in Nat /\ MaxCloses \in Nat /\ OwnCancel \in BOOLEAN

VARIABLES
    sk,             \* the descriptors: open, rx, fin, space
    kern, edge,     \* what epfd_ watches; what is on its ready list
    ei,             \* fd_to_event_info_: events_, is_in_epoll_ of each event_info
    ea,             \* the event_action of each event_info
    changes,        \* evt_change_lst_ (is_in_change_list_ makes it a set)
    ready_events, non_submit_events,
    group,          \* the ring buffer group is registered
    behind,         \* history: descriptors whose accept or group read was last left
                    \* with is_readable_ set
    pc, after,
    act, trig,      \* handle_events: this, is_event_triggered
    n,              \* tasks of the loop in handle_events still to be tried
    dgrams,         \* datagrams of one recvmmsg not passed to the callback yet
    cb,             \* the callback that runs and its arguments
    reported,       \* what epoll_wait returned, not handled yet
    ready_cnt,
    done,           \* tasks whose callback ran, popped after it
    cancelled,      \* tasks removed by a cancel
    closes

kernelVars == <<sk, kern, edge, closes>>
submitVars == <<ei, ea, changes, ready_events, non_submit_events, group, behind, cancelled>>
callVars == <<after, act, trig, n, dgrams, cb>>
dispatchVars == <<callVars, reported, ready_cnt, done>>
vars == <<kernelVars, submitVars, dispatchVars, pc>>

RW == {"R", "W"}
Cap(t) == IF t \in Detect THEN 0 ELSE IF t \in Big THEN 2 ELSE 1
Min2(a, b) == IF a <= b THEN a ELSE b

(* A new event_info and its event_action; files are always ready *)
NewInfo == [present |-> FALSE, events |-> {}, in_epoll |-> FALSE]
NewAction(f) ==
    [events |-> {}, readable |-> f \in FileFds, writable |-> f \in FileFds,
     reads |-> <<>>, ns_reads |-> <<>>, writes |-> <<>>, ns_writes |-> <<>>,
     multi |-> "no", accept |-> FALSE]

Fresh == [open |-> TRUE, rx |-> 0, fin |-> FALSE, space |-> Space]

Init ==
    /\ \E S \in SUBSET Fds : /\ Cardinality(S) = MaxOpen
                             /\ sk = [f \in Fds |-> [Fresh EXCEPT !.open = f \in S]]
    /\ kern = [f \in Fds |-> {}] /\ edge = {}
    /\ ei = [f \in Fds |-> NewInfo] /\ ea = [f \in Fds |-> NewAction(f)]
    /\ changes = {} /\ ready_events = <<>> /\ non_submit_events = {}
    /\ group = FALSE /\ behind = {}
    /\ pc = "user" /\ after = "user" /\ act = None /\ trig = FALSE /\ n = 0
    /\ dgrams = 0 /\ cb = [op |-> "none", ret |-> 0, task |-> None]
    /\ reported = {} /\ ready_cnt = 0
    /\ done = {} /\ cancelled = {} /\ closes = 0

Elems(s) == {s[i] : i \in DOMAIN s}
Held(f) == Elems(ea[f].reads) \cup Elems(ea[f].ns_reads)
               \cup Elems(ea[f].writes) \cup Elems(ea[f].ns_writes)
Known == done \cup cancelled \cup UNION {Held(f) : f \in Fds}
New(t) == t \notin Known

-----------------------------------------------------------------------------
(* Operations called by user code. *)

UserRuns == pc \in {"user", "cb"}
InUser == UserRuns /\ Len(ready_events) < MaxReady

(* submit_async_...: find or make the event_info; an event not asked for     *)
(* before goes to the change list, except for files                          *)
Register(f, e) ==
    /\ ei' = [ei EXCEPT ![f].present = TRUE,
                        ![f].events = IF f \in FileFds THEN @ ELSE @ \cup {e}]
    /\ changes' = IF f \in FileFds \/ e \in ei[f].events THEN changes
                  ELSE changes \cup {f}

(* Mutant of QueueIf: known readiness is not used. *)
QueueNever(f, known) == UNCHANGED ready_events

(* What was submitted for f is queued at once if f is known to be ready *)
QueueIf(f, known) ==
    ready_events' = IF known THEN Append(ready_events, f) ELSE ready_events

(* Mutant of SubmitRead: the newest task goes first. *)
SubmitReadFront(f, t, is_submit) ==
    /\ InUser /\ sk[f].open /\ New(t) /\ f \notin ListenFds \cup GroupFds
    /\ Register(f, "R")
    /\ IF is_submit
       THEN /\ ea' = [ea EXCEPT ![f].events = @ \cup {"R"}, ![f].reads = <<t>> \o @]
            /\ QueueIf(f, ea[f].readable)
            /\ UNCHANGED non_submit_events
       ELSE /\ ea' = [ea EXCEPT ![f].events = @ \cup {"R"}, ![f].ns_reads = Append(@, t)]
            /\ non_submit_events' = non_submit_events \cup {f}
            /\ UNCHANGED ready_events
    /\ UNCHANGED <<kernelVars, group, behind, cancelled, dispatchVars, pc>>

(* submit_async_read into buffers of the caller, with a callback or after    *)
(* one that set it                                                           *)
SubmitRead(f, t, is_submit) ==
    /\ InUser /\ sk[f].open /\ New(t) /\ f \notin ListenFds \cup GroupFds
    /\ Register(f, "R")
    /\ IF is_submit
       THEN /\ ea' = [ea EXCEPT ![f].events = @ \cup {"R"}, ![f].reads = Append(@, t)]
            /\ QueueIf(f, ea[f].readable)
            /\ UNCHANGED non_submit_events
       ELSE /\ ea' = [ea EXCEPT ![f].events = @ \cup {"R"}, ![f].ns_reads = Append(@, t)]
            /\ non_submit_events' = non_submit_events \cup {f}
            /\ UNCHANGED ready_events
    /\ UNCHANGED <<kernelVars, group, behind, cancelled, dispatchVars, pc>>

(* submit_async_read into a buffer group: stays until it is cancelled *)
SubmitMultishot(f, is_submit) ==
    /\ InUser /\ sk[f].open /\ group /\ f \in GroupFds
    /\ Register(f, "R")
    /\ ea' = [ea EXCEPT ![f].events = @ \cup {"R"},
                        ![f].multi = IF is_submit THEN "submitted" ELSE "waiting"]
    /\ QueueIf(f, is_submit /\ ea[f].readable)
    /\ non_submit_events' = IF is_submit THEN non_submit_events
                            ELSE non_submit_events \cup {f}
    /\ behind' = behind \ {f}
    /\ UNCHANGED <<kernelVars, group, cancelled, dispatchVars, pc>>

(* submit_async_accept: has_accept_task_ also stays *)
SubmitAccept(f) ==
    /\ InUser /\ sk[f].open /\ f \in ListenFds
    /\ Register(f, "R")
    /\ ea' = [ea EXCEPT ![f].events = @ \cup {"R"}, ![f].accept = TRUE]
    /\ QueueIf(f, ea[f].readable)
    /\ behind' = behind \ {f}
    /\ UNCHANGED <<kernelVars, non_submit_events, group, cancelled, dispatchVars, pc>>

(* submit_async_write *)
SubmitWrite(f, t, is_submit) ==
    /\ InUser /\ sk[f].open /\ New(t) /\ f \in TcpFds \cup UdpFds \cup FileFds
    /\ Register(f, "W")
    /\ IF is_submit
       THEN /\ ea' = [ea EXCEPT ![f].events = @ \cup {"W"}, ![f].writes = Append(@, t)]
            /\ QueueIf(f, ea[f].writable)
            /\ UNCHANGED non_submit_events
       ELSE /\ ea' = [ea EXCEPT ![f].events = @ \cup {"W"}, ![f].ns_writes = Append(@, t)]
            /\ non_submit_events' = non_submit_events \cup {f}
            /\ UNCHANGED ready_events
    /\ UNCHANGED <<kernelVars, group, behind, cancelled, dispatchVars, pc>>

Orders(S) == {s \in [1..Cardinality(S) -> S] : Elems(s) = S}

(* submit(): everything kept back is submitted, in no particular order of    *)
(* the descriptors                                                           *)
Submit ==
    /\ InUser /\ non_submit_events # {}
    /\ ea' = [f \in Fds |-> IF f \notin non_submit_events THEN ea[f] ELSE
                [ea[f] EXCEPT !.reads = @ \o ea[f].ns_reads, !.ns_reads = <<>>,
                              !.writes = @ \o ea[f].ns_writes, !.ns_writes = <<>>,
                              !.multi = IF @ = "no" THEN "no" ELSE "submitted"]]
    /\ \E s \in Orders({f \in non_submit_events : ea[f].readable \/ ea[f].writable}) :
          ready_events' = ready_events \o s
    /\ non_submit_events' = {} /\ behind' = behind \ non_submit_events
    /\ UNCHANGED <<kernelVars, ei, changes, group, cancelled, dispatchVars, pc>>

(* Mutant of DisabledRead: what was kept back stays. *)
DisabledReadKeepsBack(a) ==
    [a EXCEPT !.events = @ \ {"R"}, !.reads = <<>>, !.multi = "no", !.accept = FALSE]

(* Mutant of DisabledWrite: the reads are cleared too. *)
DisabledWriteAll(a) ==
    [a EXCEPT !.events = @ \ {"W"}, !.reads = <<>>, !.writes = <<>>, !.ns_writes = <<>>]

(* event_action::disable_read, disable_write *)
DisabledRead(a) ==
    [a EXCEPT !.events = @ \ {"R"}, !.reads = <<>>, !.ns_reads = <<>>, !.multi = "no",
              !.accept = FALSE]
DisabledWrite(a) ==
    [a EXCEPT !.events = @ \ {"W"}, !.writes = <<>>, !.ns_writes = <<>>]

(* Client discipline: unless OwnCancel, a read is not cancelled by the       *)
(* callback of a read of the same descriptor, nor a write by that of a write *)
MayCancel(f, ops) ==
    UserRuns /\ ei[f].present /\ (pc = "cb" /\ act = f /\ cb.op \in ops => OwnCancel)

ReadTasks(f) == Elems(ea[f].reads) \cup Elems(ea[f].ns_reads)
WriteTasks(f) == Elems(ea[f].writes) \cup Elems(ea[f].ns_writes)

(* cancel_async_read: the descriptor leaves epoll when nothing is left.  The *)
(* event_info keeps EV_READ in its events_.                                  *)
CancelRead(f) ==
    /\ MayCancel(f, {"read", "accept"}) /\ "R" \in ea[f].events
    /\ ea' = [ea EXCEPT ![f] = DisabledRead(@)]
    /\ changes' = IF ea[f].events = {"R"} THEN changes \cup {f} ELSE changes
    /\ cancelled' = cancelled \cup ReadTasks(f)
    /\ UNCHANGED <<kernelVars, ei, ready_events, non_submit_events, group, behind, dispatchVars, pc>>

(* cancel_async_accept, cancel_async_write: no change for epoll *)
CancelAccept(f) ==
    /\ MayCancel(f, {"read", "accept"}) /\ f \in ListenFds
    /\ ea' = [ea EXCEPT ![f] = DisabledRead(@)]
    /\ cancelled' = cancelled \cup ReadTasks(f)
    /\ UNCHANGED <<kernelVars, ei, changes, ready_events, non_submit_events, group, behind,
                   dispatchVars, pc>>

CancelWrite(f) ==
    /\ MayCancel(f, {"write"}) /\ f \in TcpFds \cup UdpFds \cup FileFds
    /\ ea' = [ea EXCEPT ![f] = DisabledWrite(@)]
    /\ cancelled' = cancelled \cup WriteTasks(f)
    /\ UNCHANGED <<kernelVars, ei, changes, ready_events, non_submit_events, group, behind,
                   dispatchVars, pc>>

RegisterRingBuffer ==
    /\ UserRuns /\ ~group /\ group' = TRUE
    /\ UNCHANGED <<kernelVars, ei, ea, changes, ready_events, non_submit_events,
                   behind, cancelled, dispatchVars, pc>>

(* unregister_ring_buffer: the multishot tasks of the group's descriptors go *)
UnregisterRingBuffer ==
    /\ UserRuns /\ group /\ group' = FALSE
    /\ pc = "cb" /\ act \in GroupFds /\ cb.op = "read" => OwnCancel
    /\ ea' = [f \in Fds |-> [ea[f] EXCEPT !.multi = "no"]]
    /\ UNCHANGED <<kernelVars, ei, changes, ready_events, non_submit_events,
                   behind, cancelled, dispatchVars, pc>>

-----------------------------------------------------------------------------
(* The kernel and the peers. *)

ReadyNow(f) == (IF sk[f].rx > 0 \/ sk[f].fin THEN {"R"} ELSE {})
                   \cup (IF sk[f].space > 0 THEN {"W"} ELSE {})

(* Edge triggering: news of a watched kind puts the descriptor on the list *)
Raise(f, e) == edge' = IF e \in kern[f] THEN edge \cup {f} ELSE edge

Arrive(f) ==
    /\ f \notin FileFds /\ sk[f].open /\ ~sk[f].fin /\ sk[f].rx < MaxRx
    /\ sk' = [sk EXCEPT ![f].rx = @ + 1] /\ Raise(f, "R")
    /\ UNCHANGED <<kern, closes, submitVars, dispatchVars, pc>>

PeerCloses(f) ==
    /\ f \in TcpFds /\ sk[f].open /\ ~sk[f].fin
    /\ sk' = [sk EXCEPT ![f].fin = TRUE] /\ Raise(f, "R")
    /\ UNCHANGED <<kern, closes, submitVars, dispatchVars, pc>>

Drain(f) ==
    /\ f \in TcpFds \cup UdpFds /\ sk[f].open /\ sk[f].space < Space
    /\ sk' = [sk EXCEPT ![f].space = @ + 1]
    /\ IF sk[f].space = 0 THEN Raise(f, "W") ELSE UNCHANGED edge
    /\ UNCHANGED <<kern, closes, submitVars, dispatchVars, pc>>

(* User code closes a descriptor after cancelling what it submitted, as      *)
(* timer::close and event_base::close do (the kernel then forgets it), and   *)
(* gets the same number again for a new one.  A number keeps its kind.       *)
CloseFd(f) ==
    /\ UserRuns /\ sk[f].open /\ ea[f].events = {} /\ closes < MaxCloses
    /\ sk' = [sk EXCEPT ![f] = [Fresh EXCEPT !.open = FALSE]]
    /\ kern' = [kern EXCEPT ![f] = {}] /\ edge' = edge \ {f}
    /\ closes' = closes + 1
    /\ UNCHANGED <<submitVars, dispatchVars, pc>>

ReopenFd(f) ==
    /\ UserRuns /\ ~sk[f].open /\ Cardinality({g \in Fds : sk[g].open}) < MaxOpen
    /\ sk' = [sk EXCEPT ![f].open = TRUE]
    /\ UNCHANGED <<kern, edge, closes, submitVars, dispatchVars, pc>>

-----------------------------------------------------------------------------
(* dispatch: the change list. *)

(* epoll_ctl: MOD fails with ENOENT and ADD with EEXIST in the opposite      *)
(* case, both with EPERM for a regular file                                  *)
CtlWorks(op, f) == sk[f].open /\ f \notin FileFds /\ (op = "MOD" <=> kern[f] # {})

(* Mutant of WatchWorks: no second attempt. *)
WatchWorksOnce(f) == CtlWorks(IF ei[f].in_epoll THEN "MOD" ELSE "ADD", f)

(* apply_one_change: ADD or MOD, and the other one if the first fails so *)
WatchWorks(f) ==
    \/ CtlWorks(IF ei[f].in_epoll THEN "MOD" ELSE "ADD", f)
    \/ CtlWorks(IF ei[f].in_epoll THEN "ADD" ELSE "MOD", f)

(* dispatch begins: apply_changes.  An event_info without events is deleted  *)
(* from epoll if it is there, and forgotten; the others are watched for      *)
(* their events.  The kernel looks at once whether one is there already.     *)
ApplyChanges ==
    /\ pc = "user" /\ pc' = "wait"
    /\ LET gone == {f \in changes : ea[f].events = {}}
           watched == {f \in changes \ gone : WatchWorks(f)}
       IN  /\ kern' = [f \in Fds |-> IF f \in gone THEN {}
                                      ELSE IF f \in watched THEN ea[f].events ELSE kern[f]]
           /\ edge' = (edge \ gone)
                         \cup {f \in watched : ea[f].events \cap ReadyNow(f) # {}}
           /\ ei' = [f \in Fds |-> IF f \in gone THEN NewInfo
                                    ELSE [ei[f] EXCEPT !.in_epoll = @ \/ f \in watched]]
           /\ ea' = [f \in Fds |-> IF f \in gone THEN NewAction(f) ELSE ea[f]]
           /\ ready_events' = [i \in DOMAIN ready_events |->
                                 IF ready_events[i] \in gone THEN None ELSE ready_events[i]]
           /\ non_submit_events' = non_submit_events \ gone
    /\ changes' = {}
    /\ UNCHANGED <<sk, closes, group, behind, cancelled, dispatchVars>>

(* epoll_wait, interrupted by a signal: dispatch returns *)
WaitInterrupted ==
    /\ pc = "wait" /\ pc' = "user"
    /\ UNCHANGED <<kernelVars, submitVars, dispatchVars>>

(* epoll_wait: the descriptors on the ready list, with what holds now *)
Wait ==
    /\ pc = "wait" /\ pc' = "events"
    /\ reported' = {[fd |-> f, mask |-> kern[f] \cap ReadyNow(f)] :
                        f \in {g \in edge : kern[g] \cap ReadyNow(g) # {}}}
    /\ edge' = {}
    /\ UNCHANGED <<sk, kern, closes, submitVars, callVars, ready_cnt, done>>

(* set_ready_events, then handle_events(true), for each of them *)
NextReported ==
    /\ pc = "events"
    /\ \/ \E r \in reported :
             /\ reported' = reported \ {r}
             /\ ea' = [ea EXCEPT ![r.fd].readable = @ \/ "R" \in r.mask,
                                 ![r.fd].writable = @ \/ "W" \in r.mask]
             /\ act' = r.fd /\ trig' = TRUE /\ pc' = "handle"
             /\ UNCHANGED ready_cnt
       \/ /\ reported = {} /\ ready_cnt' = Len(ready_events) /\ pc' = "ready"
          /\ UNCHANGED <<reported, ea, act, trig>>
    /\ UNCHANGED <<kernelVars, ei, changes, ready_events, non_submit_events, group,
                   behind, cancelled, after, n, dgrams, cb, done>>

(* do_ready_tasks: handle_events(false) for those queued when it began *)
NextReady ==
    /\ pc = "ready"
    /\ \/ /\ ready_cnt > 0
          /\ act' = Head(ready_events) /\ trig' = FALSE
          /\ pc' = IF Head(ready_events) = None THEN "handled" ELSE "handle"
       \/ ready_cnt = 0 /\ pc' = "user" /\ UNCHANGED <<act, trig>>
    /\ UNCHANGED <<kernelVars, submitVars, after, n, dgrams, cb, reported, ready_cnt, done>>

(* Mutant of Handled: pop_front is forgotten. *)
HandledNotPopped ==
    /\ pc = "handled" /\ pc' = IF trig THEN "events" ELSE "ready"
    /\ UNCHANGED <<kernelVars, submitVars, callVars, reported, ready_cnt, done>>

(* handle_events has returned; do_ready_tasks pops what it took *)
Handled ==
    /\ pc = "handled"
    /\ \/ /\ trig /\ pc' = "events" /\ UNCHANGED <<ready_events, ready_cnt>>
       \/ /\ ~trig /\ pc' = "ready"
          /\ ready_events' = Tail(ready_events) /\ ready_cnt' = ready_cnt - 1
    /\ UNCHANGED <<kernelVars, ei, ea, changes, non_submit_events, group, behind, cancelled,
                   callVars, reported, done>>

-----------------------------------------------------------------------------
(* event_action::handle_events. *)

Call(op, ret, t, next) ==
    /\ cb' = [op |-> op, ret |-> ret, task |-> t]
    /\ pc' = "cb" /\ after' = next

(* k units leave the kernel; readable is what is known afterwards *)
Take(k, readable) ==
    /\ sk' = [sk EXCEPT ![act].rx = @ - k]
    /\ ea' = [ea EXCEPT ![act].readable = readable]

(* Entry: a multishot task not submitted yet ends it, writes included *)
HandleEvents ==
    /\ pc = "handle"
    /\ LET a == ea[act]
       IN \/ ~a.readable /\ pc' = "write" /\ UNCHANGED n
          \/ a.readable /\ a.multi = "waiting" /\ pc' = "handled" /\ UNCHANGED n
          \/ a.readable /\ a.multi = "submitted" /\ pc' = "multi" /\ n' = 0
          \/ a.readable /\ a.multi = "no" /\ pc' = "reads" /\ n' = Len(a.reads)
    /\ UNCHANGED <<kernelVars, submitVars, after, act, trig, dgrams, cb, reported,
                   ready_cnt, done>>

(* Mutant of ReadTcp: a full buffer is taken for an empty socket. *)
ReadTcpFullIsEmpty(t) ==
    /\ Take(Min2(sk[act].rx, Cap(t)), FALSE)
    /\ Call("read", Min2(sk[act].rx, Cap(t)), t, "popRead") /\ UNCHANGED n

(* Mutant of ReadTcp: the size of the buffers is taken for what was read. *)
ReadTcpAlwaysFull(t) ==
    /\ Take(Cap(t), ea[act].readable)
    /\ Call("read", Cap(t), t, "popRead") /\ UNCHANGED n

(* fd_io_operation<FD_TYPE_TCP>::read_fd and do_read_task: read until the    *)
(* buffers are full, the peer has closed (then 0 is returned whatever was    *)
(* read) or nothing is left.  Nothing at all is not passed to the callback   *)
(* unless epoll triggered the call.                                          *)
ReadTcp(t) ==
    LET rx == sk[act].rx
        fin == sk[act].fin
        Requeued == [ea[act] EXCEPT !.readable = FALSE, !.reads = Append(Tail(@), t)]
    IN  \/ /\ rx >= Cap(t) /\ Take(Cap(t), ea[act].readable)
           /\ Call("read", Cap(t), t, "popRead") /\ UNCHANGED n
        \/ /\ rx < Cap(t) /\ fin /\ Take(rx, ea[act].readable)
           /\ Call("read", 0, t, "popRead") /\ UNCHANGED n
        \/ /\ rx < Cap(t) /\ ~fin /\ (rx > 0 \/ trig) /\ Take(rx, FALSE)
           /\ Call("read", rx, t, "popRead") /\ UNCHANGED n
        \/ /\ rx = 0 /\ ~fin /\ ~trig
           /\ ea' = [ea EXCEPT ![act] = Requeued]
           /\ n' = n - 1 /\ UNCHANGED <<pc, sk, after, cb>>
        \/ /\ \E k \in 0..Min2(rx, Cap(t) - 1) : Take(k, ea[act].readable)
           /\ Call("read", -1, t, "popRead") /\ UNCHANGED n

(* fd_io_operation<FD_TYPE_UDP>::read_fd: a short count ends with EAGAIN *)
SawEmpty(rx, t) == rx < Cap(t)

(* fd_io_operation<FD_TYPE_UDP>::read_fd and read_udp: one callback for each *)
(* datagram; an error, returned as -ret, is taken for one datagram           *)
ReadUdp(t) ==
    LET rx == sk[act].rx
        Requeued == [ea[act] EXCEPT !.readable = FALSE, !.reads = Append(Tail(@), t)]
    IN  \/ /\ rx > 0 /\ Take(Min2(rx, Cap(t)), ea[act].readable /\ ~SawEmpty(rx, t))
           /\ dgrams' = Min2(rx, Cap(t)) /\ pc' = "dgram"
           /\ cb' = [cb EXCEPT !.task = t] /\ UNCHANGED <<n, after>>
        \/ /\ rx = 0 /\ ea' = [ea EXCEPT ![act] = Requeued]
           /\ n' = n - 1 /\ UNCHANGED <<pc, sk, dgrams, after, cb>>
        \/ /\ \E k \in 0..Min2(rx, Cap(t) - 1) : Take(k, ea[act].readable)
           /\ dgrams' = 1 /\ pc' = "dgram" /\ cb' = [cb EXCEPT !.task = t]
           /\ UNCHANGED <<n, after>>

(* fd_io_operation<FD_TYPE_EVENT_FD>::read_fd: one read takes everything *)
ReadEvent(t) ==
    /\ Take(sk[act].rx, FALSE)
    /\ Call("read", IF sk[act].rx > 0 THEN 1 ELSE -1, t, "popRead") /\ UNCHANGED n

(* fd_io_operation<FD_TYPE_FILE>::read_fd: up to the end of the file, or an  *)
(* error of lseek or readv                                                   *)
ReadFile(t) ==
    /\ \E k \in -1..Cap(t) : Call("read", k, t, "popRead")
    /\ UNCHANGED <<n, sk, ea>>

(* handle_events: the next pending read, do_read_task *)
DoReadTask ==
    /\ pc = "reads" /\ n > 0 /\ ea[act].reads # <<>>
    /\ LET t == Head(ea[act].reads)
       IN \/ t \in Detect /\ Call("read", 0, t, "popRead") /\ UNCHANGED <<n, sk, ea, dgrams>>
          \/ t \notin Detect /\ act \in TcpFds /\ ReadTcp(t) /\ UNCHANGED dgrams
          \/ t \notin Detect /\ act \in UdpFds /\ ReadUdp(t)
          \/ t \notin Detect /\ act \in EventFds /\ ReadEvent(t) /\ UNCHANGED dgrams
          \/ t \notin Detect /\ act \in FileFds /\ ReadFile(t) /\ UNCHANGED dgrams
    /\ UNCHANGED <<kern, edge, closes, ei, changes, ready_events, non_submit_events,
                   group, behind, cancelled, act, trig, reported, ready_cnt, done>>

(* read_udp: the callback for the next datagram *)
NextDatagram ==
    /\ pc = "dgram"
    /\ \/ /\ dgrams > 0 /\ "R" \in ea[act].events
          /\ Call("read", 1, cb.task, "dgram") /\ dgrams' = dgrams - 1
       \/ /\ dgrams = 0 /\ pc' = IF n > 0 THEN "popRead" ELSE "multi"
          /\ UNCHANGED <<after, cb, dgrams>>
    /\ UNCHANGED <<kernelVars, submitVars, act, trig, n, reported, ready_cnt, done>>

(* handle_events: pop_front after the task's callback.  If the callback has  *)
(* cancelled its own read and submitted others, the first of these is popped *)
(* and its callback never runs: it is not done, only gone.                   *)
PopRead ==
    /\ pc = "popRead" /\ ea[act].reads # <<>>
    /\ pc' = "reads" /\ n' = n - 1
    /\ done' = done \cup ({Head(ea[act].reads)} \cap {cb.task})
    /\ ea' = [ea EXCEPT ![act].reads = Tail(@)]
    /\ UNCHANGED <<kernelVars, ei, changes, ready_events, non_submit_events, group,
                   behind, cancelled, after, act, trig, dgrams, cb, reported, ready_cnt>>

ReadsDone ==
    /\ pc = "reads" /\ n = 0 /\ pc' = "accept"
    /\ UNCHANGED <<kernelVars, submitVars, dispatchVars>>

(* read_tcp for a buffer group: one callback for each recvmsg.  After the    *)
(* end of the stream or an error is_readable_ stays set.                     *)
MultishotTcp ==
    /\ UNCHANGED dgrams
    /\ \/ /\ \E k \in 1..sk[act].rx : /\ Take(k, ea[act].readable)
                                      /\ Call("read", k, None, "multi")
          /\ UNCHANGED behind
       \/ /\ sk[act].rx = 0 /\ sk[act].fin /\ Call("read", 0, None, "accept")
          /\ behind' = behind \cup {act} /\ UNCHANGED <<sk, ea>>
       \/ /\ sk[act].rx = 0 /\ ~sk[act].fin /\ Take(0, FALSE)
          /\ pc' = "accept" /\ UNCHANGED <<after, cb, behind>>
       \/ /\ Call("read", -1, None, "accept")
          /\ behind' = behind \cup {act} /\ UNCHANGED <<sk, ea>>

(* read_udp for a buffer group: INT32_MAX when nothing is left, 1 on errors *)
MultishotUdp ==
    /\ cb' = [cb EXCEPT !.task = None] /\ UNCHANGED <<after, behind>>
    /\ \/ \E k \in 1..sk[act].rx : /\ Take(k, ea[act].readable)
                                   /\ dgrams' = k /\ pc' = "dgram"
       \/ sk[act].rx = 0 /\ Take(0, FALSE) /\ pc' = "again" /\ UNCHANGED dgrams
       \/ dgrams' = 1 /\ pc' = "dgram" /\ UNCHANGED <<sk, ea>>

(* do_multishot_read_task: until a read returns less than 0, which INT32_MAX *)
(* is not                                                                    *)
DoMultishot ==
    /\ pc = "multi" /\ ea[act].multi # "no"
    /\ \/ act \in TcpFds /\ MultishotTcp
       \/ act \in UdpFds /\ MultishotUdp
    /\ UNCHANGED <<kern, edge, closes, ei, changes, ready_events, non_submit_events,
                   group, cancelled, act, trig, n, reported, ready_cnt, done>>

MultishotAgain ==
    /\ pc = "again" /\ pc' = "multi"
    /\ UNCHANGED <<kernelVars, submitVars, dispatchVars>>

(* do_accept_task: one connection, also when more wait, or an error.  Both   *)
(* leave is_readable_ set.                                                   *)
DoAccept ==
    /\ pc = "accept"
    /\ \/ ~ea[act].accept /\ pc' = "write" /\ UNCHANGED <<sk, ea, after, cb, behind>>
       \/ /\ ea[act].accept /\ sk[act].rx > 0 /\ Take(1, ea[act].readable)
          /\ Call("accept", 1, None, "write") /\ behind' = behind \cup {act}
       \/ /\ ea[act].accept /\ sk[act].rx = 0 /\ Take(0, FALSE)
          /\ pc' = "write" /\ UNCHANGED <<after, cb, behind>>
       \/ /\ ea[act].accept /\ Call("accept", -1, None, "write")
          /\ behind' = behind \cup {act} /\ UNCHANGED <<sk, ea>>
    /\ UNCHANGED <<kern, edge, closes, ei, changes, ready_events, non_submit_events,
                   group, cancelled, act, trig, n, dgrams, reported, ready_cnt, done>>

WritesBegin ==
    /\ pc = "write"
    /\ IF ea[act].writable /\ ea[act].writes # <<>>
       THEN pc' = "writes" /\ n' = Len(ea[act].writes)
       ELSE pc' = "handled" /\ UNCHANGED n
    /\ UNCHANGED <<kernelVars, submitVars, after, act, trig, dgrams, cb, reported,
                   ready_cnt, done>>

(* Mutant of Blocks: a part that was taken is forgotten. *)
BlocksPartly(t, room) == Cap(t) > room

(* do_write_task: is_full && ret == 0 *)
Blocks(t, room) == Cap(t) > 0 /\ room = 0

(* handle_events: the next pending write, do_write_task and write_fd: write  *)
(* until all is taken or nothing more is.  Nothing at all is retried at the  *)
(* next edge.  An error of sendmmsg comes back as -ret.                      *)
DoWriteTask ==
    /\ pc = "writes" /\ n > 0 /\ ea[act].writes # <<>>
    /\ LET t == Head(ea[act].writes)
           room == sk[act].space
           Sent(k) == sk' = [sk EXCEPT ![act].space = IF act \in FileFds THEN @ ELSE @ - k]
       IN \/ /\ ~Blocks(t, room) /\ Sent(Min2(Cap(t), room))
             /\ Call("write", Min2(Cap(t), room), t, "popWrite") /\ UNCHANGED <<ea, n>>
          \/ /\ Blocks(t, room)
             /\ ea' = [ea EXCEPT ![act].writable = FALSE,
                                 ![act].writes = Append(Tail(@), t)]
             /\ n' = n - 1 /\ UNCHANGED <<pc, sk, after, cb>>
          \/ /\ Cap(t) > 0 /\ \E k \in 0..Min2(room, Cap(t) - 1) : Sent(k)
             /\ Call("write", IF act \in UdpFds THEN 1 ELSE -1, t, "popWrite")
             /\ UNCHANGED <<ea, n>>
    /\ UNCHANGED <<kern, edge, closes, ei, changes, ready_events, non_submit_events,
                   group, behind, cancelled, act, trig, dgrams, reported, ready_cnt, done>>

PopWrite ==
    /\ pc = "popWrite" /\ ea[act].writes # <<>>
    /\ pc' = "writes" /\ n' = n - 1
    /\ done' = done \cup ({Head(ea[act].writes)} \cap {cb.task})
    /\ ea' = [ea EXCEPT ![act].writes = Tail(@)]
    /\ UNCHANGED <<kernelVars, ei, changes, ready_events, non_submit_events, group,
                   behind, cancelled, after, act, trig, dgrams, cb, reported, ready_cnt>>

WritesDone ==
    /\ pc = "writes" /\ n = 0 /\ pc' = "handled"
    /\ UNCHANGED <<kernelVars, submitVars, dispatchVars>>

(* After a callback has cancelled its own operation: front and pop_front of  *)
(* an empty deque, a null callback, a deleted multishot task                 *)
Dangling ==
    \/ pc = "popRead" /\ ea[act].reads = <<>>
    \/ pc = "reads" /\ n > 0 /\ ea[act].reads = <<>>
    \/ pc = "popWrite" /\ ea[act].writes = <<>>
    \/ pc = "writes" /\ n > 0 /\ ea[act].writes = <<>>
    \/ pc = "dgram" /\ dgrams > 0 /\ "R" \notin ea[act].events
    \/ pc = "multi" /\ ea[act].multi = "no"

Undefined ==
    /\ Dangling /\ pc' = "undef"
    /\ UNCHANGED <<kernelVars, submitVars, dispatchVars>>

CallbackReturns ==
    /\ pc = "cb" /\ pc' = after
    /\ UNCHANGED <<kernelVars, submitVars, dispatchVars>>

-----------------------------------------------------------------------------

User(f) ==
    \/ \E t \in Reads, s \in BOOLEAN : SubmitRead(f, t, s)
    \/ \E t \in Writes, s \in BOOLEAN : SubmitWrite(f, t, s)
    \/ \E s \in BOOLEAN : SubmitMultishot(f, s)
    \/ SubmitAccept(f)
    \/ CancelRead(f) \/ CancelAccept(f) \/ CancelWrite(f)
    \/ CloseFd(f) \/ ReopenFd(f)

Kernel(f) == Arrive(f) \/ PeerCloses(f) \/ Drain(f)

(* The steps of dispatch but for epoll_wait *)
Dispatch ==
    \/ ApplyChanges \/ NextReported \/ NextReady \/ Handled \/ HandleEvents
    \/ DoReadTask \/ NextDatagram \/ PopRead \/ ReadsDone \/ DoMultishot \/ MultishotAgain \/ DoAccept
    \/ WritesBegin \/ DoWriteTask \/ PopWrite \/ WritesDone \/ CallbackReturns
    \/ Undefined

Next ==
    \/ \E f \in Fds : User(f) \/ Kernel(f)
    \/ Submit \/ RegisterRingBuffer \/ UnregisterRingBuffer
    \/ Wait \/ WaitInterrupted \/ Dispatch

Spec == Init /\ [][Next]_vars

(* The loop calls dispatch again and again, callbacks return, and not every *)
(* epoll_wait is interrupted by a signal                                    *)
FairSpec == Spec /\ WF_vars(Dispatch) /\ SF_vars(Wait)

-----------------------------------------------------------------------------

Action == [events : SUBSET RW, readable : BOOLEAN, writable : BOOLEAN,
           reads : Seq(Reads), ns_reads : Seq(Reads), writes : Seq(Writes), ns_writes : Seq(Writes),
           multi : {"no", "waiting", "submitted"}, accept : BOOLEAN]

(* Types.  In particular no read takes more than there is. *)
TypeOK ==
    /\ sk \in [Fds -> [open : BOOLEAN, rx : 0..MaxRx, fin : BOOLEAN, space : 0..Space]]
    /\ kern \in [Fds -> SUBSET RW] /\ edge \subseteq Fds
    /\ ei \in [Fds -> [present : BOOLEAN, events : SUBSET RW, in_epoll : BOOLEAN]]
    /\ ea \in [Fds -> Action]
    /\ changes \subseteq Fds /\ Elems(ready_events) \subseteq Fds \cup {None}
    /\ non_submit_events \subseteq Fds /\ group \in BOOLEAN /\ behind \subseteq Fds
    /\ act \in Fds \cup {None} /\ trig \in BOOLEAN
    /\ n \in Nat /\ dgrams \in Nat /\ ready_cnt \in 0..Len(ready_events)
    /\ \A r \in reported : r.fd \in Fds /\ r.mask \in (SUBSET RW) \ {{}}
    /\ done \subseteq Tasks /\ cancelled \subseteq Tasks /\ closes \in 0..MaxCloses

Flags(f) == (IF ea[f].readable THEN {"R"} ELSE {})
                \cup (IF ea[f].writable THEN {"W"} ELSE {})
Told(f) == UNION {r.mask : r \in {s \in reported : s.fd = f}}

(* An edge is not lost: what the kernel watches for and what is there now is *)
(* on epoll's ready list, returned by the current epoll_wait and still to be *)
(* looked at, or remembered in is_readable_ / is_writable_.  These flags are *)
(* cleared only when the descriptor has been seen to be empty or full.       *)
EdgeNotLost ==
    \A f \in Fds : f \in edge \/ kern[f] \cap ReadyNow(f) \subseteq Flags(f) \cup Told(f)

Handling(f) == act = f /\ pc \notin {"user", "wait", "events", "ready"}
Scheduled(f) == f \in Elems(ready_events) \/ Handling(f)

(* Nothing waits on a descriptor known to be ready: it is in ready_events_   *)
(* or handle_events is at it.  No edge would come to complete it.  Two kinds *)
(* of waiting are excepted because the code leaves them so.  An accept takes *)
(* one connection for each edge and a group read ends after the end of the   *)
(* stream or an error, both with is_readable_ set (behind): what is left     *)
(* waits for the next arrival, or for a new submission, which is queued.     *)
(* And handle_events skips the writes of a descriptor read through a buffer  *)
(* group while that read is not submitted.                                   *)
QueuedWhenReady ==
    \A f \in Fds :
        /\ ea[f].reads # <<>> /\ ea[f].readable => Scheduled(f)
        /\ (ea[f].accept \/ ea[f].multi = "submitted") /\ ea[f].readable
              => Scheduled(f) \/ f \in behind
        /\ ea[f].writes # <<>> /\ ea[f].writable /\ f \notin GroupFds => Scheduled(f)

(* No wake-up is lost: epoll has no reason to report what is there already,  *)
(* so the readiness is known, and what it could complete is scheduled, but   *)
(* for the two exceptions of QueuedWhenReady.                                *)
NoLostWakeUp == EdgeNotLost /\ QueuedWhenReady

Wanted(f) == (IF ReadTasks(f) # {} \/ ea[f].multi # "no" \/ ea[f].accept
              THEN {"R"} ELSE {}) \cup (IF WriteTasks(f) # {} THEN {"W"} ELSE {})

(* What waits for an event is watched by the kernel, or on the change list   *)
(* for the next dispatch: a descriptor "closed and re-opened" included,      *)
(* which apply_one_change retries "as an ADD".                               *)
Registered ==
    \A f \in Fds \ FileFds : f \in changes \/ Wanted(f) \subseteq kern[f]

(* When the callback of a task has returned, pop_front in handle_events      *)
(* removes that task: whatever the callback submitted, and whatever it       *)
(* cancelled other than its own operation (OwnCancel), it is still at the    *)
(* front.                                                                    *)
PopsItsOwn ==
    /\ pc = "popRead" => ea[act].reads # <<>> /\ Head(ea[act].reads) = cb.task
    /\ pc = "popWrite" => ea[act].writes # <<>> /\ Head(ea[act].writes) = cb.task

Distinct(s) == \A i, j \in DOMAIN s : s[i] = s[j] => i = j

(* A task in a deque is there once, in no other deque and not over: neither  *)
(* completed nor cancelled, and never both.  push_back of a retried task,    *)
(* submit(), pop_front and disable_read/write keep this.                     *)
TasksOnce ==
    /\ done \cap cancelled = {}
    /\ \A f \in Fds :
          /\ Held(f) \cap (done \cup cancelled) = {}
          /\ Distinct(ea[f].reads) /\ Distinct(ea[f].ns_reads)
          /\ Distinct(ea[f].writes) /\ Distinct(ea[f].ns_writes)
          /\ Elems(ea[f].reads) \cap Elems(ea[f].ns_reads) = {}
          /\ Elems(ea[f].writes) \cap Elems(ea[f].ns_writes) = {}
          /\ \A g \in Fds \ {f} : Held(f) \cap Held(g) = {}

(* The callback that handle_events has just called cancelled its own task *)
CancelledItself == pc \in {"popRead", "popWrite"} /\ cb.task \in cancelled

(* A task that was submitted never vanishes: a step leaves it in a deque, or *)
(* its callback has run, or it was cancelled.  The only step that drops one  *)
(* is the pop_front after a callback that cancelled its own operation and    *)
(* submitted anew: it takes the new task, unrun.                             *)
TaskNotDropped == [][Known \subseteq Known' \/ CancelledItself]_vars

(* A submitted read of a descriptor completes or is cancelled, unless what   *)
(* was there is taken by another read.                                       *)
ReadCompletes ==
    \A f \in Fds \ FileFds, t \in Reads :
        t \in Elems(ea[f].reads) /\ sk[f].rx > 0
            ~> t \notin Elems(ea[f].reads) \/ sk[f].rx = 0

(* dispatch comes back to the loop, where jobs, instructions and timers wait *)
DispatchReturns == pc # "user" ~> pc = "user"
=============================================================================
