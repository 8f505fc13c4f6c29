------------------------------ MODULE IoUring ------------------------------
(***************************************************************************)
(* The io_uring backend: source/event/io_uring.cpp over the rings of       *)
(* io_uring_wrapper, with complete_action and the provided buffers.        *)
(*                                                                         *)
(* Everything runs on the thread of the event loop: user code between two  *)
(* calls of dispatch (pc = "user"), dispatch itself (pc = "dispatch"), and *)
(* the callbacks it runs (pc = "cb").  What is concurrent is the kernel:   *)
(* it finishes requests and fills the completion ring at any time.         *)
(*                                                                         *)
(* A user_data is the address of a complete_action: those of a descriptor  *)
(* live as long as the backend and are named <<fd, which>>; the one of a   *)
(* timer is freed when the timer is closed, and the heap may hand out its  *)
(* address again.                                                          *)
(***************************************************************************)
EXTENDS Integers, FiniteSets, Functions, UringRings

CONSTANTS
    Fds,            \* descriptors, on both sides of ARRAY_SIZE
    ARRAY_SIZE,     \* MAX_FD
    TimerAddrs,     \* heap addresses the actions of timers get
    BlockCounts,    \* block counts passed to register_ring_buffer
    BlockSize,
    IdMod,          \* 2^16: the identifiers of a group and of a buffer have 16 bits
    Loads,          \* what one behaviour has: calls of user code, "nocb" for calls
                    \* without a callback, "batch" for calls that do not submit,
                    \* "fail" for an io_uring_enter that fails, "nomem" for a
                    \* registration that fails, the build option
    MaxOps,         \* bound on the calls of user code
    MaxGroups,      \* bound on the buffer groups it asks for
    MaxFails,       \* bound on io_uring_enter taking less than it was given
    MaxShots        \* bound on the completions of multishot requests

Map == INSTANCE OptMap

ASSUME BoundAssumption ==
    /\ MaxOps \in Nat /\ MaxGroups \in Nat /\ MaxFails \in Nat /\ MaxShots \in Nat /\ BlockSize \in Nat \ {0}
    /\ BlockCounts \subseteq Nat \ {0} /\ Fds \subseteq Nat
    /\ IdMod \in Nat \ {0} /\ MaxGroups <= IdMod

VARIABLES
    pc,
    info,           \* fd_to_event_info_
    timers,         \* id_to_timer_: the address of the action of each open timer
    timer_id,
    buffers,        \* buffers_: group, and whether iov_base is set
    groups,         \* grp_id_to_buf_rings_: entry_cnt_, start_index_
    group_id,       \* buffer_group_id_
    pbuf,           \* the buffers the kernel may take, per registered group
    last,           \* last_buf_info_ of each group
    inflight,       \* requests the kernel works on
    n, i,           \* dispatch: ret, i
    call,           \* the callback that runs: its user_data, its entry and how many
                    \* buffers there were when it was called
    seen,           \* history: entries dispatch has handled
    load, ops, fails, shots

userVars == <<info, timers, timer_id, buffers, groups, group_id, last>>
kernVars == <<sq, inflight, pbuf, fails>>
dispVars == <<pc, n, i, call, seen>>
vars == <<kernVars, cq, userVars, dispVars, load, ops, shots>>

NoCall == [ud |-> Null, cqe |-> ZeroCqe, len |-> 0]

(* A new iouring_event_info: which of its four actions have a callback, and  *)
(* the group the resubmit function of the read action was made for           *)
NewInfo == [read |-> FALSE, write |-> FALSE, cread |-> FALSE, cwrite |-> FALSE,
            resubmit |-> Null]

Init ==
    /\ sq = SqInit /\ cq = CqInit
    /\ pc = "new" /\ info = Map!Empty /\ timers = <<>> /\ timer_id = 0
    /\ buffers = <<>> /\ groups = <<>> /\ group_id = 0 /\ pbuf = <<>> /\ last = <<>>
    /\ inflight = {} /\ n = 0 /\ i = 0 /\ call = NoCall /\ seen = 0
    /\ load \in Loads /\ ops = 0 /\ fails = 0 /\ shots = 0

-----------------------------------------------------------------------------
(* Preparing and submitting. *)

(* io_uring_wrapper::submit: every value of [sq, inflight, fails, ret] it    *)
(* may leave.  ret is the number taken, or negative.                         *)
Submits(s) ==
    IF ToSubmit(s.sq) = 0 THEN {[s EXCEPT !.ret = 0]}
    ELSE {[sq |-> Submitted(s.sq, k), inflight |-> s.inflight \cup TakenBy(s.sq, k),
           fails |-> IF k = ToSubmit(s.sq) THEN s.fails ELSE s.fails + 1,
           ret |-> IF k = 0 THEN -1 ELSE k] :
          k \in IF s.fails < MaxFails /\ "fail" \in load THEN 0..ToSubmit(s.sq) ELSE {ToSubmit(s.sq)}}

Now == [sq |-> sq, inflight |-> inflight, fails |-> fails, ret |-> 0]

(* get_io_uring_sqe: when the ring is full, submit, and look again if that   *)
(* returned 0.  ret = 1 stands for an entry, 0 for nullptr.                  *)
GetIoUringSqe ==
    IF HasRoom(sq) THEN {[Now EXCEPT !.ret = 1]}
    ELSE {[s EXCEPT !.ret = IF s.ret = 0 /\ HasRoom(s.sq) THEN 1 ELSE 0] : s \in Submits(Now)}

(* get_io_uring_sqe, prepare and, if asked to, submit: the ways this may end *)
Requests(e, setsUserData, submits) ==
    UNION {IF g.ret = 0 THEN {[g EXCEPT !.ret = -1]}
           ELSE LET p == [g EXCEPT !.sq = Prepare(g.sq, e, setsUserData)]
                IN  IF submits THEN Submits(p) ELSE {p} : g \in GetIoUringSqe}

Apply(s) == sq' = s.sq /\ inflight' = s.inflight /\ fails' = s.fails

(* One call more where buffer groups are registered *)
MaxCalls == IF "recv" \in load THEN MaxOps + 1 ELSE MaxOps

UserCalls(op) ==
    /\ pc \in {"user", "cb"} /\ op \in load /\ ops < MaxCalls
    /\ ops' = ops + 1 /\ UNCHANGED <<cq, n, i, call, seen, load, shots>>

UserRuns(op) == UserCalls(op) /\ UNCHANGED pc

(* A call that sends one request and returns 0 if it was submitted; what is  *)
(* set before the entry is asked for stays set when there is none            *)
Send(e, setsUserData, submits) ==
    \E s \in Requests(e, setsUserData, submits) : Apply(s)

Sqe(op, fd, ud, arg) == [op |-> op, fd |-> fd, ud |-> ud, arg |-> arg]

(* find or make the iouring_event_info, and update it *)
InfoOf(fd) == IF Map!Find(info, fd) = Null THEN NewInfo ELSE Map!Find(info, fd)
Known(fd) == Map!Find(info, fd) # Null
PutInfo(fd, v) == info' = Map!Store(IF Known(fd) THEN info ELSE Map!Insert(info, fd, NewInfo), fd, v)

(* The part before get_io_uring_sqe returns nullptr leaves the map alone *)
SendFor(fd, v, e, submits) ==
    \E s \in Requests(e, TRUE, submits) :
        /\ Apply(s)
        /\ IF s.sq.prepared = sq.prepared THEN UNCHANGED info ELSE PutInfo(fd, v)

(* submit_async_read with the caller's buffers, or with none (poll) *)
SubmitRead(fd, cb, submits) ==
    /\ UserRuns("read")
    /\ SendFor(fd, [InfoOf(fd) EXCEPT !.read = @ \/ cb], Sqe("read", fd, <<fd, "read">>, Null), submits)
    /\ UNCHANGED <<timers, timer_id, buffers, groups, group_id, last, pbuf>>

(* is_buffer_valid is given the group, and looks for a buffer of that index *)
IsBufferValid(k) == k < Len(buffers) /\ buffers[k + 1].base

(* submit_async_read with a buffer group: a multishot request *)
SubmitReadGroup(fd, g, submits) ==
    /\ UserRuns("recv") /\ IsBufferValid(g)
    /\ SendFor(fd, [InfoOf(fd) EXCEPT !.read = TRUE, !.resubmit = g],
               Sqe("recv", fd, <<fd, "read">>, <<g>>), submits)
    /\ UNCHANGED <<timers, timer_id, buffers, groups, group_id, last, pbuf>>

SubmitWrite(fd, cb, submits) ==
    /\ UserRuns("write")
    /\ SendFor(fd, [InfoOf(fd) EXCEPT !.write = @ \/ cb], Sqe("write", fd, <<fd, "write">>, Null), submits)
    /\ UNCHANGED <<timers, timer_id, buffers, groups, group_id, last, pbuf>>

SubmitAccept(fd) ==
    /\ UserRuns("accept")
    /\ SendFor(fd, [InfoOf(fd) EXCEPT !.read = TRUE], Sqe("accept", fd, <<fd, "read">>, Null), TRUE)
    /\ UNCHANGED <<timers, timer_id, buffers, groups, group_id, last, pbuf>>

(* cancel_async_read and cancel_async_accept.  The request names the         *)
(* descriptor; its own user_data is not set.                                 *)
CancelByFd(fd) ==
    /\ UserRuns("cancel") /\ Known(fd)
    /\ PutInfo(fd, [InfoOf(fd) EXCEPT !.cread = TRUE])
    /\ Send(Sqe("cancel_fd", fd, Null, <<fd, "cread">>), FALSE, TRUE)
    /\ UNCHANGED <<timers, timer_id, buffers, groups, group_id, last, pbuf>>

(* cancel_async_write: what it asks to cancel is the action of the cancel *)
CancelWrite(fd) ==
    /\ UserRuns("cancel") /\ Known(fd)
    /\ PutInfo(fd, [InfoOf(fd) EXCEPT !.cwrite = TRUE])
    /\ Send(Sqe("cancel_ud", -1, Null, <<fd, "cwrite">>), FALSE, TRUE)
    /\ UNCHANGED <<timers, timer_id, buffers, groups, group_id, last, pbuf>>

Submit ==
    /\ UserRuns("submit")
    /\ \E s \in Submits(Now) : Apply(s)
    /\ UNCHANGED <<userVars, pbuf>>

-----------------------------------------------------------------------------
(* Timers. *)

(* IORING_TIMEOUT_MULTISHOT is defined when the library is built *)
MultishotTimeout == "oneshot_timeouts" \notin load

InUse == {timers[id].addr : id \in DOMAIN timers}

NextTimerId == timer_id + 1

(* create_timer: the action is freed again when the request is refused *)
CreateTimer ==
    /\ UserRuns("timer")
    /\ \E a \in TimerAddrs \ InUse : \E s \in Requests(Sqe("timeout", -1, a, Null), TRUE, TRUE) :
        /\ Apply(s)
        /\ IF s.ret <= 0 THEN UNCHANGED <<timers, timer_id>>
           ELSE /\ timers' = [id \in DOMAIN timers \cup {timer_id} |->
                                  IF id = timer_id THEN [addr |-> a, cb |-> TRUE] ELSE timers[id]]
                /\ timer_id' = NextTimerId
    /\ UNCHANGED <<info, buffers, groups, group_id, last, pbuf>>

Without(f, x) == Restrict(f, DOMAIN f \ {x})

(* close_timer: cleanup() first; the timer keeps its place, without a        *)
(* callback, when the cancel cannot be submitted                             *)
CloseTimer(id) ==
    /\ UserRuns("close_timer") /\ id \in DOMAIN timers
    /\ IF MultishotTimeout
       THEN \E s \in Requests(Sqe("cancel_ud", -1, Null, timers[id].addr), FALSE, TRUE) :
                /\ Apply(s)
                /\ timers' = IF s.ret <= 0 THEN [timers EXCEPT ![id].cb = FALSE]
                             ELSE Without(timers, id)
       ELSE timers' = Without(timers, id) /\ UNCHANGED <<sq, inflight, fails>>
    /\ UNCHANGED <<info, timer_id, buffers, groups, group_id, last, pbuf>>

-----------------------------------------------------------------------------
(* Buffer groups. *)

(* register_ring_buffer: the identifier of a buffer is its index in          *)
(* buffers_, whatever its group, cut to the 16 bits of io_uring_buf::bid     *)
RegisterRingBuffer(count) ==
    /\ UserRuns("recv") /\ group_id < MaxGroups
    /\ \E e \in 0..count : count = 2^e
    /\ buffers' = buffers \o [k \in 1..count |-> [grp |-> group_id, base |-> TRUE]]
    /\ groups' = [g \in DOMAIN groups \cup {group_id} |->
                      IF g = group_id THEN [cnt |-> count, start |-> Len(buffers)] ELSE groups[g]]
    /\ pbuf' = [g \in DOMAIN pbuf \cup {group_id} |->
                      IF g = group_id THEN [k \in 1..count |-> (Len(buffers) + k - 1) % IdMod]
                      ELSE pbuf[g]]
    /\ last' = [g \in DOMAIN last \cup {group_id} |->
                      IF g = group_id THEN [buf |-> Null, off |-> 0] ELSE last[g]]
    /\ group_id' = group_id + 1
    /\ UNCHANGED <<info, timers, timer_id, sq, inflight, fails>>

(* It fails in setup_buf_ring or for want of memory.  The identifier of the  *)
(* group is used up; what setup_buf_ring mapped is then given to free, which *)
(* may end the program, and the group the kernel keeps has no buffer.        *)
RegisterFails ==
    /\ UserCalls("nomem") /\ group_id < MaxGroups
    /\ group_id' = group_id + 1 /\ pc' \in {pc, "exit"}
    /\ UNCHANGED <<kernVars, info, timers, timer_id, buffers, groups, last>>

(* unregister_ring_buffer: the kernel forgets the group; the loop frees the  *)
(* first buffer of the group, meets it again unless it is the last of all,   *)
(* and then returns -1 without erasing the group                             *)
UnregisterRingBuffer(g) ==
    /\ UserRuns("unregister") /\ g \in DOMAIN groups /\ g \in DOMAIN pbuf
    /\ LET b == groups[g].start + 1
       IN  /\ buffers' = [buffers EXCEPT ![b].base = FALSE]
           /\ groups' = IF b = Len(buffers) THEN Without(groups, g) ELSE groups
    /\ pbuf' = Without(pbuf, g)
    /\ UNCHANGED <<info, timers, timer_id, group_id, last, sq, inflight, fails>>

-----------------------------------------------------------------------------
(* The kernel (external). *)

Reply(r, res, more, buf) == [of |-> r, res |-> res, more |-> more, buf |-> buf]

Finish(r, res) == cq' = Post(cq, Reply(r, res, FALSE, Null)) /\ inflight' = inflight \ {r}

Running == pc \in {"user", "dispatch", "cb"}

KernelStep ==
    /\ Running /\ ~CqFull(cq)
    /\ UNCHANGED <<sq, fails, userVars, dispVars, load, ops>>

(* a one-shot request is done *)
KernelDone(r) ==
    /\ KernelStep /\ r.op \in {"read", "write"} /\ Finish(r, 1)
    /\ UNCHANGED <<pbuf, shots>>

(* a multishot request reports a connection, an expiration or data in the    *)
(* next buffer of its group, and stays unless the kernel ends it             *)
KernelShot(r, more) ==
    /\ KernelStep /\ shots < MaxShots /\ shots' = shots + 1
    /\ \/ r.op = "accept"
       \/ r.op = "timeout" /\ more = MultishotTimeout
       \/ r.op = "recv" /\ r.arg[1] \in DOMAIN pbuf /\ pbuf[r.arg[1]] # <<>>
    /\ IF r.op = "recv"
       THEN /\ cq' = Post(cq, Reply(r, 1, more, Head(pbuf[r.arg[1]])))
            /\ pbuf' = [pbuf EXCEPT ![r.arg[1]] = Tail(@)]
       ELSE cq' = Post(cq, Reply(r, 1, more, Null)) /\ UNCHANGED pbuf
    /\ inflight' = IF more THEN inflight ELSE inflight \ {r}

(* -ENOBUFS: a multishot receive ends when its group has no buffer *)
KernelNoBuffer(r) ==
    /\ KernelStep /\ r.op = "recv"
    /\ r.arg[1] \in DOMAIN pbuf => pbuf[r.arg[1]] = <<>>
    /\ Finish(r, -1) /\ UNCHANGED <<pbuf, shots>>

(* a cancellation is refused, finds nothing or is done; before that one that *)
(* names a user_data ends a request that has it, which reports first, and    *)
(* one by descriptor, which asks for IORING_ASYNC_CANCEL_ANY, any number of  *)
(* requests: kernels differ in how they read the two flags                   *)
KernelCancel(c) ==
    /\ KernelStep /\ c.op \in {"cancel_fd", "cancel_ud"}
    /\ \/ Finish(c, -1)
       \/ c.op = "cancel_fd" /\ \E r \in inflight \ {c} : Finish(r, -1)
       \/ \E r \in {q \in inflight \ {c} : c.op = "cancel_ud" /\ q.ud = c.arg} :
              LET first == Post(cq, Reply(r, -1, FALSE, Null))
              IN  /\ ~CqFull(first)
                  /\ cq' = Post(first, Reply(c, 0, FALSE, Null))
                  /\ inflight' = inflight \ {c, r}
    /\ UNCHANGED <<pbuf, shots>>

Kernel == \E r \in inflight :
              KernelDone(r) \/ KernelShot(r, TRUE) \/ KernelShot(r, FALSE)
                  \/ KernelNoBuffer(r) \/ KernelCancel(r)

-----------------------------------------------------------------------------
(* dispatch. *)

TimerAt(ud) == {id \in DOMAIN timers : timers[id].addr = ud}

(* What reinterpret_cast finds at user_data: freed memory, or an action that *)
(* has a callback or has none                                                *)
Freed(ud) == ud \in TimerAddrs /\ TimerAt(ud) = {}
HasCallback(ud) == IF ud \in TimerAddrs THEN \E id \in TimerAt(ud) : timers[id].cb
                   ELSE InfoOf(ud[1])[ud[2]]

Base(b) == buffers[b + 1].base
GroupOf(b) == buffers[b + 1].grp
Offset(b) == IF last[GroupOf(b)].buf = b THEN last[GroupOf(b)].off ELSE 0
Usable(c) == c.buf = Null \/ (Base(c.buf) /\ Offset(c.buf) < BlockSize)

(* update_offset, and the buffer goes back to its group *)
ReAdd(b) ==
    /\ last' = [last EXCEPT ![GroupOf(b)] = [buf |-> b, off |-> Offset(b) + 1]]
    /\ pbuf' = [pbuf EXCEPT ![GroupOf(b)] = Append(@, b)]

(* resubmit_multishot: the function of the read action prepares the request  *)
(* again, without a user_data, and ignores what submit returns; it does not  *)
(* look whether there was an entry                                           *)
Resubmit(ud) ==
    LET g == IF ud \in TimerAddrs \/ ud[2] # "read" THEN Null ELSE InfoOf(ud[1]).resubmit
    IN  IF g = Null THEN {[Now EXCEPT !.ret = 1]}
        ELSE Requests(Sqe("recv", ud[1], Null, <<g>>), FALSE, TRUE)

(* Mutant of NextEntry: the same entry again. *)
SameEntry == pc' = "dispatch" /\ i' = i /\ call' = NoCall /\ seen' = seen + 1 /\ UNCHANGED n

NextEntry == pc' = "dispatch" /\ i' = i + 1 /\ call' = NoCall /\ seen' = seen + 1 /\ UNCHANGED n

Exit == pc' = "exit" /\ UNCHANGED <<kernVars, last, n, i, call, seen>>

(* The rest of an entry's turn once its callback, if any, has returned; keep *)
(* says whether iov_base is found set.  Adding a buffer to a group that is   *)
(* unregistered writes to unmapped memory, and so does preparing at nullptr. *)
AfterCallback(c, keep) ==
    LET adds == c.buf # Null /\ keep
    IN  IF adds /\ GroupOf(c.buf) \notin DOMAIN pbuf THEN Exit
        ELSE \E s \in IF c.buf # Null /\ ~c.more THEN Resubmit(c.of.ud) ELSE {[Now EXCEPT !.ret = 1]} :
            IF s.sq.prepared = sq.prepared /\ s.ret = -1 THEN Exit
            ELSE /\ Apply(s)
                 /\ IF adds THEN ReAdd(c.buf) ELSE UNCHANGED <<last, pbuf>>
                 /\ NextEntry

(* wait_cqe_timeout.  When it times out or is interrupted dispatch returns   *)
(* -1 and nothing has changed.                                               *)
DispatchWait ==
    /\ pc = "user" /\ Ready(cq) > 0
    /\ pc' = "dispatch" /\ n' = Ready(cq) /\ i' = 0
    /\ UNCHANGED <<kernVars, cq, userVars, call, seen, load, ops, shots>>

(* The callback of a timer asks for the next expiration before it calls the  *)
(* user's, when timeouts are one-shot                                        *)
CallBack(c) ==
    \E s \in IF c.of.ud \in TimerAddrs /\ ~MultishotTimeout
             THEN Requests(Sqe("timeout", -1, c.of.ud, Null), TRUE, TRUE)
             ELSE {[Now EXCEPT !.ret = 1]} :
        IF s.ret <= 0 THEN Exit
        ELSE /\ Apply(s) /\ pc' = "cb" /\ call' = [ud |-> c.of.ud, cqe |-> c, len |-> Len(buffers)]
             /\ UNCHANGED <<pbuf, last, n, i, seen>>

DispatchEntry ==
    /\ pc = "dispatch" /\ i < n
    /\ LET c == GetCqe(cq, i)
       IN  IF c.of.ud = Null THEN NextEntry /\ UNCHANGED <<kernVars, last>>
           ELSE IF Freed(c.of.ud) THEN Exit \/ AfterCallback(c, Usable(c))
           ELSE IF Usable(c) /\ HasCallback(c.of.ud) THEN CallBack(c)
           ELSE AfterCallback(c, Usable(c))
    /\ UNCHANGED <<cq, info, timers, timer_id, buffers, groups, group_id, load, ops, shots>>

(* dispatch holds a reference into buffers_ across the callback.  When the   *)
(* callback registered a group the vector may have moved: what is read then  *)
(* is the old element, garbage, or nothing that can be read.                 *)
CallbackReturns ==
    /\ pc = "cb"
    /\ LET c == call.cqe
           moved == c.buf # Null /\ Len(buffers) # call.len
       IN  \/ moved /\ Exit
           \/ \E keep \in IF moved THEN BOOLEAN ELSE {c.buf # Null /\ Base(c.buf)} :
                  AfterCallback(c, keep)
    /\ UNCHANGED <<cq, info, timers, timer_id, buffers, groups, group_id, load, ops, shots>>

DispatchReturns ==
    /\ pc = "dispatch" /\ i = n
    /\ cq' = CqConsume(cq, n)
    /\ pc' = "user" /\ n' = 0 /\ i' = 0
    /\ UNCHANGED <<kernVars, userVars, call, seen, load, ops, shots>>

-----------------------------------------------------------------------------
(* init, which may fail, and close *)
Open == /\ pc = "new" /\ pc' \in {"user", "closed"}
        /\ UNCHANGED <<kernVars, cq, userVars, n, i, call, seen, load, ops, shots>>

Close == /\ pc = "user" /\ "close" \in load
         /\ pc' = "closed" /\ info' = Map!Empty
         /\ UNCHANGED <<kernVars, cq, timers, timer_id, buffers, groups, group_id, last,
                        n, i, call, seen, load, ops, shots>>

User ==
    \/ \E fd \in Fds : SubmitAccept(fd) \/ CancelByFd(fd) \/ CancelWrite(fd)
    \/ \E fd \in Fds, cb, submits \in BOOLEAN :
           /\ cb \/ "nocb" \in load
           /\ submits \/ "batch" \in load
           /\ \/ SubmitRead(fd, cb, submits)
              \/ SubmitWrite(fd, cb, submits)
              \/ \E g \in 0..MaxGroups - 1 : cb /\ SubmitReadGroup(fd, g, submits)
    \/ Submit \/ CreateTimer \/ Open \/ Close
    \/ \E id \in 0..MaxOps : CloseTimer(id)
    \/ \E g \in 0..MaxGroups - 1 : UnregisterRingBuffer(g)
    \/ \E count \in BlockCounts : RegisterRingBuffer(count)
    \/ RegisterFails

Dispatch == DispatchWait \/ DispatchEntry \/ CallbackReturns \/ DispatchReturns

Next == User \/ Kernel \/ Dispatch

Spec == Init /\ [][Next]_vars

-----------------------------------------------------------------------------
(* Properties. *)

(* dispatch looks at every completion exactly once and in the order the      *)
(* kernel posted them, although the kernel posts more while callbacks run:   *)
(* the entry it reads next is the first one it has not handled, and what     *)
(* cq_consume gives back is what was handled; dispatch stays inside the      *)
(* batch that wait_cqe_timeout counted.                                      *)
EachCompletionOnce ==
    /\ i \in 0..n /\ n \in 0..CqEntries
    /\ seen = cq.consumed + i
    /\ pc = "dispatch" /\ i < n => GetCqe(cq, i).id = seen
    /\ pc = "cb" => call.cqe.id = seen

(* The buffer of an entry that dispatch has not finished with *)
Pending == {k \in i..Ready(cq) - 1 : GetCqe(cq, k).buf # Null}

(* A provided buffer is never in two places: free for the kernel to fill, or *)
(* named by one completion whose callback has not returned.  Otherwise the   *)
(* kernel overwrites data a callback is reading.  It goes back to the ring   *)
(* of its own group.  This is so while the buffers have identifiers of their *)
(* own: register_ring_buffer does not refuse the one that is one too many.   *)
BufferInOnePlace ==
    Len(buffers) <= IdMod =>
    /\ \A j, k \in Pending : GetCqe(cq, j).buf = GetCqe(cq, k).buf => j = k
    /\ \A g \in DOMAIN pbuf : \A m \in DOMAIN pbuf[g] :
          /\ \A k \in Pending : GetCqe(cq, k).buf # pbuf[g][m]
          /\ \A h \in DOMAIN pbuf : \A l \in DOMAIN pbuf[h] : pbuf[g][m] = pbuf[h][l] => g = h /\ m = l
          /\ GroupOf(pbuf[g][m]) = g

(* The loop calls dispatch again and again, and callbacks return. *)
FairSpec == Spec /\ WF_vars(Open) /\ WF_vars(DispatchWait) /\ WF_vars(DispatchEntry)
                 /\ WF_vars(CallbackReturns) /\ WF_vars(DispatchReturns)

(* Every completion the kernel posts is handled, unless the program ends:    *)
(* dispatch catches up again and again.                                      *)
EveryCompletionHandled == []<>(seen = cq.posted \/ ~Running)
=============================================================================
