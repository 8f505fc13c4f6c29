-------------------------- MODULE CoroutineService --------------------------
(***************************************************************************)
(* The coroutine layer: include/coroutine/coroutine_service.h and the      *)
(* awaiters and tasks of include/coroutine/awaitable.h.                    *)
(*                                                                         *)
(* A coroutine that is resumed runs inside the call that resumes it: stack *)
(* holds the running coroutines, innermost first, each with what its       *)
(* resumer still does once it suspends.  With an empty stack the event     *)
(* loop runs, and calls back the operations the poller holds.  Coroutines  *)
(* may be spawned before the loop is started, on another thread.           *)
(*                                                                         *)
(* An awaiter is named by its place in aws; it lives in its coroutine,     *)
(* which awaits every operation it starts.  What C++ leaves undefined (a   *)
(* callback into a destroyed awaiter, a resume of a coroutine that is not  *)
(* suspended) and a resume by an operation the coroutine does not wait for *)
(* are recorded in fault; a behaviour is followed up to its first fault.   *)
(***************************************************************************)
EXTENDS Integers, FiniteSets, SequencesExt

CONSTANTS
    Coros,          \* 1..n, in the order they are created
    Fds, Null,
    Capacity,       \* blocks of the frame pool
    Backends,       \* subset of {"epoll", "io_uring"}
    Loads,          \* sets of operations the coroutines of a behaviour use
    MaxAws          \* bound on the operations started

(* coroutine_frame_pool links its blocks in an array of                      *)
(* DEFAULT_FRAME_POOL_CAPACITY = 4096 entries and ends the list at entry     *)
(* capacity - 1 without looking at either end: the constructor is right for  *)
(* these capacities only                                                     *)
ASSUME CoroAssumption == /\ Null \notin Coros \cup Fds /\ Coros \subseteq Nat /\ MaxAws \in Nat
                         /\ Capacity \in 1..4096

VARIABLES
    co,             \* coroutines: state, awaiter waited for, block, continuation_
    aws,            \* awaiters: kind, owner, alive, handle_, ready_, co_awaited
    stack,
    calls,          \* operations the poller holds, and the awaiter each calls back
    fdinfo,         \* fd_info_map_: state_, pending_read_awaiter_
    free,           \* the free list of coroutine_frame_pool
    spawned,        \* spawned_list_
    pending_cleanup, cleanup_posted,
    jobs,           \* sweep jobs posted and not run
    fault,
    started, backend, load

coVars == <<co, stack>>
ioVars == <<calls, fdinfo>>
taskVars == <<spawned, pending_cleanup, cleanup_posted, jobs>>
envVars == <<started, backend, load>>
vars == <<co, aws, stack, calls, fdinfo, free, taskVars, fault, envVars>>

NoInfo == [state |-> "NONE", pending |-> 0]
NoFault == [what |-> "none", op |-> "none"]

Init ==
    /\ co = [c \in Coros |-> [st |-> "none", aw |-> 0, block |-> Null, cont |-> Null]]
    /\ aws = <<>> /\ stack = <<>> /\ calls = {} /\ fdinfo = [f \in Fds |-> NoInfo]
    /\ free = [k \in 1..Capacity |-> k]
    /\ spawned = {} /\ pending_cleanup = {} /\ cleanup_posted = FALSE /\ jobs = 0
    /\ fault = NoFault /\ started = FALSE /\ backend \in Backends /\ load \in Loads

Runs(c) == fault = NoFault /\ stack # <<>> /\ Head(stack).co = c
LoopRuns == fault = NoFault /\ stack = <<>> /\ started
Uses(op) == op \in load /\ Len(aws) < MaxAws
Fails(rc) == rc \in IF "fail" \in load THEN {0, -1} ELSE {0}
Fault(what, op) == fault' = [what |-> what, op |-> op]

-----------------------------------------------------------------------------
(* Frames: promise operator new and delete, alloc_frame, free_frame. *)

(* current_coro_svc is thread_local: the constructor sets it on the thread   *)
(* that spawns before the loop starts, and the loop's thread has it only if  *)
(* the program calls set_current there                                       *)
HasPool == ~started \/ "set_current" \in load

(* A frame larger than a block ("large" in the load) is on the heap, as when *)
(* the pool is used up                                                       *)
FromPool == HasPool /\ "large" \notin load /\ free # <<>>

(* Mutant of FreeAfterAlloc: the head of the list is handed out and stays. *)
FreeAfterAllocKeep == free

FreeAfterAlloc == IF FromPool THEN Tail(free) ELSE free

NewFrame(cont) == [st |-> "running", aw |-> 0, cont |-> cont,
                   block |-> IF FromPool THEN Head(free) ELSE 0]

(* The frames of D are destroyed, blocks of the pool go back to its list;    *)
(* block 0 stands for the heap.  Without current_coro_svc a pool block is    *)
(* handed to the global operator delete.                                     *)
Destroy(D) ==
    LET blocks == {co[d].block : d \in D} \ {0}
    IN  IF HasPool \/ blocks = {}
        THEN free' = SetToSeq(blocks) \o free /\ UNCHANGED fault
        ELSE Fault("delete", "none") /\ UNCHANGED free

(* The awaiters S of A are destroyed; nothing of them is read again *)
Dead == [kind |-> "dead", owner |-> Null, alive |-> FALSE, handle |-> Null, ready |-> TRUE, awaited |-> TRUE]
Destroyed(A, S) == [a \in DOMAIN A |-> IF a \in S THEN Dead ELSE A[a]]
OwnedBy(D) == {a \in DOMAIN aws : aws[a].owner \in D}

-----------------------------------------------------------------------------
(* Resuming and suspending. *)

Then(do, f, a) == [do |-> do, fd |-> f, aw |-> a]
Frame(c, then) == [co |-> c, then |-> then]
Return == Then("return", Null, 0)

(* complete() and the callbacks the awaiters make: the result and ready_ are *)
(* stored in A, then handle_.resume(), on top of the calls running.          *)
(* handle_ keeps its value afterwards.                                       *)
Complete(A, a, op, then) ==
    LET h == A[a].handle
    IN  IF ~A[a].alive \/ h = Null
        THEN /\ aws' = [A EXCEPT ![a].ready = TRUE] /\ UNCHANGED coVars
             /\ IF A[a].alive THEN UNCHANGED fault ELSE Fault("dangling", op)
        ELSE /\ aws' = [A EXCEPT ![a].ready = TRUE]
             /\ stack' = <<Frame(h, then)>> \o stack
             /\ co' = [co EXCEPT ![h].st = "running", ![h].aw = 0]
             /\ IF co[h].st = "waiting" /\ co[h].aw = a THEN UNCHANGED fault
                ELSE Fault(IF co[h].st = "waiting" THEN "stray" ELSE "busy", op)

(* What cancel_async_read of the poller does: epoll drops the read and calls *)
(* back at once; io_uring submits a cancellation whose callback never comes, *)
(* and the read stays until it completes                                     *)
Drops(f, kinds) == {o \in calls : o.fd # f \/ o.kind \notin kinds}

CancelledRead(t) == IF t.do = "cancel" /\ backend = "epoll" THEN Drops(t.fd, {"read", "recv"}) ELSE calls

(* The rest of cancel_read, after the reader was resumed *)
CancelTail(A, t, rc) ==
    /\ aws' = IF t.do = "cancel" THEN [A EXCEPT ![t.aw].ready = TRUE] ELSE A
    /\ calls' = CancelledRead(t)
    /\ fdinfo' = IF t.do # "cancel" THEN fdinfo
                 ELSE [fdinfo EXCEPT ![t.fd].pending = 0,
                                     ![t.fd].state = IF backend = "epoll" \/ rc # 0 THEN "NONE" ELSE "CANCELLING"]
    /\ rc \in IF t.do = "cancel" /\ backend = "io_uring" /\ "fail" \in load THEN {0, -1} ELSE {0}

(* The innermost coroutine suspends: its resumer goes on *)
Suspends(A, rc) == stack' = Tail(stack) /\ CancelTail(A, Head(stack).then, rc)

-----------------------------------------------------------------------------
(* Starting an operation.  Its awaiter belongs to the running coroutine. *)

NewAw(c, kind, ready) ==
    [kind |-> kind, owner |-> c, alive |-> TRUE, handle |-> Null, ready |-> ready, awaited |-> FALSE]
NextAw == Len(aws) + 1

(* The poller keeps one callback per descriptor and direction: it replaces   *)
(* the one of the operations still outstanding there                         *)
Direction(kind) == IF kind = "recv" THEN "read" ELSE kind
Submitted(kind, f) ==
    {IF o.fd # Null /\ o.fd = f /\ Direction(o.kind) = Direction(kind)
     THEN [o EXCEPT !.aw = NextAw] ELSE o : o \in calls}
        \cup {[kind |-> kind, fd |-> f, id |-> NextAw, aw |-> NextAw]}

(* Mutant of Idle: a read is submitted whatever the state. *)
IdleAlways(f) == TRUE

Idle(f) == fdinfo[f].state = "NONE"

(* read into buffers (kind "read") or from a buffer group (kind "recv"):     *)
(* completed at once with -EALREADY, or with the code of a refused submit    *)
Read(c, f, kind, rc) ==
    /\ Runs(c) /\ Uses(kind) /\ Fails(rc)
    /\ IF Idle(f) /\ rc = 0
       THEN /\ aws' = Append(aws, NewAw(c, kind, FALSE))
            /\ fdinfo' = [fdinfo EXCEPT ![f] = [state |-> "PENDING", pending |-> NextAw]]
            /\ calls' = Submitted(kind, f)
       ELSE aws' = Append(aws, NewAw(c, kind, TRUE)) /\ UNCHANGED ioVars
    /\ UNCHANGED <<coVars, free, taskVars, fault, envVars>>

(* write and accept.  A descriptor has one callback per direction, so a      *)
(* program has one write, or one accept, outstanding on it.                  *)
StartOnFd(c, f, kind, rc) ==
    /\ Runs(c) /\ Uses(kind) /\ Fails(rc)
    /\ \A o \in calls : o.kind = kind /\ o.fd = f => aws[o.aw].ready
    /\ aws' = Append(aws, NewAw(c, kind, rc # 0))
    /\ calls' = IF rc = 0 THEN Submitted(kind, f) ELSE calls
    /\ UNCHANGED <<coVars, fdinfo, free, taskVars, fault, envVars>>

(* sleep (create_timer may fail) and run_in_loop *)
StartOther(c, kind, rc) ==
    /\ Runs(c) /\ Uses(kind) /\ Fails(rc) /\ (kind = "job" => rc = 0)
    /\ aws' = Append(aws, NewAw(c, kind, rc # 0))
    /\ calls' = IF rc = 0 THEN Submitted(kind, Null) ELSE calls
    /\ UNCHANGED <<coVars, fdinfo, free, taskVars, fault, envVars>>

(* cancel_write and cancel_accept: epoll drops the operation and calls back  *)
(* before it returns; with io_uring the callback comes only if it failed     *)
CancelOp(c, f, kind, rc) ==
    /\ Runs(c) /\ Uses("cancel") /\ Fails(rc) /\ kind \in load
    /\ aws' = Append(aws, NewAw(c, "cancel", backend = "epoll" \/ rc # 0))
    /\ calls' = IF backend = "epoll" /\ rc = 0 THEN Drops(f, {kind}) ELSE calls
    /\ UNCHANGED <<coVars, fdinfo, free, taskVars, fault, envVars>>

(* cancel_read: the pending read is completed with -ECANCELED, which resumes *)
(* the reader inside this call; the rest follows when the reader suspends.   *)
(* A read not awaited yet resumes nobody, and the rest follows at once.      *)
CancelRead(c, f, rc) ==
    LET x == NewAw(c, "cancel", FALSE)
        a == fdinfo[f].pending
        then == Then("cancel", f, NextAw)
    IN  /\ Runs(c) /\ Uses("cancel_read")
        /\ \/ /\ fdinfo[f].state # "PENDING" /\ rc = 0
              /\ aws' = Append(aws, [x EXCEPT !.ready = TRUE]) /\ UNCHANGED <<coVars, ioVars, fault>>
           \/ /\ fdinfo[f].state = "PENDING" /\ aws[a].alive /\ aws[a].handle = Null
              /\ CancelTail(Append([aws EXCEPT ![a].ready = TRUE], x), then, rc)
              /\ UNCHANGED <<coVars, fault>>
           \/ /\ fdinfo[f].state = "PENDING" /\ ~(aws[a].alive /\ aws[a].handle = Null) /\ rc = 0
              /\ fdinfo' = [fdinfo EXCEPT ![f].state = "CANCELLING"]
              /\ Complete(Append(aws, x), a, "cancel_read", then) /\ UNCHANGED calls
        /\ UNCHANGED <<free, taskVars, envVars>>

-----------------------------------------------------------------------------
(* What a coroutine does besides. *)

(* Mutant of AwaitReady: callback_awaiter_base's answer for every awaiter. *)
AwaitReadyNever(a) == FALSE

(* await_ready: only async_result looks at ready_ *)
AwaitReady(a) == aws[a].kind \in {"write", "job", "cancel"} /\ aws[a].ready

(* co_await on awaiter a: await_ready, await_suspend *)
Await(c, a, rc) ==
    /\ Runs(c) /\ a \in DOMAIN aws /\ aws[a].owner = c /\ ~aws[a].awaited
    /\ IF AwaitReady(a)
       THEN aws' = [aws EXCEPT ![a].awaited = TRUE] /\ rc = 0 /\ UNCHANGED <<coVars, ioVars>>
       ELSE /\ co' = [co EXCEPT ![c].st = "waiting", ![c].aw = a]
            /\ Suspends([aws EXCEPT ![a].awaited = TRUE, ![a].handle = c], rc)
    /\ UNCHANGED <<free, taskVars, fault, envVars>>

(* The awaiters of the operations awaited go out of scope *)
Drop(c) ==
    LET dropped == {a \in OwnedBy({c}) : aws[a].awaited}
    IN  /\ Runs(c) /\ dropped # {}
        /\ aws' = Destroyed(aws, dropped)
        /\ UNCHANGED <<coVars, ioVars, free, taskVars, fault, envVars>>

IsNext(c) == co[c].st = "none" /\ \A d \in Coros : co[d].st = "none" => c <= d

(* co_await on a new task: the caller suspends and the task runs in its place *)
Call(c, d) ==
    /\ Runs(c) /\ "call" \in load /\ IsNext(d)
    /\ co' = [co EXCEPT ![d] = NewFrame(c), ![c].st = "waiting"]
    /\ free' = FreeAfterAlloc
    /\ stack' = <<[Head(stack) EXCEPT !.co = d]>> \o Tail(stack)
    /\ UNCHANGED <<aws, ioVars, taskVars, fault, envVars>>

(* spawn: a new frame, tracked, then start(), before the loop or on it *)
Spawn(c) ==
    /\ fault = NoFault /\ IsNext(c)
    /\ co' = [co EXCEPT ![c] = NewFrame(Null)]
    /\ free' = FreeAfterAlloc /\ spawned' = spawned \cup {c}
    /\ stack' = <<Frame(c, Return)>> \o stack
    /\ UNCHANGED <<aws, ioVars, pending_cleanup, cleanup_posted, jobs, fault, envVars>>

Finishes(c) ==
    Runs(c) /\ \A a \in OwnedBy({c}) : aws[a].awaited

(* final_suspend of a spawned coroutine: its locals are gone, its frame is   *)
(* not; on_final_resume_ clears the handle and posts one sweep               *)
Finish(c, rc) ==
    /\ Finishes(c) /\ co[c].cont = Null
    /\ co' = [co EXCEPT ![c].st = "done"]
    /\ Suspends(Destroyed(aws, OwnedBy({c})), rc)
    /\ pending_cleanup' = pending_cleanup \cup {c}
    /\ cleanup_posted' = TRUE /\ jobs' = IF cleanup_posted THEN jobs ELSE jobs + 1
    /\ UNCHANGED <<free, spawned, fault, envVars>>

(* final_suspend of a called task resumes the caller, whose task object then *)
(* destroys the frame                                                        *)
FinishCall(c) ==
    /\ Finishes(c) /\ co[c].cont # Null
    /\ co' = [co EXCEPT ![c].st = "gone", ![co[c].cont].st = "running"]
    /\ stack' = <<[Head(stack) EXCEPT !.co = co[c].cont]>> \o Tail(stack)
    /\ aws' = Destroyed(aws, OwnedBy({c}))
    /\ Destroy({c})
    /\ UNCHANGED <<ioVars, taskVars, envVars>>

-----------------------------------------------------------------------------
(* The event loop. *)

StartLoop ==
    /\ fault = NoFault /\ stack = <<>> /\ ~started
    /\ started' = TRUE
    /\ UNCHANGED <<co, aws, stack, ioVars, free, taskVars, fault, backend, load>>

(* The poller calls back an operation; accepts and group reads stay.  The    *)
(* callback of a read clears the descriptor's state before it resumes.       *)
Callback(o) ==
    /\ LoopRuns /\ o \in calls
    /\ calls' = IF o.kind \in {"accept", "recv"} THEN calls ELSE calls \ {o}
    /\ fdinfo' = IF o.kind \in {"read", "recv"} THEN [fdinfo EXCEPT ![o.fd] = NoInfo] ELSE fdinfo
    /\ Complete(aws, o.aw, o.kind, Return)
    /\ UNCHANGED <<free, taskVars, envVars>>

(* Mutant of Sweep: cleanup_posted_ is not reset. *)
SweepKeepsFlag ==
    /\ LoopRuns /\ jobs > 0
    /\ jobs' = jobs - 1 /\ spawned' = spawned \ pending_cleanup /\ pending_cleanup' = {}
    /\ UNCHANGED <<co, aws, stack, ioVars, free, cleanup_posted, fault, envVars>>

(* The posted job: sweep_completed erases the finished tasks by iterator *)
Sweep ==
    /\ LoopRuns /\ jobs > 0
    /\ jobs' = jobs - 1 /\ spawned' = spawned \ pending_cleanup /\ pending_cleanup' = {}
    /\ cleanup_posted' = FALSE
    /\ IF pending_cleanup \subseteq spawned THEN UNCHANGED fault ELSE Fault("erase", "none")
    /\ UNCHANGED <<co, aws, stack, ioVars, free, envVars>>

(* Mutant of ClearSpawned: pending_cleanup_ keeps its iterators. *)
ClearSpawnedOnly ==
    /\ LoopRuns /\ "clear" \in load /\ spawned # {}
    /\ LET D == {c \in Coros : co[c].st = "waiting"}
       IN  /\ co' = [c \in Coros |-> IF c \in D THEN [co[c] EXCEPT !.st = "gone"] ELSE co[c]]
           /\ aws' = Destroyed(aws, OwnedBy(D)) /\ Destroy(D)
    /\ spawned' = {} /\ cleanup_posted' = FALSE
    /\ UNCHANGED <<stack, ioVars, pending_cleanup, jobs, envVars>>

(* clear_spawned: the suspended coroutines are destroyed with the tasks they *)
(* await; the poller keeps their operations                                  *)
ClearSpawned ==
    /\ LoopRuns /\ "clear" \in load /\ spawned # {}
    /\ LET D == {c \in Coros : co[c].st = "waiting"}
       IN  /\ co' = [c \in Coros |-> IF c \in D THEN [co[c] EXCEPT !.st = "gone"] ELSE co[c]]
           /\ aws' = Destroyed(aws, OwnedBy(D)) /\ Destroy(D)
    /\ spawned' = {} /\ pending_cleanup' = {} /\ cleanup_posted' = FALSE
    /\ UNCHANGED <<stack, ioVars, jobs, envVars>>

-----------------------------------------------------------------------------
CoroutineStep(c) ==
    \/ \E rc \in {0, -1} : Finish(c, rc) \/ \E a \in 1..MaxAws : Await(c, a, rc)
    \/ FinishCall(c)
    \/ Drop(c)
    \/ \E f \in Fds, rc \in {0, -1} :
          \/ \E kind \in {"read", "recv"} : Read(c, f, kind, rc)
          \/ \E kind \in {"write", "accept"} : StartOnFd(c, f, kind, rc) \/ CancelOp(c, f, kind, rc)
          \/ CancelRead(c, f, rc)
    \/ \E kind \in {"sleep", "job"}, rc \in {0, -1} : StartOther(c, kind, rc)
    \/ \E d \in Coros : Call(c, d)

Next ==
    \/ \E c \in Coros : CoroutineStep(c) \/ Spawn(c)
    \/ StartLoop
    \/ \E o \in calls : Callback(o)
    \/ Sweep
    \/ ClearSpawned

Spec == Init /\ [][Next]_vars

(* Coroutines run to their next suspension, the loop is started and runs the *)
(* jobs posted, and writes and timers complete: something of this happens as *)
(* long as it can.  Data to read, or a connection, may never come.           *)
Progress ==
    \/ StartLoop
    \/ Sweep
    \/ \E c \in Coros : CoroutineStep(c)
    \/ \E o \in calls : o.kind \in {"write", "job", "sleep"} /\ Callback(o)

FairSpec == Spec /\ WF_vars(Progress)

-----------------------------------------------------------------------------
Kinds == {"read", "recv", "write", "accept", "sleep", "job", "cancel"}
Aws == 0..MaxAws

(* The types; FramesOk includes them. *)
TypeOK ==
    /\ co \in [Coros -> [st : {"none", "running", "waiting", "done", "gone"}, aw : Aws,
                         block : {Null} \cup 0..Capacity, cont : Coros \cup {Null}]]
    /\ aws \in Seq([kind : Kinds \cup {"dead"}, owner : Coros \cup {Null}, alive : BOOLEAN, handle : Coros \cup {Null},
                     ready : BOOLEAN, awaited : BOOLEAN]) /\ Len(aws) <= MaxAws
    /\ calls \subseteq [kind : Kinds, fd : Fds \cup {Null}, id : 1..MaxAws, aw : 1..MaxAws]
    /\ fdinfo \in [Fds -> [state : {"NONE", "PENDING", "CANCELLING"}, pending : Aws]]
    /\ free \in Seq(1..Capacity) /\ jobs \in Nat
    /\ spawned \cup pending_cleanup \subseteq Coros /\ cleanup_posted \in BOOLEAN
    /\ started \in BOOLEAN

(* The frame pool never gives one block to two coroutines: a block on the    *)
(* free list is there once and belongs to no frame that is not destroyed,    *)
(* and two such frames have different blocks, whatever spawns, calls,        *)
(* cancellations and clear_spawned calls preceded.  And a frame is running   *)
(* exactly while a resume of it is on the stack.                             *)
FramesOk ==
    LET live == {c \in Coros : co[c].st \in {"running", "waiting", "done"} /\ co[c].block # 0}
    IN  /\ TypeOK
        /\ fault = NoFault => \A c \in Coros :
              (co[c].st = "running") <=> \E k \in DOMAIN stack : stack[k].co = c
        /\ \A j, k \in DOMAIN free : free[j] = free[k] => j = k
        /\ \A c \in live : co[c].block \notin {free[k] : k \in DOMAIN free}
        /\ \A c, d \in live : co[c].block = co[d].block => c = d

(* A descriptor the service holds for idle has no buffer read left with the  *)
(* poller, so two reads never share the per-descriptor callback, also when   *)
(* the reader cancelled inside cancel_read starts over.  Only a refused      *)
(* cancellation, which frees the state although the read goes on, breaks it. *)
ReadsDoNotOverlap ==
    "fail" \notin load =>
        \A f \in Fds : LET reads == {o \in calls : o.fd = f /\ o.kind = "read"}
                       IN  Cardinality(reads) <= 1 /\ (fdinfo[f].state = "NONE" => reads = {})

(* What can go wrong in a program that awaits all it starts.  A callback     *)
(* into a destroyed awaiter, or a resume of a coroutine that does not wait   *)
(* for the operation, comes only from operations that keep calling back      *)
(* (accept, group reads), from the read that io_uring completes after        *)
(* cancel_read resumed its reader, or after clear_spawned; a pool block      *)
(* reaches operator delete only on a thread without set_current; and a sweep *)
(* never erases a task twice.                                                *)
OnlyKnownFaults ==
    \/ fault = NoFault
    \/ fault.what \in {"dangling", "stray", "busy"} /\ fault.op \in {"accept", "recv"}
    \/ fault.what \in {"dangling", "stray", "busy"} /\ fault.op = "read"
        /\ backend = "io_uring" /\ load \cap {"cancel_read", "recv"} # {}
    \/ fault.what \in {"dangling", "stray", "busy"} /\ "clear" \in load
    \/ fault.what = "delete" /\ "set_current" \notin load

(* Whoever awaits a write or a posted job is resumed in the end, also when   *)
(* the submit failed or the callback came before the co_await; a write that  *)
(* cancel_write dropped is not resumed by anyone.                            *)
AwaitEnds ==
    []<>(\/ fault # NoFault \/ "cancel" \in load
         \/ \A c \in Coros : co[c].aw = 0 \/ aws[co[c].aw].kind \notin {"write", "job"})

(* A finished coroutine leaves spawned_list_ in the end, however its end     *)
(* falls between earlier sweeps and clear_spawned.                           *)
Swept == []<>(fault # NoFault \/ pending_cleanup = {})
=============================================================================
