------------------------------ MODULE EventLoop ------------------------------
(***************************************************************************)
(* The event loop of source/event/event_loop.cpp and                       *)
(* include/event/event_loop.h: one thread runs start_loop, any thread      *)
(* posts jobs (run_in_event_loop), asks for handlers to be added or        *)
(* removed (add_event, remove_event) and closes the loop.                  *)
(*                                                                         *)
(* The loop thread is a program counter over loop_once.  Whenever it runs  *)
(* code of the user (a job, a handler's callback, on_started, on_stopped)  *)
(* it is at "cb", from where that code may call back into the loop before  *)
(* it returns to the location "after".  The other threads' calls are       *)
(* interleaved with it at every unlocked access.                           *)
(*                                                                         *)
(* The poller (poll_) is reduced to what the loop relies on, with epoll:   *)
(* it knows which handlers it has been asked to watch and wakes up for     *)
(* them and for the loop's own one-second timer.                           *)
(***************************************************************************)
EXTENDS Naturals, Sequences, FiniteSets

CONSTANTS
    Loop,       \* the thread that calls start_loop
    Others,     \* the threads that only call the public operations
    Jobs,       \* jobs, each posted at most once
    Handlers,   \* event_base objects
    BusyType,   \* those whose get_event_type() is BUSY_POLL
    Raisable,   \* those whose try_raise_priority() may return true
    CloseJob,   \* the job close() posts: handle_close
    Timer,      \* the loop's internal one-second timer
    None,
    MaxStarts,  \* bound on the calls of start_loop
    MaxCloses,  \* bound on the calls of close
    MaxInstr    \* bound on the calls of add_event and remove_event

ASSUME ThreadAssumption == Loop \notin Others /\ None \notin Others \cup {Loop}
ASSUME JobAssumption == CloseJob \notin Jobs
ASSUME HandlerAssumption ==
    BusyType \subseteq Handlers /\ Raisable \subseteq Handlers \ BusyType
ASSUME TimerAssumption == Timer \notin Handlers
ASSUME BoundAssumption ==
    MaxStarts \in Nat /\ MaxCloses \in Nat /\ MaxInstr \in Nat

VARIABLES
    ee_state, thread_id,
    pc, after,          \* the loop thread's location; where "cb" returns to
    cur,                \* the handler whose callback runs, or None
    otherQ, swapVec,    \* other_thread_pending_funcs_, ..._swap_cache_vec_
    oi,                 \* jobs of swapVec run so far
    sameQ, sameCnt,     \* same_thread_pending_funcs_, jobs left to run of it
    jobMtx, instrMtx,   \* holders of pending_jobs_mtx_ and event_handler_mtx_
    instrQ, newVec,     \* evt_handlers_cache_, and the vector it is swapped to
    handlers, busy,     \* evt_handlers_, busy_poll_evts_
    busyIter,           \* members of busy still to be called in this round
    removed,            \* removed_evt_handlers_cache_
    polled,             \* handlers whose read is submitted to poll_
    live,               \* handlers started and not stopped since
    ready,              \* what the poller would report now
    due,                \* what dispatch reported and has still to handle
    timeout0,           \* this round polls without blocking
    opc,                \* what each other thread is in the middle of
    posted, ran,        \* history of otherQ: pushed, run
    samePosted, sameRan,
    starts, closes, instrs

jobVars == <<otherQ, swapVec, oi, sameQ, sameCnt, posted, ran, samePosted, sameRan>>
handlerVars == <<newVec, handlers, busy, busyIter, removed, polled, live>>
pollVars == <<ready, due, timeout0>>
loopVars == <<pc, after, cur>>
countVars == <<starts, closes, instrs>>
vars == <<ee_state, thread_id, loopVars, jobVars, handlerVars, pollVars, jobMtx,
          instrMtx, instrQ, opc, countVars>>

Idle == [op |-> "idle", arg |-> None]

(* open(): poll_ and the internal timer exist, the state is ES_INIT *)
Init ==
    /\ ee_state = "INIT" /\ thread_id = None
    /\ pc = "off" /\ after = "off" /\ cur = None
    /\ otherQ = <<>> /\ swapVec = <<>> /\ oi = 0 /\ sameQ = <<>> /\ sameCnt = 0
    /\ posted = <<>> /\ ran = <<>> /\ samePosted = <<>> /\ sameRan = <<>>
    /\ jobMtx = None /\ instrMtx = None
    /\ instrQ = <<>> /\ newVec = <<>> /\ handlers = {} /\ busy = {} /\ busyIter = {}
    /\ removed = {} /\ polled = {} /\ live = {}
    /\ ready = {} /\ due = {} /\ timeout0 = FALSE
    /\ opc = [t \in Others |-> Idle]
    /\ starts = 0 /\ closes = 0 /\ instrs = 0

Used(j) == \/ \E i \in DOMAIN posted : posted[i] = j
           \/ \E i \in DOMAIN samePosted : samePosted[i] = j
           \/ \E t \in Others : opc[t].arg = j

Accepting == ee_state \in {"INIT", "START"}

-----------------------------------------------------------------------------
(* Calls of the other threads. *)

(* run_in_event_loop from another thread: up to the lock *)
PostCall(t, j) ==
    /\ opc[t] = Idle /\ ~Used(j) /\ thread_id # t
    /\ opc' = [opc EXCEPT ![t] = [op |-> "post", arg |-> j]]
    /\ UNCHANGED <<ee_state, thread_id, loopVars, jobVars, handlerVars, pollVars,
                   jobMtx, instrMtx, instrQ, countVars>>

(* Mutant of CloseCall: handle_close is not posted. *)
CloseCallStateOnly(t) ==
    /\ opc[t] = Idle /\ closes < MaxCloses
    /\ ee_state' = "STOP" /\ closes' = closes + 1
    /\ UNCHANGED <<thread_id, loopVars, jobVars, handlerVars, pollVars, jobMtx,
                   instrMtx, instrQ, opc, starts, instrs>>

(* close from another thread: ES_STOP, then run_in_event_loop(handle_close) *)
CloseCall(t) ==
    /\ opc[t] = Idle /\ closes < MaxCloses
    /\ ee_state' = "STOP" /\ closes' = closes + 1
    /\ opc' = [opc EXCEPT ![t] = [op |-> "post", arg |-> CloseJob]]
    /\ UNCHANGED <<thread_id, loopVars, jobVars, handlerVars, pollVars, jobMtx,
                   instrMtx, instrQ, starts, instrs>>

(* run_in_event_loop: lock pending_jobs_mtx_ and push *)
PostPush(t) ==
    /\ opc[t].op = "post" /\ jobMtx = None
    /\ jobMtx' = t
    /\ otherQ' = Append(otherQ, opc[t].arg)
    /\ posted' = Append(posted, opc[t].arg)
    /\ opc' = [opc EXCEPT ![t].op = "wake"]
    /\ UNCHANGED <<ee_state, thread_id, loopVars, swapVec, oi, sameQ, sameCnt, ran,
                   samePosted, sameRan, handlerVars, pollVars, instrMtx, instrQ,
                   countVars>>

(* run_in_event_loop: wake_up, unlock.  The eventfd notify() writes to is    *)
(* never watched: internal_notifier::submit_read_request returns at once, so *)
(* the write changes nothing dispatch waits for.                             *)
PostWake(t) ==
    /\ opc[t].op = "wake"
    /\ jobMtx' = None
    /\ opc' = [opc EXCEPT ![t] = Idle]
    /\ UNCHANGED <<ee_state, thread_id, loopVars, jobVars, handlerVars, pollVars,
                   instrMtx, instrQ, countVars>>

(* add_event, remove_event: the state is checked before the lock is taken *)
InstrCall(t, i) ==
    /\ opc[t] = Idle /\ Accepting /\ instrs < MaxInstr
    /\ opc' = [opc EXCEPT ![t] = [op |-> "instr", arg |-> i]]
    /\ instrs' = instrs + 1
    /\ UNCHANGED <<ee_state, thread_id, loopVars, jobVars, handlerVars, pollVars,
                   jobMtx, instrMtx, instrQ, starts, closes>>

(* add_event, remove_event: lock event_handler_mtx_ and push *)
InstrPush(t) ==
    /\ opc[t].op = "instr" /\ instrMtx = None
    /\ instrMtx' = t
    /\ instrQ' = Append(instrQ, opc[t].arg)
    /\ opc' = [opc EXCEPT ![t].op = "unlock"]
    /\ UNCHANGED <<ee_state, thread_id, loopVars, jobVars, handlerVars, pollVars,
                   jobMtx, countVars>>

InstrUnlock(t) ==
    /\ opc[t].op = "unlock"
    /\ instrMtx' = None
    /\ opc' = [opc EXCEPT ![t] = Idle]
    /\ UNCHANGED <<ee_state, thread_id, loopVars, jobVars, handlerVars, pollVars,
                   jobMtx, instrQ, countVars>>

-----------------------------------------------------------------------------
(* The loop thread. *)

(* start_loop: the first test of the state *)
StartLoop ==
    /\ pc = "off" /\ starts < MaxStarts /\ ee_state \in {"INIT", "STOP"}
    /\ pc' = "enter" /\ starts' = starts + 1
    /\ UNCHANGED <<ee_state, thread_id, after, cur, jobVars, handlerVars, pollVars,
                   jobMtx, instrMtx, instrQ, opc, closes, instrs>>

(* start_loop: the thread id, then ES_START whatever the state is by now *)
EnterLoop ==
    /\ pc = "enter"
    /\ thread_id' = Loop /\ ee_state' = "START" /\ pc' = "while"
    /\ UNCHANGED <<after, cur, jobVars, handlerVars, pollVars, jobMtx, instrMtx,
                   instrQ, opc, countVars>>

(* start_loop: the loop condition; a new loop_once begins with polling_ms_ *)
WhileTest ==
    /\ pc = "while"
    /\ pc' = IF ee_state = "START" THEN "instr" ELSE "off"
    /\ timeout0' = FALSE
    /\ UNCHANGED <<ee_state, thread_id, after, cur, jobVars, handlerVars, ready, due,
                   jobMtx, instrMtx, instrQ, opc, countVars>>

(* A vector read without its lock while a thread is pushing to it: the       *)
(* reader sees it either as it was before the push or after it.              *)
SeenEmpty(q, mtx) == q = <<>> \/ (mtx # None /\ Len(q) = 1)
SeenFilled(q) == q # <<>>

(* loop_once: evt_handlers_cache_.empty() without the lock *)
InstrTest ==
    /\ pc = "instr"
    /\ \/ SeenEmpty(instrQ, instrMtx) /\ pc' = "busy"
       \/ SeenFilled(instrQ) /\ pc' = "swapInstr"
    /\ UNCHANGED <<ee_state, thread_id, after, cur, jobVars, handlerVars, pollVars,
                   jobMtx, instrMtx, instrQ, opc, countVars>>

(* process_new_instruction: swap under the lock *)
SwapInstr ==
    /\ pc = "swapInstr" /\ instrMtx = None
    /\ newVec' = instrQ /\ instrQ' = <<>> /\ pc' = "apply"
    /\ UNCHANGED <<ee_state, thread_id, after, cur, jobVars, handlers, busy, busyIter,
                   removed, polled, live, pollVars, jobMtx, instrMtx, opc, countVars>>

Inserted(h) == IF h \in BusyType THEN h \in busy ELSE h \in handlers

(* process_add_instruction: a second insertion is ignored; otherwise the     *)
(* handler's reads are submitted and on_started runs                         *)
AddInstr(h) ==
    \/ /\ Inserted(h)
       /\ pc' = "apply"
       /\ UNCHANGED <<after, handlers, busy, polled, live>>
    \/ /\ ~Inserted(h)
       /\ handlers' = IF h \in BusyType THEN handlers ELSE handlers \cup {h}
       /\ busy' = IF h \in BusyType THEN busy \cup {h} ELSE busy
       /\ polled' = polled \cup {h} /\ live' = live \cup {h}
       /\ pc' = "cb" /\ after' = "apply"

(* Mutant of RemoveInstr: the handler stays in busy_poll_evts_. *)
RemoveInstrKeepBusy(h) ==
    /\ removed' = removed \cup {h}
    /\ handlers' = IF h \in BusyType THEN handlers ELSE handlers \ {h}
    /\ polled' = IF h \in handlers \cup busy THEN polled \ {h} ELSE polled
    /\ ready' = ready \cap (polled' \cup {Timer})
    /\ live' = live \ {h}
    /\ pc' = "cb" /\ after' = "apply"
    /\ UNCHANGED busy

(* Mutant of RemoveInstr: readiness already seen is not dropped. *)
RemoveInstrKeepReady(h) ==
    /\ removed' = removed \cup {h}
    /\ busy' = busy \ {h}
    /\ handlers' = IF h \in BusyType THEN handlers ELSE handlers \ {h}
    /\ polled' = IF h \in handlers \cup busy THEN polled \ {h} ELSE polled
    /\ live' = live \ {h}
    /\ pc' = "cb" /\ after' = "apply"
    /\ UNCHANGED ready

(* process_remove_instruction: out of both sets, the read cancelled if it    *)
(* was in one of them, and on_stopped runs in every case.  A handler here    *)
(* has one descriptor, which it keeps, with EV_READ; Watcher and TcpSocket   *)
(* model instructions whose copied descriptors are stale.  The argument of   *)
(* on_stopped is left out: when epoll's cancel_async_read returns -1 for     *)
(* such a handler, it was not reading or was cancelled nevertheless.         *)
RemoveInstr(h) ==
    /\ removed' = removed \cup {h}
    /\ busy' = busy \ {h}
    /\ handlers' = IF h \in BusyType THEN handlers ELSE handlers \ {h}
    /\ polled' = IF h \in busy \/ (h \notin BusyType /\ h \in handlers)
                 THEN polled \ {h} ELSE polled
    /\ ready' = ready \cap (polled' \cup {Timer})
    /\ live' = live \ {h}
    /\ pc' = "cb" /\ after' = "apply"

(* process_new_instruction: the next instruction of the swapped vector *)
ApplyInstr ==
    /\ pc = "apply" /\ newVec # <<>>
    /\ newVec' = Tail(newVec)
    /\ LET i == Head(newVec)
       IN \/ i.op = "REMOVE" /\ RemoveInstr(i.evt)
          \/ i.op = "ADD" /\ AddInstr(i.evt) /\ UNCHANGED <<removed, ready>>
    /\ UNCHANGED <<ee_state, thread_id, cur, jobVars, busyIter, due, timeout0, jobMtx,
                   instrMtx, instrQ, opc, countVars>>

ApplyDone ==
    /\ pc = "apply" /\ newVec = <<>>
    /\ pc' = "busy"
    /\ UNCHANGED <<ee_state, thread_id, after, cur, jobVars, handlerVars, pollVars,
                   jobMtx, instrMtx, instrQ, opc, countVars>>

(* loop_once: the busy-poll handlers, if any, each get handle_loop_once *)
BusyBegin ==
    /\ pc = "busy"
    /\ busyIter' = busy /\ timeout0' = (busy # {}) /\ pc' = "busyRun"
    /\ UNCHANGED <<ee_state, thread_id, after, cur, jobVars, newVec, handlers, busy,
                   removed, polled, live, ready, due, jobMtx, instrMtx, instrQ, opc,
                   countVars>>

BusyRun ==
    /\ pc = "busyRun"
    /\ \/ /\ busyIter = {} /\ pc' = "same"
          /\ UNCHANGED <<after, cur, busyIter>>
       \/ \E h \in busyIter :
             /\ busyIter' = busyIter \ {h}
             /\ cur' = h /\ pc' = "cb" /\ after' = "busyRun"
    /\ UNCHANGED <<ee_state, thread_id, jobVars, newVec, handlers, busy, removed,
                   polled, live, pollVars, jobMtx, instrMtx, instrQ, opc, countVars>>

(* Mutant of SameBegin: one job too many. *)
SameBeginOneMore ==
    /\ pc = "same"
    /\ sameCnt' = Len(sameQ) + 1 /\ timeout0' = (timeout0 \/ sameQ # <<>>)
    /\ pc' = "sameRun"
    /\ UNCHANGED <<ee_state, thread_id, after, cur, otherQ, swapVec, oi, sameQ, posted,
                   ran, samePosted, sameRan, handlerVars, ready, due, jobMtx, instrMtx,
                   instrQ, opc, countVars>>

(* loop_once: the number of same-thread jobs is fixed before the first runs, *)
(* so that jobs they post wait for the next round                            *)
SameBegin ==
    /\ pc = "same"
    /\ sameCnt' = Len(sameQ) /\ timeout0' = (timeout0 \/ sameQ # <<>>)
    /\ pc' = "sameRun"
    /\ UNCHANGED <<ee_state, thread_id, after, cur, otherQ, swapVec, oi, sameQ, posted,
                   ran, samePosted, sameRan, handlerVars, ready, due, jobMtx, instrMtx,
                   instrQ, opc, countVars>>

(* Running a job: handle_close sets the state, any other is user code *)
RunJob(j, next) ==
    \/ /\ j = CloseJob /\ ee_state' = "STOP"
       /\ pc' = next /\ UNCHANGED after
    \/ /\ j # CloseJob
       /\ pc' = "cb" /\ after' = next /\ UNCHANGED ee_state

(* loop_once: the job at the front runs where it is... *)
SameRun ==
    /\ pc = "sameRun" /\ sameCnt > 0
    /\ RunJob(Head(sameQ), "samePop")
    /\ sameRan' = Append(sameRan, Head(sameQ))
    /\ UNCHANGED <<thread_id, cur, otherQ, swapVec, oi, sameQ, sameCnt, posted, ran,
                   samePosted, handlerVars, pollVars, jobMtx, instrMtx, instrQ, opc,
                   countVars>>

(* ...and is popped when it returns *)
SamePop ==
    /\ pc = "samePop"
    /\ sameQ' = Tail(sameQ) /\ sameCnt' = sameCnt - 1 /\ pc' = "sameRun"
    /\ UNCHANGED <<ee_state, thread_id, after, cur, otherQ, swapVec, oi, posted, ran,
                   samePosted, sameRan, handlerVars, pollVars, jobMtx, instrMtx, instrQ,
                   opc, countVars>>

(* Mutant of SameDone: the deque is cleared as the swapped vector is. *)
SameDoneClear ==
    /\ pc = "sameRun" /\ sameCnt = 0
    /\ sameQ' = <<>> /\ pc' = "dispatch"
    /\ UNCHANGED <<ee_state, thread_id, after, cur, otherQ, swapVec, oi, sameCnt, posted,
                   ran, samePosted, sameRan, handlerVars, pollVars, jobMtx, instrMtx,
                   instrQ, opc, countVars>>

SameDone ==
    /\ pc = "sameRun" /\ sameCnt = 0
    /\ pc' = "dispatch"
    /\ UNCHANGED <<ee_state, thread_id, after, cur, jobVars, handlerVars, pollVars,
                   jobMtx, instrMtx, instrQ, opc, countVars>>

(* poll_->dispatch returns from its wait: at once if the timeout is 0, else  *)
(* (the default polling_ms_ is -1) when something it watches is ready        *)
DispatchReturns == timeout0 \/ ready # {}

Dispatch ==
    /\ pc = "dispatch" /\ DispatchReturns
    /\ due' = ready /\ ready' = {} /\ pc' = "events"
    /\ UNCHANGED <<ee_state, thread_id, after, cur, jobVars, handlerVars, timeout0,
                   jobMtx, instrMtx, instrQ, opc, countVars>>

(* on_timer: every normal handler is raised to busy polling or taken out *)
OnTimer ==
    \E raised \in SUBSET (handlers \cap Raisable) :
        busy' = (busy \ handlers) \cup raised

(* dispatch calls back for each thing reported *)
HandleEvent ==
    /\ pc = "events"
    /\ \/ /\ Timer \in due /\ due' = due \ {Timer}
          /\ OnTimer /\ UNCHANGED loopVars
       \/ \E h \in due \ {Timer} :
             /\ due' = due \ {h}
             /\ cur' = h /\ pc' = "cb" /\ after' = "events"
             /\ UNCHANGED busy
       \/ due = {} /\ pc' = "other" /\ UNCHANGED <<due, after, cur, busy>>
    /\ UNCHANGED <<ee_state, thread_id, jobVars, newVec, handlers, busyIter, removed,
                   polled, live, ready, timeout0, jobMtx, instrMtx, instrQ, opc,
                   countVars>>

(* Mutant of OtherTest: the negation is missing. *)
OtherTestInverted ==
    /\ pc = "other"
    /\ \/ SeenEmpty(otherQ, jobMtx) /\ pc' = "swapJobs"
       \/ SeenFilled(otherQ) /\ pc' = "clear"
    /\ UNCHANGED <<ee_state, thread_id, after, cur, jobVars, handlerVars, pollVars,
                   jobMtx, instrMtx, instrQ, opc, countVars>>

(* loop_once: other_thread_pending_funcs_.empty() without the lock *)
OtherTest ==
    /\ pc = "other"
    /\ \/ SeenEmpty(otherQ, jobMtx) /\ pc' = "clear"
       \/ SeenFilled(otherQ) /\ pc' = "swapJobs"
    /\ UNCHANGED <<ee_state, thread_id, after, cur, jobVars, handlerVars, pollVars,
                   jobMtx, instrMtx, instrQ, opc, countVars>>

(* process_other_thread_job: swap under the lock *)
SwapJobs ==
    /\ pc = "swapJobs" /\ jobMtx = None
    /\ otherQ' = swapVec /\ swapVec' = otherQ /\ pc' = "otherRun"
    /\ UNCHANGED <<ee_state, thread_id, after, cur, oi, sameQ, sameCnt, posted, ran,
                   samePosted, sameRan, handlerVars, pollVars, jobMtx, instrMtx, instrQ,
                   opc, countVars>>

(* process_other_thread_job: the next job of the swapped vector *)
OtherRun ==
    /\ pc = "otherRun" /\ oi < Len(swapVec)
    /\ RunJob(swapVec[oi + 1], "otherRun")
    /\ ran' = Append(ran, swapVec[oi + 1])
    /\ oi' = oi + 1
    /\ UNCHANGED <<thread_id, cur, otherQ, swapVec, sameQ, sameCnt, posted, samePosted,
                   sameRan, handlerVars, pollVars, jobMtx, instrMtx, instrQ, opc,
                   countVars>>

(* Mutant of OtherClear: the swapped vector is not cleared. *)
OtherClearNot ==
    /\ pc = "otherRun" /\ oi = Len(swapVec)
    /\ oi' = 0 /\ pc' = "clear"
    /\ UNCHANGED <<ee_state, thread_id, after, cur, otherQ, swapVec, sameQ, sameCnt,
                   posted, ran, samePosted, sameRan, handlerVars, pollVars, jobMtx,
                   instrMtx, instrQ, opc, countVars>>

(* process_other_thread_job: the trailing clear *)
OtherClear ==
    /\ pc = "otherRun" /\ oi = Len(swapVec)
    /\ swapVec' = <<>> /\ oi' = 0 /\ pc' = "clear"
    /\ UNCHANGED <<ee_state, thread_id, after, cur, otherQ, sameQ, sameCnt, posted, ran,
                   samePosted, sameRan, handlerVars, pollVars, jobMtx, instrMtx, instrQ,
                   opc, countVars>>

(* loop_once: the removed handlers are released after dispatch *)
ClearRemoved ==
    /\ pc = "clear"
    /\ removed' = {} /\ pc' = "while"
    /\ UNCHANGED <<ee_state, thread_id, after, cur, jobVars, newVec, handlers, busy,
                   busyIter, polled, live, pollVars, jobMtx, instrMtx, instrQ, opc,
                   countVars>>

-----------------------------------------------------------------------------
(* Calls of user code that runs on the loop thread. *)

(* run_in_event_loop on the loop's own thread: no lock, no wake-up *)
CbPost(j) ==
    /\ pc = "cb" /\ thread_id = Loop /\ ~Used(j)
    /\ sameQ' = Append(sameQ, j) /\ samePosted' = Append(samePosted, j)
    /\ UNCHANGED <<ee_state, thread_id, loopVars, otherQ, swapVec, oi, sameCnt, posted,
                   ran, sameRan, handlerVars, pollVars, jobMtx, instrMtx, instrQ, opc,
                   countVars>>

(* close on the loop's own thread *)
CbClose ==
    /\ pc = "cb" /\ thread_id = Loop /\ closes < MaxCloses
    /\ ee_state' = "STOP" /\ closes' = closes + 1
    /\ sameQ' = Append(sameQ, CloseJob) /\ samePosted' = Append(samePosted, CloseJob)
    /\ UNCHANGED <<thread_id, loopVars, otherQ, swapVec, oi, sameCnt, posted, ran,
                   sameRan, handlerVars, pollVars, jobMtx, instrMtx, instrQ, opc, starts,
                   instrs>>

(* add_event, remove_event on the loop's own thread *)
CbInstr(i) ==
    /\ pc = "cb" /\ Accepting /\ instrs < MaxInstr /\ instrMtx = None
    /\ instrQ' = Append(instrQ, i) /\ instrs' = instrs + 1
    /\ UNCHANGED <<ee_state, thread_id, loopVars, jobVars, handlerVars, pollVars, jobMtx,
                   instrMtx, opc, starts, closes>>

CbReturn ==
    /\ pc = "cb"
    /\ pc' = after /\ cur' = None
    /\ UNCHANGED <<ee_state, thread_id, after, jobVars, handlerVars, pollVars, jobMtx,
                   instrMtx, instrQ, opc, countVars>>

(* The poller's world: a watched handler or the timer becomes ready *)
BecomesReady(x) ==
    /\ x \in (polled \cup {Timer}) \ ready
    /\ ready' = ready \cup {x}
    /\ UNCHANGED <<ee_state, thread_id, loopVars, jobVars, handlerVars, due, timeout0,
                   jobMtx, instrMtx, instrQ, opc, countVars>>

(* start_loop has returned for the last time and no call is under way *)
Terminated ==
    /\ pc = "off" /\ starts = MaxStarts /\ \A t \in Others : opc[t] = Idle
    /\ UNCHANGED vars

-----------------------------------------------------------------------------
Instrs == [op : {"ADD", "REMOVE"}, evt : Handlers]

LoopStep ==
    \/ StartLoop \/ EnterLoop \/ WhileTest
    \/ InstrTest \/ SwapInstr \/ ApplyInstr \/ ApplyDone
    \/ BusyBegin \/ BusyRun
    \/ SameBegin \/ SameRun \/ SamePop \/ SameDone
    \/ Dispatch \/ HandleEvent
    \/ OtherTest \/ SwapJobs \/ OtherRun \/ OtherClear \/ ClearRemoved
    \/ CbReturn

CallStep(t) == PostPush(t) \/ PostWake(t) \/ InstrPush(t) \/ InstrUnlock(t)

Next ==
    \/ LoopStep
    \/ \E t \in Others :
          \/ CallStep(t)
          \/ \E j \in Jobs : PostCall(t, j)
          \/ CloseCall(t)
          \/ \E i \in Instrs : InstrCall(t, i)
    \/ \E j \in Jobs : CbPost(j)
    \/ CbClose
    \/ \E i \in Instrs : CbInstr(i)
    \/ \E x \in Handlers \cup {Timer} : BecomesReady(x)
    \/ Terminated

Spec == Init /\ [][Next]_vars

(* The loop thread and a thread inside a call are scheduled, user code       *)
(* returns, and the one-second timer keeps firing.                           *)
Fairness ==
    /\ WF_vars(LoopStep)
    /\ \A t \in Others : WF_vars(CallStep(t))
    /\ WF_vars(BecomesReady(Timer))

FairSpec == Spec /\ Fairness

-----------------------------------------------------------------------------
(* Properties *)

Items == Jobs \cup {CloseJob}

Calls == [op : {"idle"}, arg : {None}] \cup [op : {"post", "wake"}, arg : Items]
             \cup [op : {"instr", "unlock"}, arg : Instrs]

(* Every variable has its type; the locks are held by threads that are in    *)
(* the middle of the corresponding call.                                     *)
TypeOK ==
    /\ ee_state \in {"INIT", "START", "STOP"} /\ thread_id \in {None, Loop}
    /\ pc \in {"off", "enter", "while", "instr", "swapInstr", "apply", "busy", "busyRun",
               "same", "sameRun", "samePop", "dispatch", "events", "other", "swapJobs",
               "otherRun", "clear", "cb"}
    /\ after \in {"off", "apply", "busyRun", "samePop", "events", "otherRun"}
    /\ cur \in Handlers \cup {None}
    /\ otherQ \in Seq(Items) /\ swapVec \in Seq(Items) /\ oi \in 0..Len(swapVec)
    /\ sameQ \in Seq(Items) /\ sameCnt \in 0..Len(sameQ)
    /\ posted \in Seq(Items) /\ ran \in Seq(Items)
    /\ samePosted \in Seq(Items) /\ sameRan \in Seq(Items)
    /\ jobMtx \in Others \cup {None} /\ instrMtx \in Others \cup {None}
    /\ instrQ \in Seq(Instrs) /\ newVec \in Seq(Instrs)
    /\ handlers \in SUBSET (Handlers \ BusyType) /\ busy \in SUBSET Handlers
    /\ busyIter \in SUBSET Handlers /\ removed \in SUBSET Handlers
    /\ polled \in SUBSET Handlers /\ live \in SUBSET Handlers
    /\ ready \in SUBSET (Handlers \cup {Timer}) /\ due \in SUBSET (Handlers \cup {Timer})
    /\ timeout0 \in BOOLEAN
    /\ opc \in [Others -> Calls]
    /\ starts \in Nat /\ closes \in Nat /\ instrs \in Nat

(* run_in_event_loop from another thread: the jobs that have run, those of   *)
(* the swapped vector still to run and those queued are, in this order,      *)
(* exactly the jobs pushed: none is lost, run twice or overtaken, whatever   *)
(* is pushed while the loop swaps and runs.                                  *)
OtherJobsInOrder ==
    posted = ran \o SubSeq(swapVec, oi + 1, Len(swapVec)) \o otherQ

(* The same for jobs posted on the loop thread, which run at the front of    *)
(* the deque while jobs they post are pushed at its back.                    *)
FrontRuns == pc = "samePop" \/ (pc = "cb" /\ after = "samePop")
SameJobsInOrder ==
    samePosted = sameRan \o (IF FrontRuns THEN Tail(sameQ) ELSE sameQ)

(* add_event and remove_event, in whatever order threads queue them: the     *)
(* reads the poller holds are those of the handlers that were started and    *)
(* not stopped, they are the ones in the loop's two sets, and only those     *)
(* are polled busily.                                                        *)
RegistrationsAgree ==
    /\ polled = live
    /\ live = handlers \cup (busy \cap BusyType)
    /\ busy \subseteq handlers \cup BusyType

(* After on_stopped no handle_loop_once or handle_event_ready of the handler *)
(* runs, unless it was added again.                                          *)
NoCallbackAfterStop == cur # None => cur \in live

(* The inductive invariants: what holds only while the loop thread is at     *)
(* certain locations.                                                        *)
At(p) == pc = p \/ (pc = "cb" /\ after = p)

JobInv ==
    /\ OtherJobsInOrder
    /\ ~At("otherRun") => swapVec = <<>> /\ oi = 0
    /\ SameJobsInOrder
    /\ FrontRuns => sameCnt > 0

HandlerInv ==
    /\ RegistrationsAgree
    /\ ready \subseteq live \cup {Timer}
    /\ busyIter \subseteq live /\ (~At("busyRun") => busyIter = {})
    /\ due \subseteq live \cup {Timer} /\ (~At("events") => due = {})
    /\ cur # None => cur \in live /\ pc = "cb" /\ after \in {"busyRun", "events"}

(* event_loop.cpp:251-252: "if other thread add a job, it will wake up from  *)
(* dispatch".  With a job queued and notify() done, dispatch does not wait.  *)
JobWakesDispatch ==
    pc = "dispatch" /\ otherQ # <<>> /\ jobMtx = None => DispatchReturns

(* A job pushed by another thread is run, or the loop has been stopped.      *)
JobRuns ==
    \A j \in Jobs : (\E i \in DOMAIN posted : posted[i] = j)
                    ~> (closes > 0 \/ \E i \in DOMAIN ran : ran[i] = j)

(* close() ends the loop for good, although start_loop may overwrite the     *)
(* ES_STOP that close() stored while the loop was being entered.             *)
CloseStops == (closes > 0) ~> [](pc = "off" /\ starts = MaxStarts)

=============================================================================
