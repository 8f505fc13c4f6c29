# A TLA+ verification of libezio

libezio is an event-driven I/O library: an event loop over epoll or io_uring,
handlers (timers, notifiers, sockets) that live on it, a lock-free ring buffer,
event threads, and a C++20 coroutine layer. This directory models most of it in
TLA+, checks the models with TLC on small instances, and proves safety properties
of five of the models with TLAPS for every value of the constants. `PROJECT.json` maps
every definition to the lines it models.

## Inventory

| Part | State | Operations that change it | Hard behaviour |
|---|---|---|---|
| `ring_buffer` | two indices, two screenshots, two `buffer_info`s, blocks | gets (with and without a needed count), look-ahead, commits, `reset`, `reader_reset_out` | decisions on stale indices, full/empty edge, end of a lap |
| `event_loop` | state, two job queues, instruction queue, handler sets, internal timer and notifier | `run_in_event_loop`, `add_event`, `remove_event`, `start_loop`, `loop_once`, `close` | unlocked `empty()` tests, swap while others push, callbacks that call back, start/close race, wake-up |
| epoll backend | `event_info`s, change list, kernel set, timers | submit/cancel read, write, accept; timers; `dispatch` | changes deferred to `dispatch`, callbacks that cancel what is being walked |
| `event_action` | task deques, `is_readable_`, `is_writable_` | `handle_events`, read, write and accept tasks | edge triggering, accept backlog |
| io_uring backend | submission and completion rings, `complete_action`s, buffer groups | the same operations | completions in flight while cancelled, queue full |
| timer, notifier, inotify, signal_event, `event_base` | fd, handler, buffer | open, close, handle | closing from another thread, coalescing |
| tcp_socket, udp_socket | connections, reconnect set, buffer ids | open, connect, accept, read, close, timer | close versus late completion, reconnect |
| event_thread, event_thread_pool | thread, loop | start, join, destructor | destruction while the loop starts |
| coroutine service, awaitables | per-fd read state, awaiters, spawned frames | read, write, accept, sleep, cancel, spawn | completion before suspension, cancellation re-entry |
| `opt_map`, util | array plus map; pure functions | insert, find, erase | the boundary between array and map |

What has to be right: no job is lost, run twice or reordered; a handler gets
callbacks exactly between its start and its stop; the loop stops when closed;
the ring hands out only free blocks to its writer and only committed ones to its
reader; no readiness is lost under edge triggering; a cancelled operation
completes once.

## Modules

| Module | Models |
|---|---|
| `RingBuffer` | `ring_buffer.{h,cpp}`: one action per operation. Each operation makes at most one access to the other side's atomic index, so it is one step. |
| `BoundedFifo` | what a ring promises: append if there is room, take the oldest. |
| `EventLoop` | `event_loop.{h,cpp}`: the loop thread as a program counter over `loop_once`, other threads' calls interleaved at each unlocked access. |
| `Epoll` | `epoll.cpp`, `event_action.cpp`, `fd_io_operation.h`: submissions and cancellations, the change list against the kernel's set, `dispatch` and `handle_events` step by step. |
| `UringRings`, `OptMap`, `IoUring` | `io_uring_wrapper`, `opt_map.h`, and `io_uring.cpp` with `complete_action` over both: the two rings, every submit and cancel, timers, buffer groups, `dispatch`. |
| `CoroutineService` | `coroutine_service.h`, `awaitable.h`: operations, awaiters, cancellation, tasks, spawned frames and their pool, over a poller of either kind. |
| `TcpSocket` | `tcp_socket.cpp`: listener, accepted connections, connector with retries, composed with the loop's instruction queue and the poller's armed reads. |
| `Watcher` | `notifier.cpp`, `inotify.cpp`, `signal_event.cpp`, `timer.cpp`, `event_base`: composed with the instruction queue, the poller and other threads. |
| `MC...` | instances for TLC: symmetry sets, the sets of operations one behaviour uses. |
| `RingBufferProofs`, `EventLoopProofs`, `EpollProofs`, `EpollTaskProofs`, `EpollWakeUpProofs`, `IoUringProofs`, `WatcherProofs`, `ModularFacts` | theorems and their proofs; lemmas on `%`. |

**RingBuffer.** `writerIdx`/`readerIdx` are the atomic `idx_`s;
`readerShot`/`writerShot` are the screenshots; `wInfo`/`rInfo` the
`buffer_info`s. The clients are part of the model because the class works only
with them: a writer fills only blocks of the window it was given, commits only
what it filled; a reader commits only what it was told is unread. A look-ahead
(`ReaderPeek`) decides on any writer index between the reader's index and the
present one, which covers the screenshot and a fresh load. Blocks start with
arbitrary contents. `BlockCnt` need not be a power of two: `init` rounds the mask
and not the allocation, and so does the model. It is at most 2^30, the largest
power the model rounds to (TLC's integers have 32 bits); the theorems cover every
count up to that.

**EventLoop.** At `pc = "cb"` the loop thread runs user code, which may post
jobs, close, or queue instructions before it returns to `after`. A vector read
without its lock while another thread pushes is seen as before or after the push
(`SeenEmpty`, `SeenFilled`). `starts` > 1 restarts a stopped loop.
`posted`/`ran` and `samePosted`/`sameRan` are history variables. The poller is
external: `polled` is what it was asked to watch, `ready` what it would report.
Cancellation takes effect at once, as it does with epoll. With io_uring a
completion may already be under way, so `NoCallbackAfterStop` is a statement
about the epoll build. `wake_up` writes to an eventfd that nothing
watches (`internal_notifier::submit_read_request` returns at its first
statement), so `PostWake` only releases the lock.

**Epoll.** One thread runs everything: user code between two calls of `dispatch`
(`pc = "user"`), `dispatch`, and the callbacks it makes (`pc = "cb"`), which may
submit, cancel, close and reopen before they return to `after`. Only the kernel
and the peers are concurrent. `sk` is a descriptor as the kernel has it (units to
read, end of stream, room to write), `kern` and `edge` are epoll's interest and
ready lists, `ei` and `ea` the `event_info` and `event_action` of each
descriptor. Every read and write is one step, since the kernel's answer is; each
callback is a state of its own, since anything may happen there. Buffers are
counted in units (`Cap`), tasks are names. `GroupFds` are read through a buffer
group, the others through tasks; no client of the library mixes them. `OwnCancel`
lets a callback cancel its own operation, after which the code pops an empty
deque (`Undefined`, where the model stops) or, when the callback submitted again,
the new task. `behind` is history: the descriptors whose accept or group read
`handle_events` left last with `is_readable_` set. A submit is taken to pass a
callback, as each first submit of the library's classes does. Inotify, signalfd
and timerfd descriptors are in `Watcher`, since their reads end in other ways.
`epoll_ctl` refuses regular
files (EPERM), so a file is never in `kern`. An error may come at any
read, write or accept. File offsets and the `msg_iov` position are left out.

**IoUring.** As in `Epoll` one thread runs everything and the kernel is
concurrent: it takes entries in `io_uring_enter`, possibly fewer than it is
given, works on them (`inflight`), and posts completions at any time. A
`user_data` is the address of a `complete_action`: `<<fd, which>>` for the four of
a descriptor, an element of `TimerAddrs` for a timer, which the heap may give out
again after `close_timer`. `initialize_sqe` leaves `user_data` alone, so an entry
prepared without one keeps that of the last entry in its slot; the model does the
same. The counters wrap at `SqMod` and `CqMod`. `prepared`, `taken`, `posted`,
`consumed` and `seen` are history. What the program cannot survive (an unmapped
buffer ring, an entry at `nullptr`, a failed assertion) leads to `pc = "exit"`; a
freed action may end it or be used. The kernel may refuse a cancellation, find
nothing, or end the request it names; one by descriptor asks for
`IORING_ASYNC_CANCEL_ANY` too, and may end any number of requests, because kernels
differ in how they read the two flags. Identifiers of groups and buffers have 16
bits (`IdMod`). A registration may fail (`RegisterFails`): the identifier is used
up, and what `setup_buf_ring` mapped is given to `free`. `dispatch` holds a
reference into `buffers_` across the callback; when that registered a group the
vector may have moved, and what is read through the reference is arbitrary
(`CallbackReturns`). `Loads` lists what user code does in one
behaviour.

**CoroutineService.** `stack` holds the coroutines that run inside one another's
resumes, each with what its resumer does afterwards: the rest of `cancel_read`,
or the return to the loop. An awaiter is an element of `aws`. The poller is
`calls`: epoll drops a cancelled operation at once, io_uring lets it complete.
A callback into a destroyed awaiter, a resume of a coroutine that does not wait
for the operation, and a pool block given to `operator delete` are undefined
behaviour; `fault` records the first and the behaviour ends. The pool has at least
one block and at most the 4096 that `next_free_` has room for; a frame larger than
a block comes from the heap (`FromPool`).

**TcpSocket.** Functions of the source are operators from state to state, because
they call one another: an accept opens a channel, a tick retries a connect, a
read error closes. `cache` is the loop's instruction queue with the `fds_evts_`
copied at the call, `armed` what the poller will call back. Descriptor numbers are
the lowest free ones, so they are reused as soon as the kernel would; when none is
free `socket` fails. User callbacks may close the channel they are called for. A
listener that cannot be opened again fails an assertion of `on_timer` and ends the
process (`fault = "reopen"`); a connector whose `open` fails keeps the buffer group
it registered.

**Watcher.** One source of one of the four kinds. `tasks` is the deque of its
`event_action`: `poll` is the detecting task of the ADD instruction, `read` one
with a buffer, `bare` one submitted after `read_cb_` was cleared, whose data no
handler sees. The steps of `notifier::notify` and `notifier::close` on other
threads are interleaved at each access to shared state: the copy of `fds_evts_`,
the push under the lock, each of the clears after it, and the three parts of
`fd_t::close`. The copy sees the vector filled or empty, nothing in between. A
close on the loop thread is one step. A number that was closed may be given to
another part of the program (`Reuse`). An inotify read goes on until the
descriptor is empty, the buffer is full to its last byte, or the next event does
not fit: then `readv` fails with EINVAL, what was read is dropped, and no other
read is submitted (`InotifyFails`). `unhandled` and `deaf`, which says that this
has happened, are history.

## Runs

| Run | Instance | Shows |
|---|---|---|
| `ring_safety` | 2 blocks, 2 values, indices to 7 (three laps and one) | `WindowSafe`: no unread block is in the writer's window. `IndInv`: a screenshot never passes its index, a held window stays in the free part of a lap, a get gives the first unread block. `NullOnlyAtTheLimit`: a get fails only when the request cannot be met. `ImplementsFifo`: what is read is what was written, in order, for any mixture of operations. |
| `loop_jobs` | 2 threads, 3 jobs, close | `OtherJobsInOrder`, `SameJobsInOrder`: no job is lost, duplicated or overtaken. `JobRuns`, `CloseStops`. |
| `loop_handlers` | 1 thread, a raisable and a busy handler, 4 instructions, close, restart | `RegistrationsAgree`: poller, handler sets and started handlers agree. `NoCallbackAfterStop`. |
| `epoll_reads` | 1 open descriptor of any kind, 3 reads (one only detects), a buffer group, accept, 2 units | `NoLostWakeUp`: what can be read is known to epoll's list, to the current round or to `is_readable_` (`EdgeNotLost`), and nothing waits on a ready descriptor without being scheduled (`QueuedWhenReady`), but for what `handle_events` leaves: connections in the backlog after the one accept per edge, a group read that ended at the end of the stream or an error (both `behind`), and the writes it skips while a group read is not submitted. `PopsItsOwn`: `pop_front` removes the task whose callback ran. |
| `epoll_duplex` | 1 open connection, UDP socket or file; 1 read, 2 writes; callbacks may cancel their own operation | `NoLostWakeUp` for writes; `TasksOnce`, `TaskNotDropped`: a task is in one place until it is over, and the only step that loses one is the `pop_front` after a callback that cancelled its own operation. |
| `epoll_live` | a connection and an eventfd, 2 reads, one closing and reopening | `Registered`: what waits for an event is watched or on the change list. `ReadCompletes`, `DispatchReturns`. |
| `uring` | 2 submission entries (counters modulo 4), 4 completion entries, 2 descriptors, 2 timer addresses, 2 groups of 2 buffers (identifiers modulo 4), 3 calls, 4 with groups | `SqIntact`: no entry is overwritten before the kernel took it. `EachCompletionOnce`: `dispatch` sees each completion once, in order. `BufferInOnePlace`: a provided buffer is free for the kernel in its own group or named by one completion, while the buffers have identifiers of their own. `EveryCompletionHandled`. |
| `coroutine` | 3 coroutines, 3 operations, a pool of 1 block, both pollers | `FramesOk`: no block of the frame pool has two owners, and a frame runs exactly while a resume of it is on the stack. `ReadsDoNotOverlap`: an idle descriptor has no read with the poller. `OnlyKnownFaults`: undefined behaviour comes only from the causes it names. `AwaitEnds`: whoever awaits a write or a job is resumed. `Swept`. |
| `tcp` | listener with limit 2, or connector; 4 descriptors, 5 channels | `FdsOwned`: no descriptor leaks or has two owners. `StaleUntilRemoved`: a callback of a closed channel comes, and does harm, only while its REMOVE is queued. `ConnectedIsServed`, `BufferExclusive`: a connected channel is read with its own buffers, and reported, although a closed one had its number. `CapRespected`, `ConnectorNotStuck`, `ListenerReopens`. |
| `watcher` | each kind, 3 threads, 3 events, 5 calls | `OneRead`: exactly one task is with the poller while the source is open. `FdForgotten`: `fd_` is stale only inside `fd_t::close`. `KnownFaults`. `Handled`: what happens is followed by a run of the handler. `OneRead` and `Handled` except an inotify whose events did not fit its buffer (`deaf`). |
| `epoll_stale_event` (violation) | 2 writes, one reopening | a cancelled write leaves `EV_WRITE` set, so the next socket of that number is not watched, although `epoll.cpp:379-380` means to handle it. |
| `loop_wake_up` (violation) | 1 thread, 1 job | a queued job does not wake `dispatch`, which `event_loop.cpp:251-252` says it does. |

**Bounds.** `MaxIdx` (2^64 in the code) allows both wrap-arounds of the slot
index and stops the writer; the properties compare index differences, and the
proofs cover every `MaxIdx`. Three jobs are the least with one running, one in
the swapped vector and one queued. Four instructions allow add, remove, add and
remove of one handler, or each for both, with a repeated add or remove.
In `Epoll` two tasks are one being handled and one submitted meanwhile, with room
for one and for two units; `MaxRx = 2` lets a read leave something; `MaxReady`
bounds what callbacks may queue, `Space` is one unit so that a write blocks, and
`MaxCloses` allows a number to be used twice. `MaxOpen` descriptors, chosen in
the initial state, are open at one time: with one, a run covers each kind
separately; two kinds together are covered only by `epoll_live`. Tasks are used
once, so what is cancelled and resubmitted is another task. `Registered` is
checked for reads only in `epoll_live`; with writes it fails (`epoll_stale_event`).
`epoll_duplex` does not check deadlock, because the undefined pop ends it.
In `IoUring` a submission ring of two entries is full after two unsubmitted
calls, and its counters pass 4 within three calls and their resubmissions; the
completion counters stay below `CqMod`, because `cq_consume` is wrong beyond it
(below). Descriptors 1 and 4 lie on both sides of the array of `opt_map`.
`MaxFails` is the number of times `io_uring_enter` takes fewer entries than it was
given, `MaxShots` bounds multishot completions. Two groups of two buffers use up
the four identifiers, and a call of user code registers the second in a callback
of the first. In `CoroutineService` three
coroutines are a reader, one that cancels it and one that is called or spawned
meanwhile, and one pool block makes the second frame come from the heap, as large
frames always do. `epoll_live` has no buffer group, so `DispatchReturns` says
nothing of the loop over one. In
`TcpSocket` four descriptors are a listener, the two channels of the limit and
one more, so that numbers are reused; five channels pass the limit twice;
`RetryTicks` is 3 instead of 10. In `Watcher` three threads are one that
notifies and two that close. `uring`, `coroutine`, `tcp` and `watcher` do not
check deadlock: a program may end, and the bounds on calls are reached.

**Fairness.** The loop thread and a thread inside a call are
scheduled, which the operating system does. User code that runs on the loop returns: the library
requires it. `BecomesReady(Timer)` recurs because the loop opens a one-second
periodic timer in `open()`. Without that last assumption `JobRuns` fails, which
is the consequence of the `loop_wake_up` finding. New calls, closing included,
are never assumed. In `Epoll` the loop calls `dispatch` again, callbacks return,
and `epoll_wait` is not interrupted by a signal every time (strong fairness of
`Wait`); errors, arrivals and user calls are never assumed. In `IoUring` the loop
calls `dispatch` again and callbacks return; the kernel need not complete
anything. In `CoroutineService` coroutines run to their next suspension, the loop
runs, and writes, timers and jobs complete; data and connections may never come.
In `TcpSocket` the loop works its queue off and its timer fires; the condition is
written out (`Due`) instead of `ENABLED`. In `Watcher` the loop thread goes on and
handlers return; other threads may stop anywhere.

## Proofs

*RingBufferProofs* holds for every `BlockCnt` up to 2^30. For a power of two the
slot of an index is its remainder; for another count the mask is larger than the
blocks, and the proofs rest on `FirstLapOnly`: the writer never passes the end of
the first lap, where a slot is the index itself (`SlotInFirstLap`). There
`NoSpuriousNull` has its one exception: a get of the writer fails at the end of the
blocks although the ring may be empty (see "Also seen"). The inductive invariant says that both
screenshots lie between 0 and the index they copy, that at most `BlockCnt`
elements are unread, and that the client's window starts at the writer's slot and
ends before the first unread block. `WindowSafe` alone is not inductive, because
a get decides on a screenshot: one needs that a screenshot is never ahead.
Theorems: `Invariance`, `TypeCorrect`, `WindowIsSafe`,
`ScreenshotsStayBehind`, `ReaderStaysAtFirstUnread`, `NoSpuriousNull`, and `Refinement` (the safety part of `ImplementsFifo`).

*EventLoopProofs* makes no assumption on the number of threads, jobs or
handlers. `JobInv` adds to the two orders that the swapped vector is
empty outside `process_other_thread_job` (otherwise a swap would queue old
jobs again) and that a running same-thread job is counted. `HandlerInv` adds that
what is ready, reported or still to be polled busily is started, which carries
over the steps between `dispatch` and the callback. Theorems: `LoopInvariant`,
`LoopTypeCorrect`, `OtherJobsOnceInOrder`, `SameJobsOnceInOrder`,
`RegistrationsAlwaysAgree`, `NoLateCallback`.

*IoUringProofs* assumes that the counters wrap at a multiple of the ring's size
that leaves room for one more than its entries, as 2^32 does. `SqIntact` says
which entry each slot holds and nothing of the counters, so it is not inductive;
`Ring` adds that the kernel's head and the program's tail are `taken` and
`prepared` reduced modulo `SqMod`, at most `SqEntries` apart, and that the
published tail is the reduction of some position between them. `RoomIsExact` shows
that the comparison in `get_sqe` is exact across a wrap, `ToSubmitBound` that a
partial `io_uring_enter` never makes `submit` count too much. The rest follows
each kind of call: `SubmissionRingIntact`. `ModularFacts` has the lemmas on `%`
that the provers do not find. The completion side is the same with the kernel and
the program exchanged: `CompletionsOnce` is `EachCompletionOnce` as long as fewer
than `CqMod` completions were posted, because `cq_consume` is wrong when the tail
wraps before the head (see "Also seen"). `BuffersInOnePlace` (`BufferInOnePlace`)
rests on `Buffers`, which speaks of every completion posted and not handled, by its
serial number, and adds that a buffer that is named or listed exists; only a receive
takes one off a list (`KernelTakes`) and only the end of an entry's turn gives one
back (`TurnGivesBack`). It is a statement for at most `IdMod` buffers: the next one
gets the identifier of another. Buffers are only ever added (`RegisterGrowsTable`),
so what holds for the smaller table still names the same buffers in the larger,
also across a callback that registers a group.

*EpollProofs*, *EpollTaskProofs* and *EpollWakeUpProofs* assume that the kinds of
descriptors are disjoint, that a buffer group is used on TCP and UDP sockets only,
and that there are finitely many descriptors, and that at least one unit can
arrive and be written. Tasks and bounds are otherwise arbitrary. An `event_action` has nine fields of which each
operation changes a few; the proofs first bring every operation into one form,
`Sets(f, b)`, where `b` is the record the `event_action` of `f` becomes. What an
operation does to an invariant is then a lemma about that record, and a step of
`Next` a case of `InsideSets` (a step of `handle_events`) or `UserSets` (a call).

- `TypeCorrect`; `Base` adds what each kind of descriptor can hold: no deque has
  an entry without its event registered, only descriptors of `GroupFds` have a
  group, and neither these nor listeners have read tasks.
- `EachTaskOnce` (`TasksOnce`) and `NoTaskDropped` (`TaskNotDropped`) follow each
  task through the four deques; `apply_changes` replaces an `event_action` only
  when its deques are empty, which is what `Base` is needed for. A pop takes
  another task than the one called back only if the callback cancelled its own
  operation (`Owner`, `OnlyAfterOwnCancel`); `NeverDropped` is the statement
  without the exception, for programs in which no callback does.
- `WakeUpsKept` (`NoLostWakeUp`) is not inductive. That an edge is not lost needs
  why the flags are cleared (`InsideFlags`). That what is ready is scheduled needs
  how far `handle_events` has come: a task that is ready is in `ready_events_`
  behind the entry about to be popped (`Later`), or is one the running loop still
  comes to (`ReadTried`, `WriteTried`). `n` is read once, so a task that a
  callback adds meanwhile is not among the `n`; it must have been queued again.
  What an accept or a group read leaves is in `behind` until it is submitted
  again.
- `OwnTaskPopped` (`PopsItsOwn`) and `NothingDangles`: if no callback cancels its
  own operation, `pop_front` removes the task whose callback has run and is never
  called on an empty deque. They need what the loops rely on across a callback
  (`Sound`): `n` is not more than what is in the deque, and the callback runs for
  its first task. Submissions made in a callback go to the back, and one made on
  another descriptor leaves this one alone (`UserFront`).

The invariants were checked with TLC before they were proved, on the instances of
`epoll_reads`, `epoll_duplex` and `epoll_live`.

*WatcherProofs* makes no assumption on the number of threads, events or calls.
`OneRead` is not inductive: an ADD for a registered source would add a second
task, and a REMOVE that knows no descriptors would leave one behind. `Queue` says
that this does not happen, because the queued instructions alternate and
`fds_evts_` is filled exactly when the last one is an ADD (`QueueAdd`,
`QueueRemove`, `QueueHead`, `QueueTail`); several threads that close at once queue
several REMOVEs, of which one carries the descriptors. `Object` follows the order
in which `notifier::close` gives things up, `Tasks` who may have a task and that
`is_readable_` means there is something to read, so that no read of an open source
ends the chain but the one of an inotify that fails with EINVAL (`deaf`). Theorems: `WatcherInvariant`, `ExactlyOneRead` (`OneRead`),
`OnlyLateCallbacksFail` (`KnownFaults`: a callback that finds no service or
descriptor belongs to a source with a REMOVE in the queue) and `FdNeverStale`
(`FdForgotten`: `CloseNumber` alone gives the number away, and puts its thread
where only `CloseForget` leads out). The inductive invariant was checked with TLC
on the instance of `watcher` as well.

Only model-checked: the liveness properties (fairness is outside this prover's
reach); `Registered` of `Epoll`, which holds for reads and not in general
(`epoll_stale_event`); everything about `TcpSocket`, whose operations fold over
sets and sequences of channels, so that what they compute needs an induction over
data, which the prover cannot do; everything about `CoroutineService`; and the two
disagreements.

## Also seen

The models have these too; they are no runs of their own, because no text of the
repository denies them plainly, because a property leaves them out by name, or
because the run that shows them repeats another's instance.

*ring_buffer.* With a block count that is no power of two the mask is that of the
rounded count while only `block_cnt` blocks exist (`ring_buffer.cpp:97`): after
the first lap the writer gets nothing until `reset`, although the ring may be
empty. `NullOnlyAtTheLimit` names this case; no block outside the ring is ever
given out. `ring_buffer.h:121-123` announces
that `reader_get_buffer` returns the length; `ring_buffer.cpp:141` computes it and
does not store it.

*epoll.* `do_multishot_read_task` (`event_action.cpp:211`) leaves its loop for a
negative result only, and `read_udp` returns `INT32_MAX` for an empty socket: a
UDP socket with a buffer group is read for ever. A timer closed in its own
callback clears the deque that `handle_events` then pops (`event_action.cpp:232`):
`PopsItsOwn` fails with `OwnCancel = TRUE`, `KnownFaults` of `Watcher` names it.
If the callback also submits, the pop takes the new task, which never runs
(`event_action.cpp:249` for writes). `do_accept_task` takes one connection for each
edge (`event_action.cpp:319`); more that arrived with it wait for the next.
`fd_io_operation.h:140` returns 0 for a closed connection and drops what it had
read; `event_action.cpp:389` also passes 0 to the second of two pending reads when
the first has taken everything. A write that found no room goes behind later ones
(`event_action.cpp:247`). `cancel_async_read` without a callback returns -1
(`epoll.cpp:328`), so a notifier's `on_stopped(true)`, and with it the stop
handler, does not come. A `close()` that finds the loop stopping leaves its
`handle_close` for the next start (`event_loop.cpp:340`).

*io_uring.* `cq_consume` compares `head + count` with `tail` as plain integers
(`io_uring_wrapper.cpp:230`): between the wrap of the tail and that of the head
everything that is ready is consumed, and what was posted since `dispatch` counted
is lost unseen. `register_ring_buffer` does not refuse a buffer whose index has no
16-bit identifier left. A callback that registers a group may move `buffers_` under
the reference `dispatch` holds (`io_uring.cpp:550`). A registration that runs out
of memory gives a mapped ring to `free` (`io_uring.cpp:181`). Cancels and resubmissions of multishot reads do not set
`user_data`, so their completions go to the action that used the slot last, or to
none. Entries a partial `io_uring_enter` left are not counted by the next
`submit`. `close_timer` frees an action that a completion may still name
(`io_uring.cpp:149`). `cancel_async_write` asks to cancel its own action
(`io_uring.cpp:352`). `unregister_ring_buffer` clears one buffer as often as the
group has buffers (`io_uring.cpp:220`). When the ring is full the retry is given
up unless `submit` returned 0 (`io_uring.h:201`), and the resubmission of a
multishot read does not test for that.

*coroutine_service.* A read, sleep or accept that completed before its `co_await`
is never resumed (`awaitable.h:71`). Accepts and group reads call back more than
once, the later times into a freed awaiter; so does the read that io_uring
completes after `cancel_read` resumed its reader. `cancel_write` under epoll
resumes nobody who waits for the write; under io_uring the callbacks of
`cancel_write` and `cancel_accept` do not come. A refused cancellation frees the
descriptor's state while the read goes on. `current_coro_svc` is per thread: a
frame made after `set_current` and destroyed on a thread without it reaches
`operator delete` with a pool block. `clear_spawned` destroys frames whose
operations are pending. Finished frames are cleared, not destroyed
(`coroutine_service.h:486`).

*tcp_socket.* After an end of file and a close `cb_close_` has been called twice. A
read that completes for a closed channel before its REMOVE is carried out uses a
null `shared_data_ptr_`. `on_timer` iterates over a set from which a connect that
succeeds at once erases. The tick counter is not reset, so after the first retry
every tick retries. A connect that succeeds at once reports `cb_conn_` twice, and
one that then fails the check (`tcp_socket.cpp:243`) is left CONNECTED and not
retried. `tcp_socket::close` leaves the listening descriptor open. An accepted
channel whose `open` fails keeps its buffer id. A connector's closed channel stays
in the map. A listener that cannot be opened again ends the process. A comment speaks of a 10 ms timer; it is 100 ms.

*notifier, inotify, signal_event.* `on_started` makes a notifier that was closed
before its ADD was carried out OPENED again. A close inside the handler of a
notifier or inotify ends in the assertion on the next submit. A signal read
after `close` and before the REMOVE dereferences a null service, although the
comment at `signal_event.h:36-37` relies on the flag. A `notify` that loaded `fd_`
before a close can write to whoever got the number, although `notifier.h` calls it
thread safe. Signals that one read did not take wait for the next signal. A
`signal_event` opened again is deaf after its first read. An inotify read that
meets an event too long for the rest of the buffer returns the error of the second
`readv` (`fd_io_operation.h:227`): the events read before are lost, and
`handle_notify` (`inotify.cpp:70`) submits no further read. `remove_watch` keeps the
callback, which IN_IGNORED then calls.

## Not modelled

- `udp_socket`: its reads are those of the UDP descriptors of `Epoll`, its life
  cycle a part of that of `Watcher`'s sources.
- `event_thread`, `event_thread_pool`: what is hard in them, a close that races
  with a loop thread starting late, is in `EventLoop`.
- `event_service` delegates without state of its own.
- `generator` and `async_void_result`; `send`, `async_send` and
  `cancel_async_send` of `tcp_socket`, which forward; `rollback_sqe`, which nothing
  calls; SQPOLL; the map from timer ids to timers of the epoll backend.
- In `EventLoop` a handler has one descriptor, watched for reads, and the argument
  of `on_stopped` is left out. With several, `process_remove_instruction` goes on to
  the next descriptor when a read cannot be cancelled, which skips the write of the
  same one (`event_loop.cpp:129-168`); epoll's -1 means that nothing was reading, or
  that no callback was given and the read is cancelled all the same
  (`epoll.cpp:316-333`), while io_uring may leave the read.
- Memory allocation other than that of buffer groups, logging, socket options and addresses, file offsets: they
  have no behaviour the properties tell apart.

Open: `FramesOk` and `ReadsDoNotOverlap` proved for `CoroutineService`; `Epoll`
composed as a whole with `EventLoop` (`TcpSocket` and `Watcher` compose the parts
of both that they use).
