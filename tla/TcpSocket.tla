----------------------------- MODULE TcpSocket -----------------------------
(***************************************************************************)
(* source/socket/tcp_socket.cpp: a listener with its accepted connections, *)
(* or a connector that retries, on an event loop with the epoll poller.    *)
(*                                                                         *)
(* Handlers call each other (an accept opens a connection, a read error    *)
(* closes one, a tick retries), so the state of the socket is one record s *)
(* and each function of the source an operator from state to state.        *)
(* add_event and remove_event only queue an instruction; the loop carries  *)
(* the queue out before its next dispatch, so until then the poller may    *)
(* call back for an event that is closed and a descriptor that is reused.  *)
(*                                                                         *)
(* Event 0 is the listener, event c > 0 the tcp_event of channel c.        *)
(* Descriptor and buffer 0 stand for -1.                                   *)
(***************************************************************************)
EXTENDS Integers, FiniteSets, SequencesExt

CONSTANTS
    Modes,          \* subset of {"LISTEN", "CONNECT"}
    MaxConnectCnt,  \* max_connect_cnt_
    RetryTicks,     \* ticks before a failed connect is retried: 10
    Fds,            \* descriptor numbers
    MaxChans        \* bound on the channels

ASSUME TcpAssumption ==
    /\ MaxConnectCnt \in Nat \ {0} /\ RetryTicks \in Nat \ {0} /\ MaxChans \in Nat
    /\ Fds \subseteq Nat \ {0} /\ IsFiniteSet(Fds)

VARIABLES mode, pc, s

vars == <<mode, pc, s>>

Events == 0..MaxChans
NewEvent == [st |-> "DEF", fd |-> 0, buf |-> 0, ticks |-> -1, opened |-> FALSE, evts |-> {},
             conns |-> 0, closes |-> 0]

Init ==
    /\ mode \in Modes /\ pc = "new"
    /\ s = [ev |-> [c \in Events |-> NewEvent],
            is_enabled |-> TRUE, connect_cnt |-> 0, chan_id |-> 0,
            connections |-> {},         \* chan_id_to_connections_
            closed_ids |-> {},          \* closed_chan_ids_
            timer_set |-> {},           \* req_timer_set_
            buffer_ids |-> <<>>,        \* buffer_id_list_
            buffers |-> 0,              \* buffer groups registered
            cache |-> <<>>,             \* evt_handlers_cache_ of the loop
            handlers |-> {},            \* evt_handlers_ of the loop
            armed |-> {},               \* what the poller will call back
            open |-> {},                \* descriptors open in the kernel
            ticked |-> FALSE,           \* the timer has fired in this dispatch
            fault |-> "none"]           \* the way the process was lost

-----------------------------------------------------------------------------
(* Descriptors, the loop's queue and the poller, as this code uses them. *)

LowestFree(S) == CHOOSE f \in Fds \ S.open : \A g \in Fds \ S.open : f <= g
HasFree(S) == Fds \ S.open # {}
WithFd(S, c) == [S EXCEPT !.ev[c].fd = LowestFree(S), !.open = @ \cup {LowestFree(S)}]
CloseFd(S, c) == [S EXCEPT !.ev[c].fd = 0, !.open = @ \ {S.ev[c].fd}]

Queue(S, ins, c) == [S EXCEPT !.cache = Append(@, [ins |-> ins, who |-> c, evts |-> S.ev[c].evts])]

(* fds_evts_.emplace_back and add_event *)
AddEvent(S, c, dir) ==
    LET T == [S EXCEPT !.ev[c].evts = @ \cup {<<S.ev[c].fd, dir>>}] IN Queue(T, "ADD", c)

(* Mutant of RemoveEvent: the descriptor is forgotten, not closed. *)
RemoveEventOpen(S, c, closes) ==
    [Queue(S, "REMOVE", c) EXCEPT !.ev[c].evts = {}, !.ev[c].fd = IF closes THEN 0 ELSE @]

(* remove_event and clear_fds_and_evts, and the descriptor if asked to *)
RemoveEvent(S, c, closes) ==
    LET T == [Queue(S, "REMOVE", c) EXCEPT !.ev[c].evts = {}] IN IF closes THEN CloseFd(T, c) ELSE T

Op(kind, dir, c, f, b) == [kind |-> kind, dir |-> dir, who |-> c, fd |-> f, buf |-> b]

(* the poller has one callback per descriptor and direction *)
Arm(S, op) == [S EXCEPT !.armed = {o \in @ : o.fd # op.fd \/ o.dir # op.dir} \cup {op}]

-----------------------------------------------------------------------------
(* tcp_shared_data and tcp_event. *)

(* Mutant of GetBufferId: front() without pop_front(). *)
GetBufferIdKeep(S, c) ==
    IF S.buffer_ids = <<>> THEN [S EXCEPT !.buffers = @ + 1, !.ev[c].buf = S.buffers + 1]
    ELSE [S EXCEPT !.ev[c].buf = Head(S.buffer_ids)]

GetBufferId(S, c) ==
    IF S.buffer_ids = <<>> THEN [S EXCEPT !.buffers = @ + 1, !.ev[c].buf = S.buffers + 1]
    ELSE [S EXCEPT !.ev[c].buf = Head(S.buffer_ids), !.buffer_ids = Tail(@)]

(* Mutant of CloseEvent: the parent's close(), which queues the REMOVE, is   *)
(* left out.                                                                 *)
CloseEventQuietly(S, c) == [S EXCEPT !.ev[c].evts = {}]

CloseEvent(S, c) == RemoveEvent(S, c, FALSE)

(* tcp_event::close.  shared_data_ptr_ is null from here on. *)
TcpClose(S, c) ==
    LET e == S.ev[c]
        T == CloseFd(CloseEvent(S, c), c)
    IN  IF e.st = "CLOSED" THEN S
        ELSE [T EXCEPT !.timer_set = @ \ {c}, !.closed_ids = @ \cup {c},
                       !.buffer_ids = IF e.buf = 0 THEN @ ELSE Append(@, e.buf),
                       !.ev[c].buf = 0, !.ev[c].ticks = -1, !.ev[c].st = "CLOSED",
                       !.ev[c].closes = IF e.st = "CONNECTED" THEN @ + 1 ELSE @]

(* try_connect; connect() succeeds at once ("now"), is under way, or it or   *)
(* socket() fails                                                            *)
TryConnect(S, c, first, outcome) ==
    LET R == IF S.ev[c].fd = 0 THEN S ELSE RemoveEvent(S, c, TRUE)
        T == IF first THEN S ELSE IF HasFree(R) THEN WithFd(R, c) ELSE R
    IN  IF outcome = "fails" \/ T.ev[c].fd = 0 THEN CloseFd(T, c)
        ELSE AddEvent([T EXCEPT !.ev[c].st = IF outcome = "now" THEN "CONNECTED" ELSE "INPROGRESS"],
                      c, "write")

(* Mutant of RetryLater: the timer is not asked for. *)
RetryNever(S, c) == S

(* create_timer_for_reconnect, unless the timer is on *)
RetryLater(S, c) ==
    IF S.ev[c].ticks # -1 THEN S
    ELSE IF S.ev[c].st = "CLOSED" THEN [S EXCEPT !.fault = "closed"]
    ELSE [S EXCEPT !.ev[c].ticks = 0, !.timer_set = @ \cup {c}]

(* check_and_process_tcp_connected, established being what the kernel says   *)
(* of the descriptor the event has now                                       *)
CheckConnected(S, c, established) ==
    IF ~established THEN RetryLater(RemoveEvent(S, c, TRUE), c)
    ELSE LET T == [S EXCEPT !.ev[c].st = "CONNECTED", !.ev[c].ticks = -1, !.timer_set = @ \ {c}]
         IN  AddEvent(RemoveEvent(T, c, FALSE), c, "read")

(* tcp_event::on_timer and handle_connect_timeout.  A connection made at     *)
(* once leaves req_timer_set_ while tcp_socket::on_timer iterates over it.   *)
EventTick(S, c, outcome, established) ==
    LET T == [S EXCEPT !.ev[c].ticks = IF @ < RetryTicks THEN @ + 1 ELSE @]
        U == TryConnect(T, c, FALSE, outcome)
        V == CheckConnected(U, c, established)
    IN  IF T.ev[c].ticks < RetryTicks \/ S.ev[c].st = "CONNECTED" THEN T
        ELSE IF outcome # "now" THEN U
        ELSE IF established THEN [V EXCEPT !.fault = "iterator"]
        ELSE V

(* tcp_event::open in LISTEN mode, for the descriptor the event has *)
OpenAccepted(S, c) ==
    LET T == AddEvent(GetBufferId(S, c), c, "read")
    IN  [T EXCEPT !.ev[c].st = "CONNECTED", !.ev[c].conns = @ + 1]

-----------------------------------------------------------------------------
(* tcp_socket. *)

(* Mutant of AtMax: one connection more. *)
AtMaxPlusOne(S) == S.connect_cnt > MaxConnectCnt

AtMax(S) == S.connect_cnt >= MaxConnectCnt

(* on_accept with a connection.  When the connection is gone already the     *)
(* open fails; its descriptor is closed, its buffer group is not given back. *)
OnAccept(S, established) ==
    LET c == S.chan_id + 1
        T == WithFd([S EXCEPT !.chan_id = c], c)
        U == [OpenAccepted(T, c) EXCEPT !.connections = @ \cup {c}, !.connect_cnt = @ + 1]
    IN  IF ~S.is_enabled THEN [S EXCEPT !.open = @ \cup {LowestFree(S)}]
        ELSE IF ~established THEN [CloseFd(GetBufferId(T, c), c) EXCEPT !.ev[c].buf = 0]
        ELSE IF AtMax(U) THEN RemoveEvent([U EXCEPT !.is_enabled = FALSE], 0, TRUE)
        ELSE U

(* Mutant of Recount: connect_cnt_ keeps counting the connections erased. *)
RecountNot(S) == [S EXCEPT !.connections = @ \ S.closed_ids, !.closed_ids = {}]

(* on_timer: erase what is closed, and count *)
Recount(S) ==
    LET left == S.connections \ S.closed_ids
    IN  [S EXCEPT !.connections = left, !.closed_ids = {}, !.connect_cnt = Cardinality(left)]

(* reopen_listener; when socket, bind or listen fails, on_timer's assertion  *)
(* ends the process                                                          *)
ReopenListener(S, fails) ==
    LET T == RemoveEvent(S, 0, TRUE)
    IN  IF fails \/ ~HasFree(T) THEN [T EXCEPT !.fault = "reopen"]
        ELSE [AddEvent(WithFd(T, 0), 0, "read") EXCEPT !.is_enabled = TRUE]

OnTimer(S, outcome, established) ==
    LET T == Recount(S)
        L == IF ~T.is_enabled /\ T.connect_cnt < MaxConnectCnt
             THEN ReopenListener(T, outcome = "fails") ELSE T
    IN  IF mode = "LISTEN" THEN L
        ELSE IF S.timer_set = {} THEN S
        ELSE EventTick(S, CHOOSE c \in S.timer_set : TRUE, outcome, established)

-----------------------------------------------------------------------------
(* What event_loop does with the queue: process_add_instruction,             *)
(* process_remove_instruction, and tcp_event::on_started.                    *)

OnStarted(S, c) ==
    IF c # 0 /\ S.ev[c].st = "CONNECTED" /\ S.ev[c].opened THEN [S EXCEPT !.ev[c].conns = @ + 1]
    ELSE [S EXCEPT !.ev[c].opened = TRUE]

Armed(S, c, evts) ==
    FoldSet(LAMBDA e, T : Arm(T, Op("poll", e[2], c, e[1], 0)), S, evts)

Carry(S, i) ==
    IF i.ins = "ADD"
    THEN IF i.who \in S.handlers THEN S
         ELSE OnStarted(Armed([S EXCEPT !.handlers = @ \cup {i.who}], i.who, i.evts), i.who)
    ELSE [S EXCEPT !.handlers = @ \ {i.who},
                   !.ev[i.who].opened = @ \/ i.evts = {} \/ i.who \notin S.handlers,
                   !.armed = {o \in @ : i.who \notin S.handlers \/ <<o.fd, o.dir>> \notin i.evts}]

(* Mutant of Carried: the queue is worked off from its end. *)
CarriedBackwards(S) == FoldLeft(Carry, [S EXCEPT !.cache = <<>>, !.ticked = FALSE], Reverse(S.cache))

Carried(S) == FoldLeft(Carry, [S EXCEPT !.cache = <<>>, !.ticked = FALSE], S.cache)

ProcessNewInstruction ==
    /\ pc # "new" /\ s.fault = "none" /\ (s.cache # <<>> \/ s.ticked)
    /\ s' = Carried(s) /\ UNCHANGED <<mode, pc>>

-----------------------------------------------------------------------------
(* The user's calls, and what the poller calls back. *)

Running == pc = "open" /\ s.fault = "none"
Sets(S) == s' = S /\ UNCHANGED <<mode, pc>>

(* open: bind or listen fails, or the first connect.  A connector that fails *)
(* keeps the buffer group it registered; try_connect and open both close the *)
(* number, which matters only to a thread that got it in between.            *)
Open(outcome) ==
    /\ pc = "new" /\ UNCHANGED mode
    /\ LET S == WithFd(s, IF mode = "LISTEN" THEN 0 ELSE 1)
           T == GetBufferId([S EXCEPT !.chan_id = 1], 1)
       IN  IF outcome = "fails"
           THEN /\ pc' = "failed"
                /\ s' = IF mode = "LISTEN" THEN s
                        ELSE [TryConnect(T, 1, TRUE, outcome) EXCEPT !.ev[1].buf = 0]
           ELSE /\ pc' = "open"
                /\ s' = IF mode = "LISTEN" THEN AddEvent(S, 0, "read")
                        ELSE [TryConnect(T, 1, TRUE, outcome) EXCEPT !.connections = {1}]

CloseTcpChannel(c) == Running /\ c \in s.connections /\ s.ev[c].st # "CLOSED" /\ Sets(TcpClose(s, c))

(* close: the listener's descriptor stays open *)
Close ==
    /\ Running /\ pc' = "closed" /\ UNCHANGED mode
    /\ s' = [FoldSet(LAMBDA c, S : TcpClose(S, c), RemoveEvent(s, 0, FALSE), s.connections)
                 EXCEPT !.connections = {}, !.is_enabled = FALSE]

(* The timer of the socket, at most once in a dispatch, while it is open *)
Tick(outcome, established) ==
    /\ Running /\ ~s.ticked
    /\ LET S == OnTimer(s, outcome, established)
       IN  S # s /\ Sets([S EXCEPT !.ticked = S.cache # <<>>])

Called(o) == pc # "new" /\ s.fault = "none" /\ o \in s.armed
Without(o) == [s EXCEPT !.armed = @ \ {o}]

(* handle_read_ready.  A group read with the buffer of a closed event is     *)
(* refused, and the assertion ends the process.                              *)
ReadReady(o) ==
    /\ Called(o) /\ o.kind = "poll" /\ o.dir = "read"
    /\ Sets(IF o.who = 0 THEN Arm(s, Op("accept", "read", 0, o.fd, 0))
            ELSE IF s.ev[o.who].buf = 0 THEN [s EXCEPT !.fault = "closed"]
            ELSE Arm(s, Op("recv", "read", o.who, o.fd, s.ev[o.who].buf)))

(* handle_write_ready; no descriptor, or one just made, is not established *)
WriteReady(o, established) ==
    /\ Called(o) /\ o.kind = "poll" /\ o.dir = "write"
    /\ established => s.ev[o.who].fd # 0
    /\ Sets(CheckConnected(Without(o), o.who, established))

(* The accept succeeds only on the listening socket; errors change nothing *)
Accept(o, established) ==
    /\ Called(o) /\ o.kind = "accept" /\ o.fd = s.ev[0].fd
    /\ HasFree(s) /\ s.chan_id < MaxChans
    /\ Sets(OnAccept(s, established))

(* on_read_tcp_msg: data (ret > 0), the end of the stream (0) or an error.   *)
(* The user may close the channel in the callback.  An end of the stream is  *)
(* reported by cb_close_ and leaves the event open.                          *)
ReadTcpMsg(o, ret, closes) ==
    LET c == o.who
        T == [s EXCEPT !.ev[c].closes = IF ret = 0 THEN @ + 1 ELSE @]
    IN  /\ Called(o) /\ o.kind = "recv" /\ (ret >= 0 => s.ev[c].closes = 0 \/ s.ev[c].st = "CLOSED")
        /\ Sets(IF s.ev[c].st = "CLOSED" THEN [s EXCEPT !.fault = "closed"]
                ELSE IF ret < 0 \/ closes THEN TcpClose(T, c)
                ELSE T)
        /\ s' # s

Callbacks == \E o \in s.armed :
    \/ ReadReady(o)
    \/ \E b \in BOOLEAN : WriteReady(o, b) \/ Accept(o, b)
    \/ \E ret \in -1..1, closes \in BOOLEAN : ReadTcpMsg(o, ret, closes)

Outcomes == {"now", "progress", "fails"}
Timer == \E outcome \in Outcomes, established \in BOOLEAN : Tick(outcome, established)

Next ==
    \/ \E outcome \in Outcomes : Open(outcome)
    \/ \E c \in 1..MaxChans : CloseTcpChannel(c)
    \/ Close \/ ProcessNewInstruction \/ Timer \/ Callbacks

Spec == Init /\ [][Next]_vars

(* There is a queue to work off, or something for the timer to do. *)
Due == /\ pc # "new" /\ s.fault = "none"
       /\ \/ s.cache # <<>> \/ s.ticked
          \/ Running /\ mode = "LISTEN"
                /\ (s.closed_ids # {} \/ (~s.is_enabled /\ s.connect_cnt < MaxConnectCnt))

(* The loop goes on and its timer fires: weak fairness of                    *)
(* ProcessNewInstruction \/ Timer, with Due for its ENABLED.                 *)
FairSpec == Spec /\ ([]<>(~Due) \/ []<>(<<ProcessNewInstruction \/ Timer>>_vars))

-----------------------------------------------------------------------------
Chans == 1..MaxChans
Connected == {c \in Chans : s.ev[c].st = "CONNECTED"}

(* The types; channel numbers are not reused, and every event in the set of  *)
(* the reconnect timer counts ticks.  FdsOwned includes them.                *)
TypeOK ==
    /\ \A c \in Events : LET e == s.ev[c] IN
          /\ e.st \in {"DEF", "INPROGRESS", "CONNECTED", "CLOSED"} /\ e.fd \in Fds \cup {0}
          /\ e.buf \in 0..s.buffers /\ e.ticks \in -1..RetryTicks
          /\ c > s.chan_id => e = NewEvent
    /\ s.connections \subseteq 1..s.chan_id /\ s.timer_set \subseteq 1..s.chan_id
    /\ \A c \in s.timer_set : s.ev[c].ticks >= 0
    /\ s.fault \in {"none", "closed", "iterator", "reopen"}

(* Descriptors neither leak nor are shared: while the socket is open, each   *)
(* open descriptor belongs to exactly one event, across accepts that fail,   *)
(* retries, channels closed in a callback and numbers the kernel reuses.     *)
FdsOwned ==
    /\ TypeOK
    /\ Running => /\ s.open = {s.ev[c].fd : c \in Events} \ {0}
                  /\ \A c, d \in Events : s.ev[c].fd = s.ev[d].fd => c = d \/ s.ev[c].fd = 0

(* What the poller still calls back for a descriptor an event has given up   *)
(* is about to be cancelled: a REMOVE for it is queued.  So a connection     *)
(* that gets the number of a closed one is confused with it for at most the  *)
(* rest of one dispatch, and only in that time can a callback of a closed    *)
(* event lose the process, by using shared_data_ptr_ or its buffer group.    *)
(* The other ways are a connect that succeeds at once while on_timer         *)
(* iterates, and a listener that cannot be opened again.                     *)
StaleUntilRemoved ==
    /\ \A o \in s.armed :
          s.ev[o.who].fd = o.fd \/ \E k \in DOMAIN s.cache : s.cache[k].ins = "REMOVE" /\ s.cache[k].who = o.who
                                                            /\ <<o.fd, o.dir>> \in s.cache[k].evts
    /\ s.fault = "closed" => \E k \in DOMAIN s.cache : LET i == s.cache[k] IN
          i.ins = "REMOVE" /\ i.who # 0 /\ s.ev[i.who].st = "CLOSED" /\ i.evts # {}
    /\ s.fault = "iterator" => mode = "CONNECT"
    /\ s.fault = "reopen" => mode = "LISTEN" /\ ~s.is_enabled

(* A REMOVE never takes the read of another event: once the queue is empty   *)
(* every connected channel is armed for its own descriptor with its own      *)
(* buffer group, although a closed channel may have had the same number, and *)
(* cb_conn_ has reported it; cb_close_ has reported the reported ones that   *)
(* are closed.  (A connect that succeeds at once and then fails the check    *)
(* leaves a channel CONNECTED without a descriptor.)                         *)
ConnectedIsServed ==
    s.fault = "none" /\ s.cache = <<>> =>
        /\ \A c \in Connected : s.ev[c].fd = 0 \/ \E o \in s.armed :
              o.who = c /\ o.fd = s.ev[c].fd /\ o.buf \in {0, s.ev[c].buf}
        /\ \A c \in Connected : <<s.ev[c].fd, "read">> \in s.ev[c].evts => s.ev[c].conns > 0
        /\ \A c \in Chans : s.ev[c].st = "CLOSED" /\ s.ev[c].conns > 0 => s.ev[c].closes > 0

(* No two group reads with the poller, and no two connected channels, fill   *)
(* the buffers of one group; a group in the free list is in nobody's use but *)
(* that of a read about to be cancelled.                                     *)
BufferExclusive ==
    /\ \A o, p \in s.armed : o.buf = p.buf /\ o.buf # 0 => o = p
    /\ \A c, d \in Connected : s.ev[c].buf = s.ev[d].buf => c = d
    /\ \A c \in Connected, k \in DOMAIN s.buffer_ids : s.buffer_ids[k] # s.ev[c].buf

(* There are never more connected channels than max_connect_cnt_, and the    *)
(* listening socket is closed exactly while the limit is reached.            *)
CapRespected ==
    mode = "LISTEN" /\ Running =>
        Cardinality(Connected) <= MaxConnectCnt /\ (s.ev[0].fd # 0 <=> s.is_enabled)

(* A connector whose connect was under way, and that is neither connected    *)
(* nor closed, has something to wait for: its descriptor's write event,      *)
(* armed or queued, or the retry timer.                                      *)
ConnectorNotStuck ==
    mode = "CONNECT" /\ Running /\ s.ev[1].st = "INPROGRESS" =>
        \/ 1 \in s.timer_set
        \/ s.ev[1].evts = {<<s.ev[1].fd, "write">>}
            /\ (s.cache = <<>> => \E o \in s.armed : o.fd = s.ev[1].fd /\ o.dir = "write")

(* When channels were closed below the limit the listener is opened again,   *)
(* unless that fails, which ends the process.                                *)
ListenerReopens ==
    []<>(s.is_enabled \/ ~Running \/ Cardinality(s.connections \ s.closed_ids) >= MaxConnectCnt)
=============================================================================
