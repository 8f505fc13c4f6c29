--------------------------- MODULE IoUringProofs ---------------------------
(***************************************************************************)
(* The rings of the io_uring backend, for every ring size, every modulus   *)
(* of their counters and every sequence of requests: the submission ring   *)
(* is never corrupted (SqIntact), completions are handled once and in      *)
(* order (EachCompletionOnce), a provided buffer is in one place           *)
(* (BufferInOnePlace), up to the 2^16 identifiers there are.               *)
(*                                                                         *)
(* None of them says anything about the counters, so none is inductive.    *)
(* Ring and CompletionRing tie the wrapped counters to the number of       *)
(* entries written and taken; Batch places dispatch between them; Buffers  *)
(* speaks of every unhandled completion by its serial number.              *)
(***************************************************************************)
EXTENDS IoUring, ModularFacts, SequenceTheorems

Ring(q) ==
    /\ q = [khead |-> q.khead, ktail |-> q.ktail, sqe_tail |-> q.sqe_tail,
            prepared |-> q.prepared, taken |-> q.taken, sqes |-> q.sqes]
    /\ q.prepared \in Nat /\ q.taken \in Nat
    /\ q.taken <= q.prepared /\ q.prepared - q.taken <= SqEntries
    /\ q.khead = q.taken % SqMod
    /\ q.sqe_tail = q.prepared % SqMod
    /\ \E p \in q.taken..q.prepared : q.ktail = p % SqMod
    /\ q.sqes = [s \in 0..SqEntries - 1 |-> q.sqes[s]]
    /\ \A k \in q.taken..q.prepared - 1 : q.sqes[k % SqEntries].id = k

(* What a call may leave of [sq, inflight, fails, ret] *)
Outcome(s) ==
    /\ s = [sq |-> s.sq, inflight |-> s.inflight, fails |-> s.fails, ret |-> s.ret]
    /\ Ring(s.sq)

-----------------------------------------------------------------------------
(* The rings. *)

(* The comparison in get_sqe is exact: there is room unless SqEntries        *)
(* entries wait for the kernel.                                              *)
LEMMA RoomIsExact ==
    ASSUME NEW q, Ring(q)
    PROVE  HasRoom(q) <=> q.prepared - q.taken < SqEntries
<1> DEFINE w == q.prepared + 1
           r == q.taken
<1>1. w \in Nat /\ r \in Nat /\ r <= w /\ w < r + SqMod /\ SqMod \in Nat \ {0}
  BY RingAssumption DEF Ring
<1>2. (q.sqe_tail + 1) % SqMod = w % SqMod
  <2>1. ((q.prepared % SqMod) + 1) % SqMod = (q.prepared + 1) % SqMod
    <3>1. q.prepared \in Nat /\ 1 \in Nat
      BY DEF Ring
    <3> QED BY <1>1, <3>1, ModShift, Zenon
  <2> QED BY <2>1 DEF Ring
<1>3. q.khead = r % SqMod
  BY DEF Ring
<1> HIDE DEF w, r
<1>4. ((w % SqMod) + SqMod - (r % SqMod)) % SqMod = w - r
  BY <1>1, WrappedDistance
<1>5. Minus((q.sqe_tail + 1) % SqMod, q.khead, SqMod) = w - r
  BY <1>2, <1>3, <1>4 DEF Minus
<1> QED BY <1>5, RingAssumption DEF HasRoom, Ring, w, r

(* to_submit never exceeds what waits for the kernel. *)
LEMMA ToSubmitBound ==
    ASSUME NEW q, Ring(q)
    PROVE  ToSubmit(q) \in Nat /\ ToSubmit(q) <= q.prepared - q.taken
<1>1. PICK p \in q.taken..q.prepared : q.ktail = p % SqMod
  BY DEF Ring
<1>2. /\ p \in Nat /\ q.prepared \in Nat /\ p <= q.prepared /\ SqMod \in Nat \ {0}
      /\ q.prepared < p + SqMod
  BY <1>1, RingAssumption DEF Ring
<1>3. ((q.prepared % SqMod) + SqMod - (p % SqMod)) % SqMod = q.prepared - p
  BY <1>2, WrappedDistance
<1>4. ToSubmit(q) = q.prepared - p
  BY <1>1, <1>3 DEF ToSubmit, Minus, Ring
<1> QED BY <1>1, <1>2, <1>4 DEF Ring

(* The slot of entry k of the ring is the one an unwrapped counter selects. *)
LEMMA SlotOfEntry ==
    ASSUME NEW t \in Nat, NEW j \in Nat
    PROVE  (((t % SqMod) + j) % SqMod) % SqEntries = (t + j) % SqEntries
<1>1. SqMod \in Nat \ {0} /\ SqEntries \in Nat \ {0} /\ SqMod % SqEntries = 0
  BY RingAssumption
<1>2. ((t % SqMod) + j) % SqMod = (t + j) % SqMod
  BY <1>1, ModShift
<1>3. ((t + j) % SqMod) % SqEntries = (t + j) % SqEntries
  <2>1. t + j \in Nat
    OBVIOUS
  <2> QED BY <1>1, <2>1, ModOfMod
<1> QED BY <1>2, <1>3

(* Two entries less than a ring apart are in different slots. *)
LEMMA EntriesApart ==
    ASSUME NEW a \in Nat, NEW b \in Nat, a < b, b < a + SqEntries
    PROVE  a % SqEntries # b % SqEntries
<1>1. SqEntries \in Nat \ {0}
  BY RingAssumption
<1> QED BY <1>1, SlotsDiffer

(* Preparing the entry get_sqe returned keeps the ring. *)
LEMMA PrepareRing ==
    ASSUME NEW q, Ring(q), HasRoom(q), NEW e, NEW b
    PROVE  Ring(Prepare(q, e, b))
<1> DEFINE slot == q.sqe_tail % SqEntries
           P == Prepare(q, e, b)
<1>1. q.prepared - q.taken < SqEntries
  BY RoomIsExact
<1>2. SqMod \in Nat \ {0} /\ SqEntries \in Nat \ {0} /\ SqMod % SqEntries = 0
  BY RingAssumption
<1>3. slot = q.prepared % SqEntries /\ slot \in 0..SqEntries - 1
  <2>1. q.prepared \in Nat /\ q.sqe_tail = q.prepared % SqMod
    BY DEF Ring
  <2>2. q.prepared % SqEntries \in 0..SqEntries - 1
    BY <1>2, <2>1, DivMod
  <2>3. (q.prepared % SqMod) % SqEntries = q.prepared % SqEntries
    BY <1>2, <2>1, ModOfMod, Zenon
  <2> QED BY <2>1, <2>2, <2>3
<1>4. (q.sqe_tail + 1) % SqMod = (q.prepared + 1) % SqMod
  <2>1. q.prepared \in Nat /\ 1 \in Nat /\ q.sqe_tail = q.prepared % SqMod
    BY DEF Ring
  <2>2. ((q.prepared % SqMod) + 1) % SqMod = (q.prepared + 1) % SqMod
    BY <1>2, <2>1, ModShift, Zenon
  <2> QED BY <2>1, <2>2
<1> HIDE DEF slot
<1>5. PICK rec : P = [khead |-> q.khead, ktail |-> q.ktail, sqe_tail |-> (q.sqe_tail + 1) % SqMod,
                      prepared |-> q.prepared + 1, taken |-> q.taken,
                      sqes |-> [q.sqes EXCEPT ![slot] = rec]]
                 /\ rec.id = q.prepared
  <2> DEFINE rec == [op |-> e.op, fd |-> e.fd, arg |-> e.arg, id |-> q.prepared,
                     ud |-> IF b THEN e.ud ELSE q.sqes[slot].ud]
  <2>1. P = [khead |-> q.khead, ktail |-> q.ktail, sqe_tail |-> (q.sqe_tail + 1) % SqMod,
             prepared |-> q.prepared + 1, taken |-> q.taken,
             sqes |-> [q.sqes EXCEPT ![slot] = rec]]
    <3>1. q = [khead |-> q.khead, ktail |-> q.ktail, sqe_tail |-> q.sqe_tail,
               prepared |-> q.prepared, taken |-> q.taken, sqes |-> q.sqes]
      BY DEF Ring
    <3>2. P = [q EXCEPT !.sqe_tail = (q.sqe_tail + 1) % SqMod, !.prepared = q.prepared + 1,
                        !.sqes = [q.sqes EXCEPT ![slot] = rec]]
      BY <3>1 DEF Prepare, slot
    <3> HIDE DEF P, rec
    <3> QED BY <3>1, <3>2
  <2>2. rec.id = q.prepared
    OBVIOUS
  <2> QED BY <2>1, <2>2
<1> HIDE DEF P
<1>6. P.sqes = [s \in 0..SqEntries - 1 |-> P.sqes[s]]
  BY <1>5 DEF Ring
<1>7. ASSUME NEW k \in q.taken..q.prepared
      PROVE  P.sqes[k % SqEntries].id = k
  <2>1. CASE k = q.prepared
    BY <1>3, <1>5, <2>1 DEF Ring
  <2>2. CASE k < q.prepared
    <3>1. k \in Nat /\ q.prepared \in Nat /\ q.prepared < k + SqEntries
      BY <1>1, <1>2 DEF Ring
    <3>2. k % SqEntries # slot
      BY <1>3, <2>2, <3>1, EntriesApart
    <3>3. k % SqEntries \in 0..SqEntries - 1
      BY <1>2, <3>1, DivMod
    <3>4. P.sqes[k % SqEntries] = q.sqes[k % SqEntries]
      BY <1>5, <3>2, <3>3 DEF Ring
    <3>5. k \in q.taken..q.prepared - 1
      BY <2>2, <3>1 DEF Ring
    <3>6. q.sqes[k % SqEntries].id = k
      BY <3>5 DEF Ring
    <3> QED BY <3>4, <3>6
  <2> QED BY <2>1, <2>2 DEF Ring
<1>8. \E p \in P.taken..P.prepared : P.ktail = p % SqMod
  BY <1>5 DEF Ring
<1>9. /\ P.taken = q.taken /\ P.prepared = q.prepared + 1 /\ P.khead = q.khead
      /\ P.sqe_tail = (q.prepared + 1) % SqMod
      /\ P = [khead |-> P.khead, ktail |-> P.ktail, sqe_tail |-> P.sqe_tail,
              prepared |-> P.prepared, taken |-> P.taken, sqes |-> P.sqes]
  BY <1>4, <1>5
<1>10. \A k \in P.taken..P.prepared - 1 : P.sqes[k % SqEntries].id = k
  BY <1>7, <1>9 DEF Ring
<1>11. Ring(P)
  BY <1>1, <1>2, <1>6, <1>8, <1>9, <1>10 DEF Ring
<1> QED BY <1>11 DEF P

(* An io_uring_enter that takes any number of the entries it was given, from *)
(* none to all, keeps the ring.                                              *)
LEMMA SubmittedRing ==
    ASSUME NEW q, Ring(q), NEW k \in 0..ToSubmit(q)
    PROVE  Ring(Submitted(q, k))
<1> DEFINE S == Submitted(q, k)
           t == q.taken
<1>1. k \in Nat /\ t \in Nat /\ t + k <= q.prepared /\ q.prepared \in Nat
  <2>1. ToSubmit(q) \in Nat /\ ToSubmit(q) <= q.prepared - q.taken
    BY ToSubmitBound
  <2> QED BY <2>1 DEF Ring
<1>2. SqMod \in Nat \ {0} /\ SqEntries \in Nat \ {0}
  BY RingAssumption
<1>3. PICK f : /\ S = [khead |-> (q.khead + k) % SqMod, ktail |-> q.sqe_tail, sqe_tail |-> q.sqe_tail,
                       prepared |-> q.prepared, taken |-> q.taken + k, sqes |-> f]
               /\ f = [s \in 0..SqEntries - 1 |-> IF s \in SqSlots(q, k)
                           THEN [ZeroSqe EXCEPT !.ud = q.sqes[s].ud] ELSE q.sqes[s]]
  <2> DEFINE g == [s \in 0..SqEntries - 1 |-> IF s \in SqSlots(q, k)
                           THEN [ZeroSqe EXCEPT !.ud = q.sqes[s].ud] ELSE q.sqes[s]]
             h == [s \in DOMAIN q.sqes |-> IF s \in SqSlots(q, k)
                           THEN [ZeroSqe EXCEPT !.ud = q.sqes[s].ud] ELSE q.sqes[s]]
  <2>1. q = [khead |-> q.khead, ktail |-> q.ktail, sqe_tail |-> q.sqe_tail,
             prepared |-> q.prepared, taken |-> q.taken, sqes |-> q.sqes]
    BY DEF Ring
  <2>2. S = [q EXCEPT !.ktail = q.sqe_tail, !.khead = (q.khead + k) % SqMod,
                      !.taken = q.taken + k, !.sqes = h]
    BY <2>1 DEF Submitted
  <2>3. DOMAIN q.sqes = 0..SqEntries - 1
    BY DEF Ring
  <2>4. h = g
    BY <2>3
  <2> HIDE DEF S, g, h
  <2>5. S = [khead |-> (q.khead + k) % SqMod, ktail |-> q.sqe_tail, sqe_tail |-> q.sqe_tail,
             prepared |-> q.prepared, taken |-> q.taken + k, sqes |-> g]
    BY <2>1, <2>2, <2>4
  <2> QED BY <2>5 DEF g
<1> HIDE DEF S
<1>4. (q.khead + k) % SqMod = (t + k) % SqMod
  <2>1. ((t % SqMod) + k) % SqMod = (t + k) % SqMod
    BY <1>1, <1>2, ModShift, Zenon
  <2> QED BY <2>1 DEF Ring
<1>5. ASSUME NEW m \in t + k..q.prepared - 1
      PROVE  S.sqes[m % SqEntries].id = m
  <2>1. m \in Nat /\ m < t + SqEntries /\ m \in t..q.prepared - 1
    BY <1>1, <1>2 DEF Ring
  <2>2. m % SqEntries \in 0..SqEntries - 1
    BY <1>2, <2>1, DivMod
  <2>3. m % SqEntries \notin SqSlots(q, k)
    <3> SUFFICES ASSUME NEW j \in 0..k - 1
                 PROVE  m % SqEntries # ((q.khead + j) % SqMod) % SqEntries
      BY DEF SqSlots
    <3>1. j \in Nat /\ t + j \in Nat /\ t + j < m /\ m < t + j + SqEntries
      BY <1>1, <1>2, <2>1
    <3>2. ((q.khead + j) % SqMod) % SqEntries = (t + j) % SqEntries
      <4>1. (((t % SqMod) + j) % SqMod) % SqEntries = (t + j) % SqEntries
        BY <1>1, <3>1, SlotOfEntry, Zenon
      <4> QED BY <4>1 DEF Ring
    <3>3. (t + j) % SqEntries # m % SqEntries
      BY <2>1, <3>1, EntriesApart
    <3> QED BY <3>2, <3>3
  <2>4. S.sqes[m % SqEntries] = q.sqes[m % SqEntries]
    BY <1>3, <2>2, <2>3
  <2>5. q.sqes[m % SqEntries].id = m
    BY <2>1 DEF Ring
  <2> QED BY <2>4, <2>5
<1>6. /\ S.taken = t + k /\ S.prepared = q.prepared /\ S.khead = (t + k) % SqMod
      /\ S.sqe_tail = q.prepared % SqMod /\ S.ktail = q.prepared % SqMod
      /\ S = [khead |-> S.khead, ktail |-> S.ktail, sqe_tail |-> S.sqe_tail,
              prepared |-> S.prepared, taken |-> S.taken, sqes |-> S.sqes]
      /\ S.sqes = [s \in 0..SqEntries - 1 |-> S.sqes[s]]
  BY <1>3, <1>4 DEF Ring
<1>7. \A m \in S.taken..S.prepared - 1 : S.sqes[m % SqEntries].id = m
  BY <1>5, <1>6
<1>8. \E p \in S.taken..S.prepared : S.ktail = p % SqMod
  BY <1>1, <1>6
<1>9. Ring(S)
  BY <1>1, <1>2, <1>6, <1>7, <1>8 DEF Ring
<1> QED BY <1>9 DEF S

(* The invariant gives the property. *)
LEMMA RingIsIntact == Ring(sq) => SqIntact
<1> SUFFICES ASSUME Ring(sq) PROVE SqIntact
  OBVIOUS
<1>1. ASSUME NEW k \in sq.taken..sq.prepared - 1
      PROVE  sq.sqes[((sq.khead + (k - sq.taken)) % SqMod) % SqEntries].id = k
  <2> DEFINE t == sq.taken
             j == k - sq.taken
  <2>1. t \in Nat /\ j \in Nat /\ t + j = k /\ sq.khead = t % SqMod
    BY DEF Ring
  <2> HIDE DEF t, j
  <2>2. ((sq.khead + j) % SqMod) % SqEntries = k % SqEntries
    <3>1. (((t % SqMod) + j) % SqMod) % SqEntries = (t + j) % SqEntries
      BY <2>1, SlotOfEntry, Zenon
    <3> QED BY <2>1, <3>1
  <2>3. sq.sqes[k % SqEntries].id = k
    BY DEF Ring
  <2> QED BY <2>2, <2>3 DEF j
<1> QED BY <1>1 DEF Ring, SqIntact

-----------------------------------------------------------------------------
(* The calls. *)

(* submit keeps the ring, whatever io_uring_enter returns. *)
LEMMA SubmitsOutcome ==
    ASSUME NEW s, Outcome(s), NEW o \in Submits(s)
    PROVE  Outcome(o)
<1>1. CASE ToSubmit(s.sq) = 0
  <2>1. o = [s EXCEPT !.ret = 0]
    BY <1>1 DEF Submits
  <2> QED BY <2>1 DEF Outcome
<1>2. CASE ToSubmit(s.sq) # 0
  <2>1. Ring(s.sq)
    BY DEF Outcome
  <2>2. ToSubmit(s.sq) \in Nat
    BY <2>1, ToSubmitBound
  <2>3. PICK k \in 0..ToSubmit(s.sq) :
            o = [sq |-> Submitted(s.sq, k), inflight |-> s.inflight \cup TakenBy(s.sq, k),
                 fails |-> IF k = ToSubmit(s.sq) THEN s.fails ELSE s.fails + 1,
                 ret |-> IF k = 0 THEN -1 ELSE k]
    BY <1>2, <2>2 DEF Submits
  <2>4. Ring(Submitted(s.sq, k))
    BY <2>1, SubmittedRing
  <2> QED BY <2>3, <2>4 DEF Outcome
<1> QED BY <1>1, <1>2

(* get_io_uring_sqe, the prepare functions and submit keep the ring: an      *)
(* entry is only prepared where get_sqe found room.                          *)
LEMMA RequestsOutcome ==
    ASSUME Ring(sq), NEW e, NEW setsUserData, NEW submits,
           NEW o \in Requests(e, setsUserData, submits)
    PROVE  Outcome(o)
<1>1. Outcome(Now)
  BY DEF Outcome, Now
<1>2. PICK g \in GetIoUringSqe :
          o \in IF g.ret = 0 THEN {[g EXCEPT !.ret = -1]}
                ELSE LET p == [g EXCEPT !.sq = Prepare(g.sq, e, setsUserData)]
                     IN  IF submits THEN Submits(p) ELSE {p}
  BY DEF Requests
<1>3. Outcome(g) /\ (g.ret # 0 => HasRoom(g.sq))
  <2>1. CASE HasRoom(sq)
    <3>1. g = [Now EXCEPT !.ret = 1]
      BY <2>1 DEF GetIoUringSqe
    <3>2. g.sq = sq /\ g = [sq |-> g.sq, inflight |-> g.inflight, fails |-> g.fails, ret |-> g.ret]
      BY <3>1 DEF Now
    <3> QED BY <2>1, <3>2 DEF Outcome
  <2>2. CASE ~HasRoom(sq)
    <3>1. PICK s \in Submits(Now) : g = [s EXCEPT !.ret = IF s.ret = 0 /\ HasRoom(s.sq) THEN 1 ELSE 0]
      BY <2>2 DEF GetIoUringSqe
    <3>2. Outcome(s)
      BY <1>1, SubmitsOutcome
    <3>3. /\ g.sq = s.sq
          /\ g = [sq |-> g.sq, inflight |-> g.inflight, fails |-> g.fails, ret |-> g.ret]
          /\ g.ret # 0 => HasRoom(s.sq)
      BY <3>1, <3>2 DEF Outcome
    <3> QED BY <3>2, <3>3 DEF Outcome
  <2> QED BY <2>1, <2>2
<1>4. CASE g.ret = 0
  <2>1. o = [g EXCEPT !.ret = -1]
    BY <1>2, <1>4
  <2> QED BY <1>3, <2>1 DEF Outcome
<1>5. CASE g.ret # 0
  <2> DEFINE p == [g EXCEPT !.sq = Prepare(g.sq, e, setsUserData)]
  <2>1. Ring(Prepare(g.sq, e, setsUserData))
    BY <1>3, <1>5, PrepareRing DEF Outcome
  <2>2. Outcome(p)
    BY <1>3, <2>1 DEF Outcome
  <2>3. o \in IF submits THEN Submits(p) ELSE {p}
    BY <1>2, <1>5
  <2> HIDE DEF p
  <2> QED BY <2>2, <2>3, SubmitsOutcome
<1> QED BY <1>4, <1>5

(* The initial rings are empty. *)
LEMMA InitRing == Init => Ring(sq)
<1> SUFFICES ASSUME Init PROVE Ring(sq)
  OBVIOUS
<1>1. sq = [khead |-> 0, ktail |-> 0, sqe_tail |-> 0, prepared |-> 0, taken |-> 0,
            sqes |-> [k \in 0..SqEntries - 1 |-> ZeroSqe]]
  BY DEF Init, SqInit
<1>2. 0 % SqMod = 0
  BY RingAssumption
<1>3. sq.sqes = [s \in 0..SqEntries - 1 |-> sq.sqes[s]]
  BY <1>1
<1> QED BY <1>1, <1>2, <1>3, RingAssumption DEF Ring

(* No step of the program or of the kernel breaks the ring. *)
LEMMA StepRing == Ring(sq) /\ [Next]_vars => Ring(sq')
<1> SUFFICES ASSUME Ring(sq), [Next]_vars PROVE Ring(sq')
  OBVIOUS
<1>1. ASSUME NEW o, Outcome(o), Apply(o) PROVE Ring(sq')
  BY <1>1 DEF Apply, Outcome
<1>2. Outcome([Now EXCEPT !.ret = 1]) /\ Outcome(Now)
  BY DEF Outcome, Now
<1>3. ASSUME NEW fd, NEW v, NEW e, NEW submits, SendFor(fd, v, e, submits)
      PROVE  Ring(sq')
  BY <1>1, <1>3, RequestsOutcome DEF SendFor
<1>4. ASSUME NEW e, NEW b, NEW submits, Send(e, b, submits)
      PROVE  Ring(sq')
  BY <1>1, <1>4, RequestsOutcome DEF Send
<1>5. ASSUME NEW c, NEW keep, AfterCallback(c, keep)
      PROVE  Ring(sq')
  <2>1. CASE Exit
    BY <2>1 DEF Exit, kernVars
  <2>2. ASSUME NEW o \in IF c.buf # Null /\ ~c.more THEN Resubmit(c.of.ud) ELSE {[Now EXCEPT !.ret = 1]},
               Apply(o)
        PROVE  Ring(sq')
    <3>1. Outcome(o)
      BY <1>2, RequestsOutcome DEF Resubmit
    <3> QED BY <1>1, <2>2, <3>1
  <2> QED BY <1>5, <2>1, <2>2 DEF AfterCallback
<1>6. CASE User
  <2>1. ASSUME NEW fd \in Fds, SubmitAccept(fd) \/ CancelByFd(fd) \/ CancelWrite(fd)
        PROVE  Ring(sq')
    BY <1>3, <1>4, <2>1 DEF SubmitAccept, CancelByFd, CancelWrite
  <2>2. ASSUME NEW fd \in Fds, NEW cb \in BOOLEAN, NEW submits \in BOOLEAN,
               \/ SubmitRead(fd, cb, submits) \/ SubmitWrite(fd, cb, submits)
               \/ \E g \in 0..MaxGroups - 1 : cb /\ SubmitReadGroup(fd, g, submits)
        PROVE  Ring(sq')
    BY <1>3, <2>2 DEF SubmitRead, SubmitWrite, SubmitReadGroup
  <2>3. CASE Submit
    BY <1>1, <1>2, <2>3, SubmitsOutcome DEF Submit
  <2>4. CASE CreateTimer
    BY <1>1, <2>4, RequestsOutcome DEF CreateTimer
  <2>5. CASE Open \/ Close
    BY <2>5 DEF Open, Close, kernVars
  <2>6. ASSUME NEW id, CloseTimer(id)
        PROVE  Ring(sq')
    BY <1>1, <2>6, RequestsOutcome DEF CloseTimer
  <2>7. ASSUME NEW g, UnregisterRingBuffer(g)
        PROVE  Ring(sq')
    BY <2>7 DEF UnregisterRingBuffer
  <2>8. ASSUME NEW count, RegisterRingBuffer(count)
        PROVE  Ring(sq')
    BY <2>8 DEF RegisterRingBuffer
  <2>9. CASE RegisterFails
    BY <2>9 DEF RegisterFails, kernVars
  <2> QED BY <1>6, <2>1, <2>2, <2>3, <2>4, <2>5, <2>6, <2>7, <2>8, <2>9 DEF User
<1>7. CASE Kernel
  BY <1>7 DEF Kernel, KernelStep, KernelDone, KernelShot, KernelNoBuffer, KernelCancel
<1>8. CASE Dispatch
  <2>1. CASE DispatchWait \/ DispatchReturns
    BY <2>1 DEF DispatchWait, DispatchReturns, kernVars
  <2>2. CASE CallbackReturns
    BY <1>5, <2>2 DEF CallbackReturns, Exit, kernVars
  <2>3. CASE DispatchEntry
    <3> DEFINE c == GetCqe(cq, i)
    <3>1. CASE UNCHANGED kernVars
      BY <3>1 DEF kernVars
    <3>2. CASE AfterCallback(c, Usable(c))
      BY <1>5, <3>2
    <3>3. CASE CallBack(c)
      <4>1. PICK o \in IF c.of.ud \in TimerAddrs /\ ~MultishotTimeout
                       THEN Requests(Sqe("timeout", -1, c.of.ud, Null), TRUE, TRUE)
                       ELSE {[Now EXCEPT !.ret = 1]} : Exit \/ Apply(o)
        BY <3>3 DEF CallBack
      <4>2. Outcome(o)
        BY <1>2, RequestsOutcome
      <4> QED BY <1>1, <4>1, <4>2 DEF Exit, kernVars
    <3> QED BY <2>3, <3>1, <3>2, <3>3 DEF DispatchEntry, Exit
  <2> QED BY <1>8, <2>1, <2>2, <2>3 DEF Dispatch
<1>9. CASE UNCHANGED vars
  BY <1>9 DEF vars, kernVars
<1> QED BY <1>6, <1>7, <1>8, <1>9 DEF Next

(* Between the kernel's head and the program's tail every slot holds the     *)
(* entry prepared for it, for every size of the rings, every interleaving    *)
(* with the kernel, any partial io_uring_enter and across every wrap of the  *)
(* counters: get_sqe never returns a slot the kernel has still to read.      *)
THEOREM SubmissionRingIntact == Spec => []SqIntact
<1>1. Init => Ring(sq)
  BY InitRing
<1>2. Ring(sq) /\ [Next]_vars => Ring(sq)'
  BY StepRing
<1>3. Ring(sq) => SqIntact
  BY RingIsIntact
<1> QED BY <1>1, <1>2, <1>3, PTL DEF Spec

-----------------------------------------------------------------------------
(* Completions. *)

(* The completion with serial number k. *)
Entry(c, k) == c.cqes[k % CqEntries]

CompletionRing(c) ==
    /\ c = [khead |-> c.khead, ktail |-> c.ktail, posted |-> c.posted, consumed |-> c.consumed,
            cqes |-> c.cqes]
    /\ c.posted \in Nat /\ c.consumed \in Nat
    /\ c.consumed <= c.posted /\ c.posted - c.consumed <= CqEntries
    /\ c.khead = c.consumed % CqMod
    /\ c.ktail = c.posted % CqMod
    /\ c.cqes = [s \in 0..CqEntries - 1 |-> c.cqes[s]]
    /\ \A k \in c.consumed..c.posted - 1 : Entry(c, k).id = k

(* What dispatch counts lies between the two counters of the ring *)
Batch ==
    /\ i \in Nat /\ n \in Nat /\ i <= n /\ n <= cq.posted - cq.consumed
    /\ pc \in {"new", "user"} => i = 0 /\ n = 0
    /\ pc = "cb" => i < n /\ call.cqe = Entry(cq, cq.consumed + i)

(* Until the 32-bit counters wrap, cq_consume gives back what was handled *)
SeenInOrder == cq.posted < CqMod => seen = cq.consumed + i

-----------------------------------------------------------------------------
(* Ready counts what was posted and not consumed. *)
LEMMA ReadyIsExact ==
    ASSUME NEW c, CompletionRing(c)
    PROVE  Ready(c) = c.posted - c.consumed
<1> DEFINE w == c.posted
           r == c.consumed
<1>1. w \in Nat /\ r \in Nat /\ r <= w /\ w < r + CqMod /\ CqMod \in Nat \ {0}
  BY RingAssumption DEF CompletionRing
<1>2. c.khead = r % CqMod /\ c.ktail = w % CqMod
  BY DEF CompletionRing
<1> HIDE DEF w, r
<1>3. ((w % CqMod) + CqMod - (r % CqMod)) % CqMod = w - r
  BY <1>1, WrappedDistance
<1> QED BY <1>2, <1>3 DEF Ready, Minus, w, r

(* The slot of the entry idx places behind the head. *)
LEMMA CqSlot ==
    ASSUME NEW c, CompletionRing(c), NEW idx \in Nat
    PROVE  ((c.khead + idx) % CqMod) % CqEntries = (c.consumed + idx) % CqEntries
<1> DEFINE t == c.consumed
<1>1. CqMod \in Nat \ {0} /\ CqEntries \in Nat \ {0} /\ CqMod % CqEntries = 0
  BY RingAssumption
<1>2. t \in Nat /\ t + idx \in Nat /\ c.khead = t % CqMod
  BY DEF CompletionRing
<1> HIDE DEF t
<1>3. ((t % CqMod) + idx) % CqMod = (t + idx) % CqMod
  BY <1>1, <1>2, ModShift, Zenon
<1>4. ((t + idx) % CqMod) % CqEntries = (t + idx) % CqEntries
  BY <1>1, <1>2, ModOfMod, Zenon
<1> QED BY <1>2, <1>3, <1>4 DEF t

(* get_cqe returns the completion that many places behind the oldest. *)
LEMMA GetCqeIsEntry ==
    ASSUME NEW c, CompletionRing(c), NEW idx \in Nat
    PROVE  GetCqe(c, idx) = Entry(c, c.consumed + idx)
BY CqSlot DEF GetCqe, Entry

(* The kernel writes behind the last completion and touches no other. *)
LEMMA PostKeepsRing ==
    ASSUME NEW c, CompletionRing(c), ~CqFull(c), NEW e
    PROVE  /\ CompletionRing(Post(c, e))
           /\ Post(c, e).posted = c.posted + 1 /\ Post(c, e).consumed = c.consumed
           /\ Entry(Post(c, e), c.posted).buf = e.buf
           /\ \A k \in c.consumed..c.posted - 1 : Entry(Post(c, e), k) = Entry(c, k)
<1> DEFINE slot == c.ktail % CqEntries
           rec == [of |-> e.of, res |-> e.res, more |-> e.more, buf |-> e.buf, id |-> c.posted]
           P == Post(c, e)
<1>1. CqMod \in Nat \ {0} /\ CqEntries \in Nat \ {0} /\ CqMod % CqEntries = 0
  BY RingAssumption
<1>2. /\ c.posted \in Nat /\ c.consumed \in Nat /\ c.consumed <= c.posted
      /\ c.ktail = c.posted % CqMod /\ c.posted - c.consumed <= CqEntries
      /\ c.khead = c.consumed % CqMod
      /\ c.cqes = [s \in 0..CqEntries - 1 |-> c.cqes[s]]
      /\ c = [khead |-> c.khead, ktail |-> c.ktail, posted |-> c.posted, consumed |-> c.consumed,
              cqes |-> c.cqes]
      /\ \A k \in c.consumed..c.posted - 1 : Entry(c, k).id = k
  BY DEF CompletionRing
<1>3. c.posted - c.consumed < CqEntries
  BY <1>1, <1>2, ReadyIsExact DEF CqFull
<1>4. slot = c.posted % CqEntries /\ slot \in 0..CqEntries - 1
  <2>1. c.posted % CqEntries \in 0..CqEntries - 1
    BY <1>1, <1>2, DivMod
  <2>2. (c.posted % CqMod) % CqEntries = c.posted % CqEntries
    BY <1>1, <1>2, ModOfMod, Zenon
  <2> QED BY <1>2, <2>1, <2>2
<1>5. (c.ktail + 1) % CqMod = (c.posted + 1) % CqMod
  <2>1. ((c.posted % CqMod) + 1) % CqMod = (c.posted + 1) % CqMod
    <3>1. 1 \in Nat
      OBVIOUS
    <3> QED BY <1>1, <1>2, <3>1, ModShift, Zenon
  <2> QED BY <1>2, <2>1
<1>6. P = [khead |-> c.khead, ktail |-> (c.ktail + 1) % CqMod, posted |-> c.posted + 1,
           consumed |-> c.consumed, cqes |-> [c.cqes EXCEPT ![slot] = rec]]
  <2>1. P = [c EXCEPT !.ktail = (c.ktail + 1) % CqMod, !.posted = c.posted + 1,
                      !.cqes = [c.cqes EXCEPT ![slot] = rec]]
    BY <1>2 DEF Post
  <2> HIDE DEF P, rec, slot
  <2> QED BY <1>2, <2>1
<1>7. rec.id = c.posted /\ rec.buf = e.buf
  OBVIOUS
<1> HIDE DEF P, rec, slot
<1>8. /\ P.posted = c.posted + 1 /\ P.consumed = c.consumed /\ P.khead = c.khead
      /\ P.ktail = (c.posted + 1) % CqMod
      /\ P = [khead |-> P.khead, ktail |-> P.ktail, posted |-> P.posted, consumed |-> P.consumed,
              cqes |-> P.cqes]
      /\ P.cqes = [c.cqes EXCEPT ![slot] = rec]
  BY <1>5, <1>6
<1>9. P.cqes = [s \in 0..CqEntries - 1 |-> P.cqes[s]]
  BY <1>2, <1>8
<1>10. Entry(P, c.posted) = rec
  BY <1>2, <1>4, <1>8 DEF Entry
<1>11. ASSUME NEW k \in c.consumed..c.posted - 1
       PROVE  Entry(P, k) = Entry(c, k)
  <2>1. k \in Nat /\ k < c.posted /\ c.posted < k + CqEntries
    BY <1>1, <1>2, <1>3
  <2>2. k % CqEntries # slot
    BY <1>1, <1>2, <1>4, <2>1, SlotsDiffer, Zenon
  <2>3. k % CqEntries \in 0..CqEntries - 1
    BY <1>1, <2>1, DivMod
  <2> QED BY <1>2, <1>8, <2>2, <2>3 DEF Entry
<1>12. \A k \in P.consumed..P.posted - 1 : Entry(P, k).id = k
  <2> SUFFICES ASSUME NEW k \in c.consumed..c.posted PROVE Entry(P, k).id = k
    BY <1>2, <1>8
  <2>1. CASE k = c.posted
    BY <1>7, <1>10, <2>1
  <2>2. CASE k \in c.consumed..c.posted - 1
    BY <1>2, <1>11, <2>2
  <2> QED BY <1>2, <2>1, <2>2
<1>13. CompletionRing(P)
  <2>1. P.posted \in Nat /\ P.consumed \in Nat /\ P.consumed <= P.posted /\ P.posted - P.consumed <= CqEntries
    BY <1>1, <1>2, <1>3, <1>8
  <2>2. P.khead = P.consumed % CqMod /\ P.ktail = P.posted % CqMod
    BY <1>2, <1>8
  <2> QED BY <1>8, <1>9, <1>12, <2>1, <2>2, Zenon DEF CompletionRing
<1> QED BY <1>7, <1>8, <1>10, <1>11, <1>13 DEF P

(* Giving back the first k entries leaves the others where they are. *)
LEMMA AdvanceKeepsRing ==
    ASSUME NEW c, CompletionRing(c), NEW k \in 0..c.posted - c.consumed
    PROVE  /\ CompletionRing(Advance(c, k))
           /\ Advance(c, k).posted = c.posted /\ Advance(c, k).consumed = c.consumed + k
           /\ \A m \in c.consumed + k..c.posted - 1 : Entry(Advance(c, k), m) = Entry(c, m)
<1> DEFINE A == Advance(c, k)
           t == c.consumed
           f == [s \in 0..CqEntries - 1 |->
                     IF \E j \in 0..k - 1 : s = ((c.khead + j) % CqMod) % CqEntries
                     THEN ZeroCqe ELSE c.cqes[s]]
<1>1. CqMod \in Nat \ {0} /\ CqEntries \in Nat \ {0} /\ CqMod % CqEntries = 0
  BY RingAssumption
<1>2. /\ c.posted \in Nat /\ t \in Nat /\ t <= c.posted
      /\ c.ktail = c.posted % CqMod /\ c.posted - t <= CqEntries
      /\ c.khead = t % CqMod
      /\ c.cqes = [s \in 0..CqEntries - 1 |-> c.cqes[s]]
      /\ c = [khead |-> c.khead, ktail |-> c.ktail, posted |-> c.posted, consumed |-> t,
              cqes |-> c.cqes]
      /\ \A m \in t..c.posted - 1 : Entry(c, m).id = m
  BY DEF CompletionRing
<1>3. k \in Nat /\ t + k <= c.posted /\ t + k \in Nat
  BY <1>2
<1>4. (c.khead + k) % CqMod = (t + k) % CqMod
  <2>1. ((t % CqMod) + k) % CqMod = (t + k) % CqMod
    BY <1>1, <1>2, <1>3, ModShift, Zenon
  <2> QED BY <1>2, <2>1
<1>5. A = [khead |-> (c.khead + k) % CqMod, ktail |-> c.ktail, posted |-> c.posted,
           consumed |-> t + k, cqes |-> f]
  <2> DEFINE g == [s \in DOMAIN c.cqes |->
                     IF \E j \in 0..k - 1 : s = ((c.khead + j) % CqMod) % CqEntries
                     THEN ZeroCqe ELSE c.cqes[s]]
  <2>1. A = [c EXCEPT !.khead = (c.khead + k) % CqMod, !.consumed = t + k, !.cqes = g]
    BY <1>2 DEF Advance
  <2>2. DOMAIN c.cqes = 0..CqEntries - 1
    BY <1>2
  <2>3. f = g
    BY <2>2
  <2> HIDE DEF A, f, g
  <2> QED BY <1>2, <2>1, <2>3
<1>6. ASSUME NEW m \in t + k..c.posted - 1
      PROVE  f[m % CqEntries] = c.cqes[m % CqEntries]
  <2>1. m \in Nat /\ m < t + CqEntries
    BY <1>1, <1>2, <1>3
  <2>2. m % CqEntries \in 0..CqEntries - 1
    BY <1>1, <2>1, DivMod
  <2>3. ASSUME NEW j \in 0..k - 1
        PROVE  m % CqEntries # ((c.khead + j) % CqMod) % CqEntries
    <3>1. j \in Nat /\ t + j \in Nat /\ t + j < m /\ m < t + j + CqEntries
      BY <1>1, <1>2, <1>3, <2>1
    <3>2. ((c.khead + j) % CqMod) % CqEntries = (t + j) % CqEntries
      BY <3>1, CqSlot
    <3>3. (t + j) % CqEntries # m % CqEntries
      BY <1>1, <2>1, <3>1, SlotsDiffer, Zenon
    <3> QED BY <3>2, <3>3
  <2> QED BY <2>2, <2>3
<1> HIDE DEF A, f
<1>7. /\ A.posted = c.posted /\ A.consumed = t + k /\ A.khead = (t + k) % CqMod
      /\ A.ktail = c.posted % CqMod /\ A.cqes = f
      /\ A = [khead |-> A.khead, ktail |-> A.ktail, posted |-> A.posted, consumed |-> A.consumed,
              cqes |-> A.cqes]
  BY <1>2, <1>4, <1>5
<1>8. A.cqes = [s \in 0..CqEntries - 1 |-> A.cqes[s]]
  BY <1>7 DEF f
<1>9. \A m \in t + k..c.posted - 1 : Entry(A, m) = Entry(c, m)
  BY <1>6, <1>7 DEF Entry
<1>10. \A m \in A.consumed..A.posted - 1 : Entry(A, m).id = m
  BY <1>2, <1>3, <1>7, <1>9
<1>11. CompletionRing(A)
  <2>1. A.posted \in Nat /\ A.consumed \in Nat /\ A.consumed <= A.posted /\ A.posted - A.consumed <= CqEntries
    BY <1>1, <1>2, <1>3, <1>7
  <2>2. A.khead = A.consumed % CqMod /\ A.ktail = A.posted % CqMod
    BY <1>7
  <2> QED BY <1>7, <1>8, <1>10, <2>1, <2>2, Zenon DEF CompletionRing
<1> QED BY <1>7, <1>9, <1>11 DEF A

(* d is c with more completions behind the last *)
Grown(c, d) ==
    /\ CompletionRing(d)
    /\ d.consumed = c.consumed /\ c.posted <= d.posted
    /\ \A k \in c.consumed..c.posted - 1 : Entry(d, k) = Entry(c, k)

(* Posting one completion. *)
LEMMA PostGrows ==
    ASSUME NEW c, CompletionRing(c), ~CqFull(c), NEW e
    PROVE  Grown(c, Post(c, e))
<1>1. c.posted \in Nat
  BY DEF CompletionRing
<1>2. /\ CompletionRing(Post(c, e))
      /\ Post(c, e).posted = c.posted + 1 /\ Post(c, e).consumed = c.consumed
      /\ \A k \in c.consumed..c.posted - 1 : Entry(Post(c, e), k) = Entry(c, k)
  BY PostKeepsRing
<1>3. c.posted <= Post(c, e).posted
  BY <1>1, <1>2
<1> QED BY <1>2, <1>3, Zenon DEF Grown

(* Whatever the kernel reports, it only adds to the ring. *)
LEMMA KernelGrows ==
    ASSUME CompletionRing(cq), Kernel
    PROVE  Grown(cq, cq') /\ UNCHANGED dispVars
<1>1. PICK r \in inflight : \/ KernelDone(r) \/ KernelShot(r, TRUE) \/ KernelShot(r, FALSE)
                            \/ KernelNoBuffer(r) \/ KernelCancel(r)
  BY DEF Kernel
<1>2. ~CqFull(cq) /\ UNCHANGED dispVars
  BY <1>1 DEF KernelDone, KernelShot, KernelNoBuffer, KernelCancel, KernelStep
<1>3. ASSUME NEW e, cq' = Post(cq, e)
      PROVE  Grown(cq, cq')
  BY <1>2, <1>3, PostGrows
<1>4. CASE KernelDone(r) \/ KernelNoBuffer(r)
  BY <1>2, <1>3, <1>4 DEF KernelDone, KernelNoBuffer, Finish
<1>5. CASE KernelShot(r, TRUE) \/ KernelShot(r, FALSE)
  BY <1>2, <1>3, <1>5 DEF KernelShot
<1>6. CASE KernelCancel(r)
  <2>1. ASSUME NEW q, Finish(q, -1) PROVE Grown(cq, cq')
    BY <1>2, <1>3, <2>1 DEF Finish
  <2>2. ASSUME NEW e, NEW f, ~CqFull(Post(cq, e)), cq' = Post(Post(cq, e), f)
        PROVE  Grown(cq, cq')
    <3> DEFINE p == Post(cq, e)
    <3>1. Grown(cq, p)
      BY <1>2, PostGrows
    <3>2. Grown(p, cq')
      BY <2>2, <3>1, PostGrows DEF Grown
    <3> HIDE DEF p
    <3> QED BY <3>1, <3>2 DEF Grown, CompletionRing
  <2> QED BY <1>2, <1>6, <2>1, <2>2 DEF KernelCancel
<1> QED BY <1>1, <1>2, <1>4, <1>5, <1>6

(* The turn of an entry ends the program or moves on to the next entry. *)
LEMMA TurnEnds ==
    ASSUME NEW c, NEW keep, AfterCallback(c, keep)
    PROVE  \/ pc' = "exit" /\ UNCHANGED <<n, i, call, seen>>
           \/ NextEntry
<1>1. CASE Exit
  BY <1>1 DEF Exit
<1>2. CASE NextEntry
  BY <1>2
<1> QED BY <1>1, <1>2 DEF AfterCallback

(* What a step of dispatch on an entry does to its counters. *)
LEMMA EntrySteps ==
    ASSUME DispatchEntry \/ CallbackReturns
    PROVE  /\ cq' = cq
           /\ \/ pc' = "exit" /\ UNCHANGED <<n, i, call, seen>>
              \/ NextEntry /\ (pc = "cb" \/ i < n)
              \/ /\ pc = "dispatch" /\ pc' = "cb" /\ i < n
                 /\ call'.cqe = GetCqe(cq, i) /\ UNCHANGED <<n, i, seen>>
<1>1. CASE CallbackReturns
  BY <1>1, TurnEnds DEF CallbackReturns, Exit
<1>2. CASE DispatchEntry
  <2> DEFINE c == GetCqe(cq, i)
  <2>1. cq' = cq /\ i < n /\ pc = "dispatch"
    BY <1>2 DEF DispatchEntry
  <2>2. CASE NextEntry \/ Exit
    BY <2>1, <2>2 DEF Exit
  <2>3. CASE AfterCallback(c, Usable(c))
    BY <2>1, <2>3, TurnEnds
  <2>4. CASE CallBack(c)
    <3>1. \/ Exit
          \/ pc' = "cb" /\ call' = [ud |-> c.of.ud, cqe |-> c, len |-> Len(buffers)] /\ UNCHANGED <<n, i, seen>>
      BY <2>4 DEF CallBack
    <3> QED BY <2>1, <2>2, <3>1
  <2> QED BY <1>2, <2>2, <2>3, <2>4 DEF DispatchEntry
<1> QED BY <1>1, <1>2

(* The inductive invariant of the completion ring *)
Completions == CompletionRing(cq) /\ Batch /\ SeenInOrder

(* The ring is empty when init has mapped it. *)
LEMMA InitCompletions == Init => Completions
<1> SUFFICES ASSUME Init PROVE Completions
  OBVIOUS
<1>1. cq = [khead |-> 0, ktail |-> 0, posted |-> 0, consumed |-> 0,
            cqes |-> [k \in 0..CqEntries - 1 |-> ZeroCqe]]
  BY DEF Init, CqInit
<1>2. 0 % CqMod = 0
  BY RingAssumption
<1>3. cq.cqes = [s \in 0..CqEntries - 1 |-> cq.cqes[s]]
  BY <1>1
<1>4. CompletionRing(cq)
  BY <1>1, <1>2, <1>3, RingAssumption DEF CompletionRing
<1>5. Batch /\ SeenInOrder
  BY <1>1 DEF Init, Batch, SeenInOrder
<1> QED BY <1>4, <1>5 DEF Completions

(* The kernel, dispatch and user code keep the ring and dispatch's place in  *)
(* it; cq_consume gives back no more than was ready, wrapped or not.         *)
LEMMA StepCompletions == Completions /\ [Next]_vars => Completions'
<1> SUFFICES ASSUME Completions, [Next]_vars PROVE Completions'
  OBVIOUS
<1>a. CompletionRing(cq) /\ Batch /\ SeenInOrder
  BY DEF Completions
<1>b. cq.posted \in Nat /\ cq.consumed \in Nat /\ i \in Nat /\ n \in Nat
  BY <1>a DEF CompletionRing, Batch
<1>1. CASE UNCHANGED <<cq, dispVars>>
  BY <1>a, <1>1 DEF Completions, CompletionRing, Batch, SeenInOrder, Entry, dispVars
<1>2. CASE cq' = cq /\ pc' \in {"exit", "closed"} /\ UNCHANGED <<n, i, call, seen>>
  BY <1>a, <1>2 DEF Completions, CompletionRing, Batch, SeenInOrder, Entry
<1>3. CASE Kernel
  <2>1. Grown(cq, cq') /\ UNCHANGED dispVars
    BY <1>a, <1>3, KernelGrows
  <2>2. cq.consumed + i \in cq.consumed..cq.posted - 1 \/ pc # "cb"
    BY <1>a, <1>b DEF Batch
  <2>3. CompletionRing(cq') /\ cq'.posted \in Nat
    BY <2>1 DEF Grown, CompletionRing
  <2>4. Batch' /\ SeenInOrder'
    BY <1>a, <1>b, <2>1, <2>2, <2>3, RingAssumption DEF Grown, Batch, SeenInOrder, dispVars
  <2> QED BY <2>3, <2>4 DEF Completions
<1>4. CASE DispatchWait
  <2>1. Ready(cq) = cq.posted - cq.consumed
    BY <1>a, ReadyIsExact
  <2>2. CompletionRing(cq)'
    BY <1>a, <1>4 DEF DispatchWait, CompletionRing, Entry
  <2>3. Batch' /\ SeenInOrder'
    BY <1>a, <1>b, <1>4, <2>1 DEF DispatchWait, Batch, SeenInOrder
  <2> QED BY <2>2, <2>3 DEF Completions
<1>5. CASE DispatchEntry \/ CallbackReturns
  <2>1. CompletionRing(cq)'
    BY <1>a, <1>5, EntrySteps DEF CompletionRing, Entry
  <2>2. CASE NextEntry /\ (pc = "cb" \/ i < n)
    BY <1>a, <1>b, <1>5, <2>1, <2>2, EntrySteps DEF NextEntry, Completions, Batch, SeenInOrder
  <2>3. CASE pc = "dispatch" /\ pc' = "cb" /\ i < n /\ call'.cqe = GetCqe(cq, i) /\ UNCHANGED <<n, i, seen>>
    <3>1. call'.cqe = Entry(cq, cq.consumed + i)
      BY <1>a, <1>b, <2>3, GetCqeIsEntry
    <3> QED BY <1>a, <1>b, <1>5, <2>1, <2>3, <3>1, EntrySteps DEF Completions, Batch, SeenInOrder
  <2> QED BY <1>2, <1>5, <2>2, <2>3, EntrySteps
<1>6. CASE DispatchReturns
  <2> DEFINE k == IF (cq.khead + n) % CqMod > cq.ktail THEN Ready(cq) ELSE n
  <2>1. cq' = Advance(cq, k) /\ pc' = "user" /\ n' = 0 /\ i' = 0 /\ seen' = seen /\ i = n
    BY <1>6 DEF DispatchReturns, CqConsume
  <2>2. Ready(cq) = cq.posted - cq.consumed
    BY <1>a, ReadyIsExact
  <2>3. k \in 0..cq.posted - cq.consumed
    BY <1>a, <1>b, <2>2 DEF Batch, CompletionRing
  <2>4. cq.posted < CqMod => k = n
    <3> SUFFICES ASSUME cq.posted < CqMod PROVE ~((cq.khead + n) % CqMod > cq.ktail)
      OBVIOUS
    <3>1. CqMod \in Nat \ {0} /\ cq.consumed + n <= cq.posted /\ cq.consumed <= cq.posted
      BY <1>a, <1>b, RingAssumption DEF Batch, CompletionRing
    <3>2. cq.consumed % CqMod = cq.consumed /\ cq.posted % CqMod = cq.posted
      BY <1>b, <3>1
    <3>3. (cq.consumed + n) % CqMod = cq.consumed + n
      BY <1>b, <3>1
    <3> QED BY <1>a, <1>b, <3>1, <3>2, <3>3 DEF CompletionRing
  <2> HIDE DEF k
  <2>5. CompletionRing(Advance(cq, k)) /\ Advance(cq, k).posted = cq.posted /\ Advance(cq, k).consumed = cq.consumed + k
    BY <1>a, <2>3, AdvanceKeepsRing
  <2>6. CompletionRing(cq)'
    BY <2>1, <2>5
  <2>7. cq'.posted = cq.posted /\ cq'.consumed = cq.consumed + k
    BY <2>1, <2>5
  <2>8. Batch' /\ SeenInOrder'
    BY <1>a, <1>b, <2>1, <2>3, <2>4, <2>7 DEF Batch, SeenInOrder
  <2> QED BY <2>6, <2>8 DEF Completions
<1>7. CASE Open
  <2>1. CompletionRing(cq)'
    BY <1>a, <1>7 DEF Open, CompletionRing, Entry
  <2> QED BY <1>a, <1>7, <2>1 DEF Open, Completions, Batch, SeenInOrder, Entry
<1>8. CASE Close
  BY <1>2, <1>8 DEF Close
<1>9. CASE RegisterFails
  <2>1. cq' = cq /\ (pc' = pc \/ pc' = "exit") /\ UNCHANGED <<n, i, call, seen>>
    BY <1>9 DEF RegisterFails, UserCalls
  <2> QED BY <1>1, <1>2, <2>1 DEF dispVars
<1>11. CASE User /\ ~Open /\ ~Close /\ ~RegisterFails
  <2>1. ASSUME NEW op, UserRuns(op) PROVE UNCHANGED <<cq, dispVars>>
    BY <2>1 DEF UserRuns, UserCalls, dispVars
  <2>2. \E op : UserRuns(op)
    BY <1>11, Zenon DEF User, SubmitAccept, CancelByFd, CancelWrite, SubmitRead, SubmitWrite,
           SubmitReadGroup, Submit, CreateTimer, CloseTimer, UnregisterRingBuffer, RegisterRingBuffer
  <2> QED BY <1>1, <2>1, <2>2
<1>10. CASE UNCHANGED vars
  BY <1>1, <1>10 DEF vars
<1> QED BY <1>3, <1>4, <1>5, <1>6, <1>7, <1>8, <1>9, <1>10, <1>11 DEF Next, Dispatch

(* The entry dispatch reads is the first it has not handled. *)
LEMMA CompletionsInOrder == Completions => (cq.posted < CqMod => EachCompletionOnce)
<1> SUFFICES ASSUME Completions, cq.posted < CqMod PROVE EachCompletionOnce
  OBVIOUS
<1>1. CompletionRing(cq) /\ Batch /\ SeenInOrder
  BY DEF Completions
<1>2. cq.posted \in Nat /\ cq.consumed \in Nat /\ i \in Nat /\ n \in Nat
  BY <1>1 DEF CompletionRing, Batch
<1>3. ASSUME i < n PROVE Entry(cq, cq.consumed + i).id = seen /\ GetCqe(cq, i) = Entry(cq, cq.consumed + i)
  <2>1. cq.consumed + i \in cq.consumed..cq.posted - 1
    BY <1>1, <1>2, <1>3 DEF Batch
  <2> QED BY <1>1, <1>2, <2>1, GetCqeIsEntry DEF CompletionRing, SeenInOrder
<1> QED BY <1>1, <1>2, <1>3, RingAssumption DEF EachCompletionOnce, Batch, SeenInOrder, CompletionRing

(* dispatch handles every completion once and in the order the kernel posted *)
(* them, for every ring size and every interleaving, as long as the          *)
(* counters of the completion ring have not wrapped: cq_consume compares     *)
(* wrapped positions, and across a wrap gives back all that is ready.        *)
THEOREM CompletionsOnce == Spec => [](cq.posted < CqMod => EachCompletionOnce)
<1>1. Init => Completions
  BY InitCompletions
<1>2. Completions /\ [Next]_vars => Completions'
  BY StepCompletions
<1>3. Completions => (cq.posted < CqMod => EachCompletionOnce)
  BY CompletionsInOrder
<1> QED BY <1>1, <1>2, <1>3, PTL DEF Spec

-----------------------------------------------------------------------------
(* Provided buffers. *)

(* The completions dispatch has not finished with that name a buffer *)
Waiting == {k \in cq.consumed + i..cq.posted - 1 : Entry(cq, k).buf # Null}

(* buffers_ and the next group *)
Table == buffers \in Seq([grp : Nat, base : BOOLEAN]) /\ group_id \in Nat

(* The kernel's lists hold buffers of their own group *)
Listed ==
    /\ Table
    /\ pbuf = [g \in DOMAIN pbuf |-> pbuf[g]]
    /\ \A g \in DOMAIN pbuf :
          /\ g \in 0..group_id - 1 /\ pbuf[g] \in Seq(0..Len(buffers) - 1)
          /\ \A m \in DOMAIN pbuf[g] : GroupOf(pbuf[g][m]) = g

(* No two waiting completions name one buffer *)
NamedOnce ==
    /\ \A k \in Waiting : Entry(cq, k).buf \in 0..Len(buffers) - 1
    /\ \A j, k \in Waiting : Entry(cq, j).buf = Entry(cq, k).buf => j = k

(* A listed buffer is listed once and not named *)
ListedOnce ==
    \A g \in DOMAIN pbuf : \A m \in DOMAIN pbuf[g] :
        /\ \A k \in Waiting : Entry(cq, k).buf # pbuf[g][m]
        /\ \A h \in DOMAIN pbuf : \A l \in DOMAIN pbuf[h] : pbuf[g][m] = pbuf[h][l] => g = h /\ m = l

(* The inductive invariant of the provided buffers, beside Completions *)
Buffers == Listed /\ NamedOnce /\ ListedOnce

(* A completion taken off the list of the waiting ones changes nothing else. *)
LEMMA FewerWaiting ==
    ASSUME Buffers, UNCHANGED <<pbuf, buffers, group_id>>,
           \A k \in Waiting' : k \in Waiting /\ Entry(cq, k)' = Entry(cq, k)
    PROVE  Buffers'
<1>1. Listed'
  BY DEF Buffers, Listed, Table, GroupOf
<1>2. NamedOnce'
  BY DEF Buffers, NamedOnce
<1>3. ListedOnce'
  BY DEF Buffers, ListedOnce
<1> QED BY <1>1, <1>2, <1>3 DEF Buffers

(* Grown, and none of the new completions names a buffer *)
GrownWithout(c, d) == Grown(c, d) /\ \A k \in c.posted..d.posted - 1 : Entry(d, k).buf = Null

(* Posting a completion without a buffer. *)
LEMMA PostWithout ==
    ASSUME NEW c, CompletionRing(c), ~CqFull(c), NEW e, e.buf = Null
    PROVE  GrownWithout(c, Post(c, e))
<1>1. Grown(c, Post(c, e))
  BY PostGrows
<1>2. c.posted \in Nat
  BY DEF CompletionRing
<1>3. Post(c, e).posted = c.posted + 1 /\ Entry(Post(c, e), c.posted).buf = Null
  BY PostKeepsRing
<1>4. ASSUME NEW k \in c.posted..Post(c, e).posted - 1 PROVE k = c.posted
  BY <1>2, <1>3
<1> QED BY <1>1, <1>3, <1>4 DEF GrownWithout

(* A receive completes with the first buffer of a group *)
Receives ==
    \E g \in DOMAIN pbuf :
        /\ pbuf[g] # <<>> /\ pbuf' = [pbuf EXCEPT ![g] = Tail(pbuf[g])]
        /\ Grown(cq, cq') /\ cq'.posted = cq.posted + 1
        /\ Entry(cq', cq.posted).buf = Head(pbuf[g])

(* The kernel takes a buffer with a receive only. *)
LEMMA KernelTakes ==
    ASSUME CompletionRing(cq), Kernel
    PROVE  /\ UNCHANGED <<buffers, group_id, i>>
           /\ (GrownWithout(cq, cq') /\ UNCHANGED pbuf) \/ Receives
<1>1. PICK r \in inflight : \/ KernelDone(r) \/ KernelShot(r, TRUE) \/ KernelShot(r, FALSE)
                            \/ KernelNoBuffer(r) \/ KernelCancel(r)
  BY DEF Kernel
<1>2. ~CqFull(cq) /\ UNCHANGED <<buffers, group_id, i>>
  BY <1>1 DEF KernelDone, KernelShot, KernelNoBuffer, KernelCancel, KernelStep, userVars, dispVars
<1>3. ASSUME NEW res, NEW more, NEW q, cq' = Post(cq, Reply(q, res, more, Null)), UNCHANGED pbuf
      PROVE  GrownWithout(cq, cq') /\ UNCHANGED pbuf
  BY <1>2, <1>3, PostWithout DEF Reply
<1>4. CASE KernelDone(r) \/ KernelNoBuffer(r)
  BY <1>2, <1>3, <1>4 DEF KernelDone, KernelNoBuffer, Finish
<1>5. ASSUME NEW more, KernelShot(r, more)
      PROVE  (GrownWithout(cq, cq') /\ UNCHANGED pbuf) \/ Receives
  <2>1. CASE r.op # "recv"
    BY <1>3, <1>5, <2>1 DEF KernelShot
  <2>2. CASE r.op = "recv"
    <3> DEFINE g == r.arg[1]
               e == Reply(r, 1, more, Head(pbuf[g]))
    <3>1. /\ g \in DOMAIN pbuf /\ pbuf[g] # <<>> /\ cq' = Post(cq, e)
          /\ pbuf' = [pbuf EXCEPT ![g] = Tail(pbuf[g])]
      BY <1>5, <2>2 DEF KernelShot
    <3>2. e.buf = Head(pbuf[g])
      BY DEF Reply
    <3> HIDE DEF e, g
    <3>3. Grown(cq, cq') /\ cq'.posted = cq.posted + 1 /\ Entry(cq', cq.posted).buf = e.buf
      BY <1>2, <3>1, PostKeepsRing, PostGrows
    <3> QED BY <3>1, <3>2, <3>3 DEF Receives
  <2> QED BY <2>1, <2>2
<1>6. CASE KernelCancel(r)
  <2>1. ASSUME NEW q, Finish(q, -1) PROVE (GrownWithout(cq, cq') /\ UNCHANGED pbuf) \/ Receives
    BY <1>2, <1>3, <1>6, <2>1 DEF Finish, KernelCancel
  <2>2. ASSUME NEW e, NEW f, e.buf = Null, f.buf = Null, ~CqFull(Post(cq, e)), cq' = Post(Post(cq, e), f)
        PROVE  GrownWithout(cq, cq')
    <3> DEFINE p == Post(cq, e)
    <3>1. GrownWithout(cq, p)
      BY <1>2, <2>2, PostWithout
    <3>2. CompletionRing(p)
      BY <3>1 DEF GrownWithout, Grown
    <3>3. GrownWithout(p, cq')
      BY <2>2, <3>2, PostWithout
    <3> HIDE DEF p
    <3>4. Grown(cq, cq') /\ cq.posted <= p.posted /\ p.posted <= cq'.posted
      BY <3>1, <3>2, <3>3 DEF GrownWithout, Grown, CompletionRing
    <3>5. cq.posted \in Nat /\ p.posted \in Nat /\ cq'.posted \in Nat /\ p.consumed = cq.consumed
          /\ p.consumed \in Nat /\ cq.consumed <= cq.posted
      BY <3>1, <3>2, <3>4 DEF GrownWithout, Grown, CompletionRing
    <3>6. ASSUME NEW k \in cq.posted..cq'.posted - 1 PROVE Entry(cq', k).buf = Null
      <4>1. CASE k \in p.posted..cq'.posted - 1
        BY <3>3, <4>1 DEF GrownWithout
      <4>2. CASE k \in cq.posted..p.posted - 1
        <5>1. Entry(p, k).buf = Null
          BY <3>1, <4>2 DEF GrownWithout
        <5>2. k \in p.consumed..p.posted - 1
          BY <3>5, <4>2
        <5> QED BY <3>3, <5>1, <5>2 DEF GrownWithout, Grown
      <4> QED BY <3>5, <4>1, <4>2
    <3> QED BY <3>4, <3>6 DEF GrownWithout
  <2>3. UNCHANGED pbuf
    BY <1>6 DEF KernelCancel
  <2>4. ASSUME NEW q, NEW x, ~CqFull(Post(cq, Reply(q, -1, FALSE, Null))),
               cq' = Post(Post(cq, Reply(q, -1, FALSE, Null)), Reply(x, 0, FALSE, Null))
        PROVE  GrownWithout(cq, cq')
    <3>1. Reply(q, -1, FALSE, Null).buf = Null /\ Reply(x, 0, FALSE, Null).buf = Null
      BY DEF Reply
    <3> QED BY <2>2, <2>4, <3>1
  <2>5. CASE \E q \in inflight : /\ ~CqFull(Post(cq, Reply(q, -1, FALSE, Null)))
                                 /\ cq' = Post(Post(cq, Reply(q, -1, FALSE, Null)), Reply(r, 0, FALSE, Null))
    BY <1>2, <2>3, <2>4, <2>5
  <2>6. \/ \E q : Finish(q, -1)
        \/ \E q \in inflight : /\ ~CqFull(Post(cq, Reply(q, -1, FALSE, Null)))
                               /\ cq' = Post(Post(cq, Reply(q, -1, FALSE, Null)), Reply(r, 0, FALSE, Null))
    BY <1>6, Zenon DEF KernelCancel
  <2> QED BY <1>2, <2>1, <2>5, <2>6, Zenon
<1> QED BY <1>1, <1>2, <1>4, <1>5, <1>6

(* The next buffer of a group moves from the list to the new completion. *)
LEMMA ReceiveMovesOne ==
    ASSUME Completions, Buffers, Receives, UNCHANGED <<buffers, group_id, i>>
    PROVE  Buffers'
<1>1. PICK g \in DOMAIN pbuf :
        /\ pbuf[g] # <<>> /\ pbuf' = [pbuf EXCEPT ![g] = Tail(pbuf[g])]
        /\ Grown(cq, cq') /\ cq'.posted = cq.posted + 1
        /\ Entry(cq', cq.posted).buf = Head(pbuf[g])
  BY DEF Receives
<1>2. /\ cq.posted \in Nat /\ cq.consumed \in Nat /\ i \in Nat /\ cq.consumed <= cq.posted
      /\ cq'.consumed = cq.consumed /\ i <= cq.posted - cq.consumed
  BY <1>1 DEF Completions, Batch, CompletionRing, Grown
<1>3. Listed /\ NamedOnce /\ ListedOnce
  BY DEF Buffers
<1> DEFINE s == pbuf[g]
           t == pbuf'[g]
           b == Head(s)
<1>4. s \in Seq(0..Len(buffers) - 1) /\ s # <<>>
  BY <1>1, <1>3 DEF Listed, Table
<1>5. 1 \in DOMAIN s /\ b = s[1]
  BY <1>4
<1>6. /\ DOMAIN pbuf' = DOMAIN pbuf /\ t = Tail(s) /\ t \in Seq(0..Len(buffers) - 1)
      /\ \A h \in DOMAIN pbuf : h # g => pbuf'[h] = pbuf[h]
      /\ pbuf' = [h \in DOMAIN pbuf' |-> pbuf'[h]]
  <2>1. pbuf' = [h \in DOMAIN pbuf |-> IF h = g THEN Tail(s) ELSE pbuf[h]]
    BY <1>1, <1>3 DEF Listed, Table
  <2>2. Tail(s) \in Seq(0..Len(buffers) - 1)
    BY <1>4
  <2> QED BY <2>1, <2>2
<1>7. \A m \in DOMAIN t : m \in Nat /\ m + 1 \in DOMAIN s /\ t[m] = s[m + 1] /\ m + 1 # 1
  BY <1>4, <1>6
<1>8. \A h \in DOMAIN pbuf : \A m \in DOMAIN pbuf'[h] :
          \E l \in DOMAIN pbuf[h] : /\ pbuf'[h][m] = pbuf[h][l]
                                    /\ l = (IF h = g THEN m + 1 ELSE m)
                                    /\ ~(h = g /\ l = 1)
  BY <1>6, <1>7
<1>9. ASSUME NEW k \in Waiting' PROVE \/ k = cq.posted /\ Entry(cq', k).buf = b
                                      \/ k \in Waiting /\ Entry(cq', k) = Entry(cq, k)
  <2>1. k \in cq.consumed + i..cq.posted /\ Entry(cq', k).buf # Null
    BY <1>1, <1>2 DEF Waiting
  <2>2. CASE k = cq.posted
    BY <1>1, <2>2
  <2>3. CASE k \in cq.consumed + i..cq.posted - 1
    <3>1. Entry(cq', k) = Entry(cq, k)
      BY <1>1, <1>2, <2>3 DEF Grown
    <3> QED BY <2>1, <2>3, <3>1 DEF Waiting
  <2> QED BY <1>2, <2>1, <2>2, <2>3
<1> HIDE DEF s, t, b
<1>10. Listed'
  <2>1. \A h \in DOMAIN pbuf' : pbuf'[h] \in Seq(0..Len(buffers) - 1)
    BY <1>3, <1>6 DEF Listed, Table, t
  <2>2. \A h \in DOMAIN pbuf' : \A m \in DOMAIN pbuf'[h] : GroupOf(pbuf'[h][m]) = h
    BY <1>3, <1>6, <1>8 DEF Listed, Table
  <2> QED BY <1>3, <1>6, <2>1, <2>2 DEF Listed, Table, GroupOf
<1>11. b \in 0..Len(buffers) - 1 /\ \A k \in Waiting : Entry(cq, k).buf # b
  BY <1>3, <1>4, <1>5 DEF Listed, Table, ListedOnce, s
<1>12. NamedOnce'
  BY <1>3, <1>9, <1>11 DEF NamedOnce
<1>13. \A h \in DOMAIN pbuf : \A m \in DOMAIN pbuf'[h] : pbuf'[h][m] # b
  BY <1>3, <1>5, <1>8 DEF ListedOnce, s
<1>14. ListedOnce'
  <2> SUFFICES ASSUME NEW h \in DOMAIN pbuf, NEW m \in DOMAIN pbuf'[h]
               PROVE  /\ \A k \in Waiting' : Entry(cq', k).buf # pbuf'[h][m]
                      /\ \A x \in DOMAIN pbuf : \A l \in DOMAIN pbuf'[x] :
                            pbuf'[h][m] = pbuf'[x][l] => h = x /\ m = l
    BY <1>6 DEF ListedOnce
  <2>1. \A k \in Waiting' : Entry(cq', k).buf # pbuf'[h][m]
    BY <1>3, <1>8, <1>9, <1>13 DEF ListedOnce
  <2>2. ASSUME NEW x \in DOMAIN pbuf, NEW l \in DOMAIN pbuf'[x], pbuf'[h][m] = pbuf'[x][l]
        PROVE  h = x /\ m = l
    <3>1. PICK a \in DOMAIN pbuf[h] : pbuf'[h][m] = pbuf[h][a] /\ a = (IF h = g THEN m + 1 ELSE m)
      BY <1>8
    <3>2. PICK c \in DOMAIN pbuf[x] : pbuf'[x][l] = pbuf[x][c] /\ c = (IF x = g THEN l + 1 ELSE l)
      BY <1>8
    <3>3. h = x /\ a = c
      <4>1. pbuf[h][a] = pbuf[x][c]
        BY <2>2, <3>1, <3>2
      <4> QED BY <1>3, <4>1 DEF ListedOnce
    <3>4. h = g => m \in Nat /\ l \in Nat
      BY <1>7, <3>3 DEF t
    <3> QED BY <3>1, <3>2, <3>3, <3>4
  <2> QED BY <2>1, <2>2
<1> QED BY <1>10, <1>12, <1>14 DEF Buffers

(* The buffer of completion c goes back to the list of its group *)
GivesBack(c) ==
    /\ c.buf # Null /\ GroupOf(c.buf) \in DOMAIN pbuf
    /\ pbuf' = [pbuf EXCEPT ![GroupOf(c.buf)] = Append(pbuf[GroupOf(c.buf)], c.buf)]

(* Only the end of an entry's turn gives a buffer back. *)
LEMMA TurnGivesBack ==
    ASSUME NEW c, NEW keep, AfterCallback(c, keep)
    PROVE  \/ UNCHANGED <<pbuf, i>>
           \/ i' = i + 1 /\ (UNCHANGED pbuf \/ GivesBack(c))
<1>1. CASE Exit
  BY <1>1 DEF Exit, kernVars
<1>2. CASE NextEntry /\ UNCHANGED pbuf
  BY <1>2 DEF NextEntry
<1>3. CASE NextEntry /\ c.buf # Null /\ GroupOf(c.buf) \in DOMAIN pbuf /\ ReAdd(c.buf)
  BY <1>3 DEF NextEntry, ReAdd, GivesBack
<1> QED BY <1>1, <1>2, <1>3 DEF AfterCallback

(* It is the buffer of the entry whose turn it is. *)
LEMMA EntryGivesBack ==
    ASSUME Completions, DispatchEntry \/ CallbackReturns
    PROVE  /\ UNCHANGED <<buffers, group_id, cq>>
           /\ \/ UNCHANGED <<pbuf, i>>
              \/ i' = i + 1 /\ UNCHANGED pbuf
              \/ i < n /\ i' = i + 1 /\ GivesBack(Entry(cq, cq.consumed + i))
<1>1. CompletionRing(cq) /\ Batch /\ i \in Nat
  BY DEF Completions, Batch
<1>2. CASE CallbackReturns
  <2>1. i < n /\ call.cqe = Entry(cq, cq.consumed + i) /\ UNCHANGED <<buffers, group_id, cq>>
    BY <1>1, <1>2 DEF CallbackReturns, Batch
  <2>2. CASE Exit
    BY <2>1, <2>2 DEF Exit, kernVars
  <2>3. CASE \E keep : AfterCallback(call.cqe, keep)
    BY <2>1, <2>3, TurnGivesBack
  <2> QED BY <1>2, <2>2, <2>3 DEF CallbackReturns
<1>3. CASE DispatchEntry
  <2> DEFINE c == GetCqe(cq, i)
  <2>1. UNCHANGED <<buffers, group_id, cq>> /\ i < n /\ c = Entry(cq, cq.consumed + i)
    BY <1>1, <1>3, GetCqeIsEntry DEF DispatchEntry
  <2>2. CASE NextEntry /\ UNCHANGED kernVars
    BY <2>1, <2>2 DEF NextEntry, kernVars
  <2>3. CASE Exit
    BY <2>1, <2>3 DEF Exit, kernVars
  <2>4. CASE AfterCallback(c, Usable(c))
    BY <2>1, <2>4, TurnGivesBack
  <2>5. CASE CallBack(c)
    BY <2>1, <2>3, <2>5 DEF CallBack
  <2> QED BY <1>3, <2>2, <2>3, <2>4, <2>5 DEF DispatchEntry
<1> QED BY <1>2, <1>3

(* When dispatch is done with a completion its buffer moves back to the end  *)
(* of the list of its group.                                                 *)
LEMMA GivingBackMovesOne ==
    ASSUME Completions, Buffers, i < n, i' = i + 1, GivesBack(Entry(cq, cq.consumed + i)),
           UNCHANGED <<buffers, group_id, cq>>
    PROVE  Buffers'
<1> DEFINE k0 == cq.consumed + i
           b == Entry(cq, k0).buf
           g == GroupOf(b)
           s == pbuf[g]
           t == pbuf'[g]
<1>1. /\ cq.posted \in Nat /\ cq.consumed \in Nat /\ i \in Nat /\ n \in Nat
      /\ n <= cq.posted - cq.consumed
  BY DEF Completions, Batch, CompletionRing
<1>2. Listed /\ NamedOnce /\ ListedOnce
  BY DEF Buffers
<1>3. k0 \in Waiting /\ g \in DOMAIN pbuf
  BY <1>1 DEF GivesBack, Waiting
<1>4. b \in 0..Len(buffers) - 1
  BY <1>2, <1>3 DEF NamedOnce
<1>5. \A k \in Waiting' : k \in Waiting /\ k # k0
  BY <1>1 DEF Waiting
<1>6. s \in Seq(0..Len(buffers) - 1)
  BY <1>2, <1>3 DEF Listed, Table
<1>7. /\ DOMAIN pbuf' = DOMAIN pbuf /\ t = Append(s, b) /\ t \in Seq(0..Len(buffers) - 1)
      /\ \A h \in DOMAIN pbuf : h # g => pbuf'[h] = pbuf[h]
      /\ pbuf' = [h \in DOMAIN pbuf' |-> pbuf'[h]]
  <2>1. pbuf' = [h \in DOMAIN pbuf |-> IF h = g THEN Append(s, b) ELSE pbuf[h]]
    BY <1>2 DEF Listed, Table, GivesBack
  <2>2. Append(s, b) \in Seq(0..Len(buffers) - 1)
    BY <1>4, <1>6
  <2> HIDE DEF g, b, s
  <2> QED BY <1>3, <2>1, <2>2
<1> DEFINE last0 == Len(s) + 1
<1>8. \A m \in DOMAIN t : (m \in DOMAIN s /\ t[m] = s[m]) \/ (m = last0 /\ t[m] = b)
  BY <1>4, <1>6, <1>7
<1>9. Entry(cq, k0).buf = b
  OBVIOUS
<1>10. GroupOf(b) = g
  OBVIOUS
<1> HIDE DEF k0, b, g, s, t, last0
<1>11. \A h \in DOMAIN pbuf : \A m \in DOMAIN pbuf'[h] :
          (m \in DOMAIN pbuf[h] /\ pbuf'[h][m] = pbuf[h][m]) \/ (h = g /\ m = last0 /\ pbuf'[h][m] = b)
  BY <1>7, <1>8 DEF s, t
<1>12. \A h \in DOMAIN pbuf : \A m \in DOMAIN pbuf[h] : pbuf[h][m] # b
  BY <1>2, <1>3, <1>9 DEF ListedOnce
<1>13. Listed'
  <2>1. \A h \in DOMAIN pbuf' : pbuf'[h] \in Seq(0..Len(buffers) - 1)
    BY <1>2, <1>7 DEF Listed, Table, t
  <2>2. \A h \in DOMAIN pbuf' : \A m \in DOMAIN pbuf'[h] : GroupOf(pbuf'[h][m]) = h
    <3> SUFFICES ASSUME NEW h \in DOMAIN pbuf, NEW m \in DOMAIN pbuf'[h] PROVE GroupOf(pbuf'[h][m]) = h
      BY <1>7
    <3>1. CASE m \in DOMAIN pbuf[h] /\ pbuf'[h][m] = pbuf[h][m]
      BY <1>2, <3>1 DEF Listed, Table
    <3>2. CASE h = g /\ pbuf'[h][m] = b
      BY <1>10, <3>2
    <3> QED BY <1>11, <3>1, <3>2
  <2> QED BY <1>2, <1>7, <2>1, <2>2 DEF Listed, Table, GroupOf
<1>14. NamedOnce'
  BY <1>2, <1>5 DEF NamedOnce
<1>15. ListedOnce'
  <2> SUFFICES ASSUME NEW h \in DOMAIN pbuf, NEW m \in DOMAIN pbuf'[h]
               PROVE  /\ \A k \in Waiting' : Entry(cq, k).buf # pbuf'[h][m]
                      /\ \A x \in DOMAIN pbuf : \A l \in DOMAIN pbuf'[x] :
                            pbuf'[h][m] = pbuf'[x][l] => h = x /\ m = l
    BY <1>7 DEF ListedOnce
  <2>1. \A k \in Waiting' : Entry(cq, k).buf # pbuf'[h][m]
    BY <1>2, <1>3, <1>5, <1>9, <1>11 DEF ListedOnce, NamedOnce
  <2>2. ASSUME NEW x \in DOMAIN pbuf, NEW l \in DOMAIN pbuf'[x], pbuf'[h][m] = pbuf'[x][l]
        PROVE  h = x /\ m = l
    BY <1>2, <1>11, <1>12, <2>2 DEF ListedOnce
  <2> QED BY <2>1, <2>2
<1> QED BY <1>13, <1>14, <1>15 DEF Buffers

(* A new group lengthens buffers_. *)
LEMMA RegisterGrowsTable ==
    ASSUME Table, NEW count, RegisterRingBuffer(count)
    PROVE  /\ Table' /\ count \in Nat /\ Len(buffers') = Len(buffers) + count
           /\ \A b \in 0..Len(buffers) - 1 : buffers'[b + 1] = buffers[b + 1]
           /\ \A b \in Len(buffers)..Len(buffers) + count - 1 : buffers'[b + 1].grp = group_id
<1> DEFINE L == Len(buffers)
           new == [k \in 1..count |-> [grp |-> group_id, base |-> TRUE]]
<1>2. buffers \in Seq([grp : Nat, base : BOOLEAN]) /\ group_id \in Nat /\ L \in Nat
  BY DEF Table
<1>3. count \in Nat
  <2>1. PICK e \in 0..count : count = 2^e
    BY Zenon DEF RegisterRingBuffer
  <2>2. e \in Nat
    BY <2>1
  <2> QED BY <2>1, <2>2
<1>4. buffers' = buffers \o new /\ group_id' = group_id + 1
  BY DEF RegisterRingBuffer
<1>5. new \in Seq([grp : Nat, base : BOOLEAN]) /\ Len(new) = count
  BY <1>2, <1>3
<1>6. /\ buffers' \in Seq([grp : Nat, base : BOOLEAN]) /\ Len(buffers') = L + count
      /\ \A b \in 0..L - 1 : buffers'[b + 1] = buffers[b + 1]
      /\ \A b \in L..L + count - 1 : buffers'[b + 1] = new[b + 1 - L]
  <2> DEFINE R == [grp : Nat, base : BOOLEAN]
  <2>1. buffers \in Seq(R) /\ new \in Seq(R) /\ Len(new) = count /\ buffers' = buffers \o new
    BY <1>2, <1>4, <1>5
  <2> HIDE DEF new, R
  <2>2. buffers' \in Seq(R) /\ Len(buffers') = L + count
    BY <2>1
  <2>3. \A k \in 1..L : buffers'[k] = buffers[k]
    BY <1>2, <1>3, <2>1
  <2>4. \A k \in 1..count : buffers'[k + L] = new[k]
    BY <1>2, <1>3, <2>1
  <2>5. ASSUME NEW b \in L..L + count - 1 PROVE buffers'[b + 1] = new[b + 1 - L]
    <3>1. b + 1 - L \in 1..count /\ (b + 1 - L) + L = b + 1
      BY <1>2, <1>3
    <3> QED BY <2>4, <3>1
  <2>6. \A b \in 0..L - 1 : buffers'[b + 1] = buffers[b + 1]
    BY <1>2, <2>3
  <2> QED BY <2>2, <2>5, <2>6 DEF R
<1>7. \A b \in L..L + count - 1 : buffers'[b + 1].grp = group_id
  BY <1>2, <1>3, <1>6
<1> HIDE DEF new
<1>8. Table'
  BY <1>2, <1>4, <1>6 DEF Table
<1> QED BY <1>3, <1>6, <1>7, <1>8

(* The buffers of a new group have numbers no other buffer has, while 16     *)
(* bits are enough for all.                                                  *)
LEMMA RegisterAddsFresh ==
    ASSUME Completions, Buffers, NEW count, RegisterRingBuffer(count), Len(buffers') <= IdMod
    PROVE  Buffers'
<1> DEFINE L == Len(buffers)
           t == [k \in 1..count |-> (L + k - 1) % IdMod]
<1>1. Listed /\ NamedOnce /\ ListedOnce /\ Table
  BY DEF Buffers, Listed
<1>2. buffers \in Seq([grp : Nat, base : BOOLEAN]) /\ group_id \in Nat /\ L \in Nat
  BY <1>1 DEF Table
<1>3. count \in Nat
  BY DEF RegisterRingBuffer
<1>4. /\ group_id' = group_id + 1 /\ UNCHANGED <<cq, i>>
      /\ pbuf' = [g \in DOMAIN pbuf \cup {group_id} |-> IF g = group_id THEN t ELSE pbuf[g]]
  BY DEF RegisterRingBuffer, UserRuns, UserCalls
<1>5. \A m \in 1..count : (L + m - 1) % IdMod = L + m - 1
  <2>1. Len(buffers') = L + count
    BY <1>1, RegisterGrowsTable
  <2>2. ASSUME NEW m \in 1..count PROVE (L + m - 1) % IdMod = L + m - 1
    <3> DEFINE x == L + m - 1
    <3>1. IdMod \in Nat \ {0} /\ x \in 0..IdMod - 1
      BY <1>2, <1>3, <2>1, BoundAssumption
    <3> HIDE DEF x
    <3>2. x % IdMod = x
      BY <3>1
    <3> QED BY <3>2 DEF x
  <2> QED BY <2>2
<1>6. /\ buffers' \in Seq([grp : Nat, base : BOOLEAN]) /\ Len(buffers') = L + count
      /\ \A b \in 0..L - 1 : buffers'[b + 1] = buffers[b + 1]
  BY <1>1, RegisterGrowsTable DEF Table
<1>7. /\ t \in Seq(0..L + count - 1) /\ DOMAIN t = 1..count
      /\ \A m \in 1..count : t[m] = L + m - 1
  <2>1. t = [m \in 1..count |-> L + m - 1]
    BY <1>5
  <2> HIDE DEF t
  <2> QED BY <1>2, <1>3, <2>1
<1>8. \A b \in L..L + count - 1 : buffers'[b + 1].grp = group_id
  BY <1>1, RegisterGrowsTable
<1> HIDE DEF t
<1>9. group_id \notin DOMAIN pbuf
  BY <1>1, <1>2 DEF Listed, Table
<1>10. \A b \in 0..L - 1 : buffers'[b + 1].grp = GroupOf(b)
  BY <1>6 DEF GroupOf
<1>12. /\ DOMAIN pbuf' = DOMAIN pbuf \cup {group_id} /\ pbuf'[group_id] = t
       /\ \A g \in DOMAIN pbuf : pbuf'[g] = pbuf[g]
       /\ pbuf' = [g \in DOMAIN pbuf' |-> pbuf'[g]]
  BY <1>4, <1>9
<1>13. \A g \in DOMAIN pbuf : pbuf[g] \in Seq(0..L - 1) /\ g \in 0..group_id - 1
  BY <1>1 DEF Listed, Table
<1>14. \A g \in DOMAIN pbuf : \A m \in DOMAIN pbuf[g] : pbuf[g][m] \in 0..L - 1
  BY <1>13
<1>15. \A m \in DOMAIN t : t[m] \in L..L + count - 1
  BY <1>2, <1>3, <1>7
<1>16. Listed'
  <2>1. \A g \in DOMAIN pbuf' : g \in 0..group_id' - 1
    BY <1>2, <1>4, <1>12, <1>13
  <2>2. \A g \in DOMAIN pbuf' : pbuf'[g] \in Seq(0..Len(buffers') - 1)
    <3>1. ASSUME NEW g \in DOMAIN pbuf PROVE pbuf[g] \in Seq(0..L + count - 1)
      <4> DEFINE A == 0..L - 1
                 B == 0..L + count - 1
      <4>1. A \subseteq B /\ pbuf[g] \in Seq(A)
        BY <1>2, <1>3, <1>13, <3>1
      <4> HIDE DEF A, B
      <4>2. pbuf[g] \in Seq(B)
        BY <4>1, SeqMonotonic
      <4> QED BY <4>2 DEF B
    <3>2. Len(buffers') = L + count /\ t \in Seq(0..L + count - 1)
      BY <1>6, <1>7
    <3>3. ASSUME NEW g \in DOMAIN pbuf' PROVE pbuf'[g] \in Seq(0..L + count - 1)
      <4>1. CASE g = group_id
        BY <1>12, <3>2, <4>1
      <4>2. CASE g \in DOMAIN pbuf
        <5>1. pbuf'[g] = pbuf[g]
          BY <1>12, <4>2
        <5> QED BY <3>1, <4>2, <5>1
      <4> QED BY <1>12, <4>1, <4>2
    <3>4. \A g \in DOMAIN pbuf' : pbuf'[g] \in Seq(0..L + count - 1)
      BY <3>3
    <3>5. Seq(0..L + count - 1) = Seq(0..Len(buffers') - 1)
      <4>1. L + count - 1 = Len(buffers') - 1
        BY <1>2, <1>3, <3>2
      <4> QED BY <4>1, Zenon
    <3> QED BY <3>4, <3>5, Zenon
  <2>3. ASSUME NEW g \in DOMAIN pbuf', NEW m \in DOMAIN pbuf'[g] PROVE buffers'[pbuf'[g][m] + 1].grp = g
    <3>1. CASE g = group_id
      BY <1>8, <1>12, <1>15, <3>1
    <3>2. CASE g \in DOMAIN pbuf
      <4>1. pbuf'[g][m] = pbuf[g][m] /\ m \in DOMAIN pbuf[g] /\ GroupOf(pbuf[g][m]) = g
        BY <1>1, <1>12, <3>2 DEF Listed, Table
      <4> QED BY <1>10, <1>14, <3>2, <4>1
    <3> QED BY <1>12, <3>1, <3>2
  <2>4. buffers' \in Seq([grp : Nat, base : BOOLEAN]) /\ group_id' \in Nat
    BY <1>2, <1>4, <1>6
  <2> QED BY <1>12, <2>1, <2>2, <2>3, <2>4 DEF Listed, Table, GroupOf
<1>17. Waiting' = Waiting /\ \A k : Entry(cq, k)' = Entry(cq, k)
  BY <1>4 DEF Waiting, Entry
<1>18. NamedOnce'
  BY <1>1, <1>2, <1>3, <1>6, <1>17 DEF NamedOnce
<1>19. ListedOnce'
  <2> SUFFICES ASSUME NEW h \in DOMAIN pbuf', NEW m \in DOMAIN pbuf'[h]
               PROVE  /\ \A k \in Waiting : Entry(cq, k).buf # pbuf'[h][m]
                      /\ \A x \in DOMAIN pbuf' : \A l \in DOMAIN pbuf'[x] :
                            pbuf'[h][m] = pbuf'[x][l] => h = x /\ m = l
    BY <1>17 DEF ListedOnce
  <2>1. \A k \in Waiting : Entry(cq, k).buf \in 0..L - 1
    BY <1>1 DEF NamedOnce
  <2>2. CASE h = group_id
    <3>1. m \in DOMAIN t /\ pbuf'[h][m] = t[m] /\ t[m] \in L..L + count - 1
      BY <1>12, <1>15, <2>2
    <3>2. \A k \in Waiting : Entry(cq, k).buf # pbuf'[h][m]
      BY <1>2, <1>3, <2>1, <3>1
    <3>3. ASSUME NEW x \in DOMAIN pbuf', NEW l \in DOMAIN pbuf'[x], pbuf'[h][m] = pbuf'[x][l]
          PROVE  h = x /\ m = l
      <4>1. CASE x = group_id
        BY <1>2, <1>3, <1>7, <1>12, <2>2, <3>1, <3>3, <4>1
      <4>2. CASE x \in DOMAIN pbuf
        <5>1. pbuf'[x][l] \in 0..L - 1
          BY <1>12, <1>14, <4>2
        <5> QED BY <1>2, <1>3, <3>1, <3>3, <5>1
      <4> QED BY <1>12, <4>1, <4>2
    <3> QED BY <3>2, <3>3
  <2>3. CASE h \in DOMAIN pbuf
    <3>1. m \in DOMAIN pbuf[h] /\ pbuf'[h][m] = pbuf[h][m] /\ pbuf[h][m] \in 0..L - 1
      BY <1>12, <1>14, <2>3
    <3>2. \A k \in Waiting : Entry(cq, k).buf # pbuf'[h][m]
      BY <1>1, <2>3, <3>1 DEF ListedOnce
    <3>3. ASSUME NEW x \in DOMAIN pbuf', NEW l \in DOMAIN pbuf'[x], pbuf'[h][m] = pbuf'[x][l]
          PROVE  h = x /\ m = l
      <4>1. CASE x = group_id
        <5>1. pbuf'[x][l] \in L..L + count - 1
          BY <1>12, <1>15, <4>1
        <5> QED BY <1>2, <1>3, <3>1, <3>3, <5>1
      <4>2. CASE x \in DOMAIN pbuf
        <5>1. l \in DOMAIN pbuf[x] /\ pbuf[h][m] = pbuf[x][l]
          BY <1>12, <3>1, <3>3, <4>2
        <5> QED BY <1>1, <2>3, <3>1, <4>2, <5>1 DEF ListedOnce
      <4> QED BY <1>12, <4>1, <4>2
    <3> QED BY <3>2, <3>3
  <2> QED BY <1>12, <2>2, <2>3
<1> QED BY <1>16, <1>18, <1>19 DEF Buffers

(* Forgetting a group leaves its buffers where they are in buffers_. *)
LEMMA UnregisterKeepsTable ==
    ASSUME Table, NEW u, UnregisterRingBuffer(u)
    PROVE  /\ Table' /\ Len(buffers') = Len(buffers)
           /\ \A k \in DOMAIN buffers : buffers'[k].grp = buffers[k].grp
<1>0. PICK b : buffers' = [buffers EXCEPT ![b].base = FALSE] /\ group_id' = group_id
  BY DEF UnregisterRingBuffer
<1>1. buffers \in Seq([grp : Nat, base : BOOLEAN])
  BY DEF Table
<1>2. CASE b \notin DOMAIN buffers
  <2>1. buffers = [k \in DOMAIN buffers |-> buffers[k]]
    BY <1>1
  <2>2. buffers' = buffers
    BY <1>0, <1>2, <2>1
  <2> QED BY <1>0, <2>2 DEF Table
<1>3. CASE b \in DOMAIN buffers
  <2> DEFINE r == [buffers[b] EXCEPT !.base = FALSE]
             R == [grp : Nat, base : BOOLEAN]
  <2>1. buffers \in Seq(R)
    BY <1>1
  <2>2. buffers[b] \in R
    <3> HIDE DEF R
    <3> QED BY <1>3, <2>1
  <2>3. r \in R /\ r.grp = buffers[b].grp
    BY <2>2
  <2>4. buffers' = [buffers EXCEPT ![b] = r]
    BY <1>0
  <2> HIDE DEF r, R
  <2>5. buffers' \in Seq(R) /\ Len(buffers') = Len(buffers)
    BY <1>3, <2>1, <2>3, <2>4
  <2>6. \A k \in DOMAIN buffers : buffers'[k].grp = buffers[k].grp
    BY <1>3, <2>3, <2>4
  <2> QED BY <1>0, <2>5, <2>6 DEF R, Table
<1> QED BY <1>2, <1>3
(* What is left of the lists when the kernel forgets a group. *)
LEMMA UnregisterForgets ==
    ASSUME Completions, Buffers, NEW u, UnregisterRingBuffer(u)
    PROVE  Buffers'
<1>1. Listed /\ NamedOnce /\ ListedOnce /\ Table
  BY DEF Buffers, Listed
<1>3. pbuf' = [g \in DOMAIN pbuf \ {u} |-> pbuf[g]] /\ UNCHANGED <<group_id, cq, i>>
  BY DEF UnregisterRingBuffer, UserRuns, UserCalls, Without, Restrict
<1>4. /\ buffers' \in Seq([grp : Nat, base : BOOLEAN]) /\ Len(buffers') = Len(buffers)
      /\ \A k \in DOMAIN buffers : buffers'[k].grp = buffers[k].grp
  BY <1>1, UnregisterKeepsTable DEF Table
<1>5. Waiting' = Waiting /\ \A k : Entry(cq, k)' = Entry(cq, k)
  BY <1>3 DEF Waiting, Entry
<1>6. /\ DOMAIN pbuf' \subseteq DOMAIN pbuf /\ \A g \in DOMAIN pbuf' : pbuf'[g] = pbuf[g]
      /\ pbuf' = [g \in DOMAIN pbuf' |-> pbuf'[g]]
  BY <1>3
<1>7. Listed'
  <2>1. ASSUME NEW g \in DOMAIN pbuf', NEW m \in DOMAIN pbuf'[g] PROVE buffers'[pbuf'[g][m] + 1].grp = g
    <3>1. pbuf'[g][m] = pbuf[g][m] /\ pbuf[g][m] \in 0..Len(buffers) - 1 /\ GroupOf(pbuf[g][m]) = g
      BY <1>1, <1>6 DEF Listed, Table
    <3>2. Len(buffers) \in Nat /\ DOMAIN buffers = 1..Len(buffers)
      BY <1>1 DEF Listed, Table
    <3>3. pbuf[g][m] + 1 \in DOMAIN buffers
      BY <3>1, <3>2
    <3> QED BY <1>4, <3>1, <3>3 DEF GroupOf
  <2>2. \A g \in DOMAIN pbuf' : g \in 0..group_id' - 1 /\ pbuf'[g] \in Seq(0..Len(buffers') - 1)
    BY <1>1, <1>3, <1>4, <1>6 DEF Listed, Table
  <2>3. group_id' \in Nat
    BY <1>1, <1>3 DEF Listed, Table
  <2> QED BY <1>4, <1>6, <2>1, <2>2, <2>3 DEF Listed, Table, GroupOf
<1>8. NamedOnce'
  BY <1>1, <1>4, <1>5 DEF NamedOnce
<1>9. ListedOnce'
  BY <1>1, <1>5, <1>6 DEF ListedOnce
<1> QED BY <1>7, <1>8, <1>9 DEF Buffers

(* Nothing waits and nothing is listed before the first call. *)
LEMMA InitBuffers == Init => Buffers
<1> SUFFICES ASSUME Init PROVE Buffers
  OBVIOUS
<1>1. buffers = <<>> /\ group_id = 0 /\ pbuf = <<>> /\ i = 0 /\ cq.posted = 0 /\ cq.consumed = 0
  BY DEF Init, CqInit
<1>2. Waiting = {}
  BY <1>1 DEF Waiting
<1>3. DOMAIN pbuf = {}
  BY <1>1
<1>4. buffers \in Seq([grp : Nat, base : BOOLEAN])
  BY <1>1, EmptySeq
<1>5. pbuf = [g \in DOMAIN pbuf |-> pbuf[g]]
  BY <1>1
<1> QED BY <1>1, <1>2, <1>3, <1>4, <1>5 DEF Buffers, Listed, Table, NamedOnce, ListedOnce

(* A call other than these leaves the buffers alone, and so does dispatch   *)
(* but for their places.                                                     *)
LEMMA OtherCalls ==
    ASSUME User, ~Open, ~Close, ~RegisterFails,
           ~\E g : UnregisterRingBuffer(g), ~\E count : RegisterRingBuffer(count)
    PROVE  UNCHANGED <<pbuf, buffers, group_id, cq, i>>
<1>1. ASSUME NEW op, UserRuns(op) PROVE UNCHANGED <<cq, i>>
  BY <1>1 DEF UserRuns, UserCalls
<1>2. \E op : UserRuns(op)
  BY Zenon DEF User, SubmitAccept, CancelByFd, CancelWrite, SubmitRead, SubmitWrite,
               SubmitReadGroup, Submit, CreateTimer, CloseTimer
<1>3. UNCHANGED <<pbuf, buffers, group_id>>
  BY DEF User, SubmitAccept, CancelByFd, CancelWrite, SubmitRead, SubmitWrite,
         SubmitReadGroup, Submit, CreateTimer, CloseTimer, userVars
<1> QED BY <1>1, <1>2, <1>3

(* buffers_ never gets shorter. *)
LEMMA StepTable ==
    ASSUME Completions, Table, [Next]_vars
    PROVE  Table' /\ Len(buffers) <= Len(buffers')
<1>1. Len(buffers) \in Nat
  BY DEF Table
<1>2. CASE buffers' = buffers /\ (group_id' = group_id \/ group_id' = group_id + 1)
  BY <1>1, <1>2 DEF Table
<1>3. CASE \E u : UnregisterRingBuffer(u)
  BY <1>1, <1>3, UnregisterKeepsTable
<1>4. CASE \E count : RegisterRingBuffer(count)
  BY <1>1, <1>4, RegisterGrowsTable
<1>5. CASE Open \/ Close \/ RegisterFails \/ DispatchWait \/ DispatchReturns \/ UNCHANGED vars
  BY <1>2, <1>5 DEF Open, Close, RegisterFails, DispatchWait, DispatchReturns, vars, userVars
<1>6. CASE DispatchEntry \/ CallbackReturns
  BY <1>2, <1>6, EntryGivesBack
<1>7. CASE Kernel
  BY <1>2, <1>7, KernelTakes DEF Completions
<1>8. CASE /\ User /\ ~Open /\ ~Close /\ ~RegisterFails
           /\ ~\E u : UnregisterRingBuffer(u)
           /\ ~\E count : RegisterRingBuffer(count)
  BY <1>2, <1>8, OtherCalls
<1> QED BY <1>3, <1>4, <1>5, <1>6, <1>7, <1>8, Zenon DEF Next, Dispatch

(* Every step leaves each buffer in one place. *)
LEMMA StepBuffers ==
    ASSUME Completions, Buffers, [Next]_vars, Len(buffers') <= IdMod
    PROVE  Buffers'
<1>1. /\ CompletionRing(cq) /\ Batch
      /\ cq.posted \in Nat /\ cq.consumed \in Nat /\ cq.consumed <= cq.posted
      /\ i \in Nat /\ n \in Nat /\ n <= cq.posted - cq.consumed
  BY DEF Completions, Batch, CompletionRing
<1>2. CASE UNCHANGED <<pbuf, buffers, group_id, cq, i>>
  BY <1>2, FewerWaiting DEF Waiting, Entry
<1>3. CASE Kernel
  <2>1. UNCHANGED <<buffers, group_id, i>> /\ ((GrownWithout(cq, cq') /\ UNCHANGED pbuf) \/ Receives)
    BY <1>1, <1>3, KernelTakes
  <2>2. CASE GrownWithout(cq, cq') /\ UNCHANGED pbuf
    <3>1. /\ cq'.posted \in Nat /\ cq'.consumed = cq.consumed
          /\ \A k \in cq.consumed..cq.posted - 1 : Entry(cq', k) = Entry(cq, k)
          /\ \A k \in cq.posted..cq'.posted - 1 : Entry(cq', k).buf = Null
      BY <2>2 DEF GrownWithout, Grown, CompletionRing
    <3>2. ASSUME NEW k \in Waiting' PROVE k \in Waiting /\ Entry(cq', k) = Entry(cq, k)
      <4>1. k \in cq.consumed + i..cq'.posted - 1 /\ Entry(cq', k).buf # Null
        BY <2>1, <3>1 DEF Waiting, Entry
      <4>2. k \in cq.consumed + i..cq.posted - 1
        BY <1>1, <3>1, <4>1
      <4>3. Entry(cq', k) = Entry(cq, k)
        BY <1>1, <3>1, <4>2
      <4> QED BY <4>1, <4>2, <4>3 DEF Waiting
    <3>3. \A k \in Waiting' : k \in Waiting /\ Entry(cq, k)' = Entry(cq, k)
      BY <3>2 DEF Entry
    <3> QED BY <2>1, <2>2, <3>3, FewerWaiting
  <2>3. CASE Receives
    BY <2>1, <2>3, ReceiveMovesOne
  <2> QED BY <2>1, <2>2, <2>3
<1>4. CASE DispatchEntry \/ CallbackReturns
  <2>1. CASE i' \in {i, i + 1} /\ UNCHANGED <<pbuf, buffers, group_id, cq>>
    <3>1. \A k \in Waiting' : k \in Waiting /\ Entry(cq, k)' = Entry(cq, k)
      BY <1>1, <2>1 DEF Waiting, Entry
    <3> QED BY <2>1, <3>1, FewerWaiting
  <2> QED BY <1>4, <2>1, EntryGivesBack, GivingBackMovesOne
<1>5. CASE DispatchWait
  <2>1. i = 0 /\ i' = 0 /\ UNCHANGED <<pbuf, buffers, group_id, cq>>
    BY <1>1, <1>5 DEF DispatchWait, Batch, kernVars, userVars
  <2> QED BY <1>2, <2>1
<1>6. CASE DispatchReturns
  <2> DEFINE k0 == IF (cq.khead + n) % CqMod > cq.ktail THEN Ready(cq) ELSE n
  <2>1. cq' = Advance(cq, k0) /\ i' = 0 /\ i = n /\ UNCHANGED <<pbuf, buffers, group_id>>
    BY <1>6 DEF DispatchReturns, CqConsume, kernVars, userVars
  <2>2. k0 \in n..cq.posted - cq.consumed
    BY <1>1, ReadyIsExact
  <2> HIDE DEF k0
  <2>3. /\ cq'.posted = cq.posted /\ cq'.consumed = cq.consumed + k0
        /\ \A m \in cq.consumed + k0..cq.posted - 1 : Entry(cq', m) = Entry(cq, m)
    <3>1. k0 \in 0..cq.posted - cq.consumed
      BY <1>1, <2>2
    <3> QED BY <1>1, <2>1, <3>1, AdvanceKeepsRing
  <2>4. ASSUME NEW k \in Waiting' PROVE k \in Waiting /\ Entry(cq', k) = Entry(cq, k)
    <3>1. k \in cq.consumed + k0..cq.posted - 1 /\ Entry(cq', k).buf # Null
      BY <1>1, <2>1, <2>2, <2>3 DEF Waiting, Entry
    <3>2. Entry(cq', k) = Entry(cq, k) /\ k \in cq.consumed + i..cq.posted - 1
      BY <1>1, <2>1, <2>2, <2>3, <3>1
    <3> QED BY <3>1, <3>2 DEF Waiting
  <2>5. \A k \in Waiting' : k \in Waiting /\ Entry(cq, k)' = Entry(cq, k)
    BY <2>4 DEF Entry
  <2> QED BY <2>1, <2>5, FewerWaiting
<1>7. CASE \E g : UnregisterRingBuffer(g)
  BY <1>7, UnregisterForgets
<1>8. CASE \E count : RegisterRingBuffer(count)
  BY <1>8, RegisterAddsFresh
<1>9. CASE Open \/ Close
  BY <1>2, <1>9 DEF Open, Close, kernVars, userVars
<1>10. CASE /\ User /\ ~Open /\ ~Close /\ ~RegisterFails
            /\ ~\E g : UnregisterRingBuffer(g)
            /\ ~\E count : RegisterRingBuffer(count)
  BY <1>2, <1>10, OtherCalls
<1>12. CASE RegisterFails
  <2>1. group_id' = group_id + 1 /\ UNCHANGED <<pbuf, buffers, cq, i>>
    BY <1>12 DEF RegisterFails, UserCalls, kernVars
  <2>2. group_id \in Nat /\ group_id' \in Nat /\ 0..group_id - 1 \subseteq 0..group_id' - 1
    BY <2>1 DEF Buffers, Listed, Table
  <2>3. Listed'
    BY <2>1, <2>2 DEF Buffers, Listed, Table, GroupOf
  <2>4. Waiting' = Waiting
    BY <2>1, Zenon DEF Waiting, Entry
  <2>5. NamedOnce'
    BY <2>1, <2>4, Zenon DEF Buffers, NamedOnce, Entry
  <2>6. ListedOnce'
    BY <2>1, <2>4 DEF Buffers, ListedOnce, Entry
  <2> QED BY <2>3, <2>5, <2>6 DEF Buffers
<1>11. CASE UNCHANGED vars
  BY <1>2, <1>11 DEF vars, kernVars, userVars, dispVars
<1> QED BY <1>3, <1>4, <1>5, <1>6, <1>7, <1>8, <1>9, <1>10, <1>11, <1>12, Zenon DEF Next, Dispatch

(* The entries dispatch may still look at are the waiting ones. *)
LEMMA BuffersApart == Completions /\ Buffers => BufferInOnePlace
<1> SUFFICES ASSUME Completions, Buffers PROVE BufferInOnePlace
  OBVIOUS
<1>1. /\ CompletionRing(cq) /\ Listed /\ NamedOnce /\ ListedOnce
      /\ cq.posted \in Nat /\ cq.consumed \in Nat /\ i \in Nat
  BY DEF Completions, Buffers, Batch, CompletionRing
<1>2. Ready(cq) = cq.posted - cq.consumed
  BY <1>1, ReadyIsExact
<1>3. ASSUME NEW k \in Pending
      PROVE  /\ k \in Nat /\ cq.consumed + k \in Waiting
             /\ GetCqe(cq, k) = Entry(cq, cq.consumed + k)
  <2>1. k \in i..cq.posted - cq.consumed - 1 /\ GetCqe(cq, k).buf # Null
    BY <1>2 DEF Pending
  <2>2. k \in Nat
    BY <1>1, <2>1
  <2>3. GetCqe(cq, k) = Entry(cq, cq.consumed + k)
    BY <1>1, <2>2, GetCqeIsEntry
  <2> QED BY <1>1, <2>1, <2>2, <2>3 DEF Waiting
<1>4. ASSUME NEW j \in Pending, NEW k \in Pending, GetCqe(cq, j).buf = GetCqe(cq, k).buf PROVE j = k
  <2>1. cq.consumed + j = cq.consumed + k
    BY <1>1, <1>3, <1>4 DEF NamedOnce
  <2> QED BY <1>1, <1>3, <2>1
<1>5. \A g \in DOMAIN pbuf : \A m \in DOMAIN pbuf[g] : \A k \in Pending : GetCqe(cq, k).buf # pbuf[g][m]
  BY <1>1, <1>3 DEF ListedOnce
<1>6. \A g \in DOMAIN pbuf : \A m \in DOMAIN pbuf[g] : GroupOf(pbuf[g][m]) = g
  BY <1>1 DEF Listed, Table
<1> QED BY <1>1, <1>4, <1>5, <1>6, Zenon DEF BufferInOnePlace, ListedOnce

(* The inductive invariant, once there may be more buffers than identifiers *)
InPlace == Completions /\ Table /\ (Len(buffers) <= IdMod => Buffers)

(* A provided buffer is free for the kernel or named by one completion whose *)
(* callback has not returned, never both and never twice, whatever the ring  *)
(* sizes and the order of receives, callbacks, registrations and             *)
(* unregistrations, as long as register_ring_buffer was given at most        *)
(* IdMod = 2^16 buffers and groups: a bid has 16 bits.  It holds too when    *)
(* buffers_ moves under the reference that dispatch keeps across a callback. *)
(* The inductive invariant speaks of every completion that is posted and not *)
(* handled, by its serial number.                                            *)
THEOREM BuffersInOnePlace == Spec => []BufferInOnePlace
<1>1. Init => InPlace
  <2> SUFFICES ASSUME Init PROVE InPlace
    OBVIOUS
  <2>1. Completions /\ Buffers
    BY InitCompletions, InitBuffers
  <2> QED BY <2>1 DEF InPlace, Buffers, Listed
<1>2. InPlace /\ [Next]_vars => InPlace'
  <2> SUFFICES ASSUME InPlace, [Next]_vars PROVE InPlace'
    OBVIOUS
  <2>1. Completions' /\ Table' /\ Len(buffers) <= Len(buffers')
    BY StepCompletions, StepTable DEF InPlace
  <2>2. Len(buffers) \in Nat /\ Len(buffers') \in Nat /\ IdMod \in Nat
    BY <2>1, BoundAssumption DEF InPlace, Table
  <2>3. ASSUME Len(buffers') <= IdMod PROVE Buffers'
    <3>1. Buffers
      BY <2>1, <2>2, <2>3 DEF InPlace
    <3> QED BY <2>3, <3>1, StepBuffers DEF InPlace
  <2> QED BY <2>1, <2>3 DEF InPlace
<1>3. InPlace => BufferInOnePlace
  <2> SUFFICES ASSUME InPlace PROVE BufferInOnePlace
    OBVIOUS
  <2>1. CASE Len(buffers) <= IdMod
    BY <2>1, BuffersApart DEF InPlace
  <2>2. CASE ~(Len(buffers) <= IdMod)
    BY <2>2 DEF BufferInOnePlace
  <2> QED BY <2>1, <2>2
<1> QED BY <1>1, <1>2, <1>3, PTL DEF Spec
=============================================================================
