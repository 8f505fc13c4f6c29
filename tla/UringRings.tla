----------------------------- MODULE UringRings -----------------------------
(***************************************************************************)
(* The submission and the completion ring of io_uring_wrapper.             *)
(*                                                                         *)
(* The program owns sqe_tail and the head of the completion ring, the      *)
(* kernel the head of the submission ring and the tail of the completion   *)
(* ring.  All are 32-bit counters that are never reset; the moduli stand   *)
(* for 2^32 so that the wrap-around can be reached.  Entries carry their   *)
(* serial number, and prepared, taken, posted and consumed count what the  *)
(* counters lose when they wrap.                                           *)
(***************************************************************************)
EXTENDS Naturals, Sequences

CONSTANTS
    SqEntries, CqEntries,   \* *kring_entries of the two rings
    SqMod, CqMod,           \* where their counters wrap
    Null

(* The sizes are powers of two, so that "& *kring_mask" is % and 2^32 is a   *)
(* multiple of them.  The kernel allows at most 2^15 and 2^16 entries; that  *)
(* get_sqe can tell a full ring from an empty one needs SqMod > SqEntries+1. *)
ASSUME RingAssumption ==
    /\ SqEntries \in Nat \ {0} /\ SqMod \in Nat /\ SqMod % SqEntries = 0
    /\ SqMod > SqEntries + 1
    /\ CqEntries \in Nat \ {0} /\ CqMod \in Nat /\ CqMod % CqEntries = 0
    /\ CqMod > CqEntries

VARIABLES sq, cq

(* b - a in unsigned arithmetic *)
Minus(b, a, mod) == (b + mod - a) % mod

-----------------------------------------------------------------------------
(* The submission ring. *)

ZeroSqe == [op |-> "nop", fd |-> Null, ud |-> Null, arg |-> Null, id |-> 0]

SqInit == [khead |-> 0, ktail |-> 0, sqe_tail |-> 0, prepared |-> 0, taken |-> 0,
           sqes |-> [k \in 0..SqEntries - 1 |-> ZeroSqe]]

(* Mutant of HasRoom: the comparison is one too generous. *)
HasRoomPlusOne(q) == Minus((q.sqe_tail + 1) % SqMod, q.khead, SqMod) <= SqEntries + 1

HasRoom(q) == Minus((q.sqe_tail + 1) % SqMod, q.khead, SqMod) <= SqEntries

(* get_sqe, then one of the prepare_... functions and, where the caller does *)
(* it, set_user_data.  initialize_sqe and PREPARE_SQE write every field but  *)
(* user_data: an entry prepared without it keeps that of the last one in its *)
(* slot.                                                                     *)
Prepare(q, e, setsUserData) ==
    LET slot == q.sqe_tail % SqEntries
    IN  [q EXCEPT !.sqe_tail = (@ + 1) % SqMod, !.prepared = @ + 1,
                  !.sqes[slot] = [op |-> e.op, fd |-> e.fd, arg |-> e.arg, id |-> q.prepared,
                                  ud |-> IF setsUserData THEN e.ud ELSE @.ud]]

ToSubmit(q) == Minus(q.sqe_tail, q.ktail, SqMod)

(* submit: publish the tail and enter the kernel, which takes k entries from *)
(* its head.  What it does not take stays published and is not counted in    *)
(* the next to_submit.  Of a slot that was taken only the user_data matters. *)
SqSlots(q, k) == {((q.khead + j) % SqMod) % SqEntries : j \in 0..k - 1}

Submitted(q, k) ==
    [q EXCEPT !.ktail = q.sqe_tail, !.khead = (@ + k) % SqMod, !.taken = @ + k,
              !.sqes = [s \in DOMAIN @ |-> IF s \in SqSlots(q, k)
                                           THEN [ZeroSqe EXCEPT !.ud = q.sqes[s].ud] ELSE @[s]]]

TakenBy(q, k) == {q.sqes[s] : s \in SqSlots(q, k)}

-----------------------------------------------------------------------------
(* The completion ring. *)

ZeroCqe == [of |-> ZeroSqe, res |-> 0, more |-> FALSE, buf |-> Null, id |-> 0]

CqInit == [khead |-> 0, ktail |-> 0, posted |-> 0, consumed |-> 0,
           cqes |-> [k \in 0..CqEntries - 1 |-> ZeroCqe]]

Ready(c) == Minus(c.ktail, c.khead, CqMod)
CqFull(c) == Ready(c) = CqEntries

Post(c, e) ==
    [c EXCEPT !.ktail = (@ + 1) % CqMod, !.posted = @ + 1,
              !.cqes[c.ktail % CqEntries] =
                  [of |-> e.of, res |-> e.res, more |-> e.more, buf |-> e.buf, id |-> c.posted]]

GetCqe(c, idx) == c.cqes[((c.khead + idx) % CqMod) % CqEntries]

(* What is consumed is not read again *)
Advance(c, k) ==
    [c EXCEPT !.khead = (@ + k) % CqMod, !.consumed = @ + k,
              !.cqes = [s \in DOMAIN @ |->
                           IF \E j \in 0..k - 1 : s = ((c.khead + j) % CqMod) % CqEntries
                           THEN ZeroCqe ELSE @[s]]]

(* Mutants of CqConsume: everything posted by now is consumed; the last      *)
(* entry is left.                                                            *)
CqConsumeAll(c, count) == Advance(c, Ready(c))
CqConsumeOneLess(c, count) == Advance(c, count - 1)

(* cq_consume: "head + count > tail" compares wrapped counters *)
CqConsume(c, count) ==
    Advance(c, IF (c.khead + count) % CqMod > c.ktail THEN Ready(c) ELSE count)

-----------------------------------------------------------------------------
(* Between the kernel's head and the program's tail lie the entries prepared *)
(* and not taken, each in the slot where the kernel will look for it, in the *)
(* order they were prepared: get_sqe never hands out a slot the kernel has   *)
(* still to read, also after an io_uring_enter that failed and across a wrap *)
(* of the counters.                                                          *)
SqIntact ==
    /\ sq.taken <= sq.prepared /\ sq.prepared - sq.taken <= SqEntries
    /\ \A k \in sq.taken..sq.prepared - 1 :
           sq.sqes[((sq.khead + (k - sq.taken)) % SqMod) % SqEntries].id = k
=============================================================================
