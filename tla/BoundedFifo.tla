---------------------------- MODULE BoundedFifo ----------------------------
(***************************************************************************)
(* What the block ring promises its two clients: a FIFO queue of at most   *)
(* Capacity values.  A commit of the writer appends the values it stored,  *)
(* all at once; the reader looks at the oldest value and later removes     *)
(* some of the oldest ones, or drops everything.                           *)
(***************************************************************************)
EXTENDS Naturals, Sequences

CONSTANTS Capacity, Vals

VARIABLES
    q,      \* the committed values nobody has removed yet, oldest first
    out     \* the value looked at last

Init == q = <<>> /\ out \in Vals

Put(s) ==
    /\ q' = q \o s
    /\ UNCHANGED out

Peek ==
    /\ q # <<>>
    /\ out' = Head(q)
    /\ UNCHANGED q

Get(n) ==
    /\ q' = SubSeq(q, n + 1, Len(q))
    /\ UNCHANGED out

Clear ==
    /\ q' = <<>>
    /\ UNCHANGED out

Next ==
    \/ \E n \in 1..(Capacity - Len(q)) : \E s \in [1..n -> Vals] : Put(s)
    \/ Peek
    \/ \E n \in 1..Len(q) : Get(n)
    \/ Clear

Spec == Init /\ [][Next]_<<q, out>>
=============================================================================
