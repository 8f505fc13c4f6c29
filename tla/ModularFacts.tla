---------------------------- MODULE ModularFacts ----------------------------
(* Facts about % with a variable modulus, for rings and wrapping counters. *)
EXTENDS Integers, TLAPS

(* Quotient and remainder of a natural. *)
LEMMA DivMod ==
    ASSUME NEW N \in Nat \ {0}, NEW i \in Nat
    PROVE  /\ i % N \in 0..N-1
           /\ i \div N \in Nat
           /\ i = N * (i \div N) + (i % N)
  OBVIOUS

(* A remainder is determined by the number: no two lie in 0..N-1. *)
LEMMA RemainderUnique ==
    ASSUME NEW N \in Nat \ {0}, NEW p \in Int, NEW q \in Int,
           NEW a \in 0..N-1, NEW b \in 0..N-1,
           N * p + a = N * q + b
    PROVE  a = b /\ p = q
<1> DEFINE d == p - q
<1>1. d \in Int /\ N * d = b - a
  OBVIOUS
<1>2. ~(d >= 1)
  <2>1. d >= 1 => N * d >= N
    BY <1>1
  <2> QED BY <1>1, <2>1
<1>3. ~(d <= -1)
  <2>1. d <= -1 => N * d <= -N
    BY <1>1
  <2> QED BY <1>1, <2>1
<1> QED BY <1>1, <1>2, <1>3

(* What is left after taking out a multiple of N is the remainder. *)
LEMMA RemainderOf ==
    ASSUME NEW N \in Nat \ {0}, NEW i \in Nat, NEW p \in Int, NEW a \in 0..N-1, i = N * p + a
    PROVE  i % N = a
<1> DEFINE q == i \div N
           b == i % N
<1>1. b \in 0..N-1 /\ q \in Nat /\ i = N * q + b
  BY DivMod, Zenon
<1> HIDE DEF q, b
<1>2. q \in Int
  BY <1>1
<1>3. N * q + b = N * p + a
  BY <1>1, Zenon
<1>4. b = a
  BY <1>1, <1>2, <1>3, RemainderUnique, Zenon
<1> QED BY <1>4 DEF b

(* Moving on inside a lap moves the slot by the same amount. *)
LEMMA ModAdd ==
    ASSUME NEW N \in Nat \ {0}, NEW i \in Nat, NEW k \in Nat, (i % N) + k < N
    PROVE  (i + k) % N = (i % N) + k
<1>1. i = N * (i \div N) + (i % N) /\ i \div N \in Nat /\ i % N \in 0..N-1
  BY DivMod
<1>2. i + k = N * ((i + k) \div N) + ((i + k) % N)
      /\ (i + k) \div N \in Nat /\ (i + k) % N \in 0..N-1
  <2>1. i + k \in Nat
    OBVIOUS
  <2> QED BY <2>1, DivMod
<1>3. (i % N) + k \in 0..N-1
  BY <1>1
<1>4. N * ((i + k) \div N) + ((i + k) % N) = N * (i \div N) + ((i % N) + k)
  BY <1>1, <1>2
<1> QED BY <1>1, <1>2, <1>3, <1>4, RemainderUnique

(* The distance between two indices less than a lap apart, from their slots: *)
(* the two cases internal_writer_get_buffer tells apart.                     *)
LEMMA SlotDistance ==
    ASSUME NEW N \in Nat \ {0}, NEW r \in Nat, NEW w \in Nat, r <= w, w < r + N
    PROVE  /\ w % N >= r % N => w - r = (w % N) - (r % N)
           /\ w % N < r % N => w - r = N + (w % N) - (r % N)
<1> DEFINE d == (w \div N) - (r \div N)
           e == (w % N) - (r % N)
<1>1. w = N * (w \div N) + (w % N) /\ w \div N \in Nat /\ w % N \in 0..N-1
  BY DivMod
<1>2. r = N * (r \div N) + (r % N) /\ r \div N \in Nat /\ r % N \in 0..N-1
  BY DivMod
<1>3. d \in Int /\ e \in Int /\ w - r = N * d + e /\ e > -N /\ e < N
  BY <1>1, <1>2
<1>4. d >= 2 => N * d >= N + N
  BY <1>3
<1>5. d <= -1 => N * d <= -N
  BY <1>3
<1>6. d = 0 \/ d = 1
  BY <1>3, <1>4, <1>5
<1>7. d = 0 => w - r = e
  BY <1>3
<1>8. d = 1 => w - r = N + e
  BY <1>3
<1> QED BY <1>1, <1>2, <1>3, <1>6, <1>7, <1>8

(* Indices less than a lap apart have different slots. *)
LEMMA SlotsDiffer ==
    ASSUME NEW N \in Nat \ {0}, NEW i \in Nat, NEW j \in Nat, i < j, j < i + N
    PROVE  i % N # j % N
<1>1. j % N >= i % N => j - i = (j % N) - (i % N)
  <2>1. i <= j
    OBVIOUS
  <2> QED BY <2>1, SlotDistance
<1>2. i % N \in 0..N-1 /\ j % N \in 0..N-1
  BY DivMod
<1> QED BY <1>1, <1>2

(* Adding before or after a wrap is the same. *)
LEMMA ModShift ==
    ASSUME NEW M \in Nat \ {0}, NEW i \in Nat, NEW d \in Nat
    PROVE  ((i % M) + d) % M = (i + d) % M
<1> DEFINE a == i \div M
           r == i % M
           b == (r + d) \div M
           s == (r + d) % M
<1>1. i = M * a + r /\ a \in Nat /\ r \in Nat
  BY DivMod
<1>2. r + d = M * b + s /\ b \in Nat /\ s \in 0..M-1
  <2>1. r + d \in Nat
    BY <1>1
  <2> QED BY <2>1, DivMod
<1> HIDE DEF a, r, b, s
<1> DEFINE p == a + b
<1>3. M * p = M * a + M * b /\ p \in Int
  BY <1>1, <1>2
<1>4. i + d = M * p + s /\ i + d \in Nat
  <2>1. M * a \in Int /\ M * b \in Int
    BY <1>1, <1>2
  <2> QED BY <1>1, <1>2, <1>3, <2>1
<1> HIDE DEF p
<1>5. (i + d) % M = s
  BY <1>2, <1>3, <1>4, RemainderOf, Zenon
<1> QED BY <1>5 DEF s, r

(* A counter that wraps at a multiple of the ring's size selects the slot    *)
(* that a counter that never wraps would.                                    *)
LEMMA ModOfMod ==
    ASSUME NEW N \in Nat \ {0}, NEW M \in Nat \ {0}, M % N = 0, NEW i \in Nat
    PROVE  (i % M) % N = i % N
<1> DEFINE q == M \div N
           a == i \div M
           r == i % M
           c == r \div N
           s == r % N
<1>1. M = N * q /\ q \in Nat
  BY DivMod
<1>2. i = M * a + r /\ a \in Nat /\ r \in Nat
  BY DivMod
<1>3. r = N * c + s /\ c \in Nat /\ s \in 0..N-1
  BY <1>2, DivMod
<1> HIDE DEF q, a, r, c, s
<1>4. M * a = N * (q * a) /\ q * a \in Nat
  BY <1>1, <1>2
<1> DEFINE p == q * a + c
<1>5. N * p = N * (q * a) + N * c /\ p \in Int
  BY <1>3, <1>4
<1>6. i = N * p + s
  <2>1. M * a \in Int /\ N * c \in Int
    BY <1>2, <1>3
  <2> QED BY <1>2, <1>3, <1>4, <1>5, <2>1
<1> HIDE DEF p
<1>7. i % N = s
  BY <1>3, <1>5, <1>6, RemainderOf, Zenon
<1> QED BY <1>7 DEF s, r

(* The distance of two wrapping counters, in unsigned arithmetic. *)
LEMMA WrappedDistance ==
    ASSUME NEW M \in Nat \ {0}, NEW r \in Nat, NEW w \in Nat, r <= w, w < r + M
    PROVE  ((w % M) + M - (r % M)) % M = w - r
<1> DEFINE d == w - r
<1>0. /\ w % M >= r % M => w - r = (w % M) - (r % M)
      /\ w % M < r % M => w - r = M + (w % M) - (r % M)
  BY SlotDistance, Zenon
<1>1. w % M \in 0..M-1 /\ r % M \in 0..M-1 /\ d \in 0..M-1
  BY DivMod
<1>2. d % M = d
  BY <1>1
<1>3. (d + M) % M = d
  <2>1. d + M = M * 1 + d /\ d + M \in Nat
    BY <1>1
  <2>2. d + M = M * ((d + M) \div M) + ((d + M) % M) /\ (d + M) \div M \in Nat /\ (d + M) % M \in 0..M-1
    BY <2>1, DivMod
  <2> QED BY <1>1, <2>1, <2>2, RemainderUnique
<1>4. CASE w % M >= r % M
  <2>1. (w % M) + M - (r % M) = d + M
    BY <1>1, <1>4, <1>0
  <2> QED BY <1>3, <2>1
<1>5. CASE w % M < r % M
  <2>1. (w % M) + M - (r % M) = d
    BY <1>1, <1>5, <1>0
  <2> QED BY <1>2, <2>1
<1> QED BY <1>1, <1>4, <1>5
=============================================================================
