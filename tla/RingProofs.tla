----------------------------- MODULE RingProofs -----------------------------
(***************************************************************************)
(* Arithmetic of the split rings that virtio.c shares with the driver: n   *)
(* slots, and free-running indices that wrap at m (2^16 in the code), a    *)
(* multiple of n.  The entries from index a up to index b are those the    *)
(* one side has written and the other not yet taken.  Writing one more     *)
(* (avail ring: the driver; used ring: virtio_consume_desc) and taking the *)
(* oldest (queue_notify; the driver) do to the set of entries what they    *)
(* should, also across the wrap, as long as the entries are distinct.      *)
(***************************************************************************)
EXTENDS Integers, TLAPS

Sizes(n, m) == n \in Nat \ {0} /\ m \in Nat \ {0} /\ m > n /\ m % n = 0

Gap(a, b, m) == (b - a + m) % m
Entry(ring, n, a, i) == ring[(a + i) % n]
Holds(ring, n, m, a, b, h) ==
  \E i \in 0..(Gap(a, b, m) - 1) : Entry(ring, n, a, i) = h

(* The heads that are no entry: one fewer for each entry.                   *)
Spare(ring, n, m, a, b) ==
  /\ Gap(a, b, m) <= n
  /\ \E e \in [1..(n - Gap(a, b, m)) -> 0..(n - 1)] : \A x \in 0..(n - 1) :
       Holds(ring, n, m, a, b, x) \/ \E i \in 1..(n - Gap(a, b, m)) : e[i] = x

RingOK(ring, n, m, a, b) ==
  /\ Spare(ring, n, m, a, b)
  /\ a \in 0..(m - 1) /\ b \in 0..(m - 1)
  /\ ring \in [0..(n - 1) -> 0..(n - 1)]
  /\ \A i, j \in 0..(Gap(a, b, m) - 1) :
       Entry(ring, n, a, i) = Entry(ring, n, a, j) => i = j

-----------------------------------------------------------------------------
(* Quotient and remainder. *)
LEMMA ModDef ==
  ASSUME NEW m \in Nat \ {0}, NEW x \in Int
  PROVE  /\ x % m \in 0..(m - 1) /\ x \div m \in Int
         /\ x = ((x \div m) * m) + (x % m)
<1>1. x % m \in Int /\ 0 <= x % m
  OBVIOUS
<1>2. x % m < m
  OBVIOUS
<1>3. x \div m \in Int
  OBVIOUS
<1>4. x = ((x \div m) * m) + (x % m)
  OBVIOUS
<1> QED BY <1>1, <1>2, <1>3, <1>4

(* They are unique. *)
LEMMA ModUnique ==
  ASSUME NEW m \in Nat \ {0}, NEW q \in Int, NEW r \in 0..(m - 1)
  PROVE  ((q * m) + r) % m = r
<1> DEFINE x == (q * m) + r
           p == x \div m
           y == x % m
<1>1. x \in Int
  OBVIOUS
<1>2. y \in 0..(m - 1) /\ p \in Int /\ x = (p * m) + y
  BY <1>1, ModDef
<1>3. (p - q) * m = r - y
  BY <1>2
<1>4. (p - q) * m > 0 - m /\ (p - q) * m < m
  BY <1>2, <1>3
<1>5. p - q = 0
  BY <1>2, <1>4
<1> QED BY <1>2, <1>3, <1>5

(* A remainder modulo m can be taken before one modulo a divisor of m. *)
LEMMA ModFirst ==
  ASSUME NEW n \in Nat \ {0}, NEW m \in Nat \ {0}, m % n = 0,
         NEW x \in Int, NEW i \in Int
  PROVE  ((x % m) + i) % n = (x + i) % n
<1> DEFINE k == m \div n
           p == x \div m
           y == x % m
           s == (y + i) \div n
           t == (y + i) % n
<1>1. k \in Int /\ m = k * n
  BY ModDef
<1>2. p \in Int /\ y \in Int /\ x = (p * m) + y
  BY ModDef
<1>3. s \in Int /\ t \in 0..(n - 1) /\ y + i = (s * n) + t
  <2>1. y + i \in Int
    BY <1>2
  <2> QED BY <2>1, ModDef
<1> HIDE DEF k, p, y, s, t
<1>4. x + i = (((p * k) + s) * n) + t
  <2>1. p * m = (p * k) * n
    BY <1>1, <1>2
  <2>2. x + i = ((p * k) * n) + (s * n) + t
    <3>1. x + i = (p * m) + (y + i)
      BY <1>2
    <3> QED BY <1>1, <1>2, <1>3, <2>1, <3>1
  <2>3. p * k \in Int
    BY <1>1, <1>2
  <2>4. \A u, v \in Int : (u * n) + (v * n) = (u + v) * n
    OBVIOUS
  <2> QED BY <1>3, <2>2, <2>3, <2>4
<1>5. (p * k) + s \in Int
  BY <1>1, <1>2, <1>3
<1>6. (x + i) % n = t
  BY <1>3, <1>4, <1>5, ModUnique
<1> QED BY <1>6 DEF t, y

(* m divides itself. *)
LEMMA SelfMod == ASSUME NEW m \in Nat \ {0} PROVE m % m = 0
<1>1. ((1 * m) + 0) % m = 0
  BY ModUnique
<1> QED BY <1>1

(* Slots of consecutive indices are distinct, up to the size of the ring. *)
LEMMA SlotsDistinct ==
  ASSUME NEW n \in Nat \ {0}, NEW a \in Int,
         NEW i \in 0..(n - 1), NEW j \in 0..(n - 1), (a + i) % n = (a + j) % n
  PROVE  i = j
<1> DEFINE p == (a + i) \div n
           q == (a + j) \div n
           y == (a + i) % n
<1>1. p \in Int /\ y \in Int /\ a + i = (p * n) + y
  BY ModDef
<1>2. q \in Int /\ a + j = (q * n) + y
  <2>1. a + j \in Int
    OBVIOUS
  <2>2. q \in Int /\ a + j = (q * n) + ((a + j) % n)
    BY <2>1, ModDef
  <2> QED BY <2>2
<1> HIDE DEF p, q, y
<1>3. i - j = (p - q) * n
  <2>1. i - j = (p * n) - (q * n)
    BY <1>1, <1>2
  <2>2. (p * n) - (q * n) = (p - q) * n
    BY <1>1, <1>2
  <2> QED BY <2>1, <2>2
<1>4. (p - q) * n > 0 - n /\ (p - q) * n < n
  BY <1>3
<1>5. p - q = 0
  BY <1>1, <1>2, <1>4
<1> QED BY <1>3, <1>5

-----------------------------------------------------------------------------
(* The index i entries after a is i away from it. *)
LEMMA GapOf ==
  ASSUME NEW m \in Nat \ {0}, NEW a \in 0..(m - 1), NEW i \in 0..(m - 1)
  PROVE  Gap(a, (a + i) % m, m) = i
<1>1. CASE a + i < m
  <2>1. (a + i) % m = a + i
    BY <1>1
  <2>2. (a + i) - a + m = (1 * m) + i
    OBVIOUS
  <2> QED BY <2>1, <2>2, ModUnique DEF Gap
<1>2. CASE a + i >= m
  <2>1. a + i - m \in 0..(m - 1) /\ a + i = (1 * m) + (a + i - m)
    BY <1>2
  <2>2. (a + i) % m = a + i - m
    BY <2>1, ModUnique
  <2> QED BY <2>2 DEF Gap
<1> QED BY <1>1, <1>2

(* Every index is as far away as Gap says. *)
LEMMA GapIs ==
  ASSUME NEW m \in Nat \ {0}, NEW a \in 0..(m - 1), NEW b \in 0..(m - 1)
  PROVE  /\ Gap(a, b, m) \in 0..(m - 1) /\ (a + Gap(a, b, m)) % m = b
         /\ Gap(a, b, m) = 0 <=> a = b
<1>1. CASE a <= b
  <2>1. b - a + m = (1 * m) + (b - a) /\ b - a \in 0..(m - 1)
    BY <1>1
  <2>2. Gap(a, b, m) = b - a
    BY <2>1, ModUnique DEF Gap
  <2> QED BY <2>1, <2>2
<1>2. CASE b < a
  <2>1. b - a + m \in 0..(m - 1)
    BY <1>2
  <2>2. Gap(a, b, m) = b - a + m
    BY <2>1 DEF Gap
  <2>3. a + (b - a + m) = (1 * m) + b
    OBVIOUS
  <2>4. ((1 * m) + b) % m = b
    BY ModUnique
  <2>5. b - a + m # 0 /\ a # b
    BY <1>2
  <2> QED BY <2>1, <2>2, <2>3, <2>4, <2>5
<1> QED BY <1>1, <1>2

(* Taking an entry brings the one index a step nearer to the other. *)
LEMMA GapTake ==
  ASSUME NEW m \in Nat \ {0}, NEW a \in 0..(m - 1), NEW b \in 0..(m - 1), a # b
  PROVE  /\ Gap((a + 1) % m, b, m) = Gap(a, b, m) - 1
         /\ (a + 1) % m \in 0..(m - 1) /\ Gap(a, b, m) > 0
<1> DEFINE g == Gap(a, b, m)
           a2 == (a + 1) % m
<1>1. g \in 1..(m - 1) /\ (a + g) % m = b
  BY GapIs
<1>2. a2 \in 0..(m - 1)
  BY ModDef
<1>3. (a2 + (g - 1)) % m = ((a + 1) + (g - 1)) % m
  <2>1. \A x, i \in Int : ((x % m) + i) % m = (x + i) % m
    BY SelfMod, ModFirst
  <2>2. a + 1 \in Int /\ g - 1 \in Int
    BY <1>1
  <2> QED BY ONLY <2>1, <2>2
<1>4. (a + 1) + (g - 1) = a + g
  BY <1>1
<1>5. g - 1 \in 0..(m - 1)
  BY <1>1
<1>6. Gap(a2, (a2 + (g - 1)) % m, m) = g - 1
  BY <1>2, <1>5, GapOf
<1> QED BY <1>1, <1>2, <1>3, <1>4, <1>6

(* Writing an entry takes the other index a step further away. *)
LEMMA GapAdd ==
  ASSUME NEW m \in Nat \ {0}, NEW a \in 0..(m - 1), NEW b \in 0..(m - 1),
         Gap(a, b, m) < m - 1
  PROVE  /\ Gap(a, (b + 1) % m, m) = Gap(a, b, m) + 1
         /\ (b + 1) % m \in 0..(m - 1)
<1> DEFINE g == Gap(a, b, m)
<1>1. g \in 0..(m - 2) /\ (a + g) % m = b
  BY GapIs
<1>2. (b + 1) % m \in 0..(m - 1)
  BY ModDef
<1> HIDE DEF g
<1>3. (((a + g) % m) + 1) % m = (a + g + 1) % m
  <2>1. \A x, i \in Int : ((x % m) + i) % m = (x + i) % m
    BY SelfMod, ModFirst
  <2>2. a + g \in Int /\ 1 \in Int
    BY <1>1
  <2> QED BY ONLY <2>1, <2>2
<1>4. g + 1 \in 0..(m - 1) /\ a + g + 1 = a + (g + 1)
  BY <1>1
<1>5. Gap(a, (a + (g + 1)) % m, m) = g + 1
  BY <1>4, GapOf
<1>6. (b + 1) % m = (a + (g + 1)) % m
  BY <1>1, <1>3, <1>4
<1> QED BY <1>2, <1>5, <1>6 DEF g

-----------------------------------------------------------------------------
(* A head that is no entry means that there is room for one more.          *)
LEMMA Room ==
  ASSUME NEW n, NEW m, Sizes(n, m), NEW ring, NEW a, NEW b,
         RingOK(ring, n, m, a, b),
         NEW h \in 0..(n - 1), ~Holds(ring, n, m, a, b, h)
  PROVE  Gap(a, b, m) \in 0..(n - 1)
<1> DEFINE g == Gap(a, b, m)
<1>1. n \in Nat \ {0} /\ g \in 0..(m - 1)
  BY GapIs DEF Sizes, RingOK
<1> HIDE DEF g
<1>2. \E i \in 1..(n - g) : TRUE
  BY Zenon DEF g, RingOK, Spare
<1>3. g \in 0..(n - 1)
  BY <1>1, <1>2
<1> QED BY <1>3 DEF g

(* Writing the head h at index b puts it after the entries, which stay.    *)
LEMMA Pushed ==
  ASSUME NEW n, NEW m, Sizes(n, m), NEW ring, NEW a, NEW b,
         RingOK(ring, n, m, a, b),
         NEW h \in 0..(n - 1), ~Holds(ring, n, m, a, b, h)
  PROVE  LET r2 == [ring EXCEPT ![b % n] = h]
             b2 == (b + 1) % m
             g == Gap(a, b, m)
         IN  /\ g \in 0..(n - 1)
             /\ Gap(a, b2, m) = g + 1 /\ b2 \in 0..(m - 1)
             /\ Entry(r2, n, a, g) = h
             /\ \A i \in 0..(g - 1) : Entry(r2, n, a, i) = Entry(ring, n, a, i)
<1> DEFINE g == Gap(a, b, m)
           r2 == [ring EXCEPT ![b % n] = h]
           b2 == (b + 1) % m
<1>1. /\ n \in Nat \ {0} /\ m \in Nat \ {0} /\ m > n /\ m % n = 0
      /\ a \in 0..(m - 1) /\ b \in 0..(m - 1)
      /\ ring \in [0..(n - 1) -> 0..(n - 1)]
      /\ \A i, j \in 0..(g - 1) :
           Entry(ring, n, a, i) = Entry(ring, n, a, j) => i = j
      /\ \A i \in 0..(g - 1) : Entry(ring, n, a, i) # h
  BY DEF Sizes, RingOK, Holds
<1>2. g \in 0..(n - 1)
  BY Room
<1>3. (a + g) % m = b
  BY <1>1, GapIs
<1>4. Gap(a, b2, m) = g + 1 /\ b2 \in 0..(m - 1)
  <2>1. Gap(a, b, m) < m - 1
    <3>1. g \in Int /\ g < n
      BY <1>1, <1>2
    <3> HIDE DEF g
    <3>2. g < m - 1
      BY <1>1, <3>1
    <3> QED BY <3>2 DEF g
  <2> QED BY <1>1, <2>1, GapAdd
<1>5. b % n = (a + g) % n
  <2>1. g \in Int /\ a + g \in Int
    BY <1>1, <1>2
  <2> HIDE DEF g
  <2>2. (((a + g) % m) + 0) % n = ((a + g) + 0) % n
    <3>1. \A x, i \in Int : ((x % m) + i) % n = (x + i) % n
      BY <1>1, ModFirst
    <3>2. 0 \in Int
      OBVIOUS
    <3> QED BY ONLY <2>1, <3>1, <3>2
  <2>3. (a + g) + 0 = a + g /\ ((a + g) % m) + 0 = b
    BY <1>1, <1>3, <2>1
  <2> QED BY <2>2, <2>3
<1>6. \A i \in 0..(n - 1) : (a + i) % n \in 0..(n - 1)
  <2> TAKE i \in 0..(n - 1)
  <2>1. a + i \in Int
    BY <1>1
  <2> QED BY <1>1, <2>1, ModDef
<1>7. Entry(r2, n, a, g) = h
  BY <1>1, <1>2, <1>5, <1>6 DEF Entry
<1>8. ASSUME NEW i \in 0..(g - 1)
      PROVE  Entry(r2, n, a, i) = Entry(ring, n, a, i)
  <2>1. i \in 0..(n - 1) /\ i # g
    <3> HIDE DEF g
    <3> QED BY <1>1, <1>2
  <2>2. (a + i) % n # (a + g) % n
    <3>1. a \in Int
      BY <1>1
    <3> QED BY <1>1, <1>2, <2>1, <3>1, SlotsDistinct
  <2> QED BY <1>1, <1>5, <1>6, <2>1, <2>2 DEF Entry
<1> QED BY <1>2, <1>4, <1>7, <1>8

(* Writing the head h at index b adds it to the set of entries. *)
LEMMA Push ==
  ASSUME NEW n, NEW m, Sizes(n, m), NEW ring, NEW a, NEW b,
         RingOK(ring, n, m, a, b),
         NEW h \in 0..(n - 1), ~Holds(ring, n, m, a, b, h)
  PROVE  LET r2 == [ring EXCEPT ![b % n] = h]
             b2 == (b + 1) % m
         IN  /\ RingOK(r2, n, m, a, b2)
             /\ Gap(a, b2, m) = Gap(a, b, m) + 1
             /\ \A x : Holds(r2, n, m, a, b2, x) <=>
                        Holds(ring, n, m, a, b, x) \/ x = h
<1> DEFINE g == Gap(a, b, m)
           r2 == [ring EXCEPT ![b % n] = h]
           b2 == (b + 1) % m
<1>1. /\ n \in Nat \ {0} /\ m \in Nat \ {0} /\ m > n /\ m % n = 0
      /\ a \in 0..(m - 1) /\ b \in 0..(m - 1)
      /\ ring \in [0..(n - 1) -> 0..(n - 1)]
      /\ \A i, j \in 0..(g - 1) :
           Entry(ring, n, a, i) = Entry(ring, n, a, j) => i = j
      /\ \A i \in 0..(g - 1) : Entry(ring, n, a, i) # h
  BY DEF Sizes, RingOK, Holds
<1>2. /\ g \in 0..(n - 1) /\ Gap(a, b2, m) = g + 1 /\ b2 \in 0..(m - 1)
      /\ Entry(r2, n, a, g) = h
      /\ \A i \in 0..(g - 1) : Entry(r2, n, a, i) = Entry(ring, n, a, i)
  <2>1. g \in 0..(n - 1)
    BY Pushed
  <2>2. Gap(a, b2, m) = g + 1 /\ b2 \in 0..(m - 1)
    <3>1. Gap(a, b, m) < m - 1
      <4> HIDE DEF g
      <4>1. g < m - 1
        BY <1>1, <2>1
      <4> QED BY <4>1 DEF g
    <3> QED BY <1>1, <3>1, GapAdd
  <2>3. Entry(r2, n, a, g) = h
    BY Pushed
  <2>4. ASSUME NEW i \in 0..(g - 1)
        PROVE  Entry(r2, n, a, i) = Entry(ring, n, a, i)
    BY Pushed
  <2> QED BY <2>1, <2>2, <2>3, <2>4
<1>3. r2 \in [0..(n - 1) -> 0..(n - 1)]
  BY <1>1
<1>4. \A i \in 0..g : i \in 0..(g - 1) \/ i = g
  BY <1>2
<1>5. 0..((g + 1) - 1) = 0..g /\ g \in 0..g /\ 0..(g - 1) \subseteq 0..g
  BY <1>2
<1> HIDE DEF g, r2, b2
<1>6. ASSUME NEW x
       PROVE  Holds(r2, n, m, a, b2, x) <=> Holds(ring, n, m, a, b, x) \/ x = h
  BY <1>2, <1>4, <1>5 DEF Holds, g
<1>7. Spare(r2, n, m, a, b2)
  <2>1. PICK e \in [1..(n - g) -> 0..(n - 1)] : \A x \in 0..(n - 1) :
          Holds(ring, n, m, a, b, x) \/ \E i \in 1..(n - g) : e[i] = x
    BY Zenon DEF RingOK, Spare, g
  <2>2. PICK j \in 1..(n - g) : e[j] = h
    BY Zenon, <2>1
  <2> DEFINE e2 == [i \in 1..(n - (g + 1)) |-> IF i = j THEN e[n - g] ELSE e[i]]
  <2>0. n \in Nat /\ g \in Nat /\ n - g \in 1..(n - g)
    BY <1>1, <1>2
  <2>3. e2 \in [1..(n - (g + 1)) -> 0..(n - 1)]
    BY <2>0
  <2>4. ASSUME NEW i \in 1..(n - g), e[i] # h
        PROVE  \E k \in 1..(n - (g + 1)) : e2[k] = e[i]
    <3>1. CASE i = n - g
      <4>1. j \in 1..(n - (g + 1)) /\ e2[j] = e[i]
        BY <2>0, <2>2, <2>4, <3>1
      <4> QED BY Zenon, <4>1
    <3>2. CASE i # n - g
      <4>1. i \in 1..(n - (g + 1)) /\ e2[i] = e[i]
        BY <2>0, <2>2, <2>4, <3>2
      <4> QED BY Zenon, <4>1
    <3> QED BY <3>1, <3>2
  <2> HIDE DEF e2
  <2>5. \A x \in 0..(n - 1) : Holds(r2, n, m, a, b2, x)
           \/ \E i \in 1..(n - (g + 1)) : e2[i] = x
    BY Zenon, <1>6, <2>1, <2>4
  <2>6. g + 1 <= n
    BY <1>1, <1>2
  <2> QED BY Zenon, <1>2, <2>3, <2>5, <2>6 DEF Spare
<1>8. RingOK(r2, n, m, a, b2)
  <2>1. ASSUME NEW i \in 0..g, NEW j \in 0..g,
               Entry(r2, n, a, i) = Entry(r2, n, a, j)
        PROVE  i = j
    <3>1. CASE i = g
      BY <1>1, <1>2, <1>4, <2>1, <3>1
    <3>2. CASE j = g
      BY <1>1, <1>2, <1>4, <2>1, <3>2
    <3>3. CASE i # g /\ j # g
      <4>1. i \in 0..(g - 1) /\ j \in 0..(g - 1)
        BY <1>4, <3>3
      <4> QED BY <1>1, <1>2, <2>1, <4>1
    <3> QED BY <3>1, <3>2, <3>3
  <2> QED BY <1>1, <1>2, <1>3, <1>5, <1>7, <2>1 DEF RingOK
<1> QED BY Zenon, <1>2, <1>6, <1>8 DEF g, r2, b2

(* Taking the entry at index a leaves the later ones as they are. *)
LEMMA Popped ==
  ASSUME NEW n, NEW m, Sizes(n, m), NEW ring, NEW a, NEW b,
         RingOK(ring, n, m, a, b), a # b
  PROVE  LET h == ring[a % n]
             a2 == (a + 1) % m
             g == Gap(a, b, m)
         IN  /\ g \in 1..(m - 1)
             /\ Gap(a2, b, m) = g - 1 /\ a2 \in 0..(m - 1)
             /\ \A i \in Int : Entry(ring, n, a2, i) = Entry(ring, n, a, i + 1)
             /\ Entry(ring, n, a, 0) = h /\ h \in 0..(n - 1)
<1> DEFINE g == Gap(a, b, m)
           h == ring[a % n]
           a2 == (a + 1) % m
<1>1. /\ n \in Nat \ {0} /\ m \in Nat \ {0} /\ m > n /\ m % n = 0
      /\ a \in 0..(m - 1) /\ b \in 0..(m - 1)
      /\ ring \in [0..(n - 1) -> 0..(n - 1)]
      /\ \A i, j \in 0..(g - 1) :
           Entry(ring, n, a, i) = Entry(ring, n, a, j) => i = j
  BY DEF Sizes, RingOK
<1>2. g \in 1..(m - 1)
  <2>1. g \in 0..(m - 1) /\ g # 0
    BY <1>1, GapIs
  <2> HIDE DEF g
  <2> QED BY <1>1, <2>1
<1>3. Gap(a2, b, m) = g - 1 /\ a2 \in 0..(m - 1)
  BY <1>1, GapTake
<1>4. ASSUME NEW i \in Int
      PROVE  Entry(ring, n, a2, i) = Entry(ring, n, a, i + 1)
  <2>1. a + 1 \in Int /\ (a + 1) + i = a + (i + 1)
    BY <1>1
  <2>2. (((a + 1) % m) + i) % n = ((a + 1) + i) % n
    <3>1. \A x, y \in Int : ((x % m) + y) % n = (x + y) % n
      BY <1>1, ModFirst
    <3> QED BY ONLY <2>1, <3>1, i \in Int
  <2> QED BY <2>1, <2>2 DEF Entry
<1>5. Entry(ring, n, a, 0) = h
  BY <1>1 DEF Entry
<1>6. h \in 0..(n - 1)
  <2>1. a % n \in 0..(n - 1)
    BY <1>1, ModDef
  <2> QED BY <1>1, <2>1
<1> QED BY <1>2, <1>3, <1>4, <1>5, <1>6

(* Taking the entry at index a removes it, and only it. *)
LEMMA Pop ==
  ASSUME NEW n, NEW m, Sizes(n, m), NEW ring, NEW a, NEW b,
         RingOK(ring, n, m, a, b), a # b
  PROVE  LET h == ring[a % n]
             a2 == (a + 1) % m
         IN  /\ RingOK(ring, n, m, a2, b)
             /\ h \in 0..(n - 1) /\ Holds(ring, n, m, a, b, h)
             /\ \A x : Holds(ring, n, m, a2, b, x) <=>
                        Holds(ring, n, m, a, b, x) /\ x # h
<1> DEFINE g == Gap(a, b, m)
           h == ring[a % n]
           a2 == (a + 1) % m
<1>1. /\ n \in Nat \ {0} /\ m \in Nat \ {0} /\ m > n /\ m % n = 0
      /\ a \in 0..(m - 1) /\ b \in 0..(m - 1)
      /\ ring \in [0..(n - 1) -> 0..(n - 1)]
      /\ \A i, j \in 0..(g - 1) :
           Entry(ring, n, a, i) = Entry(ring, n, a, j) => i = j
  BY DEF Sizes, RingOK
<1>2. g \in 1..(m - 1) /\ Gap(a2, b, m) = g - 1 /\ a2 \in 0..(m - 1)
  BY Popped
<1>3. \A i \in Int : Entry(ring, n, a2, i) = Entry(ring, n, a, i + 1)
  BY Popped
<1>4. Entry(ring, n, a, 0) = h /\ h \in 0..(n - 1)
  BY Popped
<1> HIDE DEF g, h, a2
<1>5. \A i \in 0..((g - 1) - 1) : i + 1 \in 0..(g - 1) /\ i + 1 # 0 /\ i \in Int
  BY <1>2
<1>6. \A i \in 0..(g - 1) : i = 0 \/ (i - 1 \in 0..((g - 1) - 1) /\ (i - 1) + 1 = i
                                         /\ i - 1 \in Int)
  BY <1>2
<1>7. 0 \in 0..(g - 1)
  BY <1>2
<1>8. Holds(ring, n, m, a, b, h)
  BY <1>4, <1>7 DEF Holds, g
<1>9. ASSUME NEW x
       PROVE  Holds(ring, n, m, a2, b, x) <=> Holds(ring, n, m, a, b, x) /\ x # h
  <2>1. ASSUME Holds(ring, n, m, a2, b, x)
        PROVE  Holds(ring, n, m, a, b, x) /\ x # h
    <3>1. PICK i \in 0..((g - 1) - 1) : Entry(ring, n, a2, i) = x
      BY <1>2, <2>1 DEF Holds
    <3>2. Entry(ring, n, a, i + 1) = x
      BY <1>3, <1>5, <3>1
    <3> QED BY <1>1, <1>4, <1>5, <1>7, <3>2 DEF Holds, g
  <2>2. ASSUME Holds(ring, n, m, a, b, x), x # h
        PROVE  Holds(ring, n, m, a2, b, x)
    <3>1. PICK i \in 0..(g - 1) : Entry(ring, n, a, i) = x
      BY <2>2 DEF Holds, g
    <3>2. i # 0
      BY <1>4, <2>2, <3>1
    <3>3. Entry(ring, n, a2, i - 1) = x
      BY <1>3, <1>6, <3>1, <3>2
    <3> QED BY <1>2, <1>6, <3>2, <3>3 DEF Holds
  <2> QED BY <2>1, <2>2
<1>10. Spare(ring, n, m, a2, b)
  <2>1. PICK e \in [1..(n - g) -> 0..(n - 1)] : \A x \in 0..(n - 1) :
          Holds(ring, n, m, a, b, x) \/ \E i \in 1..(n - g) : e[i] = x
    BY Zenon DEF RingOK, Spare, g
  <2>2. g <= n
    BY Zenon DEF RingOK, Spare, g
  <2> DEFINE e2 == [i \in 1..(n - (g - 1)) |-> IF i = n - (g - 1) THEN h ELSE e[i]]
  <2>0. n \in Nat /\ g \in Nat
    BY <1>1, <1>2
  <2>3. e2 \in [1..(n - (g - 1)) -> 0..(n - 1)]
    BY <1>4, <2>0
  <2>4. \A i \in 1..(n - g) : i \in 1..(n - (g - 1)) /\ e2[i] = e[i]
    BY <1>1, <1>2
  <2>5. n - (g - 1) \in 1..(n - (g - 1)) /\ e2[n - (g - 1)] = h
    BY <1>1, <1>2, <2>2
  <2> HIDE DEF e2
  <2>6. \A x \in 0..(n - 1) : Holds(ring, n, m, a2, b, x)
           \/ \E i \in 1..(n - (g - 1)) : e2[i] = x
    BY Zenon, <1>9, <2>1, <2>4, <2>5
  <2>7. g - 1 <= n
    BY <1>1, <1>2, <2>2
  <2> QED BY Zenon, <1>2, <2>3, <2>6, <2>7 DEF Spare
<1>11. RingOK(ring, n, m, a2, b)
  <2>1. ASSUME NEW i \in 0..((g - 1) - 1), NEW j \in 0..((g - 1) - 1),
               Entry(ring, n, a2, i) = Entry(ring, n, a2, j)
        PROVE  i = j
    <3>1. Entry(ring, n, a, i + 1) = Entry(ring, n, a, j + 1)
      BY <1>3, <1>5, <2>1
    <3>2. i + 1 = j + 1
      BY <1>1, <1>5, <3>1
    <3> QED BY <3>2
  <2> QED BY <1>1, <1>2, <1>10, <2>1 DEF RingOK
<1> QED BY Zenon, <1>4, <1>8, <1>9, <1>11 DEF g, h, a2

(* A ring with nothing between its indices holds nothing. *)
LEMMA Empty ==
  ASSUME NEW n, NEW m, Sizes(n, m), NEW ring, NEW a \in 0..(m - 1),
         ring \in [0..(n - 1) -> 0..(n - 1)]
  PROVE  RingOK(ring, n, m, a, a) /\ \A x : ~Holds(ring, n, m, a, a, x)
<1>1. Gap(a, a, m) = 0
  BY GapIs DEF Sizes
<1>2. 0..(0 - 1) = {}
  OBVIOUS
<1>3. \A x : ~Holds(ring, n, m, a, a, x)
  BY <1>1, <1>2 DEF Holds
<1>4. Spare(ring, n, m, a, a)
  <2> DEFINE f == n - Gap(a, a, m)
             e == [i \in 1..f |-> i - 1]
  <2>1. f = n /\ f \in Nat /\ Gap(a, a, m) <= n
    BY <1>1 DEF Sizes
  <2> HIDE DEF f
  <2>2. e \in [1..f -> 0..(n - 1)]
    BY <2>1
  <2>3. \A x \in 0..(n - 1) : x + 1 \in 1..f /\ e[x + 1] = x
    BY <2>1
  <2> HIDE DEF e
  <2>4. \A x \in 0..(n - 1) : \E i \in 1..f : e[i] = x
    BY Zenon, <2>3
  <2> QED BY Zenon, <2>1, <2>2, <2>4 DEF Spare, f
<1> QED BY <1>1, <1>2, <1>3, <1>4 DEF RingOK
=============================================================================
