--------------------------- MODULE DescChainProofs ---------------------------
(***************************************************************************)
(* What get_desc_rw_size, memcpy_from_queue and memcpy_to_queue return and *)
(* copy, for every table, every chain in it that ends, every layout of the *)
(* buffers and every range.                                                *)
(*                                                                         *)
(* ChainInv is the inductive invariant: the function is at some descriptor *)
(* k of the chain, and what it has added up, has still to skip or has      *)
(* copied is what the flat layout says for that k.  It is stated for any   *)
(* layout Flat describes, so that no step has to look into the definition  *)
(* of the reference; that the reference is such a layout, for every table, *)
(* is FlatRef, by induction along the chain (Least).                       *)
(***************************************************************************)
EXTENDS DescChain, WellFoundedInduction, TLAPS

(* The chain s of n descriptors, the bytes at[k] of its first k, its        *)
(* readable descriptors 1..r and, right behind them, writable ones up to w. *)
Flat(n, s, at, r, w) ==
  /\ n \in 1..N /\ s \in [1..n -> Descs] /\ IsChain(s, n)
  /\ at \in [0..n -> Nat] /\ at[0] = 0
  /\ \A k \in 1..n : at[k] = at[k - 1] + desc[s[k]].len
  /\ r \in 0..n /\ EndsRun(s, n, 0, FALSE, r)
  /\ w \in r..n /\ EndsRun(s, n, r, TRUE, w)

(* The segment the copy is about, descriptors lo + 1 to hi, and the bytes   *)
(* W it has to move.                                                        *)
SegOf(ds, f, a, s, at, r, w, lo, hi, W) ==
  /\ lo = (IF f = "from" THEN 0 ELSE r) /\ hi = (IF f = "from" THEN r ELSE w)
  /\ W = {m \in UNION {{<<at[k - 1] - at[lo] - a.offset + j, Base[s[k]] + j - 1>> :
                            j \in 1..ds[s[k]].len} : k \in (lo + 1)..hi} :
            m[1] \in 1..a.count}
Seg(s, at, r, w, lo, hi, W) == SegOf(desc, fn, arg, s, at, r, w, lo, hi, W)

(* Of the first x bytes, all are copied that lie in guest memory. *)
Complete(W, x) == \A m \in W : m[1] <= x => m \in moved \/ m[2] > MemSize

-----------------------------------------------------------------------------
(* What holds with descriptor k of the chain at hand, by place.             *)
SizeReadAt(at, r, k) ==
  /\ pc = "sizeRead" /\ fn = "size" /\ ret = 0
  /\ k <= r + 1 /\ read_size = at[k - 1] % IntMod /\ write_size = 0
SizeWriteAt(at, r, w, k) ==
  /\ pc = "sizeWrite" /\ fn = "size" /\ ret = 0
  /\ k \in (r + 1)..(w + 1) /\ read_size = at[r] % IntMod
  /\ write_size = (at[k - 1] - at[r]) % IntMod
SizeDone(n, at, r, w) ==
  /\ pc = "done" /\ fn = "size" /\ ret \in {0, -1}
  /\ (ret = 0) = (w = n)
  /\ ret = 0 => read_size = at[r] % IntMod /\ write_size = (at[w] - at[r]) % IntMod

SkipAt(r, k) ==
  /\ pc = "skip" /\ fn = "to" /\ k <= r + 1
  /\ offset = arg.offset /\ count = arg.count /\ moved = {}
SeekAt(at, lo, hi, k) ==
  /\ pc = "seek" /\ fn \in {"from", "to"} /\ k \in (lo + 1)..(hi + 1)
  /\ offset \in Nat /\ at[k - 1] - at[lo] + offset = arg.offset
  /\ count = arg.count /\ moved = {}
InSegment(at, lo, hi, W, k) ==
  /\ fn \in {"from", "to"} /\ arg.count > 0 /\ k \in (lo + 1)..hi
  /\ offset \in 0..len /\ count \in 1..arg.count
  /\ at[k - 1] - at[lo] + offset = arg.offset + arg.count - count
  /\ moved \subseteq W
CopyAt(at, lo, hi, W, k) ==
  /\ pc = "copy" /\ InSegment(at, lo, hi, W, k)
  /\ Complete(W, arg.count - count)
ChunkAt(at, lo, hi, W, k) ==
  /\ pc = "chunk" /\ InSegment(at, lo, hi, W, k)
  /\ left \in 0..Piece /\ addr \in Nat
  /\ left > 0 => left = Piece - (addr - Base[d] - offset)
  /\ Complete(W, arg.count - count + Piece - left)
CopyDone(at, lo, hi, W) ==
  /\ pc = "done" /\ fn \in {"from", "to"} /\ ret \in {0, -1}
  /\ (ret = 0) = (arg.count = 0 \/ arg.offset + arg.count <= at[hi] - at[lo])
  /\ moved \subseteq W
  /\ ret = 0 => Complete(W, arg.count)

Place(n, at, r, w, lo, hi, W, k) ==
  \/ SizeReadAt(at, r, k) \/ SizeWriteAt(at, r, w, k) \/ SizeDone(n, at, r, w)
  \/ SkipAt(r, k) \/ SeekAt(at, lo, hi, k) \/ CopyAt(at, lo, hi, W, k)
  \/ ChunkAt(at, lo, hi, W, k) \/ CopyDone(at, lo, hi, W)
OnChain(n, s, at, r, w, lo, hi, W) ==
  \E k \in 1..n : d = s[k] /\ i \in 0..(k - 1) /\ Place(n, at, r, w, lo, hi, W, k)

(* The table and the arguments stay as they are; the function is somewhere  *)
(* on the chain, if that ends.                                              *)
Args == desc \in Tables /\ arg \in [offset : 0..MaxOffset, count : 0..MaxCount]
ChainInv ==
  /\ Args
  /\ \A n, s, at, r, w, lo, hi, W :
       Flat(n, s, at, r, w) /\ Seg(s, at, r, w, lo, hi, W)
         => OnChain(n, s, at, r, w, lo, hi, W)

-----------------------------------------------------------------------------
(* A set of natural numbers has a least element. *)
LEMMA Least ==
  ASSUME NEW T \in SUBSET Nat, T # {}
  PROVE  \E x \in T : \A y \in T : x <= y
<1>1. PICK x \in T : \A y \in T : <<y, x>> \notin OpToRel(<, Nat)
  BY Zenon, WFMin, NatLessThanWellFounded
<1>2. \A y \in T : ~(y < x)
  BY Zenon, <1>1 DEF OpToRel
<1> QED BY <1>2

(* Quotient and remainder. *)
LEMMA Division ==
  ASSUME NEW m \in Nat \ {0}, NEW x \in Int
  PROVE  /\ x % m \in 0..(m - 1) /\ x \div m \in Int
         /\ x = ((x \div m) * m) + (x % m)
<1>1. x % m \in Int /\ 0 <= x % m /\ x % m < m
  OBVIOUS
<1>2. x \div m \in Int
  OBVIOUS
<1>3. x = ((x \div m) * m) + (x % m)
  OBVIOUS
<1> QED BY <1>1, <1>2, <1>3

(* Running sums exist. *)
LEMMA SumsExist ==
  ASSUME NEW n \in Nat, NEW f \in [1..n -> Nat]
  PROVE  \E at \in [0..n -> Nat] : at[0] = 0 /\ \A k \in 1..n : at[k] = at[k - 1] + f[k]
<1> DEFINE P(m) == \E at \in [0..m -> Nat] :
                     at[0] = 0 /\ \A k \in 1..m : at[k] = at[k - 1] + f[k]
           T == {m \in 0..n : ~P(m)}
<1> HIDE DEF P
<1>1. SUFFICES ASSUME ~P(n) PROVE FALSE
  BY Zenon DEF P
<1>2. PICK m \in T : \A y \in T : m <= y
  <2>1. n \in T /\ T \in SUBSET Nat
    BY <1>1
  <2> QED BY Zenon, <2>1, Least
<1>3. P(0)
  <2> DEFINE at == [k \in 0..0 |-> 0]
  <2>1. at \in [0..0 -> Nat] /\ at[0] = 0 /\ \A k \in 1..0 : at[k] = at[k - 1] + f[k]
    OBVIOUS
  <2> QED BY Zenon, <2>1 DEF P
<1>4. m \in 1..n /\ m - 1 \in 0..n /\ m - 1 \notin T
  BY <1>2, <1>3
<1>5. P(m - 1)
  BY <1>4
<1>6. PICK at \in [0..(m - 1) -> Nat] :
        at[0] = 0 /\ \A k \in 1..(m - 1) : at[k] = at[k - 1] + f[k]
  BY Zenon, <1>5 DEF P
<1> DEFINE bt == [k \in 0..m |-> IF k = m THEN at[m - 1] + f[m] ELSE at[k]]
<1>7. bt \in [0..m -> Nat]
  BY <1>4, <1>6
<1>8. bt[0] = 0 /\ \A k \in 1..m : bt[k] = bt[k - 1] + f[k]
  BY <1>4, <1>6
<1>9. P(m)
  <2> HIDE DEF bt
  <2> QED BY Zenon, <1>7, <1>8 DEF P
<1> QED BY <1>2, <1>9

(* Running sums do not decrease. *)
LEMMA Increasing ==
  ASSUME NEW n \in Nat, NEW at \in [0..n -> Nat],
         \A k \in 1..n : at[k] >= at[k - 1],
         NEW a \in 0..n, NEW b \in a..n
  PROVE  at[a] <= at[b]
<1> DEFINE T == {x \in a..n : ~(at[a] <= at[x])}
<1>1. SUFFICES ASSUME b \in T PROVE FALSE
  OBVIOUS
<1>2. PICK x \in T : \A y \in T : x <= y
  <2>1. T \in SUBSET Nat
    OBVIOUS
  <2> QED BY Zenon, <1>1, <2>1, Least
<1>3. x # a /\ x - 1 \in a..n /\ x \in 1..n
  BY <1>2
<1>4. x - 1 \notin T
  BY <1>2, <1>3
<1> QED BY <1>2, <1>3, <1>4

(* A run of descriptors of one direction ends somewhere. *)
LEMMA RunExists ==
  ASSUME NEW n \in Nat, NEW s, NEW k \in 0..n, NEW write
  PROVE  \E e \in k..n : EndsRun(s, n, k, write, e)
<1> DEFINE T == {e \in k..n : e = n \/ desc[s[e + 1]].write # write}
<1>1. n \in T
  OBVIOUS
<1>2. PICK e \in T : \A y \in T : e <= y
  <2>1. T \in SUBSET Nat
    OBVIOUS
  <2> QED BY Zenon, <1>1, <2>1, Least
<1>3. \A j \in (k + 1)..e : desc[s[j]].write = write
  <2> TAKE j \in (k + 1)..e
  <2>1. j - 1 \in k..n /\ j - 1 < e /\ (j - 1) + 1 = j
    BY <1>2
  <2> QED BY <1>2, <2>1
<1> QED BY <1>2, <1>3 DEF EndsRun

(* Layout is the running sum it is written as. *)
LEMMA LayoutIs ==
  ASSUME Length \in Nat, \A k \in 1..Length : desc[Chain[k]].len \in Nat
  PROVE  /\ Layout \in [0..Length -> Nat] /\ Layout[0] = 0
         /\ \A k \in 1..Length : Layout[k] = Layout[k - 1] + desc[Chain[k]].len
<1> DEFINE n == Length
           f == [k \in 1..n |-> desc[Chain[k]].len]
           Def(g) == [k \in 0..n |-> IF k = 0 THEN 0 ELSE g[k - 1] + desc[Chain[k]].len]
<1>1. f \in [1..n -> Nat] /\ n \in Nat
  OBVIOUS
<1>2. PICK g \in [0..n -> Nat] : g[0] = 0 /\ \A k \in 1..n : g[k] = g[k - 1] + f[k]
  <2> HIDE DEF f, n
  <2> QED BY Zenon, <1>1, SumsExist
<1>3. g = Def(g)
  BY <1>1, <1>2
<1>4. Layout = Def(Layout)
  BY Zenon, <1>3 DEF Layout
<1>5. \A k \in 0..n : Layout[k] = IF k = 0 THEN 0 ELSE Layout[k - 1] + desc[Chain[k]].len
  BY <1>4
<1> DEFINE T == {k \in 0..n : Layout[k] # g[k]}
<1>6. T = {}
  <2>1. SUFFICES ASSUME T # {} PROVE FALSE
    OBVIOUS
  <2>2. PICK x \in T : \A y \in T : x <= y
    <3>1. T \in SUBSET Nat
      BY <1>1
    <3> QED BY Zenon, <2>1, <3>1, Least
  <2>3. x \in 0..n /\ Layout[x] # g[x] /\ \A y \in 0..n : y < x => Layout[y] = g[y]
    BY <1>1, <2>2
  <2>4. x \in 1..n /\ x - 1 \in 0..n
    BY <1>1, <1>2, <1>5, <2>3
  <2>5. Layout[x] = Layout[x - 1] + f[x] /\ g[x] = g[x - 1] + f[x]
    BY <1>2, <1>5, <2>4
  <2> QED BY <1>1, <2>3, <2>4, <2>5
<1>7. \A k \in 0..n : Layout[k] = g[k]
  BY <1>6
<1>8. Layout \in [0..n -> Nat]
  BY <1>2, <1>4, <1>7
<1>9. 0 \in 0..n /\ \A k \in 1..n : k \in 0..n /\ k # 0
  BY <1>1
<1> QED BY Zenon, <1>5, <1>8, <1>9

(* A chain that ends has the layout the reference speaks of. *)
LEMMA FlatRef ==
  ASSUME Args, Ends
  PROVE  Flat(Length, Chain, Layout, ReadEnd, WriteEnd)
<1>1. Length \in 1..N /\ HasLength(Length)
  BY Zenon DEF Ends, Length
<1>2. Chain \in [1..Length -> Descs] /\ IsChain(Chain, Length)
  BY Zenon, <1>1 DEF HasLength, Chain
<1>3. Length \in Nat /\ 0 \in 0..Length
  BY <1>1, ChainAssumption
<1>4. \A k \in 1..Length : desc[Chain[k]].len \in Nat
  BY Zenon, <1>2, ChainAssumption DEF Args, Tables
<1>5. /\ Layout \in [0..Length -> Nat] /\ Layout[0] = 0
      /\ \A k \in 1..Length : Layout[k] = Layout[k - 1] + desc[Chain[k]].len
  BY Zenon, <1>3, <1>4, LayoutIs
<1>6. ReadEnd \in 0..Length /\ EndsRun(Chain, Length, 0, FALSE, ReadEnd)
  BY Zenon, <1>3, RunExists DEF ReadEnd, RunEnd
<1>7. WriteEnd \in ReadEnd..Length /\ EndsRun(Chain, Length, ReadEnd, TRUE, WriteEnd)
  BY Zenon, <1>3, <1>6, RunExists DEF WriteEnd, RunEnd
<1> QED BY Zenon, <1>1, <1>2, <1>5, <1>6, <1>7 DEF Flat

-----------------------------------------------------------------------------
(* What the layout says of descriptor k, the one at hand. *)
Bounds(n, r, w, k) ==
  /\ n \in Nat /\ k \in Nat /\ r \in Nat /\ w \in Nat
  /\ 1 <= k /\ k <= n /\ n <= N /\ N <= HopLimit /\ r <= w /\ w <= n
Links(n, s, k) ==
  /\ HasNext \in BOOLEAN /\ (HasNext <=> k < n)
  /\ HasNext => desc[d].next = s[k + 1] /\ k + 1 \in 1..n
Sums(at, r, w, k) ==
  /\ at[k - 1] \in Nat /\ at[k] \in Nat /\ at[r] \in Nat /\ at[w] \in Nat
  /\ at[0] = 0 /\ len \in Nat /\ at[k] = at[k - 1] + len
Sides(r, w, k) ==
  /\ Writable \in BOOLEAN
  /\ k <= r => ~Writable
  /\ k = r + 1 => Writable /\ k <= w
  /\ r < k /\ k <= w => Writable
  /\ k = w + 1 => ~Writable

(* They follow from the layout. *)
LEMMA Here ==
  ASSUME Args, NEW n, NEW s, NEW at, NEW r, NEW w, Flat(n, s, at, r, w),
         NEW k \in 1..n, d = s[k]
  PROVE  Bounds(n, r, w, k) /\ Links(n, s, k) /\ Sums(at, r, w, k) /\ Sides(r, w, k)
<1>1. Bounds(n, r, w, k)
  <2>1. n \in 1..N /\ r \in 0..n /\ w \in r..n
    BY Zenon DEF Flat
  <2> QED BY <2>1, ChainAssumption DEF Bounds
<1>2. s \in [1..n -> Descs] /\ s[k] \in Descs
  BY Zenon DEF Flat
<1>3. len \in Nat /\ Writable \in BOOLEAN
  BY Zenon, <1>2, ChainAssumption DEF Args, Tables, len, Writable
<1>4. Links(n, s, k)
  <2>1. \A j \in 1..(n - 1) : desc[s[j]].next = s[j + 1]
    BY Zenon DEF Flat, IsChain
  <2>2. desc[s[n]].next = 0
    BY Zenon DEF Flat, IsChain
  <2>3. k < n => k \in 1..(n - 1) /\ k + 1 \in 1..n
    BY <1>1 DEF Bounds
  <2>4. \A j \in 1..n : s[j] # 0
    BY <1>2, ChainAssumption DEF Descs
  <2>5. CASE k < n
    BY <2>1, <2>3, <2>4, <2>5 DEF HasNext, Links
  <2>6. CASE ~(k < n)
    BY <1>1, <2>2, <2>6 DEF HasNext, Links, Bounds
  <2> QED BY <2>5, <2>6
<1>5. Sums(at, r, w, k)
  <2>1. at \in [0..n -> Nat] /\ at[0] = 0 /\ at[k] = at[k - 1] + len
    BY Zenon DEF Flat, len
  <2> QED BY <1>1, <1>3, <2>1 DEF Sums, Bounds
<1>6. Sides(r, w, k)
  <2>1. /\ \A j \in 1..r : desc[s[j]].write = FALSE
        /\ r = n \/ desc[s[r + 1]].write # FALSE
    <3>1. 0 + 1 = 1
      OBVIOUS
    <3> QED BY Zenon, <3>1 DEF Flat, EndsRun
  <2>2. /\ \A j \in (r + 1)..w : desc[s[j]].write = TRUE
        /\ w = n \/ desc[s[w + 1]].write # TRUE
    BY Zenon DEF Flat, EndsRun
  <2>3. k <= r => ~Writable
    BY <1>1, <2>1 DEF Bounds, Writable
  <2>4. k = r + 1 => Writable
    <3>1. k = r + 1 => r # n
      BY <1>1 DEF Bounds
    <3> QED BY Zenon, <1>3, <2>1, <3>1 DEF Writable
  <2>5. r < k /\ k <= w => Writable
    BY <1>1, <2>2 DEF Bounds, Writable
  <2>6. k = w + 1 => ~Writable
    <3>1. k = w + 1 => w # n
      BY <1>1 DEF Bounds
    <3> QED BY Zenon, <1>3, <2>2, <3>1 DEF Writable
  <2>7. k = r + 1 => k <= w
    BY <1>1, <2>4, <2>6 DEF Bounds
  <2> QED BY Zenon, <1>3, <2>3, <2>4, <2>5, <2>6, <2>7 DEF Sides
<1> QED BY Zenon, <1>1, <1>4, <1>5, <1>6

(* Adding to a sum that has wrapped. *)
LEMMA ModAdd ==
  ASSUME NEW x \in Int, NEW y \in Int
  PROVE  ((x % IntMod) + y) % IntMod = (x + y) % IntMod
<1> DEFINE m == IntMod
           p == x \div m
           a == x % m
           q == (a + y) \div m
           b == (a + y) % m
           s == (x + y) \div m
           c == (x + y) % m
<1>1. m \in Nat \ {0} /\ x + y \in Int
  BY ChainAssumption
<1>2. a \in 0..(m - 1) /\ p \in Int /\ x = (p * m) + a
  BY Zenon, <1>1, Division
<1>3. a + y \in Int
  BY <1>1, <1>2
<1>4. b \in 0..(m - 1) /\ q \in Int /\ a + y = (q * m) + b
  BY Zenon, <1>1, <1>3, Division
<1>5. c \in 0..(m - 1) /\ s \in Int /\ x + y = (s * m) + c
  BY Zenon, <1>1, Division
<1> HIDE DEF m, p, a, q, b, s, c
<1>6. ((p + q) - s) * m = c - b
  <2>1. ((p + q) - s) * m = (p * m) + (q * m) - (s * m)
    BY <1>1, <1>2, <1>4, <1>5
  <2>2. p * m \in Int /\ q * m \in Int /\ s * m \in Int
    BY <1>1, <1>2, <1>4, <1>5
  <2> QED BY <1>1, <1>2, <1>4, <1>5, <2>1, <2>2
<1>7. ((p + q) - s) * m > 0 - m /\ ((p + q) - s) * m < m
  BY <1>1, <1>4, <1>5, <1>6
<1>8. (p + q) - s = 0
  BY <1>1, <1>2, <1>4, <1>5, <1>7
<1>9. c - b = 0
  BY <1>1, <1>6, <1>8
<1>10. b = c
  BY <1>4, <1>5, <1>9
<1> QED BY Zenon, <1>10 DEF a, b, c, m

(* The step that follows next. *)
LEMMA Onward ==
  ASSUME NEW n, NEW s, NEW at, NEW r, NEW w, NEW lo, NEW hi, NEW W, NEW k,
         Bounds(n, r, w, k), Links(n, s, k), HasNext, d' = desc[d].next,
         i \in 0..(k - 1), i' \in {i, i + 1, 0},
         Place(n, at, r, w, lo, hi, W, k + 1)'
  PROVE  OnChain(n, s, at, r, w, lo, hi, W)'
<1>1. d' = s[k + 1] /\ k + 1 \in 1..n
  BY Zenon DEF Links
<1>2. i' \in 0..((k + 1) - 1)
  BY DEF Bounds
<1> QED BY Zenon, <1>1, <1>2 DEF OnChain

(* get_desc_rw_size: one turn of either loop. *)
LEMMA SizeStepOn ==
  ASSUME Args, NEW n, NEW s, NEW at, NEW r, NEW w, NEW lo, NEW hi, NEW W,
         Flat(n, s, at, r, w), OnChain(n, s, at, r, w, lo, hi, W), SizeStep
  PROVE  OnChain(n, s, at, r, w, lo, hi, W)'
<1>1. PICK k \in 1..n : d = s[k] /\ i \in 0..(k - 1) /\ Place(n, at, r, w, lo, hi, W, k)
  BY Zenon DEF OnChain
<1>2. Bounds(n, r, w, k) /\ Links(n, s, k) /\ Sums(at, r, w, k) /\ Sides(r, w, k)
  BY Zenon, <1>1, Here
<1>3. IntMod \in Nat \ {0} /\ 0 % IntMod = 0
  BY ChainAssumption
<1>4. UNCHANGED <<desc, fn, arg, i, ret>>
  BY DEF SizeStep, args, locals
<1>5. CASE SizeReadAt(at, r, k) /\ Writable
  <2>1. pc' = "sizeWrite" /\ UNCHANGED <<d, read_size, write_size>>
    BY <1>5 DEF SizeStep, SizeReadAt, sizes
  <2>2. k = r + 1 /\ k <= w
    BY <1>2, <1>5 DEF SizeReadAt, Bounds, Sides
  <2>3. SizeWriteAt(at, r, w, k)'
    BY <1>2, <1>3, <1>4, <1>5, <2>1, <2>2 DEF SizeReadAt, SizeWriteAt, Bounds, Sums
  <2> QED BY Zenon, <1>1, <1>4, <2>1, <2>3 DEF OnChain, Place
<1>6. CASE SizeReadAt(at, r, k) /\ ~Writable
  <2>1. read_size' = Sum(read_size) /\ write_size' = write_size
    BY <1>6 DEF SizeStep, SizeReadAt
  <2>2. k <= r
    BY <1>2, <1>6 DEF SizeReadAt, Bounds, Sides
  <2>3. read_size' = at[k] % IntMod
    <3>1. at[k - 1] \in Int /\ len \in Int /\ at[k] = at[k - 1] + len
      BY <1>2 DEF Sums
    <3> QED BY Zenon, <1>6, <2>1, <3>1, ModAdd DEF SizeReadAt, Sum
  <2>4. CASE HasNext
    <3>1. d' = desc[d].next /\ pc' = pc
      BY <1>6, <2>4 DEF SizeStep, SizeReadAt
    <3>2. (k + 1) - 1 = k /\ k + 1 <= r + 1
      BY <1>2, <2>2 DEF Bounds
    <3>3. SizeReadAt(at, r, k + 1)'
      BY Zenon, <1>4, <1>6, <2>1, <2>3, <3>1, <3>2 DEF SizeReadAt
    <3> QED BY Zenon, <1>1, <1>2, <1>4, <2>4, <3>1, <3>3, Onward DEF Place
  <2>5. CASE ~HasNext
    <3>1. d' = d /\ pc' = "done"
      BY <1>6, <2>5 DEF SizeStep, SizeReadAt
    <3>2. k = n /\ r = n /\ w = n
      BY <1>2, <2>2, <2>5 DEF Bounds, Links
    <3>3. SizeDone(n, at, r, w)'
      BY <1>2, <1>3, <1>4, <1>6, <2>1, <2>3, <3>1, <3>2 DEF SizeReadAt, SizeDone, Sums
    <3> QED BY Zenon, <1>1, <1>4, <3>1, <3>3 DEF OnChain, Place
  <2> QED BY <2>4, <2>5
<1>7. CASE SizeWriteAt(at, r, w, k)
  <2>1. Writable
    BY <1>7 DEF SizeStep, SizeWriteAt
  <2>2. read_size' = read_size /\ write_size' = Sum(write_size)
    BY <1>7, <2>1 DEF SizeStep, SizeWriteAt
  <2>3. k <= w
    BY <1>2, <1>7, <2>1 DEF SizeWriteAt, Bounds, Sides
  <2>4. write_size' = (at[k] - at[r]) % IntMod
    <3>1. /\ at[k - 1] - at[r] \in Int /\ len \in Int
          /\ at[k] - at[r] = (at[k - 1] - at[r]) + len
      BY <1>2 DEF Sums
    <3> QED BY Zenon, <1>7, <2>2, <3>1, ModAdd DEF SizeWriteAt, Sum
  <2>5. CASE HasNext
    <3>1. d' = desc[d].next /\ pc' = pc
      BY <1>7, <2>1, <2>5 DEF SizeStep, SizeWriteAt
    <3>2. (k + 1) - 1 = k /\ k + 1 \in (r + 1)..(w + 1)
      BY <1>2, <1>7, <2>3 DEF Bounds, SizeWriteAt
    <3>3. SizeWriteAt(at, r, w, k + 1)'
      BY Zenon, <1>4, <1>7, <2>2, <2>4, <3>1, <3>2 DEF SizeWriteAt
    <3> QED BY Zenon, <1>1, <1>2, <1>4, <2>5, <3>1, <3>3, Onward DEF Place
  <2>6. CASE ~HasNext
    <3>1. d' = d /\ pc' = "done"
      BY <1>7, <2>1, <2>6 DEF SizeStep, SizeWriteAt
    <3>2. k = n /\ w = n
      BY <1>2, <2>3, <2>6 DEF Bounds, Links
    <3>3. SizeDone(n, at, r, w)'
      BY <1>4, <1>7, <2>2, <2>4, <3>1, <3>2 DEF SizeWriteAt, SizeDone
    <3> QED BY Zenon, <1>1, <1>4, <3>1, <3>3 DEF OnChain, Place
  <2> QED BY <2>5, <2>6
<1>8. SizeReadAt(at, r, k) \/ SizeWriteAt(at, r, w, k)
  BY <1>1 DEF Place, SizeStep, SizeDone, SkipAt, SeekAt, CopyAt, ChunkAt, CopyDone
<1> QED BY Zenon, <1>5, <1>6, <1>7, <1>8

(* The segment of a copy: its ends, and the direction of its descriptors,   *)
(* which the one behind it does not have.                                   *)
Ordered(n, at, lo, hi, k) ==
  /\ lo \in Nat /\ hi \in Nat /\ lo <= hi /\ hi <= n
  /\ at[lo] \in Nat /\ at[hi] \in Nat /\ at[lo] <= at[hi]
  /\ lo < k /\ k <= hi => at[lo] <= at[k - 1] /\ at[k] <= at[hi]
Directed(n, s, lo, hi) ==
  \A j \in 1..n : lo < j /\ j <= hi + 1 => (desc[s[j]].write = f_write_flag <=> j <= hi)

(* They follow from the layout too. *)
LEMMA InFlat ==
  ASSUME Args, NEW n, NEW s, NEW at, NEW r, NEW w, NEW lo, NEW hi, NEW W,
         Flat(n, s, at, r, w), Seg(s, at, r, w, lo, hi, W), fn \in {"from", "to"},
         NEW k \in 1..n
  PROVE  Ordered(n, at, lo, hi, k) /\ Directed(n, s, lo, hi)
<1>1. n \in Nat /\ r \in Nat /\ w \in Nat /\ r <= w /\ w <= n
  <2>1. n \in 1..N /\ r \in 0..n /\ w \in r..n
    BY Zenon DEF Flat
  <2> QED BY <2>1, ChainAssumption
<1>2. /\ fn = "from" => lo = 0 /\ hi = r
      /\ fn = "to" => lo = r /\ hi = w
  BY DEF Seg, SegOf
<1>3. lo \in 0..n /\ hi \in lo..n
  BY <1>1, <1>2
<1>4. at \in [0..n -> Nat]
  BY Zenon DEF Flat
<1>5. \A j \in 1..n : at[j] >= at[j - 1]
  <2> TAKE j \in 1..n
  <2>1. at[j] = at[j - 1] + desc[s[j]].len /\ s[j] \in Descs
    BY Zenon DEF Flat
  <2>2. desc[s[j]].len \in Nat
    BY Zenon, <2>1, ChainAssumption DEF Args, Tables
  <2>3. at[j - 1] \in Nat
    BY <1>1, <1>4
  <2> QED BY <2>1, <2>2, <2>3
<1>6. \A a \in 0..n : \A b \in a..n : at[a] <= at[b]
  BY Zenon, <1>1, <1>4, <1>5, Increasing
<1>7. Ordered(n, at, lo, hi, k)
  <2>1. at[lo] <= at[hi] /\ lo \in Nat /\ hi \in Nat /\ lo <= hi /\ hi <= n
    BY <1>1, <1>3, <1>6
  <2>2. at[lo] \in Nat /\ at[hi] \in Nat
    BY <1>1, <1>3, <1>4
  <2>3. ASSUME lo < k, k <= hi PROVE at[lo] <= at[k - 1] /\ at[k] <= at[hi]
    <3>1. k - 1 \in lo..n /\ k \in 0..n /\ hi \in k..n
      BY <1>1, <1>3, <2>3
    <3> QED BY <1>3, <1>6, <3>1
  <2> QED BY Zenon, <2>1, <2>2, <2>3 DEF Ordered
<1>8. ASSUME NEW j \in 1..n, lo < j, j <= hi + 1
      PROVE  desc[s[j]].write = f_write_flag <=> j <= hi
  <2>1. s[j] \in Descs
    BY Zenon DEF Flat
  <2>2. desc[s[j]].write \in BOOLEAN
    BY <2>1 DEF Args, Tables
  <2>3. /\ \A l \in 1..r : desc[s[l]].write = FALSE
        /\ r = n \/ desc[s[r + 1]].write # FALSE
    <3>1. 0 + 1 = 1
      OBVIOUS
    <3> QED BY Zenon, <3>1 DEF Flat, EndsRun
  <2>4. /\ \A l \in (r + 1)..w : desc[s[l]].write = TRUE
        /\ w = n \/ desc[s[w + 1]].write # TRUE
    BY Zenon DEF Flat, EndsRun
  <2>5. CASE fn = "from"
    <3>1. f_write_flag = FALSE
      BY <2>5 DEF f_write_flag
    <3>2. (j <= hi => j \in 1..r) /\ (~(j <= hi) => j = r + 1 /\ r # n)
      BY <1>1, <1>2, <1>8, <2>5
    <3> QED BY Zenon, <2>3, <3>1, <3>2
  <2>6. CASE fn = "to"
    <3>1. f_write_flag = TRUE
      BY <2>6 DEF f_write_flag
    <3>2. (j <= hi => j \in (r + 1)..w) /\ (~(j <= hi) => j = w + 1 /\ w # n)
      BY <1>1, <1>2, <1>8, <2>6
    <3> QED BY Zenon, <2>4, <3>1, <3>2
  <2> QED BY <2>5, <2>6
<1> QED BY Zenon, <1>7, <1>8 DEF Directed

(* Number p of the copy, when within descriptor k, whose first byte is      *)
(* number a + 1, is where the code computes it to be.                       *)
Sited(s, W, k, a) ==
  /\ \A p \in 1..arg.count : a < p /\ p <= a + desc[s[k]].len
       => <<p, Base[s[k]] + (p - a - 1)>> \in W
  /\ \A m \in W : a < m[1] /\ m[1] <= a + desc[s[k]].len
       => m = <<m[1], Base[s[k]] + (m[1] - a - 1)>>
  /\ \A m \in W : m[1] \in 1..arg.count

(* It is so for every descriptor of the segment. *)
LEMMA BytesHere ==
  ASSUME Args, NEW n, NEW s, NEW at, NEW r, NEW w, NEW lo, NEW hi, NEW W,
         Flat(n, s, at, r, w), Seg(s, at, r, w, lo, hi, W), fn \in {"from", "to"},
         NEW k \in (lo + 1)..hi, NEW a, a = at[k - 1] - at[lo] - arg.offset
  PROVE  Sited(s, W, k, a)
<1>1. n \in Nat /\ r \in Nat /\ w \in Nat /\ r <= w /\ w <= n
  <2>1. n \in 1..N /\ r \in 0..n /\ w \in r..n
    BY Zenon DEF Flat
  <2> QED BY <2>1, ChainAssumption
<1>2. lo \in 0..n /\ hi \in lo..n /\ k \in 1..n
  <2>1. /\ fn = "from" => lo = 0 /\ hi = r
        /\ fn = "to" => lo = r /\ hi = w
    BY DEF Seg, SegOf
  <2> QED BY <1>1, <2>1
<1>3. at \in [0..n -> Nat] /\ s \in [1..n -> Descs]
  BY Zenon DEF Flat
<1>4. \A j \in 1..n : at[j] = at[j - 1] + desc[s[j]].len /\ desc[s[j]].len \in Nat
  <2> TAKE j \in 1..n
  <2>1. at[j] = at[j - 1] + desc[s[j]].len /\ s[j] \in Descs
    BY Zenon DEF Flat
  <2> QED BY Zenon, <2>1, ChainAssumption DEF Args, Tables
<1>5. \A x \in 0..n : \A y \in x..n : at[x] <= at[y]
  <2>1. \A j \in 1..n : at[j] >= at[j - 1]
    <3> TAKE j \in 1..n
    <3>1. at[j - 1] \in Nat
      BY <1>1, <1>3
    <3> QED BY <1>4, <3>1
  <2> QED BY Zenon, <1>1, <1>3, <2>1, Increasing
<1>6. arg.offset \in Nat /\ arg.count \in Nat
  BY ChainAssumption DEF Args
<1>7. Base[s[k]] \in Nat
  BY <1>2, <1>3, ChainAssumption DEF Descs
<1>8. a \in Int
  BY <1>1, <1>2, <1>3, <1>6
<1> DEFINE Byte(l, j) == <<at[l - 1] - at[lo] - arg.offset + j, Base[s[l]] + j - 1>>
<1>9. /\ \A l \in (lo + 1)..hi : \A j \in 1..desc[s[l]].len :
           Byte(l, j)[1] \in 1..arg.count => Byte(l, j) \in W
      /\ \A m \in W : /\ m[1] \in 1..arg.count
                      /\ \E l \in (lo + 1)..hi : \E j \in 1..desc[s[l]].len : m = Byte(l, j)
  <2>1. W = {m \in UNION {{Byte(l, j) : j \in 1..desc[s[l]].len} : l \in (lo + 1)..hi} :
               m[1] \in 1..arg.count}
    BY Zenon DEF Seg, SegOf
  <2> HIDE DEF Byte
  <2>2. \A m : m \in W <=> /\ m[1] \in 1..arg.count
                          /\ \E l \in (lo + 1)..hi : m \in {Byte(l, j) : j \in 1..desc[s[l]].len}
    BY Zenon, <2>1
  <2> QED BY Zenon, <2>2
<1>10. ASSUME NEW p \in 1..arg.count, a < p, p <= a + desc[s[k]].len
       PROVE  <<p, Base[s[k]] + (p - a - 1)>> \in W
  <2>1. p - a \in 1..desc[s[k]].len
    BY <1>2, <1>4, <1>8, <1>10
  <2>2. Byte(k, p - a) = <<p, Base[s[k]] + (p - a - 1)>>
    <3>1. at[k - 1] - at[lo] - arg.offset + (p - a) = p
      BY <1>8
    <3>2. Base[s[k]] + (p - a) - 1 = Base[s[k]] + (p - a - 1)
      BY <1>7, <1>8
    <3> QED BY Zenon, <3>1, <3>2
  <2> HIDE DEF Byte
  <2>3. Byte(k, p - a)[1] \in 1..arg.count
    BY <2>2
  <2> QED BY Zenon, <1>9, <2>1, <2>2, <2>3
<1>11. ASSUME NEW m \in W, a < m[1], m[1] <= a + desc[s[k]].len
       PROVE  m = <<m[1], Base[s[k]] + (m[1] - a - 1)>>
  <2>1. PICK l \in (lo + 1)..hi : \E j \in 1..desc[s[l]].len : m = Byte(l, j)
    BY Zenon, <1>9
  <2>2. PICK j \in 1..desc[s[l]].len : m = Byte(l, j)
    BY Zenon, <2>1
  <2>3. /\ l \in 1..n /\ l - 1 \in 0..n /\ k - 1 \in 0..n
        /\ at[l - 1] \in Nat /\ at[lo] \in Nat /\ at[k - 1] \in Nat
        /\ at[l] = at[l - 1] + desc[s[l]].len /\ desc[s[l]].len \in Nat
        /\ at[k] = at[k - 1] + desc[s[k]].len /\ desc[s[k]].len \in Nat
    <3>1. l \in 1..n /\ l - 1 \in 0..n /\ k - 1 \in 0..n
      BY <1>1, <1>2
    <3> QED BY Zenon, <1>2, <1>3, <1>4, <3>1
  <2>4. m[1] = at[l - 1] - at[lo] - arg.offset + j /\ m[2] = Base[s[l]] + j - 1
    BY <2>2
  <2>5. l = k
    <3>1. l < k => at[l] <= at[k - 1]
      BY <1>1, <1>2, <1>5, <2>3
    <3>2. k < l => at[k] <= at[l - 1]
      BY <1>1, <1>2, <1>5, <2>3
    <3>3. ~(l < k)
      BY <1>6, <1>11, <2>3, <2>4, <3>1
    <3>4. ~(k < l)
      BY <1>6, <1>11, <2>3, <2>4, <3>2
    <3> QED BY <1>1, <1>2, <2>3, <3>3, <3>4
  <2>6. j = m[1] - a
    BY <1>6, <2>3, <2>4, <2>5
  <2>7. Base[s[l]] + j - 1 = Base[s[k]] + (m[1] - a - 1)
    BY <1>7, <1>8, <2>3, <2>4, <2>5, <2>6
  <2> QED BY Zenon, <2>2, <2>4, <2>7
<1> QED BY Zenon, <1>9, <1>10, <1>11 DEF Sited

-----------------------------------------------------------------------------
(* A return leaves the function where it was on the chain. *)
LEMMA Returned ==
  ASSUME NEW n, NEW s, NEW at, NEW r, NEW w, NEW lo, NEW hi, NEW W, NEW k \in 1..n,
         d = s[k], i \in 0..(k - 1), NEW x, Return(x),
         SizeDone(n, at, r, w)' \/ CopyDone(at, lo, hi, W)'
  PROVE  OnChain(n, s, at, r, w, lo, hi, W)'
<1>1. d' = d /\ i' = i
  BY DEF Return
<1> QED BY Zenon, <1>1 DEF OnChain, Place

(* get_desc_rw_size fails on a readable descriptor behind a writable one.  *)
LEMMA SizeMixedOn ==
  ASSUME Args, NEW n, NEW s, NEW at, NEW r, NEW w, NEW lo, NEW hi, NEW W,
         Flat(n, s, at, r, w), OnChain(n, s, at, r, w, lo, hi, W), SizeMixed
  PROVE  OnChain(n, s, at, r, w, lo, hi, W)'
<1>1. PICK k \in 1..n : d = s[k] /\ i \in 0..(k - 1) /\ Place(n, at, r, w, lo, hi, W, k)
  BY Zenon DEF OnChain
<1>2. Bounds(n, r, w, k) /\ Sides(r, w, k)
  BY Zenon, <1>1, Here
<1>3. SizeWriteAt(at, r, w, k) /\ ~Writable /\ Return(-1)
  BY <1>1 DEF SizeMixed, Place, SizeReadAt, SizeDone, SkipAt, SeekAt, CopyAt, ChunkAt, CopyDone
<1>4. w # n
  BY <1>2, <1>3 DEF Bounds, Sides, SizeWriteAt
<1>5. SizeDone(n, at, r, w)'
  BY <1>3, <1>4 DEF SizeWriteAt, SizeDone, Return, args
<1> QED BY Zenon, <1>1, <1>3, <1>5, Returned

(* A copy of nothing. *)
LEMMA NothingToCopyOn ==
  ASSUME Args, NEW n, NEW s, NEW at, NEW r, NEW w, NEW lo, NEW hi, NEW W,
         Flat(n, s, at, r, w), Seg(s, at, r, w, lo, hi, W),
         OnChain(n, s, at, r, w, lo, hi, W), NothingToCopy
  PROVE  OnChain(n, s, at, r, w, lo, hi, W)'
<1>1. PICK k \in 1..n : d = s[k] /\ i \in 0..(k - 1) /\ Place(n, at, r, w, lo, hi, W, k)
  BY Zenon DEF OnChain
<1>2. fn \in {"from", "to"} /\ arg.count = 0 /\ moved = {}
  BY <1>1 DEF NothingToCopy, Place, SizeReadAt, SizeWriteAt, SizeDone, SkipAt, SeekAt,
              CopyAt, ChunkAt, CopyDone
<1>3. Return(0)
  BY DEF NothingToCopy
<1>4. W = {}
  <2>1. \A m \in W : m[1] \in 1..arg.count
    BY Zenon DEF Seg, SegOf
  <2>2. 1..arg.count = {}
    BY <1>2
  <2> QED BY Zenon, <2>1, <2>2
<1>5. pc' = "done" /\ ret' = 0 /\ fn' = fn /\ arg' = arg /\ moved' = {}
  BY <1>2, <1>3 DEF Return, args
<1>6. CopyDone(at, lo, hi, W)'
  BY <1>2, <1>4, <1>5 DEF CopyDone, Complete
<1> QED BY Zenon, <1>1, <1>3, <1>6, Returned

(* memcpy_to_queue looks for the first writable descriptor. *)
LEMMA SkipOn ==
  ASSUME Args, NEW n, NEW s, NEW at, NEW r, NEW w, NEW lo, NEW hi, NEW W,
         Flat(n, s, at, r, w), Seg(s, at, r, w, lo, hi, W),
         OnChain(n, s, at, r, w, lo, hi, W), Skip
  PROVE  OnChain(n, s, at, r, w, lo, hi, W)'
<1>1. PICK k \in 1..n : d = s[k] /\ i \in 0..(k - 1) /\ Place(n, at, r, w, lo, hi, W, k)
  BY Zenon DEF OnChain
<1>2. Bounds(n, r, w, k) /\ Links(n, s, k) /\ Sums(at, r, w, k) /\ Sides(r, w, k)
  BY Zenon, <1>1, Here
<1>3. SkipAt(r, k)
  BY <1>1 DEF Skip, Copies, Place, SizeReadAt, SizeWriteAt, SizeDone, SeekAt, CopyAt,
              ChunkAt, CopyDone
<1>4. UNCHANGED <<desc, fn, arg, count, moved>>
  BY DEF Skip, args
<1>5. CASE Writable
  <2>1. pc' = "seek" /\ i' = 0 /\ UNCHANGED <<d, offset>>
    BY <1>5 DEF Skip
  <2>2. k = r + 1 /\ k <= w
    BY <1>2, <1>3, <1>5 DEF SkipAt, Bounds, Sides
  <2>3. lo = r /\ hi = w
    BY <1>3 DEF Seg, SegOf, SkipAt
  <2>4. arg.offset \in Nat
    BY ChainAssumption DEF Args
  <2>5. k - 1 = lo /\ k \in (lo + 1)..(hi + 1) /\ at[k - 1] - at[lo] + offset = arg.offset
    BY <1>2, <1>3, <2>2, <2>3, <2>4 DEF Bounds, Sums, SkipAt
  <2>6. SeekAt(at, lo, hi, k)'
    BY Zenon, <1>3, <1>4, <2>1, <2>4, <2>5 DEF SkipAt, SeekAt
  <2>7. 0 \in 0..(k - 1)
    BY <1>2 DEF Bounds
  <2> QED BY Zenon, <1>1, <2>1, <2>6, <2>7 DEF OnChain, Place
<1>6. CASE ~Writable
  <2>1. HasNext /\ d' = desc[d].next /\ i' = i + 1 /\ offset' = offset /\ pc' = pc
    BY <1>6 DEF Skip, Hop, NextTurn
  <2>2. k + 1 <= r + 1
    BY <1>2, <1>3, <1>6 DEF SkipAt, Bounds, Sides
  <2>3. SkipAt(r, k + 1)'
    BY Zenon, <1>3, <1>4, <2>1, <2>2 DEF SkipAt
  <2> QED BY Zenon, <1>1, <1>2, <2>1, <2>3, Onward DEF Place
<1> QED BY Zenon, <1>5, <1>6

(* Both look for the descriptor the offset falls into. *)
LEMMA SeekOn ==
  ASSUME Args, NEW n, NEW s, NEW at, NEW r, NEW w, NEW lo, NEW hi, NEW W,
         Flat(n, s, at, r, w), Seg(s, at, r, w, lo, hi, W),
         OnChain(n, s, at, r, w, lo, hi, W), Seek
  PROVE  OnChain(n, s, at, r, w, lo, hi, W)'
<1>1. PICK k \in 1..n : d = s[k] /\ i \in 0..(k - 1) /\ Place(n, at, r, w, lo, hi, W, k)
  BY Zenon DEF OnChain
<1>2. Bounds(n, r, w, k) /\ Links(n, s, k) /\ Sums(at, r, w, k)
  BY Zenon, <1>1, Here
<1>3. SeekAt(at, lo, hi, k)
  BY <1>1 DEF Seek, Copies, Place, SizeReadAt, SizeWriteAt, SizeDone, SkipAt, CopyAt,
              ChunkAt, CopyDone
<1>4. Ordered(n, at, lo, hi, k) /\ Directed(n, s, lo, hi)
  BY Zenon, <1>3, InFlat DEF SeekAt
<1>5. UNCHANGED <<desc, fn, arg, count, moved>> /\ Writable = f_write_flag
  BY DEF Seek, args
<1>6. k \in (lo + 1)..hi
  <2>1. lo < k /\ k <= hi + 1
    BY <1>3, <1>4 DEF SeekAt, Ordered
  <2>2. k <= hi
    BY Zenon, <1>1, <1>4, <1>5, <2>1 DEF Directed, Writable
  <2> QED BY <1>2, <1>4, <2>1, <2>2 DEF Bounds, Ordered
<1>7. arg.offset \in Nat /\ arg.count \in Nat /\ arg.count > 0
  BY ChainAssumption DEF Args, Seek, Copies
<1>8. CASE Inside
  <2>1. pc' = "copy" /\ i' = 0 /\ UNCHANGED <<d, offset>>
    BY <1>8 DEF Seek
  <2>2. offset \in 0..len /\ count \in 1..arg.count
    BY <1>2, <1>3, <1>7, <1>8 DEF SeekAt, Inside, Sums
  <2>3. at[k - 1] - at[lo] + offset = arg.offset + arg.count - count
    BY <1>3, <1>7 DEF SeekAt
  <2>4. moved \subseteq W
    BY Zenon, <1>3 DEF SeekAt
  <2>5. InSegment(at, lo, hi, W, k)
    BY Zenon, <1>3, <1>6, <1>7, <2>2, <2>3, <2>4 DEF InSegment, SeekAt
  <2>6. len' = len
    BY Zenon, <1>5, <2>1 DEF len
  <2>7. InSegment(at, lo, hi, W, k)'
    BY Zenon, <1>5, <2>1, <2>5, <2>6 DEF InSegment
  <2>8. Complete(W, arg.count - count)'
    <3>1. \A m \in W : m[1] \in 1..arg.count
      BY Zenon DEF Seg, SegOf
    <3>2. arg'.count - count' = 0
      BY <1>3, <1>5, <1>7 DEF SeekAt
    <3> QED BY <3>1, <3>2 DEF Complete
  <2>9. CopyAt(at, lo, hi, W, k)'
    BY Zenon, <2>1, <2>7, <2>8 DEF CopyAt
  <2>10. 0 \in 0..(k - 1)
    BY <1>2 DEF Bounds
  <2> QED BY Zenon, <1>1, <2>1, <2>9, <2>10 DEF OnChain, Place
<1>9. CASE ~Inside
  <2>1. /\ HasNext /\ d' = desc[d].next /\ i' = i + 1 /\ pc' = pc
        /\ offset' = offset - len
    BY <1>9 DEF Seek, Hop, NextTurn, OffsetBehind
  <2>2. (k + 1) - 1 = k /\ k + 1 \in (lo + 1)..(hi + 1)
    BY <1>2, <1>4, <1>6 DEF Bounds, Ordered
  <2>3. offset' \in Nat /\ at[k] - at[lo] + offset' = arg.offset
    BY <1>2, <1>3, <1>4, <1>7, <1>9, <2>1 DEF Inside, SeekAt, Sums, Ordered
  <2>4. SeekAt(at, lo, hi, k + 1)'
    BY Zenon, <1>3, <1>5, <2>1, <2>2, <2>3 DEF SeekAt
  <2> QED BY Zenon, <1>1, <1>2, <2>1, <2>4, Onward DEF Place
<1> QED BY Zenon, <1>8, <1>9

(* What is left of a piece. *)
LEMMA PieceIs ==
  ASSUME NEW at, NEW lo, NEW hi, NEW W, NEW k, InSegment(at, lo, hi, W, k), len \in Nat,
         arg.count \in Nat
  PROVE  /\ Piece \in Nat /\ Piece <= count /\ Piece <= len - offset
         /\ count # Piece => Piece = len - offset /\ Piece < count
BY DEF InSegment, Piece, Smaller

(* The copy turns to a piece. *)
LEMMA CopyOn ==
  ASSUME Args, NEW n, NEW s, NEW at, NEW r, NEW w, NEW lo, NEW hi, NEW W,
         Flat(n, s, at, r, w), OnChain(n, s, at, r, w, lo, hi, W), Copy
  PROVE  OnChain(n, s, at, r, w, lo, hi, W)'
<1>1. PICK k \in 1..n : d = s[k] /\ i \in 0..(k - 1) /\ Place(n, at, r, w, lo, hi, W, k)
  BY Zenon DEF OnChain
<1>2. Sums(at, r, w, k)
  BY Zenon, <1>1, Here
<1>3. CopyAt(at, lo, hi, W, k)
  BY <1>1 DEF Copy, Copies, Place, SizeReadAt, SizeWriteAt, SizeDone, SkipAt, SeekAt,
              ChunkAt, CopyDone
<1>4. /\ pc' = "chunk" /\ addr' = Base[d] + offset /\ left' = Piece
      /\ UNCHANGED <<desc, fn, arg, d, i, offset, count, moved>>
  BY DEF Copy, args
<1>5. arg.count \in Nat /\ count \in Nat /\ offset \in Nat /\ len \in Nat
  BY <1>2, <1>3, ChainAssumption DEF Args, CopyAt, InSegment, Sums
<1>6. Base[d] \in Nat
  <2>1. d \in Descs
    BY Zenon, <1>1 DEF Flat
  <2> QED BY <2>1, ChainAssumption DEF Descs
<1>7. Piece \in Nat
  BY Zenon, <1>3, <1>5, PieceIs DEF CopyAt
<1>8. Piece' = Piece /\ len' = len
  BY Zenon, <1>4 DEF Piece, len
<1>9. InSegment(at, lo, hi, W, k)'
  BY Zenon, <1>3, <1>4, <1>8 DEF CopyAt, InSegment
<1>10. left' \in 0..Piece' /\ addr' \in Nat
  BY <1>4, <1>5, <1>6, <1>7, <1>8
<1>11. left' = Piece' - (addr' - Base[d'] - offset')
  BY <1>4, <1>5, <1>6, <1>7, <1>8
<1>12. Complete(W, arg.count - count + Piece - left)'
  <2>1. arg'.count - count' + Piece' - left' = arg.count - count
    BY <1>4, <1>5, <1>7, <1>8
  <2> QED BY Zenon, <1>3, <1>4, <2>1 DEF CopyAt, Complete
<1>13. ChunkAt(at, lo, hi, W, k)'
  BY Zenon, <1>4, <1>9, <1>10, <1>11, <1>12 DEF ChunkAt
<1> QED BY Zenon, <1>1, <1>4, <1>13 DEF OnChain, Place

(* virtio_memcpy_from/to_guest copies up to the end of a page, or gives up  *)
(* on what is outside guest memory: either way the bytes are those wanted.  *)
LEMMA CopyChunkOn ==
  ASSUME Args, NEW n, NEW s, NEW at, NEW r, NEW w, NEW lo, NEW hi, NEW W,
         Flat(n, s, at, r, w), Seg(s, at, r, w, lo, hi, W),
         OnChain(n, s, at, r, w, lo, hi, W), CopyChunk
  PROVE  OnChain(n, s, at, r, w, lo, hi, W)'
<1>1. PICK k \in 1..n : d = s[k] /\ i \in 0..(k - 1) /\ Place(n, at, r, w, lo, hi, W, k)
  BY Zenon DEF OnChain
<1>2. Bounds(n, r, w, k) /\ Sums(at, r, w, k)
  BY Zenon, <1>1, Here
<1>3. ChunkAt(at, lo, hi, W, k) /\ left > 0
  BY <1>1 DEF CopyChunk, Place, SizeReadAt, SizeWriteAt, SizeDone, SkipAt, SeekAt,
              CopyAt, CopyDone
<1>4. Ordered(n, at, lo, hi, k)
  BY Zenon, <1>3, InFlat DEF ChunkAt, InSegment
<1>5. pc' = pc /\ UNCHANGED <<desc, fn, arg, d, i, offset, count>>
  BY DEF CopyChunk, args
<1>6. /\ arg.count \in Nat /\ arg.offset \in Nat /\ count \in 1..arg.count
      /\ len \in Nat /\ offset \in 0..len /\ addr \in Nat /\ left \in Nat /\ left > 0
  BY <1>2, <1>3, ChainAssumption DEF Args, ChunkAt, InSegment, Sums
<1>7. Base[d] \in Nat
  <2>1. d \in Descs
    BY Zenon, <1>1 DEF Flat
  <2> QED BY <2>1, ChainAssumption DEF Descs
<1>8. Piece \in Nat /\ Piece <= count /\ Piece <= len - offset
  BY Zenon, <1>3, <1>6, PieceIs DEF ChunkAt
<1>9. left <= Piece /\ left = Piece - (addr - Base[d] - offset)
  BY <1>3, <1>8 DEF ChunkAt
<1>10. Chunk \in 1..left
  <2>1. addr % Page \in 0..(Page - 1) /\ Page \in Nat
    <3>1. Page \in Nat \ {0} /\ addr \in Int
      BY <1>6, ChainAssumption
    <3> QED BY Zenon, <3>1, Division
  <2> QED BY <1>6, <2>1 DEF Chunk, Smaller
<1>11. Piece' = Piece /\ len' = len
  BY Zenon, <1>5 DEF Piece, len
<1> DEFINE a == at[k - 1] - at[lo] - arg.offset
           x == arg.count - count + Piece - left
<1>12. a \in Int /\ a + offset = arg.count - count
  BY <1>2, <1>3, <1>4, <1>6 DEF ChunkAt, InSegment, Sums, Ordered
<1>13. /\ x \in Nat /\ a <= x /\ x = a + (addr - Base[d])
       /\ x + left <= arg.count /\ x + left <= a + len
  BY <1>6, <1>7, <1>8, <1>9, <1>12
<1>14. /\ \A p \in 1..arg.count : a < p /\ p <= a + len => <<p, Base[d] + (p - a - 1)>> \in W
       /\ \A m \in W : a < m[1] /\ m[1] <= a + len => m = <<m[1], Base[d] + (m[1] - a - 1)>>
       /\ \A m \in W : m[1] \in 1..arg.count
  <2>1. k \in (lo + 1)..hi /\ fn \in {"from", "to"}
    BY Zenon, <1>3 DEF ChunkAt, InSegment
  <2>2. a = at[k - 1] - at[lo] - arg.offset
    OBVIOUS
  <2> HIDE DEF a
  <2>3. Sited(s, W, k, a)
    BY Zenon, <2>1, <2>2, BytesHere
  <2> QED BY Zenon, <1>1, <2>3 DEF Sited, len
<1>15. moved \subseteq W /\ Complete(W, x)
  BY Zenon, <1>3 DEF ChunkAt, InSegment
<1> HIDE DEF a, x
<1>16. CASE guest_addr_to_host_addr(addr)
  <2> DEFINE New == {<<arg.count - count + (addr - Base[d] - offset) + q + 1, addr + q>> :
                       q \in 0..(Chunk - 1)}
  <2>1. moved' = moved \cup New /\ addr' = addr + Chunk /\ left' = left - Chunk
    BY <1>16 DEF CopyChunk
  <2>2. \A q \in 0..(Chunk - 1) :
          /\ arg.count - count + (addr - Base[d] - offset) + q + 1 = x + q + 1
          /\ x + q + 1 \in 1..arg.count /\ a < x + q + 1 /\ x + q + 1 <= a + len
          /\ Base[d] + ((x + q + 1) - a - 1) = addr + q
    BY <1>6, <1>7, <1>8, <1>10, <1>12, <1>13
  <2>3. New = {<<x + q + 1, addr + q>> : q \in 0..(Chunk - 1)}
    BY Zenon, <2>2
  <2>4. \A q \in 0..(Chunk - 1) : <<x + q + 1, addr + q>> \in W
    BY Zenon, <1>14, <2>2
  <2> HIDE DEF New
  <2>5. moved' \subseteq W
    BY Zenon, <1>15, <2>1, <2>3, <2>4
  <2>6. \A m \in W : m[1] <= x + Chunk => m \in moved' \/ m[2] > MemSize
    <3> SUFFICES ASSUME NEW m \in W, m[1] <= x + Chunk PROVE m \in moved' \/ m[2] > MemSize
      OBVIOUS
    <3>1. m[1] \in 1..arg.count
      BY Zenon, <1>14
    <3>2. CASE m[1] <= x
      BY Zenon, <1>15, <2>1, <3>2 DEF Complete
    <3>3. CASE ~(m[1] <= x)
      <4> DEFINE q == m[1] - x - 1
      <4>1. q \in 0..(Chunk - 1) /\ x + q + 1 = m[1]
        BY <1>10, <1>13, <3>1, <3>3
      <4> HIDE DEF q
      <4>2. m = <<m[1], addr + q>>
        <5>1. a < m[1] /\ m[1] <= a + len /\ Base[d] + (m[1] - a - 1) = addr + q
          BY Zenon, <2>2, <4>1
        <5> QED BY Zenon, <1>14, <5>1
      <4>3. m \in New
        BY Zenon, <2>3, <4>1, <4>2
      <4> QED BY Zenon, <2>1, <4>3
    <3> QED BY Zenon, <3>2, <3>3
  <2>7. /\ left' \in 0..Piece /\ addr' \in Nat
        /\ left' = Piece - (addr' - Base[d] - offset)
        /\ arg.count - count + Piece - left' = x + Chunk
    BY <1>6, <1>7, <1>8, <1>9, <1>10, <2>1 DEF x
  <2>8. Complete(W, arg.count - count + Piece - left)'
    BY Zenon, <1>5, <1>11, <2>6, <2>7 DEF Complete
  <2>9. InSegment(at, lo, hi, W, k)'
    BY Zenon, <1>3, <1>5, <1>11, <2>5 DEF ChunkAt, InSegment
  <2>10. ChunkAt(at, lo, hi, W, k)'
    BY Zenon, <1>3, <1>5, <1>11, <2>7, <2>8, <2>9 DEF ChunkAt
  <2> QED BY Zenon, <1>1, <1>5, <2>10 DEF OnChain, Place
<1>17. CASE ~guest_addr_to_host_addr(addr)
  <2>1. left' = 0 /\ UNCHANGED <<moved, addr>>
    BY <1>17 DEF CopyChunk
  <2>2. addr > MemSize
    BY <1>6, <1>17, ChainAssumption DEF guest_addr_to_host_addr
  <2>3. \A m \in W : m[1] <= x + left => m \in moved' \/ m[2] > MemSize
    <3> SUFFICES ASSUME NEW m \in W, m[1] <= x + left PROVE m \in moved' \/ m[2] > MemSize
      OBVIOUS
    <3>1. m[1] \in 1..arg.count
      BY Zenon, <1>14
    <3>2. CASE m[1] <= x
      BY Zenon, <1>15, <2>1, <3>2 DEF Complete
    <3>3. CASE ~(m[1] <= x)
      <4>1. a < m[1] /\ m[1] <= a + len
        BY <1>6, <1>12, <1>13, <3>1, <3>3
      <4>2. m = <<m[1], Base[d] + (m[1] - a - 1)>>
        BY Zenon, <1>14, <4>1
      <4>3. Base[d] + (m[1] - a - 1) > MemSize
        <5>1. MemSize \in Nat
          BY ChainAssumption
        <5>2. m[1] - a - 1 >= addr - Base[d]
          BY <1>6, <1>7, <1>12, <1>13, <3>1, <3>3
        <5> QED BY <1>6, <1>7, <1>12, <2>2, <3>1, <5>1, <5>2
      <4>4. m[2] = Base[d] + (m[1] - a - 1)
        BY <4>2
      <4> QED BY Zenon, <4>3, <4>4
    <3> QED BY Zenon, <3>2, <3>3
  <2>4. left' \in 0..Piece /\ arg.count - count + Piece - left' = x + left /\ ~(left' > 0)
    BY <1>6, <1>8, <2>1 DEF x
  <2>5. Complete(W, arg.count - count + Piece - left)'
    BY Zenon, <1>5, <1>11, <2>3, <2>4 DEF Complete
  <2>6. InSegment(at, lo, hi, W, k)'
    BY Zenon, <1>3, <1>5, <1>11, <2>1 DEF ChunkAt, InSegment
  <2>7. ChunkAt(at, lo, hi, W, k)'
    BY Zenon, <1>3, <1>5, <1>11, <2>1, <2>4, <2>5, <2>6 DEF ChunkAt
  <2> QED BY Zenon, <1>1, <1>5, <2>7 DEF OnChain, Place
<1> QED BY Zenon, <1>16, <1>17

(* What is known when the piece at hand is finished. *)
AtEnd(at, lo, hi, W, k) ==
  /\ arg.count \in Nat /\ arg.offset \in Nat /\ count \in 1..arg.count
  /\ offset \in 0..len /\ k \in (lo + 1)..hi /\ moved \subseteq W
  /\ Piece \in Nat /\ Piece <= count /\ Piece <= len - offset
  /\ count # Piece => Piece = len - offset /\ Piece < count
  /\ at[k - 1] - at[lo] + offset = arg.offset + arg.count - count
  /\ Complete(W, arg.count - count + Piece)

(* All of it follows from the place the invariant gives the copy. *)
LEMMA Finished ==
  ASSUME Args, NEW n, NEW s, NEW at, NEW r, NEW w, NEW lo, NEW hi, NEW W,
         Flat(n, s, at, r, w), Seg(s, at, r, w, lo, hi, W), NEW k \in 1..n, d = s[k],
         ChunkAt(at, lo, hi, W, k), left = 0
  PROVE  /\ Bounds(n, r, w, k) /\ Links(n, s, k) /\ Sums(at, r, w, k)
         /\ Ordered(n, at, lo, hi, k) /\ Directed(n, s, lo, hi) /\ AtEnd(at, lo, hi, W, k)
<1>1. Bounds(n, r, w, k) /\ Links(n, s, k) /\ Sums(at, r, w, k)
  BY Zenon, Here
<1>2. Ordered(n, at, lo, hi, k) /\ Directed(n, s, lo, hi)
  BY Zenon, InFlat DEF ChunkAt, InSegment
<1>3. arg.count \in Nat /\ arg.offset \in Nat
  BY ChainAssumption DEF Args
<1>4. /\ count \in 1..arg.count /\ offset \in 0..len /\ k \in (lo + 1)..hi /\ moved \subseteq W
      /\ at[k - 1] - at[lo] + offset = arg.offset + arg.count - count
  BY Zenon DEF ChunkAt, InSegment
<1>5. /\ Piece \in Nat /\ Piece <= count /\ Piece <= len - offset
      /\ count # Piece => Piece = len - offset /\ Piece < count
  BY Zenon, <1>1, <1>3, PieceIs DEF ChunkAt, Sums
<1>6. arg.count - count + Piece - left = arg.count - count + Piece
  BY <1>3, <1>4, <1>5
<1>7. Complete(W, arg.count - count + Piece)
  BY Zenon, <1>6 DEF ChunkAt
<1> QED BY Zenon, <1>1, <1>2, <1>3, <1>4, <1>5, <1>7 DEF AtEnd

(* The last piece: everything asked for lies in the segment and is copied. *)
LEMMA LastPieceOn ==
  ASSUME Args, NEW n, NEW s, NEW at, NEW r, NEW w, NEW lo, NEW hi, NEW W,
         Flat(n, s, at, r, w), Seg(s, at, r, w, lo, hi, W),
         OnChain(n, s, at, r, w, lo, hi, W), LastPiece
  PROVE  OnChain(n, s, at, r, w, lo, hi, W)'
<1>1. PICK k \in 1..n : d = s[k] /\ i \in 0..(k - 1) /\ Place(n, at, r, w, lo, hi, W, k)
  BY Zenon DEF OnChain
<1>2. ChunkAt(at, lo, hi, W, k) /\ left = 0 /\ count = Piece /\ Return(0)
  BY <1>1 DEF LastPiece, PieceDone, Place, SizeReadAt, SizeWriteAt, SizeDone, SkipAt, SeekAt,
              CopyAt, CopyDone
<1>3. Sums(at, r, w, k) /\ Ordered(n, at, lo, hi, k) /\ AtEnd(at, lo, hi, W, k)
  BY Zenon, <1>1, <1>2, Finished
<1>4. arg.offset + arg.count <= at[hi] - at[lo] /\ arg.count - count + Piece = arg.count
  BY <1>2, <1>3 DEF Sums, Ordered, AtEnd
<1>5. /\ pc' = "done" /\ ret' = 0 /\ fn' = fn /\ arg' = arg /\ moved' = moved
  BY <1>2 DEF Return, args
<1>6. Complete(W, arg.count)'
  BY Zenon, <1>3, <1>4, <1>5 DEF Complete, AtEnd
<1>7. CopyDone(at, lo, hi, W)'
  BY <1>2, <1>3, <1>4, <1>5, <1>6 DEF CopyDone, ChunkAt, InSegment, AtEnd
<1> QED BY Zenon, <1>1, <1>2, <1>7, Returned

(* The copy goes on with the next descriptor of the segment. *)
LEMMA NextPieceOn ==
  ASSUME Args, NEW n, NEW s, NEW at, NEW r, NEW w, NEW lo, NEW hi, NEW W,
         Flat(n, s, at, r, w), Seg(s, at, r, w, lo, hi, W),
         OnChain(n, s, at, r, w, lo, hi, W), NextPiece
  PROVE  OnChain(n, s, at, r, w, lo, hi, W)'
<1>1. PICK k \in 1..n : d = s[k] /\ i \in 0..(k - 1) /\ Place(n, at, r, w, lo, hi, W, k)
  BY Zenon DEF OnChain
<1>2. ChunkAt(at, lo, hi, W, k) /\ left = 0 /\ count # Piece /\ SameDirection
  BY <1>1 DEF NextPiece, PieceDone, Place, SizeReadAt, SizeWriteAt, SizeDone, SkipAt, SeekAt,
              CopyAt, CopyDone
<1>3. /\ Bounds(n, r, w, k) /\ Links(n, s, k) /\ Sums(at, r, w, k)
      /\ Ordered(n, at, lo, hi, k) /\ Directed(n, s, lo, hi) /\ AtEnd(at, lo, hi, W, k)
  BY Zenon, <1>1, <1>2, Finished
<1>4. /\ pc' = "copy" /\ HasNext /\ d' = desc[d].next /\ i' = i + 1 /\ offset' = 0
      /\ count' = count - Piece /\ UNCHANGED <<desc, fn, arg, moved>>
  BY DEF NextPiece, Hop, NextTurn, args
<1>5. d' = s[k + 1] /\ k + 1 \in 1..n
  BY Zenon, <1>3, <1>4 DEF Links
<1>6. (k + 1) - 1 = k /\ k + 1 \in (lo + 1)..hi
  <2>1. lo < k + 1 /\ k + 1 <= hi + 1
    BY <1>3 DEF Bounds, Ordered, AtEnd
  <2>2. k + 1 <= hi
    BY Zenon, <1>2, <1>3, <1>4, <1>5, <2>1 DEF Directed, SameDirection
  <2> QED BY <1>3, <2>1, <2>2 DEF Bounds, Ordered
<1>7. len' \in Nat
  <2>1. d' \in Descs
    BY Zenon, <1>5 DEF Flat
  <2> QED BY Zenon, <1>4, <2>1, ChainAssumption DEF Args, Tables, len
<1>8. /\ offset' \in 0..len' /\ count' \in 1..arg.count
      /\ at[k] - at[lo] + offset' = arg.offset + arg.count - count'
      /\ arg.count - count' = arg.count - count + Piece
  BY <1>2, <1>3, <1>4, <1>7 DEF Sums, Ordered, AtEnd
<1>9. InSegment(at, lo, hi, W, k + 1)'
  BY Zenon, <1>2, <1>3, <1>4, <1>6, <1>8 DEF ChunkAt, InSegment
<1>10. Complete(W, arg.count - count)'
  BY Zenon, <1>3, <1>4, <1>8 DEF Complete, AtEnd
<1>11. CopyAt(at, lo, hi, W, k + 1)'
  BY Zenon, <1>4, <1>9, <1>10 DEF CopyAt
<1> QED BY Zenon, <1>1, <1>3, <1>4, <1>11, Onward DEF Place

(* A failure that reports no more than was asked for beyond the segment.    *)
LEMMA Beyond ==
  ASSUME NEW n, NEW s, NEW at, NEW r, NEW w, NEW lo, NEW hi, NEW W, NEW k \in 1..n,
         d = s[k], i \in 0..(k - 1), Return(-1), fn \in {"from", "to"}, moved \subseteq W,
         arg.count > 0, arg.count \in Nat, ~(arg.offset + arg.count <= at[hi] - at[lo])
  PROVE  OnChain(n, s, at, r, w, lo, hi, W)'
<1>1. pc' = "done" /\ ret' = -1 /\ fn' = fn /\ arg' = arg /\ moved' = moved
  BY DEF Return, args
<1>2. arg.count # 0
  OBVIOUS
<1>3. CopyDone(at, lo, hi, W)'
  BY <1>1, <1>2 DEF CopyDone
<1> QED BY Zenon, <1>3, Returned

(* The copy fails: its range goes beyond the segment, whatever it was that *)
(* the code tripped over; the bound on the hops is never that.             *)
LEMMA CopyFailsOn ==
  ASSUME Args, NEW n, NEW s, NEW at, NEW r, NEW w, NEW lo, NEW hi, NEW W,
         Flat(n, s, at, r, w), Seg(s, at, r, w, lo, hi, W),
         OnChain(n, s, at, r, w, lo, hi, W), CopyFails
  PROVE  OnChain(n, s, at, r, w, lo, hi, W)'
<1>1. PICK k \in 1..n : d = s[k] /\ i \in 0..(k - 1) /\ Place(n, at, r, w, lo, hi, W, k)
  BY Zenon DEF OnChain
<1>2. Bounds(n, r, w, k) /\ Links(n, s, k) /\ Sums(at, r, w, k) /\ Sides(r, w, k)
  BY Zenon, <1>1, Here
<1>3. Return(-1) /\ arg.count > 0
  BY DEF CopyFails
<1>4. arg.count \in Nat /\ arg.offset \in Nat
  BY ChainAssumption DEF Args
<1>5. ~Stuck
  BY <1>1, <1>2, ChainAssumption DEF Bounds, Stuck
<1>6. CASE SkipAt(r, k)
  <2>1. ~Writable /\ ~HasNext
    BY <1>5, <1>6 DEF CopyFails, SkipAt, PieceDone
  <2>2. k = n /\ r = n /\ w = n
    BY <1>2, <1>6, <2>1 DEF Bounds, Links, Sides, SkipAt
  <2>3. lo = r /\ hi = w
    BY <1>6 DEF Seg, SegOf, SkipAt
  <2>4. ~(arg.offset + arg.count <= at[hi] - at[lo])
    BY <1>2, <1>3, <1>4, <2>2, <2>3 DEF Sums
  <2> QED BY Zenon, <1>1, <1>3, <1>4, <1>6, <2>4, Beyond DEF SkipAt
<1>7. CASE SeekAt(at, lo, hi, k)
  <2>1. Ordered(n, at, lo, hi, k) /\ Directed(n, s, lo, hi)
    BY Zenon, <1>7, InFlat DEF SeekAt
  <2>2. lo < k /\ k <= hi + 1 /\ offset \in Nat /\ at[k - 1] - at[lo] + offset = arg.offset
    BY <1>7, <2>1 DEF SeekAt, Ordered
  <2>3. Writable # f_write_flag \/ (~Inside /\ ~HasNext)
    BY <1>5, <1>7 DEF CopyFails, SeekAt, PieceDone
  <2>4. CASE k <= hi
    <3>1. Writable = f_write_flag
      BY Zenon, <1>1, <2>1, <2>2, <2>4 DEF Directed, Writable
    <3>2. offset >= len /\ k = hi
      BY <1>2, <2>1, <2>2, <2>3, <2>4, <3>1 DEF Inside, Bounds, Links, Sums, Ordered
    <3>3. ~(arg.offset + arg.count <= at[hi] - at[lo])
      BY <1>2, <1>3, <1>4, <2>1, <2>2, <3>2 DEF Sums, Ordered
    <3> QED BY Zenon, <1>1, <1>3, <1>4, <1>7, <3>3, Beyond DEF SeekAt
  <2>5. CASE ~(k <= hi)
    <3>1. k - 1 = hi
      BY <1>2, <2>1, <2>2, <2>5 DEF Bounds, Ordered
    <3>2. ~(arg.offset + arg.count <= at[hi] - at[lo])
      BY <1>3, <1>4, <2>1, <2>2, <3>1 DEF Ordered
    <3> QED BY Zenon, <1>1, <1>3, <1>4, <1>7, <3>2, Beyond DEF SeekAt
  <2> QED BY Zenon, <2>4, <2>5
<1>8. CASE ChunkAt(at, lo, hi, W, k)
  <2>1. left = 0 /\ count # Piece /\ ~SameDirection
    BY <1>8 DEF CopyFails, ChunkAt, PieceDone
  <2>2. Ordered(n, at, lo, hi, k) /\ Directed(n, s, lo, hi) /\ AtEnd(at, lo, hi, W, k)
    BY Zenon, <1>1, <1>8, <2>1, Finished
  <2>3. k = hi
    <3>1. lo < k /\ k <= hi /\ lo < k + 1
      BY <1>2, <2>2 DEF AtEnd, Ordered, Bounds
    <3>2. SUFFICES ASSUME k < hi PROVE FALSE
      BY <1>2, <2>2, <3>1 DEF Ordered, Bounds
    <3>3. k + 1 <= hi /\ k + 1 <= hi + 1 /\ k < n
      BY <1>2, <2>2, <3>2 DEF Ordered, Bounds
    <3>4. HasNext /\ desc[d].next = s[k + 1] /\ k + 1 \in 1..n
      BY Zenon, <1>2, <3>3 DEF Links
    <3>5. desc[s[k + 1]].write = f_write_flag
      BY Zenon, <2>2, <3>1, <3>3, <3>4 DEF Directed
    <3> QED BY Zenon, <2>1, <3>4, <3>5 DEF SameDirection
  <2>4. ~(arg.offset + arg.count <= at[hi] - at[lo])
    BY <1>2, <2>1, <2>2, <2>3 DEF Sums, Ordered, AtEnd
  <2> QED BY Zenon, <1>1, <1>3, <1>4, <1>8, <2>4, Beyond DEF ChunkAt, InSegment
<1>9. SkipAt(r, k) \/ SeekAt(at, lo, hi, k) \/ ChunkAt(at, lo, hi, W, k)
  BY <1>1, <1>5 DEF CopyFails, PieceDone, Place, SizeReadAt, SizeWriteAt, SizeDone, CopyAt,
                    CopyDone
<1> QED BY Zenon, <1>6, <1>7, <1>8, <1>9

-----------------------------------------------------------------------------
(* Where the functions start. *)
LEMMA ChainInit == Init => ChainInv
<1> SUFFICES ASSUME Init PROVE ChainInv
  OBVIOUS
<1>1. Args
  BY ChainAssumption DEF Init, Args
<1>2. ASSUME NEW n, NEW s, NEW at, NEW r, NEW w, NEW lo, NEW hi, NEW W,
             Flat(n, s, at, r, w), Seg(s, at, r, w, lo, hi, W)
      PROVE  OnChain(n, s, at, r, w, lo, hi, W)
  <2>1. n \in 1..N /\ at[0] = 0 /\ s[1] = First /\ r \in 0..n /\ w \in r..n
    BY Zenon, <1>2 DEF Flat, IsChain
  <2>2. 1 \in 1..n /\ 0 \in 0..(1 - 1) /\ r \in Nat /\ w \in Nat /\ r <= w /\ 1 - 1 = 0
    BY <2>1, ChainAssumption
  <2>3. /\ d = First /\ i = 0 /\ moved = {} /\ read_size = 0 /\ write_size = 0 /\ ret = 0
        /\ offset = arg.offset /\ count = arg.count
    BY DEF Init
  <2>4. CASE fn = "size"
    <3>1. pc = "sizeRead"
      BY <2>4 DEF Init
    <3>2. 0 = 0 % IntMod
      BY ChainAssumption
    <3>3. SizeReadAt(at, r, 1)
      BY <2>1, <2>2, <2>3, <2>4, <3>1, <3>2 DEF SizeReadAt
    <3> QED BY Zenon, <2>1, <2>2, <2>3, <3>3 DEF OnChain, Place
  <2>5. CASE fn = "from"
    <3>1. pc = "seek"
      BY <2>5 DEF Init
    <3>2. lo = 0 /\ hi = r /\ arg.offset \in Nat
      BY <1>1, <1>2, <2>5, ChainAssumption DEF Seg, SegOf, Args
    <3>3. SeekAt(at, lo, hi, 1)
      BY <2>1, <2>2, <2>3, <2>5, <3>1, <3>2 DEF SeekAt
    <3> QED BY Zenon, <2>1, <2>2, <2>3, <3>3 DEF OnChain, Place
  <2>6. CASE fn = "to"
    <3>1. pc = "skip"
      BY <2>6 DEF Init
    <3>2. SkipAt(r, 1)
      BY <2>2, <2>3, <2>6, <3>1 DEF SkipAt
    <3> QED BY Zenon, <2>1, <2>2, <2>3, <3>2 DEF OnChain, Place
  <2>7. fn \in {"size", "from", "to"}
    BY DEF Init
  <2> QED BY Zenon, <2>4, <2>5, <2>6, <2>7
<1> QED BY <1>1, <1>2 DEF ChainInv

(* The functions change neither the table nor their arguments. *)
LEMMA ArgsKept == [Next]_vars => UNCHANGED args
BY DEF Next, SizeStep, SizeMixed, NothingToCopy, Skip, Seek, Copy, CopyChunk, LastPiece,
       NextPiece, CopyFails, Done, Return, vars

(* Every step keeps its place on the chain. *)
LEMMA ChainStep == ChainInv /\ [Next]_vars => ChainInv'
<1> SUFFICES ASSUME ChainInv, [Next]_vars PROVE ChainInv'
  OBVIOUS
<1>1. desc' = desc /\ fn' = fn /\ arg' = arg
  BY ArgsKept DEF args
<1>2. Args /\ Args'
  BY Zenon, <1>1 DEF ChainInv, Args
<1>3. ASSUME NEW n, NEW s, NEW at, NEW r, NEW w, NEW lo, NEW hi, NEW W,
             Flat(n, s, at, r, w)', Seg(s, at, r, w, lo, hi, W)'
      PROVE  OnChain(n, s, at, r, w, lo, hi, W)'
  <2>1. Flat(n, s, at, r, w)
    <3>1. IsChain(s, n)
      BY Zenon, <1>1, <1>3 DEF Flat, IsChain
    <3>2. EndsRun(s, n, 0, FALSE, r) /\ EndsRun(s, n, r, TRUE, w)
      BY Zenon, <1>1, <1>3 DEF Flat, EndsRun
    <3> QED BY Zenon, <1>1, <1>3, <3>1, <3>2 DEF Flat
  <2>2. Seg(s, at, r, w, lo, hi, W)
    BY Zenon, <1>1, <1>3 DEF Seg
  <2>3. OnChain(n, s, at, r, w, lo, hi, W)
    BY Zenon, <2>1, <2>2 DEF ChainInv
  <2>4. CASE SizeStep
    BY Zenon, <1>2, <2>1, <2>3, <2>4, SizeStepOn
  <2>5. CASE SizeMixed
    BY Zenon, <1>2, <2>1, <2>3, <2>5, SizeMixedOn
  <2>6. CASE NothingToCopy
    BY Zenon, <1>2, <2>1, <2>2, <2>3, <2>6, NothingToCopyOn
  <2>7. CASE Skip
    BY Zenon, <1>2, <2>1, <2>2, <2>3, <2>7, SkipOn
  <2>8. CASE Seek
    BY Zenon, <1>2, <2>1, <2>2, <2>3, <2>8, SeekOn
  <2>9. CASE Copy
    BY Zenon, <1>2, <2>1, <2>3, <2>9, CopyOn
  <2>10. CASE CopyChunk
    BY Zenon, <1>2, <2>1, <2>2, <2>3, <2>10, CopyChunkOn
  <2>11. CASE LastPiece
    BY Zenon, <1>2, <2>1, <2>2, <2>3, <2>11, LastPieceOn
  <2>12. CASE NextPiece
    BY Zenon, <1>2, <2>1, <2>2, <2>3, <2>12, NextPieceOn
  <2>13. CASE CopyFails
    BY Zenon, <1>2, <2>1, <2>2, <2>3, <2>13, CopyFailsOn
  <2>14. CASE Done \/ UNCHANGED vars
    <3>1. UNCHANGED <<d, i, pc, offset, count, addr, left, moved, read_size, write_size, ret>>
      BY <2>14 DEF Done, vars, locals, sizes
    <3>2. len' = len /\ Piece' = Piece
      BY Zenon, <1>1, <3>1 DEF len, Piece
    <3> QED
      BY Zenon, <1>1, <2>3, <3>1, <3>2
         DEF OnChain, Place, SizeReadAt, SizeWriteAt, SizeDone, SkipAt, SeekAt, InSegment,
             CopyAt, ChunkAt, CopyDone, Complete
  <2> QED
    BY Zenon, <2>4, <2>5, <2>6, <2>7, <2>8, <2>9, <2>10, <2>11, <2>12, <2>13, <2>14 DEF Next
<1> QED BY <1>2, <1>3 DEF ChainInv

(* The functions of virtio.c stay on the chain. *)
LEMMA ChainInvariant == Spec => []ChainInv
BY ChainInit, ChainStep, PTL DEF Spec


(* With a chain that ends, the invariant speaks of the reference's layout. *)
LEMMA OnReference ==
  ASSUME ChainInv, Ends
  PROVE  /\ Length \in 1..N
         /\ OnChain(Length, Chain, Layout, ReadEnd, WriteEnd, SegStart, SegEnd, Wanted)
<1>1. Flat(Length, Chain, Layout, ReadEnd, WriteEnd)
  BY Zenon, FlatRef DEF ChainInv
<1>2. Seg(Chain, Layout, ReadEnd, WriteEnd, SegStart, SegEnd, Wanted)
  BY Zenon DEF Seg, SegOf, SegStart, SegEnd, Wanted, Bytes
<1>3. Length \in 1..N
  BY Zenon, <1>1 DEF Flat
<1> QED BY Zenon, <1>1, <1>2, <1>3 DEF ChainInv

(* What get_desc_rw_size returns: on a chain that ends, the readable and    *)
(* the writable bytes, modulo the width of the sums, and a failure exactly  *)
(* when a readable descriptor follows a writable one.                       *)
THEOREM SizesAreExact == Spec => []SizesExact
<1>1. ChainInv => SizesExact
  <2> SUFFICES ASSUME ChainInv, pc = "done", fn = "size", Ends
      PROVE  /\ (ret = 0) = (WriteEnd = Length)
             /\ ret = 0 => /\ read_size = Layout[ReadEnd] % IntMod
                           /\ write_size = (Layout[WriteEnd] - Layout[ReadEnd]) % IntMod
    BY Zenon DEF SizesExact
  <2>1. PICK k \in 1..Length :
          Place(Length, Layout, ReadEnd, WriteEnd, SegStart, SegEnd, Wanted, k)
    BY Zenon, OnReference DEF OnChain
  <2>2. SizeDone(Length, Layout, ReadEnd, WriteEnd)
    BY <2>1 DEF Place, SizeReadAt, SizeWriteAt, SkipAt, SeekAt, CopyAt, ChunkAt, CopyDone
  <2> QED BY Zenon, <2>2 DEF SizeDone
<1> QED BY <1>1, ChainInvariant, PTL

(* memcpy_from_queue and memcpy_to_queue succeed exactly when the range     *)
(* lies within the readable or the writable bytes of a chain that ends; the *)
(* bound on the hops turns no such range away.                              *)
THEOREM CopiesAreAccepted == Spec => []CopyAccepted
<1>1. ChainInv => CopyAccepted
  <2> SUFFICES ASSUME ChainInv, pc = "done", fn # "size", Ends
      PROVE  (ret = 0) = (arg.count = 0 \/ arg.offset + arg.count <= SegLen)
    BY Zenon DEF CopyAccepted
  <2>1. PICK k \in 1..Length :
          Place(Length, Layout, ReadEnd, WriteEnd, SegStart, SegEnd, Wanted, k)
    BY Zenon, OnReference DEF OnChain
  <2>2. CopyDone(Layout, SegStart, SegEnd, Wanted)
    BY <2>1 DEF Place, SizeReadAt, SizeWriteAt, SizeDone, SkipAt, SeekAt, CopyAt, ChunkAt
  <2> QED BY Zenon, <2>2 DEF CopyDone, SegLen
<1> QED BY <1>1, ChainInvariant, PTL

(* A copy moves no byte but those of its range, each to or from its own     *)
(* place, and a copy that returns 0 has moved all of them that lie in guest *)
(* memory.                                                                  *)
LEMMA Placed ==
  ASSUME ChainInv, fn # "size", Ends
  PROVE  /\ moved \subseteq Wanted
         /\ (pc = "done" /\ ret = 0) => \A w \in Wanted \ moved : w[2] > MemSize
<1>1. PICK k \in 1..Length :
        Place(Length, Layout, ReadEnd, WriteEnd, SegStart, SegEnd, Wanted, k)
  BY Zenon, OnReference DEF OnChain
<1>2. moved \subseteq Wanted
  BY <1>1 DEF Place, SizeReadAt, SizeWriteAt, SizeDone, SkipAt, SeekAt, InSegment, CopyAt,
              ChunkAt, CopyDone
<1>3. ASSUME pc = "done", ret = 0, NEW w \in Wanted \ moved
      PROVE  w[2] > MemSize
  <2>1. CopyDone(Layout, SegStart, SegEnd, Wanted)
    BY <1>1, <1>3 DEF Place, SizeReadAt, SizeWriteAt, SizeDone, SkipAt, SeekAt, CopyAt, ChunkAt
  <2>2. w[1] \in 1..arg.count /\ arg.count \in Nat
    BY <1>3, ChainAssumption DEF Wanted, ChainInv, Args
  <2>3. w[1] <= arg.count
    BY <2>2
  <2> QED BY Zenon, <1>3, <2>1, <2>3 DEF CopyDone, Complete
<1> QED BY Zenon, <1>2, <1>3


-----------------------------------------------------------------------------
(* Why a copy ends on every chain, cyclic ones included: each step lowers a  *)
(* rank of four natural numbers, compared from the left.  The loops count    *)
(* their turns, and within a turn the bytes left of the piece.               *)
Phase == IF pc = "skip" THEN 3 ELSE IF pc = "seek" THEN 2 ELSE IF pc = "done" THEN 0 ELSE 1
Rank == <<Phase, HopLimit + 1 - i, IF pc = "chunk" THEN 0 ELSE 1, left>>
Lower(a, b) == \E j \in 1..4 : a[j] < b[j] /\ \A k \in 1..(j - 1) : a[k] = b[k]

(* What a copy knows of its variables on any chain.  A copy of nothing      *)
(* returns at once.                                                         *)
CopyType ==
  /\ Args /\ d \in Descs /\ i \in 0..(HopLimit + 1) /\ offset \in Nat /\ addr \in Nat
  /\ left \in Nat /\ count \in 0..arg.count
  /\ pc \in {"skip", "seek", "copy", "chunk", "done"}
  /\ pc \in {"skip", "seek"} => count = arg.count
  /\ pc = "skip" => f_write_flag
  /\ pc \in {"copy", "chunk"} => count > 0 /\ offset <= len
  /\ pc = "chunk" => i <= HopLimit
CopyTyped == fn # "size" => CopyType

(* It does from the start, *)
LEMMA CopyTypeInit == Init => CopyTyped
<1> SUFFICES ASSUME Init, fn # "size" PROVE CopyType
  BY DEF CopyTyped
<1>1. Args /\ First \in Descs /\ HopLimit \in Nat
  BY ChainAssumption DEF Init, Args, First, Descs
<1>2. arg.offset \in Nat /\ arg.count \in Nat
  BY <1>1, ChainAssumption DEF Args
<1> QED BY <1>1, <1>2 DEF Init, CopyType, f_write_flag

(* A descriptor that is followed by another. *)
LEMMA NextIsDesc ==
  ASSUME Args, d \in Descs
  PROVE  /\ len \in Nat /\ (HasNext => desc[d].next \in Descs)
         /\ \A e \in Descs : desc[e].len \in Nat
         /\ Base[d] \in Nat /\ arg.count \in Nat /\ HopLimit \in Nat /\ Page \in Nat \ {0}
<1>1. \A e \in Descs : desc[e].len \in Nat /\ desc[e].next \in 0..N
  BY Zenon, ChainAssumption DEF Args, Tables
<1> QED BY <1>1, ChainAssumption DEF len, HasNext, Descs, Args

(* and every step of a copy keeps it and lowers the rank. *)
LEMMA CopyTypeStep ==
  ASSUME fn # "size", CopyType, Next, ~UNCHANGED vars
  PROVE  CopyType' /\ Lower(Rank', Rank)
<1>1. desc' = desc /\ fn' = fn /\ arg' = arg
  BY ArgsKept DEF args
<1>2. /\ len \in Nat /\ (HasNext => desc[d].next \in Descs)
      /\ \A e \in Descs : desc[e].len \in Nat
      /\ Base[d] \in Nat /\ arg.count \in Nat /\ HopLimit \in Nat /\ Page \in Nat \ {0}
  BY Zenon, NextIsDesc DEF CopyType
<1>3. Args' /\ f_write_flag' = f_write_flag
  BY Zenon, <1>1 DEF Args, CopyType, f_write_flag
<1>4. Rank[1] = Phase /\ Rank[2] = HopLimit + 1 - i /\ Rank[4] = left
      /\ Rank[3] = IF pc = "chunk" THEN 0 ELSE 1
  BY DEF Rank
<1>5. Rank'[1] = Phase' /\ Rank'[2] = HopLimit + 1 - i' /\ Rank'[4] = left'
      /\ Rank'[3] = IF pc' = "chunk" THEN 0 ELSE 1
  BY DEF Rank
<1>6. /\ Rank'[1] < Rank[1] => Lower(Rank', Rank)
      /\ Rank'[1] = Rank[1] /\ Rank'[2] < Rank[2] => Lower(Rank', Rank)
      /\ Rank'[1] = Rank[1] /\ Rank'[2] = Rank[2] /\ Rank'[3] < Rank[3] => Lower(Rank', Rank)
      /\ Rank'[1] = Rank[1] /\ Rank'[2] = Rank[2] /\ Rank'[3] = Rank[3] /\ Rank'[4] < Rank[4]
           => Lower(Rank', Rank)
  <2> DEFINE a == Rank'
             b == Rank
  <2> HIDE DEF a, b
  <2>1. /\ a[1] < b[1] => Lower(a, b)
        /\ a[1] = b[1] /\ a[2] < b[2] => Lower(a, b)
        /\ a[1] = b[1] /\ a[2] = b[2] /\ a[3] < b[3] => Lower(a, b)
        /\ a[1] = b[1] /\ a[2] = b[2] /\ a[3] = b[3] /\ a[4] < b[4] => Lower(a, b)
    BY DEF Lower
  <2> QED BY Zenon, <2>1 DEF a, b
<1>7. CASE NothingToCopy \/ LastPiece \/ CopyFails
  <2>1. pc' = "done" /\ pc # "done" /\ UNCHANGED <<d, i, offset, count, addr, left>>
    BY <1>7 DEF NothingToCopy, LastPiece, CopyFails, PieceDone, Return, locals
  <2>2. Phase' < Phase
    BY <2>1 DEF Phase
  <2>3. CopyType'
    BY <1>1, <1>3, <2>1 DEF CopyType
  <2> QED BY <1>4, <1>5, <1>6, <2>2, <2>3
<1>8. CASE Skip
  <2>1. pc = "skip" /\ i <= HopLimit /\ UNCHANGED <<count, addr, left>>
    BY <1>2, <1>8 DEF Skip, Copies, Stuck, CopyType
  <2>2. CASE Writable /\ pc' = "seek" /\ i' = 0 /\ UNCHANGED <<d, offset>>
    <3>1. Phase' < Phase
      BY <2>1, <2>2 DEF Phase
    <3>2. CopyType'
      BY <1>1, <1>2, <1>3, <2>1, <2>2 DEF CopyType
    <3> QED BY <1>4, <1>5, <1>6, <3>1, <3>2
  <2>3. CASE Hop(offset) /\ pc' = pc
    <3>1. d' \in Descs /\ i' = i + 1 /\ offset' = offset
      BY <1>2, <2>3 DEF Hop, NextTurn
    <3>2. CopyType'
      BY <1>1, <1>2, <1>3, <2>1, <2>3, <3>1 DEF CopyType
    <3>3. Phase' = Phase /\ HopLimit + 1 - i' < HopLimit + 1 - i
      BY <1>2, <2>1, <2>3, <3>1 DEF Phase, CopyType
    <3> QED BY <1>4, <1>5, <1>6, <3>2, <3>3
  <2> QED BY <1>8, <2>2, <2>3 DEF Skip
<1>9. CASE Seek
  <2>1. pc = "seek" /\ i <= HopLimit /\ arg.count > 0 /\ UNCHANGED <<count, addr, left>>
    BY <1>2, <1>9 DEF Seek, Copies, Stuck, CopyType
  <2>2. CASE Inside /\ pc' = "copy" /\ i' = 0 /\ UNCHANGED <<d, offset>>
    <3>1. Phase' < Phase
      BY <2>1, <2>2 DEF Phase
    <3>2. len' = len /\ offset <= len
      BY <1>1, <1>2, <2>2 DEF len, Inside, CopyType
    <3>3. CopyType'
      BY <1>1, <1>2, <1>3, <2>1, <2>2, <3>2 DEF CopyType
    <3> QED BY <1>4, <1>5, <1>6, <3>1, <3>3
  <2>3. CASE ~Inside /\ Hop(OffsetBehind) /\ pc' = pc
    <3>1. d' \in Descs /\ i' = i + 1 /\ offset' = offset - len
      BY <1>2, <2>3 DEF Hop, NextTurn, OffsetBehind
    <3>2. offset' \in Nat
      BY <1>2, <2>3, <3>1 DEF Inside, CopyType
    <3>3. CopyType'
      BY <1>1, <1>2, <1>3, <2>1, <2>3, <3>1, <3>2 DEF CopyType
    <3>4. Phase' = Phase /\ HopLimit + 1 - i' < HopLimit + 1 - i
      BY <1>2, <2>1, <2>3, <3>1 DEF Phase, CopyType
    <3> QED BY <1>4, <1>5, <1>6, <3>3, <3>4
  <2> QED BY <1>9, <2>2, <2>3 DEF Seek
<1>10. CASE Copy
  <2>1. /\ pc = "copy" /\ i <= HopLimit /\ pc' = "chunk" /\ UNCHANGED <<d, i, offset, count>>
        /\ addr' = Base[d] + offset /\ left' = Piece
    <3>1. /\ Copies("copy") /\ pc' = "chunk" /\ UNCHANGED <<d, i, offset, count>>
          /\ addr' = Base[d] + offset /\ left' = Piece
      BY Zenon, <1>10 DEF Copy
    <3>2. pc = "copy" /\ i <= HopLimit
      BY <1>2, <3>1 DEF Copies, Stuck, CopyType
    <3> QED BY Zenon, <3>1, <3>2
  <2>2. len' = len /\ addr' \in Nat /\ left' \in Nat
    BY <1>1, <1>2, <2>1 DEF len, Piece, Smaller, CopyType
  <2>3. CopyType'
    BY <1>1, <1>2, <1>3, <2>1, <2>2 DEF CopyType
  <2>4. Phase' = Phase
    BY <2>1 DEF Phase
  <2> QED BY <1>4, <1>5, <1>6, <2>1, <2>3, <2>4
<1>11. CASE CopyChunk
  <2>1. pc = "chunk" /\ left > 0 /\ pc' = pc /\ UNCHANGED <<d, i, offset, count>>
    BY <1>11 DEF CopyChunk
  <2>2. addr % Page \in 0..(Page - 1)
    <3>1. Page \in Nat \ {0} /\ addr \in Int
      BY <1>2, ChainAssumption DEF CopyType
    <3> QED BY Zenon, <3>1, Division
  <2>3. Chunk \in 1..left
    BY <1>2, <2>1, <2>2 DEF Chunk, Smaller, CopyType
  <2>4. addr' \in Nat /\ left' \in Nat /\ left' < left
    BY <1>11, <2>1, <2>3 DEF CopyChunk, CopyType
  <2>5. len' = len
    BY <1>1, <2>1 DEF len
  <2>6. CopyType'
    BY <1>1, <1>2, <1>3, <2>1, <2>4, <2>5 DEF CopyType
  <2>7. Phase' = Phase
    BY <2>1 DEF Phase
  <2>8. Rank'[1] = Rank[1] /\ Rank'[2] = Rank[2] /\ Rank'[3] = Rank[3]
    <3>1. i' = i /\ pc' = pc
      BY Zenon, <2>1
    <3>2. Rank'[3] = Rank[3]
      BY <1>4, <1>5, <3>1
    <3> QED BY Zenon, <1>4, <1>5, <2>7, <3>1, <3>2
  <2>9. Rank'[4] < Rank[4]
    BY Zenon, <1>4, <1>5, <2>4
  <2> QED BY Zenon, <1>6, <2>6, <2>8, <2>9
<1>12. CASE NextPiece
  <2>1. pc = "chunk" /\ pc' = "copy" /\ i <= HopLimit /\ count # Piece
    BY <1>12 DEF NextPiece, PieceDone, CopyType
  <2>2. /\ d' \in Descs /\ i' = i + 1 /\ offset' = 0 /\ addr' = 0 /\ left' = left
        /\ count' = count - Piece
    BY <1>2, <1>12 DEF NextPiece, Hop, NextTurn
  <2>3. Piece \in 0..count
    BY <1>2, <2>1 DEF Piece, Smaller, CopyType
  <2>4. count' \in 0..arg.count /\ count' > 0
    BY <1>2, <2>1, <2>2, <2>3 DEF CopyType
  <2>5. len' \in Nat
    BY <1>1, <1>2, <2>2 DEF len
  <2>6. CopyType'
    BY <1>1, <1>2, <1>3, <2>1, <2>2, <2>4, <2>5 DEF CopyType
  <2>7. Phase' = Phase /\ HopLimit + 1 - i' < HopLimit + 1 - i
    BY <1>2, <2>1, <2>2 DEF Phase, CopyType
  <2> QED BY <1>4, <1>5, <1>6, <2>6, <2>7
<1>13. ~SizeStep /\ ~SizeMixed /\ ~Done
  BY DEF SizeStep, SizeMixed, Done, CopyType
<1> QED BY Zenon, <1>7, <1>8, <1>9, <1>10, <1>11, <1>12, <1>13 DEF Next

(* So it always does. *)
LEMMA CopyTypeInvariant == Spec => []CopyTyped
<1>1. CopyTyped /\ [Next]_vars => CopyTyped'
  <2>1. CASE UNCHANGED vars
    <3>1. UNCHANGED <<desc, fn, arg, d, i, pc, offset, count, addr, left>>
      BY <2>1 DEF vars, args, locals
    <3> QED BY Zenon, <3>1 DEF CopyTyped, CopyType, Args, f_write_flag, len
  <2>2. ASSUME CopyTyped, Next, ~UNCHANGED vars, fn' # "size" PROVE CopyType'
    <3>1. fn # "size"
      BY <2>2, ArgsKept DEF args
    <3> QED BY Zenon, <2>2, <3>1, CopyTypeStep DEF CopyTyped
  <2> QED BY Zenon, <2>1, <2>2 DEF CopyTyped
<1> QED BY <1>1, CopyTypeInit, PTL DEF Spec

(* One piece of one page, begun in guest memory or just behind it, ends     *)
(* less than a page behind it.                                              *)
Reach == fn # "size" => \A m \in moved : m[2] < MemSize + Page
LEMMA ReachStep ==
  ASSUME CopyTyped, Reach, [Next]_vars
  PROVE  Reach'
<1>1. fn' = fn
  BY ArgsKept DEF args
<1>2. CASE UNCHANGED moved
  BY Zenon, <1>1, <1>2 DEF Reach
<1>3. CASE fn # "size" /\ CopyChunk /\ ~UNCHANGED moved
  <2> DEFINE x == arg.count - count + (addr - Base[d] - offset)
             New == {<<x + k + 1, addr + k>> : k \in 0..(Chunk - 1)}
  <2>1. addr <= MemSize /\ moved' = moved \cup New
    BY <1>3 DEF CopyChunk, guest_addr_to_host_addr
  <2>2. /\ addr \in Nat /\ left \in Nat /\ MemSize \in Nat /\ Page \in Nat \ {0}
        /\ addr % Page \in 0..(Page - 1)
    BY <1>3, ChainAssumption DEF CopyTyped, CopyType
  <2>3. Chunk \in Int /\ Chunk <= Page
    BY <2>2 DEF Chunk, Smaller
  <2>4. \A k \in 0..(Chunk - 1) : addr + k < MemSize + Page
    BY <2>1, <2>2, <2>3
  <2>5. \A m \in New : m[2] < MemSize + Page
    BY <2>4
  <2> QED BY Zenon, <1>1, <1>3, <2>1, <2>5 DEF Reach
<1>4. CASE Next /\ ~CopyChunk
  <2>1. UNCHANGED moved
    BY Zenon, <1>4 DEF Next, SizeStep, SizeMixed, NothingToCopy, Skip, Seek, Copy,
       LastPiece, NextPiece, CopyFails, Done, Return, vars
  <2> QED BY <1>2, <2>1
<1>5. CASE UNCHANGED vars
  BY <1>2, <1>5 DEF vars
<1>6. CASE fn = "size"
  BY <1>1, <1>6 DEF Reach
<1> QED BY Zenon, <1>2, <1>3, <1>4, <1>5, <1>6

(* A copy moves no byte but those of its range, each to or from its own     *)
(* place, and a copy that returns 0 has moved all of them that lie in guest *)
(* memory: across descriptors, empty ones among them, and page boundaries.  *)
(* On any chain, cyclic or not, it stays less than a page past the end.     *)
THEOREM CopiesAreExact == Spec => []CopyExact
<1>1. Init => Reach
  BY DEF Init, Reach
<1>2. ChainInv /\ Reach => CopyExact
  BY Zenon, Placed DEF CopyExact, Reach
<1> QED BY <1>1, <1>2, ReachStep, CopyTypeInvariant, ChainInvariant, PTL DEF Spec

(* What the rank always is, and what a step does to it. *)
RankIsNat == fn # "size" => \A j \in 1..4 : Rank[j] \in Nat
RankFalls == fn # "size" => Lower(Rank', Rank)

(* The rank is one of natural numbers throughout, and every step of        *)
(* memcpy_from_queue or memcpy_to_queue lowers it: on no chain, however     *)
(* its descriptors point at each other, does a copy run for ever.           *)
THEOREM CopiesRunDown == Spec => []RankIsNat /\ [][RankFalls]_vars
<1>1. CopyTyped => RankIsNat
  <2> SUFFICES ASSUME CopyType, NEW j \in 1..4 PROVE Rank[j] \in Nat
    BY DEF CopyTyped, RankIsNat
  <2>1. Phase \in Nat /\ HopLimit + 1 - i \in Nat /\ left \in Nat
    BY ChainAssumption DEF Phase, CopyType
  <2> QED BY <2>1 DEF Rank
<1>2. CopyTyped /\ [Next]_vars => [RankFalls]_vars
  BY Zenon, CopyTypeStep DEF CopyTyped, RankFalls
<1> QED BY <1>1, <1>2, CopyTypeInvariant, PTL DEF Spec


-----------------------------------------------------------------------------
(* A chain that ends has no descriptor twice: from two places with the same *)
(* descriptor it would go on alike, and only its last place has no next.    *)
LEMMA NoRepeat ==
  ASSUME NEW n \in Nat, NEW s \in [1..n -> Descs], IsChain(s, n),
         NEW j \in 1..n, NEW k \in 1..n, s[j] = s[k], j < k
  PROVE  FALSE
<1>1. /\ \A x \in 1..(n - 1) : desc[s[x]].next = s[x + 1]
      /\ desc[s[n]].next = 0
  BY Zenon DEF IsChain
<1> DEFINE T == {x \in 0..(n - k) : s[j + x] # s[k + x]}
<1>2. T = {}
  <2>1. SUFFICES ASSUME T # {} PROVE FALSE
    OBVIOUS
  <2>2. PICK x \in T : \A y \in T : x <= y
    <3>1. T \in SUBSET Nat
      OBVIOUS
    <3> QED BY Zenon, <2>1, <3>1, Least
  <2>3. x \in 1..(n - k) /\ x - 1 \in 0..(n - k) /\ x - 1 \notin T
    BY <2>2
  <2>4. s[j + (x - 1)] = s[k + (x - 1)]
    BY <2>3
  <2>5. /\ desc[s[j + (x - 1)]].next = s[j + x]
        /\ desc[s[k + (x - 1)]].next = s[k + x]
    <3>1. /\ j + (x - 1) \in 1..(n - 1) /\ (j + (x - 1)) + 1 = j + x
          /\ k + (x - 1) \in 1..(n - 1) /\ (k + (x - 1)) + 1 = k + x
      BY <2>3
    <3> QED BY Zenon, <1>1, <3>1
  <2> QED BY <2>2, <2>4, <2>5
<1>3. s[j + (n - k)] = s[n]
  <2>1. \A x \in 0..(n - k) : s[j + x] = s[k + x]
    BY Zenon, <1>2
  <2>2. n - k \in 0..(n - k) /\ k + (n - k) = n
    OBVIOUS
  <2> QED BY Zenon, <2>1, <2>2
<1>4. j + (n - k) \in 1..(n - 1) /\ (j + (n - k)) + 1 \in 1..n
  OBVIOUS
<1>5. s[(j + (n - k)) + 1] = 0
  BY Zenon, <1>1, <1>3, <1>4
<1> QED BY <1>4, <1>5, ChainAssumption DEF Descs

(* Two chains that end are the same. *)
LEMMA SameChain ==
  ASSUME NEW n \in Nat \ {0}, NEW s \in [1..n -> Descs], IsChain(s, n),
         NEW m \in Nat \ {0}, NEW t \in [1..m -> Descs], IsChain(t, m), n <= m
  PROVE  n = m /\ s = t
<1>1. /\ \A x \in 1..(n - 1) : desc[s[x]].next = s[x + 1]
      /\ \A x \in 1..(m - 1) : desc[t[x]].next = t[x + 1]
      /\ desc[s[n]].next = 0 /\ s[1] = t[1]
  BY Zenon DEF IsChain
<1> DEFINE T == {x \in 1..n : s[x] # t[x]}
<1>2. T = {}
  <2>1. SUFFICES ASSUME T # {} PROVE FALSE
    OBVIOUS
  <2>2. PICK x \in T : \A y \in T : x <= y
    <3>1. T \in SUBSET Nat
      OBVIOUS
    <3> QED BY Zenon, <2>1, <3>1, Least
  <2>3. x - 1 \in 1..n /\ x - 1 \notin T
    BY <1>1, <2>2
  <2>4. s[x - 1] = t[x - 1]
    BY <2>3
  <2>5. desc[s[x - 1]].next = s[x] /\ desc[t[x - 1]].next = t[x]
    <3>1. x - 1 \in 1..(n - 1) /\ x - 1 \in 1..(m - 1) /\ (x - 1) + 1 = x
      BY <2>2, <2>3
    <3> QED BY Zenon, <1>1, <3>1
  <2> QED BY <2>2, <2>4, <2>5
<1>3. \A x \in 1..n : s[x] = t[x]
  BY <1>2
<1>4. n = m
  <2>1. SUFFICES ASSUME n < m PROVE FALSE
    OBVIOUS
  <2>2. n \in 1..n /\ n \in 1..(m - 1) /\ n + 1 \in 1..m
    BY <2>1
  <2>3. t[n + 1] = 0
    BY Zenon, <1>1, <1>3, <2>2
  <2> QED BY <2>2, <2>3, ChainAssumption DEF Descs
<1> QED BY <1>3, <1>4

(* No function puts n things into fewer than n places without putting two   *)
(* into one: from the least number m of places with such a function f, take *)
(* away place m, and let what f puts last go where f left m.                *)
LEMMA Pigeonhole ==
  ASSUME NEW n \in Nat, NEW m \in Nat, NEW f \in [1..n -> 1..m],
         \A j, k \in 1..n : f[j] = f[k] => j = k
  PROVE  n <= m
<1> DEFINE Apart(g, x) == \A j, k \in 1..x : g[j] = g[k] => j = k
           T == {y \in Nat : \E x \in Nat : x > y /\ \E g \in [1..x -> 1..y] : Apart(g, x)}
<1>1. T = {}
  <2>1. SUFFICES ASSUME T # {} PROVE FALSE
    BY Zenon
  <2>2. PICK y \in T : \A z \in T : y <= z
    <3>1. T \in SUBSET Nat
      OBVIOUS
    <3> QED BY Zenon, <2>1, <3>1, Least
  <2>3. PICK x \in Nat : x > y /\ \E g \in [1..x -> 1..y] : Apart(g, x)
    BY Zenon, <2>2
  <2>4. PICK g \in [1..x -> 1..y] : Apart(g, x)
    BY Zenon, <2>3
  <2>5. y \in Nat /\ y - 1 \notin T /\ x > y
    <3>1. y \in Nat /\ x > y
      BY Zenon, <2>2, <2>3
    <3> HIDE DEF T
    <3> QED BY <2>2, <3>1
  <2>6. x \in 1..x /\ g[x] \in 1..y /\ y - 1 \in Nat /\ x - 1 \in Nat /\ x - 1 > y - 1
    BY <2>3, <2>4, <2>5
  <2> DEFINE e == [j \in 1..(x - 1) |-> IF g[j] = y THEN g[x] ELSE g[j]]
  <2>7. \A j \in 1..(x - 1) : j \in 1..x /\ j # x /\ g[j] \in 1..y /\ g[j] # g[x]
    BY <2>4, <2>6
  <2>8. e \in [1..(x - 1) -> 1..(y - 1)]
    <3>1. \A j \in 1..(x - 1) : (IF g[j] = y THEN g[x] ELSE g[j]) \in 1..(y - 1)
      BY <2>5, <2>6, <2>7
    <3> QED BY <3>1
  <2>9. Apart(e, x - 1)
    BY Zenon, <2>4, <2>7
  <2> HIDE DEF e, Apart
  <2>10. \E v \in Nat : v > y - 1 /\ \E u \in [1..v -> 1..(y - 1)] : Apart(u, v)
    BY Zenon, <2>6, <2>8, <2>9
  <2> QED BY Zenon, <2>5, <2>6, <2>10
<1>2. Apart(f, n)
  OBVIOUS
<1> HIDE DEF Apart
<1>3. n > m => m \in T
  BY <1>2
<1> HIDE DEF T
<1> QED BY <1>1, <1>3

(* The reference leaves no chain out: a chain that ends after any number of *)
(* descriptors has at most N, and is the one the properties speak of.       *)
THEOREM ReferenceIsTheChain ==
  ASSUME NEW n \in Nat \ {0}, NEW s \in [1..n -> Descs], IsChain(s, n)
  PROVE  Ends /\ n = Length /\ s = Chain
<1>1. \A j, k \in 1..n : s[j] = s[k] => j = k
  <2>1. SUFFICES ASSUME NEW j \in 1..n, NEW k \in 1..n, s[j] = s[k], j # k PROVE FALSE
    OBVIOUS
  <2>2. n \in Nat /\ (j < k \/ k < j)
    BY <2>1
  <2> QED BY <2>1, <2>2, NoRepeat
<1>2. n <= N
  <2>1. s \in [1..n -> 1..N] /\ N \in Nat /\ n \in Nat
    BY ChainAssumption DEF Descs
  <2> QED BY Zenon, <1>1, <2>1, Pigeonhole
<1>3. n \in 1..N /\ HasLength(n)
  BY <1>2, ChainAssumption DEF HasLength
<1>4. Ends /\ Length \in 1..N /\ HasLength(Length)
  BY Zenon, <1>3 DEF Ends, Length
<1>5. Chain \in [1..Length -> Descs] /\ IsChain(Chain, Length)
  BY Zenon, <1>4 DEF HasLength, Chain
<1>6. Length \in Nat \ {0} /\ (n <= Length \/ Length <= n)
  BY <1>4, ChainAssumption
<1> QED BY Zenon, <1>4, <1>5, <1>6, SameChain

(* Adding up the sizes: every step of get_desc_rw_size goes on to a later   *)
(* descriptor of a chain that ends, or on to the next loop or the end.      *)
SizePhase == IF pc = "sizeRead" THEN 2 ELSE IF pc = "sizeWrite" THEN 1 ELSE 0
SumsAdvance ==
  fn = "size" => \A n \in 1..N : \A s \in [1..n -> Descs] : IsChain(s, n) =>
    \A k, l \in 1..n : d = s[k] /\ d' = s[l] => k < l \/ (k = l /\ SizePhase' < SizePhase)

(* So its loops, which count no turns, end on every chain that does. *)
THEOREM SumsRunDown == Spec => [][SumsAdvance]_vars
<1> DEFINE Typed == fn = "size" => pc \in {"sizeRead", "sizeWrite", "done"}
<1>1. Init => Typed
  <2>1. Init /\ fn = "size" => pc = "sizeRead"
    <3>1. Init => pc = CASE fn = "size" -> "sizeRead" [] fn = "from" -> "seek"
                         [] fn = "to" -> "skip"
      BY Zenon DEF Init
    <3> QED BY <3>1
  <2> QED BY Zenon, <2>1
<1>2. Typed /\ [Next]_vars => Typed'
  BY Zenon DEF Next, SizeStep, SizeMixed, NothingToCopy, Skip, Seek, Copy, CopyChunk, LastPiece,
         NextPiece, CopyFails, Done, Return, PieceDone, Copies, vars, args
<1>3. Typed /\ [Next]_vars => [SumsAdvance]_vars
  <2> SUFFICES ASSUME Typed, Next, ~UNCHANGED vars, fn = "size",
                      NEW n \in 1..N, NEW s \in [1..n -> Descs], IsChain(s, n),
                      NEW k \in 1..n, NEW l \in 1..n, d = s[k], d' = s[l]
      PROVE  k < l \/ (k = l /\ SizePhase' < SizePhase)
    BY Zenon DEF SumsAdvance
  <2>1. n \in Nat /\ (s[k] = s[l] => k = l)
    <3>0. N \in Nat
      BY Zenon, ChainAssumption
    <3>1. n \in Nat /\ (k < l \/ l < k \/ k = l)
      BY <3>0
    <3> QED BY <3>1, NoRepeat
  <2>2. SizeStep \/ SizeMixed
    BY Zenon DEF Next, NothingToCopy, Skip, Seek, Copy, CopyChunk, LastPiece, NextPiece, CopyFails,
           Done, PieceDone, Copies
  <2>3. \/ d' = d /\ SizePhase' < SizePhase
        \/ HasNext /\ d' = desc[d].next
    <3>1. CASE SizeStep
      <4>1. \/ pc = "sizeRead" /\ pc' = "sizeWrite" /\ d' = d
            \/ pc \in {"sizeRead", "sizeWrite"} /\ pc' = "done" /\ d' = d
            \/ HasNext /\ d' = desc[d].next
        BY Zenon, <3>1 DEF SizeStep
      <4> QED BY <4>1 DEF SizePhase
    <3>2. CASE SizeMixed
      <4>1. pc = "sizeWrite" /\ pc' = "done" /\ d' = d
        BY Zenon, <3>2 DEF SizeMixed, Return
      <4> QED BY <4>1 DEF SizePhase
    <3> QED BY Zenon, <2>2, <3>1, <3>2
  <2>4. CASE d' = d /\ SizePhase' < SizePhase
    BY <2>1, <2>4
  <2>5. CASE HasNext /\ d' = desc[d].next
    <3>1. k # n
      BY <2>5 DEF IsChain, HasNext
    <3>2. k \in 1..(n - 1) /\ k + 1 \in 1..n
      BY <2>1, <3>1
    <3>3. d' = s[k + 1]
      BY Zenon, <2>5, <3>2 DEF IsChain
    <3>4. k + 1 = l
      <4>1. k + 1 < l \/ l < k + 1 \/ k + 1 = l
        BY <2>1
      <4> QED BY Zenon, <2>1, <3>2, <3>3, <4>1, NoRepeat
    <3> QED BY <3>4
  <2> QED BY Zenon, <2>3, <2>4, <2>5
<1> QED BY <1>1, <1>2, <1>3, PTL DEF Spec

=============================================================================
