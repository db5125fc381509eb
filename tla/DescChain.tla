------------------------------ MODULE DescChain ------------------------------
(***************************************************************************)
(* How the device walks a descriptor chain (virtio.c 283-433, 632-665):    *)
(* get_desc_rw_size adds up its readable and writable bytes,               *)
(* memcpy_from_queue / memcpy_to_queue copy count bytes at an offset, in   *)
(* pieces per descriptor and, within one, per guest page.  One step is one *)
(* turn of a loop.  The initial states are all small chains, cyclic and    *)
(* malformed ones included, with all small offsets and counts.             *)
(*                                                                         *)
(* The descriptor table itself is in guest memory (get_desc succeeds) and  *)
(* lengths are below 2^31.                                                 *)
(***************************************************************************)
EXTENDS Integers

CONSTANTS
  N,          \* descriptors in the table
  Lens,       \* lengths a descriptor may have
  Base,       \* Base[d]: guest address of the buffer of descriptor d
  Page,       \* VIRTIO_PAGE_SIZE
  MemSize,    \* mem_map->size
  HopLimit,   \* 1024 in the code
  MaxOffset, MaxCount, \* bounds on the arguments of a copy
  IntMod      \* the sums of get_desc_rw_size wrap here (2^32)

ASSUME ChainAssumption ==
  /\ N \in Nat \ {0} /\ Page \in Nat \ {0} /\ MemSize \in Nat
  /\ Lens \subseteq Nat /\ Base \in [1..N -> Nat]
  /\ HopLimit \in Nat /\ HopLimit >= N /\ IntMod \in Nat \ {0}
  /\ MaxOffset \in Nat /\ MaxCount \in Nat

VARIABLES
  desc,           \* the table: len, write (flag) and next (0: no NEXT flag)
  fn, arg,        \* the function called, its offset and count
  pc, d, i,       \* place, current descriptor, turns of the current loop
  offset, count,  \* locals of memcpy_to_from_queue
  addr, left,     \* locals of virtio_memcpy_from/to_guest
  moved,          \* pairs <<byte of buf, guest address>> copied
  read_size, write_size, ret

args == <<desc, fn, arg>>
locals == <<offset, count, addr, left>>
sizes == <<read_size, write_size>>
vars == <<args, pc, d, i, locals, moved, sizes, ret>>

Descs == 1..N
First == 1

(* The descriptors that following next from the first one visits.          *)
Visited(t) ==
  {e \in Descs : \A S \in SUBSET Descs :
     (First \in S /\ \A x \in S : t[x].next \in S \cup {0}) => e \in S}

Tables == [Descs -> [len : Lens, write : BOOLEAN, next : 0..N]]
Unused == [len |-> 0, write |-> FALSE, next |-> 0]

Init ==
  /\ desc \in {t \in Tables : \A e \in Descs \ Visited(t) : t[e] = Unused}
  /\ \/ fn = "size" /\ arg = [offset |-> 0, count |-> 0]
     \/ fn \in {"from", "to"} /\ arg \in [offset : 0..MaxOffset, count : 0..MaxCount]
  /\ pc = (CASE fn = "size" -> "sizeRead" [] fn = "from" -> "seek" [] fn = "to" -> "skip")
  /\ d = First /\ i = 0
  /\ offset = arg.offset /\ count = arg.count /\ addr = 0 /\ left = 0
  /\ moved = {} /\ read_size = 0 /\ write_size = 0 /\ ret = 0

-----------------------------------------------------------------------------
len == desc[d].len
Writable == desc[d].write
HasNext == desc[d].next # 0
f_write_flag == fn = "to"

Return(r) ==
  /\ ret' = r /\ pc' = "done"
  /\ UNCHANGED <<args, d, i, locals, moved, sizes>>

(* get_desc_rw_size: two loops without a bound. *)
SumLast(a) == len
Sum(a) == (a + len) % IntMod

SizeStep ==
  /\ pc \in {"sizeRead", "sizeWrite"} /\ (pc = "sizeWrite" => Writable)
  /\ IF pc = "sizeRead" /\ Writable
       THEN pc' = "sizeWrite" /\ UNCHANGED <<d, sizes>>
       ELSE /\ read_size' = IF Writable THEN read_size ELSE Sum(read_size)
            /\ write_size' = IF Writable THEN Sum(write_size) ELSE write_size
            /\ IF HasNext THEN d' = desc[d].next /\ UNCHANGED pc
                          ELSE pc' = "done" /\ UNCHANGED d
  /\ UNCHANGED <<args, i, locals, moved, ret>>

SizeMixed == pc = "sizeWrite" /\ ~Writable /\ Return(-1)

-----------------------------------------------------------------------------
(* memcpy_to_from_queue.                                                    *)

NothingToCopy == count = 0 /\ pc \in {"seek", "skip"} /\ i = 0 /\ Return(0)

Stuck == i > HopLimit
Copies(p) == pc = p /\ arg.count > 0 /\ ~Stuck

NextTurnKept == i
NextTurn == i + 1
Hop(newOffset) ==
  /\ HasNext
  /\ d' = desc[d].next /\ i' = NextTurn /\ offset' = newOffset

(* The first writable descriptor. *)
Skip ==
  /\ Copies("skip")
  /\ \/ Writable /\ pc' = "seek" /\ i' = 0 /\ UNCHANGED <<d, offset>>
     \/ ~Writable /\ Hop(offset) /\ UNCHANGED pc
  /\ UNCHANGED <<args, count, addr, left, moved, sizes, ret>>

Inside == offset < len
OffsetBehindKept == offset
OffsetBehind == offset - len

(* The descriptor the offset falls into. *)
Seek ==
  /\ Copies("seek") /\ Writable = f_write_flag
  /\ \/ Inside /\ pc' = "copy" /\ i' = 0 /\ UNCHANGED <<d, offset>>
     \/ ~Inside /\ Hop(OffsetBehind) /\ UNCHANGED pc
  /\ UNCHANGED <<args, count, addr, left, moved, sizes, ret>>

Smaller(a, b) == IF a < b THEN a ELSE b
PieceUnbounded == count
Piece == Smaller(count, len - offset)

Copy ==
  /\ Copies("copy")
  /\ addr' = Base[d] + offset /\ left' = Piece
  /\ pc' = "chunk"
  /\ UNCHANGED <<args, d, i, offset, count, moved, sizes, ret>>

(* virtio_memcpy_from/to_guest: at most to the end of the page.  The       *)
(* result of a failed translation is dropped by the caller.                *)
Chunk == Smaller(left, Page - (addr % Page))
guest_addr_to_host_addr(a) == a <= MemSize

CopyChunk ==
  /\ pc = "chunk" /\ left > 0
  /\ IF guest_addr_to_host_addr(addr)
       THEN /\ moved' = moved \cup
                 {<<arg.count - count + (addr - Base[d] - offset) + k + 1, addr + k>> :
                    k \in 0..(Chunk - 1)}
            /\ addr' = addr + Chunk /\ left' = left - Chunk
       ELSE left' = 0 /\ UNCHANGED <<moved, addr>>
  /\ UNCHANGED <<args, pc, d, i, offset, count, sizes, ret>>

(* The piece is done: that was all, or the descriptor is used up and the   *)
(* next one must be of the same direction.                                 *)
PieceDone == pc = "chunk" /\ left = 0
LastPiece == PieceDone /\ count = Piece /\ Return(0)
SameDirection == HasNext /\ desc[desc[d].next].write = f_write_flag

NextPiece ==
  /\ PieceDone /\ count # Piece /\ SameDirection /\ Hop(0)
  /\ count' = count - Piece /\ pc' = "copy" /\ addr' = 0
  /\ UNCHANGED <<args, left, moved, sizes, ret>>

CopyFails ==
  /\ arg.count > 0
  /\ \/ pc \in {"skip", "seek", "copy"} /\ Stuck
     \/ pc = "skip" /\ ~Writable /\ ~HasNext
     \/ pc = "seek" /\ Writable # f_write_flag
     \/ pc = "seek" /\ ~Inside /\ ~HasNext
     \/ PieceDone /\ count # Piece /\ ~SameDirection
  /\ Return(-1)

Done == pc = "done" /\ UNCHANGED vars

Next ==
  \/ SizeStep \/ SizeMixed \/ NothingToCopy \/ Skip \/ Seek \/ Copy \/ CopyChunk
  \/ LastPiece \/ NextPiece \/ CopyFails \/ Done

(* The functions run without waiting for anything. *)
Spec == Init /\ [][Next]_vars /\ WF_vars(Next)

-----------------------------------------------------------------------------
(* The reference: the chain laid out flat.  A chain that ends visits no     *)
(* descriptor twice, so it has at most N of them.                           *)
IsChain(s, n) ==
  /\ s[1] = First
  /\ \A k \in 1..(n - 1) : desc[s[k]].next = s[k + 1]
  /\ desc[s[n]].next = 0
HasLength(n) == \E s \in [1..n -> Descs] : IsChain(s, n)
Ends == \E n \in 1..N : HasLength(n)
Length == CHOOSE n \in 1..N : HasLength(n)
Chain == CHOOSE s \in [1..Length -> Descs] : IsChain(s, Length)

(* Layout[k]: the bytes of the first k descriptors. *)
Layout[k \in 0..Length] == IF k = 0 THEN 0 ELSE Layout[k - 1] + desc[Chain[k]].len

(* The last of the descriptors after the first k of the chain s that are   *)
(* all writable (or all readable).                                         *)
EndsRun(s, n, k, write, e) ==
  /\ \A j \in (k + 1)..e : desc[s[j]].write = write
  /\ e = n \/ desc[s[e + 1]].write # write
RunEnd(k, write) == CHOOSE e \in k..Length : EndsRun(Chain, Length, k, write, e)
ReadEnd == RunEnd(0, FALSE)
WriteEnd == RunEnd(ReadEnd, TRUE)

SegStart == IF fn = "from" THEN 0 ELSE ReadEnd
SegEnd == IF fn = "from" THEN ReadEnd ELSE WriteEnd
SegLen == Layout[SegEnd] - Layout[SegStart]
Bytes(k) ==
  {<<Layout[k - 1] - Layout[SegStart] - arg.offset + j, Base[Chain[k]] + j - 1>> :
     j \in 1..desc[Chain[k]].len}
Wanted == {w \in UNION {Bytes(k) : k \in (SegStart + 1)..SegEnd} : w[1] \in 1..arg.count}

(* get_desc_rw_size returns the readable and the writable bytes of a chain *)
(* of readable descriptors followed by writable ones, and fails exactly on *)
(* the others.                                                             *)
SizesExact ==
  (pc = "done" /\ fn = "size" /\ Ends) =>
    /\ (ret = 0) = (WriteEnd = Length)
    /\ ret = 0 => /\ read_size = Layout[ReadEnd] % IntMod
                  /\ write_size = (Layout[WriteEnd] - Layout[ReadEnd]) % IntMod

(* A copy succeeds exactly when its range lies within the readable (from)  *)
(* or writable (to) bytes of the chain, wherever the descriptor and page   *)
(* boundaries fall and also across empty descriptors.                      *)
CopyAccepted ==
  (pc = "done" /\ fn # "size" /\ Ends) =>
    (ret = 0) = (arg.count = 0 \/ arg.offset + arg.count <= SegLen)

(* On no chain does a copy reach a whole page past the end of guest memory *)
(* (guest_addr_to_host_addr lets the address just behind it through).  It  *)
(* moves no byte to or from a place other than the one the flat chain      *)
(* gives it, and when it reports success it has moved them all except      *)
(* those beyond the end (the result of the copy per descriptor is not      *)
(* looked at).                                                             *)
CopyExact ==
  fn # "size" =>
    /\ \A m \in moved : m[2] < MemSize + Page
    /\ Ends => /\ moved \subseteq Wanted
               /\ (pc = "done" /\ ret = 0) => \A w \in Wanted \ moved : w[2] > MemSize

(* A copy comes to an end on every chain, cyclic ones included, and adding *)
(* up the sizes on every chain that ends.                                  *)
Terminates == <>(pc = "done" \/ (fn = "size" /\ ~Ends))
=============================================================================
