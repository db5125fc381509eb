--------------------------- MODULE VirtioNetProofs ---------------------------
(***************************************************************************)
(* Safety of the network device, for every queue size and index width, any *)
(* packets, and any number of resets.                                      *)
(*                                                                         *)
(* NetInv is the inductive invariant: what the registers hold at each      *)
(* place of the driver's setup (RegsInv), who is inside s->lock (LockInv), *)
(* that from a reset to the end of the next setup the rings are empty and  *)
(* no thread is at work on them (FallowInv), that every buffer has one     *)
(* owner (OwnerInv), that queue_notify does not run past what the driver   *)
(* offered (TgtInv), and the two properties that are inductive with these. *)
(* The step lemmas of the first three need only each other (Core).  The    *)
(* last part shows the refinement of LossyLink in either direction.        *)
(***************************************************************************)
EXTENDS VirtioNet, RingProofs, TLAPS

Payloads == TxPackets \cup RxPackets \cup {Blank}
Addrs == [lo : Int, hi : Int]
QueueRegs == [ready : {0, 1}, num : Int, last_avail_idx : Idx, desc_addr : Addrs,
              avail_addr : Addrs, used_addr : Addrs, manual_recv : BOOLEAN]
Devices == [status : Int, queue_sel : Queues, device_features_sel : Int,
            int_status : {0, 1}, queue : [Queues -> QueueRegs]]

RingType ==
  /\ avail \in [Queues -> [quiet : BOOLEAN, idx : Idx, ring : [Heads -> Heads]]]
  /\ used \in [Queues -> [idx : Idx, ring : [Heads -> Heads]]]
  /\ buf \in [Queues -> [Heads -> Payloads]]
  /\ freeHeads \in [Queues -> SUBSET Heads] /\ skipped \in [Queues -> SUBSET Heads]
  /\ lastUsed \in [Queues -> Idx]
  /\ qpc \in [Queues -> {"idle", "drain", "recheck"}]
ThreadType ==
  /\ ppc \in {"poll", "lock", "send", "flags"} /\ pq \in Queues /\ tgt \in Idx
  /\ rpc \in {"read", "check", "write", "flags"} /\ rpkt \in Payloads
  /\ room \in BOOLEAN /\ isr \in BOOLEAN /\ lock \in {"free", "poll", "rx"}
DevType == dev \in Devices /\ at \in 0..(SetupLen + 1) /\ life \in Nat
TypeInv == RingType /\ ThreadType /\ DevType

(* s->lock: the poll thread and the receiver hold it while they complete a *)
(* buffer; the poll thread never serves the receive queue.                 *)
LockInv ==
  /\ lock = "poll" <=> ppc \in {"send", "flags"}
  /\ lock = "rx" <=> rpc = "flags"
  /\ ppc \in {"send", "flags"} => pq = TX
  /\ room => rpc = "write"

(* What the registers of a queue hold at each place of the driver's setup, *)
(* which begins with a reset.                                              *)
Before(q) == life = 0 \/ at \in 2..QueueAt(q)
After(q) == life > 0 /\ (at = 1 \/ at > QueueAt(q) + 2)
RegsInv ==
  /\ at # 0 /\ (life = 0 => at = 1)
  /\ dev.queue[RX].manual_recv /\ ~dev.queue[TX].manual_recv
  /\ \A q \in Queues :
       /\ Before(q) => /\ dev.queue[q].ready = 0 /\ dev.queue[q].avail_addr = Null
       /\ LowHalfOnly(q) => /\ dev.queue[q].ready = 0 /\ dev.queue[q].num = Num
                            /\ dev.queue[q].avail_addr = [lo |-> q + 1, hi |-> 0]
                            /\ dev.queue_sel = q
       /\ at = QueueAt(q) + 2 => /\ dev.queue[q].ready = 0 /\ dev.queue[q].num = Num
                                 /\ dev.queue[q].avail_addr = RingAddr(q)
                                 /\ dev.queue_sel = q
       /\ After(q) => /\ dev.queue[q].ready = 1 /\ dev.queue[q].num = Num
                      /\ dev.queue[q].avail_addr = RingAddr(q)

(* Until the setup is complete the driver's handlers are idle.  From the   *)
(* reset to the end of the setup the rings are empty, and no thread has    *)
(* anything to do on them.                                                 *)
Fallow == life = 0 \/ at \in 2..SetupLen
AtRest ==
  /\ ~room /\ ppc # "flags" /\ rpc # "flags" /\ (ppc = "send" => tgt = 0)
  /\ \A q \in Queues :
       /\ LastAvail(q) = 0 /\ avail[q].idx = 0 /\ used[q].idx = 0
       /\ lastUsed[q] = 0 /\ freeHeads[q] = Heads /\ skipped[q] = {}
FallowInv == /\ ~Up => ~isr /\ \A q \in Queues : qpc[q] = "idle"
             /\ Fallow => AtRest

(* OneOwner without counting: no ring holds a head twice, no head is in    *)
(* two places, none is missing.  The arguments are the available ring, how *)
(* far the device has taken it and the driver filled it, the used ring,    *)
(* how far the driver has taken it and the device filled it, the free      *)
(* heads and those passed over.                                            *)
Owners(ar, taken, ai, ur, lu, ui, free, over) ==
  /\ RingOK(ar, Num, IdxMod, taken, ai) /\ RingOK(ur, Num, IdxMod, lu, ui)
  /\ free \subseteq Heads /\ over \subseteq Heads
  /\ \A h \in Heads :
       /\ h \in free => /\ ~Holds(ar, Num, IdxMod, taken, ai, h)
                        /\ ~Holds(ur, Num, IdxMod, lu, ui, h) /\ h \notin over
       /\ Holds(ar, Num, IdxMod, taken, ai, h) =>
            ~Holds(ur, Num, IdxMod, lu, ui, h) /\ h \notin over
       /\ Holds(ur, Num, IdxMod, lu, ui, h) => h \notin over
       /\ \/ h \in free \/ Holds(ar, Num, IdxMod, taken, ai, h)
          \/ Holds(ur, Num, IdxMod, lu, ui, h) \/ h \in over
QueueOwners(q) ==
  Owners(avail[q].ring, Taken(q), avail[q].idx, used[q].ring, lastUsed[q],
         used[q].idx, freeHeads[q], skipped[q])
OwnerInv == (\A q \in Queues : QueueOwners(q)) /\ skipped[RX] = {}

(* The index queue_notify sampled is not past the available index. *)
TgtInv ==
  ppc \in {"send", "flags"} =>
    Gap(Taken(TX), tgt, IdxMod) <= Gap(Taken(TX), avail[TX].idx, IdxMod)

NetInv == /\ TypeInv /\ LockInv /\ RegsInv /\ FallowInv /\ OwnerInv /\ TgtInv
          /\ RoomStaysRoom /\ OnlyUnreadyStrays

-----------------------------------------------------------------------------
(* What the assumptions on the constants say of the sets built from them. *)
LEMMA Basics ==
  /\ Queues = {RX, TX} /\ RX # TX /\ RX \in Queues /\ TX \in Queues
  /\ Queues \subseteq Int /\ MaxQueueNum \in Int /\ Num \in Int
  /\ Sizes(Num, IdxMod) /\ 0 \in Heads /\ 0 \in Idx /\ IsPowerOfTwo(Num)
  /\ \A i \in Int : i % Num \in Heads /\ i % IdxMod \in Idx
  /\ Heads \subseteq Int /\ Idx \subseteq Int
  /\ \A i \in Idx : Inc(i) \in Idx /\ i % Num \in Heads
<1>1. /\ Queues = {RX, TX} /\ RX # TX /\ RX \in Queues /\ TX \in Queues
      /\ Queues \subseteq Int
  BY DEF Queues, MAX_QUEUE, RX, TX
<1>2. /\ Sizes(Num, IdxMod) /\ 0 \in Heads /\ 0 \in Idx /\ IsPowerOfTwo(Num)
      /\ MaxQueueNum \in Int /\ Num \in Int
  BY NetAssumption DEF Sizes, Heads, Idx
<1>3. \A i \in Int : i % Num \in Heads /\ i % IdxMod \in Idx
  <2>1. Num \in Nat \ {0} /\ IdxMod \in Nat \ {0}
    BY NetAssumption
  <2> QED BY Zenon, <2>1, ModDef DEF Heads, Idx
<1>4. Heads \subseteq Int /\ Idx \subseteq Int
  BY DEF Heads, Idx
<1>5. \A i \in Idx : Inc(i) \in Idx /\ i % Num \in Heads
  BY <1>3, <1>4 DEF Inc
<1> QED BY <1>1, <1>2, <1>3, <1>4, <1>5

-----------------------------------------------------------------------------
(* The registers. *)

(* The arms of the switch in virtio_mmio_write, one at a time. *)
LEMMA WriteArms ==
  ASSUME NEW d, NEW r, NEW v
  PROVE  /\ r = "DEVICE_FEATURES_SEL" =>
              virtio_mmio_write(d, r, v) = [d EXCEPT !.device_features_sel = v]
         /\ r = "QUEUE_SEL" => virtio_mmio_write(d, r, v)
              = IF v < MAX_QUEUE THEN [d EXCEPT !.queue_sel = v] ELSE d
         /\ r = "STATUS" => virtio_mmio_write(d, r, v)
              = IF v = 0 THEN virtio_reset(d) ELSE [d EXCEPT !.status = v]
         /\ r = "INTERRUPT_ACK" => virtio_mmio_write(d, r, v)
              = IF v % 2 = 1 THEN [d EXCEPT !.int_status = 0] ELSE d
         /\ r \notin {"DEVICE_FEATURES_SEL", "QUEUE_SEL", "STATUS", "INTERRUPT_ACK"} =>
              virtio_mmio_write(d, r, v)
                = [d EXCEPT !.queue[d.queue_sel] = WriteQueue(Selected(d), r, v)]
<1> DEFINE A == [d EXCEPT !.device_features_sel = v]
           B == IF v < MAX_QUEUE THEN [d EXCEPT !.queue_sel = v] ELSE d
           C == IF v = 0 THEN virtio_reset(d) ELSE [d EXCEPT !.status = v]
           D == IF v % 2 = 1 THEN [d EXCEPT !.int_status = 0] ELSE d
           E == [d EXCEPT !.queue[d.queue_sel] = WriteQueue(Selected(d), r, v)]
<1>1. virtio_mmio_write(d, r, v)
        = CASE r = "DEVICE_FEATURES_SEL" -> A
            [] r = "QUEUE_SEL" -> B
            [] r = "STATUS" -> C
            [] r = "INTERRUPT_ACK" -> D
            [] OTHER -> E
  BY ZenonT(30), ZenonT(60) DEF virtio_mmio_write
<1> HIDE DEF A, B, C, D, E
<1>2. /\ r = "DEVICE_FEATURES_SEL" => virtio_mmio_write(d, r, v) = A
      /\ r = "QUEUE_SEL" => virtio_mmio_write(d, r, v) = B
      /\ r = "STATUS" => virtio_mmio_write(d, r, v) = C
      /\ r = "INTERRUPT_ACK" => virtio_mmio_write(d, r, v) = D
      /\ r \notin {"DEVICE_FEATURES_SEL", "QUEUE_SEL", "STATUS", "INTERRUPT_ACK"} =>
           virtio_mmio_write(d, r, v) = E
  BY <1>1
<1> QED BY Zenon, <1>2 DEF A, B, C, D, E

(* The registers of the device itself, as virtio_mmio_write handles them. *)
LEMMA Writes ==
  ASSUME NEW d, NEW v
  PROVE  /\ virtio_mmio_write(d, "DEVICE_FEATURES_SEL", v)
              = [d EXCEPT !.device_features_sel = v]
         /\ v < MAX_QUEUE =>
              virtio_mmio_write(d, "QUEUE_SEL", v) = [d EXCEPT !.queue_sel = v]
         /\ v # 0 => virtio_mmio_write(d, "STATUS", v) = [d EXCEPT !.status = v]
         /\ virtio_mmio_write(d, "STATUS", 0) = virtio_reset(d)
         /\ virtio_mmio_write(d, "INTERRUPT_ACK", 1) = [d EXCEPT !.int_status = 0]
<1>1. 1 % 2 = 1
  OBVIOUS
<1> QED BY <1>1, WriteArms

QueueRegisters == {"QUEUE_NUM", "QUEUE_DESC_LOW", "QUEUE_DESC_HIGH",
  "QUEUE_AVAIL_LOW", "QUEUE_AVAIL_HIGH", "QUEUE_USED_LOW", "QUEUE_USED_HIGH",
  "QUEUE_READY"}

(* A write to a queue register changes the selected queue only. *)
LEMMA WriteSelected ==
  ASSUME NEW d \in Devices, NEW v, NEW r \in QueueRegisters,
         WriteQueue(d.queue[d.queue_sel], r, v) \in QueueRegs
  PROVE  LET e == virtio_mmio_write(d, r, v)
         IN  /\ e \in Devices /\ e.queue_sel = d.queue_sel
             /\ e.queue[d.queue_sel] = WriteQueue(d.queue[d.queue_sel], r, v)
             /\ \A p \in Queues : p # d.queue_sel => e.queue[p] = d.queue[p]
<1>1. virtio_mmio_write(d, r, v)
        = [d EXCEPT !.queue[d.queue_sel] = WriteQueue(d.queue[d.queue_sel], r, v)]
  <2>1. r \notin {"DEVICE_FEATURES_SEL", "QUEUE_SEL", "STATUS", "INTERRUPT_ACK"}
    BY DEF QueueRegisters
  <2>2. d.queue[d.queue_sel] = Selected(d)
    BY Zenon DEF Selected
  <2>3. virtio_mmio_write(d, r, v)
          = [d EXCEPT !.queue[d.queue_sel] = WriteQueue(Selected(d), r, v)]
    BY <2>1, WriteArms
  <2> QED BY Zenon, <2>2, <2>3
<1> DEFINE w == WriteQueue(d.queue[d.queue_sel], r, v)
<1> HIDE DEF w
<1>2. [d EXCEPT !.queue[d.queue_sel] = w] \in Devices
  BY DEF Devices, w
<1> QED BY <1>1, <1>2 DEF Devices, w

(* A reset leaves of a queue only whether the device fills it by itself. *)
LEMMA ResetQueues ==
  ASSUME NEW d \in Devices
  PROVE  /\ virtio_reset(d) \in Devices
         /\ \A q \in Queues :
              LET s == virtio_reset(d).queue[q]
              IN  /\ s.ready = 0 /\ s.avail_addr = Null /\ s.last_avail_idx = 0
                  /\ s.manual_recv = d.queue[q].manual_recv
<1>1. \A q \in Queues : d.queue[q] \in QueueRegs
  BY DEF Devices
<1>2. Null \in Addrs
  BY DEF Null, Addrs
<1>3. \A q \in Queues : Kept(d, q) \in QueueRegs
  BY Basics, <1>1, <1>2 DEF Kept, ResetQueue, QueueRegs
<1>4. \A q \in Queues :
        /\ Kept(d, q).ready = 0 /\ Kept(d, q).avail_addr = Null
        /\ Kept(d, q).last_avail_idx = 0
        /\ Kept(d, q).manual_recv = d.queue[q].manual_recv
  BY <1>1 DEF Kept, ResetQueue, QueueRegs
<1>5. virtio_reset(d) = [status |-> 0, queue_sel |-> 0, device_features_sel |-> 0,
                         int_status |-> 0, queue |-> [q \in Queues |-> Kept(d, q)]]
  BY DEF virtio_reset, ResetWith, ResetDevice
<1>6. 0 \in Queues
  BY Basics DEF RX
<1> QED BY <1>3, <1>4, <1>5, <1>6 DEF Devices

(* Feature negotiation succeeds and touches no queue. *)
LEMMA Negotiated ==
  ASSUME dev \in Devices, at \in Int, Negotiate
  PROVE  at' = at + 1 /\ dev' \in Devices /\ dev'.queue = dev.queue
<1> DEFINE d1 == [dev EXCEPT !.status = 3]
           d2 == [d1 EXCEPT !.device_features_sel = 1]
           d3 == [d2 EXCEPT !.status = 11]
<1>1. /\ virtio_mmio_write(dev, "STATUS", 3) = d1
      /\ virtio_mmio_write(d1, "DEVICE_FEATURES_SEL", 1) = d2
      /\ virtio_mmio_write(d2, "STATUS", 11) = d3
  <2>1. \A d : /\ virtio_mmio_write(d, "STATUS", 3) = [d EXCEPT !.status = 3]
              /\ virtio_mmio_write(d, "STATUS", 11) = [d EXCEPT !.status = 11]
              /\ virtio_mmio_write(d, "DEVICE_FEATURES_SEL", 1)
                   = [d EXCEPT !.device_features_sel = 1]
    BY Writes
  <2> QED BY Zenon, <2>1
<1>2. /\ d2.device_features_sel = 1 /\ d3.status = 11 /\ d3.queue = dev.queue
      /\ d3 \in Devices
  <2>1. d1 \in Devices /\ d1.queue = dev.queue
    BY DEF Devices
  <2> HIDE DEF d1
  <2>2. d2 \in Devices /\ d2.queue = dev.queue /\ d2.device_features_sel = 1
    BY <2>1 DEF Devices
  <2> HIDE DEF d2
  <2> QED BY <2>2 DEF Devices
<1> HIDE DEF d1, d2, d3
<1>3. virtio_mmio_read(d2, "DEVICE_FEATURES") = 1
  <2>1. virtio_mmio_read(d2, "DEVICE_FEATURES") = Features(d2.device_features_sel)
    BY DEF virtio_mmio_read
  <2> QED BY <1>2, <2>1 DEF Features
<1>4. virtio_mmio_read(d3, "STATUS") = 11
  BY <1>2 DEF virtio_mmio_read
<1>5. \A i \in 1..6 : virtio_config_read(i - 1, 1) = MAC[i]
  BY DEF virtio_config_read, Weight, config_space, MAC
<1>6. Then(d3, TRUE)
  BY <1>1, <1>3, <1>4, <1>5 DEF Negotiate, Then
<1> QED BY <1>2, <1>6 DEF Then

(* So does the end of the setup. *)
LEMMA Confirmed ==
  ASSUME dev \in Devices, at \in Int, DriverOk
  PROVE  at' = at + 1 /\ dev' \in Devices /\ dev'.queue = dev.queue
<1> DEFINE d == [dev EXCEPT !.status = 15]
<1>1. virtio_mmio_write(dev, "STATUS", 15) = d
  BY Writes
<1>2. d.status = 15 /\ d.queue = dev.queue /\ d \in Devices
  BY DEF Devices
<1> HIDE DEF d
<1>3. virtio_mmio_read(d, "STATUS") = 15
  BY <1>2 DEF virtio_mmio_read
<1>4. Then(d, TRUE)
  BY <1>1, <1>3 DEF DriverOk, Then
<1> QED BY <1>2, <1>4 DEF Then

(* The driver selects queue q, finds it not ready, and gives it its size   *)
(* and the lower half of the address of its available ring.                *)
LEMMA QueueSelected ==
  ASSUME dev \in Devices, at \in Int, NEW q \in Queues, SelectQueue(q),
         dev.queue[q].ready = 0
  PROVE  /\ at' = at + 1 /\ dev' \in Devices /\ dev'.queue_sel = q
         /\ \A p \in Queues : p # q => dev'.queue[p] = dev.queue[p]
         /\ dev'.queue[q].ready = 0 /\ dev'.queue[q].num = Num
         /\ dev'.queue[q].avail_addr
              = [lo |-> q + 1, hi |-> dev.queue[q].avail_addr.hi]
         /\ dev'.queue[q].last_avail_idx = dev.queue[q].last_avail_idx
         /\ dev'.queue[q].manual_recv = dev.queue[q].manual_recv
<1> DEFINE d1 == virtio_mmio_write(dev, "QUEUE_SEL", q)
           d2 == virtio_mmio_write(d1, "QUEUE_NUM", Num)
           d3 == virtio_mmio_write(d2, "QUEUE_DESC_LOW", q + 1)
           d4 == virtio_mmio_write(d3, "QUEUE_DESC_HIGH", High)
           d5 == virtio_mmio_write(d4, "QUEUE_AVAIL_LOW", q + 1)
           s == dev.queue[q]
           s2 == [s EXCEPT !.num = Num]
           s3 == [s2 EXCEPT !.desc_addr.lo = q + 1]
           s4 == [s3 EXCEPT !.desc_addr.hi = High]
           s5 == [s4 EXCEPT !.avail_addr.lo = q + 1]
<1>0. q + 1 \in Int /\ High \in Int /\ q < MAX_QUEUE
  BY Basics DEF High, MAX_QUEUE, RX, TX
<1>s. /\ s \in QueueRegs /\ s2 \in QueueRegs /\ s3 \in QueueRegs
      /\ s4 \in QueueRegs /\ s5 \in QueueRegs
      /\ s5.ready = s.ready /\ s5.num = Num
      /\ s5.avail_addr = [lo |-> q + 1, hi |-> s.avail_addr.hi]
      /\ s5.last_avail_idx = s.last_avail_idx /\ s5.manual_recv = s.manual_recv
  <2>1. s \in QueueRegs
    BY DEF Devices
  <2>2. s2 \in QueueRegs /\ s2.avail_addr = s.avail_addr /\ s2.ready = s.ready
        /\ s2.num = Num /\ s2.last_avail_idx = s.last_avail_idx
        /\ s2.manual_recv = s.manual_recv
    BY Basics, <2>1 DEF QueueRegs
  <2> HIDE DEF s2
  <2>3. s3 \in QueueRegs /\ s3.avail_addr = s.avail_addr /\ s3.ready = s.ready
        /\ s3.num = Num /\ s3.last_avail_idx = s.last_avail_idx
        /\ s3.manual_recv = s.manual_recv
    BY <1>0, <2>2 DEF QueueRegs, Addrs
  <2> HIDE DEF s3
  <2>4. s4 \in QueueRegs /\ s4.avail_addr = s.avail_addr /\ s4.ready = s.ready
        /\ s4.num = Num /\ s4.last_avail_idx = s.last_avail_idx
        /\ s4.manual_recv = s.manual_recv
    BY <1>0, <2>3 DEF QueueRegs, Addrs
  <2> HIDE DEF s4
  <2>5. s5 \in QueueRegs /\ s5.ready = s.ready
        /\ s5.num = Num /\ s5.last_avail_idx = s.last_avail_idx
        /\ s5.manual_recv = s.manual_recv
    BY <1>0, <2>4 DEF QueueRegs, Addrs
  <2>6. s5.avail_addr = [lo |-> q + 1, hi |-> s.avail_addr.hi]
    BY <1>0, <2>4 DEF QueueRegs, Addrs
  <2> QED BY <2>1, <2>2, <2>3, <2>4, <2>5, <2>6
<1>1. d1 \in Devices /\ d1.queue_sel = q /\ d1.queue = dev.queue
  BY <1>0, Writes DEF Devices
<1> HIDE DEF d1, s2, s3, s4, s5
<1>2. /\ d2 \in Devices /\ d2.queue_sel = q /\ d2.queue[q] = s2
      /\ \A p \in Queues : p # q => d2.queue[p] = dev.queue[p]
  <2>1. WriteQueue(s, "QUEUE_NUM", Num) = s2
    BY Basics DEF s2, WriteQueue
  <2> QED BY <1>1, <1>s, <2>1, WriteSelected DEF QueueRegisters
<1> HIDE DEF d2
<1>3. /\ d3 \in Devices /\ d3.queue_sel = q /\ d3.queue[q] = s3
      /\ \A p \in Queues : p # q => d3.queue[p] = dev.queue[p]
  <2>1. WriteQueue(s2, "QUEUE_DESC_LOW", q + 1) = s3
    BY DEF s3, WriteQueue
  <2> QED BY <1>2, <1>s, <2>1, WriteSelected DEF QueueRegisters
<1> HIDE DEF d3
<1>4. /\ d4 \in Devices /\ d4.queue_sel = q /\ d4.queue[q] = s4
      /\ \A p \in Queues : p # q => d4.queue[p] = dev.queue[p]
  <2>1. WriteQueue(s3, "QUEUE_DESC_HIGH", High) = s4
    BY DEF s4, WriteQueue
  <2> QED BY <1>3, <1>s, <2>1, WriteSelected DEF QueueRegisters
<1> HIDE DEF d4
<1>5. /\ d5 \in Devices /\ d5.queue_sel = q /\ d5.queue[q] = s5
      /\ \A p \in Queues : p # q => d5.queue[p] = dev.queue[p]
  <2>1. WriteQueue(s4, "QUEUE_AVAIL_LOW", q + 1) = s5
    BY DEF s5, WriteQueue
  <2> QED BY <1>4, <1>s, <2>1, WriteSelected DEF QueueRegisters
<1>6. virtio_mmio_read(d1, "QUEUE_READY") = 0
  <2>1. virtio_mmio_read(d1, "QUEUE_READY") = ReadQueue(s, "QUEUE_READY")
    BY <1>1 DEF virtio_mmio_read, Selected
  <2> QED BY <2>1 DEF ReadQueue
<1>7. virtio_mmio_read(d1, "QUEUE_NUM_MAX") = MaxQueueNum
  BY DEF virtio_mmio_read
<1>8. Then(d5, TRUE)
  BY <1>6, <1>7 DEF SelectQueue, Then, d1, d2, d3, d4
<1> HIDE DEF d5
<1> QED BY <1>5, <1>8, <1>s DEF Then

(* Then the upper half, *)
LEMMA AddressCompleted ==
  ASSUME dev \in Devices, at \in Int, NEW q \in Queues, dev.queue_sel = q,
         Then(virtio_mmio_write(dev, "QUEUE_AVAIL_HIGH", High), TRUE)
  PROVE  /\ at' = at + 1 /\ dev' \in Devices /\ dev'.queue_sel = q
         /\ \A p \in Queues : p # q => dev'.queue[p] = dev.queue[p]
         /\ dev'.queue[q].ready = dev.queue[q].ready
         /\ dev'.queue[q].num = dev.queue[q].num
         /\ dev'.queue[q].avail_addr
              = [lo |-> dev.queue[q].avail_addr.lo, hi |-> High]
         /\ dev'.queue[q].last_avail_idx = dev.queue[q].last_avail_idx
         /\ dev'.queue[q].manual_recv = dev.queue[q].manual_recv
<1> DEFINE s == dev.queue[q]
           s1 == [s EXCEPT !.avail_addr.hi = High]
<1>0. High \in Int
  BY DEF High
<1>1. s \in QueueRegs
  BY DEF Devices
<1>2. /\ s1 \in QueueRegs /\ s1.ready = s.ready /\ s1.num = s.num
      /\ s1.last_avail_idx = s.last_avail_idx /\ s1.manual_recv = s.manual_recv
      /\ s1.avail_addr = [lo |-> s.avail_addr.lo, hi |-> High]
  BY <1>0, <1>1 DEF QueueRegs, Addrs
<1>3. WriteQueue(s, "QUEUE_AVAIL_HIGH", High) = s1
  BY DEF WriteQueue
<1> HIDE DEF s1
<1>4. /\ dev' \in Devices /\ dev'.queue_sel = q /\ dev'.queue[q] = s1
      /\ \A p \in Queues : p # q => dev'.queue[p] = dev.queue[p]
  <2>1. dev' = virtio_mmio_write(dev, "QUEUE_AVAIL_HIGH", High)
    BY DEF Then
  <2> QED BY <1>2, <1>3, <2>1, WriteSelected DEF QueueRegisters
<1> QED BY <1>2, <1>4 DEF Then

(* and at last QUEUE_READY. *)
LEMMA QueueEnabled ==
  ASSUME dev \in Devices, at \in Int, NEW q \in Queues, dev.queue_sel = q,
         EnableQueue(q)
  PROVE  /\ at' = at + 1 /\ dev' \in Devices /\ dev'.queue_sel = q
         /\ \A p \in Queues : p # q => dev'.queue[p] = dev.queue[p]
         /\ dev'.queue[q].ready = 1 /\ dev'.queue[q].num = dev.queue[q].num
         /\ dev'.queue[q].avail_addr = dev.queue[q].avail_addr
         /\ dev'.queue[q].last_avail_idx = dev.queue[q].last_avail_idx
         /\ dev'.queue[q].manual_recv = dev.queue[q].manual_recv
<1> DEFINE d1 == virtio_mmio_write(dev, "QUEUE_USED_LOW", q + 1)
           d2 == virtio_mmio_write(d1, "QUEUE_USED_HIGH", High)
           d3 == virtio_mmio_write(d2, "QUEUE_READY", 1)
           s == dev.queue[q]
           s1 == [s EXCEPT !.used_addr.lo = q + 1]
           s2 == [s1 EXCEPT !.used_addr.hi = High]
           s3 == [s2 EXCEPT !.ready = 1]
<1>0. q + 1 \in Int /\ High \in Int
  BY Basics DEF High
<1>s. /\ s1 \in QueueRegs /\ s2 \in QueueRegs /\ s3 \in QueueRegs
      /\ s3.ready = 1 /\ s3.num = s.num /\ s3.avail_addr = s.avail_addr
      /\ s3.last_avail_idx = s.last_avail_idx /\ s3.manual_recv = s.manual_recv
  <2>1. s \in QueueRegs
    BY DEF Devices
  <2>2. s1 \in QueueRegs /\ s1.avail_addr = s.avail_addr /\ s1.num = s.num
        /\ s1.last_avail_idx = s.last_avail_idx /\ s1.manual_recv = s.manual_recv
    BY <1>0, <2>1 DEF QueueRegs, Addrs
  <2> HIDE DEF s1
  <2>3. s2 \in QueueRegs /\ s2.avail_addr = s.avail_addr /\ s2.num = s.num
        /\ s2.last_avail_idx = s.last_avail_idx /\ s2.manual_recv = s.manual_recv
    BY <1>0, <2>2 DEF QueueRegs, Addrs
  <2> HIDE DEF s2
  <2>4. s3 \in QueueRegs /\ s3.avail_addr = s.avail_addr /\ s3.num = s.num
        /\ s3.last_avail_idx = s.last_avail_idx /\ s3.manual_recv = s.manual_recv
        /\ s3.ready = 1
    BY <2>3 DEF QueueRegs
  <2> QED BY <2>2, <2>3, <2>4
<1> HIDE DEF s1, s2, s3
<1>1. /\ d1 \in Devices /\ d1.queue_sel = q /\ d1.queue[q] = s1
      /\ \A p \in Queues : p # q => d1.queue[p] = dev.queue[p]
  <2>1. WriteQueue(s, "QUEUE_USED_LOW", q + 1) = s1
    BY DEF s1, WriteQueue
  <2> QED BY <1>s, <2>1, WriteSelected DEF QueueRegisters
<1> HIDE DEF d1
<1>2. /\ d2 \in Devices /\ d2.queue_sel = q /\ d2.queue[q] = s2
      /\ \A p \in Queues : p # q => d2.queue[p] = dev.queue[p]
  <2>1. WriteQueue(s1, "QUEUE_USED_HIGH", High) = s2
    BY DEF s2, WriteQueue
  <2> QED BY <1>1, <1>s, <2>1, WriteSelected DEF QueueRegisters
<1> HIDE DEF d2
<1>3. /\ d3 \in Devices /\ d3.queue_sel = q /\ d3.queue[q] = s3
      /\ \A p \in Queues : p # q => d3.queue[p] = dev.queue[p]
  <2>1. WriteQueue(s2, "QUEUE_READY", 1) = s3
    BY DEF s3, WriteQueue
  <2> QED BY <1>2, <1>s, <2>1, WriteSelected DEF QueueRegisters
<1>4. Then(d3, TRUE)
  BY ZenonT(30) DEF EnableQueue, d1, d2
<1> HIDE DEF d3
<1> QED BY <1>3, <1>4, <1>s DEF Then

-----------------------------------------------------------------------------
(* The actions a step may be, one by one. *)
LEMMA Cases ==
  ASSUME [Next]_vars
  PROVE  \/ SetupStep \/ Unbind \/ PostRx \/ (\E p \in TxPackets : PostTx(p))
         \/ IsrRead \/ IsrServe
         \/ (\E q \in Queues : Drain(q) \/ EnableCb(q) \/ Recheck(q))
         \/ (\E q \in Queues : PollWake(q)) \/ PollSample \/ TxSend \/ TxFlags
         \/ TxSkip \/ TxDone
         \/ RxCheck \/ RxDrop \/ RxWrite \/ RxFlags
         \/ (\E p \in RxPackets : RxRead(p))
         \/ UNCHANGED vars
<1>1. CASE stray = "no" /\ Step
  BY Zenon, <1>1 DEF Step, Driver, Handler, PollThread, Receiver
<1>2. CASE stray = "no" /\ Timeouts
  BY Zenon, <1>2 DEF Timeouts
<1>3. CASE Gone
  BY Zenon, <1>3 DEF Gone
<1> QED BY Zenon, <1>1, <1>2, <1>3 DEF Next

(* Making a buffer available, in either queue. *)
LEMMA Posts ==
  ASSUME PostRx \/ \E p \in TxPackets : PostTx(p)
  PROVE  \E q \in Queues, x \in Payloads : Post(q, x)
BY Zenon, Basics DEF PostRx, PostTx, Payloads

(* Switching callbacks, in either direction. *)
LEMMA Switches ==
  ASSUME NEW q \in Queues, EnableCb(q) \/ Recheck(q)
  PROVE  \E from \in {"drain", "recheck"}, to \in {"idle", "drain", "recheck"},
            quiet \in BOOLEAN : Callbacks(q, from, to, quiet)
BY Zenon DEF EnableCb, Recheck

RegsKept ==
  /\ at' = at /\ life' = life /\ dev' \in Devices /\ dev'.queue_sel = dev.queue_sel
  /\ \A q \in Queues : /\ dev'.queue[q].ready = dev.queue[q].ready
                       /\ dev'.queue[q].num = dev.queue[q].num
                       /\ dev'.queue[q].avail_addr = dev.queue[q].avail_addr
                       /\ dev'.queue[q].manual_recv = dev.queue[q].manual_recv

(* The threads and the interrupt handler leave the driver's registers      *)
(* alone: all they write is last_avail_idx and int_status.                 *)
LEMMA OthersKeepRegs ==
  ASSUME TypeInv, [Next]_vars, ~SetupStep, ~Unbind
  PROVE  RegsKept
<1> USE DEF TypeInv, DevType, ThreadType
<1>1. CASE dev' = dev /\ at' = at /\ life' = life
  BY Zenon, <1>1 DEF RegsKept
<1>2. ASSUME NEW q \in Queues, NEW n \in {0, 1}, NEW i \in Idx,
             dev' = [dev EXCEPT !.queue[q].last_avail_idx = i, !.int_status = n],
             at' = at, life' = life
      PROVE  RegsKept
  <2>2. \A p \in Queues : dev.queue[p] \in QueueRegs
    BY Zenon DEF Devices
  <2>5. [dev.queue[q] EXCEPT !.last_avail_idx = i] \in QueueRegs
    BY Zenon, <2>2 DEF QueueRegs
  <2>1. dev' \in Devices
    <3>1. PICK s : s = [dev.queue[q] EXCEPT !.last_avail_idx = i]
      BY Zenon
    <3>2. dev' = [dev EXCEPT !.queue[q] = s, !.int_status = n]
      BY Zenon, <1>2, <3>1
    <3> QED BY Zenon, <2>5, <3>1, <3>2 DEF Devices
  <2>3. /\ dev'.queue_sel = dev.queue_sel
        /\ dev'.queue = [dev.queue EXCEPT ![q].last_avail_idx = i]
    BY Zenon, <1>2 DEF Devices
  <2>4. \A p \in Queues : /\ dev'.queue[p].ready = dev.queue[p].ready
                          /\ dev'.queue[p].num = dev.queue[p].num
                          /\ dev'.queue[p].avail_addr = dev.queue[p].avail_addr
                          /\ dev'.queue[p].manual_recv = dev.queue[p].manual_recv
    BY <2>2, <2>3 DEF Devices, QueueRegs
  <2> QED BY Zenon, <1>2, <2>1, <2>3, <2>4 DEF RegsKept
<1>3. \A q \in Queues : Advanced(q) \in Idx
  <2>1. \A q \in Queues : LastAvail(q) \in Idx
    BY Zenon DEF LastAvail, Devices, QueueRegs
  <2> QED BY Zenon, Basics, <2>1 DEF Advanced
<1>4. CASE \/ PostRx \/ \E p \in TxPackets : PostTx(p)
  BY Zenon, <1>1, <1>4, Posts DEF Post
<1>5. CASE IsrRead \/ UNCHANGED vars
  BY Zenon, <1>1, <1>5 DEF IsrRead, vars, driverVars
<1>6. CASE IsrServe
  <2>1. dev' = [dev EXCEPT !.int_status = 0] /\ at' = at /\ life' = life
    BY Zenon, <1>6, Writes DEF IsrServe
  <2> QED BY Zenon, <2>1 DEF RegsKept, Devices
<1>7. CASE \E q \in Queues : Drain(q)
  BY Zenon, <1>1, <1>7 DEF Drain
<1>8. CASE \E q \in Queues : EnableCb(q) \/ Recheck(q)
  BY Zenon, <1>1, <1>8, Switches DEF Callbacks
<1>9. CASE (\E q \in Queues : PollWake(q)) \/ PollSample \/ TxSend \/ TxDone
  BY Zenon, <1>1, <1>9 DEF PollWake, PollSample, TxSend, TxDone, guestVars,
     driverVars
<1>10. CASE RxCheck \/ RxDrop \/ RxWrite \/ (\E p \in RxPackets : RxRead(p))
  BY Zenon, <1>1, <1>10 DEF RxCheck, RxDrop, RxWrite, RxRead, guestVars,
     driverVars
<1>11. CASE TxFlags \/ RxFlags
  <2>1. PICK q \in Queues : Signal(q) /\ at' = at /\ life' = life
    BY Zenon, Basics, <1>11 DEF TxFlags, RxFlags, guestVars, driverVars
  <2>2. PICK n : /\ n = IF Suppressed(q) THEN dev.int_status ELSE Pending
                 /\ dev' = [dev EXCEPT !.queue[q].last_avail_idx = Advanced(q),
                                       !.int_status = n]
    BY Zenon, <2>1 DEF Signal
  <2>3. n \in {0, 1}
    BY Zenon, <2>2 DEF Devices, Pending
  <2> QED BY Zenon, <1>2, <1>3, <2>1, <2>2, <2>3
<1>12. CASE TxSkip
  <2>1. /\ dev' = [dev EXCEPT !.queue[pq].last_avail_idx = Advanced(pq)]
        /\ at' = at /\ life' = life
    BY Zenon, <1>12 DEF TxSkip, guestVars, driverVars
  <2>2. PICK n : n = dev.int_status
    BY Zenon
  <2>3. dev' = [dev EXCEPT !.queue[pq].last_avail_idx = Advanced(pq), !.int_status = n]
    BY Zenon, <2>1, <2>2 DEF Devices
  <2>4. n \in {0, 1}
    BY Zenon, <2>2 DEF Devices
  <2> QED BY Zenon, <1>2, <1>3, <2>1, <2>3, <2>4
<1> QED BY Zenon, <1>4, <1>5, <1>6, <1>7, <1>8, <1>9, <1>10, <1>11, <1>12, Cases

(* The driver's setup takes the registers from each place to the next; the *)
(* device never gives it a reason to give up.                              *)
LEMMA RegsStep ==
  ASSUME TypeInv, RegsInv, [Next]_vars
  PROVE  DevType' /\ RegsInv'
<1> USE DEF TypeInv, DevType
<1>b. /\ Queues = {RX, TX} /\ RX # TX /\ RX \in Queues /\ TX \in Queues
      /\ Queues \subseteq Int
  BY Zenon, Basics
<1>q. QueueAt(RX) = 3 /\ QueueAt(TX) = 6 /\ SetupLen = 9
  BY DEF QueueAt, RX, TX, SetupLen
<1>1. CASE RegsKept
  BY SMTT(30), SMTT(60), <1>b, <1>1 DEF RegsKept, RegsInv, Before, After, LowHalfOnly, RingAddr,
     High
<1>2. CASE Unbind
  <2>1. at = 10 /\ at' = 1 /\ dev' = dev /\ life' = life
    BY <1>2, <1>q DEF Unbind, Up
  <2>2. life > 0 /\ \A q \in Queues : After(q)
    BY <1>b, <1>q, <2>1 DEF RegsInv, After
  <2>3. \A q \in Queues : /\ dev.queue[q].ready = 1 /\ dev.queue[q].num = Num
                          /\ dev.queue[q].avail_addr = RingAddr(q)
    BY Zenon, <2>2 DEF RegsInv
  <2> QED BY <1>b, <1>q, <2>1, <2>2, <2>3
          DEF RegsInv, Before, After, LowHalfOnly, RingAddr, High
<1>3. CASE SetupStep /\ at = 1
  <2>1. /\ dev' = virtio_reset(dev) /\ at' = 2 /\ life' = life + 1
    BY <1>b, <1>3, <1>q, Writes
       DEF SetupStep, Then, Restart, Negotiate, SetupQueue, LowHalfOnly
  <2>2. dev' \in Devices /\ \A q \in Queues :
          /\ dev'.queue[q].ready = 0 /\ dev'.queue[q].avail_addr = Null
          /\ dev'.queue[q].manual_recv = dev.queue[q].manual_recv
    BY Zenon, <2>1, ResetQueues
  <2> QED BY <1>b, <1>q, <2>1, <2>2 DEF RegsInv, Before, After, LowHalfOnly
<1>4. CASE SetupStep /\ at # 1
  <2>0. life' = life /\ life > 0 /\ at \in 2..9
    <3>1. ~Up /\ ~Failed /\ life' = life
      BY Zenon, <1>4 DEF SetupStep
    <3>2. at # 0 /\ life # 0
      BY Zenon, <1>4 DEF RegsInv
    <3> QED BY <1>4, <1>q, <3>1, <3>2 DEF Up
  <2>1. CASE at = 2 /\ Negotiate
    <3>1. at' = 3 /\ dev' \in Devices /\ dev'.queue = dev.queue
      BY <2>1, Negotiated
    <3> QED BY <1>b, <1>q, <2>0, <2>1, <3>1
               DEF RegsInv, Before, After, LowHalfOnly
  <2>2. CASE at = SetupLen /\ DriverOk
    <3>1. at' = 10 /\ dev' \in Devices /\ dev'.queue = dev.queue
      BY <1>q, <2>2, Confirmed
    <3> QED BY <1>b, <1>q, <2>0, <2>2, <3>1
            DEF RegsInv, Before, After, LowHalfOnly, RingAddr, High
  <2>3. ASSUME NEW q \in Queues, SetupQueue(q)
        PROVE  DevType' /\ RegsInv'
    <3>0. /\ High' = High /\ \A p \in Queues : RingAddr(p)' = RingAddr(p)
      BY Zenon, <2>0 DEF High, RingAddr
    <3>1. CASE at = QueueAt(q) /\ SelectQueue(q)
      <4>1. dev.queue[q].ready = 0 /\ dev.queue[q].avail_addr = Null
        BY <1>b, <1>q, <2>0, <3>1 DEF RegsInv, Before
      <4>2. /\ at' = at + 1 /\ dev' \in Devices /\ dev'.queue_sel = q
            /\ \A p \in Queues : p # q => dev'.queue[p] = dev.queue[p]
            /\ dev'.queue[q].ready = 0 /\ dev'.queue[q].num = Num
            /\ dev'.queue[q].avail_addr = [lo |-> q + 1, hi |-> 0]
            /\ dev'.queue[q].manual_recv = dev.queue[q].manual_recv
        <5>1. dev.queue[q].avail_addr.hi = 0 /\ SelectQueue(q)
          <6> HIDE DEF TypeInv, DevType
          <6>1. dev.queue[q].avail_addr.hi = 0
            BY <4>1 DEF Null
          <6> QED BY Zenon, <3>1, <6>1
        <5> QED BY <4>1, <5>1, QueueSelected
      <4> QED BY SMTT(30), SMTT(60), <1>b, <1>q, <2>0, <3>0, <3>1, <4>2
                 DEF RegsInv, Before, After, LowHalfOnly
    <3>2. CASE LowHalfOnly(q)
               /\ Then(virtio_mmio_write(dev, "QUEUE_AVAIL_HIGH", High), TRUE)
      <4>1. /\ dev.queue[q].ready = 0 /\ dev.queue[q].num = Num
            /\ dev.queue[q].avail_addr = [lo |-> q + 1, hi |-> 0]
            /\ dev.queue_sel = q
        BY Zenon, <3>2 DEF RegsInv
      <4>2. /\ at' = at + 1 /\ dev' \in Devices /\ dev'.queue_sel = q
            /\ \A p \in Queues : p # q => dev'.queue[p] = dev.queue[p]
            /\ dev'.queue[q].ready = 0 /\ dev'.queue[q].num = Num
            /\ dev'.queue[q].avail_addr = RingAddr(q)
            /\ dev'.queue[q].manual_recv = dev.queue[q].manual_recv
        <5>1. /\ dev.queue[q].avail_addr.lo = q + 1
              /\ RingAddr(q) = [lo |-> q + 1, hi |-> High]
          BY <4>1 DEF RingAddr
        <5>2. Then(virtio_mmio_write(dev, "QUEUE_AVAIL_HIGH", High), TRUE)
          BY Zenon, <3>2
        <5>3. dev.queue_sel = q /\ at \in Int
          BY <4>1
        <5> HIDE DEF TypeInv, DevType
        <5>4. /\ at' = at + 1 /\ dev' \in Devices /\ dev'.queue_sel = q
              /\ \A p \in Queues : p # q => dev'.queue[p] = dev.queue[p]
              /\ dev'.queue[q].ready = dev.queue[q].ready
              /\ dev'.queue[q].num = dev.queue[q].num
              /\ dev'.queue[q].avail_addr
                   = [lo |-> dev.queue[q].avail_addr.lo, hi |-> High]
              /\ dev'.queue[q].manual_recv = dev.queue[q].manual_recv
          BY ZenonT(30), <5>2, <5>3, AddressCompleted DEF TypeInv, DevType
        <5> QED BY Zenon, <4>1, <5>1, <5>4
      <4> QED BY SMTT(30), SMTT(60), <1>b, <1>q, <2>0, <3>0, <3>2, <4>2
                 DEF RegsInv, Before, After, LowHalfOnly
    <3>3. CASE at = QueueAt(q) + 2 /\ EnableQueue(q)
      <4>1. /\ dev.queue[q].ready = 0 /\ dev.queue[q].num = Num
            /\ dev.queue[q].avail_addr = RingAddr(q)
            /\ dev.queue_sel = q
        BY Zenon, <3>3 DEF RegsInv
      <4>2. /\ at' = at + 1 /\ dev' \in Devices /\ dev'.queue_sel = q
            /\ \A p \in Queues : p # q => dev'.queue[p] = dev.queue[p]
            /\ dev'.queue[q].ready = 1 /\ dev'.queue[q].num = Num
            /\ dev'.queue[q].avail_addr = RingAddr(q)
            /\ dev'.queue[q].manual_recv = dev.queue[q].manual_recv
        BY <3>3, <4>1, QueueEnabled
      <4> QED BY SMTT(30), SMTT(60), <1>b, <1>q, <2>0, <3>0, <3>3, <4>2
                 DEF RegsInv, Before, After, LowHalfOnly
    <3> QED BY Zenon, <2>3, <3>1, <3>2, <3>3 DEF SetupQueue
  <2> QED BY Zenon, <1>4, <2>1, <2>2, <2>3 DEF SetupStep
<1> QED BY Zenon, <1>1, <1>2, <1>3, <1>4, OthersKeepRegs

-----------------------------------------------------------------------------
(* The heads of one queue. *)

(* Set up anew, all heads are with the driver. *)
LEMMA NoneOut ==
  ASSUME NEW ar \in [Heads -> Heads], NEW ur \in [Heads -> Heads]
  PROVE  Owners(ar, 0, 0, ur, 0, 0, Heads, {})
BY Zenon, Basics, Empty DEF Owners, Heads, Idx

(* The driver makes a free head available. *)
LEMMA OfferOne ==
  ASSUME NEW ar, NEW taken, NEW ai, NEW ur, NEW lu, NEW ui, NEW free, NEW over,
         Owners(ar, taken, ai, ur, lu, ui, free, over), NEW h \in free
  PROVE  /\ Owners([ar EXCEPT ![ai % Num] = h], taken, Inc(ai), ur, lu, ui,
                   free \ {h}, over)
         /\ Gap(taken, Inc(ai), IdxMod) = Gap(taken, ai, IdxMod) + 1
<1>1. /\ RingOK(ar, Num, IdxMod, taken, ai) /\ h \in Heads
      /\ ~Holds(ar, Num, IdxMod, taken, ai, h)
  BY Zenon DEF Owners
<1>2. /\ RingOK([ar EXCEPT ![ai % Num] = h], Num, IdxMod, taken, Inc(ai))
      /\ Gap(taken, Inc(ai), IdxMod) = Gap(taken, ai, IdxMod) + 1
      /\ \A x : Holds([ar EXCEPT ![ai % Num] = h], Num, IdxMod, taken, Inc(ai), x)
                  <=> Holds(ar, Num, IdxMod, taken, ai, x) \/ x = h
  BY Zenon, <1>1, Basics, Push DEF Heads, Inc
<1> DEFINE r2 == [ar EXCEPT ![ai % Num] = h]
<1> HIDE DEF r2
<1>3. Owners(r2, taken, Inc(ai), ur, lu, ui, free \ {h}, over)
  BY Zenon, <1>1, <1>2 DEF Owners, r2
<1> QED BY Zenon, <1>2, <1>3 DEF r2

(* The device takes the oldest available head: *)
LEMMA TakeOne ==
  ASSUME NEW ar, NEW taken, NEW ai, NEW ur, NEW lu, NEW ui, NEW free, NEW over,
         Owners(ar, taken, ai, ur, lu, ui, free, over), taken # ai
  PROVE  LET h == ar[taken % Num]
         IN  /\ h \in Heads /\ h \notin free
             /\ ~Holds(ur, Num, IdxMod, lu, ui, h) /\ h \notin over
             /\ Holds(ar, Num, IdxMod, taken, ai, h)
             /\ RingOK(ar, Num, IdxMod, Inc(taken), ai)
             /\ \A x : Holds(ar, Num, IdxMod, Inc(taken), ai, x) <=>
                         Holds(ar, Num, IdxMod, taken, ai, x) /\ x # h
<1> DEFINE h == ar[taken % Num]
<1>1. RingOK(ar, Num, IdxMod, taken, ai)
  BY Zenon DEF Owners
<1>2. /\ RingOK(ar, Num, IdxMod, Inc(taken), ai)
      /\ h \in Heads /\ Holds(ar, Num, IdxMod, taken, ai, h)
      /\ \A x : Holds(ar, Num, IdxMod, Inc(taken), ai, x) <=>
                  Holds(ar, Num, IdxMod, taken, ai, x) /\ x # h
  BY Zenon, <1>1, Basics, Pop DEF Heads, Inc
<1> HIDE DEF h
<1>3. h \notin free /\ ~Holds(ur, Num, IdxMod, lu, ui, h) /\ h \notin over
  BY Zenon, <1>2 DEF Owners
<1> QED BY Zenon, <1>2, <1>3 DEF h

(* virtio_consume_desc puts it into the used ring, *)
LEMMA CompleteOne ==
  ASSUME NEW ar, NEW taken, NEW ai, NEW ur, NEW lu, NEW ui, NEW free, NEW over,
         Owners(ar, taken, ai, ur, lu, ui, free, over), taken # ai
  PROVE  Owners(ar, Inc(taken), ai, [ur EXCEPT ![ui % Num] = ar[taken % Num]],
                lu, Inc(ui), free, over)
<1> DEFINE h == ar[taken % Num]
           r2 == [ur EXCEPT ![ui % Num] = h]
<1>1. /\ h \in Heads /\ h \notin free
      /\ ~Holds(ur, Num, IdxMod, lu, ui, h) /\ h \notin over
      /\ RingOK(ar, Num, IdxMod, Inc(taken), ai)
      /\ \A x : Holds(ar, Num, IdxMod, Inc(taken), ai, x) <=>
                  Holds(ar, Num, IdxMod, taken, ai, x) /\ x # h
      /\ Holds(ar, Num, IdxMod, taken, ai, h)
  BY Zenon, TakeOne
<1>2. RingOK(ur, Num, IdxMod, lu, ui)
  BY Zenon DEF Owners
<1> HIDE DEF h
<1>3. /\ RingOK(r2, Num, IdxMod, lu, Inc(ui))
      /\ \A x : Holds(r2, Num, IdxMod, lu, Inc(ui), x) <=>
                  Holds(ur, Num, IdxMod, lu, ui, x) \/ x = h
  BY Zenon, <1>1, <1>2, Basics, Push DEF Heads, Inc
<1> HIDE DEF r2
<1>4. Owners(ar, Inc(taken), ai, r2, lu, Inc(ui), free, over)
  BY Zenon, <1>1, <1>3 DEF Owners
<1> QED BY Zenon, <1>4 DEF r2, h

(* or passes it over. *)
LEMMA SkipOne ==
  ASSUME NEW ar, NEW taken, NEW ai, NEW ur, NEW lu, NEW ui, NEW free, NEW over,
         Owners(ar, taken, ai, ur, lu, ui, free, over), taken # ai
  PROVE  Owners(ar, Inc(taken), ai, ur, lu, ui, free, over \cup {ar[taken % Num]})
<1> DEFINE h == ar[taken % Num]
<1>1. /\ h \in Heads /\ h \notin free
      /\ ~Holds(ur, Num, IdxMod, lu, ui, h) /\ h \notin over
      /\ RingOK(ar, Num, IdxMod, Inc(taken), ai)
      /\ \A x : Holds(ar, Num, IdxMod, Inc(taken), ai, x) <=>
                  Holds(ar, Num, IdxMod, taken, ai, x) /\ x # h
      /\ Holds(ar, Num, IdxMod, taken, ai, h)
  BY Zenon, TakeOne
<1> HIDE DEF h
<1>2. Owners(ar, Inc(taken), ai, ur, lu, ui, free, over \cup {h})
  BY Zenon, <1>1 DEF Owners
<1> QED BY Zenon, <1>2 DEF h

(* The driver takes the oldest used head back. *)
LEMMA DrainOne ==
  ASSUME NEW ar, NEW taken, NEW ai, NEW ur, NEW lu, NEW ui, NEW free, NEW over,
         Owners(ar, taken, ai, ur, lu, ui, free, over), lu # ui
  PROVE  LET h == ur[lu % Num]
         IN  /\ Owners(ar, taken, ai, ur, Inc(lu), ui, free \cup {h}, over)
             /\ h \in Heads /\ Holds(ur, Num, IdxMod, lu, ui, h)
             /\ ~Holds(ar, Num, IdxMod, taken, ai, h)
             /\ ~Holds(ur, Num, IdxMod, Inc(lu), ui, h)
<1> DEFINE h == ur[lu % Num]
<1>1. RingOK(ur, Num, IdxMod, lu, ui)
  BY Zenon DEF Owners
<1>2. /\ RingOK(ur, Num, IdxMod, Inc(lu), ui)
      /\ h \in Heads /\ Holds(ur, Num, IdxMod, lu, ui, h)
      /\ \A x : Holds(ur, Num, IdxMod, Inc(lu), ui, x) <=>
                  Holds(ur, Num, IdxMod, lu, ui, x) /\ x # h
  BY Zenon, <1>1, Basics, Pop DEF Heads, Inc
<1> HIDE DEF h
<1>3. Owners(ar, taken, ai, ur, Inc(lu), ui, free \cup {h}, over)
  BY Zenon, <1>2 DEF Owners
<1>4. ~Holds(ar, Num, IdxMod, taken, ai, h) /\ ~Holds(ur, Num, IdxMod, Inc(lu), ui, h)
  BY Zenon, <1>2 DEF Owners
<1> QED BY Zenon, <1>2, <1>3, <1>4 DEF h

-----------------------------------------------------------------------------
(* Reading the rings. *)

Core == TypeInv /\ LockInv /\ RegsInv /\ FallowInv

(* Wherever the device reads the available index of a queue, it gets the   *)
(* one the driver wrote; where it goes on although there is no ring, both  *)
(* are 0.                                                                  *)
LEMMA IndexRead ==
  ASSUME Core, NEW q \in Queues
  PROVE  /\ AvailIdx(q) = avail[q].idx
         /\ ~Fallow => /\ dev.queue[q].ready = 1 /\ dev.queue[q].num = Num
                       /\ dev.queue[q].avail_addr = RingAddr(q)
         /\ LastAvail(q) \in Idx /\ avail[q].idx \in Idx /\ used[q].idx \in Idx
<1> USE DEF Core, TypeInv
<1>q. QueueAt(q) \in {3, 6} /\ SetupLen = 9
  BY Basics DEF QueueAt, RX, TX, SetupLen
<1>1. ASSUME ~Fallow
      PROVE  /\ dev.queue[q].ready = 1 /\ dev.queue[q].num = Num
             /\ dev.queue[q].avail_addr = RingAddr(q)
  <2>1. life > 0 /\ at \in 0..10 /\ ~(at \in 2..9)
    <3>1. life # 0 /\ life \in Nat /\ at \in 0..(SetupLen + 1) /\ at \notin 2..SetupLen
      BY Zenon, <1>1 DEF Fallow, DevType
    <3> HIDE DEF Core, TypeInv
    <3> QED BY <1>q, <3>1
  <2>2. After(q)
    BY <1>q, <2>1 DEF After, RegsInv
  <2> QED BY Zenon, <2>2 DEF RegsInv
<1>2. ASSUME Fallow PROVE AvailIdx(q) = avail[q].idx
  BY Zenon, <1>2 DEF FallowInv, AtRest, AvailIdx
<1>3. ASSUME ~Fallow PROVE AvailIdx(q) = avail[q].idx
  BY Zenon, <1>1, <1>3 DEF AvailIdx, NoRing
<1>4. LastAvail(q) \in Idx /\ avail[q].idx \in Idx /\ used[q].idx \in Idx
  BY Zenon DEF LastAvail, DevType, RingType, Devices, QueueRegs
<1> QED BY Zenon, <1>1, <1>2, <1>3, <1>4

(* queue_notify finds something to do in the transmit queue only, and only *)
(* when it is set up. *)
LEMMA Serving ==
  ASSUME Core, Takes
  PROVE  /\ pq = TX /\ ppc = "send" /\ lock = "poll" /\ ~Fallow
         /\ LastAvail(TX) # tgt
         /\ NextHead(TX) = avail[TX].ring[LastAvail(TX) % Num]
         /\ NextHead(TX) \in Heads /\ dev.queue[TX].num = Num
<1> USE DEF Core
<1>1. ppc = "send" /\ LastAvail(pq) # tgt
  BY Zenon DEF Takes
<1>2. pq = TX /\ lock = "poll"
  BY Zenon, <1>1 DEF LockInv
<1>3. ~Fallow
  BY Zenon, Basics, <1>1, <1>2 DEF FallowInv, AtRest
<1>4. dev.queue[TX].num = Num /\ LastAvail(TX) \in Idx
  BY Zenon, Basics, <1>3, IndexRead
<1>5. NextHead(TX) = avail[TX].ring[LastAvail(TX) % Num]
  BY Zenon, <1>4 DEF NextHead
<1>6. NextHead(TX) \in Heads
  <2>1. PICK i \in Heads : i = LastAvail(TX) % Num
    BY Zenon, Basics, <1>4
  <2>2. avail[TX].ring \in [Heads -> Heads]
    BY Zenon, Basics DEF TypeInv, RingType
  <2> QED BY Zenon, <1>5, <2>1, <2>2
<1> QED BY Zenon, <1>1, <1>2, <1>3, <1>4, <1>5, <1>6

(* can_write_packet says yes only when the receive queue is set up. *)
LEMMA Receiving ==
  ASSUME Core, HasRoom
  PROVE  /\ ~Fallow /\ LastAvail(RX) # avail[RX].idx
         /\ NextHead(RX) = avail[RX].ring[LastAvail(RX) % Num]
         /\ NextHead(RX) \in Heads /\ dev.queue[RX].num = Num
<1> USE DEF Core
<1>1. LastAvail(RX) # avail[RX].idx
  BY Zenon, Basics, IndexRead DEF HasRoom
<1>2. ~Fallow
  BY Zenon, Basics, <1>1 DEF FallowInv, AtRest
<1>4. dev.queue[RX].num = Num /\ LastAvail(RX) \in Idx
  BY Zenon, Basics, <1>2, IndexRead
<1>5. NextHead(RX) = avail[RX].ring[LastAvail(RX) % Num]
  BY Zenon, <1>4 DEF NextHead
<1>6. NextHead(RX) \in Heads
  <2>1. PICK i \in Heads : i = LastAvail(RX) % Num
    BY Zenon, Basics, <1>4
  <2>2. avail[RX].ring \in [Heads -> Heads]
    BY Zenon, Basics DEF TypeInv, RingType
  <2> QED BY Zenon, <1>5, <2>1, <2>2
<1> QED BY Zenon, <1>1, <1>2, <1>4, <1>5, <1>6

-----------------------------------------------------------------------------
(* Types. *)

(* Every action keeps rings, buffers and the driver's records well-typed:  *)
(* indices stay within 16 bits (IdxMod), ring entries within the queue.    *)
LEMMA RingTypeStep ==
  ASSUME Core, [Next]_vars
  PROVE  RingType'
<1> USE DEF Core, TypeInv
<1>1. CASE UNCHANGED <<avail, used, buf, freeHeads, skipped, lastUsed, qpc>>
  BY Zenon, <1>1 DEF RingType
<1>2. CASE SetupStep
  <2>1. CASE at = 1
    <3>1. /\ avail' = PerQueue(EmptyAvail) /\ used' = PerQueue(EmptyUsed)
          /\ buf' = PerQueue([h \in Heads |-> Blank])
          /\ freeHeads' = PerQueue(Heads) /\ lastUsed' = PerQueue(0)
          /\ skipped' = PerQueue({}) /\ qpc' = qpc
      BY Basics, <1>2, <2>1 DEF SetupStep, Restart, SetupQueue, QueueAt,
         LowHalfOnly, RX, TX,
                        SetupLen
    <3> QED BY Zenon, Basics, <3>1 DEF RingType, PerQueue, EmptyAvail,
               EmptyUsed, Payloads
  <2>2. CASE at # 1
    BY Zenon, <1>1, <1>2, <2>2 DEF SetupStep, ringVars
  <2> QED BY Zenon, <2>1, <2>2
<1>3. CASE Unbind \/ IsrRead \/ UNCHANGED vars
  BY Zenon, <1>1, <1>3 DEF Unbind, IsrRead, vars, ringVars, driverVars
<1>4. CASE PostRx \/ \E p \in TxPackets : PostTx(p)
  <2>1. PICK q \in Queues, x \in Payloads : Post(q, x)
    BY Zenon, <1>4, Posts
  <2>2. PICK h \in freeHeads[q] :
          /\ freeHeads' = [freeHeads EXCEPT ![q] = freeHeads[q] \ {h}]
          /\ buf' = [buf EXCEPT ![q][h] = x]
          /\ avail' = [avail EXCEPT ![q].ring[avail[q].idx % Num] = h,
                                    ![q].idx = Inc(avail[q].idx)]
    BY Zenon, <2>1 DEF Post
  <2>3. h \in Heads /\ avail[q].idx % Num \in Heads /\ Inc(avail[q].idx) \in Idx
    BY Zenon, Basics DEF RingType
  <2>a. avail[q] \in [quiet : BOOLEAN, idx : Idx, ring : [Heads -> Heads]]
    BY Zenon DEF RingType
  <2>b. PICK r : r = [avail[q].ring EXCEPT ![avail[q].idx % Num] = h]
    BY Zenon
  <2>c. PICK i : i = Inc(avail[q].idx)
    BY Zenon
  <2>d. r \in [Heads -> Heads] /\ i \in Idx
    BY Zenon, <2>3, <2>a, <2>b, <2>c
  <2>e. PICK a : a = [avail[q] EXCEPT !.ring = r, !.idx = i]
    BY Zenon
  <2>f. a \in [quiet : BOOLEAN, idx : Idx, ring : [Heads -> Heads]]
    BY Zenon, <2>a, <2>d, <2>e
  <2>g. avail' = [avail EXCEPT ![q] = a]
    BY Zenon, <2>2, <2>b, <2>c, <2>e DEF RingType
  <2>4. avail' \in [Queues -> [quiet : BOOLEAN, idx : Idx, ring : [Heads -> Heads]]]
    BY Zenon, <2>f, <2>g DEF RingType
  <2>5. buf' \in [Queues -> [Heads -> Payloads]]
    BY Zenon, <2>2, <2>3 DEF RingType
  <2>6. freeHeads' \in [Queues -> SUBSET Heads]
    BY Zenon, <2>2, <2>3 DEF RingType
  <2>7. UNCHANGED <<used, lastUsed, qpc, skipped>>
    BY Zenon, <2>1 DEF Post
  <2> QED BY Zenon, <2>4, <2>5, <2>6, <2>7 DEF RingType
<1>5. CASE IsrServe
  <2>1. UNCHANGED <<used, buf, freeHeads, skipped, lastUsed>>
    BY Zenon, <1>5 DEF IsrServe, rxVars
  <2>2. PICK woken : /\ qpc' = [q \in Queues |-> IF q \in woken THEN "drain" ELSE qpc[q]]
                     /\ avail' = [q \in Queues |->
                          [avail[q] EXCEPT !.quiet = avail[q].quiet \/ q \in woken]]
    BY Zenon, <1>5 DEF IsrServe
  <2>3. ASSUME NEW q \in Queues
        PROVE  avail'[q] \in [quiet : BOOLEAN, idx : Idx, ring : [Heads -> Heads]]
    <3>1. avail[q] \in [quiet : BOOLEAN, idx : Idx, ring : [Heads -> Heads]]
      BY Zenon DEF RingType
    <3>2. PICK b \in BOOLEAN : b = (avail[q].quiet \/ q \in woken)
      BY Zenon
    <3>3. avail'[q] = [avail[q] EXCEPT !.quiet = b]
      BY Zenon, <2>2, <3>2
    <3> QED BY Zenon, <3>1, <3>3
  <2>4. avail' \in [Queues -> [quiet : BOOLEAN, idx : Idx, ring : [Heads -> Heads]]]
    BY Zenon, <2>2, <2>3
  <2>5. qpc' \in [Queues -> {"idle", "drain", "recheck"}]
    BY Zenon, <2>2 DEF RingType
  <2> QED BY Zenon, <2>1, <2>4, <2>5 DEF RingType
<1>6. ASSUME NEW q \in Queues, Drain(q)
      PROVE  RingType'
  <2>1. PICK h : /\ h = used[q].ring[lastUsed[q] % Num]
                 /\ freeHeads' = [freeHeads EXCEPT ![q] = freeHeads[q] \cup {h}]
                 /\ buf' = [buf EXCEPT ![q][h] = Blank]
                 /\ lastUsed' = [lastUsed EXCEPT ![q] = Inc(lastUsed[q])]
                 /\ UNCHANGED <<avail, used, qpc, skipped>>
    BY Zenon, <1>6 DEF Drain
  <2>a. lastUsed[q] \in Idx /\ used[q].ring \in [Heads -> Heads]
    BY Zenon DEF RingType
  <2>b. PICK i \in Heads : i = lastUsed[q] % Num
    BY Zenon, Basics, <2>a
  <2>2. h \in Heads /\ Inc(lastUsed[q]) \in Idx
    BY Zenon, Basics, <2>1, <2>a, <2>b
  <2>3. Blank \in Payloads
    BY Zenon DEF Payloads
  <2> QED BY Zenon, <2>1, <2>2, <2>3 DEF RingType
<1>7. ASSUME NEW q \in Queues, EnableCb(q) \/ Recheck(q)
      PROVE  RingType'
  <2>1. PICK from, to \in {"idle", "drain", "recheck"}, quiet \in BOOLEAN :
          Callbacks(q, from, to, quiet)
    BY Zenon, <1>7, Switches
  <2>2. /\ qpc' = [qpc EXCEPT ![q] = to] /\ avail' = [avail EXCEPT ![q].quiet = quiet]
        /\ UNCHANGED <<used, buf, freeHeads, skipped, lastUsed>>
    BY Zenon, <2>1 DEF Callbacks
  <2>3. avail' \in [Queues -> [quiet : BOOLEAN, idx : Idx, ring : [Heads -> Heads]]]
    BY ZenonT(30), <2>2 DEF RingType
  <2> QED BY Zenon, <2>2, <2>3 DEF RingType
<1>8. CASE (\E q \in Queues : PollWake(q)) \/ PollSample \/ TxFlags \/ TxDone
  BY Zenon, <1>1, <1>8 DEF PollWake, PollSample, TxFlags, TxDone, guestVars,
     driverVars
<1>9. CASE RxCheck \/ RxDrop \/ RxFlags \/ (\E p \in RxPackets : RxRead(p))
  BY Zenon, <1>1, <1>9 DEF RxCheck, RxDrop, RxFlags, RxRead, guestVars,
     driverVars
<1>10. CASE TxSkip
  <2>1. NextHead(TX) \in Heads /\ pq = TX
    BY Zenon, <1>10, Serving DEF TxSkip
  <2>2. /\ skipped' = [skipped EXCEPT ![pq] = skipped[pq] \cup {NextHead(pq)}]
        /\ UNCHANGED <<avail, used, buf, freeHeads, lastUsed, qpc>>
    BY Zenon, <1>10 DEF TxSkip, guestVars, driverVars
  <2> QED BY Zenon, <2>1, <2>2 DEF RingType
<1>11. ASSUME NEW q \in Queues, NextHead(q) \in Heads, dev.queue[q].num = Num,
              Publish(q)
       PROVE  used' \in [Queues -> [idx : Idx, ring : [Heads -> Heads]]]
  <2>1. PICK h \in Heads : h = NextHead(q)
    BY Zenon, <1>11
  <2>2. used' = [used EXCEPT ![q].ring[used[q].idx % Num] = h,
                             ![q].idx = Inc(used[q].idx)]
    BY Zenon, <1>11, <2>1 DEF Publish
  <2>3. used[q].idx % Num \in Heads /\ Inc(used[q].idx) \in Idx
    BY Zenon, Basics DEF RingType
  <2>a. used[q] \in [idx : Idx, ring : [Heads -> Heads]]
    BY Zenon DEF RingType
  <2>b. PICK r : r = [used[q].ring EXCEPT ![used[q].idx % Num] = h]
    BY Zenon
  <2>c. PICK i : i = Inc(used[q].idx)
    BY Zenon
  <2>d. r \in [Heads -> Heads] /\ i \in Idx
    BY Zenon, <2>3, <2>a, <2>b, <2>c
  <2>e. PICK a : a = [used[q] EXCEPT !.ring = r, !.idx = i]
    BY Zenon
  <2>f. a \in [idx : Idx, ring : [Heads -> Heads]]
    BY Zenon, <2>a, <2>d, <2>e
  <2>g. used' = [used EXCEPT ![q] = a]
    BY Zenon, <2>2, <2>b, <2>c, <2>e DEF RingType
  <2> QED BY Zenon, <2>f, <2>g DEF RingType
<1>12. CASE TxSend
  <2>1. NextHead(TX) \in Heads /\ pq = TX /\ dev.queue[TX].num = Num
    BY Zenon, <1>12, Serving DEF TxSend
  <2>2. Publish(TX) /\ UNCHANGED <<avail, buf, freeHeads, lastUsed, qpc, skipped>>
    BY Zenon, <1>12, <2>1 DEF TxSend, guestVars, driverVars
  <2> QED BY Zenon, Basics, <1>11, <2>1, <2>2 DEF RingType
<1>13. CASE RxWrite
  <2>1. NextHead(RX) \in Heads /\ dev.queue[RX].num = Num
    BY Zenon, <1>13, Receiving DEF RxWrite
  <2>2. /\ Publish(RX) /\ buf' = [buf EXCEPT ![RX][NextHead(RX)] = rpkt]
        /\ UNCHANGED <<avail, freeHeads, lastUsed, qpc, skipped>>
    BY Zenon, <1>13 DEF RxWrite, guestVars, driverVars
  <2>3. buf' \in [Queues -> [Heads -> Payloads]]
    BY Zenon, <2>1, <2>2 DEF RingType, ThreadType
  <2> QED BY Zenon, Basics, <1>11, <2>1, <2>2, <2>3 DEF RingType
<1> QED BY Zenon, <1>2, <1>3, <1>4, <1>5, <1>6, <1>7, <1>8, <1>9, <1>10,
           <1>12, <1>13, Cases

(* Every action keeps the state of the two device threads, of the driver's *)
(* interrupt handler and of the lock well-typed.                           *)
LEMMA ThreadTypeStep ==
  ASSUME Core, [Next]_vars
  PROVE  ThreadType'
<1> USE DEF Core, TypeInv
<1>1. CASE UNCHANGED <<ppc, pq, tgt, rpc, rpkt, room, isr, lock>>
  BY Zenon, <1>1 DEF ThreadType
<1>2. CASE SetupStep \/ PostRx \/ \E p \in TxPackets : PostTx(p)
  <2>1. UNCHANGED <<ppc, pq, tgt, rpc, rpkt, lock>>
        /\ room' \in {room, FALSE} /\ isr' \in {isr, FALSE}
    BY Zenon, <1>2 DEF SetupStep, Restart, SetupQueue, PostRx, PostTx, Post,
       ringVars, pollVars,
                rxVars, driverVars
  <2> QED BY Zenon, <2>1 DEF ThreadType
<1>3. CASE Unbind \/ IsrRead \/ IsrServe \/ UNCHANGED vars
  <2>1. UNCHANGED <<ppc, pq, tgt, rpc, rpkt, room, lock>> /\ isr' \in {isr, TRUE, FALSE}
    BY Zenon, <1>3 DEF Unbind, IsrRead, IsrServe, vars, ringVars, pollVars,
       rxVars, driverVars
  <2> QED BY Zenon, <2>1 DEF ThreadType
<1>4. ASSUME NEW q \in Queues, Drain(q) \/ EnableCb(q) \/ Recheck(q)
      PROVE  ThreadType'
  BY Zenon, <1>1, <1>4 DEF Drain, EnableCb, Recheck, Callbacks, pollVars, rxVars
<1>5. ASSUME NEW q \in Queues, PollWake(q)
      PROVE  ThreadType'
  BY Zenon, <1>5 DEF PollWake, guestVars, driverVars, rxVars, ThreadType
<1>6. CASE PollSample
  <2>1. AvailIdx(pq) \in Idx
    BY Zenon, IndexRead DEF ThreadType
  <2> QED BY Zenon, <1>6, <2>1 DEF PollSample, guestVars, driverVars, rxVars,
             ThreadType
<1>7. CASE TxSend \/ TxSkip \/ TxFlags \/ TxDone
  <2>1. /\ ppc' \in {ppc, "flags", "send", "poll"} /\ pq' \in {pq, TX} /\ tgt' \in {tgt, 0}
        /\ lock' \in {lock, "free"} /\ UNCHANGED <<rpc, rpkt, room, isr>>
    <3>1. CASE TxSend BY Zenon, <3>1 DEF TxSend, guestVars, driverVars, rxVars
    <3>2. CASE TxSkip BY Zenon, <3>2 DEF TxSkip, guestVars, driverVars, rxVars, pollVars
    <3>3. CASE TxFlags BY Zenon, <3>3 DEF TxFlags, guestVars, driverVars, rxVars
    <3>4. CASE TxDone BY Zenon, <3>4 DEF TxDone, guestVars, driverVars, rxVars
    <3> QED BY Zenon, <1>7, <3>1, <3>2, <3>3, <3>4
  <2> QED BY Zenon, Basics, <2>1 DEF ThreadType
<1>8. ASSUME NEW p \in RxPackets, RxRead(p)
      PROVE  ThreadType'
  <2>1. rpc' = "check" /\ rpkt' = p /\ UNCHANGED <<ppc, pq, tgt, room, isr, lock>>
    BY Zenon, <1>8 DEF RxRead, guestVars, driverVars, pollVars
  <2> QED BY Zenon, <2>1 DEF ThreadType, Payloads
<1>9. CASE RxCheck
  <2>1. /\ rpc' \in {"write", "read"} /\ rpkt' \in {rpkt, Blank} /\ room' = HasRoom
        /\ UNCHANGED <<ppc, pq, tgt, isr, lock>>
    BY Zenon, <1>9 DEF RxCheck, guestVars, driverVars, pollVars
  <2>2. room' \in BOOLEAN
    BY Zenon, <2>1 DEF HasRoom
  <2> QED BY Zenon, <2>1, <2>2 DEF ThreadType, Payloads
<1>10. CASE RxDrop \/ RxWrite \/ RxFlags
  <2>1. /\ rpc' \in {"read", "flags"} /\ rpkt' \in {rpkt, Blank} /\ room' \in {room, FALSE}
        /\ UNCHANGED <<ppc, pq, tgt, isr>> /\ lock' \in {lock, "free", "rx"}
    BY Zenon, <1>10 DEF RxDrop, RxWrite, RxFlags, guestVars, driverVars,
       pollVars
  <2> QED BY Zenon, <2>1 DEF ThreadType, Payloads
<1> QED BY Zenon, <1>2, <1>3, <1>4, <1>5, <1>6, <1>7, <1>8, <1>9, <1>10, Cases


-----------------------------------------------------------------------------
(* The lock, and the rings at rest. *)

(* s->lock is held exactly while a buffer is being completed, by the       *)
(* thread that completes it.                                               *)
LEMMA LockStep ==
  ASSUME Core, [Next]_vars
  PROVE  LockInv'
<1> USE DEF Core, TypeInv
<1>1. ASSUME UNCHANGED <<ppc, pq, rpc, lock>> /\ room' \in {room, FALSE}
      PROVE  LockInv'
  <2>1. CASE room' = room BY Zenon, <1>1, <2>1 DEF LockInv
  <2>2. CASE room' = FALSE BY Zenon, <1>1, <2>2 DEF LockInv
  <2> QED BY Zenon, <1>1, <2>1, <2>2
<1>2. CASE SetupStep \/ PostRx \/ \E p \in TxPackets : PostTx(p)
  <2>1. CASE SetupStep
    <3>1. UNCHANGED <<ppc, pq, rpc, lock>>
      BY Zenon, <2>1 DEF SetupStep, pollVars
    <3>2. room' \in {room, FALSE}
      BY Zenon, <2>1 DEF SetupStep, Restart
    <3> QED BY Zenon, <1>1, <3>1, <3>2
  <2>2. CASE PostRx \/ \E p \in TxPackets : PostTx(p)
    BY Zenon, <1>1, <2>2 DEF PostRx, PostTx, Post, pollVars, rxVars
  <2> QED BY Zenon, <1>2, <2>1, <2>2
<1>3. CASE Unbind \/ IsrRead \/ IsrServe \/ UNCHANGED vars
  BY Zenon, <1>1, <1>3 DEF Unbind, IsrRead, IsrServe, vars, pollVars, rxVars
<1>4. ASSUME NEW q \in Queues, Drain(q) \/ EnableCb(q) \/ Recheck(q)
      PROVE  LockInv'
  BY Zenon, <1>1, <1>4 DEF Drain, EnableCb, Recheck, Callbacks, pollVars, rxVars
<1>5. ASSUME NEW q \in Queues, PollWake(q)
      PROVE  LockInv'
  <2>1. ppc = "poll" /\ ppc' = "lock" /\ UNCHANGED <<lock, rpc, room>>
    BY Zenon, <1>5 DEF PollWake, rxVars
  <2> QED BY Zenon, <2>1 DEF LockInv
<1>6. CASE PollSample
  <2>1. /\ ppc = "lock" /\ lock = "free" /\ UNCHANGED <<pq, rpc, room>>
        /\ \/ ppc' = "poll" /\ lock' = lock
           \/ ppc' = "send" /\ lock' = "poll" /\ ~dev.queue[pq].manual_recv
           \/ ppc' = ppc /\ lock' = lock
    BY Zenon, <1>6 DEF PollSample, rxVars
  <2>2. pq = RX => dev.queue[pq].manual_recv
    BY Zenon DEF RegsInv
  <2>3. pq \in {RX, TX}
    BY Zenon, Basics DEF ThreadType
  <2> QED BY Zenon, <2>1, <2>2, <2>3 DEF LockInv
<1>7. CASE TxSend \/ TxSkip
  <2>1. /\ ppc = "send" /\ ppc' \in {"send", "flags"} /\ UNCHANGED <<lock, pq, rpc, room>>
    BY Zenon, <1>7 DEF TxSend, TxSkip, Takes, rxVars, pollVars
  <2> QED BY Zenon, <2>1 DEF LockInv
<1>8. CASE TxFlags \/ TxDone
  <2>1. /\ ppc \in {"send", "flags"} /\ UNCHANGED <<rpc, room>>
        /\ \/ ppc' = "send" /\ UNCHANGED <<lock, pq>>
           \/ ppc' = "poll" /\ lock' = "free"
    BY Zenon, <1>8 DEF TxFlags, TxDone, rxVars
  <2> QED BY Zenon, <2>1 DEF LockInv
<1>9. ASSUME NEW p \in RxPackets, RxRead(p)
      PROVE  LockInv'
  <2>1. rpc = "read" /\ rpc' = "check" /\ UNCHANGED <<ppc, pq, lock, room>>
    BY Zenon, <1>9 DEF RxRead, pollVars
  <2> QED BY Zenon, <2>1 DEF LockInv
<1>10. CASE RxCheck
  <2>1. /\ rpc = "check" /\ UNCHANGED <<ppc, pq, lock>>
        /\ rpc' = (IF HasRoom THEN "write" ELSE "read") /\ room' = HasRoom
    BY Zenon, <1>10 DEF RxCheck, pollVars
  <2>2. CASE HasRoom
    BY Zenon, <2>1, <2>2 DEF LockInv
  <2>3. CASE ~HasRoom
    BY Zenon, <2>1, <2>3 DEF LockInv
  <2> QED BY Zenon, <2>2, <2>3
<1>11. CASE RxDrop \/ RxWrite \/ RxFlags
  <2>1. /\ UNCHANGED <<ppc, pq>> /\ rpc \in {"write", "flags"}
        /\ \/ rpc = "write" /\ rpc' = "read" /\ room' = FALSE /\ lock' = lock
           \/ rpc = "write" /\ rpc' = "flags" /\ room' = FALSE /\ lock' = "rx" /\ lock = "free"
           \/ rpc = "flags" /\ rpc' = "read" /\ room' = room /\ lock' = "free"
    BY Zenon, <1>11 DEF RxDrop, RxWrite, RxFlags, pollVars
  <2> QED BY <2>1 DEF LockInv
<1> QED BY Zenon, <1>2, <1>3, <1>4, <1>5, <1>6, <1>7, <1>8, <1>9, <1>10,
           <1>11, Cases

(* The setup goes on from place to place without touching the indices the  *)
(* device keeps,                                                           *)
LEMMA SetupGoesOn ==
  ASSUME TypeInv, RegsInv, SetupStep, at # 1
  PROVE  /\ at' = at + 1 /\ life' = life /\ life > 0 /\ at \in 2..SetupLen
         /\ \A q \in Queues : LastAvail(q)' = LastAvail(q)
         /\ UNCHANGED <<ringVars, freeHeads, lastUsed, skipped, room>>
<1> USE DEF TypeInv, DevType
<1>0. /\ at \in 2..9 /\ life' = life /\ life > 0 /\ SetupLen = 9
      /\ UNCHANGED <<ringVars, freeHeads, lastUsed, skipped, room>>
  <2>1. /\ ~Up /\ ~Failed /\ life' = life
        /\ UNCHANGED <<ringVars, freeHeads, lastUsed, skipped, room>>
    BY Zenon DEF SetupStep
  <2>2. at # 0 /\ life # 0
    BY Zenon DEF RegsInv
  <2> QED BY <2>1, <2>2 DEF Up, SetupLen
<1>1. CASE at = 2 /\ Negotiate
  BY <1>0, <1>1, Negotiated DEF LastAvail
<1>2. CASE at = SetupLen /\ DriverOk
  BY <1>0, <1>2, Confirmed DEF LastAvail
<1>3. ASSUME NEW q \in Queues, SetupQueue(q)
      PROVE  at' = at + 1 /\ \A p \in Queues : LastAvail(p)' = LastAvail(p)
  <2>q. QueueAt(q) \in Int /\ at \in Int
    BY Basics, <1>0 DEF QueueAt, RX, TX
  <2>1. CASE at = QueueAt(q) /\ SelectQueue(q)
    <3>1. dev.queue[q].ready = 0
      <4>1. Before(q)
        BY <1>0, <2>1, <2>q DEF Before
      <4> QED BY Zenon, <4>1 DEF RegsInv
    <3>2. SelectQueue(q)
      BY Zenon, <2>1
    <3>3. /\ at' = at + 1
          /\ \A p \in Queues : p # q => dev'.queue[p] = dev.queue[p]
          /\ dev'.queue[q].last_avail_idx = dev.queue[q].last_avail_idx
      BY Zenon, <2>q, <3>1, <3>2, QueueSelected
    <3> QED BY Zenon, <3>3 DEF LastAvail
  <2>2. CASE LowHalfOnly(q)
             /\ Then(virtio_mmio_write(dev, "QUEUE_AVAIL_HIGH", High), TRUE)
    <3>1. dev.queue_sel = q /\ dev \in Devices
      BY Zenon, <2>2 DEF RegsInv
    <3>2. Then(virtio_mmio_write(dev, "QUEUE_AVAIL_HIGH", High), TRUE)
      BY Zenon, <2>2
    <3> HIDE DEF TypeInv, DevType
    <3>3. /\ at' = at + 1
          /\ \A p \in Queues : p # q => dev'.queue[p] = dev.queue[p]
          /\ dev'.queue[q].last_avail_idx = dev.queue[q].last_avail_idx
      BY Zenon, <2>q, <3>1, <3>2, AddressCompleted
    <3> QED BY Zenon, <3>3 DEF LastAvail
  <2>3. CASE at = QueueAt(q) + 2 /\ EnableQueue(q)
    <3>1. dev.queue_sel = q /\ EnableQueue(q)
      BY Zenon, <2>3 DEF RegsInv
    <3>3. /\ at' = at + 1
          /\ \A p \in Queues : p # q => dev'.queue[p] = dev.queue[p]
          /\ dev'.queue[q].last_avail_idx = dev.queue[q].last_avail_idx
      BY Zenon, <2>q, <3>1, QueueEnabled
    <3> QED BY Zenon, <3>3 DEF LastAvail
  <2> QED BY Zenon, <1>3, <2>1, <2>2, <2>3 DEF SetupQueue
<1> QED BY Zenon, <1>0, <1>1, <1>2, <1>3 DEF SetupStep

(* which the reset it begins with has put back to 0, while the driver      *)
(* begins with new rings.                                                  *)
LEMMA SetupBegins ==
  ASSUME TypeInv, SetupStep, at = 1
  PROVE  /\ at' = 2 /\ life' = life + 1 /\ ~room' /\ lock = "free"
         /\ UNCHANGED <<isr, qpc, ppc, pq, tgt, rpc, lock>>
         /\ \A q \in Queues :
              /\ LastAvail(q)' = 0 /\ avail[q]'.idx = 0 /\ used[q]'.idx = 0
              /\ avail[q]'.ring \in [Heads -> Heads] /\ used[q]'.ring \in [Heads -> Heads]
              /\ lastUsed[q]' = 0 /\ freeHeads[q]' = Heads /\ skipped[q]' = {}
<1> USE DEF TypeInv, DevType
<1>q. QueueAt(RX) = 3 /\ QueueAt(TX) = 6 /\ SetupLen = 9
  BY DEF QueueAt, RX, TX, SetupLen
<1>1. Then(virtio_mmio_write(dev, "STATUS", 0), TRUE) /\ Restart
  <2>1. ~\E q \in Queues : SetupQueue(q)
    BY Basics, <1>q DEF SetupQueue, LowHalfOnly
  <2>2. at # 2 /\ at # SetupLen
    BY <1>q
  <2> QED BY Zenon, <2>1, <2>2 DEF SetupStep
<1>2. dev' = virtio_reset(dev) /\ at' = 2
  BY <1>1, Writes DEF Then
<1>3. \A q \in Queues : LastAvail(q)' = 0
  BY Zenon, <1>2, ResetQueues DEF LastAvail
<1>4. lock = "free" /\ UNCHANGED <<isr, qpc, ppc, pq, tgt, rpc, lock>>
  BY Zenon DEF SetupStep, pollVars
<1>5. /\ avail' = PerQueue(EmptyAvail) /\ used' = PerQueue(EmptyUsed)
      /\ freeHeads' = PerQueue(Heads) /\ lastUsed' = PerQueue(0)
      /\ life' = life + 1 /\ skipped' = PerQueue({}) /\ ~room'
  BY Zenon, <1>1 DEF Restart
<1>6. \A q \in Queues :
        /\ avail[q]'.idx = 0 /\ used[q]'.idx = 0
        /\ avail[q]'.ring \in [Heads -> Heads] /\ used[q]'.ring \in [Heads -> Heads]
        /\ lastUsed[q]' = 0 /\ freeHeads[q]' = Heads /\ skipped[q]' = {}
  BY Zenon, Basics, <1>5 DEF PerQueue, EmptyAvail, EmptyUsed
<1> QED BY Zenon, <1>2, <1>3, <1>4, <1>5, <1>6

(* Until the setup is complete nothing stirs. *)
LEMMA FallowStep ==
  ASSUME Core, [Next]_vars
  PROVE  FallowInv'
<1> USE DEF Core, TypeInv
<1>s. SetupLen = 9 /\ at \in Int /\ life \in Nat /\ at # 0 /\ (life = 0 => at = 1)
  BY DEF SetupLen, DevType, RegsInv
<1>1. CASE SetupStep /\ at = 1
  <2>1. ~isr /\ \A q \in Queues : qpc[q] = "idle"
    BY <1>1, <1>s DEF FallowInv, Up
  <2>2. lock = "free" /\ UNCHANGED <<isr, qpc, ppc, pq, tgt, rpc, lock>> /\ ~room'
    BY Zenon, <1>1, SetupBegins
  <2>3. ppc \notin {"send", "flags"} /\ rpc # "flags"
    BY Zenon, <2>2 DEF LockInv
  <2>4. AtRest'
    BY Zenon, <1>1, <2>2, <2>3, SetupBegins DEF AtRest
  <2> QED BY Zenon, <2>1, <2>2, <2>4 DEF FallowInv
<1>2. CASE SetupStep /\ at # 1
  <2>1. /\ at' = at + 1 /\ life' = life /\ life > 0 /\ at \in 2..SetupLen
        /\ \A q \in Queues : LastAvail(q)' = LastAvail(q)
        /\ UNCHANGED <<ringVars, freeHeads, lastUsed, skipped, room>>
    BY Zenon, <1>2, SetupGoesOn
  <2>2. UNCHANGED <<isr, qpc, ppc, tgt, rpc>>
    BY Zenon, <1>2 DEF SetupStep, pollVars
  <2>3. ~isr /\ (\A q \in Queues : qpc[q] = "idle") /\ AtRest
    BY <1>s, <2>1 DEF FallowInv, Up, Fallow
  <2>4. AtRest'
    BY Zenon, <2>1, <2>2, <2>3 DEF AtRest, ringVars
  <2> QED BY Zenon, <2>2, <2>3, <2>4 DEF FallowInv
<1>3. CASE Unbind
  <2>1. /\ Up /\ at' = 1 /\ life' = life /\ ~isr /\ isr' = isr /\ qpc' = qpc
        /\ \A q \in Queues : qpc[q] = "idle"
    BY Zenon, <1>3 DEF Unbind
  <2>2. ~Fallow'
    BY <1>s, <2>1 DEF Up, Fallow
  <2> QED BY Zenon, <2>1, <2>2 DEF FallowInv
<1>4. ASSUME RegsKept PROVE Up' = Up /\ Fallow' = Fallow
  BY Zenon, <1>4 DEF RegsKept, Up, Fallow
<1>5. ASSUME ~SetupStep, ~Unbind PROVE RegsKept
  BY Zenon, <1>5, OthersKeepRegs
<1>6. ASSUME RegsKept, ~Up PROVE ~isr' /\ \A q \in Queues : qpc'[q] = "idle"
  <2>1. ~isr /\ \A q \in Queues : qpc[q] = "idle"
    BY Zenon, <1>6 DEF FallowInv
  <2>2. CASE isr' = isr /\ qpc' = qpc
    BY Zenon, <2>1, <2>2
  <2>3. CASE PostRx \/ (\E p \in TxPackets : PostTx(p)) \/ Unbind \/ IsrRead \/ IsrServe
    BY Zenon, <1>6, <2>1, <2>3 DEF PostRx, PostTx, Post, Unbind, IsrRead,
       IsrServe
  <2>4. CASE \E q \in Queues : Drain(q) \/ EnableCb(q) \/ Recheck(q)
    BY Zenon, <2>1, <2>4 DEF Drain, EnableCb, Recheck, Callbacks
  <2>5. CASE SetupStep \/ (\E q \in Queues : PollWake(q)) \/ PollSample \/ TxSend
             \/ TxFlags \/ TxSkip \/ TxDone
    BY Zenon, <2>2, <2>5 DEF SetupStep, PollWake, PollSample, TxSend, TxFlags,
       TxSkip, TxDone,
                      guestVars, driverVars
  <2>6. CASE RxCheck \/ RxDrop \/ RxWrite \/ RxFlags \/ (\E p \in RxPackets : RxRead(p))
    BY Zenon, <2>2, <2>6 DEF RxCheck, RxDrop, RxWrite, RxFlags, RxRead,
       guestVars, driverVars
  <2>7. CASE UNCHANGED vars
    BY Zenon, <2>2, <2>7 DEF vars, driverVars
  <2> QED BY Zenon, <2>3, <2>4, <2>5, <2>6, <2>7, Cases
<1>7. ASSUME RegsKept, ~SetupStep, Fallow PROVE AtRest'
  <2>0. AtRest /\ ~Up /\ ~isr /\ \A q \in Queues : qpc[q] = "idle"
    BY <1>7, <1>s DEF FallowInv, Fallow, Up
  <2>1. ASSUME UNCHANGED <<dev, avail, used, lastUsed, freeHeads, skipped>>,
               ~room', ppc' # "flags", rpc' # "flags", ppc' = "send" => tgt' = 0
        PROVE  AtRest'
    BY Zenon, <2>0, <2>1 DEF AtRest, LastAvail
  <2>2. ~(PostRx \/ (\E p \in TxPackets : PostTx(p)) \/ IsrRead \/ IsrServe)
    BY Zenon, <2>0 DEF PostRx, PostTx, Post, IsrRead, IsrServe
  <2>3. ~\E q \in Queues : Drain(q) \/ EnableCb(q) \/ Recheck(q)
    BY Zenon, <2>0 DEF Drain, EnableCb, Recheck, Callbacks
  <2>4. ~(TxSend \/ TxSkip \/ TxFlags \/ RxWrite \/ RxFlags)
    BY Zenon, <1>7, <2>0, Serving, Receiving
       DEF TxSend, TxSkip, TxFlags, RxWrite, RxFlags, AtRest
  <2>5. CASE (\E q \in Queues : PollWake(q)) \/ TxDone
    BY Zenon, <2>0, <2>1, <2>5 DEF PollWake, TxDone, guestVars, driverVars,
       rxVars, AtRest
  <2>6. CASE PollSample
    <3>1. AvailIdx(pq) = 0
      BY Zenon, <2>0, IndexRead DEF AtRest, ThreadType
    <3> QED BY Zenon, <2>0, <2>1, <2>6, <3>1
               DEF PollSample, guestVars, driverVars, rxVars, AtRest
  <2>7. CASE RxDrop \/ (\E p \in RxPackets : RxRead(p))
    BY Zenon, <2>0, <2>1, <2>7 DEF RxDrop, RxRead, guestVars, driverVars,
       pollVars, AtRest
  <2>8. CASE RxCheck
    <3>1. ~HasRoom
      BY Zenon, <1>7, Receiving
    <3>2. ~room'
      BY Zenon, <2>8, <3>1 DEF RxCheck
    <3>3. /\ UNCHANGED <<dev, avail, used, lastUsed, freeHeads, skipped, ppc, tgt>>
          /\ rpc' = "read"
      BY Zenon, <2>8, <3>1 DEF RxCheck, guestVars, driverVars, pollVars
    <3> QED BY Zenon, <2>0, <2>1, <3>2, <3>3 DEF AtRest
  <2>9. CASE Unbind
    BY Zenon, <2>0, <2>9 DEF Unbind
  <2>10. CASE UNCHANGED vars
    BY Zenon, <2>0, <2>1, <2>10 DEF vars, driverVars, ringVars, pollVars,
       rxVars, AtRest
  <2> QED BY Zenon, <1>7, <2>2, <2>3, <2>4, <2>5, <2>6, <2>7, <2>8, <2>9,
             <2>10, Cases
<1> QED BY SMTT(30), SMTT(60), <1>1, <1>2, <1>3, <1>4, <1>5, <1>6, <1>7 DEF FallowInv

-----------------------------------------------------------------------------
(* Where the heads of the queues are. *)

(* When a thread has completed a buffer, or passes one over, it steps over *)
(* its entry of the available ring; the other queue is left alone.         *)
LEMMA IndexMoves ==
  ASSUME DevType, NEW q \in Queues,
         \/ Signal(q)
         \/ dev' = [dev EXCEPT !.queue[q].last_avail_idx = Advanced(q)]
  PROVE  /\ LastAvail(q)' = Inc(LastAvail(q))
         /\ \A p \in Queues : p # q => LastAvail(p)' = LastAvail(p)
<1>1. dev'.queue = [dev.queue EXCEPT ![q].last_avail_idx = Advanced(q)]
  BY Zenon DEF DevType, Devices, Signal
<1>2. dev.queue \in [Queues -> QueueRegs]
  BY Zenon DEF DevType, Devices
<1>3. dev'.queue[q].last_avail_idx = Advanced(q)
  BY Zenon, <1>1, <1>2 DEF QueueRegs
<1>4. \A p \in Queues : p # q => dev'.queue[p] = dev.queue[p]
  BY Zenon, <1>1, <1>2
<1> QED BY Zenon, <1>3, <1>4 DEF LastAvail, Advanced

(* The entry queue_notify goes on to is one the driver has written. *)
LEMMA TakesWritten ==
  ASSUME Core, TgtInv, Takes
  PROVE  /\ Taken(TX) = LastAvail(TX) /\ LastAvail(TX) # avail[TX].idx
         /\ Gap(Inc(LastAvail(TX)), tgt, IdxMod)
              <= Gap(Inc(LastAvail(TX)), avail[TX].idx, IdxMod)
<1>1. ppc = "send" /\ LastAvail(TX) # tgt
  BY Zenon, Serving
<1>2. Taken(TX) = LastAvail(TX)
  BY Zenon, Basics, <1>1 DEF Taken
<1>3. LastAvail(TX) \in Idx /\ tgt \in Idx /\ avail[TX].idx \in Idx
  BY Zenon, Basics, IndexRead DEF Core, TypeInv, ThreadType
<1>4. /\ Gap(LastAvail(TX), tgt, IdxMod) <= Gap(LastAvail(TX), avail[TX].idx, IdxMod)
  BY Zenon, <1>1, <1>2 DEF TgtInv
<1> DEFINE a == LastAvail(TX)
           b == avail[TX].idx
<1> HIDE DEF a, b
<1>5. /\ a \in 0..(IdxMod - 1) /\ b \in 0..(IdxMod - 1) /\ tgt \in 0..(IdxMod - 1)
      /\ a # tgt /\ Gap(a, tgt, IdxMod) <= Gap(a, b, IdxMod) /\ IdxMod \in Nat \ {0}
  BY Zenon, <1>1, <1>3, <1>4, NetAssumption DEF a, b, Idx
<1>6. Gap(Inc(a), tgt, IdxMod) = Gap(a, tgt, IdxMod) - 1 /\ Gap(a, tgt, IdxMod) > 0
  BY Zenon, <1>5, GapTake DEF Inc
<1>7. Gap(a, b, IdxMod) \in 0..(IdxMod - 1) /\ Gap(a, tgt, IdxMod) \in 0..(IdxMod - 1)
  BY Zenon, <1>5, GapIs
<1>8. a # b
  <2>1. Gap(a, b, IdxMod) = 0 <=> a = b
    BY Zenon, <1>5, GapIs
  <2> QED BY <1>5, <1>6, <1>7, <2>1
<1>9. Gap(Inc(a), b, IdxMod) = Gap(a, b, IdxMod) - 1
  BY Zenon, <1>5, <1>8, GapTake DEF Inc
<1>10. Gap(Inc(a), tgt, IdxMod) <= Gap(Inc(a), b, IdxMod)
  BY <1>5, <1>6, <1>7, <1>9
<1> QED BY Zenon, <1>2, <1>8, <1>10 DEF a, b

HeadsStay(q) ==
  /\ avail'[q].ring = avail[q].ring /\ avail'[q].idx = avail[q].idx
  /\ used'[q].ring = used[q].ring /\ used'[q].idx = used[q].idx
  /\ lastUsed'[q] = lastUsed[q] /\ freeHeads'[q] = freeHeads[q]
  /\ skipped'[q] = skipped[q] /\ Taken(q)' = Taken(q)
Still == /\ \A q \in Queues : HeadsStay(q)
         /\ skipped'[RX] = skipped[RX] /\ UNCHANGED <<buf, sent, wire>>

(* Steps that move no head. *)
LEMMA NoHeadMoves ==
  ASSUME Core, [Next]_vars
  PROVE  \/ Still
         \/ SetupStep /\ at = 1
         \/ PostRx \/ (\E p \in TxPackets : PostTx(p))
         \/ \E q \in Queues : Drain(q)
         \/ TxSend \/ TxSkip \/ RxWrite
<1> USE DEF Core, TypeInv
<1>1. ASSUME UNCHANGED <<avail, used, buf, lastUsed, freeHeads, skipped, sent, wire>>,
             \A q \in Queues : Taken(q)' = Taken(q)
      PROVE  Still
  BY Zenon, <1>1 DEF Still, HeadsStay
<1>2. ASSUME UNCHANGED <<dev, ppc, rpc>>
      PROVE  \A q \in Queues : Taken(q)' = Taken(q)
  BY Zenon, <1>2 DEF Taken, LastAvail
<1>3. CASE SetupStep /\ at # 1
  <2>1. /\ \A q \in Queues : LastAvail(q)' = LastAvail(q)
        /\ UNCHANGED <<ringVars, freeHeads, lastUsed, skipped>>
    BY Zenon, <1>3, SetupGoesOn
  <2>2. UNCHANGED <<ppc, rpc, sent, wire>>
    BY Zenon, <1>3 DEF SetupStep, pollVars
  <2>3. \A q \in Queues : Taken(q)' = Taken(q)
    BY Zenon, <2>1, <2>2 DEF Taken
  <2> QED BY Zenon, <1>1, <2>1, <2>2, <2>3 DEF ringVars
<1>4. CASE Unbind \/ IsrRead \/ UNCHANGED vars
  BY Zenon, <1>1, <1>2, <1>4 DEF Unbind, IsrRead, vars, ringVars, driverVars,
     pollVars, rxVars
<1>5. CASE IsrServe
  <2>1. UNCHANGED <<used, buf, lastUsed, freeHeads, skipped, sent, wire, ppc, rpc>>
    BY Zenon, <1>5 DEF IsrServe, pollVars, rxVars
  <2>2. PICK b : avail' = [q \in Queues |-> [avail[q] EXCEPT !.quiet = b[q]]]
    <3>1. PICK woken : avail' = [q \in Queues |->
                          [avail[q] EXCEPT !.quiet = avail[q].quiet \/ q \in woken]]
      BY Zenon, <1>5 DEF IsrServe
    <3>2. PICK b : b = [q \in Queues |-> avail[q].quiet \/ q \in woken]
      BY Zenon
    <3>3. \A q \in Queues : (avail[q].quiet \/ q \in woken) = b[q]
      BY Zenon, <3>2
    <3> QED BY Basics, Zenon, <3>1, <3>3
  <2>3. \A q \in Queues : avail'[q].ring = avail[q].ring /\ avail'[q].idx = avail[q].idx
    BY ZenonT(30), <2>2 DEF RingType
  <2>4. dev'.queue = dev.queue
    <3>1. dev' = [dev EXCEPT !.int_status = 0]
      BY Zenon, <1>5, Writes DEF IsrServe
    <3> QED BY Zenon, <3>1 DEF DevType, Devices
  <2>5. \A q \in Queues : Taken(q)' = Taken(q)
    BY Zenon, <2>1, <2>4 DEF Taken, LastAvail
  <2> QED BY Zenon, <2>1, <2>3, <2>5 DEF Still, HeadsStay
<1>6. ASSUME NEW q \in Queues, EnableCb(q) \/ Recheck(q)
      PROVE  Still
  <2>1. PICK from, to \in {"idle", "drain", "recheck"}, quiet \in BOOLEAN :
          Callbacks(q, from, to, quiet)
    BY Zenon, <1>6, Switches
  <2>2. /\ avail' = [avail EXCEPT ![q].quiet = quiet]
        /\ UNCHANGED <<used, buf, lastUsed, freeHeads, skipped, sent, wire, dev, ppc, rpc>>
    BY Zenon, <2>1 DEF Callbacks, pollVars, rxVars
  <2>3. \A p \in Queues : avail'[p].ring = avail[p].ring /\ avail'[p].idx = avail[p].idx
    BY Zenon, Basics, <2>2 DEF RingType
  <2> QED BY Zenon, <1>2, <2>2, <2>3 DEF Still, HeadsStay
<1>7. ASSUME UNCHANGED <<dev, rpc>>, ppc # "flags", ppc' # "flags"
      PROVE  \A q \in Queues : Taken(q)' = Taken(q)
  BY Zenon, <1>7 DEF Taken, LastAvail
<1>8. CASE (\E q \in Queues : PollWake(q)) \/ PollSample \/ TxDone
  <2>1. /\ UNCHANGED <<dev, rpc, avail, used, buf, lastUsed, freeHeads, skipped, sent, wire>>
        /\ ppc # "flags" /\ ppc' # "flags"
    BY Zenon, <1>8 DEF PollWake, PollSample, TxDone, guestVars, driverVars,
       rxVars
  <2> QED BY Zenon, <1>1, <1>7, <2>1
<1>9. ASSUME UNCHANGED <<dev, ppc>>, rpc # "flags", rpc' # "flags"
      PROVE  \A q \in Queues : Taken(q)' = Taken(q)
  BY Zenon, <1>9 DEF Taken, LastAvail
<1>10. CASE RxCheck \/ RxDrop \/ (\E p \in RxPackets : RxRead(p))
  <2>1. /\ UNCHANGED <<dev, ppc, avail, used, buf, lastUsed, freeHeads, skipped, sent, wire>>
        /\ rpc # "flags" /\ rpc' # "flags"
    BY Zenon, <1>10 DEF RxCheck, RxDrop, RxRead, guestVars, driverVars, pollVars
  <2> QED BY Zenon, <1>1, <1>9, <2>1
<1>11. CASE TxFlags
  <2>1. /\ Signal(TX) /\ ppc = "flags" /\ ppc' = "send"
        /\ UNCHANGED <<rpc, avail, used, buf, lastUsed, freeHeads, skipped, sent, wire>>
    BY Zenon, <1>11 DEF TxFlags, guestVars, driverVars, rxVars, LockInv
  <2>2. \A q \in Queues : Taken(q)' = Taken(q)
    BY Zenon, Basics, <2>1, IndexMoves DEF Taken
  <2> QED BY Zenon, <1>1, <2>1, <2>2
<1>12. CASE RxFlags
  <2>1. /\ Signal(RX) /\ rpc = "flags" /\ rpc' = "read"
        /\ UNCHANGED <<ppc, avail, used, buf, lastUsed, freeHeads, skipped, sent, wire>>
    BY Zenon, <1>12 DEF RxFlags, guestVars, driverVars, pollVars
  <2>2. \A q \in Queues : Taken(q)' = Taken(q)
    BY Zenon, Basics, <2>1, IndexMoves DEF Taken
  <2> QED BY Zenon, <1>1, <2>1, <2>2
<1> QED BY Zenon, <1>3, <1>4, <1>5, <1>6, <1>8, <1>10, <1>11, <1>12, Cases

(* Every head of a queue stays in exactly one place, whoever moves it. *)
LEMMA OwnerStep ==
  ASSUME Core, OwnerInv, TgtInv, [Next]_vars
  PROVE  OwnerInv'
<1>t. RingType /\ ThreadType /\ DevType
  BY Zenon DEF Core, TypeInv
<1>0. ASSUME NEW q \in Queues, HeadsStay(q)
      PROVE  QueueOwners(q)'
  BY Zenon, <1>0 DEF HeadsStay, OwnerInv, QueueOwners
<1>o. \A q \in Queues : QueueOwners(q)
  BY Zenon DEF OwnerInv
<1>1. CASE Still
  BY Zenon, <1>0, <1>1 DEF Still, OwnerInv
<1>2. CASE SetupStep /\ at = 1
  <2>1. ASSUME NEW q \in Queues PROVE QueueOwners(q)' /\ skipped'[q] = {}
    <3>1. /\ LastAvail(q)' = 0 /\ avail'[q].idx = 0 /\ used'[q].idx = 0
          /\ avail'[q].ring \in [Heads -> Heads] /\ used'[q].ring \in [Heads -> Heads]
          /\ lastUsed'[q] = 0 /\ freeHeads'[q] = Heads /\ skipped'[q] = {}
      BY Zenon, <1>2, SetupBegins DEF Core
    <3>2. lock = "free" /\ UNCHANGED <<ppc, rpc>>
      BY Zenon, <1>2, SetupBegins DEF Core
    <3>3. ppc # "flags" /\ rpc # "flags"
      BY Zenon, <3>2 DEF Core, LockInv
    <3>4. Taken(q)' = 0
      BY Zenon, <3>1, <3>2, <3>3 DEF Taken
    <3> QED BY Zenon, <3>1, <3>4, NoneOut DEF QueueOwners
  <2> QED BY Zenon, Basics, <2>1 DEF OwnerInv
<1>3. ASSUME NEW q \in Queues, NEW x \in Payloads, Post(q, x)
      PROVE  OwnerInv'
  <2>1. PICK h \in freeHeads[q] :
          /\ freeHeads' = [freeHeads EXCEPT ![q] = freeHeads[q] \ {h}]
          /\ avail' = [avail EXCEPT ![q].ring[avail[q].idx % Num] = h,
                                    ![q].idx = Inc(avail[q].idx)]
    BY Zenon, <1>3 DEF Post
  <2>2. UNCHANGED <<used, lastUsed, skipped, dev, ppc, rpc>>
    BY Zenon, <1>3 DEF Post, pollVars, rxVars
  <2>3. \A p \in Queues : Taken(p)' = Taken(p)
    BY Zenon, <2>2 DEF Taken, LastAvail
  <2>4. /\ avail'[q].ring = [avail[q].ring EXCEPT ![avail[q].idx % Num] = h]
        /\ avail'[q].idx = Inc(avail[q].idx) /\ freeHeads'[q] = freeHeads[q] \ {h}
    BY <1>t, <2>1 DEF RingType
  <2>5. \A p \in Queues : p # q => avail'[p] = avail[p] /\ freeHeads'[p] = freeHeads[p]
    BY Zenon, <1>t, <2>1 DEF RingType
  <2>6. QueueOwners(q)'
    <3>1. Owners(avail[q].ring, Taken(q), avail[q].idx, used[q].ring, lastUsed[q],
                 used[q].idx, freeHeads[q], skipped[q])
      BY Zenon, <1>o DEF QueueOwners
    <3>2. Owners([avail[q].ring EXCEPT ![avail[q].idx % Num] = h], Taken(q),
                 Inc(avail[q].idx), used[q].ring, lastUsed[q], used[q].idx,
                 freeHeads[q] \ {h}, skipped[q])
      BY Zenon, <3>1, OfferOne
    <3> QED BY Zenon, <2>2, <2>3, <2>4, <3>2 DEF QueueOwners
  <2>7. \A p \in Queues : p # q => HeadsStay(p)
    BY Zenon, <2>2, <2>3, <2>5 DEF HeadsStay
  <2>8. \A p \in Queues : QueueOwners(p)'
    BY Zenon, <1>0, <2>6, <2>7
  <2> QED BY Zenon, <2>2, <2>8 DEF OwnerInv
<1>4. ASSUME NEW q \in Queues, Drain(q)
      PROVE  OwnerInv'
  <2>1. PICK h : /\ h = used[q].ring[lastUsed[q] % Num]
                 /\ freeHeads' = [freeHeads EXCEPT ![q] = freeHeads[q] \cup {h}]
                 /\ lastUsed' = [lastUsed EXCEPT ![q] = Inc(lastUsed[q])]
    BY Zenon, <1>4 DEF Drain
  <2>2. UNCHANGED <<avail, used, skipped, dev, ppc, rpc>> /\ used[q].idx # lastUsed[q]
    BY Zenon, <1>4 DEF Drain, pollVars, rxVars, Fresh
  <2>3. \A p \in Queues : Taken(p)' = Taken(p)
    BY Zenon, <2>2 DEF Taken, LastAvail
  <2>4. lastUsed'[q] = Inc(lastUsed[q]) /\ freeHeads'[q] = freeHeads[q] \cup {h}
    BY Zenon, <1>t, <2>1 DEF RingType
  <2>5. \A p \in Queues : p # q => /\ lastUsed'[p] = lastUsed[p]
                                   /\ freeHeads'[p] = freeHeads[p]
    BY Zenon, <1>t, <2>1 DEF RingType
  <2>6. QueueOwners(q)'
    <3>1. Owners(avail[q].ring, Taken(q), avail[q].idx, used[q].ring, lastUsed[q],
                 used[q].idx, freeHeads[q], skipped[q])
      BY Zenon, <1>o DEF QueueOwners
    <3>2. Owners(avail[q].ring, Taken(q), avail[q].idx, used[q].ring,
                 Inc(lastUsed[q]), used[q].idx, freeHeads[q] \cup {h}, skipped[q])
      <4> DEFINE ar == avail[q].ring
                 ai == avail[q].idx
                 ur == used[q].ring
                 lu == lastUsed[q]
                 ui == used[q].idx
                 tk == Taken(q)
                 fr == freeHeads[q]
      <4>1. Owners(ar, tk, ai, ur, lu, ui, fr, skipped[q]) /\ lu # ui /\ h = ur[lu % Num]
        BY Zenon, <2>1, <2>2, <3>1
      <4> HIDE DEF ar, ai, ur, lu, ui, tk, fr
      <4>2. Owners(ar, tk, ai, ur, Inc(lu), ui, fr \cup {h}, skipped[q])
        BY Zenon, <4>1, DrainOne
      <4> QED BY Zenon, <4>2 DEF ar, ai, ur, lu, ui, tk, fr
    <3> QED BY Zenon, <2>2, <2>3, <2>4, <3>2 DEF QueueOwners
  <2>7. \A p \in Queues : p # q => HeadsStay(p)
    BY Zenon, <2>2, <2>3, <2>5 DEF HeadsStay
  <2>8. \A p \in Queues : QueueOwners(p)'
    BY Zenon, <1>0, <2>6, <2>7
  <2> QED BY Zenon, <2>2, <2>8 DEF OwnerInv
<1>5. ASSUME NEW q \in Queues, Publish(q), NextHead(q) = avail[q].ring[Taken(q) % Num],
             dev.queue[q].num = Num, Taken(q) # avail[q].idx,
             Taken(q)' = Inc(Taken(q)), \A p \in Queues : p # q => Taken(p)' = Taken(p),
             UNCHANGED <<avail, lastUsed, freeHeads, skipped>>
      PROVE  OwnerInv'
  <2>1. PICK h : h = avail[q].ring[Taken(q) % Num]
    BY Zenon
  <2>2. used' = [used EXCEPT ![q].ring[used[q].idx % Num] = h,
                             ![q].idx = Inc(used[q].idx)]
    BY Zenon, <1>5, <2>1 DEF Publish
  <2>3. /\ used'[q].ring = [used[q].ring EXCEPT ![used[q].idx % Num] = h]
        /\ used'[q].idx = Inc(used[q].idx)
    BY Zenon, <1>t, <2>2 DEF RingType
  <2>4. \A p \in Queues : p # q => used'[p] = used[p]
    BY Zenon, <1>t, <2>2 DEF RingType
  <2>6. QueueOwners(q)'
    <3>1. Owners(avail[q].ring, Taken(q), avail[q].idx, used[q].ring, lastUsed[q],
                 used[q].idx, freeHeads[q], skipped[q])
      BY Zenon, <1>o DEF QueueOwners
    <3>2. Owners(avail[q].ring, Inc(Taken(q)), avail[q].idx,
                 [used[q].ring EXCEPT ![used[q].idx % Num] = h],
                 lastUsed[q], Inc(used[q].idx), freeHeads[q], skipped[q])
      BY Zenon, <1>5, <2>1, <3>1, CompleteOne
    <3> QED BY Zenon, <1>5, <2>3, <3>2 DEF QueueOwners
  <2>7. \A p \in Queues : p # q => HeadsStay(p)
    BY Zenon, <1>5, <2>4 DEF HeadsStay
  <2>8. \A p \in Queues : QueueOwners(p)'
    BY Zenon, <1>0, <2>6, <2>7
  <2> QED BY Zenon, <1>5, <2>8 DEF OwnerInv
<1>6. CASE TxSend
  <2>1. /\ ppc = "send" /\ pq = TX /\ dev.queue[TX].num = Num /\ Publish(TX)
        /\ NextHead(TX) = avail[TX].ring[LastAvail(TX) % Num]
    BY Zenon, <1>6, Serving DEF TxSend
  <2>2. Taken(TX) = LastAvail(TX) /\ LastAvail(TX) # avail[TX].idx
    BY Zenon, <1>6, TakesWritten DEF TxSend
  <2>3. /\ UNCHANGED <<avail, lastUsed, freeHeads, skipped, dev, rpc>> /\ ppc' = "flags"
    BY Zenon, <1>6 DEF TxSend, guestVars, driverVars, rxVars
  <2>4. Taken(TX)' = Inc(Taken(TX)) /\ \A p \in Queues : p # TX => Taken(p)' = Taken(p)
    BY Zenon, <2>2, <2>3 DEF Taken, LastAvail
  <2> QED BY Zenon, Basics, <1>5, <2>1, <2>2, <2>3, <2>4
<1>7. CASE RxWrite
  <2>1. /\ LastAvail(RX) # avail[RX].idx /\ dev.queue[RX].num = Num /\ Publish(RX)
        /\ NextHead(RX) = avail[RX].ring[LastAvail(RX) % Num] /\ rpc = "write"
    BY Zenon, <1>7, Receiving DEF RxWrite
  <2>2. Taken(RX) = LastAvail(RX)
    BY Zenon, Basics, <2>1 DEF Taken
  <2>3. /\ UNCHANGED <<avail, lastUsed, freeHeads, skipped, dev, ppc>> /\ rpc' = "flags"
    BY Zenon, <1>7 DEF RxWrite, guestVars, driverVars, pollVars
  <2>4. Taken(RX)' = Inc(Taken(RX)) /\ \A p \in Queues : p # RX => Taken(p)' = Taken(p)
    BY Zenon, <2>2, <2>3 DEF Taken, LastAvail
  <2> QED BY Zenon, Basics, <1>5, <2>1, <2>2, <2>3, <2>4
<1>8. CASE TxSkip
  <2>1. ppc = "send" /\ pq = TX /\ NextHead(TX) = avail[TX].ring[LastAvail(TX) % Num]
    BY Zenon, <1>8, Serving DEF TxSkip
  <2>2. Taken(TX) = LastAvail(TX) /\ LastAvail(TX) # avail[TX].idx
    BY Zenon, <1>8, TakesWritten DEF TxSkip
  <2>3. UNCHANGED <<avail, used, lastUsed, freeHeads, rpc, ppc>>
    BY Zenon, <1>8 DEF TxSkip, guestVars, driverVars, rxVars, pollVars
  <2>4. /\ skipped' = [skipped EXCEPT ![TX] = skipped[TX] \cup {NextHead(TX)}]
        /\ dev' = [dev EXCEPT !.queue[TX].last_avail_idx = Advanced(TX)]
    BY Zenon, <1>8, <2>1 DEF TxSkip
  <2>5. Taken(TX)' = Inc(Taken(TX)) /\ \A p \in Queues : p # TX => Taken(p)' = Taken(p)
    BY Zenon, Basics, <1>t, <2>1, <2>2, <2>3, <2>4, IndexMoves DEF Taken
  <2>6. /\ skipped'[TX] = skipped[TX] \cup {avail[TX].ring[Taken(TX) % Num]}
        /\ skipped'[RX] = skipped[RX]
    BY Zenon, Basics, <1>t, <2>1, <2>2, <2>4 DEF RingType
  <2>7. QueueOwners(TX)'
    <3>1. Owners(avail[TX].ring, Taken(TX), avail[TX].idx, used[TX].ring, lastUsed[TX],
                 used[TX].idx, freeHeads[TX], skipped[TX])
      BY Zenon, Basics, <1>o DEF QueueOwners
    <3>2. Owners(avail[TX].ring, Inc(Taken(TX)), avail[TX].idx, used[TX].ring,
                 lastUsed[TX], used[TX].idx, freeHeads[TX],
                 skipped[TX] \cup {avail[TX].ring[Taken(TX) % Num]})
      BY Zenon, <2>2, <3>1, SkipOne
    <3> QED BY Zenon, <2>3, <2>5, <2>6, <3>2 DEF QueueOwners
  <2>8. HeadsStay(RX)
    BY Zenon, Basics, <2>3, <2>5, <2>6 DEF HeadsStay
  <2> QED BY Zenon, Basics, <1>0, <2>6, <2>7, <2>8 DEF OwnerInv
<1> QED BY Zenon, <1>1, <1>2, <1>3, <1>4, <1>6, <1>7, <1>8, NoHeadMoves, Posts

(* The poll thread takes its target from the available index and keeps it. *)
LEMMA TargetMoves ==
  ASSUME Core, [Next]_vars, ppc' \in {"send", "flags"}
  PROVE  \/ ppc \in {"send", "flags"} /\ tgt' = tgt
         \/ tgt' = avail[TX].idx /\ avail' = avail
<1>1. CASE UNCHANGED <<ppc, tgt>>
  BY Zenon, <1>1
<1>2. CASE SetupStep \/ Unbind \/ PostRx \/ (\E p \in TxPackets : PostTx(p))
  BY Zenon, <1>1, <1>2 DEF SetupStep, Unbind, PostRx, PostTx, Post, pollVars
<1>3. CASE IsrRead \/ IsrServe \/ (\E q \in Queues : Drain(q) \/ EnableCb(q) \/ Recheck(q))
  BY Zenon, <1>1, <1>3 DEF IsrRead, IsrServe, Drain, EnableCb, Recheck,
     Callbacks, pollVars
<1>4. CASE RxCheck \/ RxDrop \/ RxWrite \/ RxFlags \/ (\E p \in RxPackets : RxRead(p))
  BY Zenon, <1>1, <1>4 DEF RxCheck, RxDrop, RxWrite, RxFlags, RxRead, pollVars
<1>5. CASE UNCHANGED vars
  BY Zenon, <1>1, <1>5 DEF vars, pollVars
<1>6. CASE (\E q \in Queues : PollWake(q)) \/ TxSend \/ TxFlags \/ TxSkip \/ TxDone
  BY Zenon, <1>6 DEF PollWake, TxSend, TxFlags, TxSkip, TxDone, Takes, pollVars
<1>7. CASE PollSample
  <2>1. /\ ppc = "lock" /\ ~dev.queue[pq].manual_recv /\ tgt' = AvailIdx(pq)
        /\ avail' = avail
    BY Zenon, <1>7 DEF PollSample, guestVars
  <2>2. pq = TX
    BY Zenon, <2>1, Basics DEF Core, TypeInv, ThreadType, RegsInv
  <2> QED BY Zenon, <2>1, <2>2, Basics, IndexRead
<1> QED BY Zenon, <1>2, <1>3, <1>4, <1>5, <1>6, <1>7, Cases

(* So it never goes past what the driver has made available. *)
LEMMA TgtStep ==
  ASSUME Core, OwnerInv, TgtInv, [Next]_vars
  PROVE  TgtInv'
<1> SUFFICES ASSUME ppc' \in {"send", "flags"}
             PROVE  Gap(Taken(TX)', tgt', IdxMod)
                      <= Gap(Taken(TX)', avail'[TX].idx, IdxMod)
  BY Zenon DEF TgtInv
<1>t. RingType /\ ThreadType /\ DevType
  BY Zenon DEF Core, TypeInv
<1>g. /\ Gap(Taken(TX), avail[TX].idx, IdxMod) \in Int
      /\ Gap(Taken(TX), tgt, IdxMod) \in Int
  <2>1. Taken(TX) \in Idx /\ avail[TX].idx \in Idx
    BY Zenon, Basics, IndexRead DEF Taken
  <2> QED BY Zenon, Basics, <1>t, <2>1, NetAssumption, GapIs DEF Idx, ThreadType
<1>1. ASSUME Taken(TX)' = Taken(TX), avail'[TX].idx = avail[TX].idx
      PROVE  Gap(Taken(TX)', tgt', IdxMod) <= Gap(Taken(TX)', avail'[TX].idx, IdxMod)
  <2>1. CASE ppc \in {"send", "flags"} /\ tgt' = tgt
    BY Zenon, <1>1, <2>1 DEF TgtInv
  <2>2. CASE tgt' = avail[TX].idx
    BY <1>1, <1>g, <2>2
  <2> QED BY Zenon, <2>1, <2>2, TargetMoves
<1>2. CASE Still
  BY Zenon, Basics, <1>1, <1>2 DEF Still, HeadsStay
<1>3. CASE SetupStep /\ at = 1
  BY Zenon, <1>3, SetupBegins DEF Core, LockInv
<1>4. ASSUME NEW q \in Queues, NEW x \in Payloads, Post(q, x)
      PROVE  Gap(Taken(TX)', tgt', IdxMod) <= Gap(Taken(TX)', avail'[TX].idx, IdxMod)
  <2>1. PICK h \in freeHeads[q] :
          avail' = [avail EXCEPT ![q].ring[avail[q].idx % Num] = h,
                                 ![q].idx = Inc(avail[q].idx)]
    BY Zenon, <1>4 DEF Post
  <2>2. UNCHANGED <<dev, ppc, tgt, rpc>>
    BY Zenon, <1>4 DEF Post, pollVars, rxVars
  <2>3. Taken(TX)' = Taken(TX)
    BY Zenon, <2>2 DEF Taken, LastAvail
  <2>4. CASE q # TX
    <3>1. avail'[TX].idx = avail[TX].idx
      BY Zenon, Basics, <1>t, <2>1, <2>4 DEF RingType
    <3> QED BY Zenon, <1>1, <2>3, <3>1
  <2>5. CASE q = TX
    <3>1. avail'[TX].idx = Inc(avail[TX].idx)
      BY Zenon, Basics, <1>t, <2>1, <2>5 DEF RingType
    <3>2. Gap(Taken(TX), Inc(avail[TX].idx), IdxMod)
            = Gap(Taken(TX), avail[TX].idx, IdxMod) + 1
      BY Zenon, <2>1, <2>5, OfferOne DEF OwnerInv, QueueOwners
    <3>3. Gap(Taken(TX), tgt, IdxMod) <= Gap(Taken(TX), avail[TX].idx, IdxMod)
      BY Zenon, <2>2 DEF TgtInv
    <3> QED BY <1>g, <2>2, <2>3, <3>1, <3>2, <3>3
  <2> QED BY Zenon, <2>4, <2>5
<1>5. ASSUME NEW q \in Queues, Drain(q)
      PROVE  Gap(Taken(TX)', tgt', IdxMod) <= Gap(Taken(TX)', avail'[TX].idx, IdxMod)
  <2>1. UNCHANGED <<dev, ppc, rpc, avail>>
    BY Zenon, <1>5 DEF Drain, pollVars, rxVars
  <2> QED BY Zenon, <1>1, <2>1 DEF Taken, LastAvail
<1>6. CASE TxSend
  <2>1. UNCHANGED <<dev, avail, tgt>> /\ ppc' = "flags" /\ Takes
    BY Zenon, <1>6 DEF TxSend, guestVars
  <2>2. Taken(TX)' = Inc(LastAvail(TX))
    BY Zenon, <2>1 DEF Taken, LastAvail
  <2> QED BY Zenon, <2>1, <2>2, TakesWritten
<1>7. CASE TxSkip
  <2>1. /\ UNCHANGED <<avail, tgt, ppc>> /\ Takes
        /\ dev' = [dev EXCEPT !.queue[pq].last_avail_idx = Advanced(pq)]
    BY Zenon, <1>7 DEF TxSkip, guestVars, pollVars
  <2>2. pq = TX /\ ppc = "send"
    BY Zenon, <2>1, Serving
  <2>3. Taken(TX)' = Inc(LastAvail(TX))
    BY Zenon, Basics, <1>t, <2>1, <2>2, IndexMoves DEF Taken
  <2> QED BY Zenon, <2>1, <2>3, TakesWritten
<1>8. CASE RxWrite
  <2>1. UNCHANGED <<dev, ppc, avail>>
    BY Zenon, <1>8 DEF RxWrite, guestVars, pollVars
  <2> QED BY Zenon, Basics, <1>1, <2>1 DEF Taken, LastAvail
<1> QED BY Zenon, <1>2, <1>3, <1>4, <1>5, <1>6, <1>7, <1>8, NoHeadMoves, Posts


-----------------------------------------------------------------------------
(* Room for a packet, and rings that are not there. *)

(* Only can_write_packet says that there is room. *)
LEMMA RoomMoves ==
  ASSUME [Next]_vars, room'
  PROVE  room \/ (RxCheck /\ HasRoom)
<1>1. CASE room' = room
  BY Zenon, <1>1
<1>2. CASE SetupStep
  <2>1. room' = FALSE \/ room' = room
    BY Zenon, <1>2 DEF SetupStep, Restart
  <2> QED BY Zenon, <2>1
<1>3. CASE Unbind \/ PostRx \/ (\E p \in TxPackets : PostTx(p)) \/ UNCHANGED vars
  BY Zenon, <1>1, <1>3 DEF Unbind, PostRx, PostTx, Post, rxVars, vars
<1>4. CASE IsrRead \/ IsrServe \/ (\E q \in Queues : Drain(q) \/ EnableCb(q) \/ Recheck(q))
  BY Zenon, <1>1, <1>4 DEF IsrRead, IsrServe, Drain, EnableCb, Recheck,
     Callbacks, rxVars
<1>5. CASE (\E q \in Queues : PollWake(q)) \/ PollSample \/ TxSend \/ TxFlags \/ TxSkip
           \/ TxDone
  BY Zenon, <1>1, <1>5 DEF PollWake, PollSample, TxSend, TxFlags, TxSkip,
     TxDone, rxVars
<1>6. CASE RxFlags \/ (\E p \in RxPackets : RxRead(p))
  BY Zenon, <1>1, <1>6 DEF RxFlags, RxRead
<1>7. CASE RxDrop \/ RxWrite
  BY Zenon, <1>7 DEF RxDrop, RxWrite
<1>8. CASE RxCheck
  BY Zenon, <1>8 DEF RxCheck
<1> QED BY Zenon, <1>2, <1>3, <1>4, <1>5, <1>6, <1>7, <1>8, Cases

(* What it saw stays true until the receiver acts on it: a step of another *)
(* thread leaves last_avail_idx of the receive queue alone, the driver     *)
(* only adds buffers, and a reset discards the answer.                     *)
LEMMA RoomStep ==
  ASSUME Core, OwnerInv, RoomStaysRoom, [Next]_vars, LockInv'
  PROVE  RoomStaysRoom'
<1> SUFFICES ASSUME room' PROVE HasRoom'
  BY Zenon DEF RoomStaysRoom
<1>t. RingType /\ ThreadType /\ DevType
  BY Zenon DEF Core, TypeInv
<1>1. CASE RxCheck /\ HasRoom
  BY Zenon, <1>1 DEF RxCheck, guestVars, HasRoom, Ready, LastAvail, AvailIdx,
     NoRing, RingAddr, High, driverVars
<1>2. CASE room
  <2>1. /\ HasRoom /\ rpc = "write" /\ rpc' = "write" /\ Taken(RX) = LastAvail(RX)
        /\ Taken(RX)' = LastAvail(RX)'
    BY Zenon, Basics, <1>2 DEF RoomStaysRoom, Core, LockInv, Taken
  <2>2. ~Fallow /\ LastAvail(RX) # avail[RX].idx /\ Ready(RX) /\ AvailIdx(RX) = avail[RX].idx
    BY Zenon, Basics, <2>1, Receiving, IndexRead DEF HasRoom
  <2>3. CASE UNCHANGED <<dev, avail, life>>
    BY Zenon, <2>1, <2>3 DEF HasRoom, Ready, LastAvail, AvailIdx, NoRing,
       RingAddr, High
  <2>4. CASE SetupStep
    <3>1. at # 1
      BY Zenon, <2>4, SetupBegins, <1>t DEF TypeInv
    <3>2. Fallow
      BY Zenon, <2>4, <3>1, SetupGoesOn DEF Core, Fallow
    <3> QED BY Zenon, <2>2, <3>2
  <2>5. CASE Unbind
    BY Zenon, <2>3, <2>5 DEF Unbind, ringVars
  <2>6. ASSUME ~SetupStep, ~Unbind, LastAvail(RX)' # avail'[RX].idx
        PROVE  HasRoom'
    <3>1. RegsKept
      BY Zenon, <2>6, OthersKeepRegs DEF Core
    <3>2. Ready(RX)' /\ AvailIdx(RX)' = avail'[RX].idx
      <4>1. dev.queue[RX].avail_addr = RingAddr(RX)
        BY Zenon, Basics, <2>2, IndexRead
      <4>2. RingAddr(RX)' = RingAddr(RX)
        BY Zenon, <3>1 DEF RegsKept, RingAddr, High
      <4>3. /\ dev'.queue[RX].avail_addr = dev.queue[RX].avail_addr
            /\ dev'.queue[RX].ready = dev.queue[RX].ready
        BY Zenon, Basics, <3>1 DEF RegsKept
      <4>4. ~NoRing(RX)'
        BY Zenon, <4>1, <4>2, <4>3 DEF NoRing
      <4> QED BY Zenon, <2>2, <4>3, <4>4 DEF Ready, AvailIdx
    <3> QED BY Zenon, <2>6, <3>2 DEF HasRoom
  <2>7. CASE Still /\ ~SetupStep /\ ~Unbind
    BY Zenon, Basics, <2>1, <2>2, <2>6, <2>7 DEF Still, HeadsStay
  <2>8. ASSUME NEW q \in Queues, NEW x \in Payloads, Post(q, x), ~SetupStep, ~Unbind
        PROVE  HasRoom'
    <3>1. PICK h \in freeHeads[q] :
            avail' = [avail EXCEPT ![q].ring[avail[q].idx % Num] = h,
                                   ![q].idx = Inc(avail[q].idx)]
      BY Zenon, <2>8 DEF Post
    <3>2. LastAvail(RX)' = LastAvail(RX)
      BY Zenon, <2>8 DEF Post, LastAvail
    <3>3. CASE q # RX
      <4>1. avail'[RX].idx = avail[RX].idx
        BY Zenon, Basics, <1>t, <3>1, <3>3 DEF RingType
      <4> QED BY Zenon, <2>2, <2>6, <2>8, <3>2, <4>1
    <3>4. CASE q = RX
      <4>1. avail'[RX].idx = Inc(avail[RX].idx)
        BY Zenon, Basics, <1>t, <3>1, <3>4 DEF RingType
      <4>2. Gap(Taken(RX), Inc(avail[RX].idx), IdxMod)
              = Gap(Taken(RX), avail[RX].idx, IdxMod) + 1
        BY Zenon, <3>1, <3>4, OfferOne DEF OwnerInv, QueueOwners
      <4>3. /\ LastAvail(RX) \in 0..(IdxMod - 1) /\ avail[RX].idx \in 0..(IdxMod - 1)
            /\ Inc(avail[RX].idx) \in 0..(IdxMod - 1) /\ IdxMod \in Nat \ {0}
        BY Zenon, Basics, IndexRead, NetAssumption DEF Idx
      <4>4. Gap(LastAvail(RX), avail[RX].idx, IdxMod) \in 0..(IdxMod - 1)
        BY Zenon, <4>3, GapIs
      <4>5. Gap(LastAvail(RX), Inc(avail[RX].idx), IdxMod) = 0
              <=> LastAvail(RX) = Inc(avail[RX].idx)
        BY Zenon, <4>3, GapIs
      <4>6. LastAvail(RX) # Inc(avail[RX].idx)
        BY <2>1, <4>2, <4>4, <4>5
      <4> QED BY Zenon, <2>6, <2>8, <3>2, <4>1, <4>6
    <3> QED BY Zenon, <3>3, <3>4
  <2>9. CASE \E q \in Queues : Drain(q)
    BY Zenon, <2>3, <2>9 DEF Drain
  <2>10. CASE TxSend
    BY Zenon, <2>3, <2>10 DEF TxSend, guestVars, driverVars
  <2>11. CASE TxSkip /\ ~SetupStep /\ ~Unbind
    <3>1. pq = TX
      BY Zenon, <2>11, Serving DEF TxSkip
    <3>2. LastAvail(RX)' = LastAvail(RX)
      BY Zenon, Basics, <1>t, <2>11, <3>1, IndexMoves DEF TxSkip
    <3>3. avail' = avail
      BY Zenon, <2>11 DEF TxSkip, guestVars
    <3> QED BY Zenon, <2>2, <2>6, <2>11, <3>2, <3>3
  <2>12. CASE RxWrite
    BY Zenon, <2>12 DEF RxWrite
  <2> QED BY Zenon, <2>4, <2>5, <2>7, <2>8, <2>9, <2>10, <2>11, <2>12,
             NoHeadMoves, Posts
<1> QED BY Zenon, <1>1, <1>2, RoomMoves

(* The device walks a ring where there is none only as OnlyUnreadyStrays   *)
(* says: a queue that is ready has its whole address, and one that is not  *)
(* has none of it, all of it, or its lower half.                           *)
LEMMA StrayStep ==
  ASSUME Core, OnlyUnreadyStrays, [Next]_vars
  PROVE  OnlyUnreadyStrays'
<1>q. QueueAt(RX) = 3 /\ QueueAt(TX) = 6 /\ SetupLen = 9 /\ at \in 1..10 /\ life \in Nat
  BY DEF QueueAt, RX, TX, SetupLen, Core, TypeInv, DevType, RegsInv
<1>1. CASE UNCHANGED vars
  BY Zenon, <1>1 DEF vars, driverVars, pollVars, OnlyUnreadyStrays, High,
     LowHalfOnly, Ready
<1>2. CASE stray = "no" /\ stray' = "no"
  BY Zenon, <1>2 DEF OnlyUnreadyStrays
<1>3. ~(Ready(RX) /\ NoRing(RX))
  <2>1. SUFFICES ASSUME Ready(RX) PROVE dev.queue[RX].avail_addr = RingAddr(RX)
    BY Zenon DEF NoRing
  <2>2. After(RX)
    <3>1. ~Before(RX) /\ ~LowHalfOnly(RX) /\ at # QueueAt(RX) + 2
      BY Basics, <2>1 DEF Core, RegsInv, Ready
    <3> QED BY SMTT(30), SMTT(60), <1>q, <3>1 DEF Before, After, LowHalfOnly
  <2> QED BY Zenon, Basics, <2>2 DEF Core, RegsInv
<1>4. RxStray = stray
  BY Zenon, <1>3 DEF RxStray
<1>5. CASE stray = "no" /\ PollSample
  <2>1. CASE dev.queue[pq].manual_recv \/ ~NoRing(pq)
    BY Zenon, <1>2, <1>5, <2>1 DEF PollSample
  <2>2. CASE ~dev.queue[pq].manual_recv /\ NoRing(pq)
    <3>1. pq = TX /\ UNCHANGED <<dev, at, life, pq>>
      BY Zenon, Basics, <1>5, <2>2 DEF PollSample, guestVars, driverVars,
         Core, TypeInv, ThreadType, RegsInv
    <3>2. stray' \in {"no", "poll"}
      BY Zenon, <1>5, <2>2 DEF PollSample
    <3>3. dev.queue[TX].avail_addr # RingAddr(TX)
      BY Zenon, <2>2, <3>1 DEF NoRing
    <3>4. Before(TX) \/ LowHalfOnly(TX)
      <4>1. ~After(TX) /\ at # QueueAt(TX) + 2
        BY Zenon, Basics, <3>3 DEF Core, RegsInv
      <4> QED BY <1>q, <4>1 DEF Before, After, LowHalfOnly
    <3>5. dev.queue[TX].ready = 0
      BY Zenon, Basics, <3>4 DEF Core, RegsInv
    <3>6. ~Ready(TX)
      BY <3>5 DEF Ready
    <3>7. \/ dev.queue[TX].avail_addr = Null
          \/ LowHalfOnly(TX) /\ dev.queue_sel = TX /\ High # 0
      <4>1. CASE Before(TX)
        BY Zenon, Basics, <4>1 DEF Core, RegsInv
      <4>2. CASE LowHalfOnly(TX)
        <5>1. dev.queue_sel = TX /\ dev.queue[TX].avail_addr = [lo |-> TX + 1, hi |-> 0]
          BY Zenon, Basics, <4>2 DEF Core, RegsInv
        <5> QED BY Zenon, <3>3, <4>2, <5>1 DEF RingAddr
      <4> QED BY Zenon, <3>4, <4>1, <4>2
    <3> QED BY Zenon, <3>1, <3>2, <3>6, <3>7
               DEF OnlyUnreadyStrays, High, LowHalfOnly, Ready
  <2> QED BY Zenon, <2>1, <2>2
<1>6. ASSUME stray = "no", ~PollSample, ~UNCHANGED vars PROVE stray' = "no"
  <2>1. CASE SetupStep \/ Unbind \/ PostRx \/ (\E p \in TxPackets : PostTx(p))
    BY Zenon, <1>6, <2>1 DEF SetupStep, Unbind, PostRx, PostTx, Post
  <2>2. CASE IsrRead \/ IsrServe \/ (\E q \in Queues : Drain(q) \/ EnableCb(q) \/ Recheck(q))
    BY Zenon, <1>6, <2>2 DEF IsrRead, IsrServe, Drain, EnableCb, Recheck,
       Callbacks
  <2>3. CASE (\E q \in Queues : PollWake(q)) \/ TxSend \/ TxFlags \/ TxSkip \/ TxDone
    BY Zenon, <1>6, <2>3 DEF PollWake, TxSend, TxFlags, TxSkip, TxDone
  <2>4. CASE RxCheck \/ RxDrop \/ RxWrite \/ RxFlags \/ (\E p \in RxPackets : RxRead(p))
    BY Zenon, <1>4, <1>6, <2>4 DEF RxCheck, RxDrop, RxWrite, RxFlags, RxRead
  <2> QED BY Zenon, <1>6, <2>1, <2>2, <2>3, <2>4, Cases
<1>7. CASE stray # "no"
  BY Zenon, <1>1, <1>7 DEF Next, Gone
<1> QED BY Zenon, <1>1, <1>2, <1>5, <1>6, <1>7

-----------------------------------------------------------------------------
(* The invariant, and what it says. *)

(* The device as virtio_net_init leaves it, before the first driver. *)
LEMMA InitNet ==
  ASSUME Init
  PROVE  NetInv
<1> USE DEF Init
<1>q. QueueAt(RX) = 3 /\ QueueAt(TX) = 6 /\ SetupLen = 9 /\ Null \in Addrs
  BY DEF QueueAt, RX, TX, SetupLen, Null, Addrs
<1>1. /\ dev \in Devices
      /\ \A q \in Queues : /\ dev.queue[q].ready = 0 /\ dev.queue[q].avail_addr = Null
                           /\ LastAvail(q) = 0
      /\ dev.queue[RX].manual_recv /\ ~dev.queue[TX].manual_recv
  <2>1. PICK s : s = ResetQueue
    BY Zenon
  <2>2. /\ s \in QueueRegs /\ s.ready = 0 /\ s.avail_addr = Null
        /\ s.last_avail_idx = 0 /\ s.manual_recv = FALSE
    BY Zenon, Basics, <1>q, <2>1 DEF ResetQueue, QueueRegs
  <2>3. PICK r : r = [s EXCEPT !.manual_recv = TRUE]
    BY Zenon
  <2>4. /\ r \in QueueRegs /\ r.ready = 0 /\ r.avail_addr = Null
        /\ r.last_avail_idx = 0 /\ r.manual_recv = TRUE
    BY Zenon, <2>2, <2>3 DEF QueueRegs
  <2>a. PICK d : d = ResetDevice
    BY Zenon
  <2>b. d = [status |-> 0, queue_sel |-> 0, device_features_sel |-> 0,
             int_status |-> 0, queue |-> [q \in Queues |-> s]]
    BY Zenon, <2>1, <2>a DEF ResetDevice
  <2>c. dev = [d EXCEPT !.queue[RX].manual_recv = TRUE]
    BY Zenon, <2>a
  <2>d. d.queue = [q \in Queues |-> s] /\ d.queue[RX] = s
    BY Zenon, Basics, <2>b
  <2>5. dev = [d EXCEPT !.queue = [d.queue EXCEPT ![RX] = r]]
    BY Zenon, <2>3, <2>c, <2>d
  <2>6. PICK f : f = [d.queue EXCEPT ![RX] = r]
    BY Zenon
  <2>7. f \in [Queues -> QueueRegs] /\ f[RX] = r /\ f[TX] = s
    BY Zenon, Basics, <2>2, <2>4, <2>d, <2>6
  <2>8. dev = [status |-> 0, queue_sel |-> 0, device_features_sel |-> 0,
               int_status |-> 0, queue |-> f]
    BY Zenon, <2>b, <2>5, <2>6
  <2>9. dev \in Devices /\ dev.queue = f
    <3> HIDE DEF Init
    <3>1. 0 \in Queues
      BY Zenon, Basics DEF RX
    <3> QED BY Zenon, Basics, <2>7, <2>8, <3>1 DEF Devices
  <2> QED BY Zenon, Basics, <2>2, <2>4, <2>7, <2>9 DEF LastAvail
<1>2. TypeInv
  <2>1. RingType
    BY Zenon, Basics DEF RingType, PerQueue, EmptyAvail, EmptyUsed, Payloads
  <2>2. ThreadType
    BY Zenon, Basics DEF ThreadType, Payloads
  <2> QED BY SMTT(30), SMTT(60), <1>1, <1>q, <2>1, <2>2 DEF TypeInv, DevType
<1>3. LockInv
  BY Zenon DEF LockInv
<1>4. RegsInv
  BY SMTT(30), SMTT(60), Basics, <1>1, <1>q DEF RegsInv, Before, After, LowHalfOnly
<1>5. FallowInv
  BY Zenon, <1>1 DEF FallowInv, AtRest, PerQueue, EmptyAvail, EmptyUsed
<1>6. OwnerInv
  <2>1. ASSUME NEW q \in Queues PROVE QueueOwners(q) /\ skipped[q] = {}
    <3>1. Taken(q) = 0
      BY Zenon, <1>1 DEF Taken
    <3>2. /\ avail[q].idx = 0 /\ used[q].idx = 0 /\ lastUsed[q] = 0
          /\ freeHeads[q] = Heads /\ skipped[q] = {}
          /\ avail[q].ring \in [Heads -> Heads] /\ used[q].ring \in [Heads -> Heads]
      BY Zenon, Basics DEF PerQueue, EmptyAvail, EmptyUsed
    <3> QED BY Zenon, <3>1, <3>2, NoneOut DEF QueueOwners
  <2> QED BY Zenon, Basics, <2>1 DEF OwnerInv
<1>7. TgtInv /\ RoomStaysRoom /\ OnlyUnreadyStrays
  BY Zenon DEF TgtInv, RoomStaysRoom, OnlyUnreadyStrays
<1> QED BY Zenon, <1>2, <1>3, <1>4, <1>5, <1>6, <1>7 DEF NetInv

(* NetInv is inductive. *)
LEMMA NetStep ==
  ASSUME NetInv, [Next]_vars
  PROVE  NetInv'
<1>1. /\ Core /\ OwnerInv /\ TgtInv /\ RoomStaysRoom /\ OnlyUnreadyStrays
      /\ TypeInv /\ RegsInv
  BY Zenon DEF NetInv, Core
<1>2. RingType' /\ ThreadType' /\ LockInv' /\ FallowInv'
  BY Zenon, <1>1, RingTypeStep, ThreadTypeStep, LockStep, FallowStep
<1>3. DevType' /\ RegsInv'
  BY Zenon, <1>1, RegsStep
<1>4. OwnerInv' /\ TgtInv'
  BY Zenon, <1>1, OwnerStep, TgtStep
<1>5. RoomStaysRoom'
  BY Zenon, <1>1, <1>2, RoomStep
<1>6. OnlyUnreadyStrays'
  BY Zenon, <1>1, StrayStep
<1> QED BY Zenon, <1>2, <1>3, <1>4, <1>5, <1>6 DEF NetInv, TypeInv

(* The registers, the rings, the two threads and the lock stay consistent  *)
(* through any number of setups and resets.                                *)
THEOREM NetInvariant == Spec => []NetInv
BY InitNet, NetStep, PTL DEF Spec

(* The entries between two indices as a sequence: entry i of Between is    *)
(* entry i - 1 after the first index.                                      *)
LEMMA BetweenIs ==
  ASSUME NEW ring, NEW a \in Idx, NEW b \in Idx
  PROVE  /\ Gap(a, b, IdxMod) \in Nat /\ DOMAIN Between(ring, a, b) = 1..Gap(a, b, IdxMod)
         /\ \A i \in 1..Gap(a, b, IdxMod) :
              Between(ring, a, b)[i] = Entry(ring, Num, a, i - 1)
<1>1. Gap(a, b, IdxMod) \in Nat
  <2>1. Gap(a, b, IdxMod) \in 0..(IdxMod - 1) /\ IdxMod \in Nat
    BY Zenon, NetAssumption, GapIs DEF Idx
  <2> QED BY <2>1
<1>2. Between(ring, a, b)
        = [i \in 1..Gap(a, b, IdxMod) |-> ring[(a + i - 1) % Num]]
  BY Zenon DEF Between, Gap
<1>3. \A i \in 1..Gap(a, b, IdxMod) : a + i - 1 = a + (i - 1)
  BY Zenon, <1>1, Basics
<1> QED BY Zenon, <1>1, <1>2, <1>3 DEF Entry

(* A head has one spot in a ring that holds it, and none in another. *)
LEMMA SpotsIn ==
  ASSUME NEW ring, NEW a, NEW b, RingOK(ring, Num, IdxMod, a, b), NEW h
  PROVE  IF Holds(ring, Num, IdxMod, a, b, h)
           THEN \E x : Spots(Between(ring, a, b), h) = {x}
           ELSE Spots(Between(ring, a, b), h) = {}
<1> DEFINE g == Gap(a, b, IdxMod)
           S == Spots(Between(ring, a, b), h)
<1>1. a \in Idx /\ b \in Idx
  BY Zenon DEF RingOK, Idx
<1>2. g \in Nat /\ S = {i \in 1..g : Entry(ring, Num, a, i - 1) = h}
  BY Zenon, <1>1, BetweenIs DEF Spots
<1>3. \A j \in 1..g : j - 1 \in 0..(g - 1) /\ (j - 1) + 1 = j
  BY <1>2
<1>4. CASE Holds(ring, Num, IdxMod, a, b, h)
  <2>1. PICK i \in 0..(g - 1) : Entry(ring, Num, a, i) = h
    BY Zenon, <1>4 DEF Holds
  <2>2. \A j \in 0..(g - 1) : Entry(ring, Num, a, j) = h => j = i
    BY Zenon, <2>1 DEF RingOK
  <2>3. i + 1 \in 1..g /\ (i + 1) - 1 = i
    BY <1>2, <2>1
  <2> HIDE DEF g
  <2>4. {j \in 1..g : Entry(ring, Num, a, j - 1) = h} = {i + 1}
    BY Zenon, <1>3, <2>1, <2>2, <2>3
  <2> QED BY Zenon, <1>2, <1>4, <2>4
<1>5. CASE ~Holds(ring, Num, IdxMod, a, b, h)
  <2>1. S = {}
    BY Zenon, <1>2, <1>3, <1>5 DEF Holds
  <2> QED BY Zenon, <1>5, <2>1
<1> QED BY Zenon, <1>4, <1>5

(* Every buffer of either queue has exactly one place. *)
LEMMA OwnersOne ==
  ASSUME OwnerInv
  PROVE  OneOwner
<1>1. ASSUME NEW q \in Queues, NEW h \in Heads
      PROVE  \E p \in Places(q, h) : Places(q, h) = {p}
  <2>1. QueueOwners(q)
    BY Zenon DEF OwnerInv
  <2> DEFINE W == Holds(avail[q].ring, Num, IdxMod, Taken(q), avail[q].idx, h)
             R == Holds(used[q].ring, Num, IdxMod, lastUsed[q], used[q].idx, h)
             FS == {h} \cap freeHeads[q]
             WS == Spots(Waiting(q), h)
             RS == Spots(Returned(q), h)
             SS == {h} \cap skipped[q]
  <2>2. IF W THEN \E x : WS = {x} ELSE WS = {}
    BY Zenon, <2>1, SpotsIn DEF QueueOwners, Owners, Waiting
  <2>3. IF R THEN \E x : RS = {x} ELSE RS = {}
    BY Zenon, <2>1, SpotsIn DEF QueueOwners, Owners, Returned
  <2>4. /\ h \in freeHeads[q] => ~W /\ ~R /\ h \notin skipped[q]
        /\ W => ~R /\ h \notin skipped[q]
        /\ R => h \notin skipped[q]
        /\ h \in freeHeads[q] \/ W \/ R \/ h \in skipped[q]
    BY Zenon, <2>1 DEF QueueOwners, Owners
  <2>5. /\ IF h \in freeHeads[q] THEN FS = {h} ELSE FS = {}
        /\ IF h \in skipped[q] THEN SS = {h} ELSE SS = {}
    BY Zenon
  <2>6. \/ \E x : FS = {x} /\ WS = {} /\ RS = {} /\ SS = {}
        \/ \E x : FS = {} /\ WS = {x} /\ RS = {} /\ SS = {}
        \/ \E x : FS = {} /\ WS = {} /\ RS = {x} /\ SS = {}
        \/ \E x : FS = {} /\ WS = {} /\ RS = {} /\ SS = {x}
    <3> HIDE DEF W, R, FS, WS, RS, SS
    <3> QED BY Zenon, <2>2, <2>3, <2>4, <2>5
  <2>7. Places(q, h) = {<<"driver", x>> : x \in FS} \cup {<<"avail", x>> : x \in WS}
                       \cup {<<"used", x>> : x \in RS} \cup {<<"skipped", x>> : x \in SS}
    BY Zenon DEF Places
  <2> HIDE DEF FS, WS, RS, SS
  <2>8. \E p : Places(q, h) = {p}
    <3>1. ASSUME NEW x, FS = {x}, WS = {}, RS = {}, SS = {} PROVE Places(q, h) = {<<"driver", x>>}
      BY Zenon, <2>7, <3>1
    <3>2. ASSUME NEW x, FS = {}, WS = {x}, RS = {}, SS = {} PROVE Places(q, h) = {<<"avail", x>>}
      BY Zenon, <2>7, <3>2
    <3>3. ASSUME NEW x, FS = {}, WS = {}, RS = {x}, SS = {} PROVE Places(q, h) = {<<"used", x>>}
      BY Zenon, <2>7, <3>3
    <3>4. ASSUME NEW x, FS = {}, WS = {}, RS = {}, SS = {x} PROVE Places(q, h) = {<<"skipped", x>>}
      BY Zenon, <2>7, <3>4
    <3> QED BY Zenon, <2>6, <3>1, <3>2, <3>3, <3>4
  <2> QED BY Zenon, <2>8
<1> QED BY Zenon, <1>1 DEF OneOwner, OwnerInv

(* OneOwner: every head of either queue is always in exactly one place:    *)
(* the driver, the two device threads and a reset with buffers outstanding *)
(* neither duplicate nor lose one.                                         *)
THEOREM BuffersOwned == Spec => []OneOwner
<1>1. NetInv => OneOwner
  BY Zenon, OwnersOne DEF NetInv
<1> QED BY <1>1, NetInvariant, PTL

(* RoomStaysRoom: virtio_net_write_packet finds the buffer that            *)
(* virtio_net_can_write_packet saw, although the lock is released between  *)
(* them, unless the device was reset.                                      *)
THEOREM RoomKept == Spec => []RoomStaysRoom
<1>1. NetInv => RoomStaysRoom
  BY Zenon DEF NetInv
<1> QED BY <1>1, NetInvariant, PTL

(* OnlyUnreadyStrays: the device walks a ring that is not there only in    *)
(* queue_notify, on a transmit queue that is not ready, while its address  *)
(* is unset or, for rings above 4 GB, half written.                        *)
THEOREM StraysAreUnready == Spec => []OnlyUnreadyStrays
<1>1. NetInv => OnlyUnreadyStrays
  BY Zenon DEF NetInv
<1> QED BY <1>1, NetInvariant, PTL

(* SetupSucceeds: after every reset the driver reads what it must read to  *)
(* go on, so virtio_reset leaves nothing behind that would stop it.        *)
THEOREM SetupNeverFails == Spec => []SetupSucceeds
<1>1. NetInv => SetupSucceeds
  BY Zenon DEF NetInv, RegsInv, SetupSucceeds, Failed
<1> QED BY <1>1, NetInvariant, PTL

-----------------------------------------------------------------------------
(* VirtioNet implements LossyLink in each direction.  The packets on the    *)
(* link are those in the buffers of a ring, from the index its reader has   *)
(* come to up to the index its writer has published (Loaded), and for       *)
(* reception the one the receiver has read from the TAP.  Offering a buffer *)
(* adds its packet at the end, taking one removes the first; that the       *)
(* buffers in between keep their packets although other buffers are written *)
(* is NetInv again: a head is in one place at a time.                       *)

(* Sequences: a function on 1..n is one, of length n; *)
LEMMA SeqOf ==
  ASSUME NEW S, NEW n \in Nat, NEW s \in [1..n -> S]
  PROVE  s \in Seq(S) /\ Len(s) = n
OBVIOUS

(* two of them with the same entries are the same; *)
LEMMA SeqSame ==
  ASSUME NEW S, NEW s \in Seq(S), NEW t \in Seq(S), Len(s) = Len(t),
         \A i \in 1..Len(s) : s[i] = t[i]
  PROVE  s = t
OBVIOUS

(* an entry added at the end *)
LEMMA SeqAppend ==
  ASSUME NEW S, NEW s \in Seq(S), NEW x \in S
  PROVE  /\ Append(s, x) # <<>>
         /\ Append(s, x) \in Seq(S) /\ Len(Append(s, x)) = Len(s) + 1
         /\ \A i \in 1..Len(s) : Append(s, x)[i] = s[i]
         /\ Append(s, x)[Len(s) + 1] = x
OBVIOUS

(* is joined to it, *)
LEMMA SeqJoin ==
  ASSUME NEW S, NEW s \in Seq(S), NEW x
  PROVE  Append(s, x) = s \o <<x>>
OBVIOUS

(* or taken from the front; *)
LEMMA SeqTail ==
  ASSUME NEW S, NEW s \in Seq(S), s # <<>>
  PROVE  /\ Tail(s) \in Seq(S) /\ Len(Tail(s)) = Len(s) - 1
         /\ \A i \in 1..Len(Tail(s)) : Tail(s)[i] = s[i + 1]
OBVIOUS

(* both at once; *)
LEMMA SeqShift ==
  ASSUME NEW S, NEW s \in Seq(S), s # <<>>, NEW x
  PROVE  Head(Append(s, x)) = Head(s) /\ Tail(Append(s, x)) = Append(Tail(s), x)
OBVIOUS

(* and the empty one is no part of another. *)
LEMMA SeqNone ==
  ASSUME NEW S, NEW s \in Seq(S)
  PROVE  <<>> \in Seq(S) /\ s \o <<>> = s /\ <<>> \o s = s
OBVIOUS

-----------------------------------------------------------------------------
(* The packets in the buffers of a ring, in ring order. *)

Loaded(b, ring, a, c) ==
  [i \in 1..Gap(a, c, IdxMod) |-> b[Entry(ring, Num, a, i - 1)]]

(* The contents of the heads between two indices: *)
LEMMA ContentsIs ==
  ASSUME NEW b, NEW ring, NEW a \in Idx, NEW c \in Idx
  PROVE  [i \in DOMAIN Between(ring, a, c) |-> b[Between(ring, a, c)[i]]]
           = Loaded(b, ring, a, c)
BY Zenon, BetweenIs DEF Loaded

(* one packet for each entry, *)
LEMMA LoadedIs ==
  ASSUME NEW b \in [Heads -> Payloads], NEW ring, NEW a, NEW c,
         RingOK(ring, Num, IdxMod, a, c)
  PROVE  /\ Loaded(b, ring, a, c) \in Seq(Payloads)
         /\ Len(Loaded(b, ring, a, c)) = Gap(a, c, IdxMod)
         /\ Gap(a, c, IdxMod) \in Nat
         /\ \A i \in 1..Gap(a, c, IdxMod) :
              /\ Loaded(b, ring, a, c)[i] = b[Entry(ring, Num, a, i - 1)]
              /\ Holds(ring, Num, IdxMod, a, c, Entry(ring, Num, a, i - 1))
              /\ Entry(ring, Num, a, i - 1) \in Heads
<1> DEFINE g == Gap(a, c, IdxMod)
           s == Loaded(b, ring, a, c)
<1>1. a \in Idx /\ c \in Idx /\ ring \in [Heads -> Heads]
  BY Zenon DEF RingOK, Idx, Heads
<1>2. g \in Nat
  BY Zenon, <1>1, BetweenIs
<1>3. ASSUME NEW i \in 1..g
      PROVE  /\ Holds(ring, Num, IdxMod, a, c, Entry(ring, Num, a, i - 1))
             /\ Entry(ring, Num, a, i - 1) \in Heads
  <2>1. i - 1 \in 0..(g - 1)
    BY <1>2
  <2>2. PICK k \in Heads : k = (a + (i - 1)) % Num
    <3>1. a + (i - 1) \in Int
      BY <1>1, <1>2, Basics
    <3> QED BY Zenon, <3>1, Basics
  <2> QED BY Zenon, <1>1, <2>1, <2>2 DEF Holds, Entry
<1>4. s \in [1..g -> Payloads] /\ \A i \in 1..g : s[i] = b[Entry(ring, Num, a, i - 1)]
  BY Zenon, <1>3 DEF Loaded
<1> HIDE DEF g, s
<1>5. s \in Seq(Payloads) /\ Len(s) = g
  BY Zenon, <1>2, <1>4, SeqOf
<1> QED BY Zenon, <1>2, <1>3, <1>4, <1>5 DEF g, s

(* none when the indices meet, *)
LEMMA LoadedNone ==
  ASSUME NEW b, NEW ring
  PROVE  Loaded(b, ring, 0, 0) = <<>>
<1>1. Gap(0, 0, IdxMod) = 0
  BY NetAssumption, GapIs
<1>2. 1..0 = {}
  OBVIOUS
<1> QED BY <1>1, <1>2 DEF Loaded

(* The buffers of the ring keep their packets, whatever becomes of others; *)
Keeps(b, b2, ring, a, c) ==
  /\ b \in [Heads -> Payloads] /\ b2 \in [Heads -> Payloads]
  /\ RingOK(ring, Num, IdxMod, a, c)
  /\ \A x \in Heads : Holds(ring, Num, IdxMod, a, c, x) => b2[x] = b[x]

(* then so does the ring. *)
LEMMA LoadedKept ==
  ASSUME NEW b, NEW b2, NEW ring, NEW a, NEW c, Keeps(b, b2, ring, a, c)
  PROVE  Loaded(b2, ring, a, c) = Loaded(b, ring, a, c)
<1>1. \A i \in 1..Gap(a, c, IdxMod) :
        b2[Entry(ring, Num, a, i - 1)] = b[Entry(ring, Num, a, i - 1)]
  BY Zenon, LoadedIs DEF Keeps
<1> QED BY Zenon, <1>1 DEF Loaded

(* The buffer h is put into the ring; the buffers already in it stay. *)
Puts(b, b2, ring, r2, a, c, h) ==
  /\ b \in [Heads -> Payloads] /\ b2 \in [Heads -> Payloads]
  /\ RingOK(ring, Num, IdxMod, a, c)
  /\ h \in Heads /\ ~Holds(ring, Num, IdxMod, a, c, h)
  /\ r2 = [ring EXCEPT ![c % Num] = h]
  /\ \A x \in Heads : x # h => b2[x] = b[x]

(* Then the payload of h comes after what the ring already holds. *)
LEMMA LoadedPush ==
  ASSUME NEW b, NEW b2, NEW ring, NEW r2, NEW a, NEW c, NEW h,
         Puts(b, b2, ring, r2, a, c, h)
  PROVE  Loaded(b2, r2, a, Inc(c)) = Append(Loaded(b, ring, a, c), b2[h])
<1> DEFINE g == Gap(a, c, IdxMod)
           c2 == Inc(c)
           s == Loaded(b, ring, a, c)
           t == Loaded(b2, r2, a, c2)
<1>p. /\ b \in [Heads -> Payloads] /\ b2 \in [Heads -> Payloads]
      /\ RingOK(ring, Num, IdxMod, a, c)
      /\ h \in Heads /\ ~Holds(ring, Num, IdxMod, a, c, h)
      /\ r2 = [ring EXCEPT ![c % Num] = h]
      /\ \A x \in Heads : x # h => b2[x] = b[x]
  BY Zenon DEF Puts
<1>0. /\ Sizes(Num, IdxMod) /\ h \in 0..(Num - 1)
      /\ RingOK(ring, Num, IdxMod, a, c) /\ ~Holds(ring, Num, IdxMod, a, c, h)
  BY Zenon, <1>p, Basics DEF Heads
<1>1. RingOK(r2, Num, IdxMod, a, c2)
  BY Zenon, <1>0, <1>p, Push DEF Inc
<1>2. Gap(a, c2, IdxMod) = g + 1
  BY Zenon, <1>0, <1>p, Push DEF Inc
<1>3. /\ Entry(r2, Num, a, g) = h
      /\ \A i \in 0..(g - 1) : Entry(r2, Num, a, i) = Entry(ring, Num, a, i)
  <2>1. Entry([ring EXCEPT ![c % Num] = h], Num, a, g) = h
    BY <1>0, Pushed
  <2>2. ASSUME NEW i \in 0..(g - 1)
        PROVE  Entry([ring EXCEPT ![c % Num] = h], Num, a, i) = Entry(ring, Num, a, i)
    BY <1>0, Pushed
  <2>3. r2 = [ring EXCEPT ![c % Num] = h]
    BY Zenon, <1>p
  <2> QED BY Zenon, <2>1, <2>2, <2>3
<1> HIDE DEF c2
<1>5. /\ t \in Seq(Payloads) /\ Len(t) = g + 1
      /\ \A i \in 1..(g + 1) : t[i] = b2[Entry(r2, Num, a, i - 1)]
  <2>1. b2 \in [Heads -> Payloads]
    BY Zenon, <1>p
  <2> QED BY <1>1, <1>2, <2>1, LoadedIs
<1>6. /\ s \in Seq(Payloads) /\ Len(s) = g /\ g \in Nat
      /\ \A i \in 1..g : /\ s[i] = b[Entry(ring, Num, a, i - 1)]
                         /\ Holds(ring, Num, IdxMod, a, c, Entry(ring, Num, a, i - 1))
                         /\ Entry(ring, Num, a, i - 1) \in Heads
  BY <1>p, LoadedIs
<1>7. /\ Append(s, b2[h]) \in Seq(Payloads) /\ Len(Append(s, b2[h])) = g + 1
      /\ \A i \in 1..g : Append(s, b2[h])[i] = s[i]
      /\ Append(s, b2[h])[g + 1] = b2[h]
  <2> HIDE DEF g, s, t
  <2>1. b2[h] \in Payloads
    BY Zenon, <1>p
  <2> QED BY SMTT(30), SMTT(60), <1>6, <2>1, SeqAppend
<1> HIDE DEF g, s, t
<1>8. ASSUME NEW i \in 1..(g + 1)
      PROVE  t[i] = Append(s, b2[h])[i]
  <2>1. CASE i = g + 1
    <3>1. i - 1 = g
      BY <1>6, <2>1
    <3> QED BY ZenonT(30), <1>3, <1>5, <1>7, <2>1, <3>1
  <2>2. CASE i # g + 1
    <3>1. i \in 1..g /\ i - 1 \in 0..(g - 1)
      BY <1>6, <2>2
    <3>2. b2[Entry(ring, Num, a, i - 1)] = b[Entry(ring, Num, a, i - 1)]
      BY Zenon, <1>6, <1>p, <3>1
    <3> QED BY ZenonT(30), <1>3, <1>5, <1>6, <1>7, <3>1, <3>2
  <2> QED BY Zenon, <2>1, <2>2
<1>9. t = Append(s, b2[h])
  BY Zenon, <1>5, <1>7, <1>8, SeqSame
<1> QED BY Zenon, <1>9 DEF s, t, c2

(* The first buffer of the ring is taken out; the others stay. *)
TakesOut(b, b2, ring, a, c) ==
  /\ b \in [Heads -> Payloads] /\ b2 \in [Heads -> Payloads]
  /\ RingOK(ring, Num, IdxMod, a, c) /\ a # c
  /\ \A x \in Heads : x # ring[a % Num] => b2[x] = b[x]

(* Then the payload taken is the first, and the rest stay in order. *)
LEMMA LoadedPop ==
  ASSUME NEW b, NEW b2, NEW ring, NEW a, NEW c, TakesOut(b, b2, ring, a, c)
  PROVE  /\ Loaded(b, ring, a, c) # <<>>
         /\ Head(Loaded(b, ring, a, c)) = b[ring[a % Num]]
         /\ Tail(Loaded(b, ring, a, c)) = Loaded(b2, ring, Inc(a), c)
<1> DEFINE g == Gap(a, c, IdxMod)
           a2 == Inc(a)
           h == ring[a % Num]
           s == Loaded(b, ring, a, c)
           t == Loaded(b2, ring, a2, c)
<1>p. /\ b \in [Heads -> Payloads] /\ b2 \in [Heads -> Payloads]
      /\ RingOK(ring, Num, IdxMod, a, c) /\ a # c
      /\ \A x \in Heads : x # h => b2[x] = b[x]
  BY Zenon DEF TakesOut
<1>0. Sizes(Num, IdxMod)
  BY Zenon, Basics
<1>1. RingOK(ring, Num, IdxMod, a2, c)
  BY Zenon, <1>0, <1>p, Pop DEF Inc
<1>2. /\ g \in 1..(IdxMod - 1) /\ Gap(a2, c, IdxMod) = g - 1
      /\ \A i \in Int : Entry(ring, Num, a2, i) = Entry(ring, Num, a, i + 1)
      /\ Entry(ring, Num, a, 0) = h
  BY <1>0, <1>p, Popped DEF Inc
<1>3. \A i \in Int : Entry(ring, Num, a2, i) = Entry(ring, Num, a, i + 1)
  BY Zenon, <1>2
<1>4. Entry(ring, Num, a, 0) = h
  BY Zenon, <1>2
<1> HIDE DEF a2, h
<1>5. /\ t \in Seq(Payloads) /\ Len(t) = g - 1
      /\ \A i \in 1..(g - 1) : /\ t[i] = b2[Entry(ring, Num, a2, i - 1)]
                               /\ Entry(ring, Num, a2, i - 1) \in Heads
  <2>1. /\ t \in Seq(Payloads) /\ Len(t) = Gap(a2, c, IdxMod)
        /\ \A i \in 1..Gap(a2, c, IdxMod) : /\ t[i] = b2[Entry(ring, Num, a2, i - 1)]
                                            /\ Entry(ring, Num, a2, i - 1) \in Heads
    BY <1>1, <1>p, LoadedIs
  <2> QED BY Zenon, <1>2, <2>1
<1>6. /\ s \in Seq(Payloads) /\ Len(s) = g /\ g \in Nat
      /\ \A i \in 1..g : s[i] = b[Entry(ring, Num, a, i - 1)]
  BY <1>p, LoadedIs
<1>7. \A i \in 1..(g - 1) : Entry(ring, Num, a, i) # h
  <2> TAKE i \in 1..(g - 1)
  <2>1. i \in 0..(g - 1) /\ 0 \in 0..(g - 1) /\ i # 0
    BY <1>6
  <2> QED BY Zenon, <1>4, <1>p, <2>1 DEF RingOK
<1> HIDE DEF g, s, t
<1>8. s # <<>> /\ Head(s) = b[h]
  <2>1. 1 \in 1..g /\ 1 - 1 = 0
    BY <1>2, <1>6
  <2>2. s # <<>>
    BY <1>6, <2>1
  <2>3. Head(s) = s[1]
    BY <1>6, <2>2
  <2> QED BY Zenon, <1>4, <1>6, <2>1, <2>2, <2>3
<1>9. /\ Tail(s) \in Seq(Payloads) /\ Len(Tail(s)) = g - 1
      /\ \A i \in 1..(g - 1) : Tail(s)[i] = s[i + 1]
  BY ZenonT(30), <1>6, <1>8, SeqTail
<1>10. ASSUME NEW i \in 1..(g - 1)
       PROVE  Tail(s)[i] = t[i]
  <2>1. i + 1 \in 1..g /\ (i + 1) - 1 = i /\ i - 1 \in Int /\ (i - 1) + 1 = i
    BY <1>6
  <2>2. s[i + 1] = b[Entry(ring, Num, a, i)]
    BY Zenon, <1>6, <2>1
  <2>3. Entry(ring, Num, a2, i - 1) = Entry(ring, Num, a, i)
    BY Zenon, <1>3, <2>1
  <2> QED BY Zenon, <1>5, <1>7, <1>9, <1>p, <2>2, <2>3 DEF h
<1>11. Tail(s) = t
  BY Zenon, <1>5, <1>9, <1>10, SeqSame
<1> QED BY Zenon, <1>8, <1>11 DEF s, t, a2, h

-----------------------------------------------------------------------------
(* What a lossy link may lose. *)

Loses(s, t) ==
  \E i \in 1..Len(s) : \E j \in i..Len(s) :
    t = SubSeq(s, 1, i - 1) \o SubSeq(s, j + 1, Len(s))

(* All that is on its way up to some point, *)
LEMMA LosePrefix ==
  ASSUME NEW S, NEW c \in Seq(S), NEW d \in Seq(S), c # <<>>
  PROVE  Loses(c \o d, d)
<1> DEFINE t == c \o d
<1>1. d = SubSeq(t, 1, 1 - 1) \o SubSeq(t, Len(c) + 1, Len(t))
  OBVIOUS
<1>2. 1 \in 1..Len(t) /\ Len(c) \in 1..Len(t)
  OBVIOUS
<1> QED BY Zenon, <1>1, <1>2 DEF Loses

(* the oldest packet, *)
LEMMA LoseFirst ==
  ASSUME NEW S, NEW t \in Seq(S), t # <<>>
  PROVE  Loses(t, Tail(t))
<1>1. Tail(t) = SubSeq(t, 1, 1 - 1) \o SubSeq(t, 1 + 1, Len(t))
  OBVIOUS
<1>2. 1 \in 1..Len(t)
  OBVIOUS
<1> QED BY Zenon, <1>1, <1>2 DEF Loses

(* or the newest. *)
LEMMA LoseLast ==
  ASSUME NEW S, NEW s \in Seq(S), NEW e \in S
  PROVE  Loses(Append(s, e), s)
<1> DEFINE t == Append(s, e)
           n == Len(s) + 1
<1>1. s = SubSeq(t, 1, n - 1) \o SubSeq(t, n + 1, Len(t))
  OBVIOUS
<1>2. n \in 1..Len(t) /\ n \in n..Len(t)
  OBVIOUS
<1> QED BY Zenon, <1>1, <1>2 DEF Loses

-----------------------------------------------------------------------------
(* Reception. *)

RxHeld == Loaded(buf[RX], used[RX].ring, lastUsed[RX], used[RX].idx)
InFlight == IF rpc \in {"check", "write"} THEN <<rpkt>> ELSE <<>>
RxTransit == Contents(RX, Returned(RX)) \o InFlight

(* What is on the link, in terms of Loaded, before a step *)
LEMMA RxOnLink ==
  ASSUME TypeInv, OwnerInv
  PROVE  /\ RxTransit = RxHeld \o InFlight
         /\ RxHeld \in Seq(Payloads) /\ InFlight \in Seq(Payloads)
         /\ buf[RX] \in [Heads -> Payloads]
         /\ RingOK(used[RX].ring, Num, IdxMod, lastUsed[RX], used[RX].idx)
<1>1. /\ buf[RX] \in [Heads -> Payloads] /\ lastUsed[RX] \in Idx /\ used[RX].idx \in Idx
  BY Zenon, Basics DEF TypeInv, RingType
<1>2. RingOK(used[RX].ring, Num, IdxMod, lastUsed[RX], used[RX].idx)
  BY Basics, Zenon DEF OwnerInv, QueueOwners, Owners
<1>3. RxHeld \in Seq(Payloads)
  BY Zenon, <1>1, <1>2, LoadedIs DEF RxHeld
<1>4. RxTransit = RxHeld \o InFlight
  BY Zenon, <1>1, ContentsIs DEF RxTransit, RxHeld, Returned, Contents
<1>5. InFlight \in Seq(Payloads)
  BY DEF InFlight, TypeInv, ThreadType
<1> QED BY Zenon, <1>1, <1>2, <1>3, <1>4, <1>5

(* and after it. *)
LEMMA RxOnLinkNext ==
  ASSUME TypeInv', OwnerInv'
  PROVE  /\ RxTransit' = RxHeld' \o InFlight'
         /\ RxHeld' \in Seq(Payloads)
         /\ buf'[RX] \in [Heads -> Payloads]
<1>1. /\ buf'[RX] \in [Heads -> Payloads] /\ lastUsed'[RX] \in Idx /\ used'[RX].idx \in Idx
  BY Zenon, Basics DEF TypeInv, RingType
<1>2. RingOK(used'[RX].ring, Num, IdxMod, lastUsed'[RX], used'[RX].idx)
  BY Basics, Zenon DEF OwnerInv, QueueOwners, Owners
<1>3. RxHeld' \in Seq(Payloads)
  BY Zenon, <1>1, <1>2, LoadedIs DEF RxHeld
<1>4. RxTransit' = RxHeld' \o InFlight'
  BY Zenon, <1>1, ContentsIs DEF RxTransit, RxHeld, Returned, Contents
<1> QED BY Zenon, <1>1, <1>3, <1>4

(* What happens to the packets in the used ring of the receive queue: they *)
(* stay as they are, *)
LEMMA RxHeldStays ==
  ASSUME NetInv, NetInv', [Next]_vars,
         ~(SetupStep /\ at = 1), ~Drain(RX), ~RxWrite
  PROVE  RxHeld' = RxHeld
<1>t. RingType /\ TypeInv /\ RegsInv
  BY Zenon DEF NetInv, TypeInv
<1>0. ASSUME used'[RX] = used[RX], buf'[RX] = buf[RX], lastUsed'[RX] = lastUsed[RX]
      PROVE  RxHeld' = RxHeld
  BY Zenon, <1>0 DEF RxHeld
<1>1. CASE SetupStep
  <2>1. UNCHANGED <<ringVars, lastUsed>>
    BY Zenon, <1>1, <1>t, SetupGoesOn
  <2> QED BY Zenon, <1>0, <2>1 DEF ringVars
<1>2. CASE Unbind \/ IsrRead \/ IsrServe \/ UNCHANGED vars
  BY Zenon, <1>0, <1>2 DEF Unbind, IsrRead, IsrServe, vars, ringVars, driverVars
<1>3. CASE PostRx
  <2>1. PICK h \in freeHeads[RX] : buf' = [buf EXCEPT ![RX][h] = Blank]
    BY Zenon, <1>3 DEF PostRx, Post
  <2>2. used' = used /\ lastUsed' = lastUsed
    BY Zenon, <1>3 DEF PostRx, Post
  <2>3. h \in Heads /\ ~Holds(used[RX].ring, Num, IdxMod, lastUsed[RX], used[RX].idx, h)
    BY Basics, Zenon DEF NetInv, OwnerInv, QueueOwners, Owners
  <2>4. /\ buf[RX] \in [Heads -> Payloads] /\ buf'[RX] \in [Heads -> Payloads]
        /\ RingOK(used[RX].ring, Num, IdxMod, lastUsed[RX], used[RX].idx)
    BY Zenon, RxOnLink, RxOnLinkNext DEF NetInv
  <2>5. buf'[RX] = [buf[RX] EXCEPT ![h] = Blank]
    BY Zenon, Basics, <1>t, <2>1 DEF RingType
  <2>6. \A x \in Heads :
          Holds(used[RX].ring, Num, IdxMod, lastUsed[RX], used[RX].idx, x)
            => buf'[RX][x] = buf[RX][x]
    <3>1. \A x \in Heads : x # h => buf'[RX][x] = buf[RX][x]
      BY Zenon, <2>4, <2>5
    <3> QED BY Zenon, <2>3, <3>1
  <2>7. Loaded(buf'[RX], used[RX].ring, lastUsed[RX], used[RX].idx)
          = Loaded(buf[RX], used[RX].ring, lastUsed[RX], used[RX].idx)
    <3> DEFINE b == buf[RX]
               b2 == buf'[RX]
               r == used[RX].ring
               a == lastUsed[RX]
               c == used[RX].idx
    <3>1. Keeps(b, b2, r, a, c)
      BY Zenon, <2>4, <2>6 DEF Keeps
    <3> HIDE DEF b, b2, r, a, c
    <3>2. Loaded(b2, r, a, c) = Loaded(b, r, a, c)
      BY <3>1, LoadedKept
    <3> QED BY Zenon, <3>2 DEF b, b2, r, a, c
  <2> QED BY Zenon, <2>2, <2>7 DEF RxHeld
<1>4. ASSUME NEW p \in TxPackets, PostTx(p) PROVE RxHeld' = RxHeld
  <2>1. PICK h : buf' = [buf EXCEPT ![TX][h] = p]
    BY Zenon, <1>4 DEF PostTx, Post
  <2>2. used' = used /\ lastUsed' = lastUsed
    BY Zenon, <1>4 DEF PostTx, Post
  <2>3. buf'[RX] = buf[RX]
    BY Zenon, Basics, <1>t, <2>1 DEF RingType
  <2> QED BY Zenon, <1>0, <2>2, <2>3
<1>5. CASE Drain(TX)
  <2>1. PICK h : buf' = [buf EXCEPT ![TX][h] = Blank]
    BY Zenon, <1>5 DEF Drain
  <2>2. used' = used /\ lastUsed' = [lastUsed EXCEPT ![TX] = Inc(lastUsed[TX])]
    BY Zenon, <1>5 DEF Drain
  <2>3. buf'[RX] = buf[RX] /\ lastUsed'[RX] = lastUsed[RX]
    BY Zenon, Basics, <1>t, <2>1, <2>2 DEF RingType
  <2> QED BY Zenon, <1>0, <2>2, <2>3
<1>6. CASE \E q \in Queues : EnableCb(q) \/ Recheck(q)
  BY Zenon, <1>0, <1>6, Switches DEF Callbacks
<1>7. CASE (\E q \in Queues : PollWake(q)) \/ PollSample \/ TxFlags \/ TxSkip \/ TxDone
  BY Zenon, <1>0, <1>7 DEF PollWake, PollSample, TxFlags, TxSkip, TxDone,
     guestVars, driverVars
<1>8. CASE TxSend
  <2>1. PICK i, h : used' = [used EXCEPT ![TX].ring[i] = h, ![TX].idx = Inc(used[TX].idx)]
    BY Zenon, <1>8 DEF TxSend, Publish
  <2>2. UNCHANGED <<buf, lastUsed>>
    BY Zenon, <1>8 DEF TxSend, guestVars, driverVars
  <2>3. used'[RX] = used[RX]
    BY Zenon, Basics, <1>t, <2>1 DEF RingType
  <2> QED BY Zenon, <1>0, <2>2, <2>3
<1>9. CASE RxCheck \/ RxDrop \/ RxFlags \/ (\E p \in RxPackets : RxRead(p))
  BY Zenon, <1>0, <1>9 DEF RxCheck, RxDrop, RxFlags, RxRead, guestVars,
     driverVars
<1> QED BY Basics, Zenon, <1>1, <1>2, <1>3, <1>4, <1>5, <1>6, <1>7, <1>8,
           <1>9, Cases

(* a buffer filled by write_packet comes last, *)
LEMMA RxHeldGrows ==
  ASSUME NetInv, NetInv', RxWrite
  PROVE  RxHeld' = Append(RxHeld, rpkt)
<1>t. RingType /\ Core /\ OwnerInv /\ rpkt \in Payloads
  BY Zenon DEF NetInv, Core, TypeInv, ThreadType
<1>1. /\ HasRoom /\ Publish(RX) /\ buf' = [buf EXCEPT ![RX][NextHead(RX)] = rpkt]
      /\ rpc = "write" /\ lastUsed' = lastUsed
  BY Zenon DEF RxWrite, guestVars, driverVars
<1>2. /\ NextHead(RX) = avail[RX].ring[Taken(RX) % Num] /\ NextHead(RX) \in Heads
      /\ Taken(RX) # avail[RX].idx /\ dev.queue[RX].num = Num
  BY ZenonT(30), Basics, <1>1, <1>t, Receiving DEF Taken
<1>3. ~Holds(used[RX].ring, Num, IdxMod, lastUsed[RX], used[RX].idx, NextHead(RX))
  <2>1. Owners(avail[RX].ring, Taken(RX), avail[RX].idx, used[RX].ring, lastUsed[RX],
               used[RX].idx, freeHeads[RX], skipped[RX])
    BY Basics, Zenon, <1>t DEF OwnerInv, QueueOwners
  <2> DEFINE ar == avail[RX].ring
             ai == avail[RX].idx
             ur == used[RX].ring
             lu == lastUsed[RX]
             ui == used[RX].idx
             tk == Taken(RX)
  <2>2. /\ Owners(ar, tk, ai, ur, lu, ui, freeHeads[RX], skipped[RX]) /\ tk # ai
        /\ NextHead(RX) = ar[tk % Num]
    BY Zenon, <1>2, <2>1
  <2> HIDE DEF ar, ai, ur, lu, ui, tk
  <2>3. ~Holds(ur, Num, IdxMod, lu, ui, ar[tk % Num])
    BY Zenon, <2>2, TakeOne
  <2> QED BY Zenon, <2>2, <2>3 DEF ur, lu, ui
<1>4. PICK h \in Heads : h = NextHead(RX)
  BY Zenon, <1>2
<1>5. used' = [used EXCEPT ![RX].ring[used[RX].idx % Num] = h,
                           ![RX].idx = Inc(used[RX].idx)]
  BY Zenon, <1>1, <1>2, <1>4 DEF Publish
<1>6. /\ used'[RX].ring = [used[RX].ring EXCEPT ![used[RX].idx % Num] = h]
      /\ used'[RX].idx = Inc(used[RX].idx)
  BY ZenonT(30), Basics, <1>t, <1>5 DEF RingType
<1>7. /\ buf[RX] \in [Heads -> Payloads] /\ buf'[RX] \in [Heads -> Payloads]
      /\ RingOK(used[RX].ring, Num, IdxMod, lastUsed[RX], used[RX].idx)
  BY Zenon, RxOnLink, RxOnLinkNext DEF NetInv
<1>8. buf'[RX] = [buf[RX] EXCEPT ![h] = rpkt]
  BY Zenon, Basics, <1>t, <1>1, <1>4 DEF RingType
<1>9. buf'[RX][h] = rpkt /\ \A x \in Heads : x # h => buf'[RX][x] = buf[RX][x]
  BY Zenon, <1>7, <1>8
<1>10. RxHeld' = Append(RxHeld, buf'[RX][h])
  <2> DEFINE b == buf[RX]
             b2 == buf'[RX]
             r == used[RX].ring
             a == lastUsed[RX]
             c == used[RX].idx
             r2 == used'[RX].ring
  <2>1. Puts(b, b2, r, r2, a, c, h)
    BY ZenonT(30), <1>3, <1>4, <1>6, <1>7, <1>9 DEF Puts
  <2> HIDE DEF b, b2, r, a, c, r2
  <2>2. Loaded(b2, r2, a, Inc(c)) = Append(Loaded(b, r, a, c), b2[h])
    BY <2>1, LoadedPush
  <2> QED BY Zenon, <1>1, <1>6, <2>2 DEF RxHeld, b, b2, r, a, c, r2
<1> QED BY Zenon, <1>9, <1>10

(* and the guest takes the first. *)
LEMMA RxHeldShrinks ==
  ASSUME NetInv, NetInv', Drain(RX)
  PROVE  /\ RxHeld # <<>> /\ RxHeld' = Tail(RxHeld)
         /\ got' = Append(got, Head(RxHeld))
<1>t. RingType
  BY Zenon DEF NetInv, TypeInv
<1>1. PICK h : /\ h = used[RX].ring[lastUsed[RX] % Num]
               /\ buf' = [buf EXCEPT ![RX][h] = Blank]
               /\ got' = Append(got, buf[RX][h])
  BY Zenon DEF Drain
<1>2. /\ used' = used /\ lastUsed' = [lastUsed EXCEPT ![RX] = Inc(lastUsed[RX])]
      /\ lastUsed[RX] # used[RX].idx
  BY Zenon DEF Drain, Fresh
<1>3. /\ buf[RX] \in [Heads -> Payloads] /\ buf'[RX] \in [Heads -> Payloads]
      /\ RingOK(used[RX].ring, Num, IdxMod, lastUsed[RX], used[RX].idx)
  BY Zenon, RxOnLink, RxOnLinkNext DEF NetInv
<1>4. buf'[RX] = [buf[RX] EXCEPT ![h] = Blank] /\ lastUsed'[RX] = Inc(lastUsed[RX])
  BY Zenon, Basics, <1>t, <1>1, <1>2 DEF RingType
<1>5. \A x \in Heads : x # h => buf'[RX][x] = buf[RX][x]
  BY Zenon, <1>3, <1>4
<1>6. /\ RxHeld # <<>> /\ Head(RxHeld) = buf[RX][h]
      /\ Tail(RxHeld) = Loaded(buf'[RX], used[RX].ring, Inc(lastUsed[RX]), used[RX].idx)
  <2> DEFINE b == buf[RX]
             b2 == buf'[RX]
             r == used[RX].ring
             a == lastUsed[RX]
             c == used[RX].idx
  <2>1. TakesOut(b, b2, r, a, c) /\ h = r[a % Num]
    BY ZenonT(30), <1>1, <1>2, <1>3, <1>5 DEF TakesOut
  <2> HIDE DEF b, b2, r, a, c
  <2>2. /\ Loaded(b, r, a, c) # <<>> /\ Head(Loaded(b, r, a, c)) = b[r[a % Num]]
        /\ Tail(Loaded(b, r, a, c)) = Loaded(b2, r, Inc(a), c)
    BY <2>1, LoadedPop
  <2> QED BY Zenon, <2>1, <2>2 DEF RxHeld, b, b2, r, a, c
<1> QED BY Zenon, <1>1, <1>2, <1>4, <1>6 DEF RxHeld

(* The receiver's own packet, and what was read and received, change only  *)
(* when the receiver or the guest acts.                                    *)
LEMMA RxOwn ==
  ASSUME [Next]_vars
  PROVE  \/ UNCHANGED <<rpc, rpkt, arrived, got>>
         \/ RxFlags \/ RxCheck \/ RxDrop \/ RxWrite
         \/ (\E p \in RxPackets : RxRead(p)) \/ Drain(RX)
<1>1. CASE SetupStep \/ Unbind \/ PostRx \/ (\E p \in TxPackets : PostTx(p))
  BY Zenon, <1>1 DEF SetupStep, Unbind, PostRx, PostTx, Post, rxVars
<1>2. CASE IsrRead \/ IsrServe \/ (\E q \in Queues : EnableCb(q) \/ Recheck(q))
  BY Zenon, <1>2 DEF IsrRead, IsrServe, EnableCb, Recheck, Callbacks, rxVars
<1>3. CASE \E q \in Queues : Drain(q)
  BY Zenon, <1>3, Basics DEF Drain, rxVars
<1>4. CASE \/ (\E q \in Queues : PollWake(q)) \/ PollSample \/ TxSend \/ TxFlags
           \/ TxSkip \/ TxDone
  BY Zenon, <1>4 DEF PollWake, PollSample, TxSend, TxFlags, TxSkip, TxDone,
     guestVars, rxVars
<1>5. CASE UNCHANGED vars
  BY Zenon, <1>5 DEF vars, rxVars
<1> QED BY Zenon, <1>1, <1>2, <1>3, <1>4, <1>5, Cases

(* So every step is one the lossy link allows: a packet read from the TAP  *)
(* is sent, one that finds no room or is dropped is lost, so are those in  *)
(* the used ring at a reset, and the guest's drain delivers.               *)
LEMMA RxLinkStep ==
  ASSUME NetInv, NetInv', [Next]_vars
  PROVE  \/ UNCHANGED <<arrived, RxTransit, got>>
         \/ \E p \in RxPackets : /\ p \notin arrived /\ arrived' = arrived \cup {p}
                                 /\ RxTransit' = Append(RxTransit, p) /\ got' = got
         \/ Loses(RxTransit, RxTransit') /\ UNCHANGED <<arrived, got>>
         \/ /\ RxTransit # <<>> /\ got' = Append(got, Head(RxTransit))
            /\ RxTransit' = Tail(RxTransit) /\ arrived' = arrived
<1> DEFINE s == RxHeld
           s2 == RxHeld'
           f == InFlight
           f2 == InFlight'
           t == RxTransit
           t2 == RxTransit'
<1>1. /\ t = s \o f /\ t2 = s2 \o f2 /\ s \in Seq(Payloads) /\ f \in Seq(Payloads)
      /\ s2 \in Seq(Payloads)
  BY Zenon, RxOnLink, RxOnLinkNext DEF NetInv
<1>2. rpkt \in Payloads
  BY Zenon DEF NetInv, TypeInv, ThreadType
<1>e. /\ s \o <<>> = s /\ s2 \o <<>> = s2 /\ <<>> \o f = f
      /\ \A x \in Payloads : Append(s, x) = s \o <<x>>
  <2>1. \A x \in Payloads : Append(s, x) = s \o <<x>>
    BY Zenon, <1>1, SeqJoin
  <2>2. s \o <<>> = s /\ s2 \o <<>> = s2 /\ <<>> \o f = f
    BY Zenon, <1>1, SeqNone
  <2> QED BY Zenon, <2>1, <2>2
<1> HIDE DEF s, s2, f, f2, t, t2
<1>3. CASE SetupStep /\ at = 1
  <2>1. UNCHANGED <<rpc, rpkt, arrived, got>>
    BY Zenon, <1>3 DEF SetupStep
  <2>2. f2 = f
    BY Zenon, <2>1 DEF f, f2, InFlight
  <2>3. s2 = <<>>
    <3>1. lastUsed'[RX] = 0 /\ used'[RX].idx = 0
      BY Zenon, <1>3, Basics, SetupBegins DEF NetInv
    <3> QED BY Zenon, <3>1, LoadedNone DEF s2, RxHeld
  <2>4. t2 = f
    BY Zenon, <1>1, <1>e, <2>2, <2>3
  <2>5. CASE s = <<>>
    BY Zenon, <1>1, <1>e, <2>1, <2>4, <2>5 DEF t, t2
  <2>6. CASE s # <<>>
    <3>1. Loses(t, t2)
      BY Zenon, <1>1, <2>4, <2>6, LosePrefix
    <3> QED BY Zenon, <2>1, <3>1 DEF t, t2
  <2> QED BY Zenon, <2>5, <2>6
<1>4. ASSUME ~(SetupStep /\ at = 1), ~Drain(RX), ~RxWrite
      PROVE  s2 = s
  BY Zenon, <1>4, RxHeldStays DEF s, s2
<1>5. CASE Drain(RX)
  <2>1. s # <<>> /\ s2 = Tail(s) /\ got' = Append(got, Head(s))
    BY Zenon, <1>5, RxHeldShrinks DEF s, s2
  <2>2. UNCHANGED <<rpc, rpkt, arrived>>
    BY Zenon, <1>5 DEF Drain, rxVars
  <2>3. f2 = f
    BY Zenon, <2>2 DEF f, f2, InFlight
  <2>4. t # <<>> /\ Head(t) = Head(s) /\ Tail(t) = t2
    <3>1. CASE f = <<>>
      BY Zenon, <1>1, <1>e, <2>1, <2>3, <3>1
    <3>2. CASE f # <<>>
      <4>1. f = <<rpkt>>
        BY Zenon, <3>2 DEF f, InFlight
      <4>2. t = Append(s, rpkt)
        BY Zenon, <1>1, <1>2, <1>e, <4>1
      <4>3. Head(t) = Head(s) /\ Tail(t) = Append(Tail(s), rpkt)
        BY Zenon, <1>1, <2>1, <4>2, SeqShift
      <4>4. t # <<>>
        BY <1>1, <1>2, <4>2, SeqAppend
      <4>5. Append(s2, rpkt) = t2
        BY Zenon, <1>1, <1>2, <2>3, <4>1, SeqJoin
      <4> QED BY Zenon, <2>1, <4>3, <4>4, <4>5
    <3> QED BY Zenon, <3>1, <3>2
  <2> QED BY Zenon, <2>1, <2>2, <2>4 DEF t, t2
<1>6. CASE RxWrite
  <2>1. s2 = Append(s, rpkt)
    BY Zenon, <1>6, RxHeldGrows DEF s, s2
  <2>2. rpc = "write" /\ rpc' = "flags" /\ UNCHANGED <<arrived, got>>
    BY Zenon, <1>6 DEF RxWrite, guestVars
  <2>3. f = <<rpkt>> /\ f2 = <<>>
    BY Zenon, <2>2 DEF f, f2, InFlight
  <2>4. t2 = t
    BY Zenon, <1>1, <1>2, <1>e, <2>1, <2>3
  <2> QED BY Zenon, <2>2, <2>4 DEF t, t2
<1>7. ASSUME ~(SetupStep /\ at = 1), ~Drain(RX), ~RxWrite, NEW p \in RxPackets, RxRead(p)
      PROVE  /\ p \notin arrived /\ arrived' = arrived \cup {p}
             /\ t2 = Append(t, p) /\ got' = got
  <2>1. /\ rpc = "read" /\ rpc' = "check" /\ rpkt' = p /\ p \in Payloads /\ p \notin arrived
        /\ arrived' = arrived \cup {p} /\ got' = got
    BY Zenon, <1>7 DEF RxRead, guestVars, Payloads
  <2>2. f = <<>> /\ f2 = <<p>>
    BY Zenon, <2>1 DEF f, f2, InFlight
  <2> QED BY Zenon, <1>1, <1>4, <1>7, <1>e, <2>1, <2>2
<1>8. ASSUME ~(SetupStep /\ at = 1), ~Drain(RX), ~RxWrite, RxCheck \/ RxDrop \/ RxFlags
      PROVE  UNCHANGED <<arrived, got>> /\ (t2 = t \/ Loses(t, t2))
  <2>1. UNCHANGED <<arrived, got>>
    BY Zenon, <1>8 DEF RxCheck, RxDrop, RxFlags, guestVars
  <2>2. \/ rpc = "check" /\ rpc' = "write" /\ rpkt' = rpkt
        \/ rpc \in {"check", "write"} /\ rpc' = "read"
        \/ rpc = "flags" /\ rpc' = "read"
    BY Zenon, <1>8 DEF RxCheck, RxDrop, RxFlags
  <2>3. f2 = f \/ (f = <<rpkt>> /\ f2 = <<>>)
    BY Zenon, <2>2 DEF f, f2, InFlight
  <2>4. CASE f2 = f
    BY Zenon, <1>1, <1>4, <1>8, <2>1, <2>4
  <2>5. CASE f = <<rpkt>> /\ f2 = <<>>
    <3>1. t = Append(s, rpkt) /\ t2 = s
      BY Zenon, <1>1, <1>2, <1>4, <1>8, <1>e, <2>5
    <3>2. Loses(t, t2)
      BY Zenon, <1>1, <1>2, <3>1, LoseLast
    <3> QED BY Zenon, <2>1, <3>2
  <2> QED BY Zenon, <2>3, <2>4, <2>5
<1>9. ASSUME ~(SetupStep /\ at = 1), ~Drain(RX), ~RxWrite,
             UNCHANGED <<rpc, rpkt, arrived, got>>
      PROVE  t2 = t
  <2>1. f2 = f
    BY Zenon, <1>9 DEF f, f2, InFlight
  <2> QED BY Zenon, <1>1, <1>4, <1>9, <2>1
<1>10. CASE ~(SetupStep /\ at = 1) /\ ~Drain(RX) /\ ~RxWrite
  BY Zenon, <1>7, <1>8, <1>9, <1>10, RxOwn DEF t, t2
<1> QED BY Zenon, <1>3, <1>5, <1>6, <1>10

(* Before the first setup nothing has arrived and nothing is under way, as *)
(* in the initial state of the receive link.                               *)
LEMMA RxLinkInit ==
  ASSUME Init
  PROVE  arrived = {} /\ RxTransit = <<>> /\ got = <<>>
<1>1. TypeInv /\ OwnerInv
  BY Zenon, InitNet DEF NetInv
<1>2. InFlight = <<>> /\ arrived = {} /\ got = <<>>
  BY Zenon DEF Init, InFlight
<1>3. lastUsed[RX] = 0 /\ used[RX].idx = 0
  BY Zenon, Basics DEF Init, PerQueue, EmptyUsed
<1>4. RxHeld = <<>>
  BY Zenon, <1>3, LoadedNone DEF RxHeld
<1>5. RxTransit = <<>> \o <<>>
  BY Zenon, <1>1, <1>2, <1>4, RxOnLink
<1>6. <<>> \o <<>> = <<>>
  OBVIOUS
<1> QED BY Zenon, <1>2, <1>5, <1>6

(* Receives: towards the guest the device is a lossy link.  A packet that  *)
(* tap_net_rx_thread read reaches the guest unaltered, in order and at     *)
(* most once, or not at all, however the guest recycles its buffers and    *)
(* resets the device.                                                      *)
THEOREM ReceptionIsLink == Spec => Receives
<1>1. Init => RxLink!Init
  BY Zenon, RxLinkInit DEF RxLink!Init, RxTransit, InFlight
<1>2. NetInv /\ NetInv' /\ [Next]_vars
        => [RxLink!Next]_<<arrived, Contents(RX, Returned(RX))
             \o (IF rpc \in {"check", "write"} THEN <<rpkt>> ELSE <<>>), got>>
  <2> SUFFICES ASSUME NetInv, NetInv', [Next]_vars
               PROVE  RxLink!Next \/ UNCHANGED <<arrived, RxTransit, got>>
    BY Zenon DEF RxTransit, InFlight
  <2>1. CASE UNCHANGED <<arrived, RxTransit, got>>
    BY Zenon, <2>1
  <2>2. ASSUME NEW p \in RxPackets, p \notin arrived, arrived' = arrived \cup {p},
               RxTransit' = Append(RxTransit, p), got' = got
        PROVE  RxLink!Next
    BY Zenon, <2>2 DEF RxLink!Next, RxLink!Send, RxTransit, InFlight
  <2>3. CASE Loses(RxTransit, RxTransit') /\ UNCHANGED <<arrived, got>>
    BY Zenon, <2>3 DEF RxLink!Next, RxLink!Lose, Loses, RxTransit, InFlight
  <2>4. CASE /\ RxTransit # <<>> /\ got' = Append(got, Head(RxTransit))
             /\ RxTransit' = Tail(RxTransit) /\ arrived' = arrived
    BY Zenon, <2>4 DEF RxLink!Next, RxLink!Deliver, RxTransit, InFlight
  <2> QED BY Zenon, <2>1, <2>2, <2>3, <2>4, RxLinkStep
<1> QED BY <1>1, <1>2, NetInvariant, PTL DEF Spec, Receives, RxLink!Spec

-----------------------------------------------------------------------------
(* Transmission. *)

TxHeld == Loaded(buf[TX], avail[TX].ring, Taken(TX), avail[TX].idx)
TxTransit == IF HasRings THEN Contents(TX, Waiting(TX)) ELSE <<>>

(* What is on the link, in terms of Loaded, before a step *)
LEMMA TxOnLink ==
  ASSUME TypeInv, OwnerInv
  PROVE  /\ TxTransit = IF HasRings THEN TxHeld ELSE <<>>
         /\ TxHeld \in Seq(Payloads) /\ buf[TX] \in [Heads -> Payloads]
         /\ RingOK(avail[TX].ring, Num, IdxMod, Taken(TX), avail[TX].idx)
<1>1. buf[TX] \in [Heads -> Payloads] /\ avail[TX].idx \in Idx
  BY Zenon, Basics DEF TypeInv, RingType
<1>2. Taken(TX) \in Idx
  <2>1. LastAvail(TX) \in Idx
    BY Zenon, Basics DEF LastAvail, TypeInv, DevType, Devices, QueueRegs
  <2> QED BY Basics, Zenon, <2>1 DEF Taken
<1>3. RingOK(avail[TX].ring, Num, IdxMod, Taken(TX), avail[TX].idx)
  BY Basics, Zenon DEF OwnerInv, QueueOwners, Owners
<1>4. TxHeld \in Seq(Payloads)
  BY Zenon, <1>1, <1>3, LoadedIs DEF TxHeld
<1>5. TxTransit = IF HasRings THEN TxHeld ELSE <<>>
  BY Zenon, <1>1, <1>2, ContentsIs DEF TxTransit, TxHeld, Waiting, Contents
<1> QED BY Zenon, <1>1, <1>3, <1>4, <1>5

(* and after it. *)
LEMMA TxOnLinkNext ==
  ASSUME TypeInv'
  PROVE  /\ TxTransit' = IF HasRings' THEN TxHeld' ELSE <<>>
         /\ buf'[TX] \in [Heads -> Payloads]
<1>1. buf'[TX] \in [Heads -> Payloads] /\ avail'[TX].idx \in Idx
  BY Zenon, Basics DEF TypeInv, RingType
<1>2. Taken(TX)' \in Idx
  <2>1. LastAvail(TX)' \in Idx
    BY Zenon, Basics DEF LastAvail, TypeInv, DevType, Devices, QueueRegs
  <2> QED BY Basics, Zenon, <2>1 DEF Taken
<1>3. TxTransit' = IF HasRings' THEN TxHeld' ELSE <<>>
  BY Zenon, <1>1, <1>2, ContentsIs DEF TxTransit, TxHeld, Waiting, Contents
<1> QED BY Zenon, <1>1, <1>3

(* The driver's packet goes behind those that wait, *)
LEMMA TxHeldGrows ==
  ASSUME NetInv, NetInv', NEW p \in TxPackets, PostTx(p)
  PROVE  TxHeld' = Append(TxHeld, p)
<1>t. RingType /\ OwnerInv
  BY Zenon DEF NetInv, TypeInv
<1>1. PICK h \in freeHeads[TX] :
        /\ buf' = [buf EXCEPT ![TX][h] = p]
        /\ avail' = [avail EXCEPT ![TX].ring[avail[TX].idx % Num] = h,
                                  ![TX].idx = Inc(avail[TX].idx)]
  BY Zenon DEF PostTx, Post
<1>2. UNCHANGED <<dev, ppc, rpc>>
  BY Zenon DEF PostTx, Post, pollVars, rxVars
<1>3. Taken(TX)' = Taken(TX)
  BY Zenon, <1>2 DEF Taken, LastAvail
<1>4. /\ avail'[TX].ring = [avail[TX].ring EXCEPT ![avail[TX].idx % Num] = h]
      /\ avail'[TX].idx = Inc(avail[TX].idx)
  BY Zenon, Basics, <1>t, <1>1 DEF RingType
<1>5. /\ buf[TX] \in [Heads -> Payloads] /\ buf'[TX] \in [Heads -> Payloads]
      /\ RingOK(avail[TX].ring, Num, IdxMod, Taken(TX), avail[TX].idx)
  BY Zenon, TxOnLink, TxOnLinkNext DEF NetInv
<1>6. h \in Heads /\ ~Holds(avail[TX].ring, Num, IdxMod, Taken(TX), avail[TX].idx, h)
  BY Basics, Zenon, <1>1, <1>t DEF OwnerInv, QueueOwners, Owners
<1>7. buf'[TX] = [buf[TX] EXCEPT ![h] = p]
  BY Zenon, Basics, <1>t, <1>1 DEF RingType
<1>8. buf'[TX][h] = p /\ \A x \in Heads : x # h => buf'[TX][x] = buf[TX][x]
  BY Zenon, <1>5, <1>6, <1>7
<1> DEFINE b == buf[TX]
           b2 == buf'[TX]
           r == avail[TX].ring
           a == Taken(TX)
           c == avail[TX].idx
           r2 == avail'[TX].ring
<1>9. Puts(b, b2, r, r2, a, c, h)
  BY ZenonT(30), <1>4, <1>5, <1>6, <1>8 DEF Puts
<1> HIDE DEF b, b2, r, a, c, r2
<1>10. Loaded(b2, r2, a, Inc(c)) = Append(Loaded(b, r, a, c), b2[h])
  BY <1>9, LoadedPush
<1> QED BY Zenon, <1>3, <1>4, <1>8, <1>10 DEF TxHeld, b, b2, r, a, c, r2

(* queue_notify takes the first, whether it writes it to the TAP or passes *)
(* it over, *)
LEMMA TxHeldShrinks ==
  ASSUME NetInv, NetInv', TxSend \/ TxSkip
  PROVE  /\ HasRings /\ TxHeld # <<>> /\ TxHeld' = Tail(TxHeld)
         /\ Head(TxHeld) = buf[pq][NextHead(pq)]
<1>t. Core /\ OwnerInv /\ TgtInv
  BY Zenon DEF NetInv, Core
<1>1. Takes /\ UNCHANGED <<avail, buf>>
  BY Zenon DEF TxSend, TxSkip, guestVars
<1>2. /\ pq = TX /\ ppc = "send" /\ ~Fallow
      /\ NextHead(TX) = avail[TX].ring[LastAvail(TX) % Num]
  BY Zenon, <1>1, <1>t, Serving
<1>3. Taken(TX) = LastAvail(TX) /\ LastAvail(TX) # avail[TX].idx
  BY Zenon, <1>1, <1>t, TakesWritten
<1>4. Taken(TX)' = Inc(Taken(TX))
  <2>1. CASE TxSend
    <3>1. ppc' = "flags" /\ dev' = dev
      BY Zenon, <2>1 DEF TxSend
    <3> QED BY Zenon, <1>3, <3>1 DEF Taken, LastAvail
  <2>2. CASE TxSkip
    <3>1. dev' = [dev EXCEPT !.queue[TX].last_avail_idx = Advanced(TX)] /\ ppc' = ppc
      BY Zenon, <1>2, <2>2 DEF TxSkip, pollVars
    <3>2. LastAvail(TX)' = Inc(LastAvail(TX))
      BY Zenon, Basics, <1>t, <3>1, IndexMoves DEF Core, TypeInv
    <3>3. Taken(TX)' = LastAvail(TX)'
      BY Zenon, Basics, <1>2, <3>1 DEF Taken
    <3> QED BY Zenon, <1>3, <3>2, <3>3
  <2> QED BY Zenon, <2>1, <2>2
<1>5. HasRings
  <2>1. at \in 0..(SetupLen + 1) /\ at # 0 /\ at \notin 2..SetupLen
    BY Zenon, <1>2, <1>t DEF Fallow, Core, TypeInv, DevType, RegsInv
  <2> QED BY <2>1 DEF HasRings, Up, SetupLen
<1> DEFINE b == buf[TX]
           r == avail[TX].ring
           a == Taken(TX)
           c == avail[TX].idx
<1>6. TakesOut(b, b, r, a, c)
  BY ZenonT(30), <1>3, TxOnLink DEF NetInv, TakesOut
<1> HIDE DEF b, r, a, c
<1>7. /\ Loaded(b, r, a, c) # <<>> /\ Head(Loaded(b, r, a, c)) = b[r[a % Num]]
      /\ Tail(Loaded(b, r, a, c)) = Loaded(b, r, Inc(a), c)
  BY <1>6, LoadedPop
<1>8. TxHeld # <<>> /\ Head(TxHeld) = buf[TX][avail[TX].ring[Taken(TX) % Num]]
  BY Zenon, <1>7 DEF TxHeld, b, r, a, c
<1>9. TxHeld' = Tail(TxHeld)
  BY Zenon, <1>1, <1>4, <1>7 DEF TxHeld, b, r, a, c
<1> QED BY Zenon, <1>2, <1>3, <1>5, <1>8, <1>9

(* and the others leave alone what waits. *)
LEMMA TxHeldStays ==
  ASSUME NetInv, NetInv', [Next]_vars, ~(SetupStep /\ at = 1), ~TxSend, ~TxSkip
  PROVE  \/ TxHeld' = TxHeld /\ UNCHANGED <<sent, wire>>
         \/ \E p \in TxPackets : PostTx(p)
<1>t. RingType /\ Core /\ OwnerInv
  BY Zenon DEF NetInv, Core, TypeInv
<1>0. ASSUME avail'[TX].ring = avail[TX].ring, avail'[TX].idx = avail[TX].idx,
             buf'[TX] = buf[TX], Taken(TX)' = Taken(TX)
      PROVE  TxHeld' = TxHeld
  BY Zenon, <1>0 DEF TxHeld
<1>1. CASE Still
  BY Basics, Zenon, <1>0, <1>1 DEF Still, HeadsStay
<1>2. CASE PostRx
  <2>1. PICK h : /\ buf' = [buf EXCEPT ![RX][h] = Blank]
                 /\ avail' = [avail EXCEPT ![RX].ring[avail[RX].idx % Num] = h,
                                           ![RX].idx = Inc(avail[RX].idx)]
    BY Zenon, <1>2 DEF PostRx, Post
  <2>2. UNCHANGED <<dev, ppc, rpc, sent, wire>>
    BY Zenon, <1>2 DEF PostRx, Post, pollVars, rxVars
  <2>3. avail'[TX] = avail[TX] /\ buf'[TX] = buf[TX]
    BY Zenon, Basics, <1>t, <2>1 DEF RingType
  <2>4. Taken(TX)' = Taken(TX)
    BY Zenon, <2>2 DEF Taken, LastAvail
  <2> QED BY Zenon, <1>0, <2>2, <2>3, <2>4
<1>3. ASSUME NEW q \in Queues, Drain(q)
      PROVE  TxHeld' = TxHeld /\ UNCHANGED <<sent, wire>>
  <2>1. PICK h : /\ h = used[q].ring[lastUsed[q] % Num]
                 /\ buf' = [buf EXCEPT ![q][h] = Blank]
    BY Zenon, <1>3 DEF Drain
  <2>2. UNCHANGED <<avail, dev, ppc, rpc, sent, wire>> /\ lastUsed[q] # used[q].idx
    BY Zenon, <1>3 DEF Drain, pollVars, rxVars, Fresh
  <2>3. Taken(TX)' = Taken(TX)
    BY Zenon, <2>2 DEF Taken, LastAvail
  <2>4. CASE q # TX
    <3>1. buf'[TX] = buf[TX]
      BY Zenon, Basics, <1>t, <2>1, <2>4 DEF RingType
    <3> QED BY Zenon, <1>0, <2>2, <2>3, <3>1
  <2>5. CASE q = TX
    <3>1. Owners(avail[TX].ring, Taken(TX), avail[TX].idx, used[TX].ring, lastUsed[TX],
                 used[TX].idx, freeHeads[TX], skipped[TX])
      BY Basics, Zenon, <1>t DEF OwnerInv, QueueOwners
    <3>2. /\ h \in Heads
          /\ ~Holds(avail[TX].ring, Num, IdxMod, Taken(TX), avail[TX].idx, h)
      <4>1. h = used[TX].ring[lastUsed[TX] % Num] /\ lastUsed[TX] # used[TX].idx
        BY Zenon, <2>1, <2>2, <2>5
      <4> DEFINE ar == avail[TX].ring
                 ai == avail[TX].idx
                 ur == used[TX].ring
                 lu == lastUsed[TX]
                 ui == used[TX].idx
                 tk == Taken(TX)
      <4>2. Owners(ar, tk, ai, ur, lu, ui, freeHeads[TX], skipped[TX]) /\ lu # ui
        BY Zenon, <3>1, <4>1
      <4> HIDE Basics DEF ar, ai, ur, lu, ui, tk
      <4>3. ur[lu % Num] \in Heads /\ ~Holds(ar, Num, IdxMod, tk, ai, ur[lu % Num])
        BY Zenon, Basics, <4>2, DrainOne
      <4> QED BY Zenon, <4>1, <4>3 DEF ar, ai, ur, lu, ui, tk
    <3>3. /\ buf[TX] \in [Heads -> Payloads] /\ buf'[TX] \in [Heads -> Payloads]
          /\ RingOK(avail[TX].ring, Num, IdxMod, Taken(TX), avail[TX].idx)
      BY Zenon, TxOnLink, TxOnLinkNext DEF NetInv
    <3>4. buf'[TX] = [buf[TX] EXCEPT ![h] = Blank]
      BY Zenon, <1>t, <2>1, <2>5 DEF RingType
    <3>5. \A x \in Heads : x # h => buf'[TX][x] = buf[TX][x]
      BY Zenon, <3>3, <3>4
    <3>6. \A x \in Heads :
            Holds(avail[TX].ring, Num, IdxMod, Taken(TX), avail[TX].idx, x)
              => buf'[TX][x] = buf[TX][x]
      BY Zenon, <3>2, <3>5
    <3>7. Loaded(buf'[TX], avail[TX].ring, Taken(TX), avail[TX].idx)
            = Loaded(buf[TX], avail[TX].ring, Taken(TX), avail[TX].idx)
      <4> DEFINE b == buf[TX]
                 b2 == buf'[TX]
                 r == avail[TX].ring
                 a == Taken(TX)
                 c == avail[TX].idx
      <4>1. Keeps(b, b2, r, a, c)
        BY Zenon, <3>3, <3>6 DEF Keeps
      <4> HIDE DEF b, b2, r, a, c
      <4>2. Loaded(b2, r, a, c) = Loaded(b, r, a, c)
        BY <4>1, LoadedKept
      <4> QED BY Zenon, <4>2 DEF b, b2, r, a, c
    <3> QED BY Zenon, <2>2, <2>3, <3>7 DEF TxHeld
  <2> QED BY Zenon, <2>4, <2>5
<1>4. CASE RxWrite
  <2>1. PICK h : buf' = [buf EXCEPT ![RX][h] = rpkt]
    BY Zenon, <1>4 DEF RxWrite
  <2>2. UNCHANGED <<avail, dev, ppc, sent, wire>>
    BY Zenon, <1>4 DEF RxWrite, guestVars, pollVars
  <2>3. Taken(TX)' = Taken(TX)
    BY Basics, Zenon, <2>2 DEF Taken, LastAvail
  <2>4. buf'[TX] = buf[TX]
    BY Zenon, Basics, <1>t, <2>1 DEF RingType
  <2> QED BY Zenon, <1>0, <2>2, <2>3, <2>4
<1> QED BY Zenon, <1>1, <1>2, <1>3, <1>4, <1>t, NoHeadMoves

(* The queue has its rings from one setup to the next reset; when it gets  *)
(* them nothing waits.                                                     *)
LEMMA TxRings ==
  ASSUME NetInv, NetInv', [Next]_vars, ~(SetupStep /\ at = 1)
  PROVE  \/ HasRings' = HasRings
         \/ ~HasRings /\ TxHeld' = <<>> /\ UNCHANGED <<sent, wire>>
<1>t. TypeInv /\ RegsInv /\ FallowInv
  BY Zenon DEF NetInv
<1>1. CASE SetupStep
  <2>1. /\ at \in 2..9 /\ life > 0 /\ \A q \in Queues : LastAvail(q)' = LastAvail(q)
        /\ UNCHANGED <<ringVars, ppc, rpc, sent, wire>>
    BY Zenon, <1>1, <1>t, SetupGoesOn DEF SetupStep, SetupLen, pollVars
  <2>2. ~HasRings
    BY <2>1 DEF HasRings, Up, SetupLen
  <2>3. AtRest
    BY Zenon, <2>1, <1>t DEF FallowInv, Fallow, SetupLen
  <2>4. LastAvail(TX) = 0 /\ avail[TX].idx = 0 /\ ppc # "flags"
    BY Basics, Zenon, <2>3 DEF AtRest
  <2>5. Taken(TX)' = 0
    BY Zenon, Basics, <2>1, <2>4 DEF Taken, RX, TX
  <2>6. avail'[TX].idx = 0
    BY Zenon, <2>1, <2>4 DEF ringVars
  <2>7. TxHeld' = <<>>
    BY Zenon, <2>5, <2>6, LoadedNone DEF TxHeld
  <2> QED BY Zenon, <2>1, <2>2, <2>7
<1>2. CASE Unbind
  <2>1. HasRings /\ HasRings'
    BY Zenon, <1>2 DEF Unbind, HasRings
  <2> QED BY Zenon, <2>1
<1>3. CASE ~SetupStep /\ ~Unbind
  <2>1. at' = at
    BY Zenon, <1>3, <1>t, OthersKeepRegs DEF RegsKept
  <2> QED BY Zenon, <2>1 DEF HasRings, Up
<1> QED BY Zenon, <1>1, <1>2, <1>3

(* So every step is one the lossy link allows: PostTx sends, TxSend        *)
(* delivers (or loses, when the TAP takes nothing), a chain passed over    *)
(* and what waits at a reset are lost.                                     *)
LEMMA TxLinkStep ==
  ASSUME NetInv, NetInv', [Next]_vars
  PROVE  \/ UNCHANGED <<sent, TxTransit, wire>>
         \/ \E p \in TxPackets : /\ p \notin sent /\ sent' = sent \cup {p}
                                 /\ TxTransit' = Append(TxTransit, p) /\ wire' = wire
         \/ Loses(TxTransit, TxTransit') /\ UNCHANGED <<sent, wire>>
         \/ /\ TxTransit # <<>> /\ wire' = Append(wire, Head(TxTransit))
            /\ TxTransit' = Tail(TxTransit) /\ sent' = sent
<1> DEFINE s == TxHeld
           s2 == TxHeld'
           t == TxTransit
           t2 == TxTransit'
<1>1. /\ t = IF HasRings THEN s ELSE <<>>
      /\ t2 = IF HasRings' THEN s2 ELSE <<>>
      /\ s \in Seq(Payloads)
  BY Zenon, TxOnLink, TxOnLinkNext DEF NetInv
<1> HIDE DEF s, s2, t, t2
<1>2. CASE SetupStep /\ at = 1
  <2>1. UNCHANGED <<sent, wire>>
    BY Zenon, <1>2 DEF SetupStep
  <2>2. at' = 2
    BY Zenon, <1>2, SetupBegins DEF NetInv
  <2>3. HasRings /\ ~HasRings'
    BY <1>2, <2>2 DEF HasRings, Up, SetupLen
  <2>4. t = s /\ t2 = <<>>
    BY Zenon, <1>1, <2>3
  <2>5. CASE s = <<>>
    BY Zenon, <2>1, <2>4, <2>5 DEF t, t2
  <2>6. CASE s # <<>>
    <3>1. <<>> \in Seq(Payloads)
      OBVIOUS
    <3>2. Loses(s \o <<>>, <<>>)
      BY Zenon, <1>1, <2>6, <3>1, LosePrefix
    <3>3. s \o <<>> = s
      BY Zenon, <1>1, SeqNone
    <3> QED BY Zenon, <2>1, <2>4, <3>2, <3>3 DEF t, t2
  <2> QED BY Zenon, <2>5, <2>6
<1>3. ASSUME ~(SetupStep /\ at = 1), TxSend \/ TxSkip
      PROVE  \/ Loses(t, t2) /\ UNCHANGED <<sent, wire>>
             \/ /\ t # <<>> /\ wire' = Append(wire, Head(t))
                /\ t2 = Tail(t) /\ sent' = sent
  <2>1. HasRings /\ s # <<>> /\ s2 = Tail(s) /\ Head(s) = buf[pq][NextHead(pq)]
    BY Zenon, <1>3, TxHeldShrinks DEF s, s2
  <2>2. HasRings'
    BY Zenon, <1>3, <2>1, TxRings
  <2>3. t = s /\ t2 = Tail(s)
    BY Zenon, <1>1, <2>1, <2>2
  <2>4. /\ sent' = sent
        /\ wire' = wire \/ wire' = Append(wire, buf[pq][NextHead(pq)])
    BY Zenon, <1>3 DEF TxSend, TxSkip, guestVars
  <2>5. Loses(s, Tail(s))
    BY Zenon, <1>1, <2>1, LoseFirst
  <2> QED BY Zenon, <2>1, <2>3, <2>4, <2>5
<1>4. ASSUME ~(SetupStep /\ at = 1), NEW p \in TxPackets, PostTx(p)
      PROVE  /\ p \notin sent /\ sent' = sent \cup {p}
             /\ t2 = Append(t, p) /\ wire' = wire
  <2>1. p \notin sent /\ sent' = sent \cup {p} /\ wire' = wire /\ Up
    BY Zenon, <1>4 DEF PostTx, Post
  <2>2. HasRings /\ HasRings'
    BY Zenon, <1>4, <2>1, TxRings DEF HasRings
  <2>3. s2 = Append(s, p)
    BY Zenon, <1>4, TxHeldGrows DEF s, s2
  <2> QED BY Zenon, <1>1, <2>1, <2>2, <2>3
<1>5. ASSUME ~(SetupStep /\ at = 1), ~TxSend, ~TxSkip, ~\E p \in TxPackets : PostTx(p)
      PROVE  UNCHANGED <<sent, wire>> /\ t2 = t
  <2>1. s2 = s /\ UNCHANGED <<sent, wire>>
    BY Zenon, <1>5, TxHeldStays DEF s, s2
  <2>2. HasRings' = HasRings \/ (~HasRings /\ s2 = <<>>)
    BY Zenon, <1>5, TxRings DEF s2
  <2>3. CASE HasRings
    <3>1. HasRings'
      BY Zenon, <2>2, <2>3
    <3> QED BY Zenon, <1>1, <2>1, <2>3, <3>1
  <2>4. CASE ~HasRings
    <3>1. ~HasRings' \/ s2 = <<>>
      BY Zenon, <2>2, <2>4
    <3> QED BY Zenon, <1>1, <2>1, <2>4, <3>1
  <2> QED BY Zenon, <2>3, <2>4
<1> QED BY Zenon, <1>2, <1>3, <1>4, <1>5 DEF t, t2

(* Before the first setup nothing was posted and nothing is under way, as  *)
(* in the initial state of the transmit link.                              *)
LEMMA TxLinkInit ==
  ASSUME Init
  PROVE  sent = {} /\ TxTransit = <<>> /\ wire = <<>>
<1>1. TypeInv /\ OwnerInv /\ FallowInv
  BY Zenon, InitNet DEF NetInv
<1>2. sent = {} /\ wire = <<>> /\ life = 0
  BY Zenon DEF Init
<1>3. AtRest
  BY Zenon, <1>1, <1>2 DEF FallowInv, Fallow
<1>4. LastAvail(TX) = 0 /\ avail[TX].idx = 0 /\ ppc # "flags"
  BY Basics, Zenon, <1>3 DEF AtRest
<1>5. Taken(TX) = 0
  BY Zenon, Basics, <1>4 DEF Taken, RX, TX
<1>6. TxHeld = <<>>
  BY Zenon, <1>4, <1>5, LoadedNone DEF TxHeld
<1> QED BY Zenon, <1>1, <1>2, <1>6, TxOnLink

(* Transmits: towards the TAP the device is a lossy link.  What            *)
(* tap_net_tx writes is what the guest posted, unaltered, in order and at  *)
(* most once, also across resets with buffers outstanding.                 *)
THEOREM TransmissionIsLink == Spec => Transmits
<1>1. Init => TxLink!Init
  BY Zenon, TxLinkInit DEF TxLink!Init, TxTransit
<1>2. NetInv /\ NetInv' /\ [Next]_vars
        => [TxLink!Next]_<<sent, IF HasRings THEN Contents(TX, Waiting(TX)) ELSE <<>>,
                           wire>>
  <2> SUFFICES ASSUME NetInv, NetInv', [Next]_vars
               PROVE  TxLink!Next \/ UNCHANGED <<sent, TxTransit, wire>>
    BY Zenon DEF TxTransit
  <2>1. CASE UNCHANGED <<sent, TxTransit, wire>>
    BY Zenon, <2>1
  <2>2. ASSUME NEW p \in TxPackets, p \notin sent, sent' = sent \cup {p},
               TxTransit' = Append(TxTransit, p), wire' = wire
        PROVE  TxLink!Next
    BY Zenon, <2>2 DEF TxLink!Next, TxLink!Send, TxTransit
  <2>3. CASE Loses(TxTransit, TxTransit') /\ UNCHANGED <<sent, wire>>
    BY Zenon, <2>3 DEF TxLink!Next, TxLink!Lose, Loses, TxTransit
  <2>4. CASE /\ TxTransit # <<>> /\ wire' = Append(wire, Head(TxTransit))
             /\ TxTransit' = Tail(TxTransit) /\ sent' = sent
    BY Zenon, <2>4 DEF TxLink!Next, TxLink!Deliver, TxTransit
  <2> QED BY Zenon, <2>1, <2>2, <2>3, <2>4, TxLinkStep
<1> QED BY <1>1, <1>2, NetInvariant, PTL DEF Spec, Transmits, TxLink!Spec
=============================================================================
