----------------------------- MODULE VirtioMmio -----------------------------
(***************************************************************************)
(* The register file of a virtio-mmio device (virtio.c): struct            *)
(* virtio_device as a record, virtio_reset, virtio_mmio_write and          *)
(* virtio_mmio_read as functions of it.  A register is named as in the     *)
(* code, without the VIRTIO_MMIO_ prefix.  Addresses are 64 bits written   *)
(* in two halves.  Every register access is 4 bytes wide (other widths do  *)
(* nothing and read 0).  The configuration space is that of the network    *)
(* device; a driver reads it and does not write it.                        *)
(*                                                                         *)
(* A write of 0 or 1 to QUEUE_NOTIFY never gets here: KVM turns it into an *)
(* eventfd.  Any other value is ignored.                                   *)
(***************************************************************************)
EXTENDS Integers, Sequences

CONSTANT MaxQueueNum  \* max_queue_num of the device

MAX_QUEUE == 2
Queues == 0..(MAX_QUEUE - 1)

Null == [lo |-> 0, hi |-> 0]
ResetQueue == [ready |-> 0, num |-> MaxQueueNum, last_avail_idx |-> 0,
               desc_addr |-> Null, avail_addr |-> Null, used_addr |-> Null,
               manual_recv |-> FALSE]

ResetDevice ==
  [status |-> 0, queue_sel |-> 0, device_features_sel |-> 0, int_status |-> 0,
   queue |-> [q \in Queues |-> ResetQueue]]

ResetWith(queue) == [ResetDevice EXCEPT !.queue = queue]
Kept(d, q) == [ResetQueue EXCEPT !.manual_recv = d.queue[q].manual_recv]
virtio_resetKeepsRings(d) == ResetWith([q \in Queues |->
  [Kept(d, q) EXCEPT !.avail_addr = d.queue[q].avail_addr]])
virtio_resetKeepsIndex(d) == ResetWith([q \in Queues |->
  [Kept(d, q) EXCEPT !.last_avail_idx = d.queue[q].last_avail_idx]])
virtio_resetKeepsReady(d) == ResetWith([q \in Queues |->
  [Kept(d, q) EXCEPT !.ready = d.queue[q].ready]])
virtio_resetEverything(d) == ResetDevice
virtio_reset(d) == ResetWith([q \in Queues |-> Kept(d, q)])

IsPowerOfTwo(v) == \E k \in 0..15 : v = 2 ^ k

(* The registers of the selected queue. *)
WriteQueue(s, r, v) ==
  CASE r = "QUEUE_NUM" /\ IsPowerOfTwo(v) -> [s EXCEPT !.num = v]
    [] r = "QUEUE_DESC_LOW" -> [s EXCEPT !.desc_addr.lo = v]
    [] r = "QUEUE_DESC_HIGH" -> [s EXCEPT !.desc_addr.hi = v]
    [] r = "QUEUE_AVAIL_LOW" -> [s EXCEPT !.avail_addr.lo = v]
    [] r = "QUEUE_AVAIL_HIGH" -> [s EXCEPT !.avail_addr.hi = v]
    [] r = "QUEUE_USED_LOW" -> [s EXCEPT !.used_addr.lo = v]
    [] r = "QUEUE_USED_HIGH" -> [s EXCEPT !.used_addr.hi = v]
    [] r = "QUEUE_READY" -> [s EXCEPT !.ready = v % 2]
    [] OTHER -> s

ReadQueue(s, r) ==
  CASE r = "QUEUE_NUM" -> s.num
    [] r = "QUEUE_DESC_LOW" -> s.desc_addr.lo
    [] r = "QUEUE_DESC_HIGH" -> s.desc_addr.hi
    [] r = "QUEUE_AVAIL_LOW" -> s.avail_addr.lo
    [] r = "QUEUE_AVAIL_HIGH" -> s.avail_addr.hi
    [] r = "QUEUE_USED_LOW" -> s.used_addr.lo
    [] r = "QUEUE_USED_HIGH" -> s.used_addr.hi
    [] r = "QUEUE_READY" -> s.ready
    [] OTHER -> 0

Selected(d) == d.queue[d.queue_sel]

virtio_mmio_write(d, r, v) ==
  CASE r = "DEVICE_FEATURES_SEL" -> [d EXCEPT !.device_features_sel = v]
    [] r = "QUEUE_SEL" -> IF v < MAX_QUEUE THEN [d EXCEPT !.queue_sel = v] ELSE d
    [] r = "STATUS" -> IF v = 0 THEN virtio_reset(d) ELSE [d EXCEPT !.status = v]
    [] r = "INTERRUPT_ACK" -> IF v % 2 = 1 THEN [d EXCEPT !.int_status = 0] ELSE d
    [] OTHER -> [d EXCEPT !.queue[d.queue_sel] = WriteQueue(Selected(d), r, v)]

(* Feature word 1 has VIRTIO_F_VERSION_1, word 0 VIRTIO_NET_F_MAC (bit 5). *)
Features(word) == CASE word = 0 -> 32 [] word = 1 -> 1 [] OTHER -> 0

virtio_mmio_read(d, r) ==
  CASE r = "MAGIC_VALUE" -> 1953655158
    [] r = "VERSION" -> 2
    [] r = "DEVICE_ID" -> 1
    [] r = "VENDOR_ID" -> 65535
    [] r = "DEVICE_FEATURES_SEL" -> d.device_features_sel
    [] r = "QUEUE_SEL" -> d.queue_sel
    [] r = "DEVICE_FEATURES" -> Features(d.device_features_sel)
    [] r = "QUEUE_NUM_MAX" -> MaxQueueNum
    [] r = "INTERRUPT_STATUS" -> d.int_status
    [] r = "STATUS" -> d.status
    [] OTHER -> ReadQueue(Selected(d), r)

(* virtio_net_init: the MAC address 52:54:00:12:34:56, then the status. *)
config_space == <<82, 84, 0, 18, 52, 86, 0, 0>>

Weight == <<1, 256, 65536, 16777216>>

(* Little-endian, and 0 where the access does not fit. *)
virtio_config_read(offset, size) ==
  LET byte(i) == config_space[offset + i] * Weight[i]
  IN IF offset >= Len(config_space) - (size - 1) THEN 0
     ELSE CASE size = 1 -> byte(1)
            [] size = 2 -> byte(1) + byte(2)
            [] size = 4 -> byte(1) + byte(2) + byte(3) + byte(4)
=============================================================================
