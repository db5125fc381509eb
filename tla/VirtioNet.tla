------------------------------ MODULE VirtioNet ------------------------------
(***************************************************************************)
(* The virtio network device at work (virtio.c 1088-1222, netdev.c): the   *)
(* receive queue 0, which the TAP receiver thread fills by hand            *)
(* (manual_recv), the transmit queue 1, which the ioeventfd poll thread    *)
(* serves, and a driver that sets the device up register by register       *)
(* (VirtioMmio), uses both queues, and may reset the device and set it up  *)
(* again while packets arrive and a kick is still on its way.              *)
(*                                                                         *)
(* The driver, the TAP interface and KVM's eventfds are external.  Loads   *)
(* do not overtake stores here; VirtioBlk shows what happens if they do.   *)
(***************************************************************************)
EXTENDS VirtioMmio, FiniteSets

CONSTANTS
  Num,        \* queue size the driver asks for, a power of two
  IdxMod,     \* 2^16 in the code: ring indices wrap here
  Blank,      \* contents of a buffer nobody has filled
  TxPackets,  \* packets the guest may send, numbered in that order
  RxPackets,  \* packets that may arrive, numbered in that order
  MaxPackets, \* bound on packets sent and received together
  AnyHead,    \* does the driver choose among its free heads, or take the lowest?
  MaxLives,   \* bound on how often the driver sets the device up
  Above       \* the lives in which its rings are above 4 GB

ASSUME NetAssumption ==
  /\ MaxQueueNum \in Nat /\ Num \in Nat \ {0}
  /\ IsPowerOfTwo(Num) /\ Num <= MaxQueueNum
  /\ IdxMod \in Nat \ {0} /\ IdxMod > Num /\ IdxMod % Num = 0
  /\ TxPackets \subseteq Nat /\ RxPackets \subseteq Nat
  /\ Blank \notin TxPackets \cup RxPackets
  /\ MaxPackets \in Nat /\ AnyHead \in BOOLEAN
  /\ MaxLives \in Nat /\ Above \subseteq 1..MaxLives

VARIABLES
  dev,       \* struct virtio_device: the registers
  lock,      \* its owner: "free", "poll" or "rx" (s->lock)
  eventfd,   \* per queue: signalled since the last read
  irq,       \* interrupt latched and not yet taken
  avail, used, buf, \* rings and buffers in guest memory, per queue
  freeHeads, lastUsed, \* driver, per queue: heads it may use, entries consumed
  qpc,       \* driver, per queue: where its completion handler is
  isr,       \* driver: has read INTERRUPT_STATUS and must acknowledge it
  at, life,  \* driver: place in the setup program, how often it began it
  ppc, pq, tgt,  \* poll thread: place, queue in hand, sampled index
  rpc, rpkt,     \* receiver thread: place, packet read from the TAP
  room,      \* the device was reset since can_write_packet said yes: FALSE
  sent, arrived, \* packets handed to the driver, packets read from the TAP
  wire, got, \* packets written to the TAP, packets the guest received
  skipped,   \* per queue: heads queue_notify passed over
  stray      \* who walks a ring where there is none: "no", "poll" or "rx"

ringVars == <<avail, used, buf>>
driverVars == <<freeHeads, lastUsed, qpc, isr, at, life>>
pollVars == <<ppc, pq, tgt>>
rxVars == <<rpc, rpkt, room, arrived>>
vars == <<dev, lock, eventfd, irq, ringVars, driverVars, pollVars, rxVars, sent,
          wire, got, skipped, stray>>

RX == 0
TX == 1
Heads == 0..(Num - 1)
Idx == 0..(IdxMod - 1)
EmptyAvail == [quiet |-> FALSE, idx |-> 0, ring |-> [h \in Heads |-> 0]]
EmptyUsed == [idx |-> 0, ring |-> [h \in Heads |-> 0]]
Inc(i) == (i + 1) % IdxMod
PerQueue(x) == [q \in Queues |-> x]

Init ==
  /\ dev = [ResetDevice EXCEPT !.queue[RX].manual_recv = TRUE]
  /\ lock = "free"
  /\ eventfd = PerQueue(FALSE) /\ irq = FALSE
  /\ avail = PerQueue(EmptyAvail) /\ used = PerQueue(EmptyUsed)
  /\ buf = PerQueue([h \in Heads |-> Blank])
  /\ freeHeads = PerQueue(Heads) /\ lastUsed = PerQueue(0)
  /\ qpc = PerQueue("idle") /\ isr = FALSE
  /\ at = 1 /\ life = 0
  /\ ppc = "poll" /\ pq = TX /\ tgt = 0
  /\ rpc = "read" /\ rpkt = Blank /\ room = FALSE
  /\ sent = {} /\ arrived = {} /\ wire = <<>> /\ got = <<>>
  /\ skipped = PerQueue({}) /\ stray = "no"

-----------------------------------------------------------------------------
(* The driver sets the device up (external: the order of Linux's            *)
(* virtio_mmio driver).  A read must find the value the driver needs.       *)
(* Accesses whose effects no thread of the device looks at between them     *)
(* are one step.                                                            *)

High == IF life \in Above THEN 1 ELSE 0
RingAddr(q) == [lo |-> q + 1, hi |-> High]

SetupLen == 9
QueueAt(q) == 3 + 3 * q  \* where the setup of queue q begins
Up == at > SetupLen
Failed == at = 0
LowHalfOnly(q) == at = QueueAt(q) + 1

Then(d, ok) == dev' = d /\ at' = IF ok THEN at + 1 ELSE 0
MAC == <<82, 84, 0, 18, 52, 86>>

Negotiate ==
  LET d1 == virtio_mmio_write(dev, "STATUS", 3)
      d2 == virtio_mmio_write(d1, "DEVICE_FEATURES_SEL", 1)
      d3 == virtio_mmio_write(d2, "STATUS", 11)
  IN Then(d3, /\ virtio_mmio_read(d2, "DEVICE_FEATURES") = 1
              /\ virtio_mmio_read(d3, "STATUS") = 11
              /\ \A i \in 1..6 : virtio_config_read(i - 1, 1) = MAC[i])

SelectQueue(q) ==
  LET d1 == virtio_mmio_write(dev, "QUEUE_SEL", q)
      d2 == virtio_mmio_write(d1, "QUEUE_NUM", Num)
      d3 == virtio_mmio_write(d2, "QUEUE_DESC_LOW", q + 1)
      d4 == virtio_mmio_write(d3, "QUEUE_DESC_HIGH", High)
      d5 == virtio_mmio_write(d4, "QUEUE_AVAIL_LOW", q + 1)
  IN Then(d5, /\ virtio_mmio_read(d1, "QUEUE_READY") = 0
              /\ virtio_mmio_read(d1, "QUEUE_NUM_MAX") = MaxQueueNum)

EnableQueue(q) ==
  LET d1 == virtio_mmio_write(dev, "QUEUE_USED_LOW", q + 1)
      d2 == virtio_mmio_write(d1, "QUEUE_USED_HIGH", High)
  IN Then(virtio_mmio_write(d2, "QUEUE_READY", 1), TRUE)

SetupQueue(q) ==
  \/ at = QueueAt(q) /\ SelectQueue(q)
  \/ LowHalfOnly(q) /\ Then(virtio_mmio_write(dev, "QUEUE_AVAIL_HIGH", High), TRUE)
  \/ at = QueueAt(q) + 2 /\ EnableQueue(q)

DriverOk ==
  LET d == virtio_mmio_write(dev, "STATUS", 15)
  IN Then(d, virtio_mmio_read(d, "STATUS") = 15)

(* The STATUS write that resets the device lowers the interrupt line (an   *)
(* edge already latched stays); the driver then owns all its memory again  *)
(* and allocates new rings.                                                *)
Restart ==
  /\ avail' = PerQueue(EmptyAvail) /\ used' = PerQueue(EmptyUsed)
  /\ buf' = PerQueue([h \in Heads |-> Blank])
  /\ freeHeads' = PerQueue(Heads) /\ lastUsed' = PerQueue(0)
  /\ life' = life + 1
  /\ skipped' = PerQueue({}) /\ room' = FALSE

SetupStep ==
  /\ ~Up /\ ~Failed /\ lock = "free"
  /\ \/ at = 1 /\ Then(virtio_mmio_write(dev, "STATUS", 0), TRUE) /\ Restart
     \/ /\ \/ at = 2 /\ Negotiate
           \/ \E q \in Queues : SetupQueue(q)
           \/ at = SetupLen /\ DriverOk
        /\ UNCHANGED <<ringVars, freeHeads, lastUsed, life, skipped, room>>
  /\ UNCHANGED <<lock, eventfd, irq, qpc, isr, pollVars, rpc, rpkt,
                 arrived, sent, wire, got, stray>>

(* The driver stops using the device, its handlers having finished; the    *)
(* buffers it has given to the device are still there.                     *)
Unbind ==
  /\ Up /\ life < MaxLives
  /\ ~isr /\ \A q \in Queues : qpc[q] = "idle"
  /\ at' = 1
  /\ UNCHANGED <<dev, lock, eventfd, irq, ringVars, freeHeads, lastUsed, qpc,
                 isr, life, pollVars, rxVars, sent, wire, got, skipped, stray>>

-----------------------------------------------------------------------------
(* The driver uses the queues (external).                                   *)

(* A buffer is made available, then QUEUE_NOTIFY written. *)
Post(q, x) ==
  /\ Up
  /\ \E h \in freeHeads[q] :
       /\ AnyHead \/ \A g \in freeHeads[q] : h <= g
       /\ freeHeads' = [freeHeads EXCEPT ![q] = @ \ {h}]
       /\ buf' = [buf EXCEPT ![q][h] = x]
       /\ avail' = [avail EXCEPT ![q].ring[avail[q].idx % Num] = h,
                                 ![q].idx = Inc(@)]
  /\ eventfd' = [eventfd EXCEPT ![q] = TRUE]
  /\ UNCHANGED <<dev, lock, irq, used, lastUsed, qpc, isr, at, life,
                 pollVars, rxVars, wire, got, skipped, stray>>

PostRx == Post(RX, Blank) /\ UNCHANGED sent

PostTx(p) ==
  /\ p \notin sent /\ \A q \in TxPackets \ sent : p <= q
  /\ Cardinality(sent) + Cardinality(arrived) < MaxPackets
  /\ sent' = sent \cup {p}
  /\ Post(TX, p)

(* The interrupt handler reads INTERRUPT_STATUS, acknowledges what it read *)
(* and looks at both queues; the handler of a queue with used entries      *)
(* disables its callbacks and drains it.                                   *)
IsrRead ==
  /\ Up /\ irq /\ ~isr /\ lock = "free"
  /\ irq' = FALSE
  /\ isr' = (virtio_mmio_read(dev, "INTERRUPT_STATUS") = 1)
  /\ UNCHANGED <<dev, lock, eventfd, ringVars, freeHeads, lastUsed, qpc, at,
                 life, pollVars, rxVars, sent, wire, got, skipped, stray>>

Fresh(q) == used[q].idx # lastUsed[q]

IsrServe ==
  /\ isr /\ lock = "free"
  /\ dev' = virtio_mmio_write(dev, "INTERRUPT_ACK", 1)
  /\ isr' = FALSE
  /\ LET woken == {q \in Queues : Fresh(q) /\ qpc[q] # "drain"}
     IN /\ qpc' = [q \in Queues |-> IF q \in woken THEN "drain" ELSE qpc[q]]
        /\ avail' = [q \in Queues |->
             [avail[q] EXCEPT !.quiet = @ \/ q \in woken]]
  /\ UNCHANGED <<lock, eventfd, irq, used, buf, freeHeads, lastUsed, at, life,
                 pollVars, rxVars, sent, wire, got, skipped, stray>>

Drain(q) ==
  /\ qpc[q] = "drain" /\ Fresh(q)
  /\ LET h == used[q].ring[lastUsed[q] % Num]
     IN /\ freeHeads' = [freeHeads EXCEPT ![q] = @ \cup {h}]
        /\ buf' = [buf EXCEPT ![q][h] = Blank]
        /\ got' = IF q = RX THEN Append(got, buf[q][h]) ELSE got
  /\ lastUsed' = [lastUsed EXCEPT ![q] = Inc(@)]
  /\ UNCHANGED <<dev, lock, eventfd, irq, avail, used, qpc, isr, at, life,
                 pollVars, rxVars, sent, wire, skipped, stray>>

(* Callbacks are enabled once the ring is empty, which is then checked. *)
Callbacks(q, from, to, quiet) ==
  /\ qpc[q] = from /\ qpc' = [qpc EXCEPT ![q] = to]
  /\ avail' = [avail EXCEPT ![q].quiet = quiet]
  /\ UNCHANGED <<dev, lock, eventfd, irq, used, buf, freeHeads, lastUsed, isr, at,
                 life, pollVars, rxVars, sent, wire, got, skipped, stray>>

EnableCb(q) == ~Fresh(q) /\ Callbacks(q, "drain", "recheck", FALSE)
Recheck(q) ==
  \/ ~Fresh(q) /\ Callbacks(q, "recheck", "idle", FALSE)
  \/ Fresh(q) /\ Callbacks(q, "recheck", "drain", TRUE)

Handler(q) == Drain(q) \/ EnableCb(q) \/ Recheck(q)

-----------------------------------------------------------------------------
(* The device: ring accesses.                                               *)

guestVars == <<avail, driverVars, sent, got>>

Ready(q) == dev.queue[q].ready = 1
LastAvail(q) == dev.queue[q].last_avail_idx

(* The address of the available ring is unset or half written.  The word   *)
(* read there is whatever guest memory holds: by luck the index the device *)
(* has reached, so that it finds nothing to do, or another, and it goes on *)
(* to walk a ring that is not there (stray).                               *)
NoRing(q) == dev.queue[q].avail_addr # RingAddr(q)
AvailIdx(q) == IF NoRing(q) THEN LastAvail(q) ELSE avail[q].idx

AdvancedNot(q) == LastAvail(q)
Advanced(q) == Inc(LastAvail(q))
NextHead(q) == avail[q].ring[LastAvail(q) % dev.queue[q].num]

(* virtio_consume_desc: the used entry and index, then the flags. *)
Publish(q) ==
  used' = [used EXCEPT ![q].ring[used[q].idx % dev.queue[q].num] = NextHead(q),
                       ![q].idx = Inc(@)]

Suppressed(q) == avail[q].quiet
PendingMissed == dev.int_status
Pending == 1
Signal(q) ==
  /\ dev' = [dev EXCEPT !.queue[q].last_avail_idx = Advanced(q),
                        !.int_status = IF Suppressed(q) THEN dev.int_status
                                        ELSE Pending]
  /\ irq' = (irq \/ ~Suppressed(q))

-----------------------------------------------------------------------------
(* The poll thread: virtio_ioeventfd_poll_thread, queue_notify and          *)
(* virtio_net_recv_request.                                                 *)

PollWake(q) ==
  /\ ppc = "poll" /\ eventfd[q]
  /\ eventfd' = [eventfd EXCEPT ![q] = FALSE]
  /\ ppc' = "lock" /\ pq' = q
  /\ UNCHANGED <<dev, lock, irq, guestVars, used, buf, tgt, rxVars, wire,
                 skipped, stray>>

(* A queue the device fills by itself is not served here; the readiness of *)
(* the others is not tested.                                               *)
PollSample ==
  /\ ppc = "lock" /\ lock = "free"
  /\ \/ /\ dev.queue[pq].manual_recv
        /\ ppc' = "poll" /\ UNCHANGED <<lock, tgt, stray>>
     \/ /\ ~dev.queue[pq].manual_recv
        /\ ppc' = "send" /\ lock' = "poll" /\ tgt' = AvailIdx(pq)
        /\ UNCHANGED stray
     \/ /\ ~dev.queue[pq].manual_recv /\ NoRing(pq)
        /\ stray' = "poll" /\ UNCHANGED <<ppc, lock, tgt>>
  /\ UNCHANGED <<dev, eventfd, irq, guestVars, used, buf, pq, rxVars, wire,
                 skipped>>

Takes == ppc = "send" /\ LastAvail(pq) # tgt

(* write() on the non-blocking TAP may take nothing; nobody looks. *)
TxSend ==
  /\ Takes /\ pq = TX
  /\ wire' \in {Append(wire, buf[pq][NextHead(pq)]), wire}
  /\ Publish(pq)
  /\ ppc' = "flags"
  /\ UNCHANGED <<dev, lock, eventfd, irq, guestVars, buf, pq, tgt, rxVars,
                 skipped, stray>>

TxFlags ==
  /\ ppc = "flags" /\ ppc' = "send"
  /\ Signal(pq)
  /\ UNCHANGED <<lock, eventfd, guestVars, used, buf, pq, tgt, rxVars, wire,
                 skipped, stray>>

(* A chain with readable after writable descriptors, or shorter than the   *)
(* header (so also a receive buffer): its head is passed over.             *)
TxSkip ==
  /\ Takes
  /\ skipped' = [skipped EXCEPT ![pq] = @ \cup {NextHead(pq)}]
  /\ dev' = [dev EXCEPT !.queue[pq].last_avail_idx = Advanced(pq)]
  /\ UNCHANGED <<lock, eventfd, irq, guestVars, used, buf, pollVars, rxVars,
                 wire, stray>>

TxDone ==
  /\ ppc = "send" /\ LastAvail(pq) = tgt
  /\ ppc' = "poll" /\ pq' = TX /\ tgt' = 0 /\ lock' = "free"
  /\ UNCHANGED <<dev, eventfd, irq, guestVars, used, buf, rxVars, wire, skipped,
                 stray>>

-----------------------------------------------------------------------------
(* The receiver: tap_net_rx_thread, virtio_net_can_write_packet and         *)
(* virtio_net_write_packet.                                                 *)

RxRead(p) ==
  /\ rpc = "read" /\ p \notin arrived /\ \A q \in RxPackets \ arrived : p <= q
  /\ Cardinality(sent) + Cardinality(arrived) < MaxPackets
  /\ arrived' = arrived \cup {p}
  /\ rpc' = "check" /\ rpkt' = p
  /\ UNCHANGED <<dev, lock, eventfd, irq, guestVars, used, buf, pollVars, room,
                 wire, skipped, stray>>

(* Both functions test that the queue is ready before they read its ring. *)
HasRoomReadyOnly == Ready(RX)
HasRoom == Ready(RX) /\ LastAvail(RX) # AvailIdx(RX)
RxStray == IF Ready(RX) /\ NoRing(RX) THEN "rx" ELSE stray

RxCheck ==
  /\ rpc = "check" /\ lock = "free"
  /\ rpc' = IF HasRoom THEN "write" ELSE "read"
  /\ rpkt' = IF HasRoom THEN rpkt ELSE Blank
  /\ room' = HasRoom /\ stray' = RxStray
  /\ UNCHANGED <<dev, lock, eventfd, irq, guestVars, used, buf, pollVars,
                 arrived, wire, skipped>>

(* The buffer is gone, or has not the size the packet needs: the packet is *)
(* dropped and the buffer stays available.                                 *)
RxDrop ==
  /\ rpc = "write" /\ lock = "free"
  /\ rpc' = "read" /\ rpkt' = Blank /\ room' = FALSE /\ stray' = RxStray
  /\ UNCHANGED <<dev, lock, eventfd, irq, guestVars, used, buf, pollVars,
                 arrived, wire, skipped>>

RxWrite ==
  /\ rpc = "write" /\ lock = "free" /\ HasRoom
  /\ buf' = [buf EXCEPT ![RX][NextHead(RX)] = rpkt]
  /\ Publish(RX)
  /\ rpc' = "flags" /\ rpkt' = Blank /\ room' = FALSE /\ stray' = RxStray
  /\ lock' = "rx"
  /\ UNCHANGED <<dev, eventfd, irq, guestVars, pollVars, arrived, wire, skipped>>

RxFlags ==
  /\ rpc = "flags" /\ rpc' = "read" /\ lock' = "free"
  /\ Signal(RX)
  /\ UNCHANGED <<eventfd, guestVars, used, buf, pollVars, rpkt, room, arrived,
                 wire, skipped, stray>>

-----------------------------------------------------------------------------
Driver ==
  \/ SetupStep \/ Unbind \/ PostRx \/ (\E p \in TxPackets : PostTx(p))
  \/ IsrRead \/ IsrServe \/ (\E q \in Queues : Handler(q))
PollThread ==
  (\E q \in Queues : PollWake(q)) \/ PollSample \/ TxSend \/ TxFlags \/ TxSkip
  \/ TxDone
Receiver == RxCheck \/ RxDrop \/ RxWrite \/ RxFlags

(* poll and timed_read time out and go round. *)
Timeouts == ppc = "poll" /\ rpc = "read" /\ UNCHANGED vars

(* Nothing is said of the device once it has gone astray. *)
Step == Driver \/ PollThread \/ Receiver \/ (\E p \in RxPackets : RxRead(p))
Gone == stray # "no" /\ UNCHANGED vars
Next == (stray = "no" /\ (Step \/ Timeouts)) \/ Gone
Spec == Init /\ [][Next]_vars

(* Host threads keep running, the guest finishes what it began and takes   *)
(* its interrupts; it need not send, post buffers or reset.                *)
Fairness ==
  /\ WF_vars(stray = "no" /\ PollThread) /\ WF_vars(stray = "no" /\ Receiver)
  /\ WF_vars(stray = "no" /\ SetupStep)
  /\ WF_vars(stray = "no" /\ (IsrRead \/ IsrServe))
  /\ \A q \in Queues : WF_vars(stray = "no" /\ Handler(q))
FairSpec == Spec /\ Fairness

-----------------------------------------------------------------------------
Taken(q) == IF (q = TX /\ ppc = "flags") \/ (q = RX /\ rpc = "flags")
              THEN Inc(LastAvail(q)) ELSE LastAvail(q)
Between(ring, from, to) ==
  [i \in 1..((to - from + IdxMod) % IdxMod) |-> ring[(from + i - 1) % Num]]
Waiting(q) == Between(avail[q].ring, Taken(q), avail[q].idx)
Returned(q) == Between(used[q].ring, lastUsed[q], used[q].idx)
Spots(s, h) == {i \in DOMAIN s : s[i] = h}
Places(q, h) ==
  {<<"driver", x>> : x \in {h} \cap freeHeads[q]}
  \cup {<<"avail", i>> : i \in Spots(Waiting(q), h)}
  \cup {<<"used", i>> : i \in Spots(Returned(q), h)}
  \cup {<<"skipped", x>> : x \in {h} \cap skipped[q]}
HasRings == Up \/ at = 1
Contents(q, hs) == [i \in DOMAIN hs |-> buf[q][hs[i]]]

(* While a queue has its rings, every head is in exactly one place: with   *)
(* the driver, waiting in the available ring, in the used ring, or passed  *)
(* over by the device; no receive buffer is ever passed over.  So the poll *)
(* thread, the receiver and a reset with buffers outstanding never give a  *)
(* buffer two owners or lose one.                                          *)
OneOwner ==
  HasRings =>
    /\ \A q \in Queues, h \in Heads : \E p \in Places(q, h) : Places(q, h) = {p}
    /\ skipped[RX] = {}

(* What can_write_packet saw still holds when write_packet looks again,    *)
(* unless the device was reset in between: the lock is released there, but *)
(* only the receiver takes buffers from queue 0 (queue_notify leaves it    *)
(* alone, also after a reset, because manual_recv survives it).            *)
RoomStaysRoom == room => HasRoom

(* The device walks a ring where there is none for one reason only: a late *)
(* kick reaches queue_notify, which does not test ready (its XXX comment   *)
(* asks whether it should), before the transmit queue is set up again.     *)
(* The address of the ring is then unset, as the reset left it, or the     *)
(* driver has written its lower half alone and the ring is above 4 GB.     *)
(* The receiver, which tests ready, never does.                            *)
OnlyUnreadyStrays ==
  stray # "no" =>
    /\ stray = "poll" /\ pq = TX /\ ~Ready(TX)
    /\ \/ dev.queue[TX].avail_addr = Null
       \/ LowHalfOnly(TX) /\ dev.queue_sel = TX /\ High # 0

(* A driver that comes back after a reset finds the device as it needs it: *)
(* features and MAC address readable, no queue ready.                      *)
SetupSucceeds == ~Failed

(* In each direction the device is a lossy link: what arrives was sent, is *)
(* unaltered, in order and at most once, also when buffers are reused and  *)
(* the device is reset.                                                    *)
RxLink == INSTANCE LossyLink WITH
  Packets <- RxPackets, offered <- arrived, out <- got,
  transit <- Contents(RX, Returned(RX))
             \o (IF rpc \in {"check", "write"} THEN <<rpkt>> ELSE <<>>)
Receives == RxLink!Spec
TxLink == INSTANCE LossyLink WITH
  Packets <- TxPackets, offered <- sent, out <- wire,
  transit <- IF HasRings THEN Contents(TX, Waiting(TX)) ELSE <<>>
Transmits == TxLink!Spec

(* In the end nothing is stuck, unless the device goes astray: every       *)
(* transmit buffer is back with the driver, sent or not (or passed over),  *)
(* and every packet put into a receive buffer has reached the guest.       *)
NothingStuck ==
  <>[](\/ stray # "no"
       \/ freeHeads[TX] \cup skipped[TX] = Heads /\ ~Fresh(RX))
=============================================================================
