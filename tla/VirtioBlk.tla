------------------------------ MODULE VirtioBlk ------------------------------
(***************************************************************************)
(* The virtio block device of virtio.c and blkdev.c at work: a driver in   *)
(* the guest, the split ring in guest memory, the ioeventfd poll thread,   *)
(* the thread-pool workers that do the I/O and complete the requests, the  *)
(* device lock s->lock, and the interrupt.                                 *)
(*                                                                         *)
(* A step of the model is what a thread does between two accesses another  *)
(* party can tell apart.  queue_notify (667-688) is Sample, one Recv* per  *)
(* turn of its loop and NotifyDone; virtio_consume_desc (606-630) is       *)
(* Publish (used entry and index) and Flags (the driver's suppression      *)
(* flag, then int_status and the irqfd).  thread_pool_run is one step here *)
(* because s->lock serialises its callers; ThreadPool has its detail.      *)
(*                                                                         *)
(* The driver, KVM's eventfd and irqfd are external: modelled from what    *)
(* the code expects of them (a split-ring driver that disables callbacks   *)
(* while it drains the used ring, and re-checks after enabling them).      *)
(***************************************************************************)
EXTENDS Integers, FiniteSets

CONSTANTS
  Num,         \* queue size (qs->num), a power of two
  IdxMod,      \* 2^16 in the code: ring indices wrap here; Num divides it
  NumWorkers,  \* threads of the pool (VIRTIO_BLK_MAX_QUEUE_NUM)
  Requests,    \* requests the driver may submit, numbered in that order
  Blank,       \* initial disk contents, and a zeroed buffer
  Poll,        \* the ioeventfd poll thread
  Free,        \* owner of an unlocked s->lock
  Reads, Writes, Others, \* the requests that may be of type IN, OUT, or a
               \* type virtio_block_recv_request has no case for
  Faulty,      \* the requests whose pread or pwrite may fail or fall short
  MaxResets,   \* bound on device resets
  Reorder      \* TRUE: a load may overtake the thread's older stores, as on
               \* x86; the fences of virtio_read16/write16 do not prevent it

ASSUME BlkAssumption ==
  /\ Num \in Nat \ {0} /\ NumWorkers \in Nat \ {0} /\ MaxResets \in Nat
  /\ IdxMod \in Nat \ {0} /\ IdxMod > Num /\ IdxMod % Num = 0
  /\ Poll \notin 0..NumWorkers /\ Free \notin 0..NumWorkers /\ Poll # Free
  /\ Requests \subseteq Nat /\ Blank \notin Requests
  /\ Reads \subseteq Requests /\ Writes \subseteq Requests
  /\ Others \subseteq Requests /\ Faulty \subseteq Requests
  /\ Reorder \in BOOLEAN

VARIABLES
  avail,           \* available ring in guest memory: flags, idx, ring
  used,            \* used ring in guest memory: idx, ring
  chain,           \* chain[h]: the request in the descriptor chain at head h
  freeHeads,       \* driver: heads it may use
  lastUsed,        \* driver: used entries it has consumed
  needKick,        \* driver: has added buffers it has not notified yet
  dpc,             \* driver: where its interrupt handler is
  eventfd,         \* ioeventfd of the queue: signalled since the last read
  irq,             \* interrupt latched and not yet taken
  attached,        \* the queue registers hold the ring addresses
  last_avail_idx, int_status, lock, \* device state of the same names
  pc, tgt, cur,    \* per thread: place, sampled avail index, request in hand
  disk,            \* the sector all requests are about
  kind, phase, xfer, answer, \* what happened to each request (BlockService)
  resets

ringVars == <<avail, used, chain>>
driverVars == <<freeHeads, lastUsed, needKick, dpc>>
devVars == <<attached, last_avail_idx, int_status>>
threadVars == <<pc, tgt, cur>>
histVars == <<disk, kind, phase, xfer, answer>>
vars == <<ringVars, driverVars, eventfd, irq, devVars, lock, threadVars,
          histVars, resets>>

Workers == 0..(NumWorkers - 1)
Threads == Workers \cup {Poll}
Heads == 0..(Num - 1)
Idx == 0..(IdxMod - 1)
AllKinds == {"in", "out", "other"}
KindsOf(r) == {k \in AllKinds : \/ k = "in" /\ r \in Reads
                                \/ k = "out" /\ r \in Writes
                                \/ k = "other" /\ r \in Others}

NoChain == [req |-> Blank, kind |-> "other", data |-> Blank, status |-> "none"]
NoAnswer == [status |-> "none", data |-> Blank]
NoRequest == [head |-> 0, kind |-> "other", data |-> Blank,
              status |-> "none", own |-> FALSE]
EmptyAvail == [quiet |-> FALSE, idx |-> 0, ring |-> [h \in Heads |-> 0]]
EmptyUsed == [idx |-> 0, ring |-> [h \in Heads |-> 0]]

(* The word queue_notify reads while the queue has no addresses (it does   *)
(* not test whether the queue is ready): guest physical address 2.         *)
LowMemoryWord == 0

Inc(i) == (i + 1) % IdxMod

Init ==
  /\ avail = EmptyAvail /\ used = EmptyUsed
  /\ chain = [h \in Heads |-> NoChain]
  /\ freeHeads = Heads /\ lastUsed = 0 /\ needKick = FALSE /\ dpc = "idle"
  /\ eventfd = FALSE /\ irq = FALSE
  /\ attached = FALSE /\ last_avail_idx = 0 /\ int_status = FALSE
  /\ lock = Free
  /\ pc = [t \in Threads |-> IF t = Poll THEN "poll" ELSE "idle"]
  /\ tgt = [t \in Threads |-> 0]
  /\ cur = [t \in Threads |-> NoRequest]
  /\ disk = Blank
  /\ kind = [r \in Requests |-> "none"]
  /\ phase = [r \in Requests |-> "new"]
  /\ xfer = [r \in Requests |-> Blank]
  /\ answer = [r \in Requests |-> NoAnswer]
  /\ resets = 0

-----------------------------------------------------------------------------
(* The driver (external).                                                   *)

Submit(r, h, k) ==
  /\ attached /\ phase[r] = "new"
  /\ \A q \in Requests : phase[q] = "new" => r <= q
  /\ h \in freeHeads /\ \A g \in freeHeads : h <= g
  /\ freeHeads' = freeHeads \ {h}
  /\ chain' = [chain EXCEPT ![h] =
       [req |-> r, kind |-> k, data |-> IF k = "out" THEN r ELSE Blank,
        status |-> "none"]]
  /\ avail' = [avail EXCEPT !.ring[avail.idx % Num] = h, !.idx = Inc(@)]
  /\ needKick' = TRUE
  /\ kind' = [kind EXCEPT ![r] = k]
  /\ phase' = [phase EXCEPT ![r] = "submitted"]
  /\ UNCHANGED <<used, lastUsed, dpc, eventfd, irq, devVars, lock, threadVars,
                 disk, xfer, answer, resets>>

(* The write to QUEUE_NOTIFY, which KVM turns into the eventfd. *)
Kick ==
  /\ needKick /\ needKick' = FALSE
  /\ eventfd' = TRUE
  /\ UNCHANGED <<ringVars, freeHeads, lastUsed, dpc, irq, devVars, lock,
                 threadVars, histVars, resets>>

(* The interrupt is taken; reading INTERRUPT_STATUS needs s->lock. *)
IsrRead ==
  /\ irq /\ dpc = "idle" /\ lock = Free
  /\ irq' = FALSE
  /\ dpc' = IF int_status THEN "ack" ELSE "idle"
  /\ UNCHANGED <<ringVars, freeHeads, lastUsed, needKick, eventfd, devVars,
                 lock, threadVars, histVars, resets>>

(* INTERRUPT_ACK of the bits just read. *)
IsrAck ==
  /\ dpc = "ack" /\ lock = Free
  /\ int_status' = FALSE
  /\ dpc' = "serve"
  /\ UNCHANGED <<ringVars, freeHeads, lastUsed, needKick, eventfd, irq,
                 attached, last_avail_idx, lock, threadVars, histVars, resets>>

(* Callbacks are disabled before the used ring is drained, and once more   *)
(* if the check after enabling them finds new entries.                     *)
Serve ==
  /\ dpc \in {"serve", "recheck"}
  /\ IF used.idx = lastUsed
       THEN dpc' = "idle" /\ UNCHANGED avail
       ELSE dpc' = "drain" /\ avail' = [avail EXCEPT !.quiet = TRUE]
  /\ UNCHANGED <<used, chain, freeHeads, lastUsed, needKick, eventfd, irq,
                 devVars, lock, threadVars, histVars, resets>>

Drain ==
  /\ dpc = "drain" /\ used.idx # lastUsed
  /\ LET h == used.ring[lastUsed % Num]
         r == chain[h].req
     IN /\ answer' = [answer EXCEPT ![r] =
             [status |-> chain[h].status, data |-> chain[h].data]]
        /\ phase' = [phase EXCEPT ![r] = "answered"]
        /\ freeHeads' = freeHeads \cup {h}
  /\ lastUsed' = Inc(lastUsed)
  /\ UNCHANGED <<ringVars, needKick, dpc, eventfd, irq, devVars, lock,
                 threadVars, disk, kind, xfer, resets>>

EnableCb ==
  /\ dpc = "drain" /\ used.idx = lastUsed
  /\ avail' = [avail EXCEPT !.quiet = FALSE]
  /\ dpc' = "recheck"
  /\ UNCHANGED <<used, chain, freeHeads, lastUsed, needKick, eventfd, irq,
                 devVars, lock, threadVars, histVars, resets>>

RestartIndexKept == last_avail_idx
RestartIndex == 0

(* Writing 0 to STATUS.  The code tests only for the lock; the second line *)
(* is the driver's, which resets a disk when no request is outstanding and *)
(* its handler is not running.  A kick may still be on its way.  (In       *)
(* VirtioNet the device is reset with buffers outstanding.)                *)
Reset ==
  /\ attached /\ resets < MaxResets /\ lock = Free
  /\ freeHeads = Heads /\ dpc = "idle" /\ ~needKick
  /\ int_status' = FALSE /\ attached' = FALSE /\ last_avail_idx' = RestartIndex
  /\ resets' = resets + 1
  /\ UNCHANGED <<ringVars, driverVars, eventfd, irq, lock, threadVars,
                 histVars>>

(* The driver lays out zeroed rings and writes their addresses. *)
Attach ==
  /\ ~attached /\ lock = Free
  /\ avail' = EmptyAvail /\ used' = EmptyUsed /\ lastUsed' = 0
  /\ attached' = TRUE
  /\ UNCHANGED <<chain, freeHeads, needKick, dpc, eventfd, irq,
                 last_avail_idx, int_status, lock, threadVars, histVars,
                 resets>>

Driver ==
  \/ \E r \in Requests, h \in Heads : \E k \in KindsOf(r) : Submit(r, h, k)
  \/ Kick \/ IsrRead \/ IsrAck \/ Serve \/ Drain \/ EnableCb
  \/ Reset \/ Attach

-----------------------------------------------------------------------------
(* The threads of the device.                                               *)

Goto(t, from, to) == pc[t] = from /\ pc' = [pc EXCEPT ![t] = to]

guestVars == <<ringVars, driverVars>>

(* poll() reports the eventfd and read() clears it (538-555). *)
PollWake ==
  /\ eventfd /\ eventfd' = FALSE
  /\ Goto(Poll, "poll", "lock")
  /\ UNCHANGED <<guestVars, irq, devVars, lock, tgt, cur, histVars, resets>>

(* poll() times out and the loop goes round. *)
PollTimeout == pc[Poll] = "poll" /\ ~eventfd /\ UNCHANGED vars

(* s->lock is taken by the poll thread to notify the queue, by a worker in *)
(* virtio_block_req_cb to complete its request first.                      *)
TakeLock(t) ==
  /\ lock = Free /\ lock' = t
  /\ Goto(t, "lock", IF t = Poll THEN "sample" ELSE "publish")
  /\ UNCHANGED <<guestVars, eventfd, irq, devVars, tgt, cur, histVars, resets>>

(* avail_idx is read once, before the loop. *)
Sample(t) ==
  /\ Goto(t, "sample", "notify")
  /\ tgt' = [tgt EXCEPT ![t] = IF attached THEN avail.idx ELSE LowMemoryWord]
  /\ UNCHANGED <<guestVars, eventfd, irq, devVars, lock, cur, histVars, resets>>

NextHead == avail.ring[last_avail_idx % Num]
Idle(w) == pc[w] = "idle"
PoolFullEarly == \E w \in Workers : ~Idle(w)
PoolFull == \A w \in Workers : ~Idle(w)
RunnableKind(k) == k \in {"in", "out"}

(* The head of the next turn of the loop, when there is one. *)
Receives(t) == pc[t] = "notify" /\ last_avail_idx # tgt[t]

(* device_recv copies the header and, for a write, the data. *)
Received(st, mine) ==
  LET c == chain[NextHead]
  IN [head |-> NextHead, kind |-> c.kind, data |-> c.data, status |-> st,
      own |-> mine]

AdvanceNot == UNCHANGED last_avail_idx
Advance == last_avail_idx' = Inc(last_avail_idx)

(* A type other than IN and OUT: no completion, the head is forgotten. *)
RecvIgnore(t) ==
  /\ Receives(t) /\ ~RunnableKind(chain[NextHead].kind)
  /\ Advance
  /\ UNCHANGED <<guestVars, eventfd, irq, attached, int_status, lock,
                 threadVars, histVars, resets>>

(* thread_pool_run gives the request to the first worker not working. *)
RecvRun(t, w) ==
  /\ Receives(t) /\ RunnableKind(chain[NextHead].kind)
  /\ Idle(w) /\ \A v \in Workers : v < w => ~Idle(v)
  /\ pc' = [pc EXCEPT ![w] = "io"]
  /\ cur' = [cur EXCEPT ![w] = Received("none", TRUE)]
  /\ Advance
  /\ UNCHANGED <<guestVars, eventfd, irq, attached, int_status, lock, tgt,
                 histVars, resets>>

(* Every worker is working: read_async / write_async fail and the request  *)
(* is completed with IOERR on the spot, in the caller's thread.            *)
RecvRefuse(t) ==
  /\ Receives(t) /\ RunnableKind(chain[NextHead].kind)
  /\ PoolFull
  /\ pc' = [pc EXCEPT ![t] = "publish"]
  /\ cur' = [cur EXCEPT ![t] = Received("IOERR", FALSE)]
  /\ Advance
  /\ phase' = [phase EXCEPT ![chain[NextHead].req] = "failed"]
  /\ UNCHANGED <<guestVars, eventfd, irq, attached, int_status, lock, tgt,
                 disk, kind, xfer, answer, resets>>

EventfdAfterClear(t) == eventfd /\ t # Poll
EventfdAfter(t) == eventfd

(* The loop is done; the lock is released.  A worker then returns from its *)
(* callback and still counts as working until it clears its flag.          *)
NotifyDone(t) ==
  /\ last_avail_idx = tgt[t]
  /\ Goto(t, "notify", IF t = Poll THEN "poll" ELSE "finish")
  /\ lock' = Free
  /\ tgt' = [tgt EXCEPT ![t] = 0]
  /\ eventfd' = EventfdAfter(t)
  /\ UNCHANGED <<guestVars, irq, devVars, cur, histVars, resets>>

-----------------------------------------------------------------------------
(* virtio_block_req_end and virtio_consume_desc.                            *)

AfterConsume(t) == IF cur[t].own THEN "sample" ELSE "notify"

StatusOfOK(t) == "OK"
StatusOf(t) == cur[t].status

(* The status (and for a read the data) is copied into the chain, then the *)
(* used entry and index are written.                                       *)
WriteUsed(t) ==
  LET h == cur[t].head
      moved == IF cur[t].kind = "in" THEN cur[t].data ELSE chain[h].data
  IN /\ chain' = [chain EXCEPT ![h] =
          [@ EXCEPT !.status = StatusOf(t), !.data = moved]]
     /\ used' = [used EXCEPT !.ring[used.idx % Num] = h, !.idx = Inc(@)]

SuppressedNot == ~avail.quiet
Suppressed == avail.quiet
Signal == int_status' = TRUE /\ irq' = TRUE

(* The request's buffers are freed; a local variable is dead. *)
Forget(t) == cur' = [cur EXCEPT ![t] = NoRequest]

Publish(t) ==
  /\ Goto(t, "publish", "flags")
  /\ WriteUsed(t)
  /\ UNCHANGED <<avail, driverVars, eventfd, irq, devVars, lock, tgt, cur,
                 histVars, resets>>

Flags(t) ==
  /\ Goto(t, "flags", AfterConsume(t))
  /\ IF Suppressed THEN UNCHANGED <<int_status, irq>> ELSE Signal
  /\ Forget(t)
  /\ UNCHANGED <<guestVars, eventfd, attached, last_avail_idx, lock, tgt,
                 histVars, resets>>

(* With Reorder, the flags are loaded while the stores of Publish are      *)
(* still in the store buffer.                                              *)
EarlyFlags(t) ==
  /\ Reorder
  /\ Goto(t, "publish", IF Suppressed THEN "storeQuiet" ELSE "storeLoud")
  /\ UNCHANGED <<guestVars, eventfd, irq, devVars, lock, tgt, cur, histVars,
                 resets>>

LatePublish(t) ==
  /\ pc[t] \in {"storeQuiet", "storeLoud"}
  /\ pc' = [pc EXCEPT ![t] = AfterConsume(t)]
  /\ WriteUsed(t)
  /\ IF pc[t] = "storeQuiet" THEN UNCHANGED <<int_status, irq>> ELSE Signal
  /\ Forget(t)
  /\ UNCHANGED <<avail, driverVars, eventfd, attached, last_avail_idx, lock,
                 tgt, histVars, resets>>

-----------------------------------------------------------------------------
(* block_io_worker_fn.                                                      *)

Outcomes(w) == IF chain[cur[w].head].req \in Faulty THEN BOOLEAN ELSE {TRUE}

(* What pread/pwrite may do: a full transfer, or an error or short count   *)
(* after which the data may or may not have moved.                         *)
Transfer(w, ok) ==
  LET r == chain[cur[w].head].req
      st == IF ok THEN "OK" ELSE "IOERR"
  IN /\ phase' = [phase EXCEPT ![r] = IF ok THEN "performed" ELSE "failed"]
     /\ \/ /\ cur[w].kind = "in"
           /\ \E d \in {disk} \cup (IF ok THEN {} ELSE {Blank}) :
                cur' = [cur EXCEPT ![w] = [@ EXCEPT !.data = d, !.status = st]]
           /\ xfer' = IF ok THEN [xfer EXCEPT ![r] = disk] ELSE xfer
           /\ UNCHANGED disk
        \/ /\ cur[w].kind = "out"
           /\ \E d \in {cur[w].data} \cup (IF ok THEN {} ELSE {disk}) :
                disk' = d
           /\ cur' = [cur EXCEPT ![w] = [@ EXCEPT !.status = st]]
           /\ xfer' = IF ok THEN [xfer EXCEPT ![r] = cur[w].data] ELSE xfer

DoIO(w) ==
  /\ Goto(w, "io", "lock")
  /\ \E ok \in Outcomes(w) : Transfer(w, ok)
  /\ UNCHANGED <<guestVars, eventfd, irq, devVars, lock, tgt, kind, answer,
                 resets>>

(* The task has returned; the worker clears task_fn and is_working. *)
Finish(w) ==
  /\ Goto(w, "finish", "idle")
  /\ UNCHANGED <<guestVars, eventfd, irq, devVars, lock, tgt, cur, histVars,
                 resets>>

-----------------------------------------------------------------------------
QueueNotify(t) ==
  \/ Sample(t) \/ RecvIgnore(t) \/ (\E w \in Workers : RecvRun(t, w))
  \/ RecvRefuse(t) \/ NotifyDone(t)

ConsumeDesc(t) == Publish(t) \/ Flags(t) \/ EarlyFlags(t) \/ LatePublish(t)

Thread(t) == TakeLock(t) \/ QueueNotify(t) \/ ConsumeDesc(t)

PollThread == PollWake \/ Thread(Poll)

Worker(w) == DoIO(w) \/ Thread(w) \/ Finish(w)

Next == Driver \/ PollThread \/ PollTimeout \/ \E w \in Workers : Worker(w)

Spec == Init /\ [][Next]_vars

(* Every host thread keeps running, a transfer returns, the lock is handed *)
(* over, and the guest takes its interrupts and finishes what it began;    *)
(* it need not submit anything or reset.                                   *)
Fairness ==
  /\ WF_vars(PollThread)
  /\ \A w \in Workers : WF_vars(Worker(w))
  /\ WF_vars(Kick)
  /\ WF_vars(IsrRead \/ IsrAck \/ Serve \/ Drain \/ EnableCb)

FairSpec == Spec /\ Fairness

-----------------------------------------------------------------------------
(* The disk the guest sees: each request takes effect at most once, between *)
(* its submission and its one answer, and the answer carries the status and *)
(* the data of that effect, whatever the workers, the ring indices and the  *)
(* order of completions do.                                                 *)
DS == INSTANCE BlockService
DiskService == DS!Spec

Distance(a, b) == (b - a + IdxMod) % IdxMod
AvailAt(h) ==
  {i \in 0..(Distance(last_avail_idx, avail.idx) - 1) :
     avail.ring[(last_avail_idx + i) % Num] = h}
UsedAt(h) ==
  {i \in 0..(Distance(lastUsed, used.idx) - 1) :
     used.ring[(lastUsed + i) % Num] = h}
InHand(t) == pc[t] \in {"publish", "storeQuiet", "storeLoud"}
                       \cup (IF t = Poll THEN {} ELSE {"io", "lock"})
HeldBy(h) == {t \in Threads : InHand(t) /\ cur[t].head = h}

(* While the queue is set up, every descriptor head is in exactly one      *)
(* place: free, waiting in the available ring, in one thread's hands, or   *)
(* in the used ring; only a request of an ignored type is in none.  So     *)
(* queue_notify from two threads takes no head twice and skips none, and   *)
(* the rings never overrun across the wrap of their indices.               *)
HeadInOnePlace ==
  attached =>
    \A h \in Heads :
      LET places == (IF h \in freeHeads THEN 1 ELSE 0) + Cardinality(AvailAt(h))
                    + Cardinality(UsedAt(h)) + Cardinality(HeldBy(h))
      IN places = 1 \/ (places = 0 /\ chain[h].kind = "other")

(* A completion is not lost: when the used ring holds an entry the driver  *)
(* has not seen, its handler is not running and no thread is half-way      *)
(* through virtio_consume_desc, an interrupt is latched and                *)
(* INTERRUPT_STATUS will say it is for this device.                        *)
CompletionAnnounced ==
  (/\ attached /\ used.idx # lastUsed /\ dpc = "idle"
   /\ \A t \in Threads : pc[t] # "flags")
    => irq /\ int_status

Refusing == \E t \in Threads : pc[t] = "notify" /\ pc'[t] = "publish"

(* With at least as many workers as descriptor heads (8 and 8), a request  *)
(* is refused with IOERR only while some worker has already completed its  *)
(* own request and has merely not cleared its is_working flag yet.         *)
RefusedOnlyByStraggler ==
  [][Refusing => \E w \in Workers : pc[w] \in {"sample", "notify", "finish"}]_vars

(* Every read and write the driver submits is answered: the kick wakes the *)
(* poll thread, a worker or an immediate IOERR completes the request, and  *)
(* the interrupt brings the driver to the used ring.  (There are finitely  *)
(* many requests and an answer is final, so each of them is answered iff   *)
(* from some moment on none is outstanding.)                               *)
RequestsAnswered ==
  <>[](\A r \in Requests :
         RunnableKind(kind[r]) => phase[r] \in {"new", "answered"})
=============================================================================
