--------------------------- MODULE VirtioBlkProofs ---------------------------
(***************************************************************************)
(* Proofs about VirtioBlk, for every queue size, index width, number of    *)
(* workers and set of requests.                                            *)
(*                                                                         *)
(* PlaceInv is the inductive invariant.  HeadInOnePlace counts places; the *)
(* invariant says instead that the two rings hold distinct heads (RingOK   *)
(* of RingProofs), that no head is in two places (Apart), that none is     *)
(* missing (Accounted), and what keeps this so: who is inside s->lock      *)
(* (ThreadInv), that the device is at rest while it is not attached        *)
(* (OffInv), and that queue_notify never runs past what the driver offered *)
(* (TgtInv).  QuietInv adds what the announcement of completions needs,    *)
(* ReqInv what ties chains and requests in hand to the requests' histories *)
(* (for the refinement of BlockService).                                   *)
(***************************************************************************)
EXTENDS VirtioBlk, RingProofs, FiniteSetTheorems, TLAPS

Data == Requests \cup {Blank}
Statuses == {"none", "OK", "IOERR"}
Completing == {"publish", "flags", "storeQuiet", "storeLoud"}
Inside == {"sample", "notify"} \cup Completing
Places == Inside \cup {"poll", "lock", "idle", "io", "finish"}
Chains == [req : Data, kind : AllKinds, data : Data, status : Statuses]
Currents == [head : Heads, kind : AllKinds, data : Data, status : Statuses,
             own : BOOLEAN]

RingType ==
  /\ avail \in [quiet : BOOLEAN, idx : Idx, ring : [Heads -> Heads]]
  /\ used \in [idx : Idx, ring : [Heads -> Heads]]
  /\ chain \in [Heads -> Chains]
  /\ freeHeads \subseteq Heads /\ lastUsed \in Idx /\ last_avail_idx \in Idx
ThreadType ==
  /\ pc \in [Threads -> Places] /\ tgt \in [Threads -> Idx]
  /\ cur \in [Threads -> Currents]
HistType ==
  /\ disk \in Data /\ xfer \in [Requests -> Data]
  /\ kind \in [Requests -> AllKinds \cup {"none"}]
  /\ phase \in [Requests ->
                {"new", "submitted", "performed", "failed", "answered"}]
  /\ answer \in [Requests -> [status : Statuses, data : Data]]
TypeInv == RingType /\ ThreadType /\ HistType

(* Who is inside s->lock, and whose request a thread completes there. *)
ThreadInv ==
  /\ \A t \in Threads : pc[t] \in Inside => lock = t
  /\ pc[Poll] \in Inside \cup {"poll", "lock"}
  /\ \A w \in Workers : pc[w] \in Inside \cup {"idle", "io", "lock", "finish"}
  /\ pc[Poll] \in Completing => ~cur[Poll].own
  /\ \A w \in Workers : pc[w] \in {"io", "lock"} => cur[w].own

(* Before the driver sets the queue up, and between a reset and the next   *)
(* set-up, the device is at rest and queue_notify finds nothing to do.     *)
OffInv ==
  ~attached =>
    /\ last_avail_idx = 0 /\ freeHeads = Heads /\ dpc = "idle" /\ ~int_status
    /\ \A t \in Threads : /\ ~InHand(t) /\ pc[t] # "flags"
                          /\ pc[t] = "notify" => tgt[t] = 0

InAvail(h) == Holds(avail.ring, Num, IdxMod, last_avail_idx, avail.idx, h)
InUsed(h) == Holds(used.ring, Num, IdxMod, lastUsed, used.idx, h)
Has(t, h) == InHand(t) /\ cur[t].head = h

(* HeadInOnePlace without counting, together with what makes it inductive: *)
(* neither ring holds a head twice.                                        *)
Rings ==
  /\ RingOK(avail.ring, Num, IdxMod, last_avail_idx, avail.idx)
  /\ RingOK(used.ring, Num, IdxMod, lastUsed, used.idx)
Apart ==
  /\ \A h \in freeHeads :
       ~InAvail(h) /\ ~InUsed(h) /\ \A t \in Threads : ~Has(t, h)
  /\ \A h \in Heads : InAvail(h) => ~InUsed(h) /\ \A t \in Threads : ~Has(t, h)
  /\ \A h \in Heads : InUsed(h) => \A t \in Threads : ~Has(t, h)
  /\ \A h \in Heads : \A t, u \in Threads : Has(t, h) /\ Has(u, h) => t = u
Accounted ==
  \A h \in Heads : \/ h \in freeHeads \/ InAvail(h) \/ InUsed(h)
                   \/ \E t \in Threads : Has(t, h)
                   \/ chain[h].kind = "other"
HeadInv == attached => Rings /\ Apart /\ Accounted

(* The index queue_notify sampled is not past the available index. *)
Notifying(t) == pc[t] = "notify" \/ (pc[t] \in Completing /\ ~cur[t].own)
TgtInv ==
  attached => \A t \in Threads : Notifying(t) =>
    Gap(last_avail_idx, tgt[t], IdxMod) <= Gap(last_avail_idx, avail.idx, IdxMod)

PlaceInv == TypeInv /\ ThreadInv /\ OffInv /\ HeadInv /\ TgtInv

(* What the assumptions on the constants say of the sets built from them. *)
LEMMA Basics ==
  /\ Poll \in Threads /\ Poll \notin Workers /\ Workers \subseteq Threads
  /\ Free \notin Threads /\ Blank \notin Requests
  /\ Sizes(Num, IdxMod) /\ 0 \in Heads /\ 0 \in Idx
  /\ \A i \in Int : i % Num \in Heads /\ i % IdxMod \in Idx
  /\ Heads \subseteq Int /\ Idx \subseteq Int
<1>1. /\ Poll \in Threads /\ Poll \notin Workers /\ Workers \subseteq Threads
      /\ Free \notin Threads /\ Blank \notin Requests
  BY BlkAssumption DEF Threads, Workers
<1>2. Sizes(Num, IdxMod) /\ 0 \in Heads /\ 0 \in Idx
  BY BlkAssumption DEF Sizes, Heads, Idx
<1>3. \A i \in Int : i % Num \in Heads /\ i % IdxMod \in Idx
  BY Zenon, BlkAssumption, ModDef DEF Heads, Idx
<1>4. Heads \subseteq Int /\ Idx \subseteq Int
  BY DEF Heads, Idx
<1> QED BY Zenon, <1>1, <1>2, <1>3, <1>4

(* The actions a step may be, one by one. *)
LEMMA Cases ==
  ASSUME [Next]_vars
  PROVE  \/ \E r \in Requests, h \in Heads, k \in AllKinds : Submit(r, h, k)
         \/ Kick \/ IsrRead \/ IsrAck \/ Serve \/ Drain \/ EnableCb
         \/ Reset \/ Attach \/ PollWake
         \/ \E t \in Threads :
              \/ TakeLock(t) \/ Sample(t) \/ RecvIgnore(t) \/ RecvRefuse(t)
              \/ NotifyDone(t) \/ Publish(t) \/ Flags(t) \/ EarlyFlags(t)
              \/ LatePublish(t) \/ \E w \in Workers : RecvRun(t, w)
         \/ \E w \in Workers : DoIO(w) \/ Finish(w)
         \/ UNCHANGED vars
<1>1. CASE Driver
  BY Zenon, <1>1 DEF Driver, KindsOf
<1>2. CASE PollThread
  BY Zenon, <1>2, Basics DEF PollThread, Thread, QueueNotify, ConsumeDesc
<1>3. CASE PollTimeout
  BY Zenon, <1>3 DEF PollTimeout
<1>4. ASSUME NEW w \in Workers, Worker(w)
      PROVE  \/ \E t \in Threads :
                  \/ TakeLock(t) \/ Sample(t) \/ RecvIgnore(t) \/ RecvRefuse(t)
                  \/ NotifyDone(t) \/ Publish(t) \/ Flags(t) \/ EarlyFlags(t)
                  \/ LatePublish(t) \/ \E v \in Workers : RecvRun(t, v)
             \/ DoIO(w) \/ Finish(w)
  BY Zenon, <1>4, Basics DEF Worker, Thread, QueueNotify, ConsumeDesc
<1> QED BY Zenon, <1>1, <1>2, <1>3, <1>4 DEF Next

-----------------------------------------------------------------------------
(* Types. *)

(* The rings, the chains and the indices keep their types: indices stay    *)
(* within 16 bits (IdxMod), ring entries within the queue.                 *)
LEMMA RingTypeStep ==
  ASSUME TypeInv, [Next]_vars
  PROVE  RingType'
<1> USE Basics DEF TypeInv, RingType, ThreadType
<1>0. ASSUME NEW i \in Idx PROVE Inc(i) \in Idx /\ i % Num \in Heads
  BY DEF Inc
<1>1. ASSUME NEW r \in Requests, NEW h \in Heads, NEW k \in AllKinds,
             Submit(r, h, k)
      PROVE  RingType'
  <2>1. avail' \in [quiet : BOOLEAN, idx : Idx, ring : [Heads -> Heads]]
    BY Zenon, <1>0, <1>1 DEF Submit
  <2>2. [req |-> r, kind |-> k, data |-> IF k = "out" THEN r ELSE Blank,
         status |-> "none"] \in Chains
    BY Zenon DEF Chains, Data, Statuses
  <2>3. chain' \in [Heads -> Chains]
    BY Zenon, <1>1, <2>2 DEF Submit
  <2> QED BY Zenon, <1>1, <2>1, <2>3 DEF Submit, devVars
<1>2. CASE Kick \/ IsrRead \/ IsrAck \/ PollWake
  BY Zenon, <1>2 DEF Kick, IsrRead, IsrAck, PollWake, ringVars, devVars,
     driverVars,
              guestVars
<1>3. CASE Serve \/ EnableCb
  BY Zenon, <1>3 DEF Serve, EnableCb, devVars
<1>4. CASE Drain
  <2>1. lastUsed % Num \in Heads /\ Inc(lastUsed) \in Idx
    BY Zenon, <1>0
  <2> QED BY Zenon, <1>4, <2>1 DEF Drain, ringVars, devVars
<1>5. CASE Reset
  BY Zenon, <1>5 DEF Reset, RestartIndex, ringVars, driverVars
<1>6. CASE Attach
  BY Zenon, <1>6 DEF Attach, EmptyAvail, EmptyUsed
<1>7. ASSUME NEW t \in Threads,
             TakeLock(t) \/ Sample(t) \/ NotifyDone(t) \/ Flags(t) \/ EarlyFlags(t)
      PROVE  RingType'
  BY Zenon, <1>7 DEF TakeLock, Sample, NotifyDone, Flags, EarlyFlags, guestVars,
              ringVars, driverVars, devVars
<1>8. ASSUME NEW t \in Threads,
             RecvIgnore(t) \/ RecvRefuse(t) \/ \E w \in Workers : RecvRun(t, w)
      PROVE  RingType'
  BY Zenon, <1>0, <1>8 DEF RecvIgnore, RecvRefuse, RecvRun, Advance, guestVars,
                    ringVars, driverVars
<1>9. ASSUME NEW t \in Threads, Publish(t) \/ LatePublish(t)
      PROVE  RingType'
  <2>1. cur[t] \in Currents
    BY Zenon
  <2>2. WriteUsed(t)
    BY Zenon, <1>9 DEF Publish, LatePublish
  <2>3. chain' \in [Heads -> Chains]
    <3> DEFINE h == cur[t].head
               d == IF cur[t].kind = "in" THEN cur[t].data ELSE chain[h].data
               c == [chain[h] EXCEPT !.status = cur[t].status, !.data = d]
    <3>0. h \in Heads /\ cur[t].status \in Statuses /\ d \in Data
      BY Zenon, <2>1 DEF Currents, Chains
    <3>1. h \in Heads /\ c \in Chains
      <4> HIDE DEF h, d
      <4> QED BY Zenon, <3>0 DEF Chains
    <3>2. chain' = [chain EXCEPT ![h] = c]
      BY Zenon, <2>2, <3>1 DEF WriteUsed, StatusOf
    <3> QED BY Zenon, <3>1, <3>2
  <2>4. used' \in [idx : Idx, ring : [Heads -> Heads]]
    BY Zenon, <1>0, <2>1, <2>2 DEF WriteUsed, Currents
  <2> QED BY Zenon, <1>9, <2>3, <2>4 DEF Publish, LatePublish, driverVars,
             devVars
<1>10. ASSUME NEW w \in Workers, DoIO(w) \/ Finish(w)
       PROVE  RingType'
  BY Zenon, <1>10 DEF DoIO, Finish, guestVars, ringVars, driverVars, devVars
<1>11. CASE UNCHANGED vars
  BY Zenon, <1>11 DEF vars, ringVars, driverVars, devVars
<1> QED BY Zenon, <1>1, <1>2, <1>3, <1>4, <1>5, <1>6, <1>7, <1>8, <1>9, <1>10,
           <1>11,
           Cases

(* So do the threads' places, their sampled indices and the requests they  *)
(* have in hand (pool->data of a worker).                                  *)
LEMMA ThreadTypeStep ==
  ASSUME TypeInv, [Next]_vars
  PROVE  ThreadType'
<1> USE Basics DEF TypeInv, RingType, ThreadType, HistType
<1>0. NoRequest \in Currents
  BY Zenon DEF NoRequest, Currents, Data, Statuses, AllKinds
<1>1. CASE \/ \E r \in Requests, h \in Heads, k \in AllKinds : Submit(r, h, k)
           \/ Kick \/ IsrRead \/ IsrAck \/ Serve \/ Drain \/ EnableCb
           \/ Reset \/ Attach \/ UNCHANGED vars
  <2>1. UNCHANGED threadVars
    BY Zenon, <1>1 DEF Submit, Kick, IsrRead, IsrAck, Serve, Drain, EnableCb, Reset,
                       Attach, vars
  <2> QED BY Zenon, <2>1 DEF threadVars
<1>2. CASE PollWake
  BY Zenon, <1>2 DEF PollWake, Goto, Places
<1>3. ASSUME NEW t \in Threads,
             TakeLock(t) \/ NotifyDone(t) \/ Publish(t) \/ EarlyFlags(t)
      PROVE  ThreadType'
  <2>1. CASE TakeLock(t)
    BY Zenon, <2>1 DEF TakeLock, Goto, Places, Inside, Completing
  <2>2. CASE NotifyDone(t)
    BY Zenon, <2>2 DEF NotifyDone, Goto, Places
  <2>3. CASE Publish(t) \/ EarlyFlags(t)
    BY Zenon, <2>3 DEF Publish, EarlyFlags, Goto, Places, Inside, Completing
  <2> QED BY Zenon, <1>3, <2>1, <2>2, <2>3
<1>4. ASSUME NEW t \in Threads, Sample(t)
      PROVE  ThreadType'
  BY Zenon, <1>4 DEF Sample, Goto, Places, Inside, LowMemoryWord
<1>5. ASSUME NEW t \in Threads, RecvIgnore(t)
      PROVE  ThreadType'
  BY Zenon, <1>5 DEF RecvIgnore, threadVars
<1>6. ASSUME NEW st \in Statuses, NEW mine \in BOOLEAN
      PROVE  Received(st, mine) \in Currents
  <2>1. last_avail_idx % Num \in Heads
    BY Zenon
  <2>2. NextHead \in Heads
    BY Zenon, <2>1 DEF NextHead
  <2>3. chain[NextHead] \in Chains
    BY Zenon, <2>2
  <2> QED BY Zenon, <2>2, <2>3 DEF Received, Currents, Chains
<1>7. ASSUME NEW t \in Threads, RecvRefuse(t)
      PROVE  ThreadType'
  <2>1. Received("IOERR", FALSE) \in Currents
    BY Zenon, <1>6 DEF Statuses
  <2> QED BY Zenon, <1>7, <2>1 DEF RecvRefuse, Places, Inside, Completing
<1>8. ASSUME NEW t \in Threads, NEW w \in Workers, RecvRun(t, w)
      PROVE  ThreadType'
  <2>1. Received("none", TRUE) \in Currents
    BY Zenon, <1>6 DEF Statuses
  <2> QED BY Zenon, <1>8, <2>1 DEF RecvRun, Places
<1>9. ASSUME NEW t \in Threads, Flags(t) \/ LatePublish(t)
      PROVE  ThreadType'
  <2>1. AfterConsume(t) \in Places
    BY Zenon DEF AfterConsume, Places, Inside
  <2>2. pc' = [pc EXCEPT ![t] = AfterConsume(t)] /\ tgt' = tgt /\ Forget(t)
    BY Zenon, <1>9 DEF Flags, LatePublish, Goto
  <2> QED BY Zenon, <1>0, <2>1, <2>2 DEF Forget
<1>10. ASSUME NEW w \in Workers, DoIO(w)
       PROVE  ThreadType'
  <2>1. pc' \in [Threads -> Places] /\ tgt' = tgt
    BY Zenon, <1>10 DEF DoIO, Goto, Places
  <2>2. cur[w] \in Currents
    BY Zenon
  <2>3. PICK d \in Data, st \in Statuses :
          \/ cur' = [cur EXCEPT ![w] = [@ EXCEPT !.data = d, !.status = st]]
          \/ cur' = [cur EXCEPT ![w] = [@ EXCEPT !.status = st]]
    <3>1. disk \in Data /\ Blank \in Data
      BY Zenon DEF Data
    <3>2. "OK" \in Statuses /\ "IOERR" \in Statuses
      BY Zenon DEF Statuses
    <3>3. PICK ok \in BOOLEAN : Transfer(w, ok)
      BY Zenon, <1>10 DEF DoIO, Outcomes
    <3>4. CASE ok
      BY Zenon, <3>1, <3>2, <3>3, <3>4 DEF Transfer
    <3>5. CASE ~ok
      BY Zenon, <3>1, <3>2, <3>3, <3>5 DEF Transfer
    <3> QED BY Zenon, <3>4, <3>5
  <2>4. /\ [cur[w] EXCEPT !.data = d, !.status = st] \in Currents
        /\ [cur[w] EXCEPT !.status = st] \in Currents
    BY Zenon, <2>2 DEF Currents
  <2>5. \/ cur' = [cur EXCEPT ![w] = [cur[w] EXCEPT !.data = d, !.status = st]]
        \/ cur' = [cur EXCEPT ![w] = [cur[w] EXCEPT !.status = st]]
    BY Zenon, <2>3
  <2>6. cur' \in [Threads -> Currents]
    BY Zenon, <2>4, <2>5
  <2> QED BY Zenon, <2>1, <2>6
<1>11. ASSUME NEW w \in Workers, Finish(w)
       PROVE  ThreadType'
  BY Zenon, <1>11 DEF Finish, Goto, Places
<1> QED BY Zenon, <1>1, <1>2, <1>3, <1>4, <1>5, <1>7, <1>8, <1>9, <1>10,
           <1>11, Cases

(* So does the history of the requests. *)
LEMMA HistTypeStep ==
  ASSUME TypeInv, [Next]_vars
  PROVE  HistType'
<1> USE Basics DEF TypeInv, RingType, ThreadType, HistType
<1>1. ASSUME NEW r \in Requests, NEW h \in Heads, NEW k \in AllKinds,
             Submit(r, h, k)
      PROVE  HistType'
  BY Zenon, <1>1 DEF Submit
<1>2. CASE \/ Kick \/ IsrRead \/ IsrAck \/ Serve \/ EnableCb
           \/ Reset \/ Attach \/ UNCHANGED vars \/ PollWake
  BY Zenon, <1>2 DEF Kick, IsrRead, IsrAck, Serve, EnableCb, Reset,
              Attach, vars, histVars, PollWake
<1>3. CASE Drain
  <2>1. lastUsed % Num \in Heads
    BY Zenon
  <2>2. chain[used.ring[lastUsed % Num]] \in Chains
    BY Zenon, <2>1
  <2> QED BY Zenon, <1>3, <2>2 DEF Drain, Chains
<1>4. ASSUME NEW t \in Threads,
             \/ TakeLock(t) \/ Sample(t) \/ RecvIgnore(t) \/ NotifyDone(t)
             \/ Publish(t) \/ Flags(t) \/ EarlyFlags(t) \/ LatePublish(t)
             \/ \E w \in Workers : RecvRun(t, w)
      PROVE  HistType'
  BY Zenon, <1>4 DEF TakeLock, Sample, RecvIgnore, NotifyDone, Publish, Flags,
              EarlyFlags, LatePublish, RecvRun, histVars
<1>5. ASSUME NEW t \in Threads, RecvRefuse(t)
      PROVE  HistType'
  BY Zenon, <1>5 DEF RecvRefuse
<1>6. ASSUME NEW w \in Workers, DoIO(w)
      PROVE  HistType'
  <2>1. cur[w] \in Currents
    BY Zenon
  <2>2. PICK ok : Transfer(w, ok)
    BY Zenon, <1>6 DEF DoIO
  <2>3. phase' \in [Requests ->
                {"new", "submitted", "performed", "failed", "answered"}]
    BY Zenon, <2>2 DEF Transfer
  <2>4. cur[w].data \in Data
    BY Zenon, <2>1 DEF Currents
  <2>5. xfer' \in [Requests -> Data]
    BY Zenon, <2>2, <2>4 DEF Transfer
  <2>6. disk' \in Data
    BY Zenon, <2>2, <2>4 DEF Transfer
  <2> QED BY Zenon, <1>6, <2>3, <2>5, <2>6 DEF DoIO
<1>7. ASSUME NEW w \in Workers, Finish(w)
      PROVE  HistType'
  BY Zenon, <1>7 DEF Finish, histVars
<1> QED BY Zenon, <1>1, <1>2, <1>3, <1>4, <1>5, <1>6, <1>7, Cases

(* Together: every action of the model is well-typed. *)
LEMMA TypeStep ==
  ASSUME TypeInv, [Next]_vars
  PROVE  TypeInv'
BY Zenon, RingTypeStep, ThreadTypeStep, HistTypeStep DEF TypeInv

(* block_io_worker_fn moves data and sets the status of its own request. *)
LEMMA InHandKept ==
  ASSUME TypeInv, NEW w \in Workers, DoIO(w)
  PROVE  \A t \in Threads :
           /\ cur'[t].head = cur[t].head /\ cur'[t].kind = cur[t].kind
           /\ cur'[t].own = cur[t].own /\ (t # w => cur'[t] = cur[t])
<1> USE Basics DEF TypeInv, ThreadType
<1>1. cur[w] \in Currents /\ w \in Threads
  BY Zenon
<1>2. PICK ok : Transfer(w, ok)
  BY Zenon DEF DoIO
<1>3. CASE cur[w].kind = "in"
  <2>1. PICK d, st : cur' = [cur EXCEPT ![w] = [cur[w] EXCEPT !.data = d, !.status = st]]
    BY Zenon, <1>2, <1>3 DEF Transfer
  <2>2. cur'[w] = [cur[w] EXCEPT !.data = d, !.status = st]
    BY Zenon, <1>1, <2>1
  <2>3. \A t \in Threads : t # w => cur'[t] = cur[t]
    BY Zenon, <2>1
  <2> QED BY Zenon, <1>1, <2>2, <2>3 DEF Currents
<1>4. CASE cur[w].kind # "in"
  <2>1. PICK st : cur' = [cur EXCEPT ![w] = [cur[w] EXCEPT !.status = st]]
    BY Zenon, <1>2, <1>4 DEF Transfer
  <2>2. cur'[w] = [cur[w] EXCEPT !.status = st]
    BY Zenon, <1>1, <2>1
  <2>3. \A t \in Threads : t # w => cur'[t] = cur[t]
    BY Zenon, <2>1
  <2> QED BY Zenon, <1>1, <2>2, <2>3 DEF Currents
<1> QED BY Zenon, <1>3, <1>4

-----------------------------------------------------------------------------
(* s->lock keeps threads out of queue_notify and virtio_consume_desc while *)
(* another is there, and a worker comes to the lock with its own request.  *)
LEMMA ThreadStep ==
  ASSUME TypeInv, ThreadInv, [Next]_vars
  PROVE  ThreadInv'
<1> USE Basics DEF TypeInv, ThreadType, ThreadInv, Inside, Completing
<1>1. CASE \/ \E r \in Requests, h \in Heads, k \in AllKinds : Submit(r, h, k)
           \/ Kick \/ IsrRead \/ IsrAck \/ Serve \/ Drain \/ EnableCb
           \/ Reset \/ Attach \/ UNCHANGED vars
  <2>1. lock' = lock /\ UNCHANGED threadVars
    BY Zenon, <1>1 DEF Submit, Kick, IsrRead, IsrAck, Serve, Drain, EnableCb, Reset,
                       Attach, vars
  <2> QED BY Zenon, <2>1 DEF threadVars
<1>2. CASE PollWake
  BY Zenon, <1>2 DEF PollWake, Goto
<1>3. ASSUME NEW t \in Threads, TakeLock(t)
      PROVE  ThreadInv'
  BY Zenon, <1>3 DEF TakeLock, Goto
<1>4. ASSUME NEW t \in Threads, Sample(t)
      PROVE  ThreadInv'
  BY Zenon, <1>4 DEF Sample, Goto
<1>5. ASSUME NEW t \in Threads, RecvIgnore(t)
      PROVE  ThreadInv'
  BY Zenon, <1>5 DEF RecvIgnore, threadVars
<1>6. ASSUME NEW t \in Threads, RecvRefuse(t)
      PROVE  ThreadInv'
  BY Zenon, <1>6 DEF RecvRefuse, Receives, Received
<1>7. ASSUME NEW t \in Threads, NEW w \in Workers, RecvRun(t, w)
      PROVE  ThreadInv'
  BY Zenon, <1>7 DEF RecvRun, Receives, Received, Idle
<1>8. ASSUME NEW t \in Threads, NotifyDone(t)
      PROVE  ThreadInv'
  BY Zenon, <1>8 DEF NotifyDone, Goto
<1>9. ASSUME NEW t \in Threads, Publish(t) \/ EarlyFlags(t)
      PROVE  ThreadInv'
  BY Zenon, <1>9 DEF Publish, EarlyFlags, Goto
<1>10. ASSUME NEW t \in Threads, Flags(t) \/ LatePublish(t)
       PROVE  ThreadInv'
  <2>1. /\ pc' = [pc EXCEPT ![t] = AfterConsume(t)] /\ Forget(t) /\ lock' = lock
        /\ pc[t] \in Completing /\ AfterConsume(t) \in {"sample", "notify"}
    BY Zenon, <1>10 DEF Flags, LatePublish, Goto, AfterConsume
  <2> QED BY Zenon, <2>1 DEF Forget
<1>11. ASSUME NEW w \in Workers, DoIO(w)
       PROVE  ThreadInv'
  <2>1. pc[w] = "io" /\ pc' = [pc EXCEPT ![w] = "lock"] /\ lock' = lock
    BY Zenon, <1>11 DEF DoIO, Goto
  <2>2. \A t \in Threads : cur'[t].own = cur[t].own
    BY Zenon, <1>11, InHandKept
  <2> QED BY Zenon, <2>1, <2>2
<1>12. ASSUME NEW w \in Workers, Finish(w)
       PROVE  ThreadInv'
  BY Zenon, <1>12 DEF Finish, Goto
<1> QED BY Zenon, <1>1, <1>2, <1>3, <1>4, <1>5, <1>6, <1>7, <1>8, <1>9, <1>10,
           <1>11,
           <1>12, Cases

-----------------------------------------------------------------------------
(* Nothing moves between the places a head can be in. *)
PlacesKept ==
  /\ avail'.ring = avail.ring /\ avail'.idx = avail.idx
  /\ last_avail_idx' = last_avail_idx
  /\ used' = used /\ lastUsed' = lastUsed /\ freeHeads' = freeHeads
  /\ attached' = attached /\ chain' = chain
  /\ \A t \in Threads, h \in Heads : Has(t, h)' <=> Has(t, h)

(* A step that moves no head and no index leaves the heads accounted for. *)
LEMMA HeadFrame ==
  ASSUME RingType, HeadInv, PlacesKept
  PROVE  HeadInv'
<1>1. ASSUME attached'
      PROVE  (Rings /\ Apart /\ Accounted)'
  <2>1. Rings /\ Apart /\ Accounted
    BY Zenon, <1>1 DEF HeadInv, PlacesKept
  <2>2. \A h : (InAvail(h)' <=> InAvail(h)) /\ (InUsed(h)' <=> InUsed(h))
    BY Zenon DEF PlacesKept, InAvail, InUsed
  <2>3. Rings'
    BY Zenon, <2>1 DEF Rings, PlacesKept
  <2>4. Apart'
    BY Zenon, <2>1, <2>2 DEF Apart, PlacesKept, RingType
  <2>5. Accounted'
    BY Zenon, <2>1, <2>2 DEF Accounted, PlacesKept
  <2> QED BY Zenon, <2>3, <2>4, <2>5
<1> QED BY Zenon, <1>1 DEF HeadInv

(* One turn of queue_notify's loop takes the oldest available head. *)
LEMMA NextTurn ==
  ASSUME TypeInv, ThreadInv, OffInv, HeadInv, TgtInv,
         NEW t \in Threads, Receives(t)
  PROVE  /\ attached /\ last_avail_idx # avail.idx /\ lock = t
         /\ NextHead \in Heads /\ InAvail(NextHead)
         /\ RingOK(avail.ring, Num, IdxMod, Inc(last_avail_idx), avail.idx)
         /\ \A x : Holds(avail.ring, Num, IdxMod, Inc(last_avail_idx), avail.idx, x)
                     <=> InAvail(x) /\ x # NextHead
         /\ Gap(Inc(last_avail_idx), tgt[t], IdxMod)
              <= Gap(Inc(last_avail_idx), avail.idx, IdxMod)
<1> USE Basics
<1>1. /\ pc[t] = "notify" /\ last_avail_idx # tgt[t] /\ lock = t
  BY Zenon DEF Receives, ThreadInv, Inside
<1>2. attached
  BY Zenon, <1>1 DEF OffInv
<1>3. /\ IdxMod \in Nat \ {0} /\ last_avail_idx \in 0..(IdxMod - 1)
      /\ tgt[t] \in 0..(IdxMod - 1) /\ avail.idx \in 0..(IdxMod - 1)
  BY Zenon, BlkAssumption DEF TypeInv, RingType, ThreadType, Idx
<1>4. Gap(last_avail_idx, tgt[t], IdxMod) <= Gap(last_avail_idx, avail.idx, IdxMod)
  BY Zenon, <1>1, <1>2 DEF TgtInv, Notifying
<1>5. /\ Gap(last_avail_idx, tgt[t], IdxMod) \in 0..(IdxMod - 1)
      /\ Gap(last_avail_idx, tgt[t], IdxMod) # 0
      /\ Gap(last_avail_idx, avail.idx, IdxMod) \in 0..(IdxMod - 1)
      /\ Gap(last_avail_idx, avail.idx, IdxMod) = 0 <=> last_avail_idx = avail.idx
  <2>1. \A x \in 0..(IdxMod - 1) :
          /\ Gap(last_avail_idx, x, IdxMod) \in 0..(IdxMod - 1)
          /\ Gap(last_avail_idx, x, IdxMod) = 0 <=> last_avail_idx = x
    BY <1>3, GapIs
  <2> QED BY Zenon, <1>1, <1>3, <2>1
<1>6. last_avail_idx # avail.idx
  BY <1>4, <1>5
<1>7. RingOK(avail.ring, Num, IdxMod, last_avail_idx, avail.idx)
  BY Zenon, <1>2 DEF HeadInv, Rings
<1>8. /\ NextHead \in Heads /\ InAvail(NextHead)
      /\ RingOK(avail.ring, Num, IdxMod, Inc(last_avail_idx), avail.idx)
      /\ \A x : Holds(avail.ring, Num, IdxMod, Inc(last_avail_idx), avail.idx, x)
                  <=> InAvail(x) /\ x # NextHead
  BY Zenon, <1>6, <1>7, Pop DEF NextHead, Inc, InAvail, Heads
<1>9. Gap(Inc(last_avail_idx), tgt[t], IdxMod) = Gap(last_avail_idx, tgt[t], IdxMod) - 1
  BY Zenon, <1>1, <1>3, GapTake DEF Inc
<1>10. Gap(Inc(last_avail_idx), avail.idx, IdxMod)
         = Gap(last_avail_idx, avail.idx, IdxMod) - 1
  BY Zenon, <1>3, <1>6, GapTake DEF Inc
<1> QED BY <1>1, <1>2, <1>4, <1>5, <1>6, <1>8, <1>9, <1>10

(* The device is at rest from a reset until the driver has set the queue   *)
(* up again: the reset happens with no request outstanding, so nothing a   *)
(* late thread does then can touch a ring.                                 *)
LEMMA OffStep ==
  ASSUME TypeInv, ThreadInv, OffInv, HeadInv, TgtInv, [Next]_vars
  PROVE  OffInv'
<1> USE Basics DEF TypeInv, ThreadType, OffInv, InHand
<1>1. CASE \/ \E r \in Requests, h \in Heads, k \in AllKinds : Submit(r, h, k)
           \/ Attach
  <2>1. CASE Attach
    BY Zenon, <2>1 DEF Attach
  <2>2. ASSUME NEW r \in Requests, NEW h \in Heads, NEW k \in AllKinds,
               Submit(r, h, k)
        PROVE  attached /\ attached' = attached
    BY Zenon, <2>2 DEF Submit, devVars
  <2> QED BY <1>1, <2>1, <2>2
<1>2. CASE Kick \/ IsrAck \/ Serve \/ Drain \/ EnableCb \/ UNCHANGED vars
  BY Zenon, <1>2 DEF Kick, IsrAck, Serve, Drain, EnableCb, vars, driverVars,
     devVars,
              threadVars
<1>3. CASE IsrRead
  BY Zenon, <1>3 DEF IsrRead, devVars, threadVars
<1>4. CASE Reset
  <2>1. /\ attached /\ freeHeads = Heads /\ dpc = "idle" /\ lock = Free
        /\ last_avail_idx' = 0 /\ int_status' = FALSE /\ freeHeads' = freeHeads
        /\ dpc' = dpc /\ pc' = pc
    BY Zenon, <1>4 DEF Reset, RestartIndex, driverVars, threadVars
  <2>2. ASSUME NEW t \in Threads PROVE ~InHand(t) /\ pc[t] \notin {"flags", "notify"}
    <3>1. cur[t].head \in Heads
      BY Zenon DEF Currents
    <3>2. ~Has(t, cur[t].head)
      BY Zenon, <2>1, <3>1 DEF HeadInv, Apart
    <3>3. pc[t] \notin Inside
      BY Zenon, <2>1 DEF ThreadInv
    <3> QED BY Zenon, <3>2, <3>3 DEF Has, Inside, Completing
  <2> QED BY Zenon, <2>1, <2>2
<1>5. CASE PollWake
  BY Zenon, <1>5 DEF PollWake, Goto, guestVars, driverVars, devVars
<1>6. ASSUME NEW t \in Threads, TakeLock(t)
      PROVE  OffInv'
  <2>1. ASSUME ~attached PROVE t = Poll
    BY Zenon, <1>6, <2>1 DEF TakeLock, Goto, Threads
  <2> QED BY Zenon, <1>6, <2>1 DEF TakeLock, Goto, guestVars, driverVars,
             devVars
<1>7. ASSUME NEW t \in Threads, Sample(t)
      PROVE  OffInv'
  BY Zenon, <1>7 DEF Sample, Goto, LowMemoryWord, guestVars, driverVars, devVars
<1>8. ASSUME NEW t \in Threads,
             RecvIgnore(t) \/ RecvRefuse(t) \/ \E w \in Workers : RecvRun(t, w)
      PROVE  OffInv'
  <2>1. attached
    BY Zenon, <1>8, NextTurn DEF RecvIgnore, RecvRefuse, RecvRun
  <2> QED BY Zenon, <1>8, <2>1 DEF RecvIgnore, RecvRefuse, RecvRun
<1>9. ASSUME NEW t \in Threads, NotifyDone(t)
      PROVE  OffInv'
  BY Zenon, <1>9 DEF NotifyDone, Goto, guestVars, driverVars, devVars
<1>10. ASSUME NEW t \in Threads,
              Publish(t) \/ EarlyFlags(t) \/ Flags(t) \/ LatePublish(t)
       PROVE  OffInv'
  <2>1. attached
    BY Zenon, <1>10 DEF Publish, EarlyFlags, Flags, LatePublish, Goto
  <2> QED BY Zenon, <1>10, <2>1 DEF Publish, EarlyFlags, Flags, LatePublish,
             devVars
<1>11. ASSUME NEW w \in Workers, DoIO(w)
       PROVE  OffInv'
  <2>1. attached
    BY Zenon, <1>11 DEF DoIO, Goto
  <2> QED BY Zenon, <1>11, <2>1 DEF DoIO, devVars
<1>12. ASSUME NEW w \in Workers, Finish(w)
       PROVE  OffInv'
  BY Zenon, <1>12 DEF Finish, Goto, guestVars, driverVars, devVars
<1> QED BY Zenon, <1>1, <1>2, <1>3, <1>4, <1>5, <1>6, <1>7, <1>8, <1>9, <1>10,
           <1>11,
           <1>12, Cases

(* A head the driver makes available goes to the end of the ring. *)
LEMMA Offered ==
  ASSUME TypeInv, HeadInv, NEW r \in Requests, NEW h \in Heads, NEW k \in AllKinds,
         Submit(r, h, k)
  PROVE  /\ Rings /\ Apart /\ Accounted
         /\ RingOK(avail'.ring, Num, IdxMod, last_avail_idx, avail'.idx)
         /\ \A x : Holds(avail'.ring, Num, IdxMod, last_avail_idx, avail'.idx, x)
                     <=> InAvail(x) \/ x = h
         /\ Gap(last_avail_idx, avail'.idx, IdxMod)
              = Gap(last_avail_idx, avail.idx, IdxMod) + 1
<1> USE Basics
<1>1. Rings /\ Apart /\ Accounted /\ h \in freeHeads
  BY Zenon DEF Submit, HeadInv
<1>2. /\ avail'.ring = [avail.ring EXCEPT ![avail.idx % Num] = h]
      /\ avail'.idx = (avail.idx + 1) % IdxMod
  BY Zenon DEF Submit, Inc, TypeInv, RingType
<1>3. /\ RingOK(avail.ring, Num, IdxMod, last_avail_idx, avail.idx)
      /\ ~Holds(avail.ring, Num, IdxMod, last_avail_idx, avail.idx, h)
  BY Zenon, <1>1 DEF Rings, Apart, InAvail
<1>4. h \in 0..(Num - 1)
  BY Zenon DEF Heads
<1> QED BY <1>1, <1>2, <1>3, <1>4, Push DEF InAvail

(* The index queue_notify sampled stays between what it has taken and what *)
(* the driver has made available, so its loop ends at a head the driver    *)
(* really offered.                                                         *)
LEMMA TgtStep ==
  ASSUME TypeInv, ThreadInv, OffInv, HeadInv, TgtInv, [Next]_vars
  PROVE  TgtInv'
<1> USE Basics DEF TypeInv, RingType, ThreadType, TgtInv, Notifying, Completing
<1>0. \A a, b \in Idx : Gap(a, b, IdxMod) \in Int
  BY Zenon, BlkAssumption, GapIs DEF Idx
<1>1. ASSUME NEW r \in Requests, NEW h \in Heads, NEW k \in AllKinds,
             Submit(r, h, k)
      PROVE  TgtInv'
  <2>1. Gap(last_avail_idx, avail'.idx, IdxMod)
          = Gap(last_avail_idx, avail.idx, IdxMod) + 1
    BY Zenon, <1>1, Offered
  <2>2. Gap(last_avail_idx, avail.idx, IdxMod) \in Int
    BY Zenon, <1>0
  <2>3. \A t \in Threads : Gap(last_avail_idx, tgt[t], IdxMod) \in Int
    BY Zenon, <1>0
  <2>4. /\ attached' = attached /\ last_avail_idx' = last_avail_idx
        /\ pc' = pc /\ tgt' = tgt /\ cur' = cur
    BY Zenon, <1>1 DEF Submit, devVars, threadVars
  <2>5. ASSUME NEW t \in Threads, attached, Notifying(t)
        PROVE  Gap(last_avail_idx, tgt[t], IdxMod)
                 <= Gap(last_avail_idx, avail'.idx, IdxMod)
    <3>1. Gap(last_avail_idx, tgt[t], IdxMod)
            <= Gap(last_avail_idx, avail.idx, IdxMod)
      BY Zenon, <2>5
    <3> QED BY <2>1, <2>2, <2>3, <3>1
  <2> QED BY Zenon, <2>4, <2>5
<1>2. CASE Kick \/ IsrRead \/ IsrAck \/ Drain \/ UNCHANGED vars
  BY Zenon, <1>2 DEF Kick, IsrRead, IsrAck, Drain, vars, ringVars, devVars,
     threadVars
<1>3. CASE Serve \/ EnableCb
  <2>1. avail'.idx = avail.idx
    BY Zenon, <1>3 DEF Serve, EnableCb
  <2> QED BY Zenon, <1>3, <2>1 DEF Serve, EnableCb, devVars, threadVars
<1>4. CASE Reset
  BY Zenon, <1>4 DEF Reset
<1>5. CASE Attach
  BY Zenon, <1>5 DEF Attach, ThreadInv, Inside, threadVars
<1>6. CASE PollWake
  BY Zenon, <1>6 DEF PollWake, Goto, guestVars, ringVars, devVars
<1>7. ASSUME NEW t \in Threads, TakeLock(t)
      PROVE  TgtInv'
  <2>1. t # Poll => t \in Workers /\ cur[t].own
    BY Zenon, <1>7 DEF TakeLock, Goto, ThreadInv, Threads
  <2> QED BY Zenon, <1>7, <2>1 DEF TakeLock, Goto, guestVars, ringVars, devVars
<1>8. ASSUME NEW t \in Threads, Sample(t)
      PROVE  TgtInv'
  <2>1. avail' = avail /\ last_avail_idx' = last_avail_idx /\ attached' = attached
    BY Zenon, <1>8 DEF Sample, guestVars, ringVars, devVars
  <2>2. attached => tgt'[t] = avail.idx
    BY Zenon, <1>8 DEF Sample
  <2>3. \A u \in Threads : u # t => tgt'[u] = tgt[u] /\ pc'[u] = pc[u] /\ cur'[u] = cur[u]
    BY Zenon, <1>8 DEF Sample, Goto
  <2>4. Gap(last_avail_idx, avail.idx, IdxMod) <= Gap(last_avail_idx, avail.idx, IdxMod)
    <3>1. Gap(last_avail_idx, avail.idx, IdxMod) \in Int
      BY Zenon, <1>0
    <3> QED BY <3>1
  <2> QED BY Zenon, <2>1, <2>2, <2>3, <2>4
<1>9. ASSUME NEW t \in Threads,
             RecvIgnore(t) \/ RecvRefuse(t) \/ \E w \in Workers : RecvRun(t, w)
      PROVE  TgtInv'
  <2>1. Receives(t) /\ last_avail_idx' = Inc(last_avail_idx) /\ avail' = avail
    BY Zenon, <1>9 DEF RecvIgnore, RecvRefuse, RecvRun, Advance, guestVars,
       ringVars
  <2>2. /\ Gap(last_avail_idx', tgt[t], IdxMod) <= Gap(last_avail_idx', avail.idx, IdxMod)
        /\ lock = t
    BY Zenon, <2>1, NextTurn
  <2>3. ASSUME NEW u \in Threads, u # t PROVE ~Notifying(u)'
    <3>1. pc[u] \notin Inside
      BY Zenon, <2>2, <2>3 DEF ThreadInv
    <3> QED BY Zenon, <1>9, <2>3, <3>1 DEF RecvIgnore, RecvRefuse, RecvRun,
               threadVars,
                                    Idle, Inside
  <2>4. tgt' = tgt
    BY Zenon, <1>9 DEF RecvIgnore, RecvRefuse, RecvRun, threadVars
  <2> QED BY Zenon, <2>1, <2>2, <2>3, <2>4
<1>10. ASSUME NEW t \in Threads, NotifyDone(t)
       PROVE  TgtInv'
  BY Zenon, <1>10 DEF NotifyDone, Goto, guestVars, ringVars, devVars
<1>11. ASSUME NEW t \in Threads, Publish(t) \/ EarlyFlags(t)
       PROVE  TgtInv'
  BY Zenon, <1>11 DEF Publish, EarlyFlags, Goto, guestVars, ringVars, devVars
<1>12. ASSUME NEW t \in Threads, Flags(t) \/ LatePublish(t)
       PROVE  TgtInv'
  <2>1. /\ pc' = [pc EXCEPT ![t] = AfterConsume(t)] /\ Forget(t)
        /\ pc[t] \in Completing /\ AfterConsume(t) \in {"sample", "notify"}
        /\ AfterConsume(t) = "notify" => ~cur[t].own
        /\ tgt' = tgt /\ last_avail_idx' = last_avail_idx /\ avail' = avail
        /\ attached' = attached
    BY Zenon, <1>12 DEF Flags, LatePublish, Goto, AfterConsume, guestVars,
       ringVars
  <2> QED BY Zenon, <2>1 DEF Forget
<1>13. ASSUME NEW w \in Workers, DoIO(w)
       PROVE  TgtInv'
  <2>1. /\ pc[w] = "io" /\ pc' = [pc EXCEPT ![w] = "lock"] /\ tgt' = tgt
        /\ avail' = avail /\ last_avail_idx' = last_avail_idx /\ attached' = attached
    BY Zenon, <1>13 DEF DoIO, Goto, guestVars, ringVars, devVars
  <2>2. \A t \in Threads : cur'[t].own = cur[t].own
    BY Zenon, <1>13, InHandKept
  <2> QED BY Zenon, <2>1, <2>2
<1>14. ASSUME NEW w \in Workers, Finish(w)
       PROVE  TgtInv'
  BY Zenon, <1>14 DEF Finish, Goto, guestVars, ringVars, devVars
<1> QED BY Zenon, <1>1, <1>2, <1>3, <1>4, <1>5, <1>6, <1>7, <1>8, <1>9, <1>10,
           <1>11,
           <1>12, <1>13, <1>14, Cases

(* Completing a request puts its head at the end of the used ring. *)
LEMMA Completed ==
  ASSUME TypeInv, ThreadInv, OffInv, HeadInv, NEW t \in Threads,
         Publish(t) \/ LatePublish(t)
  PROVE  /\ attached /\ Rings /\ Apart /\ Accounted
         /\ InHand(t) /\ cur[t].head \in Heads
         /\ RingOK(used'.ring, Num, IdxMod, lastUsed, used'.idx)
         /\ \A x : Holds(used'.ring, Num, IdxMod, lastUsed, used'.idx, x)
                     <=> InUsed(x) \/ x = cur[t].head
<1> USE Basics
<1>1. InHand(t) /\ WriteUsed(t)
  BY Zenon DEF Publish, LatePublish, Goto, InHand
<1>2. attached
  BY Zenon, <1>1 DEF OffInv
<1>3. Rings /\ Apart /\ Accounted
  BY Zenon, <1>2 DEF HeadInv
<1>4. cur[t].head \in Heads
  BY Zenon DEF TypeInv, ThreadType, Currents
<1>5. ~InUsed(cur[t].head)
  BY Zenon, <1>1, <1>3, <1>4 DEF Apart, Has
<1>6. /\ used'.ring = [used.ring EXCEPT ![used.idx % Num] = cur[t].head]
      /\ used'.idx = (used.idx + 1) % IdxMod
  BY Zenon, <1>1 DEF WriteUsed, Inc, TypeInv, RingType
<1>7. cur[t].head \in 0..(Num - 1)
  BY Zenon, <1>4 DEF Heads
<1> QED BY SMTT(30), SMTT(60), <1>1, <1>2, <1>3, <1>4, <1>5, <1>6, <1>7, Push
           DEF InUsed, Rings

(* The actions that do not move a head. *)
Aside ==
  \/ Kick \/ IsrRead \/ IsrAck \/ Serve \/ EnableCb \/ PollWake
  \/ \E t \in Threads : \/ TakeLock(t) \/ Sample(t) \/ NotifyDone(t)
                         \/ EarlyFlags(t) \/ Flags(t)
  \/ \E w \in Workers : Finish(w)
  \/ UNCHANGED vars

(* A step that only moves a thread, an interrupt or the driver's handler   *)
(* takes no head anywhere and records nothing about a request.             *)
LEMMA StayPut ==
  ASSUME TypeInv, Aside
  PROVE  /\ PlacesKept /\ UNCHANGED histVars
         /\ \A u \in Threads : /\ InHand(u)' <=> InHand(u)
                               /\ InHand(u) => cur'[u] = cur[u]
                               /\ pc'[u] = "io" <=> pc[u] = "io"
<1> USE Basics DEF TypeInv, RingType, ThreadType
<1>1. /\ avail'.ring = avail.ring /\ avail'.idx = avail.idx
      /\ last_avail_idx' = last_avail_idx
      /\ used' = used /\ lastUsed' = lastUsed /\ freeHeads' = freeHeads
      /\ attached' = attached /\ chain' = chain /\ UNCHANGED histVars
  <2>1. CASE Kick \/ IsrRead \/ IsrAck \/ PollWake \/ UNCHANGED vars
    BY Zenon, <2>1 DEF Kick, IsrRead, IsrAck, PollWake, vars, guestVars,
       ringVars,
                driverVars, devVars
  <2>2. CASE Serve \/ EnableCb
    <3>1. avail'.ring = avail.ring /\ avail'.idx = avail.idx
      BY Zenon, <2>2 DEF Serve, EnableCb
    <3> QED BY Zenon, <2>2, <3>1 DEF Serve, EnableCb, devVars
  <2>3. ASSUME NEW t \in Threads,
               \/ TakeLock(t) \/ Sample(t) \/ NotifyDone(t) \/ EarlyFlags(t)
               \/ Flags(t) \/ Finish(t)
        PROVE  UNCHANGED <<guestVars, attached, last_avail_idx, histVars>>
    BY Zenon, <2>3 DEF TakeLock, Sample, NotifyDone, EarlyFlags, Flags,
       Finish, devVars
  <2> QED BY Zenon, <2>1, <2>2, <2>3 DEF Aside, guestVars, ringVars, driverVars
<1>2. \A u \in Threads : /\ InHand(u)' <=> InHand(u)
                         /\ InHand(u) => cur'[u] = cur[u]
                         /\ pc'[u] = "io" <=> pc[u] = "io"
  <2>1. CASE Kick \/ IsrRead \/ IsrAck \/ Serve \/ EnableCb \/ UNCHANGED vars
    BY Zenon, <2>1 DEF Kick, IsrRead, IsrAck, Serve, EnableCb, vars,
       threadVars, InHand
  <2>2. CASE PollWake
    BY Zenon, <2>2 DEF PollWake, Goto, InHand
  <2>3. ASSUME NEW t \in Threads, TakeLock(t), NEW u \in Threads
        PROVE  /\ InHand(u)' <=> InHand(u)
               /\ cur' = cur /\ (pc'[u] = "io" <=> pc[u] = "io")
    BY Zenon, <2>3 DEF TakeLock, Goto, InHand
  <2>4. ASSUME NEW t \in Threads, Sample(t) \/ NotifyDone(t), NEW u \in Threads
        PROVE  /\ InHand(u)' <=> InHand(u)
               /\ cur' = cur /\ (pc'[u] = "io" <=> pc[u] = "io")
    BY Zenon, <2>4 DEF Sample, NotifyDone, Goto, InHand
  <2>5. ASSUME NEW t \in Threads, EarlyFlags(t), NEW u \in Threads
        PROVE  /\ InHand(u)' <=> InHand(u)
               /\ cur' = cur /\ (pc'[u] = "io" <=> pc[u] = "io")
    BY Zenon, <2>5 DEF EarlyFlags, Goto, InHand
  <2>6. ASSUME NEW t \in Threads, Flags(t), NEW u \in Threads
        PROVE  /\ InHand(u)' <=> InHand(u)
               /\ InHand(u) => cur'[u] = cur[u]
               /\ pc'[u] = "io" <=> pc[u] = "io"
    <3>1. /\ pc[t] = "flags" /\ pc' = [pc EXCEPT ![t] = AfterConsume(t)]
          /\ AfterConsume(t) \in {"sample", "notify"} /\ Forget(t)
      BY Zenon, <2>6 DEF Flags, Goto, AfterConsume
    <3> QED BY Zenon, <3>1 DEF InHand, Forget
  <2>7. ASSUME NEW w \in Workers, Finish(w), NEW u \in Threads
        PROVE  /\ InHand(u)' <=> InHand(u)
               /\ cur' = cur /\ (pc'[u] = "io" <=> pc[u] = "io")
    BY Zenon, <2>7 DEF Finish, Goto, InHand
  <2> QED BY Zenon, <2>1, <2>2, <2>3, <2>4, <2>5, <2>6, <2>7 DEF Aside
<1> QED BY Zenon, <1>1, <1>2 DEF PlacesKept, Has

(* No step of the driver, of the poll thread or of a worker gives a head   *)
(* two places or loses one that is not of an unsupported kind.             *)
LEMMA HeadStep ==
  ASSUME TypeInv, ThreadInv, OffInv, HeadInv, TgtInv, [Next]_vars
  PROVE  HeadInv'
<1> USE Basics DEF TypeInv, RingType, ThreadType
<1>0. \A t \in Threads : cur[t].head \in Heads
  BY Zenon DEF Currents
<1>1. ASSUME NEW r \in Requests, NEW h \in Heads, NEW k \in AllKinds,
             Submit(r, h, k)
      PROVE  HeadInv'
  <2>1. /\ Rings /\ Apart /\ Accounted
        /\ RingOK(avail'.ring, Num, IdxMod, last_avail_idx, avail'.idx)
        /\ \A x : Holds(avail'.ring, Num, IdxMod, last_avail_idx, avail'.idx, x)
                    <=> InAvail(x) \/ x = h
    BY Zenon, <1>1, Offered
  <2>2. /\ last_avail_idx' = last_avail_idx /\ used' = used /\ lastUsed' = lastUsed
        /\ pc' = pc /\ cur' = cur /\ freeHeads' = freeHeads \ {h} /\ h \in freeHeads
        /\ \A g \in Heads : g # h => chain'[g] = chain[g]
    BY Zenon, <1>1 DEF Submit, devVars, threadVars
  <2>3. \A x : /\ InAvail(x)' <=> InAvail(x) \/ x = h
               /\ InUsed(x)' <=> InUsed(x)
               /\ \A t \in Threads : Has(t, x)' <=> Has(t, x)
    BY Zenon, <2>1, <2>2 DEF InAvail, InUsed, Has, InHand
  <2>4. Rings'
    BY Zenon, <2>1, <2>2 DEF Rings
  <2>5. Apart'
    BY <2>1, <2>2, <2>3 DEF Apart
  <2>6. Accounted'
    BY Zenon, <2>1, <2>2, <2>3 DEF Accounted
  <2> QED BY Zenon, <2>4, <2>5, <2>6 DEF HeadInv
<1>2. CASE Drain
  <2> DEFINE h == used.ring[lastUsed % Num]
  <2>1. /\ used.idx # lastUsed /\ lastUsed' = Inc(lastUsed)
        /\ freeHeads' = freeHeads \cup {h} /\ dpc # "idle"
        /\ avail' = avail /\ used' = used /\ chain' = chain
        /\ last_avail_idx' = last_avail_idx /\ pc' = pc /\ cur' = cur
    BY Zenon, <1>2 DEF Drain, ringVars, devVars, threadVars
  <2>2. attached
    BY Zenon, <2>1 DEF OffInv
  <2>3. Rings /\ Apart /\ Accounted
    BY Zenon, <2>2 DEF HeadInv
  <2>4. /\ RingOK(used.ring, Num, IdxMod, Inc(lastUsed), used.idx)
        /\ h \in Heads /\ InUsed(h)
        /\ \A x : Holds(used.ring, Num, IdxMod, Inc(lastUsed), used.idx, x)
                    <=> InUsed(x) /\ x # h
    BY Zenon, <2>1, <2>3, Pop DEF Rings, InUsed, Inc, Heads
  <2> HIDE DEF h
  <2>5. \A x : /\ InAvail(x)' <=> InAvail(x)
               /\ InUsed(x)' <=> InUsed(x) /\ x # h
               /\ \A t \in Threads : Has(t, x)' <=> Has(t, x)
    BY Zenon, <2>1, <2>4 DEF InAvail, InUsed, Has, InHand
  <2>6. Rings'
    BY Zenon, <2>1, <2>3, <2>4 DEF Rings
  <2>7. Apart'
    BY <2>1, <2>3, <2>4, <2>5 DEF Apart
  <2>8. Accounted'
    BY Zenon, <2>1, <2>3, <2>4, <2>5 DEF Accounted
  <2> QED BY Zenon, <2>6, <2>7, <2>8 DEF HeadInv
<1>3. CASE Reset
  BY Zenon, <1>3 DEF Reset, HeadInv
<1>4. CASE Attach
  <2>1. /\ ~attached /\ avail' = EmptyAvail /\ used' = EmptyUsed /\ lastUsed' = 0
        /\ last_avail_idx' = last_avail_idx /\ freeHeads' = freeHeads
        /\ pc' = pc /\ cur' = cur
    BY Zenon, <1>4 DEF Attach, threadVars
  <2>2. last_avail_idx = 0 /\ freeHeads = Heads /\ \A t \in Threads : ~InHand(t)
    BY Zenon, <2>1 DEF OffInv
  <2>3. \A t \in Threads, x \in Heads : ~Has(t, x)'
    BY Zenon, <2>1, <2>2 DEF Has, InHand
  <2>4. /\ avail'.idx = 0 /\ used'.idx = 0
        /\ avail'.ring \in [0..(Num - 1) -> 0..(Num - 1)]
        /\ used'.ring \in [0..(Num - 1) -> 0..(Num - 1)]
    BY Zenon, <2>1 DEF EmptyAvail, EmptyUsed, Heads
  <2>5. 0 \in 0..(IdxMod - 1)
    BY Zenon DEF Idx
  <2>6. /\ RingOK(avail'.ring, Num, IdxMod, 0, 0)
        /\ RingOK(used'.ring, Num, IdxMod, 0, 0)
        /\ \A x : /\ ~Holds(avail'.ring, Num, IdxMod, 0, 0, x)
                   /\ ~Holds(used'.ring, Num, IdxMod, 0, 0, x)
    BY Zenon, <2>4, <2>5, Empty
  <2>7. Rings' /\ \A x : ~InAvail(x)' /\ ~InUsed(x)'
    BY SMTT(30), SMTT(60), <2>1, <2>2, <2>4, <2>6 DEF Rings, InAvail, InUsed
  <2>8. Apart' /\ Accounted'
    BY Zenon, <2>1, <2>2, <2>3, <2>7 DEF Apart, Accounted
  <2> QED BY Zenon, <2>7, <2>8 DEF HeadInv
<1>5. ASSUME NEW w \in Workers, DoIO(w)
      PROVE  HeadInv'
  <2>1. \A u \in Threads : InHand(u)' <=> InHand(u)
    BY Zenon, <1>5 DEF DoIO, Goto, InHand
  <2>2. PlacesKept
    BY Zenon, <1>5, <2>1, InHandKept DEF DoIO, guestVars, ringVars,
       driverVars, devVars,
                                  PlacesKept, Has
  <2> QED BY Zenon, <2>2, HeadFrame
<1>6. ASSUME NEW t \in Threads, Receives(t), Advance, UNCHANGED guestVars,
              \/ UNCHANGED <<pc, cur>> /\ chain[NextHead].kind = "other"
              \/ \E u \in Threads :
                   /\ ~InHand(u) /\ cur'[u].head = NextHead
                   /\ \A v \in Threads : /\ InHand(v)' <=> InHand(v) \/ v = u
                                         /\ v # u => cur'[v] = cur[v]
       PROVE  HeadInv'
  <2>1. /\ attached /\ NextHead \in Heads /\ InAvail(NextHead)
        /\ RingOK(avail.ring, Num, IdxMod, Inc(last_avail_idx), avail.idx)
        /\ \A x : Holds(avail.ring, Num, IdxMod, Inc(last_avail_idx), avail.idx, x)
                    <=> InAvail(x) /\ x # NextHead
    BY Zenon, <1>6, NextTurn
  <2>2. Rings /\ Apart /\ Accounted
    BY Zenon, <2>1 DEF HeadInv
  <2>3. /\ avail' = avail /\ used' = used /\ chain' = chain /\ lastUsed' = lastUsed
        /\ freeHeads' = freeHeads /\ last_avail_idx' = Inc(last_avail_idx)
    BY Zenon, <1>6 DEF guestVars, ringVars, driverVars, Advance
  <2>4. \A x : /\ InAvail(x)' <=> InAvail(x) /\ x # NextHead
               /\ InUsed(x)' <=> InUsed(x)
    BY Zenon, <2>1, <2>3 DEF InAvail, InUsed
  <2>5. Rings'
    BY Zenon, <2>1, <2>2, <2>3 DEF Rings
  <2>6. CASE UNCHANGED <<pc, cur>> /\ chain[NextHead].kind = "other"
    <3>1. \A u \in Threads, x \in Heads : Has(u, x)' <=> Has(u, x)
      BY Zenon, <2>6 DEF Has, InHand
    <3>2. Apart'
      BY Zenon, <2>1, <2>2, <2>3, <2>4, <3>1 DEF Apart
    <3>3. Accounted'
      BY Zenon, <2>1, <2>2, <2>3, <2>4, <2>6, <3>1 DEF Accounted
    <3> QED BY Zenon, <2>5, <3>2, <3>3 DEF HeadInv
  <2>7. ASSUME NEW u \in Threads, ~InHand(u), cur'[u].head = NextHead,
               \A v \in Threads : /\ InHand(v)' <=> InHand(v) \/ v = u
                                  /\ v # u => cur'[v] = cur[v]
        PROVE  HeadInv'
    <3>1. \A v \in Threads, x \in Heads :
            Has(v, x)' <=> Has(v, x) \/ (v = u /\ x = NextHead)
      <4> TAKE v \in Threads, x \in Heads
      <4>1. CASE v = u
        BY Zenon, <2>7, <4>1 DEF Has
      <4>2. CASE v # u
        BY Zenon, <2>7, <4>2 DEF Has
      <4> QED BY Zenon, <4>1, <4>2
    <3>2. Apart'
      BY <2>1, <2>2, <2>3, <2>4, <3>1 DEF Apart
    <3>3. Accounted'
      BY Zenon, <2>1, <2>2, <2>3, <2>4, <3>1 DEF Accounted
    <3> QED BY Zenon, <2>5, <3>2, <3>3 DEF HeadInv
  <2> QED BY Zenon, <1>6, <2>6, <2>7
<1>7. ASSUME NEW t \in Threads, RecvIgnore(t)
       PROVE  HeadInv'
  <2>1. Receives(t)
    BY Zenon, <1>7 DEF RecvIgnore
  <2>2. NextHead \in Heads
    BY Zenon, <2>1, NextTurn
  <2>3. chain[NextHead].kind = "other"
    BY Zenon, <1>7, <2>2 DEF RecvIgnore, RunnableKind, Chains, AllKinds
  <2> QED BY Zenon, <1>6, <1>7, <2>1, <2>3 DEF RecvIgnore, threadVars
<1>8. ASSUME NEW t \in Threads, RecvRefuse(t)
       PROVE  HeadInv'
  <2>1. /\ Receives(t) /\ pc[t] = "notify" /\ pc' = [pc EXCEPT ![t] = "publish"]
        /\ cur' = [cur EXCEPT ![t] = Received("IOERR", FALSE)]
        /\ Advance /\ UNCHANGED guestVars
    BY Zenon, <1>8 DEF RecvRefuse, Receives
  <2>2. ~InHand(t) /\ \A v \in Threads : InHand(v)' <=> InHand(v) \/ v = t
    BY Zenon, <2>1 DEF InHand
  <2>3. cur'[t].head = NextHead /\ \A v \in Threads : v # t => cur'[v] = cur[v]
    BY Zenon, <2>1 DEF Received
  <2> QED BY Zenon, <1>6, <2>1, <2>2, <2>3
<1>9. ASSUME NEW t \in Threads, NEW w \in Workers, RecvRun(t, w)
       PROVE  HeadInv'
  <2>1. /\ Receives(t) /\ pc[w] = "idle" /\ pc' = [pc EXCEPT ![w] = "io"]
        /\ cur' = [cur EXCEPT ![w] = Received("none", TRUE)]
        /\ Advance /\ UNCHANGED guestVars
    BY Zenon, <1>9 DEF RecvRun, Idle
  <2>2. ~InHand(w) /\ \A v \in Threads : InHand(v)' <=> InHand(v) \/ v = w
    BY Zenon, <2>1 DEF InHand
  <2>3. cur'[w].head = NextHead /\ \A v \in Threads : v # w => cur'[v] = cur[v]
    BY Zenon, <2>1 DEF Received
  <2> QED BY Zenon, <1>6, <2>1, <2>2, <2>3
<1>10. ASSUME NEW t \in Threads, Publish(t) \/ LatePublish(t)
       PROVE  HeadInv'
  <2> DEFINE h == cur[t].head
  <2>1. /\ attached /\ Rings /\ Apart /\ Accounted /\ InHand(t) /\ h \in Heads
        /\ RingOK(used'.ring, Num, IdxMod, lastUsed, used'.idx)
        /\ \A x : Holds(used'.ring, Num, IdxMod, lastUsed, used'.idx, x)
                    <=> InUsed(x) \/ x = h
    BY Zenon, <1>10, Completed
  <2>2. /\ avail' = avail /\ lastUsed' = lastUsed /\ freeHeads' = freeHeads
        /\ last_avail_idx' = last_avail_idx
        /\ pc'[t] \in {"flags", "sample", "notify"}
        /\ \A v \in Threads : v # t => pc'[v] = pc[v] /\ cur'[v] = cur[v]
    BY Zenon, <1>10 DEF Publish, LatePublish, Goto, AfterConsume, Forget,
       driverVars, devVars
  <2>3. \A g \in Heads : g # h => chain'[g] = chain[g]
    BY Zenon, <1>10 DEF Publish, LatePublish, WriteUsed
  <2>4. \A v \in Threads : InHand(v)' <=> InHand(v) /\ v # t
    BY Zenon, <2>2 DEF InHand
  <2>5. \A x : /\ InAvail(x)' <=> InAvail(x)
               /\ InUsed(x)' <=> InUsed(x) \/ x = h
               /\ \A v \in Threads : Has(v, x)' <=> Has(v, x) /\ v # t
    BY Zenon, <2>1, <2>2, <2>4 DEF InAvail, InUsed, Has
  <2>6. Rings'
    BY Zenon, <2>1, <2>2 DEF Rings
  <2>9. \A x \in Heads : Has(t, x) <=> x = h
    BY Zenon, <2>1 DEF Has
  <2> HIDE DEF h
  <2>7. Apart'
    BY Zenon, <2>1, <2>2, <2>5, <2>9 DEF Apart
  <2>8. Accounted'
    BY SMTT(30), SMTT(60), <2>1, <2>2, <2>3, <2>5, <2>9 DEF Accounted
  <2> QED BY Zenon, <2>6, <2>7, <2>8 DEF HeadInv
<1>11. ASSUME Aside
      PROVE  HeadInv'
  BY Zenon, <1>11, StayPut, HeadFrame
<1> QED BY Zenon, <1>1, <1>11, <1>2, <1>3, <1>4, <1>5, <1>7, <1>8, <1>9,
           <1>10, Cases
        DEF Aside

(* The invariant holds before the driver has touched the device, *)
LEMMA PlaceInit == Init => PlaceInv
<1> SUFFICES ASSUME Init PROVE PlaceInv
  BY Zenon
<1> USE Basics DEF Init
<1>1. RingType
  <2>1. NoChain \in Chains
    BY Zenon DEF NoChain, Chains, Data, AllKinds, Statuses
  <2> QED BY Zenon, <2>1 DEF RingType, EmptyAvail, EmptyUsed
<1>2. ThreadType
  <2>1. NoRequest \in Currents
    BY Zenon DEF NoRequest, Currents, Data, AllKinds, Statuses
  <2> QED BY Zenon, <2>1 DEF ThreadType, Places
<1>3. HistType
  <2>1. NoAnswer \in [status : Statuses, data : Data]
    BY Zenon DEF NoAnswer, Statuses, Data
  <2> QED BY Zenon, <2>1 DEF HistType, Data
<1>4. ThreadInv
  BY Zenon DEF ThreadInv, Inside, Completing
<1>5. OffInv
  BY Zenon DEF OffInv, InHand
<1>6. HeadInv /\ TgtInv
  BY Zenon DEF HeadInv, TgtInv
<1> QED BY Zenon, <1>1, <1>2, <1>3, <1>4, <1>5, <1>6 DEF PlaceInv, TypeInv

(* and every step keeps it. *)
LEMMA PlaceStep == PlaceInv /\ [Next]_vars => PlaceInv'
BY Zenon, TypeStep, ThreadStep, OffStep, HeadStep, TgtStep DEF PlaceInv

(* Counting: distinct entries hold a head at most once. *)
LEMMA CountOfHead ==
  ASSUME NEW n, NEW m, NEW ring, NEW a, NEW b, RingOK(ring, n, m, a, b), NEW h
  PROVE  Cardinality({i \in 0..(Gap(a, b, m) - 1) : Entry(ring, n, a, i) = h})
           = IF Holds(ring, n, m, a, b, h) THEN 1 ELSE 0
<1> DEFINE S == {i \in 0..(Gap(a, b, m) - 1) : Entry(ring, n, a, i) = h}
<1>1. CASE Holds(ring, n, m, a, b, h)
  <2>1. PICK i \in 0..(Gap(a, b, m) - 1) : Entry(ring, n, a, i) = h
    BY <1>1 DEF Holds
  <2>2. S = {i}
    BY <2>1 DEF RingOK
  <2> QED BY Zenon, <1>1, <2>2, FS_Singleton
<1>2. CASE ~Holds(ring, n, m, a, b, h)
  <2>1. S = {}
    BY <1>2 DEF Holds
  <2> QED BY <1>2, <2>1, FS_EmptySet
<1> QED BY <1>1, <1>2

(* Counting places says what Apart and Accounted say. *)
LEMMA OnePlace == PlaceInv => HeadInOnePlace
<1> SUFFICES ASSUME PlaceInv, attached, NEW h \in Heads
             PROVE  LET places == (IF h \in freeHeads THEN 1 ELSE 0)
                                  + Cardinality(AvailAt(h))
                                  + Cardinality(UsedAt(h)) + Cardinality(HeldBy(h))
                    IN places = 1 \/ (places = 0 /\ chain[h].kind = "other")
  BY Zenon DEF HeadInOnePlace
<1> USE Basics
<1>1. Rings /\ Apart /\ Accounted
  BY Zenon DEF PlaceInv, HeadInv
<1>2. Cardinality(AvailAt(h)) = IF InAvail(h) THEN 1 ELSE 0
  BY SMTT(30), SMTT(60), <1>1, CountOfHead DEF Rings, AvailAt, InAvail, Distance, Gap,
     Entry
<1>3. Cardinality(UsedAt(h)) = IF InUsed(h) THEN 1 ELSE 0
  BY <1>1, CountOfHead DEF Rings, UsedAt, InUsed, Distance, Gap, Entry
<1>4. Cardinality(HeldBy(h)) = IF \E t \in Threads : Has(t, h) THEN 1 ELSE 0
  <2>1. HeldBy(h) = {t \in Threads : Has(t, h)}
    BY Zenon DEF HeldBy, Has
  <2>2. CASE \E t \in Threads : Has(t, h)
    <3>1. PICK t \in Threads : Has(t, h)
      BY Zenon, <2>2
    <3>2. HeldBy(h) = {t}
      BY Zenon, <1>1, <2>1, <3>1 DEF Apart
    <3> QED BY Zenon, <2>2, <3>2, FS_Singleton
  <2>3. CASE ~\E t \in Threads : Has(t, h)
    <3>1. HeldBy(h) = {}
      BY Zenon, <2>1, <2>3
    <3> QED BY Zenon, <2>3, <3>1, FS_EmptySet
  <2> QED BY Zenon, <2>2, <2>3
<1>5. /\ h \in freeHeads => ~InAvail(h) /\ ~InUsed(h) /\ ~\E t \in Threads : Has(t, h)
      /\ InAvail(h) => ~InUsed(h) /\ ~\E t \in Threads : Has(t, h)
      /\ InUsed(h) => ~\E t \in Threads : Has(t, h)
      /\ \/ h \in freeHeads \/ InAvail(h) \/ InUsed(h)
         \/ \E t \in Threads : Has(t, h)
         \/ chain[h].kind = "other"
  BY Zenon, <1>1 DEF Apart, Accounted
<1> QED BY <1>2, <1>3, <1>4, <1>5

(* Every descriptor head is in exactly one place, for every ring size,     *)
(* index width and number of workers, however queue_notify and             *)
(* virtio_consume_desc of several threads interleave with the driver,      *)
(* also when their loads overtake their stores.                            *)
THEOREM HeadsAccounted == Spec => []HeadInOnePlace
BY PlaceInit, PlaceStep, OnePlace, PTL DEF Spec

-----------------------------------------------------------------------------
(* Interrupts. *)

(* The driver suppresses interrupts only while it drains the used ring; no *)
(* load overtakes a store unless Reorder says so.                          *)
QuietInv ==
  /\ avail.quiet => dpc = "drain"
  /\ ~Reorder => \A t \in Threads : pc[t] \notin {"storeQuiet", "storeLoud"}

(* Interrupts are suppressed only while the driver's handler drains the    *)
(* used ring, and stores stay in order unless Reorder lets loads overtake  *)
(* them.                                                                   *)
LEMMA QuietStep ==
  ASSUME TypeInv, QuietInv, [Next]_vars
  PROVE  QuietInv'
<1> USE Basics DEF TypeInv, RingType, ThreadType, QuietInv
<1>1. CASE \/ \E r \in Requests, h \in Heads, k \in AllKinds : Submit(r, h, k)
  <2>1. PICK h \in Heads : /\ avail' = [avail EXCEPT !.ring[avail.idx % Num] = h,
                                                    !.idx = Inc(avail.idx)]
                           /\ dpc' = dpc /\ UNCHANGED threadVars
    BY Zenon, <1>1 DEF Submit
  <2> QED BY Zenon, <2>1 DEF threadVars
<1>2. CASE Kick \/ UNCHANGED vars
  BY Zenon, <1>2 DEF Kick, vars, ringVars, driverVars, threadVars
<1>3. CASE IsrRead
  BY Zenon, <1>3 DEF IsrRead, ringVars, threadVars
<1>4. CASE IsrAck
  BY Zenon, <1>4 DEF IsrAck, ringVars, threadVars
<1>5. CASE Serve
  BY Zenon, <1>5 DEF Serve, threadVars
<1>6. CASE Drain
  BY Zenon, <1>6 DEF Drain, ringVars, threadVars
<1>7. CASE EnableCb
  BY Zenon, <1>7 DEF EnableCb, threadVars
<1>8. CASE Reset
  BY Zenon, <1>8 DEF Reset, ringVars, driverVars, threadVars
<1>9. CASE Attach
  BY Zenon, <1>9 DEF Attach, EmptyAvail, threadVars
<1>10. CASE PollWake
  BY Zenon, <1>10 DEF PollWake, Goto, guestVars, ringVars, driverVars
<1>11. ASSUME NEW t \in Threads,
              TakeLock(t) \/ Sample(t) \/ NotifyDone(t)
       PROVE  QuietInv'
  BY Zenon, <1>11 DEF TakeLock, Sample, NotifyDone, Goto, guestVars, ringVars,
     driverVars
<1>12. ASSUME NEW t \in Threads,
              RecvIgnore(t) \/ RecvRefuse(t) \/ \E w \in Workers : RecvRun(t, w)
       PROVE  QuietInv'
  BY Zenon, <1>12 DEF RecvIgnore, RecvRefuse, RecvRun, threadVars, guestVars,
     ringVars,
               driverVars
<1>13. ASSUME NEW t \in Threads, Publish(t) \/ EarlyFlags(t)
       PROVE  QuietInv'
  BY Zenon, <1>13 DEF Publish, EarlyFlags, Goto, guestVars, ringVars, driverVars
<1>14. ASSUME NEW t \in Threads, Flags(t) \/ LatePublish(t)
       PROVE  QuietInv'
  BY Zenon, <1>14 DEF Flags, LatePublish, Goto, AfterConsume, guestVars,
     ringVars, driverVars
<1>15. ASSUME NEW w \in Workers, DoIO(w) \/ Finish(w)
       PROVE  QuietInv'
  BY Zenon, <1>15 DEF DoIO, Finish, Goto, guestVars, ringVars, driverVars
<1> QED BY Zenon, <1>1, <1>2, <1>3, <1>4, <1>5, <1>6, <1>7, <1>8, <1>9, <1>10,
           <1>11,
           <1>12, <1>13, <1>14, <1>15, Cases

(* With stores in order, a published completion is announced: the flags    *)
(* are read after the used index is written, and the driver checks the     *)
(* ring again after it has enabled its callbacks.                          *)
LEMMA AnnounceStep ==
  ASSUME TypeInv, QuietInv, ~Reorder, CompletionAnnounced, [Next]_vars
  PROVE  CompletionAnnounced'
<1> USE Basics DEF TypeInv, ThreadType
<1>0. ASSUME /\ used' = used /\ lastUsed' = lastUsed /\ attached' = attached
             /\ dpc' = dpc /\ irq' = irq /\ int_status' = int_status
             /\ \A t \in Threads : pc[t] = "flags" => pc'[t] = "flags"
      PROVE  CompletionAnnounced'
  BY Zenon, <1>0 DEF CompletionAnnounced
<1>1. CASE \/ \E r \in Requests, h \in Heads, k \in AllKinds : Submit(r, h, k)
           \/ Kick \/ UNCHANGED vars
  <2>1. /\ used' = used /\ lastUsed' = lastUsed /\ attached' = attached
        /\ dpc' = dpc /\ irq' = irq /\ int_status' = int_status /\ pc' = pc
    BY Zenon, <1>1 DEF Submit, Kick, vars, ringVars, driverVars, devVars,
       threadVars
  <2> QED BY Zenon, <1>0, <2>1
<1>2. CASE IsrRead
  <2>1. CASE int_status
    <3>1. dpc' = "ack"
      BY Zenon, <1>2, <2>1 DEF IsrRead
    <3> QED BY Zenon, <3>1 DEF CompletionAnnounced
  <2>2. CASE ~int_status
    BY Zenon, <1>2, <2>2 DEF IsrRead, CompletionAnnounced, ringVars, devVars,
       threadVars
  <2> QED BY Zenon, <2>1, <2>2
<1>3. CASE IsrAck \/ Drain \/ EnableCb
  <2>1. dpc' # "idle"
    BY Zenon, <1>3 DEF IsrAck, Drain, EnableCb
  <2> QED BY Zenon, <2>1 DEF CompletionAnnounced
<1>4. CASE Serve
  <2>1. dpc' # "idle" \/ used'.idx = lastUsed'
    BY Zenon, <1>4 DEF Serve
  <2> QED BY Zenon, <2>1 DEF CompletionAnnounced
<1>5. CASE Reset
  BY Zenon, <1>5 DEF Reset, CompletionAnnounced
<1>6. CASE Attach
  <2>1. used'.idx = lastUsed'
    BY Zenon, <1>6 DEF Attach, EmptyUsed
  <2> QED BY Zenon, <2>1 DEF CompletionAnnounced
<1>7. CASE PollWake
  <2>1. /\ used' = used /\ lastUsed' = lastUsed /\ attached' = attached
        /\ dpc' = dpc /\ irq' = irq /\ int_status' = int_status
        /\ \A t \in Threads : pc[t] = "flags" => pc'[t] = "flags"
    BY Zenon, <1>7 DEF PollWake, Goto, guestVars, ringVars, driverVars, devVars
  <2> QED BY Zenon, <1>0, <2>1
<1>8. ASSUME NEW t \in Threads,
             \/ TakeLock(t) \/ Sample(t) \/ NotifyDone(t) \/ RecvIgnore(t)
             \/ RecvRefuse(t) \/ \E w \in Workers : RecvRun(t, w)
      PROVE  CompletionAnnounced'
  <2>1. /\ used' = used /\ lastUsed' = lastUsed /\ attached' = attached
        /\ dpc' = dpc /\ irq' = irq /\ int_status' = int_status
    BY Zenon, <1>8 DEF TakeLock, Sample, NotifyDone, RecvIgnore, RecvRefuse,
       RecvRun,
                guestVars, ringVars, driverVars, devVars
  <2>2. \A u \in Threads : pc[u] = "flags" => pc'[u] = "flags"
    BY Zenon, <1>8 DEF TakeLock, Sample, NotifyDone, RecvIgnore, RecvRefuse,
       RecvRun,
                Goto, Receives, Idle, threadVars
  <2> QED BY Zenon, <1>0, <2>1, <2>2
<1>9. ASSUME NEW t \in Threads, Publish(t)
      PROVE  CompletionAnnounced'
  <2>1. pc'[t] = "flags"
    BY Zenon, <1>9 DEF Publish, Goto
  <2> QED BY Zenon, <2>1 DEF CompletionAnnounced
<1>10. ASSUME NEW t \in Threads, Flags(t)
       PROVE  CompletionAnnounced'
  <2>1. CASE avail.quiet
    <3>1. dpc' = "drain"
      BY Zenon, <1>10, <2>1 DEF Flags, QuietInv, guestVars, driverVars
    <3> QED BY Zenon, <3>1 DEF CompletionAnnounced
  <2>2. CASE ~avail.quiet
    <3>1. irq' = TRUE /\ int_status' = TRUE
      BY Zenon, <1>10, <2>2 DEF Flags, Suppressed, Signal
    <3> QED BY Zenon, <3>1 DEF CompletionAnnounced
  <2> QED BY Zenon, <2>1, <2>2
<1>11. ASSUME NEW t \in Threads, EarlyFlags(t) \/ LatePublish(t)
       PROVE  CompletionAnnounced'
  BY Zenon, <1>11 DEF EarlyFlags, LatePublish, QuietInv
<1>12. ASSUME NEW w \in Workers, DoIO(w) \/ Finish(w)
       PROVE  CompletionAnnounced'
  <2>1. /\ used' = used /\ lastUsed' = lastUsed /\ attached' = attached
        /\ dpc' = dpc /\ irq' = irq /\ int_status' = int_status
        /\ \A t \in Threads : pc[t] = "flags" => pc'[t] = "flags"
    BY Zenon, <1>12 DEF DoIO, Finish, Goto, guestVars, ringVars, driverVars,
       devVars
  <2> QED BY Zenon, <1>0, <2>1
<1> QED BY Zenon, <1>1, <1>2, <1>3, <1>4, <1>5, <1>6, <1>7, <1>8, <1>9, <1>10,
           <1>11,
           <1>12, Cases

(* As long as no load overtakes an older store of its thread, a completion *)
(* virtio_consume_desc has published is announced by a latched interrupt   *)
(* whenever the driver's handler is not running.                           *)
THEOREM CompletionsAnnounced ==
  ASSUME ~Reorder
  PROVE  Spec => []CompletionAnnounced
<1> DEFINE Inv == TypeInv /\ QuietInv /\ CompletionAnnounced
<1>1. Init => Inv
  <2>1. Init => TypeInv
    BY Zenon, PlaceInit DEF PlaceInv
  <2>2. Init => QuietInv
    BY Basics DEF Init, QuietInv, EmptyAvail
  <2>3. Init => CompletionAnnounced
    BY Zenon DEF Init, CompletionAnnounced
  <2> QED BY Zenon, <2>1, <2>2, <2>3
<1>2. Inv /\ [Next]_vars => Inv'
  BY Zenon, TypeStep, QuietStep, AnnounceStep
<1>3. Inv => CompletionAnnounced
  BY Zenon
<1> QED BY <1>1, <1>2, <1>3, PTL DEF Spec

-----------------------------------------------------------------------------
(* Refusals. *)

(* With as many workers as heads, not all of them hold a request while     *)
(* another head is still available.                                        *)
LEMMA WorkerToSpare ==
  ASSUME Num <= NumWorkers, Apart, TypeInv, NEW h \in Heads, InAvail(h)
  PROVE  \E w \in Workers : ~InHand(w)
<1> USE Basics
<1>1. SUFFICES ASSUME \A w \in Workers : InHand(w) PROVE FALSE
  BY Zenon
<1> DEFINE f == [w \in Workers |-> cur[w].head]
           T == Heads \ {h}
<1>2. \A w \in Workers : cur[w].head \in Heads
  BY Zenon DEF TypeInv, ThreadType, Currents
<1>3. \A w \in Workers : Has(w, cur[w].head)
  BY Zenon, <1>1 DEF Has
<1>4. \A w \in Workers : cur[w].head # h
  BY Zenon, <1>2, <1>3 DEF Apart
<1>5. \A v, w \in Workers : cur[v].head = cur[w].head => v = w
  BY Zenon, <1>2, <1>3 DEF Apart
<1>6. f \in Injection(Workers, T)
  BY Zenon, <1>2, <1>4, <1>5 DEF Injection, IsInjective
<1>7. Num \in Nat \ {0} /\ NumWorkers \in Nat \ {0}
  BY Zenon, BlkAssumption
<1>8. IsFiniteSet(Heads) /\ Cardinality(Heads) = Num
  BY <1>7, FS_Interval DEF Heads
<1>9. Cardinality(Workers) = NumWorkers
  BY <1>7, FS_Interval DEF Workers
<1>10. IsFiniteSet(T) /\ Cardinality(T) = Num - 1
  BY Zenon, <1>8, FS_RemoveElement
<1>11. Cardinality(Workers) <= Cardinality(T)
  BY Zenon, <1>6, <1>10, FS_Injection
<1> QED BY <1>7, <1>9, <1>10, <1>11

(* A refusal means all workers are marked working; by counting, one of     *)
(* them holds no request any more.                                         *)
LEMMA RefusalStep ==
  ASSUME Num <= NumWorkers, PlaceInv, [Next]_vars, Refusing
  PROVE  \E w \in Workers : pc[w] \in {"sample", "notify", "finish"}
<1> USE Basics DEF PlaceInv, TypeInv, ThreadType
<1>1. PICK t \in Threads : pc[t] = "notify" /\ pc'[t] = "publish"
  BY Zenon DEF Refusing
<1>2. RecvRefuse(t)
  <2>1. CASE \/ \E r \in Requests, h \in Heads, k \in AllKinds : Submit(r, h, k)
             \/ Kick \/ IsrRead \/ IsrAck \/ Serve \/ Drain \/ EnableCb
             \/ Reset \/ Attach \/ UNCHANGED vars
    BY Zenon, <1>1, <2>1 DEF Submit, Kick, IsrRead, IsrAck, Serve, Drain,
       EnableCb, Reset,
                      Attach, vars, threadVars
  <2>2. CASE PollWake
    BY Zenon, <1>1, <2>2 DEF PollWake, Goto
  <2>3. ASSUME NEW u \in Threads, 
               \/ TakeLock(u) \/ Sample(u) \/ NotifyDone(u) \/ Publish(u)
               \/ Flags(u) \/ EarlyFlags(u) \/ LatePublish(u)
        PROVE  FALSE
    BY Zenon, <1>1, <2>3 DEF TakeLock, Sample, NotifyDone, Publish, Flags,
       EarlyFlags,
                      LatePublish, Goto
  <2>4. ASSUME NEW u \in Threads, RecvIgnore(u) \/ \E w \in Workers : RecvRun(u, w)
        PROVE  FALSE
    BY Zenon, <1>1, <2>4 DEF RecvIgnore, RecvRun, Idle, threadVars
  <2>5. ASSUME NEW w \in Workers, DoIO(w) \/ Finish(w)
        PROVE  FALSE
    BY Zenon, <1>1, <2>5 DEF DoIO, Finish, Goto
  <2>6. ASSUME NEW u \in Threads, RecvRefuse(u)
        PROVE  RecvRefuse(t)
    BY Zenon, <1>1, <2>6 DEF RecvRefuse
  <2> QED BY Zenon, <2>1, <2>2, <2>3, <2>4, <2>5, <2>6, Cases
<1>3. Receives(t) /\ PoolFull
  BY Zenon, <1>2 DEF RecvRefuse
<1>4. attached /\ lock = t /\ NextHead \in Heads /\ InAvail(NextHead)
  BY Zenon, <1>3, NextTurn
<1>5. PICK w \in Workers : ~InHand(w)
  BY Zenon, <1>4, WorkerToSpare DEF HeadInv
<1>6. pc[w] \notin {"idle", "io", "lock", "publish", "storeQuiet", "storeLoud"}
  BY Zenon, <1>3, <1>5 DEF PoolFull, Idle, InHand
<1>7. pc[w] # "flags"
  <2>1. pc[w] = "flags" => lock = w
    BY Zenon DEF ThreadInv, Inside, Completing
  <2> QED BY Zenon, <1>1, <1>4, <2>1
<1> QED BY Zenon, <1>6, <1>7 DEF ThreadInv, Inside, Completing

(* With at least as many workers as descriptor heads, queue_notify refuses *)
(* a request only while a worker that is done with its own has not cleared *)
(* is_working yet.                                                         *)
THEOREM RefusalsOnlyByStragglers ==
  ASSUME Num <= NumWorkers
  PROVE  Spec => RefusedOnlyByStraggler
<1>1. PlaceInv /\ [Next]_vars =>
        [Refusing => \E w \in Workers : pc[w] \in {"sample", "notify", "finish"}]_vars
  BY Zenon, RefusalStep
<1> QED BY <1>1, PlaceInit, PlaceStep, PTL DEF Spec, RefusedOnlyByStraggler

-----------------------------------------------------------------------------
(* The disk the guest sees. *)

(* How far request r has come, as the place of its head tells.             *)
Settled(r, st, d) ==
  \/ phase[r] = "performed" /\ st = "OK" /\ d = xfer[r]
  \/ phase[r] = "failed" /\ st = "IOERR"
LiveReq ==
  \A h \in Heads \ freeHeads :
    /\ chain[h].req \in Requests /\ chain[h].kind = kind[chain[h].req]
    /\ phase[chain[h].req] \in {"submitted", "performed", "failed"}
    /\ \A g \in Heads \ freeHeads : chain[g].req = chain[h].req => g = h
AvailReq ==
  attached => \A h \in Heads : InAvail(h) =>
    /\ phase[chain[h].req] = "submitted"
    /\ chain[h].kind = "out" => chain[h].data = chain[h].req
UsedReq ==
  attached => \A h \in Heads : InUsed(h) =>
    Settled(chain[h].req, chain[h].status, chain[h].data)
HandOK(t, h, r) ==
  /\ cur[t].kind = kind[r] /\ RunnableKind(kind[r])
  /\ kind[r] = "out" => chain[h].data = r /\ cur[t].data = r
  /\ pc[t] = "io" => phase[r] = "submitted"
  /\ pc[t] # "io" => Settled(r, cur[t].status, cur[t].data)
HandReq ==
  \A t \in Threads : InHand(t) =>
    HandOK(t, cur[t].head, chain[cur[t].head].req)
ReqInv == LiveReq /\ AvailReq /\ UsedReq /\ HandReq

(* Heads in use are not free, and heads in different places are different. *)
LEMMA LiveHeads ==
  ASSUME PlaceInv
  PROVE  /\ \A h \in Heads : attached /\ InAvail(h) => h \notin freeHeads
         /\ \A h \in Heads : attached /\ InUsed(h) => h \notin freeHeads
         /\ \A h \in Heads : attached => ~(InAvail(h) /\ InUsed(h))
         /\ \A t \in Threads : InHand(t) =>
              /\ attached /\ cur[t].head \in Heads \ freeHeads
              /\ ~InAvail(cur[t].head) /\ ~InUsed(cur[t].head)
         /\ \A t, u \in Threads :
              InHand(t) /\ InHand(u) /\ cur[t].head = cur[u].head => t = u
<1>1. \A t \in Threads : cur[t].head \in Heads
  BY Zenon DEF PlaceInv, TypeInv, ThreadType, Currents
<1>2. \A t \in Threads : InHand(t) => attached
  BY Zenon DEF PlaceInv, OffInv
<1>3. \A t \in Threads : InHand(t) => Has(t, cur[t].head)
  BY Zenon DEF Has
<1>4. attached => Apart
  BY Zenon DEF PlaceInv, HeadInv
<1>5. \A t, u \in Threads : InHand(u) /\ cur[t].head = cur[u].head => Has(u, cur[t].head)
  BY Zenon DEF Has
<1> QED BY Zenon, <1>1, <1>2, <1>3, <1>4, <1>5 DEF Apart

(* What request histories and chains say is kept when they are. *)
LEMMA ReqFrame ==
  ASSUME PlaceInv, ReqInv, PlacesKept,
         UNCHANGED histVars,
         \A u \in Threads : /\ InHand(u)' <=> InHand(u)
                            /\ InHand(u) => cur'[u] = cur[u]
                            /\ pc'[u] = "io" <=> pc[u] = "io"
  PROVE  ReqInv'
<1> USE DEF histVars
<1>1. LiveReq'
  BY Zenon DEF ReqInv, LiveReq, PlacesKept
<1>2. \A h : (InAvail(h)' <=> InAvail(h)) /\ (InUsed(h)' <=> InUsed(h))
  BY Zenon DEF PlacesKept, InAvail, InUsed
<1>3. AvailReq'
  BY Zenon, <1>2 DEF ReqInv, AvailReq, PlacesKept
<1>4. UsedReq'
  BY Zenon, <1>2 DEF ReqInv, UsedReq, PlacesKept, Settled
<1>5. ASSUME NEW t \in Threads, InHand(t)'
      PROVE  HandOK(t, cur[t].head, chain[cur[t].head].req)'
  <2>1. InHand(t) /\ cur'[t] = cur[t] /\ (pc'[t] = "io" <=> pc[t] = "io")
    BY Zenon, <1>5
  <2>2. HandOK(t, cur[t].head, chain[cur[t].head].req)
    BY Zenon, <2>1 DEF ReqInv, HandReq
  <2> QED BY Zenon, <2>1, <2>2 DEF HandOK, Settled, PlacesKept
<1>6. HandReq'
  BY Zenon, <1>5 DEF HandReq
<1> QED BY Zenon, <1>1, <1>3, <1>4, <1>6 DEF ReqInv

(* A step that leaves every head but h, and every request but r, alone. *)
OthersKept(h, r) ==
  /\ attached' => attached
  /\ \A q \in Requests : q # r =>
       kind'[q] = kind[q] /\ phase'[q] = phase[q] /\ xfer'[q] = xfer[q]
  /\ \A g \in Heads \ freeHeads :
       g # h => chain'[g] = chain[g] /\ chain[g].req # r
  /\ \A g \in Heads : g # h =>
       /\ g \in freeHeads' <=> g \in freeHeads
       /\ InAvail(g)' => InAvail(g)
       /\ InUsed(g)' => InUsed(g)
  /\ \A t \in Threads : InHand(t)' /\ cur'[t].head # h =>
       InHand(t) /\ cur'[t] = cur[t] /\ (pc'[t] = "io" <=> pc[t] = "io")

(* What ReqInv says of the head h, with the request r, after the step. *)
HeadAnswers(h, r) ==
  /\ h \notin freeHeads' =>
       /\ chain'[h].req = r /\ r \in Requests /\ chain'[h].kind = kind'[r]
       /\ phase'[r] \in {"submitted", "performed", "failed"}
  /\ attached' /\ InAvail(h)' =>
       /\ phase'[chain'[h].req] = "submitted"
       /\ chain'[h].kind = "out" => chain'[h].data = chain'[h].req
  /\ attached' /\ InUsed(h)' =>
       Settled(chain[h].req, chain[h].status, chain[h].data)'
  /\ \A t \in Threads : InHand(t)' /\ cur'[t].head = h =>
       HandOK(t, h, chain[h].req)'

(* A step that touches one head h and the history of its request r has to  *)
(* answer for those only.                                                  *)
LEMMA OneHead ==
  ASSUME PlaceInv, ReqInv, NEW h \in Heads, NEW r, OthersKept(h, r), HeadAnswers(h, r)
  PROVE  ReqInv'
<1> USE DEF OthersKept, HeadAnswers
<1>1. ASSUME NEW g \in Heads \ freeHeads, g # h
      PROVE  /\ chain'[g] = chain[g] /\ chain[g].req # r /\ chain[g].req \in Requests
             /\ kind'[chain[g].req] = kind[chain[g].req]
             /\ phase'[chain[g].req] = phase[chain[g].req]
             /\ xfer'[chain[g].req] = xfer[chain[g].req]
  BY Zenon, <1>1 DEF ReqInv, LiveReq
<1>2. LiveReq'
  <2>1. \A g \in Heads \ freeHeads' : g = h \/ g \in Heads \ freeHeads
    BY Zenon
  <2>2. ASSUME NEW g \in Heads \ freeHeads'
        PROVE  /\ chain'[g].req \in Requests /\ chain'[g].kind = kind'[chain'[g].req]
               /\ phase'[chain'[g].req] \in {"submitted", "performed", "failed"}
    <3>1. CASE g = h
      BY Zenon, <3>1
    <3>2. CASE g # h
      BY SMTT(30), SMTT(60), <1>1, <2>1, <3>2 DEF ReqInv, LiveReq
    <3> QED BY Zenon, <3>1, <3>2
  <2>3. ASSUME NEW g \in Heads \ freeHeads', NEW f \in Heads \ freeHeads',
               chain'[f].req = chain'[g].req
        PROVE  f = g
    <3>1. CASE g = h \/ f = h
      <4>1. \A e \in Heads \ freeHeads' : e # h => chain'[e].req # r
        BY Zenon, <1>1, <2>1
      <4>2. \A e \in Heads \ freeHeads' : e = h => chain'[e].req = r
        BY Zenon
      <4> QED BY Zenon, <2>3, <3>1, <4>1, <4>2
    <3>2. CASE g # h /\ f # h
      BY SMTT(30), SMTT(60), <1>1, <2>1, <2>3, <3>2 DEF ReqInv, LiveReq
    <3> QED BY Zenon, <3>1, <3>2
  <2> QED BY Zenon, <2>2, <2>3 DEF LiveReq
<1>3. AvailReq'
  <2>1. ASSUME NEW g \in Heads, attached', InAvail(g)', g # h
        PROVE  /\ phase'[chain'[g].req] = "submitted"
               /\ chain'[g].kind = "out" => chain'[g].data = chain'[g].req
    <3>1. attached /\ InAvail(g)
      BY Zenon, <2>1
    <3>2. g \in Heads \ freeHeads
      BY Zenon, <3>1, LiveHeads
    <3> QED BY SMTT(30), SMTT(60), <1>1, <2>1, <3>1, <3>2 DEF ReqInv, AvailReq
  <2> QED BY Zenon, <2>1 DEF AvailReq
<1>4. UsedReq'
  <2>1. ASSUME NEW g \in Heads, attached', InUsed(g)', g # h
        PROVE  Settled(chain[g].req, chain[g].status, chain[g].data)'
    <3>1. attached /\ InUsed(g)
      BY Zenon, <2>1
    <3>2. g \in Heads \ freeHeads
      BY Zenon, <3>1, LiveHeads
    <3>3. Settled(chain[g].req, chain[g].status, chain[g].data)
      BY Zenon, <3>1 DEF ReqInv, UsedReq
    <3> QED BY SMTT(30), SMTT(60), <1>1, <2>1, <3>2, <3>3 DEF Settled
  <2> QED BY Zenon, <2>1 DEF UsedReq
<1>5. HandReq'
  <2>1. ASSUME NEW t \in Threads, InHand(t)', cur'[t].head # h
        PROVE  HandOK(t, cur[t].head, chain[cur[t].head].req)'
    <3>1. InHand(t) /\ cur'[t] = cur[t] /\ (pc'[t] = "io" <=> pc[t] = "io")
      BY Zenon, <2>1
    <3>2. cur[t].head \in Heads \ freeHeads
      BY Zenon, <3>1, LiveHeads
    <3>3. HandOK(t, cur[t].head, chain[cur[t].head].req)
      BY Zenon, <3>1 DEF ReqInv, HandReq
    <3> DEFINE g == cur[t].head
    <3>4. /\ chain'[g] = chain[g]
          /\ kind'[chain[g].req] = kind[chain[g].req]
          /\ phase'[chain[g].req] = phase[chain[g].req]
          /\ xfer'[chain[g].req] = xfer[chain[g].req]
      BY Zenon, <1>1, <2>1, <3>1, <3>2
    <3>5. cur'[t].head = g
      BY Zenon, <3>1
    <3>6. HandOK(t, g, chain[g].req)
      BY Zenon, <3>3
    <3> HIDE DEF g
    <3>7. /\ cur'[t].kind = kind'[chain'[g].req] /\ RunnableKind(kind'[chain'[g].req])
          /\ kind'[chain'[g].req] = "out" =>
               chain'[g].data = chain'[g].req /\ cur'[t].data = chain'[g].req
      BY Zenon, <3>1, <3>4, <3>6 DEF HandOK
    <3>8. pc'[t] = "io" => phase'[chain'[g].req] = "submitted"
      BY Zenon, <3>1, <3>4, <3>6 DEF HandOK
    <3>9. pc'[t] # "io" =>
            \/ /\ phase'[chain'[g].req] = "performed" /\ cur'[t].status = "OK"
               /\ cur'[t].data = xfer'[chain'[g].req]
            \/ phase'[chain'[g].req] = "failed" /\ cur'[t].status = "IOERR"
      BY ZenonT(30), <3>1, <3>4, <3>6 DEF HandOK, Settled
    <3> QED BY Zenon, <3>5, <3>7, <3>8, <3>9 DEF HandOK, Settled, RunnableKind
  <2> QED BY Zenon, <2>1 DEF HandReq
<1> QED BY Zenon, <1>2, <1>3, <1>4, <1>5 DEF ReqInv

(* A submitted request sits in the chain of a head nobody else has. *)
LEMMA SubmitReq ==
  ASSUME PlaceInv, ReqInv,
         NEW r \in Requests, NEW h \in Heads, NEW k \in AllKinds, Submit(r, h, k)
  PROVE  ReqInv'
<1> USE Basics
<1>0. TypeInv /\ HeadInv /\ Apart
  BY Zenon DEF PlaceInv, HeadInv, Submit
<1>1. /\ attached /\ phase[r] = "new" /\ h \in freeHeads
      /\ freeHeads' = freeHeads \ {h} /\ attached' = attached
      /\ used' = used /\ lastUsed' = lastUsed /\ last_avail_idx' = last_avail_idx
      /\ pc' = pc /\ cur' = cur
      /\ kind' = [kind EXCEPT ![r] = k] /\ phase' = [phase EXCEPT ![r] = "submitted"]
      /\ xfer' = xfer
      /\ chain' = [chain EXCEPT ![h] =
           [req |-> r, kind |-> k, data |-> IF k = "out" THEN r ELSE Blank,
            status |-> "none"]]
  BY Zenon DEF Submit, devVars, threadVars
<1>2. /\ chain'[h].req = r /\ chain'[h].kind = k
      /\ k = "out" => chain'[h].data = r
      /\ kind'[r] = k /\ phase'[r] = "submitted"
  BY Zenon, <1>0, <1>1 DEF TypeInv, RingType, HistType
<1>3. \A g \in Heads \ freeHeads : g # h => chain'[g] = chain[g] /\ chain[g].req # r
  BY Zenon, <1>0, <1>1 DEF ReqInv, LiveReq, TypeInv, RingType
<1>4. \A q \in Requests : q # r =>
        kind'[q] = kind[q] /\ phase'[q] = phase[q] /\ xfer'[q] = xfer[q]
  BY Zenon, <1>0, <1>1 DEF TypeInv, HistType
<1>5. \A x : /\ InAvail(x)' <=> InAvail(x) \/ x = h
             /\ InUsed(x)' <=> InUsed(x)
  BY Zenon, <1>0, <1>1, Offered DEF InAvail, InUsed
<1>6. \A t \in Threads : InHand(t)' <=> InHand(t)
  BY Zenon, <1>1 DEF InHand
<1>7. ~InUsed(h) /\ \A t \in Threads : InHand(t) => cur[t].head # h
  BY Zenon, <1>0, <1>1 DEF Apart, Has
<1>8. \A g \in Heads : g # h => (g \in freeHeads' <=> g \in freeHeads)
  BY Zenon, <1>1
<1>9. OthersKept(h, r)
  BY Zenon, <1>1, <1>3, <1>4, <1>5, <1>6, <1>8 DEF OthersKept
<1>10. HeadAnswers(h, r)
  BY Zenon, <1>1, <1>2, <1>5, <1>6, <1>7 DEF HeadAnswers
<1> QED BY Zenon, <1>9, <1>10, OneHead

(* What the driver takes from the used ring is a settled request's head. *)
LEMMA DrainReq ==
  ASSUME PlaceInv, ReqInv, Drain
  PROVE  LET h == used.ring[lastUsed % Num]
         IN  ReqInv' /\ attached /\ h \in Heads /\ InUsed(h)
<1> USE Basics
<1>h. PICK h : h = used.ring[lastUsed % Num]
  BY Zenon
<1>r. PICK r : r = chain[h].req
  BY Zenon
<1>1. /\ used.idx # lastUsed /\ lastUsed' = Inc(lastUsed)
      /\ freeHeads' = freeHeads \cup {h} /\ dpc = "drain"
      /\ phase' = [phase EXCEPT ![r] = "answered"]
      /\ avail' = avail /\ used' = used /\ chain' = chain /\ attached' = attached
      /\ last_avail_idx' = last_avail_idx /\ pc' = pc /\ cur' = cur
      /\ kind' = kind /\ xfer' = xfer
  BY Zenon, <1>h, <1>r DEF Drain, ringVars, devVars, threadVars
<1>2. attached
  BY Zenon, <1>1 DEF PlaceInv, OffInv
<1>3. /\ h \in Heads /\ InUsed(h)
      /\ \A x : Holds(used.ring, Num, IdxMod, Inc(lastUsed), used.idx, x)
                  <=> InUsed(x) /\ x # h
  BY Zenon, <1>1, <1>2, <1>h, Pop DEF PlaceInv, HeadInv, Rings, InUsed, Inc, Heads
<1>4. h \in Heads \ freeHeads /\ ~InAvail(h)
  BY Zenon, <1>2, <1>3, LiveHeads
<1>5. \A x : /\ InAvail(x)' <=> InAvail(x)
             /\ InUsed(x)' <=> InUsed(x) /\ x # h
  BY Zenon, <1>1, <1>3 DEF InAvail, InUsed
<1>6. \A g \in Heads \ freeHeads : g # h => chain'[g] = chain[g] /\ chain[g].req # r
  BY Zenon, <1>1, <1>4, <1>r DEF ReqInv, LiveReq
<1>7. \A q \in Requests : q # r =>
        kind'[q] = kind[q] /\ phase'[q] = phase[q] /\ xfer'[q] = xfer[q]
  BY Zenon, <1>1 DEF PlaceInv, TypeInv, HistType
<1>8. \A t \in Threads : InHand(t)' <=> InHand(t)
  BY Zenon, <1>1 DEF InHand
<1>9. \A t \in Threads : InHand(t) => cur[t].head # h
  BY Zenon, <1>3, LiveHeads
<1>10. h \in freeHeads' /\ \A g \in Heads : g # h => (g \in freeHeads' <=> g \in freeHeads)
  BY Zenon, <1>1
<1>11. ReqInv'
  <2>1. OthersKept(h, r)
    BY Zenon, <1>1, <1>2, <1>5, <1>6, <1>7, <1>8, <1>10 DEF OthersKept
  <2>2. HeadAnswers(h, r)
    <3>1. ~InAvail(h)' /\ ~InUsed(h)'
      BY Zenon, <1>4, <1>5
    <3>2. \A t \in Threads : InHand(t)' => cur'[t].head # h
      BY Zenon, <1>1, <1>8, <1>9
    <3> QED BY Zenon, <1>10, <3>1, <3>2 DEF HeadAnswers
  <2> QED BY Zenon, <1>3, <2>1, <2>2, OneHead
<1> QED BY Zenon, <1>2, <1>3, <1>11, <1>h

(* What queue_notify finds in the chain at the next head. *)
LEMMA NextReq ==
  ASSUME PlaceInv, ReqInv, NEW t \in Threads, Receives(t), Advance,
         UNCHANGED guestVars
  PROVE  /\ attached /\ NextHead \in Heads \ freeHeads
         /\ chain[NextHead].req \in Requests
         /\ chain[NextHead].kind = kind[chain[NextHead].req]
         /\ phase[chain[NextHead].req] = "submitted"
         /\ chain[NextHead].kind = "out" =>
              chain[NextHead].data = chain[NextHead].req
         /\ ~InUsed(NextHead)
         /\ \A v \in Threads : InHand(v) => cur[v].head # NextHead
         /\ \A g \in Heads \ freeHeads : g # NextHead =>
              chain'[g] = chain[g] /\ chain[g].req # chain[NextHead].req
         /\ \A x : /\ InAvail(x)' <=> InAvail(x) /\ x # NextHead
                   /\ InUsed(x)' <=> InUsed(x)
         /\ freeHeads' = freeHeads /\ chain' = chain
<1>1. /\ attached /\ NextHead \in Heads /\ InAvail(NextHead)
      /\ \A x : Holds(avail.ring, Num, IdxMod, Inc(last_avail_idx), avail.idx, x)
                  <=> InAvail(x) /\ x # NextHead
  BY Zenon, NextTurn DEF PlaceInv
<1>2. /\ NextHead \in Heads \ freeHeads /\ ~InUsed(NextHead)
      /\ \A v \in Threads : InHand(v) => cur[v].head # NextHead
  BY Zenon, <1>1, LiveHeads
<1>3. /\ avail' = avail /\ used' = used /\ chain' = chain /\ lastUsed' = lastUsed
      /\ freeHeads' = freeHeads /\ last_avail_idx' = Inc(last_avail_idx)
  BY Zenon DEF guestVars, ringVars, driverVars, Advance
<1>4. \A x : /\ InAvail(x)' <=> InAvail(x) /\ x # NextHead
             /\ InUsed(x)' <=> InUsed(x)
  BY Zenon, <1>1, <1>3 DEF InAvail, InUsed
<1>5. /\ chain[NextHead].req \in Requests
      /\ chain[NextHead].kind = kind[chain[NextHead].req]
      /\ \A g \in Heads \ freeHeads : g # NextHead =>
           chain[g].req # chain[NextHead].req
  BY Zenon, <1>2 DEF ReqInv, LiveReq
<1>6. /\ phase[chain[NextHead].req] = "submitted"
      /\ chain[NextHead].kind = "out" =>
           chain[NextHead].data = chain[NextHead].req
  BY Zenon, <1>1 DEF ReqInv, AvailReq
<1> QED BY Zenon, <1>1, <1>2, <1>3, <1>4, <1>5, <1>6

(* queue_notify passes over an unsupported request, refuses one with       *)
(* IOERR, or hands it to an idle worker; each way only its own head        *)
(* changes.                                                                *)
LEMMA ReceiveReq ==
  ASSUME PlaceInv, ReqInv, NEW t \in Threads,
         RecvIgnore(t) \/ RecvRefuse(t) \/ \E w \in Workers : RecvRun(t, w)
  PROVE  ReqInv'
<1> USE Basics
<1>h. PICK h : h = NextHead
  BY Zenon
<1>r. PICK r : r = chain[h].req
  BY Zenon
<1>1. /\ Receives(t) /\ Advance /\ UNCHANGED guestVars
      /\ attached' = attached /\ kind' = kind /\ xfer' = xfer
  BY Zenon DEF RecvIgnore, RecvRefuse, RecvRun, histVars
<1>2. /\ attached /\ h \in Heads /\ h \notin freeHeads /\ r \in Requests
      /\ chain[h].kind = kind[r] /\ phase[r] = "submitted"
      /\ chain[h].kind = "out" => chain[h].data = r
      /\ ~InUsed(h)
      /\ \A v \in Threads : InHand(v) => cur[v].head # h
      /\ \A g \in Heads \ freeHeads : g # h =>
           chain'[g] = chain[g] /\ chain[g].req # r
      /\ \A x : /\ InAvail(x)' <=> InAvail(x) /\ x # h
                /\ InUsed(x)' <=> InUsed(x)
      /\ freeHeads' = freeHeads /\ chain' = chain
  BY Zenon, <1>1, <1>h, <1>r, NextReq
<1>3. cur \in [Threads -> Currents] /\ pc \in [Threads -> Places]
      /\ phase \in [Requests ->
                     {"new", "submitted", "performed", "failed", "answered"}]
  BY Zenon DEF PlaceInv, TypeInv, ThreadType, HistType
<1>4. CASE RecvIgnore(t)
  <2>1. pc' = pc /\ cur' = cur /\ phase' = phase
    BY Zenon, <1>4 DEF RecvIgnore, threadVars, histVars
  <2>2. \A v \in Threads : InHand(v)' <=> InHand(v)
    BY Zenon, <2>1 DEF InHand
  <2>3. OthersKept(h, r)
    BY Zenon, <1>1, <1>2, <2>1, <2>2 DEF OthersKept
  <2>4. HeadAnswers(h, r)
    BY Zenon, <1>1, <1>2, <1>r, <2>1, <2>2 DEF HeadAnswers
  <2> QED BY Zenon, <1>2, <2>3, <2>4, OneHead
<1>5. ASSUME NEW w \in Workers, RecvRun(t, w)
      PROVE  ReqInv'
  <2>1. /\ phase' = phase /\ pc' = [pc EXCEPT ![w] = "io"]
        /\ cur' = [cur EXCEPT ![w] = Received("none", TRUE)]
        /\ RunnableKind(chain[h].kind) /\ pc[w] = "idle"
    BY Zenon, <1>5, <1>h DEF RecvRun, histVars, Idle
  <2>2. \A v \in Threads : InHand(v)' <=> InHand(v) \/ v = w
    BY Zenon, <1>3, <2>1 DEF InHand
  <2>3. /\ cur'[w].kind = chain[h].kind /\ cur'[w].data = chain[h].data
        /\ pc'[w] = "io"
        /\ \A v \in Threads : v # w => cur'[v] = cur[v] /\ pc'[v] = pc[v]
    BY Zenon, <1>3, <1>h, <2>1 DEF Received
  <2>4. HandOK(w, h, r)'
    BY Zenon, <1>1, <1>2, <2>1, <2>3 DEF HandOK, RunnableKind
  <2>5. \A v \in Threads : InHand(v)' /\ cur'[v].head = h => HandOK(v, h, chain[h].req)'
    BY Zenon, <1>2, <1>r, <2>2, <2>3, <2>4
  <2>6. cur'[w].head = h
    BY Zenon, <1>3, <1>h, <2>1 DEF Received
  <2>7. \A v \in Threads : InHand(v)' /\ cur'[v].head # h =>
          InHand(v) /\ cur'[v] = cur[v] /\ (pc'[v] = "io" <=> pc[v] = "io")
    BY Zenon, <2>2, <2>3, <2>6
  <2>8. \A q \in Requests : kind'[q] = kind[q] /\ phase'[q] = phase[q] /\ xfer'[q] = xfer[q]
    BY Zenon, <1>1, <2>1
  <2>9. OthersKept(h, r)
    BY Zenon, <1>1, <1>2, <2>7, <2>8 DEF OthersKept
  <2>10. HeadAnswers(h, r)
    BY Zenon, <1>1, <1>2, <1>r, <2>1, <2>5 DEF HeadAnswers
  <2> QED BY Zenon, <1>2, <2>9, <2>10, OneHead
<1>6. CASE RecvRefuse(t)
  <2>1. /\ phase' = [phase EXCEPT ![r] = "failed"] /\ pc' = [pc EXCEPT ![t] = "publish"]
        /\ cur' = [cur EXCEPT ![t] = Received("IOERR", FALSE)]
        /\ RunnableKind(chain[h].kind) /\ pc[t] = "notify"
    BY Zenon, <1>6, <1>h, <1>r DEF RecvRefuse, Receives
  <2>2. \A v \in Threads : InHand(v)' <=> InHand(v) \/ v = t
    BY Zenon, <1>3, <2>1 DEF InHand
  <2>3. /\ cur'[t].kind = chain[h].kind /\ cur'[t].data = chain[h].data
        /\ cur'[t].status = "IOERR" /\ cur'[t].head = h
        /\ pc'[t] = "publish"
        /\ \A v \in Threads : v # t => cur'[v] = cur[v] /\ pc'[v] = pc[v]
    BY Zenon, <1>3, <1>h, <2>1 DEF Received
  <2>4. phase'[r] = "failed" /\ \A q \in Requests : q # r => phase'[q] = phase[q]
    BY Zenon, <1>2, <1>3, <2>1
  <2>5. HandOK(t, h, r)'
    BY Zenon, <1>1, <1>2, <2>1, <2>3, <2>4 DEF HandOK, RunnableKind, Settled
  <2>6. \A v \in Threads : InHand(v)' /\ cur'[v].head = h => HandOK(v, h, chain[h].req)'
    <3>1. \A v \in Threads : InHand(v)' /\ cur'[v].head = h => v = t
      BY ZenonT(30), <1>2, <2>2, <2>3
    <3>2. chain'[h].req = r
      BY Zenon, <1>2, <1>r
    <3> QED BY Zenon, <2>5, <3>1, <3>2
  <2>7. \A v \in Threads : InHand(v)' /\ cur'[v].head # h =>
          InHand(v) /\ cur'[v] = cur[v] /\ (pc'[v] = "io" <=> pc[v] = "io")
    BY Zenon, <2>2, <2>3
  <2>8. OthersKept(h, r)
    BY Zenon, <1>1, <1>2, <2>4, <2>7 DEF OthersKept
  <2>9. HeadAnswers(h, r)
    BY Zenon, <1>1, <1>2, <1>r, <2>4, <2>6 DEF HeadAnswers
  <2> QED BY Zenon, <1>2, <2>8, <2>9, OneHead
<1> QED BY Zenon, <1>4, <1>5, <1>6

(* A completion writes the status (and the data of a read) of the request  *)
(* that is in hand, and of no other.                                       *)
LEMMA PublishReq ==
  ASSUME PlaceInv, ReqInv, NEW t \in Threads, Publish(t) \/ LatePublish(t)
  PROVE  ReqInv'
<1> USE Basics
<1>h. PICK h : h = cur[t].head
  BY Zenon
<1>r. PICK r : r = chain[h].req
  BY Zenon
<1>m. PICK moved : moved = IF cur[t].kind = "in" THEN cur[t].data ELSE chain[h].data
  BY Zenon
<1>1. /\ attached /\ InHand(t)
      /\ \A x : Holds(used'.ring, Num, IdxMod, lastUsed, used'.idx, x)
                  <=> InUsed(x) \/ x = h
  BY Zenon, <1>h, Completed DEF PlaceInv
<1>2. /\ avail' = avail /\ lastUsed' = lastUsed /\ freeHeads' = freeHeads
      /\ last_avail_idx' = last_avail_idx /\ attached' = attached
      /\ kind' = kind /\ phase' = phase /\ xfer' = xfer
      /\ pc[t] # "io" /\ pc'[t] \in {"flags", "sample", "notify"}
      /\ \A v \in Threads : v # t => pc'[v] = pc[v] /\ cur'[v] = cur[v]
      /\ chain' = [chain EXCEPT ![h] =
                     [chain[h] EXCEPT !.status = cur[t].status, !.data = moved]]
  <2>1. pc \in [Threads -> Places] /\ cur \in [Threads -> Currents]
    BY Zenon DEF PlaceInv, TypeInv, ThreadType
  <2> QED BY Zenon, <1>h, <1>m, <2>1 DEF Publish, LatePublish, Goto,
             AfterConsume, Forget, driverVars,
                      devVars, histVars, WriteUsed, StatusOf
<1>3. /\ h \in Heads /\ h \notin freeHeads /\ ~InAvail(h)
      /\ \A v \in Threads : InHand(v) /\ cur[v].head = h => v = t
  BY Zenon, <1>1, <1>h, LiveHeads
<1>4. /\ r \in Requests /\ chain[h].kind = kind[r]
      /\ phase[r] \in {"submitted", "performed", "failed"}
      /\ \A g \in Heads \ freeHeads : g # h => chain[g].req # r
  BY Zenon, <1>3, <1>r DEF ReqInv, LiveReq
<1>5. HandOK(t, h, r)
  BY Zenon, <1>1, <1>h, <1>r DEF ReqInv, HandReq
<1>6. chain[h] \in Chains /\ chain \in [Heads -> Chains]
  BY Zenon, <1>3 DEF PlaceInv, TypeInv, RingType
<1>7. moved = cur[t].data
  BY Zenon, <1>5, <1>m DEF HandOK, RunnableKind
<1>8. /\ chain'[h].req = r /\ chain'[h].kind = chain[h].kind
      /\ chain'[h].status = cur[t].status /\ chain'[h].data = moved
      /\ \A g \in Heads : g # h => chain'[g] = chain[g]
  BY Zenon, <1>2, <1>3, <1>6, <1>r DEF Chains
<1>9. \A x : /\ InAvail(x)' <=> InAvail(x)
             /\ InUsed(x)' <=> InUsed(x) \/ x = h
  BY Zenon, <1>1, <1>2 DEF InAvail, InUsed
<1>10. \A v \in Threads : InHand(v)' <=> InHand(v) /\ v # t
  BY Zenon, <1>2 DEF InHand
<1>11. Settled(r, cur[t].status, cur[t].data)
  BY Zenon, <1>2, <1>5 DEF HandOK
<1>12. Settled(chain[h].req, chain[h].status, chain[h].data)'
  BY Zenon, <1>2, <1>7, <1>8, <1>11 DEF Settled
<1>13. \A v \in Threads : InHand(v)' => cur'[v].head # h /\ InHand(v)
         /\ cur'[v] = cur[v] /\ pc'[v] = pc[v]
  BY Zenon, <1>2, <1>3, <1>10
<1>14. OthersKept(h, r)
  BY Zenon, <1>2, <1>4, <1>8, <1>9, <1>13 DEF OthersKept
<1>15. HeadAnswers(h, r)
  BY Zenon, <1>2, <1>3, <1>4, <1>8, <1>9, <1>12, <1>13 DEF HeadAnswers
<1> QED BY Zenon, <1>3, <1>14, <1>15, OneHead

(* block_io_worker_fn is where a request takes effect. *)
LEMMA TransferReq ==
  ASSUME PlaceInv, ReqInv, NEW w \in Workers, DoIO(w)
  PROVE  ReqInv' /\ DS!Next
<1> USE Basics
<1>h. PICK h : h = cur[w].head
  BY Zenon
<1>r. PICK r : r = chain[h].req
  BY Zenon
<1>1. /\ pc[w] = "io" /\ pc' = [pc EXCEPT ![w] = "lock"] /\ UNCHANGED guestVars
      /\ attached' = attached /\ last_avail_idx' = last_avail_idx
      /\ kind' = kind /\ answer' = answer
  BY Zenon DEF DoIO, Goto, devVars
<1>2. /\ avail' = avail /\ used' = used /\ chain' = chain
      /\ freeHeads' = freeHeads /\ lastUsed' = lastUsed
  BY Zenon, <1>1 DEF guestVars, ringVars, driverVars
<1>3. /\ pc \in [Threads -> Places] /\ cur \in [Threads -> Currents]
      /\ cur[w] \in Currents
      /\ phase \in [Requests ->
                     {"new", "submitted", "performed", "failed", "answered"}]
      /\ xfer \in [Requests -> Data]
  BY Zenon DEF PlaceInv, TypeInv, ThreadType, HistType
<1>4. InHand(w) /\ \A v \in Threads : InHand(v)' <=> InHand(v)
  BY Zenon, <1>1, <1>3 DEF InHand
<1>5. /\ h \in Heads /\ h \notin freeHeads /\ ~InAvail(h) /\ ~InUsed(h)
      /\ \A v \in Threads : InHand(v) /\ cur[v].head = h => v = w
  BY Zenon, <1>4, <1>h, LiveHeads
<1>6. /\ r \in Requests /\ chain[h].kind = kind[r]
      /\ \A g \in Heads \ freeHeads : g # h => chain[g].req # r
  BY Zenon, <1>5, <1>r DEF ReqInv, LiveReq
<1>7. /\ cur[w].kind = kind[r] /\ kind[r] \in {"in", "out"} /\ phase[r] = "submitted"
      /\ kind[r] = "out" => chain[h].data = r /\ cur[w].data = r
  BY Zenon, <1>1, <1>4, <1>h, <1>r DEF ReqInv, HandReq, HandOK, RunnableKind
<1>8. \A x : (InAvail(x)' <=> InAvail(x)) /\ (InUsed(x)' <=> InUsed(x))
  BY Zenon, <1>1, <1>2 DEF InAvail, InUsed
<1>9. PICK ok \in BOOLEAN : Transfer(w, ok)
  BY Zenon DEF DoIO, Outcomes
<1>10. \A q \in Requests : q # r => phase'[q] = phase[q] /\ xfer'[q] = xfer[q]
  <2>1. phase' = [phase EXCEPT ![r] = IF ok THEN "performed" ELSE "failed"]
    BY Zenon, <1>9, <1>h, <1>r DEF Transfer
  <2>2. \/ xfer' = xfer \/ xfer' = [xfer EXCEPT ![r] = disk]
        \/ xfer' = [xfer EXCEPT ![r] = cur[w].data]
    BY Zenon, <1>9, <1>h, <1>r DEF Transfer
  <2> QED BY Zenon, <1>3, <2>1, <2>2
<1>11. \A v \in Threads : /\ cur'[v].head = cur[v].head
                          /\ cur'[v].kind = cur[v].kind
                          /\ v # w => cur'[v] = cur[v] /\ pc'[v] = pc[v]
  BY Zenon, <1>1, <1>3, InHandKept DEF PlaceInv
<1>12. SUFFICES /\ phase'[r] \in {"performed", "failed"}
                /\ kind[r] = "out" => cur'[w].data = r
                /\ \/ /\ phase'[r] = "performed" /\ cur'[w].status = "OK"
                      /\ cur'[w].data = xfer'[r]
                   \/ phase'[r] = "failed" /\ cur'[w].status = "IOERR"
                /\ DS!Next
  <2>1. ASSUME /\ phase'[r] \in {"performed", "failed"}
               /\ kind[r] = "out" => cur'[w].data = r
               /\ \/ /\ phase'[r] = "performed" /\ cur'[w].status = "OK"
                     /\ cur'[w].data = xfer'[r]
                  \/ phase'[r] = "failed" /\ cur'[w].status = "IOERR"
        PROVE  ReqInv'
    <3>1. pc'[w] = "lock"
      BY Zenon, <1>1, <1>3
    <3>2. Settled(r, cur[w].status, cur[w].data)'
      BY Zenon, <2>1 DEF Settled
    <3>3. HandOK(w, h, r)'
      BY Zenon, <1>1, <1>2, <1>7, <1>11, <2>1, <3>1, <3>2
         DEF HandOK, RunnableKind
    <3>4. \A v \in Threads : InHand(v)' /\ cur'[v].head = h => HandOK(v, h, chain[h].req)'
      BY Zenon, <1>2, <1>4, <1>5, <1>11, <1>r, <3>3
    <3>5. \A v \in Threads : InHand(v)' /\ cur'[v].head # h =>
            InHand(v) /\ cur'[v] = cur[v] /\ (pc'[v] = "io" <=> pc[v] = "io")
      BY Zenon, <1>4, <1>11, <1>h
    <3>6. h \notin freeHeads' =>
            /\ chain'[h].req = r /\ r \in Requests /\ chain'[h].kind = kind'[r]
            /\ phase'[r] \in {"submitted", "performed", "failed"}
      BY Zenon, <1>1, <1>2, <1>6, <1>r, <2>1
    <3>7. \A q \in Requests : q # r =>
            kind'[q] = kind[q] /\ phase'[q] = phase[q] /\ xfer'[q] = xfer[q]
      BY Zenon, <1>1, <1>10
    <3>8. OthersKept(h, r)
      BY Zenon, <1>1, <1>2, <1>6, <1>8, <3>5, <3>7 DEF OthersKept
    <3>9. HeadAnswers(h, r)
      BY Zenon, <1>5, <1>8, <3>4, <3>6 DEF HeadAnswers
    <3> QED BY Zenon, <1>5, <3>8, <3>9, OneHead
  <2> QED BY Zenon, <2>1
<1>13. phase' = [phase EXCEPT ![r] = IF ok THEN "performed" ELSE "failed"]
  BY Zenon, <1>9, <1>h, <1>r DEF Transfer
<1>14. CASE kind[r] = "in"
  <2>1. /\ disk' = disk
        /\ xfer' = IF ok THEN [xfer EXCEPT ![r] = disk] ELSE xfer
        /\ \E d \in {disk} \cup (IF ok THEN {} ELSE {Blank}) :
             cur' = [cur EXCEPT ![w] =
               [cur[w] EXCEPT !.data = d, !.status = IF ok THEN "OK" ELSE "IOERR"]]
    BY Zenon, <1>7, <1>9, <1>14, <1>h, <1>r DEF Transfer
  <2>2. CASE ok
    <3>1. /\ phase' = [phase EXCEPT ![r] = "performed"]
          /\ xfer' = [xfer EXCEPT ![r] = disk]
          /\ cur' = [cur EXCEPT ![w] = [cur[w] EXCEPT !.data = disk, !.status = "OK"]]
      BY Zenon, <1>13, <2>1, <2>2
    <3>2. phase'[r] = "performed" /\ xfer'[r] = disk
      BY Zenon, <1>3, <1>6, <3>1
    <3>3. cur'[w].status = "OK" /\ cur'[w].data = disk
      BY Zenon, <1>3, <3>1 DEF Currents
    <3>4. DS!Read(r)
      BY Zenon, <1>1, <1>7, <1>14, <2>1, <3>1 DEF DS!Read, DS!Step
    <3> QED BY Zenon, <1>6, <1>14, <3>2, <3>3, <3>4 DEF DS!Next
  <2>3. CASE ~ok
    <3>1. /\ phase' = [phase EXCEPT ![r] = "failed"] /\ xfer' = xfer
          /\ \E d : cur' = [cur EXCEPT ![w] =
                             [cur[w] EXCEPT !.data = d, !.status = "IOERR"]]
      BY Zenon, <1>13, <2>1, <2>3
    <3>2. phase'[r] = "failed"
      BY Zenon, <1>3, <1>6, <3>1
    <3>3. cur'[w].status = "IOERR"
      BY <1>3, <3>1 DEF Currents
    <3>4. DS!Fail(r)
      BY Zenon, <1>1, <1>7, <2>1, <3>1 DEF DS!Fail, DS!Step
    <3> QED BY Zenon, <1>6, <1>14, <3>2, <3>3, <3>4 DEF DS!Next
  <2> QED BY Zenon, <2>2, <2>3
<1>15. CASE kind[r] = "out"
  <2>1. /\ disk' \in {r} \cup (IF ok THEN {} ELSE {disk})
        /\ xfer' = IF ok THEN [xfer EXCEPT ![r] = r] ELSE xfer
        /\ cur' = [cur EXCEPT ![w] =
             [cur[w] EXCEPT !.status = IF ok THEN "OK" ELSE "IOERR"]]
    BY Zenon, <1>7, <1>9, <1>15, <1>h, <1>r DEF Transfer
  <2>2. CASE ok
    <3>1. /\ phase' = [phase EXCEPT ![r] = "performed"] /\ disk' = r
          /\ xfer' = [xfer EXCEPT ![r] = r]
          /\ cur' = [cur EXCEPT ![w] = [cur[w] EXCEPT !.status = "OK"]]
      BY Zenon, <1>13, <2>1, <2>2
    <3>2. phase'[r] = "performed" /\ xfer'[r] = r
      BY Zenon, <1>3, <1>6, <3>1
    <3>3. cur'[w].status = "OK" /\ cur'[w].data = r
      BY Zenon, <1>3, <1>7, <1>15, <3>1 DEF Currents
    <3>4. DS!Write(r)
      BY Zenon, <1>1, <1>7, <1>15, <3>1 DEF DS!Write, DS!Step
    <3> QED BY Zenon, <1>6, <3>2, <3>3, <3>4 DEF DS!Next
  <2>3. CASE ~ok
    <3>1. /\ phase' = [phase EXCEPT ![r] = "failed"] /\ xfer' = xfer
          /\ disk' = r \/ disk' = disk
          /\ cur' = [cur EXCEPT ![w] = [cur[w] EXCEPT !.status = "IOERR"]]
      BY Zenon, <1>13, <2>1, <2>3
    <3>2. phase'[r] = "failed"
      BY Zenon, <1>3, <1>6, <3>1
    <3>3. cur'[w].status = "IOERR" /\ cur'[w].data = r
      BY Zenon, <1>3, <1>7, <1>15, <3>1 DEF Currents
    <3>4. DS!Fail(r)
      BY Zenon, <1>1, <1>7, <1>15, <3>1 DEF DS!Fail, DS!Step
    <3> QED BY Zenon, <1>6, <3>2, <3>3, <3>4 DEF DS!Next
  <2> QED BY Zenon, <2>2, <2>3
<1> QED BY Zenon, <1>7, <1>14, <1>15

(* Chains, requests in hand and histories agree after every step. *)
LEMMA ReqStep ==
  ASSUME PlaceInv, ReqInv, [Next]_vars
  PROVE  ReqInv'
<1>1. CASE Reset \/ Attach
  <2>1. freeHeads' = Heads /\ pc' = pc /\ cur' = cur /\ \A t \in Threads : ~InHand(t)
    <3>1. CASE Reset
      <4>1. freeHeads = Heads /\ freeHeads' = freeHeads /\ pc' = pc /\ cur' = cur
        BY Zenon, <3>1 DEF Reset, driverVars, threadVars
      <4> QED BY Zenon, <4>1, LiveHeads
    <3>2. CASE Attach
      BY Zenon, <3>2 DEF Attach, PlaceInv, OffInv, threadVars
    <3> QED BY Zenon, <1>1, <3>1, <3>2
  <2>2. LiveReq'
    BY Zenon, <2>1 DEF LiveReq
  <2>3. HandReq'
    BY Zenon, <2>1 DEF HandReq, InHand
  <2>4. PlaceInv'
    BY Zenon, PlaceStep
  <2>5. \A h \in Heads : attached' => ~InAvail(h)' /\ ~InUsed(h)'
    BY Zenon, <2>1, <2>4 DEF PlaceInv, HeadInv, Apart
  <2> QED BY Zenon, <2>2, <2>3, <2>5 DEF ReqInv, AvailReq, UsedReq
<1>2. CASE Aside
  <2>1. TypeInv
    BY Zenon DEF PlaceInv
  <2> QED BY Zenon, <1>2, <2>1, StayPut, ReqFrame
<1> QED BY Zenon, <1>1, <1>2, SubmitReq, DrainReq, ReceiveReq, PublishReq,
           TransferReq, Cases
        DEF Aside

(* Every step of the device and its driver is one of the disk's, or none. *)
LEMMA ServiceStep ==
  ASSUME PlaceInv, ReqInv, [Next]_vars
  PROVE  [DS!Next]_(DS!svcVars)
<1> USE Basics DEF DS!svcVars
<1>1. ASSUME NEW r \in Requests, NEW h \in Heads, NEW k \in AllKinds,
             Submit(r, h, k)
      PROVE  DS!Next
  <2>1. DS!Submit(r)
    BY Zenon, <1>1 DEF Submit, DS!Submit, DS!Step, AllKinds
  <2> QED BY Zenon, <2>1 DEF DS!Next
<1>2. CASE Drain
  <2>h. PICK h : h = used.ring[lastUsed % Num]
    BY Zenon
  <2>r. PICK r : r = chain[h].req
    BY Zenon
  <2>1. attached /\ h \in Heads /\ InUsed(h)
    BY Zenon, <1>2, <2>h, DrainReq
  <2>2. h \in Heads \ freeHeads
    BY Zenon, <2>1, LiveHeads
  <2>3. r \in Requests
    BY Zenon, <2>2, <2>r DEF ReqInv, LiveReq
  <2>4. Settled(r, chain[h].status, chain[h].data)
    BY Zenon, <2>1, <2>r DEF ReqInv, UsedReq
  <2>5. chain[h] \in Chains
    BY Zenon, <2>1 DEF PlaceInv, TypeInv, RingType
  <2>6. /\ answer' = [answer EXCEPT ![r] =
             [status |-> chain[h].status, data |-> chain[h].data]]
        /\ phase' = [phase EXCEPT ![r] = "answered"]
        /\ disk' = disk /\ kind' = kind /\ xfer' = xfer
    BY Zenon, <1>2, <2>h, <2>r DEF Drain
  <2>7. CASE phase[r] = "performed"
    <3>1. chain[h].status = "OK" /\ chain[h].data = xfer[r]
      BY Zenon, <2>4, <2>7 DEF Settled
    <3>2. DS!Succeed(r)
      BY Zenon, <2>6, <2>7, <3>1 DEF DS!Succeed, DS!Step
    <3> QED BY Zenon, <2>3, <3>2 DEF DS!Next
  <2>8. CASE phase[r] = "failed"
    <3>1. chain[h].status = "IOERR" /\ chain[h].data \in Requests \cup {Blank}
      BY Zenon, <2>4, <2>5, <2>8 DEF Settled, Chains, Data
    <3>2. DS!Report(r)
      BY Zenon, <2>6, <2>8, <3>1 DEF DS!Report, DS!Step
    <3> QED BY Zenon, <2>3, <3>2 DEF DS!Next
  <2> QED BY Zenon, <2>4, <2>7, <2>8 DEF Settled
<1>3. ASSUME NEW t \in Threads, RecvRefuse(t)
      PROVE  DS!Next
  <2>r. PICK r : r = chain[NextHead].req
    BY Zenon
  <2>1. /\ Receives(t) /\ Advance /\ UNCHANGED guestVars
        /\ RunnableKind(chain[NextHead].kind)
        /\ phase' = [phase EXCEPT ![r] = "failed"]
        /\ disk' = disk /\ kind' = kind /\ xfer' = xfer /\ answer' = answer
    BY Zenon, <1>3, <2>r DEF RecvRefuse
  <2>2. r \in Requests /\ kind[r] = chain[NextHead].kind /\ phase[r] = "submitted"
    BY Zenon, <2>1, <2>r, NextReq
  <2>3. DS!Fail(r)
    BY Zenon, <2>1, <2>2 DEF DS!Fail, DS!Step, RunnableKind
  <2> QED BY Zenon, <2>2, <2>3 DEF DS!Next
<1>4. CASE Aside
  <2>1. UNCHANGED histVars
    BY Zenon, <1>4, StayPut DEF PlaceInv
  <2> QED BY Zenon, <2>1 DEF histVars
<1>5. CASE Reset \/ Attach
  BY Zenon, <1>5 DEF Reset, Attach, histVars
<1>6. ASSUME NEW t \in Threads,
             \/ RecvIgnore(t) \/ Publish(t) \/ LatePublish(t)
             \/ \E w \in Workers : RecvRun(t, w)
      PROVE  UNCHANGED DS!svcVars
  BY Zenon, <1>6 DEF RecvIgnore, Publish, LatePublish, RecvRun, histVars
<1> QED BY Zenon, <1>1, <1>2, <1>3, <1>4, <1>5, <1>6, TransferReq, Cases
           DEF Aside

(* The block device implements the disk of BlockService: whatever the      *)
(* workers, the rings and the order of completions do, each request takes  *)
(* effect at most once, between its submission and its one answer, and the *)
(* answer says what happened to it.                                        *)
THEOREM DiskImplemented == Spec => DiskService
<1>1. Init => DS!Init /\ PlaceInv /\ ReqInv
  <2>1. Init => PlaceInv
    BY Zenon, PlaceInit
  <2>2. Init => DS!Init
    BY Zenon DEF Init, DS!Init, NoAnswer, DS!NoAnswer
  <2>3. ASSUME Init PROVE ReqInv
    <3>1. LiveReq /\ AvailReq /\ UsedReq
      BY Zenon, <2>3 DEF Init, LiveReq, AvailReq, UsedReq
    <3>2. HandReq
      BY Zenon, <2>3, Basics DEF Init, HandReq, InHand
    <3> QED BY Zenon, <3>1, <3>2 DEF ReqInv
  <2> QED BY Zenon, <2>1, <2>2, <2>3
<1>2. PlaceInv /\ ReqInv /\ [Next]_vars => PlaceInv' /\ ReqInv'
  BY Zenon, PlaceStep, ReqStep
<1>3. PlaceInv /\ ReqInv /\ [Next]_vars => [DS!Next]_(DS!svcVars)
  BY Zenon, ServiceStep
<1> QED BY <1>1, <1>2, <1>3, PTL DEF Spec, DiskService, DS!Spec
=============================================================================
