------------------------------ MODULE Lifecycle ------------------------------
(***************************************************************************)
(* A run of the program from main() to exit: building the machine, the     *)
(* threads it starts (keyboard, ioeventfd poll threads, disk workers, TAP  *)
(* receiver), SIGTERM and the guest module's poweroff, and the teardown of *)
(* mvvm_destroy, which frees and joins in a fixed order while the device   *)
(* threads are still running.                                              *)
(*                                                                         *)
(* What a thread does to an object is reduced to which objects it touches, *)
(* one step for each: a thread may be anywhere in queue_notify, in the     *)
(* completion of a disk request or between a packet's arrival and its      *)
(* delivery when main() frees something.  Touching an object that is not   *)
(* live is recorded in bad, and the process does nothing after that.       *)
(* Guest and users are external.                                           *)
(***************************************************************************)
EXTENDS Naturals, Sequences

CONSTANTS
  Disk,        \* was -d given?
  Net,         \* was -t given?
  Workers,     \* the pool's threads, and their worker_thread structures
  MaxEvents    \* bound on SIGTERMs, buffers posted and packets, together

Devices == {"blk", "net"}
Shared == {"mem", "pool", "blkctx", "netctx"} \cup Devices
Pollers == {"blkpoll", "netpoll"}
Servers == Pollers \cup Workers        \* the threads that call queue_notify
Threads == {"kbd", "rx"} \cup Servers
Objects == Shared \cup Workers

ASSUME LifecycleAssumption ==
  /\ {Disk, Net} \subseteq BOOLEAN
  /\ MaxEvents \in Nat
  /\ Workers \cap ({"main", "kbd", "rx", "none"} \cup Pollers \cup Shared) = {}

PollOf(d) == IF d = "blk" THEN "blkpoll" ELSE "netpoll"
DeviceOf(t) == IF t = "netpoll" THEN "net" ELSE "blk"

VARIABLES
  mpc,         \* where main() is
  obj,         \* obj[o]: "none", "live" or "freed"
  pc,          \* pc[t]: where thread t is; "none" before and "gone" after
  bad,         \* <<t, o>>: thread t touched o, which was not live
  quit,        \* vm.quit
  poolQuit, netQuit, \* pool->quit, ctx->quit
  enabled,     \* enabled[d]: ioeventfd_enabled
  kick,        \* kick[d]: the device's eventfd is signalled
  avail,       \* avail[d]: buffers the device has not taken from its queue
  lock,        \* lock[d]: the thread that holds s->lock, or "none"
  left,        \* left[t]: entries between last_avail_idx and t's avail_idx
  claim,       \* claim[t]: the worker thread_pool_run has picked for t
  isWorking,   \* pool->is_working
  task,        \* task[w]: worker->task_fn is set and not yet running
  power_cmd,   \* vm->power_cmd
  irq5,        \* power interrupt latched
  spc,         \* the SIGTERM handler: "none", "caught" or "raise"
  events,      \* SIGTERMs, buffers posted and packets so far
  gpc,         \* guest: "boot" (no module), "ready", in its power interrupt
               \* ("read", "handle", "work"), "halting" or "off"
  seen,        \* the value the guest's inb(0x300) returns
  orderly      \* never changes: the guest stops only by poweroff with its I/O
               \* done, and no packet arrives after it has stopped

flags == <<quit, poolQuit, netQuit, enabled>>
signalVars == <<power_cmd, irq5, spc, gpc, seen, orderly>>
powerVars == <<signalVars, events>>
poolVars == <<claim, isWorking, task>>
workVars == <<kick, avail, lock, left, poolVars>>
vars == <<mpc, obj, pc, bad, flags, workVars, powerVars>>

Init ==
  /\ mpc = "init"
  /\ obj = [o \in Objects |-> "none"]
  /\ pc = [t \in Threads |-> "none"]
  /\ bad = {}
  /\ quit = FALSE /\ poolQuit = FALSE /\ netQuit = FALSE
  /\ enabled = [d \in Devices |-> FALSE]
  /\ kick = [d \in Devices |-> FALSE] /\ avail = [d \in Devices |-> 0]
  /\ lock = [d \in Devices |-> "none"] /\ left = [t \in Servers |-> 0]
  /\ claim = [t \in Servers |-> "none"]
  /\ isWorking = [w \in Workers |-> FALSE] /\ task = [w \in Workers |-> FALSE]
  /\ power_cmd = 0 /\ irq5 = FALSE /\ spc = "none" /\ events = 0
  /\ gpc = "boot" /\ seen = 0 /\ orderly \in BOOLEAN

Gone == {"failed", "killed", "done"}
Running == bad = {} /\ mpc \notin Gone

(* Objects are touched in the order of path; the first dead one is fatal. *)
FirstDead(path) ==
  {path[i] : i \in {j \in 1..Len(path) :
     /\ obj[path[j]] # "live"
     /\ \A k \in 1..(j - 1) : obj[path[k]] = "live"}}
Touch(t, path) == bad' = bad \cup ({t} \X FirstDead(path))

MainGoto(from, to) == Running /\ mpc = from /\ mpc' = to
At(t, place) == Running /\ pc[t] = place
Goto(t, place) == pc' = [pc EXCEPT ![t] = place]

Make(os) == obj' = [o \in Objects |-> IF o \in os THEN "live" ELSE obj[o]]
Free(o) == obj' = [obj EXCEPT ![o] = "freed"]
FirstPlace(t) == CASE t \in Pollers -> "poll" [] t \in Workers -> "wait"
                   [] t = "rx" -> "read" [] t = "kbd" -> "keys"
Start(ts) == pc' = [t \in Threads |-> IF t \in ts THEN FirstPlace(t) ELSE pc[t]]

-----------------------------------------------------------------------------
(* main(): start *)

(* Any of these may fail; the process ends without any teardown. *)
Fail ==
  /\ Running /\ mpc \in {"init", "blk", "net", "load", "spawn", "enter"}
  /\ mpc' = "failed"
  /\ UNCHANGED <<obj, pc, bad, flags, workVars, powerVars>>

(* mvvm_init up to the devices *)
InitVm ==
  /\ MainGoto("init", "blk")
  /\ Make({"mem"})
  /\ UNCHANGED <<pc, bad, flags, workVars, powerVars>>

(* mvvm_init_virtio_blk and mvvm_init_virtio_net, when asked for *)
InitBlk ==
  /\ MainGoto("blk", "net")
  /\ IF Disk
       THEN /\ Make({"blk", "blkctx", "pool"} \cup Workers)
            /\ Start({"blkpoll"} \cup Workers)
            /\ enabled' = [enabled EXCEPT !["blk"] = TRUE]
       ELSE UNCHANGED <<obj, pc, enabled>>
  /\ UNCHANGED <<bad, quit, poolQuit, netQuit, workVars, powerVars>>

InitNet ==
  /\ MainGoto("net", "load")
  /\ IF Net
       THEN /\ Make({"net", "netctx"}) /\ Start({"netpoll", "rx"})
            /\ enabled' = [enabled EXCEPT !["net"] = TRUE]
       ELSE UNCHANGED <<obj, pc, enabled>>
  /\ UNCHANGED <<bad, quit, poolQuit, netQuit, workVars, powerVars>>

LoadKernel ==
  /\ MainGoto("load", "spawn")
  /\ UNCHANGED <<obj, pc, bad, flags, workVars, powerVars>>

SpawnKeyboard ==
  /\ MainGoto("spawn", "handler")
  /\ Start({"kbd"})
  /\ UNCHANGED <<obj, bad, flags, workVars, powerVars>>

InstallHandler ==
  /\ MainGoto("handler", "enter")
  /\ UNCHANGED <<obj, pc, bad, flags, workVars, powerVars>>

(* mvvm_run maps kvm_run and enters its loop. *)
EnterRun ==
  /\ MainGoto("enter", "run")
  /\ UNCHANGED <<obj, pc, bad, flags, workVars, powerVars>>

-----------------------------------------------------------------------------
(* main(): stop *)

SetQuit ==
  /\ MainGoto("stopped", "joinKbd")
  /\ quit' = TRUE
  /\ UNCHANGED <<obj, pc, bad, poolQuit, netQuit, enabled, workVars, powerVars>>

JoinKeyboard ==
  /\ MainGoto("joinKbd", "unmap")
  /\ pc["kbd"] = "gone"
  /\ UNCHANGED <<obj, pc, bad, flags, workVars, powerVars>>

(* mvvm_destroy: guest memory goes first, then the KVM descriptors. *)
UnmapMemory ==
  /\ MainGoto("unmap", "deletePool")
  /\ Free("mem")
  /\ UNCHANGED <<pc, bad, flags, workVars, powerVars>>

(* mvvm_destroy_virtio_blk: virtio_block_get_opaque looks into self->blk   *)
(* whether or not there is a disk, and delete_thread_pool sets quit.       *)
DeletePool ==
  /\ MainGoto("deletePool", "joinPool")
  /\ Touch("main", <<"blk", "blkctx", "pool">>)
  /\ poolQuit' = TRUE
  /\ UNCHANGED <<obj, pc, quit, netQuit, enabled, workVars, powerVars>>

(* It joins the workers and frees the structure of each before it goes on  *)
(* to the next one (in the order of the array; in any order here).         *)
JoinWorker(w) ==
  /\ MainGoto("joinPool", "joinPool")
  /\ obj[w] = "live" /\ pc[w] = "gone"
  /\ Free(w)
  /\ UNCHANGED <<pc, bad, flags, workVars, powerVars>>

FreePool ==
  /\ MainGoto("joinPool", "freeBlkCtx")
  /\ \A w \in Workers : obj[w] # "live"
  /\ Free("pool")
  /\ UNCHANGED <<pc, bad, flags, workVars, powerVars>>

FreeBlkCtx ==
  /\ MainGoto("freeBlkCtx", "stopBlk")
  /\ Free("blkctx")
  /\ UNCHANGED <<pc, bad, flags, workVars, powerVars>>

(* virtio_ioeventfd_stop clears the flag and joins the poll thread; the    *)
(* device is freed after that.                                             *)
StopPolling(d, from, to) ==
  /\ MainGoto(from, to)
  /\ Touch("main", <<d>>)
  /\ enabled' = [enabled EXCEPT ![d] = FALSE]
  /\ UNCHANGED <<obj, pc, quit, poolQuit, netQuit, workVars, powerVars>>

PollJoinedNot(d) == TRUE
PollJoined(d) == pc[PollOf(d)] = "gone"
FreeDevice(d, from, to) ==
  /\ MainGoto(from, to)
  /\ PollJoined(d)
  /\ Free(d)
  /\ UNCHANGED <<pc, bad, flags, workVars, powerVars>>

(* mvvm_destroy_virtio_net, likewise *)
QuitReceiver ==
  /\ MainGoto("quitRx", "joinRx")
  /\ Touch("main", <<"net", "netctx">>)
  /\ netQuit' = TRUE
  /\ UNCHANGED <<obj, pc, quit, poolQuit, enabled, workVars, powerVars>>

RxJoinedNot == TRUE
RxJoined == pc["rx"] = "gone"
JoinReceiver ==
  /\ MainGoto("joinRx", "stopNet")
  /\ RxJoined
  /\ Free("netctx")
  /\ UNCHANGED <<pc, bad, flags, workVars, powerVars>>

Return ==
  /\ MainGoto("return", "done")
  /\ UNCHANGED <<obj, pc, bad, flags, workVars, powerVars>>

Main ==
  \/ InitVm \/ InitBlk \/ InitNet \/ LoadKernel \/ SpawnKeyboard
  \/ InstallHandler \/ EnterRun \/ SetQuit \/ JoinKeyboard \/ UnmapMemory
  \/ DeletePool \/ (\E w \in Workers : JoinWorker(w)) \/ FreePool \/ FreeBlkCtx
  \/ StopPolling("blk", "stopBlk", "joinBlk")
  \/ FreeDevice("blk", "joinBlk", "quitRx")
  \/ QuitReceiver \/ JoinReceiver
  \/ StopPolling("net", "stopNet", "joinNet")
  \/ FreeDevice("net", "joinNet", "return")
  \/ Return

-----------------------------------------------------------------------------
(* The keyboard thread *)

(* keyboard_thread_func leaves its loop after the next key or timeout. *)
KeyboardExit ==
  /\ At("kbd", "keys") /\ quit
  /\ Goto("kbd", "gone")
  /\ UNCHANGED <<mpc, obj, bad, flags, workVars, powerVars>>

-----------------------------------------------------------------------------
(* queue_notify, called by the poll thread and by a worker after its       *)
(* request.  The thread holds the device's lock from TakeLock to Unlock.   *)

rest == <<mpc, obj, flags, powerVars>>     \* what device threads leave alone

TakeLock(t) ==
  /\ At(t, "lock") /\ lock[DeviceOf(t)] = "none"
  /\ Touch(t, <<DeviceOf(t)>>)
  /\ lock' = [lock EXCEPT ![DeviceOf(t)] = t]
  /\ Goto(t, IF t \in Workers THEN "finish" ELSE "index")
  /\ UNCHANGED <<rest, kick, avail, left, poolVars>>

(* avail_idx is read once; the loop runs up to that value. *)
ReadIndex(t) ==
  /\ At(t, "index")
  /\ Touch(t, <<"mem">>)
  /\ left' = [left EXCEPT ![t] = avail[DeviceOf(t)]]
  /\ Goto(t, "entry")
  /\ UNCHANGED <<rest, kick, avail, lock, poolVars>>

(* An entry, its descriptors and the request are read; one with a bad      *)
(* chain or of an unknown kind is passed over.                             *)
ReadEntry(t) ==
  /\ At(t, "entry") /\ left[t] > 0
  /\ Touch(t, <<"mem">>)
  /\ left' = [left EXCEPT ![t] = @ - 1]
  /\ avail' = [avail EXCEPT ![DeviceOf(t)] = @ - 1]
  /\ \E place \in {"submit", "entry"} : Goto(t, place)
  /\ UNCHANGED <<rest, kick, lock, poolVars>>

(* block_read_async and block_write_async go through bs and ctx to         *)
(* thread_pool_run, which takes a worker that is not working (the first,   *)
(* in the code); with none left the request is answered with an error.     *)
SubmitRequest(t) ==
  /\ At(t, "submit") /\ DeviceOf(t) = "blk"
  /\ Touch(t, <<"blk", "blkctx", "pool">>)
  /\ \/ \E w \in Workers :
          /\ ~isWorking[w]
          /\ isWorking' = [isWorking EXCEPT ![w] = TRUE]
          /\ claim' = [claim EXCEPT ![t] = w]
          /\ Goto(t, "assign")
     \/ /\ \A w \in Workers : isWorking[w]
        /\ Goto(t, "consume")
        /\ UNCHANGED <<isWorking, claim>>
  /\ UNCHANGED <<rest, kick, avail, lock, left, task>>

(* write_packet_to_ether: through es and ctx to the TAP device *)
SendPacket(t) ==
  /\ At(t, "submit") /\ DeviceOf(t) = "net"
  /\ Touch(t, <<"net", "netctx">>)
  /\ Goto(t, "consume")
  /\ UNCHANGED <<rest, workVars>>

(* It then locks the worker.  A waiting worker lets go of its lock; one    *)
(* that has exited kept it, and the caller waits for good.                 *)
AssignTask(t) ==
  LET w == claim[t] IN
  /\ At(t, "assign") /\ (obj[w] = "live" => pc[w] = "wait")
  /\ Touch(t, <<w>>)
  /\ IF poolQuit THEN Goto(t, "consume") /\ UNCHANGED task
                 ELSE Goto(t, "entry") /\ task' = [task EXCEPT ![w] = TRUE]
  /\ UNCHANGED <<rest, kick, avail, lock, left, claim, isWorking>>

(* virtio_consume_desc: the used ring, its index and the flag of the       *)
(* available ring, which decides about the interrupt.  A worker does it    *)
(* for its own request ("finish") before it serves the queue.              *)
Consume(t) ==
  /\ At(t, "consume") \/ At(t, "finish")
  /\ Touch(t, <<"mem", DeviceOf(t)>>)
  /\ Goto(t, IF pc[t] = "consume" THEN "entry" ELSE "index")
  /\ UNCHANGED <<rest, workVars>>

(* All entries up to avail_idx are served.  The poll thread looks at its   *)
(* flag before it polls again; a worker returns to worker_thread_fn.       *)
Unlock(t) ==
  /\ At(t, "entry") /\ left[t] = 0
  /\ Touch(t, <<DeviceOf(t)>>)
  /\ lock' = [lock EXCEPT ![DeviceOf(t)] = "none"]
  /\ Goto(t, IF t \in Workers THEN "clear"
             ELSE IF enabled[DeviceOf(t)] THEN "poll" ELSE "gone")
  /\ UNCHANGED <<rest, kick, avail, left, poolVars>>

Notify(t) ==
  \/ ReadIndex(t) \/ ReadEntry(t) \/ SubmitRequest(t) \/ SendPacket(t)
  \/ AssignTask(t) \/ Consume(t) \/ Unlock(t)

-----------------------------------------------------------------------------
(* virtio_ioeventfd_poll_thread *)

(* poll() returns without a kick, after 300 ms or a signal, and the loop   *)
(* looks at the device's flag.                                             *)
PollTurn(d) ==
  /\ At(PollOf(d), "poll")
  /\ Touch(PollOf(d), <<d>>)
  /\ Goto(PollOf(d), IF enabled[d] THEN "poll" ELSE "gone")
  /\ UNCHANGED <<rest, workVars>>

(* It returns with a kick.  (Kicks of the receive queue do nothing.) *)
PollKick(d) ==
  /\ At(PollOf(d), "poll") /\ kick[d]
  /\ Touch(PollOf(d), <<d>>)
  /\ kick' = [kick EXCEPT ![d] = FALSE]
  /\ Goto(PollOf(d), "lock")
  /\ UNCHANGED <<rest, avail, lock, left, poolVars>>

(* It fails, and the thread ends. *)
PollFail(d) ==
  /\ At(PollOf(d), "poll") /\ ~orderly
  /\ Goto(PollOf(d), "gone")
  /\ UNCHANGED <<rest, bad, workVars>>

-----------------------------------------------------------------------------
(* worker_thread_fn *)

(* The worker does the I/O and comes back with virtio_block_req_cb, which  *)
(* takes the device's lock, completes the request and calls queue_notify.  *)
TakeTask(w) ==
  /\ At(w, "wait") /\ task[w]
  /\ task' = [task EXCEPT ![w] = FALSE]
  /\ Goto(w, "lock")
  /\ UNCHANGED <<rest, bad, kick, avail, lock, left, claim, isWorking>>

ClearWorking(w) ==
  /\ At(w, "clear")
  /\ Touch(w, <<"pool">>)
  /\ isWorking' = [isWorking EXCEPT ![w] = FALSE]
  /\ Goto(w, "wait")
  /\ UNCHANGED <<rest, kick, avail, lock, left, claim, task>>

WorkerExit(w) ==
  /\ At(w, "wait") /\ ~task[w] /\ poolQuit
  /\ Touch(w, <<"pool">>)
  /\ Goto(w, "gone")
  /\ UNCHANGED <<rest, workVars>>

-----------------------------------------------------------------------------
(* tap_net_rx_thread *)

(* A packet is read; the device is asked whether it can take it.           *)
RxRead ==
  /\ At("rx", "read") /\ (orderly => mpc = "run")
  /\ events < MaxEvents /\ events' = events + 1
  /\ Touch("rx", <<"netctx">>)
  /\ Goto("rx", "ask")
  /\ UNCHANGED <<mpc, obj, flags, workVars, signalVars>>

(* virtio_net_can_write_packet: only a queue that is ready has an index to *)
(* look at.                                                                *)
RxAsk ==
  /\ At("rx", "ask") /\ lock["net"] = "none"
  /\ \/ Touch("rx", <<"net">>) /\ Goto("rx", "read")
     \/ Touch("rx", <<"net", "mem">>) /\ \E place \in {"write", "read"} : Goto("rx", place)
  /\ UNCHANGED <<rest, workVars>>

(* virtio_net_write_packet looks at the queue again and delivers or drops. *)
RxWrite ==
  /\ At("rx", "write") /\ lock["net"] = "none"
  /\ Touch("rx", <<"net">>) \/ Touch("rx", <<"net", "mem">>)
  /\ Goto("rx", "read")
  /\ UNCHANGED <<rest, workVars>>

(* The quit flag is looked at only when 300 ms pass without a packet. *)
RxTimeoutForever == Goto("rx", "read")
RxTimeoutTurn == Goto("rx", IF netQuit THEN "gone" ELSE "read")
RxTimeout ==
  /\ At("rx", "read")
  /\ Touch("rx", <<"netctx">>)
  /\ RxTimeoutTurn
  /\ UNCHANGED <<rest, workVars>>

(* The TAP device is closed or fails: the thread ends early. *)
RxFail ==
  /\ At("rx", "read")
  /\ Touch("rx", <<"netctx">>)
  /\ Goto("rx", "gone")
  /\ UNCHANGED <<rest, workVars>>

(* A thread that will not touch guest memory again unless given new work.  *)
Idle(t) ==
  \/ pc[t] \in {"none", "gone", "poll", "clear", "read", "keys"}
  \/ pc[t] = "wait" /\ ~task[t]
  \/ pc[t] = "entry" /\ left[t] = 0

(* The guest's I/O is done: no kick on its way and no thread at work. *)
AtRest ==
  /\ \A d \in Devices : ~kick[d]
  /\ \A t \in Threads : Idle(t)

-----------------------------------------------------------------------------
(* SIGTERM, handle_power and the guest module *)

(* Until main() installs sigterm_handler the signal ends the process. *)
Sigterm ==
  /\ Running /\ events < MaxEvents /\ spc = "none"
  /\ events' = events + 1
  /\ IF mpc \in {"init", "blk", "net", "load", "spawn", "handler"}
       THEN mpc' = "killed" /\ UNCHANGED spc
       ELSE spc' = "caught" /\ UNCHANGED mpc
  /\ UNCHANGED <<obj, pc, bad, flags, workVars, power_cmd, irq5, gpc, seen, orderly>>

(* mvvm_shutdown: the command, then a pulse on IRQ 5 *)
SetCommand ==
  /\ Running /\ spc = "caught" /\ spc' = "raise"
  /\ power_cmd' = 1
  /\ UNCHANGED <<mpc, obj, pc, bad, flags, workVars, irq5, events, gpc, seen, orderly>>

PulseIrq ==
  /\ Running /\ spc = "raise" /\ spc' = "none"
  /\ irq5' = TRUE
  /\ UNCHANGED <<mpc, obj, pc, bad, flags, workVars, power_cmd, events, gpc, seen, orderly>>

GuestGoto(from, to) == Running /\ mpc = "run" /\ gpc = from /\ gpc' = to

ModuleLoad ==
  /\ GuestGoto("boot", "ready")
  /\ UNCHANGED <<mpc, obj, pc, bad, flags, workVars, power_cmd, irq5, spc,
                 events, seen, orderly>>

(* No handler for IRQ 5 yet: the guest kernel drops it. *)
IrqIgnored ==
  /\ GuestGoto("boot", "boot") /\ irq5 /\ irq5' = FALSE
  /\ UNCHANGED <<mpc, obj, pc, bad, flags, workVars, power_cmd, spc, events, seen, orderly>>

(* my_irq_handler: inb(0x300).  handle_power copies power_cmd and then     *)
(* clears it, and the SIGTERM handler may run in another thread between.   *)
CommandCleared == 0
Command == power_cmd
ReadCommand ==
  /\ GuestGoto("ready", "read") /\ irq5 /\ irq5' = FALSE
  /\ seen' = Command
  /\ UNCHANGED <<mpc, obj, pc, bad, flags, workVars, power_cmd, spc, events, orderly>>

ClearCommand ==
  /\ GuestGoto("read", "handle")
  /\ power_cmd' = 0
  /\ UNCHANGED <<mpc, obj, pc, bad, flags, workVars, irq5, spc, events, seen, orderly>>

guestOnly == <<mpc, obj, pc, bad, flags, workVars, power_cmd, irq5, spc,
               events, seen, orderly>>

(* my_irq_handler goes on with the value: schedule_work, or IRQ_NONE. *)
IrqHandled ==
  /\ GuestGoto("handle", IF seen = 1 THEN "work" ELSE "ready")
  /\ UNCHANGED guestOnly

(* power_work_func starts an orderly poweroff. *)
PowerWork == GuestGoto("work", "halting") /\ UNCHANGED guestOnly

(* mvvmm_exit also cancels work that is still pending. *)
ModuleUnload ==
  /\ ~orderly
  /\ GuestGoto("ready", "boot") \/ GuestGoto("work", "boot")
  /\ UNCHANGED guestOnly

(* poweroff typed in the guest *)
UserPoweroff ==
  /\ GuestGoto("ready", "halting")
  /\ UNCHANGED guestOnly

(* orderly_poweroff ends in mvvmm_poweroff: outb(1), and mvvm_run returns. *)
Poweroff ==
  /\ Running /\ mpc = "run" /\ gpc = "halting"
  /\ orderly => AtRest
  /\ gpc' = "off" /\ mpc' = "stopped"
  /\ UNCHANGED <<obj, pc, bad, flags, workVars, power_cmd, irq5, spc, events, seen, orderly>>

(* KVM_EXIT_SHUTDOWN or an exit mvvm_run does not handle *)
GuestFault ==
  /\ Running /\ mpc = "run" /\ ~orderly
  /\ gpc' = "off" /\ mpc' = "stopped"
  /\ UNCHANGED <<obj, pc, bad, flags, workVars, power_cmd, irq5, spc, events, seen, orderly>>

(* A driver puts a buffer into the queue and kicks the device. *)
GuestPost(d) ==
  /\ Running /\ mpc = "run" /\ obj[d] = "live"
  /\ events < MaxEvents /\ events' = events + 1
  /\ orderly => gpc # "halting"
  /\ avail' = [avail EXCEPT ![d] = @ + 1]
  /\ kick' = [kick EXCEPT ![d] = TRUE]
  /\ UNCHANGED <<mpc, obj, pc, bad, flags, lock, left, poolVars, signalVars>>

Handler == SetCommand \/ PulseIrq
Power == ReadCommand \/ ClearCommand \/ IrqHandled \/ PowerWork
Guest == ModuleLoad \/ ModuleUnload \/ IrqIgnored \/ UserPoweroff \/ GuestFault
         \/ \E d \in Devices : GuestPost(d)

Over == ~Running /\ UNCHANGED vars

Host ==
  \/ Main \/ KeyboardExit
  \/ \E t \in Servers : TakeLock(t) \/ Notify(t)
  \/ \E d \in Devices : PollTurn(d) \/ PollKick(d)
  \/ \E w \in Workers : TakeTask(w) \/ ClearWorking(w) \/ WorkerExit(w)
  \/ RxAsk \/ RxWrite \/ RxTimeout

Next ==
  \/ Host \/ Fail \/ (\E d \in Devices : PollFail(d)) \/ RxRead \/ RxFail
  \/ Sigterm \/ Handler \/ Power \/ Poweroff \/ Guest
  \/ Over

Spec == Init /\ [][Next]_vars

(* Some host thread that can go on does (each thread ends up waiting, so   *)
(* nothing stronger is needed): disk I/O completes, and once the bounded   *)
(* supply of packets is used up 300 ms pass without one.  A guest told to  *)
(* power off does so.                                                      *)
FairSpec ==
  /\ Spec
  /\ WF_vars(Host) /\ WF_vars(Handler) /\ WF_vars(Power) /\ WF_vars(Poweroff)

-----------------------------------------------------------------------------
(* No thread touches an object that is not there (NULL, freed or unmapped) *)
(* when the guest powers off with its I/O done and no packet arrives after *)
(* that, although the device threads are still running, a worker may still *)
(* be on its way out of virtio_block_req_cb, and SIGTERMs keep coming.     *)
NoDeadAccess == orderly => bad = {}

(* What a thread can find gone when the guest stops with I/O under way:    *)
(* guest memory, for every device thread; the pool, its workers and the    *)
(* contexts, for the poll thread, which mvvm_destroy stops only after it   *)
(* has freed them; another worker's structure, for a worker that calls     *)
(* queue_notify.  A device structure is never found gone, a worker never   *)
(* finds pool or context gone, the receiver never its context.             *)
MayFindGone ==
  (({"rx"} \cup Servers) \X {"mem"})
  \cup ({"blkpoll"} \X ({"blkctx", "pool"} \cup Workers))
  \cup (Workers \X Workers)
  \cup ({"netpoll"} \X {"netctx"})
GoneTooEarly == bad \subseteq MayFindGone

(* A caller of thread_pool_run waits for the lock of a worker that has     *)
(* exited with it.                                                         *)
Stuck == \E t \in Servers : pc[t] = "assign" /\ claim[t] \in Workers /\ pc[claim[t]] = "gone"

(* Teardown ends: from mvvm_destroy on main() gets through every join and  *)
(* returns, unless a thread has touched something gone (GoneTooEarly) or   *)
(* waits for the lock of an exited worker; nothing else can hold it up.    *)
DestroyEnds == mpc = "unmap" ~> (mpc = "done" \/ bad # {} \/ Stuck)

(* SIGTERM ends the program: once the handler has the signal and the guest *)
(* module is loaded, the guest powers off and main() returns, also when    *)
(* another SIGTERM interferes with handle_power.                           *)
SigtermExits ==
  (orderly /\ spc = "caught" /\ mpc = "run" /\ gpc = "ready") ~> mpc = "done"

(* main.c calls -d and -t optional: no thread, main() included, looks into *)
(* a device structure that was never made or is gone.                      *)
DeviceNeverMissing == \A b \in bad : b[2] \notin Devices
=============================================================================
