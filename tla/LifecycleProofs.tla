-------------------------- MODULE LifecycleProofs ---------------------------
(***************************************************************************)
(* What the teardown can find gone, with or without a disk and a network,  *)
(* for any number of workers, requests, packets and SIGTERMs.              *)
(*                                                                         *)
(* The argument.  As long as nothing dead has been touched, where main()   *)
(* is says which objects are live, and each thread runs only while the     *)
(* objects main() frees after joining it are (StageInv).  What is left are *)
(* the objects freed while a thread that uses them still runs.  If the     *)
(* guest has stopped in order, no thread has work left that would lead to  *)
(* one of those (QuietInv).                                                *)
(***************************************************************************)
EXTENDS Lifecycle, TLAPS

(* The stages of main() in which a thing is there. *)
Up == {"load", "spawn", "handler", "enter", "run", "stopped", "joinKbd", "unmap"}
HasKbd == {"handler", "enter", "run", "stopped", "joinKbd"}
HasMem == Up \cup {"blk", "net"}
HasPool == Up \cup {"net", "deletePool", "joinPool"}
HasBlkCtx == HasPool \cup {"freeBlkCtx"}
HasBlk == HasBlkCtx \cup {"stopBlk", "joinBlk"}
HasNetCtx == (HasBlk \ {"net"}) \cup {"quitRx", "joinRx"}
HasNet == HasNetCtx \cup {"stopNet", "joinNet"}
Teardown == (HasNet \ Up) \cup {"return", "done"}
Stages == HasNet \cup Teardown \cup Gone \cup {"init", "blk", "net"}
Late == Teardown \cup {"stopped", "joinKbd", "unmap"}

Places == {"none", "gone", "keys", "poll", "lock", "index", "entry", "submit",
           "assign", "consume", "finish", "wait", "clear", "read", "ask",
           "write"}

TypeInv ==
  /\ mpc \in Stages
  /\ obj \in [Objects -> {"none", "live", "freed"}]
  /\ pc \in [Threads -> Places]
  /\ claim \in [Servers -> Workers \cup {"none"}]
  /\ task \in [Workers -> BOOLEAN]
  /\ orderly \in BOOLEAN

Runs(t) == pc[t] \notin {"none", "gone"}

(* A thread that waits for a worker's lock has picked that worker, and the *)
(* network's poll thread never does.                                       *)
ClaimInv == \A t \in Servers : pc[t] = "assign" => claim[t] \in Workers /\ t # "netpoll"

Alive == bad = {} /\ mpc \notin {"failed", "killed"}

ObjectsHeld ==
  /\ mpc \in HasMem => obj["mem"] = "live"
  /\ Disk => /\ mpc \in HasPool => obj["pool"] = "live"
             /\ mpc \in HasBlkCtx => obj["blkctx"] = "live"
             /\ mpc \in HasBlk => obj["blk"] = "live"
             /\ mpc \in HasPool \ {"joinPool"} => \A w \in Workers : obj[w] = "live"
  /\ Net => /\ mpc \in HasNetCtx => obj["netctx"] = "live"
            /\ mpc \in HasNet => obj["net"] = "live"
  /\ (obj["blk"] = "live" => Disk) /\ (obj["net"] = "live" => Net)
  /\ mpc \in Teardown \ {"deletePool"} => Disk
  /\ mpc \in Teardown \ (HasBlk \cup {"quitRx"}) => Net

ThreadsHeld ==
  /\ Runs("kbd") => mpc \in HasKbd
  /\ \A w \in Workers : Runs(w) => Disk /\ mpc \in HasPool /\ obj[w] = "live"
  /\ Runs("blkpoll") => Disk /\ mpc \in HasBlk
  /\ Runs("rx") => Net /\ mpc \in HasNetCtx
  /\ Runs("netpoll") => Net /\ mpc \in HasNet

(* Only a waiting worker has a task that it has not taken. *)
TasksHeld == \A w \in Workers : task[w] => pc[w] = "wait"

StageInv == Alive => ObjectsHeld /\ ThreadsHeld /\ TasksHeld

(* After an orderly poweroff the devices have nothing left to do. *)
QuietInv == orderly /\ mpc \in Late => AtRest

(* What may be found dead: what MayFindGone lists, and by main() a device  *)
(* that was not asked for; after an orderly poweroff only the latter.      *)
MissingDevice ==
  (IF Disk THEN {} ELSE {<<"main", "blk">>})
  \cup (IF Net THEN {} ELSE {<<"main", "net">>})
DeadInv ==
  /\ bad \subseteq MayFindGone \cup MissingDevice
  /\ orderly => bad \subseteq MissingDevice

LifeInv == TypeInv /\ ClaimInv /\ StageInv /\ QuietInv /\ DeadInv

-----------------------------------------------------------------------------
(* The steps of the threads other than main(), and of guest and signals. *)
ServerStep(t) == TakeLock(t) \/ Notify(t)
PollStep(d) == PollTurn(d) \/ PollKick(d) \/ PollFail(d)
WorkStep(w) == TakeTask(w) \/ ClearWorking(w) \/ WorkerExit(w)
RxStep == RxRead \/ RxAsk \/ RxWrite \/ RxTimeout \/ RxFail
ThreadStep ==
  \/ KeyboardExit \/ RxStep
  \/ \E t \in Servers : ServerStep(t)
  \/ \E d \in Devices : PollStep(d)
  \/ \E w \in Workers : WorkStep(w)
OutsideStep == Sigterm \/ Handler \/ Power \/ Poweroff \/ Guest

(* Next, sorted by who takes the step. *)
LEMMA WhoSteps ==
  ASSUME [Next]_vars
  PROVE  Main \/ Fail \/ ThreadStep \/ OutsideStep \/ UNCHANGED vars
BY DEF Next, Host, ThreadStep, ServerStep, PollStep, WorkStep, RxStep,
       OutsideStep, Over

(* A path on which everything is live can be taken. *)
LEMMA AllLive ==
  ASSUME NEW path, \A i \in 1..Len(path) : obj[path[i]] = "live"
  PROVE  FirstDead(path) = {}
BY DEF FirstDead

(* What is touched with nothing found dead was live. *)
LEMMA TouchedLive ==
  ASSUME NEW t, NEW path, Touch(t, path), bad' = {}, path # <<>>,
         path \in Seq(Objects)
  PROVE  obj[path[1]] = "live"
<1>1. SUFFICES ASSUME obj[path[1]] # "live" PROVE FALSE
  OBVIOUS
<1>2. path[1] \in FirstDead(path)
  BY <1>1 DEF FirstDead
<1>3. <<t, path[1]>> \in {t} \X FirstDead(path)
  BY <1>2
<1>4. <<t, path[1]>> \in bad'
  BY <1>3 DEF Touch
<1> QED BY <1>4

(* A step of queue_notify moves its thread and changes no object. *)
LEMMA ServerMove ==
  ASSUME TypeInv, NEW t \in Servers, ServerStep(t)
  PROVE  /\ Running /\ Runs(t) /\ UNCHANGED <<mpc, obj, orderly>>
         /\ \E p \in Places : pc' = [pc EXCEPT ![t] = p]
<1> USE DEF ServerStep, Notify, TakeLock, ReadIndex, ReadEntry, SubmitRequest,
     SendPacket, AssignTask, Consume, Unlock, At, Goto
<1>1. Running /\ Runs(t)
  BY DEF Runs
<1>2. UNCHANGED <<mpc, obj, orderly>>
  BY DEF rest, powerVars, signalVars
<1>3. \E p \in Places : pc' = [pc EXCEPT ![t] = p]
  BY DEF Places
<1> QED BY ZenonT(30), ZenonT(60), <1>1, <1>2, <1>3

(* So does a step of any other thread. *)
LEMMA ThreadMove ==
  ASSUME TypeInv, ThreadStep
  PROVE  /\ Running /\ UNCHANGED <<mpc, obj, orderly>>
         /\ \E t \in Threads, p \in Places :
              Runs(t) /\ pc' = [pc EXCEPT ![t] = p]
<1>1. CASE KeyboardExit
  BY ZenonT(30), ZenonT(60), <1>1 DEF KeyboardExit, At, Goto, powerVars, signalVars, Runs, Places,
       Threads
<1>2. CASE RxStep
  <2> USE <1>2 DEF RxStep, RxRead, RxAsk, RxWrite, RxTimeout, RxTimeoutTurn,
       RxFail, At, Goto
  <2>1. Running /\ Runs("rx") /\ UNCHANGED <<mpc, obj, orderly>>
    BY DEF Runs, rest, powerVars, signalVars
  <2>2. \E p \in Places : pc' = [pc EXCEPT !["rx"] = p]
    BY DEF Places
  <2> QED BY ZenonT(30), ZenonT(60), <2>1, <2>2 DEF Threads
<1>3. ASSUME NEW t \in Servers, ServerStep(t) PROVE Threads # {} /\ t \in Threads
  BY DEF Threads
<1>4. ASSUME NEW d \in Devices, PollStep(d)
      PROVE  /\ Running /\ Runs(PollOf(d)) /\ UNCHANGED <<mpc, obj, orderly>>
             /\ \E p \in Places : pc' = [pc EXCEPT ![PollOf(d)] = p]
  <2> USE <1>4 DEF PollStep, PollTurn, PollKick, PollFail, At, Goto
  <2>1. Running /\ Runs(PollOf(d)) /\ UNCHANGED <<mpc, obj, orderly>>
    BY DEF Runs, rest, powerVars, signalVars
  <2>2. \E p \in Places : pc' = [pc EXCEPT ![PollOf(d)] = p]
    BY DEF Places
  <2> QED BY ZenonT(30), ZenonT(60), <2>1, <2>2
<1>5. ASSUME NEW w \in Workers, WorkStep(w)
      PROVE  /\ Running /\ Runs(w) /\ UNCHANGED <<mpc, obj, orderly>>
             /\ \E p \in Places : pc' = [pc EXCEPT ![w] = p]
  <2> USE <1>5 DEF WorkStep, TakeTask, ClearWorking, WorkerExit, At, Goto
  <2>1. Running /\ Runs(w) /\ UNCHANGED <<mpc, obj, orderly>>
    BY DEF Runs, rest, powerVars, signalVars
  <2>2. \E p \in Places : pc' = [pc EXCEPT ![w] = p]
    BY DEF Places
  <2> QED BY ZenonT(30), ZenonT(60), <2>1, <2>2
<1>6. \A d \in Devices : PollOf(d) \in Threads
  BY DEF PollOf, Threads, Servers, Pollers
<1>7. Workers \subseteq Threads
  BY DEF Threads, Servers
<1> QED BY SMTT(30), SMTT(60), <1>1, <1>2, <1>3, <1>4, <1>5, <1>6, <1>7, ServerMove DEF ThreadStep

(* Every step keeps the variables in their types. *)
LEMMA TypeStep ==
  ASSUME TypeInv, [Next]_vars
  PROVE  TypeInv'
<1>1. CASE Main \/ Fail
  <2> USE <1>1 DEF TypeInv, Main, Fail, InitVm, InitBlk, InitNet, LoadKernel,
       SpawnKeyboard,
       InstallHandler, EnterRun, SetQuit, JoinKeyboard, UnmapMemory, DeletePool,
       JoinWorker, FreePool, FreeBlkCtx, StopPolling, FreeDevice, QuitReceiver,
       JoinReceiver, Return
  <2>1. mpc' \in Stages
    BY DEF MainGoto, Stages, Teardown, HasNet, HasNetCtx, HasBlk, HasBlkCtx,
         HasPool, Up, Gone
  <2>2. obj' \in [Objects -> {"none", "live", "freed"}]
    BY DEF Make, Free
  <2>3. pc' \in [Threads -> Places]
    BY SMTT(30), SMTT(60) DEF Start, FirstPlace, Places, Threads, Servers
  <2>4. UNCHANGED <<claim, task, orderly>>
    BY ZenonT(30), ZenonT(60) DEF workVars, poolVars, powerVars, signalVars
  <2> QED BY <2>1, <2>2, <2>3, <2>4
<1>2. CASE ThreadStep
  <2>1. mpc' \in Stages /\ obj' \in [Objects -> {"none", "live", "freed"}]
        /\ orderly' \in BOOLEAN /\ pc' \in [Threads -> Places]
    BY SMTT(30), SMTT(60), <1>2, ThreadMove DEF TypeInv
  <2> USE <1>2 DEF ThreadStep, ServerStep, PollStep, WorkStep, RxStep,
       KeyboardExit,
       TakeLock, Notify, ReadIndex, ReadEntry, SubmitRequest, SendPacket,
       AssignTask, Consume, Unlock, PollTurn, PollKick, PollFail, TakeTask,
       ClearWorking, WorkerExit, RxRead, RxAsk, RxWrite, RxTimeout,
       RxTimeoutTurn, RxFail
  <2>2. \/ claim' = claim
        \/ \E t \in Servers, w \in Workers : claim' = [claim EXCEPT ![t] = w]
    BY ZenonT(30), ZenonT(60) DEF workVars, poolVars
  <2>3. \/ task' = task
        \/ \E w \in Workers \cup {"none"}, b \in BOOLEAN : task' = [task EXCEPT ![w] = b]
    BY ZenonT(30), ZenonT(60) DEF workVars, poolVars, TypeInv
  <2> HIDE <1>2
  <2>4. claim' \in [Servers -> Workers \cup {"none"}]
    BY <2>2 DEF TypeInv
  <2>5. task' \in [Workers -> BOOLEAN]
    BY <2>3 DEF TypeInv
  <2> QED BY <2>1, <2>4, <2>5 DEF TypeInv
<1>3. CASE OutsideStep
  <2> USE <1>3 DEF OutsideStep, Sigterm, Handler, Power, Guest, SetCommand,
       PulseIrq,
       ReadCommand, ClearCommand, IrqHandled, PowerWork, Poweroff, ModuleLoad,
       ModuleUnload, IrqIgnored, UserPoweroff, GuestFault, GuestPost, GuestGoto,
       guestOnly
  <2>1. mpc' = mpc \/ mpc' \in {"killed", "stopped"}
    BY SMTT(30), SMTT(60)
  <2>2. UNCHANGED <<obj, pc, claim, task, orderly>>
    BY DEF workVars, poolVars, signalVars
  <2> QED BY <2>1, <2>2 DEF TypeInv, Stages, Teardown, HasNet, HasNetCtx,
       HasBlk, HasBlkCtx, HasPool, Up, Gone
<1>4. CASE UNCHANGED vars
  BY <1>4 DEF vars, workVars, poolVars, powerVars, signalVars, TypeInv
<1> QED BY <1>1, <1>2, <1>3, <1>4, WhoSteps

(* A thread comes to a worker's lock only by picking it. *)
LEMMA ClaimStep ==
  ASSUME TypeInv, ClaimInv, [Next]_vars
  PROVE  ClaimInv'
<1>1. ASSUME UNCHANGED claim,
             \A t \in Servers : pc'[t] = "assign" => pc[t] = "assign"
      PROVE  ClaimInv'
  BY <1>1 DEF ClaimInv
<1>2. CASE Main \/ Fail
  <2> USE <1>2 DEF Main, Fail, InitVm, InitBlk, InitNet, LoadKernel,
       SpawnKeyboard,
       InstallHandler, EnterRun, SetQuit, JoinKeyboard, UnmapMemory, DeletePool,
       JoinWorker, FreePool, FreeBlkCtx, StopPolling, FreeDevice, QuitReceiver,
       JoinReceiver, Return
  <2>1. UNCHANGED claim
    BY DEF workVars, poolVars
  <2>2. pc' = pc \/ \E ts \in SUBSET Threads : Start(ts)
    BY DEF Threads, Servers, Pollers
  <2> HIDE <1>2
  <2>3. \A t \in Servers : pc'[t] = "assign" => pc[t] = "assign"
    BY <2>2 DEF Start, FirstPlace, Threads, Servers
  <2> QED BY SMTT(30), SMTT(60), <1>1, <2>1, <2>3
<1>3. CASE KeyboardExit \/ RxStep
  <2>1. UNCHANGED claim
    BY <1>3 DEF KeyboardExit, RxStep, RxRead, RxAsk, RxWrite, RxTimeout, RxFail,
         workVars, poolVars
  <2>2. \E t \in Threads, p \in Places \ {"assign"} : pc' = [pc EXCEPT ![t] = p]
    BY <1>3 DEF KeyboardExit, RxStep, RxRead, RxAsk, RxWrite, RxTimeout,
         RxTimeoutTurn, RxFail, Goto, Threads, Places
  <2> QED BY <1>1, <2>1, <2>2 DEF TypeInv, Threads
<1>4. ASSUME NEW d \in Devices, PollStep(d) PROVE ClaimInv'
  <2>1. UNCHANGED claim
    BY <1>4 DEF PollStep, PollTurn, PollKick, PollFail, workVars, poolVars
  <2>2. \E t \in Threads, p \in Places \ {"assign"} : pc' = [pc EXCEPT ![t] = p]
    BY <1>4 DEF PollStep, PollTurn, PollKick, PollFail, Goto, Threads, Places,
         PollOf, Servers, Pollers
  <2> QED BY <1>1, <2>1, <2>2 DEF TypeInv, Threads
<1>5. ASSUME NEW w \in Workers, WorkStep(w) PROVE ClaimInv'
  <2>1. UNCHANGED claim
    BY <1>5 DEF WorkStep, TakeTask, ClearWorking, WorkerExit, workVars, poolVars
  <2>2. \E p \in Places \ {"assign"} : pc' = [pc EXCEPT ![w] = p]
    BY <1>5 DEF WorkStep, TakeTask, ClearWorking, WorkerExit, Goto, Places
  <2> QED BY <1>1, <2>1, <2>2 DEF TypeInv, Threads, Servers
<1>6. ASSUME NEW t \in Servers, SubmitRequest(t) PROVE ClaimInv'
  <2>1. t # "netpoll"
    BY <1>6 DEF SubmitRequest, DeviceOf
  <2>2. CASE UNCHANGED claim /\ Goto(t, "consume")
    BY <1>1, <2>2 DEF Goto, TypeInv, Threads
  <2>3. ASSUME NEW w \in Workers, claim' = [claim EXCEPT ![t] = w], Goto(t, "assign")
        PROVE  ClaimInv'
    BY <2>1, <2>3 DEF Goto, TypeInv, Threads, ClaimInv
  <2> QED BY <1>6, <2>2, <2>3 DEF SubmitRequest
<1>7. ASSUME NEW t \in Servers, ServerStep(t), ~SubmitRequest(t) PROVE ClaimInv'
  <2>1. UNCHANGED claim
    BY <1>7 DEF ServerStep, Notify, TakeLock, ReadIndex, ReadEntry, SendPacket,
         AssignTask, Consume, Unlock, workVars, poolVars
  <2>2. \E p \in Places \ {"assign"} : pc' = [pc EXCEPT ![t] = p]
    BY SMTT(30), SMTT(60), <1>7 DEF ServerStep, Notify, TakeLock, ReadIndex, ReadEntry, SendPacket,
         AssignTask, Consume, Unlock, Goto, Places
  <2> QED BY <1>1, <2>1, <2>2 DEF TypeInv, Threads
<1>8. CASE OutsideStep
  BY <1>1, <1>8 DEF OutsideStep, Sigterm, Handler, Power, Guest, SetCommand,
       PulseIrq,
       ReadCommand, ClearCommand, IrqHandled, PowerWork, Poweroff, ModuleLoad,
       ModuleUnload, IrqIgnored, UserPoweroff, GuestFault, GuestPost, GuestGoto,
       guestOnly, workVars, poolVars
<1>9. CASE UNCHANGED vars
  BY <1>1, <1>9 DEF vars, workVars, poolVars
<1> QED BY <1>2, <1>3, <1>4, <1>5, <1>6, <1>7, <1>8, <1>9,
WhoSteps DEF ThreadStep

(* main() makes, frees, starts and joins in an order that keeps every      *)
(* thread's own objects live while it runs.                                *)
LEMMA MainStage ==
  ASSUME TypeInv, StageInv, Main, bad' = {}
  PROVE  ObjectsHeld' /\ ThreadsHeld' /\ TasksHeld'
<1>0. ObjectsHeld /\ ThreadsHeld /\ TasksHeld
  BY DEF Main, InitVm, InitBlk, InitNet, LoadKernel, SpawnKeyboard,
       InstallHandler, EnterRun, SetQuit, JoinKeyboard, UnmapMemory, DeletePool,
       JoinWorker, FreePool, FreeBlkCtx, StopPolling, FreeDevice, QuitReceiver,
       JoinReceiver, Return, MainGoto, Running, Gone, StageInv, Alive
<1>t. ASSUME \A w \in Workers : pc[w] = "wait" => pc'[w] = "wait" PROVE TasksHeld'
  <2>1. UNCHANGED task
    BY DEF Main, InitVm, InitBlk, InitNet, LoadKernel, SpawnKeyboard,
       InstallHandler, EnterRun, SetQuit, JoinKeyboard, UnmapMemory, DeletePool,
       JoinWorker, FreePool, FreeBlkCtx, StopPolling, FreeDevice, QuitReceiver,
       JoinReceiver, Return, workVars, poolVars
  <2> QED BY SMTT(30), SMTT(60), <1>0, <1>t, <2>1 DEF TasksHeld
<1>w. /\ \A w \in Workers : w \notin Shared /\ w \in Objects /\ w \in Threads
      /\ Shared \subseteq Objects /\ {"kbd", "rx", "blkpoll", "netpoll"} \subseteq Threads
      /\ Workers \cap {"kbd", "rx", "blkpoll", "netpoll"} = {}
  BY LifecycleAssumption DEF Objects, Threads, Servers, Pollers
<1> USE <1>0, <1>w DEF TypeInv, ObjectsHeld, ThreadsHeld, Runs, Teardown,
     HasNet, HasNetCtx, HasBlk, HasBlkCtx, HasPool, Up, HasKbd,
        HasMem, MainGoto, Shared, Devices
<1>1. CASE InitVm
  BY <1>1, <1>t DEF InitVm, Make
<1>2. CASE InitBlk
  <2>1. ObjectsHeld'
    BY <1>2 DEF InitBlk, Make
  <2>2. ThreadsHeld'
    BY <1>2 DEF InitBlk, Make, Start
  <2>3. \A w \in Workers : pc[w] = "wait" => pc'[w] = "wait"
    BY <1>2 DEF InitBlk, Start, FirstPlace, Pollers
  <2> QED BY <1>t, <2>1, <2>2, <2>3
<1>3. CASE InitNet
  <2>1. ObjectsHeld'
    BY <1>3 DEF InitNet, Make
  <2>2. ThreadsHeld'
    BY <1>3 DEF InitNet, Make, Start
  <2>3. \A w \in Workers : pc[w] = "wait" => pc'[w] = "wait"
    BY <1>3 DEF InitNet, Start
  <2> QED BY <1>t, <2>1, <2>2, <2>3
<1>4. CASE SpawnKeyboard
  BY <1>4, <1>t DEF SpawnKeyboard, Start
<1>5. CASE LoadKernel \/ InstallHandler \/ EnterRun \/ SetQuit \/ Return
  BY <1>5, <1>t DEF LoadKernel, InstallHandler, EnterRun, SetQuit, Return
<1>6. CASE JoinKeyboard
  BY <1>6, <1>t DEF JoinKeyboard
<1>7. CASE UnmapMemory
  BY <1>7, <1>t DEF UnmapMemory, Free
<1>8. CASE DeletePool
  <2>1. obj["blk"] = "live"
    <3> DEFINE path == <<"blk", "blkctx", "pool">>
    <3>1. path \in Seq(Objects) /\ path # <<>> /\ path[1] = "blk"
      OBVIOUS
    <3>2. Touch("main", path)
      BY <1>8 DEF DeletePool
    <3> HIDE DEF path
    <3> QED BY <3>1, <3>2, TouchedLive
  <2> QED BY <1>8, <1>t, <2>1 DEF DeletePool
<1>9. ASSUME NEW w \in Workers, JoinWorker(w) PROVE ObjectsHeld' /\ ThreadsHeld' /\ TasksHeld'
  BY <1>9, <1>t DEF JoinWorker, Free
<1>10. CASE FreePool
  BY <1>10, <1>t DEF FreePool, Free
<1>11. CASE FreeBlkCtx
  BY <1>11, <1>t DEF FreeBlkCtx, Free
<1>12. CASE StopPolling("blk", "stopBlk", "joinBlk")
  BY <1>12, <1>t DEF StopPolling
<1>13. CASE FreeDevice("blk", "joinBlk", "quitRx")
  BY <1>13, <1>t DEF FreeDevice, PollJoined, PollOf, Free
<1>14. CASE QuitReceiver
  <2>1. obj["net"] = "live"
    <3> DEFINE path == <<"net", "netctx">>
    <3>1. path \in Seq(Objects) /\ path # <<>> /\ path[1] = "net"
      OBVIOUS
    <3>2. Touch("main", path)
      BY <1>14 DEF QuitReceiver
    <3> HIDE DEF path
    <3> QED BY <3>1, <3>2, TouchedLive
  <2> QED BY <1>14, <1>t, <2>1 DEF QuitReceiver
<1>15. CASE JoinReceiver
  BY <1>15, <1>t DEF JoinReceiver, RxJoined, Free
<1>16. CASE StopPolling("net", "stopNet", "joinNet")
  BY <1>16, <1>t DEF StopPolling
<1>17. CASE FreeDevice("net", "joinNet", "return")
  BY <1>17, <1>t DEF FreeDevice, PollJoined, PollOf, Free
<1> HIDE DEF ObjectsHeld, ThreadsHeld
<1> QED BY SMTT(30), SMTT(60), <1>1, <1>2, <1>3, <1>4, <1>5, <1>6, <1>7, <1>8, <1>9, <1>10, <1>11,
           <1>12, <1>13, <1>14, <1>15, <1>16, <1>17 DEF Main

(* A worker is given a task while it waits, and leaves with none. *)
LEMMA TaskStep ==
  ASSUME TypeInv, ClaimInv, TasksHeld, ThreadStep, bad' = {}
  PROVE  TasksHeld'
<1> USE DEF TypeInv, TasksHeld
<1>w. Workers \cap {"kbd", "rx", "blkpoll", "netpoll"} = {}
      /\ Workers \subseteq Servers /\ Servers \subseteq Threads
  BY LifecycleAssumption DEF Threads, Servers, Pollers
<1>1. ASSUME UNCHANGED task, \A w \in Workers : pc[w] = "wait" => pc'[w] = "wait"
      PROVE  TasksHeld'
  BY <1>1
<1>2. CASE KeyboardExit \/ RxStep
  <2>1. UNCHANGED task
    BY <1>2 DEF KeyboardExit, RxStep, RxRead, RxAsk, RxWrite, RxTimeout, RxFail,
         workVars, poolVars
  <2>2. \E t \in {"kbd", "rx"}, p \in Places : pc' = [pc EXCEPT ![t] = p]
    BY <1>2 DEF KeyboardExit, RxStep, RxRead, RxAsk, RxWrite, RxTimeout,
         RxTimeoutTurn, RxFail, Goto, Places
  <2> QED BY <1>1, <1>w, <2>1, <2>2
<1>3. ASSUME NEW d \in Devices, PollStep(d) PROVE TasksHeld'
  <2>1. UNCHANGED task
    BY <1>3 DEF PollStep, PollTurn, PollKick, PollFail, workVars, poolVars
  <2>2. \E p \in Places : pc' = [pc EXCEPT ![PollOf(d)] = p]
    BY <1>3 DEF PollStep, PollTurn, PollKick, PollFail, Goto, Places
  <2> QED BY <1>1, <1>w, <2>1, <2>2 DEF PollOf
<1>4. ASSUME NEW w \in Workers, WorkStep(w) PROVE TasksHeld'
  <2>1. CASE TakeTask(w)
    BY <1>w, <2>1 DEF TakeTask, Goto
  <2>2. CASE ClearWorking(w) \/ WorkerExit(w)
    BY <1>w, <2>2 DEF ClearWorking, WorkerExit, Goto, At, workVars, poolVars
  <2> QED BY <1>4, <2>1, <2>2 DEF WorkStep
<1>5. ASSUME NEW t \in Servers, AssignTask(t) PROVE TasksHeld'
  <2> DEFINE w == claim[t]
  <2>1. w \in Workers /\ pc[t] = "assign"
    BY <1>5 DEF AssignTask, At, ClaimInv
  <2>2. pc[w] = "wait"
    <3>1. Touch(t, <<w>>) /\ <<w>> \in Seq(Objects) /\ <<w>> # <<>> /\ <<w>>[1] = w
      BY <1>5, <2>1 DEF AssignTask, Objects
    <3>2. obj[w] = "live"
      BY ZenonT(30), ZenonT(60), <3>1, TouchedLive
    <3> QED BY <1>5, <3>2 DEF AssignTask
  <2>3. \E p \in Places : pc' = [pc EXCEPT ![t] = p]
    BY <1>5 DEF AssignTask, Goto, Places
  <2>4. task' = task \/ task' = [task EXCEPT ![w] = TRUE]
    BY <1>5 DEF AssignTask
  <2> QED BY <1>w, <2>1, <2>2, <2>3, <2>4
<1>6. ASSUME NEW t \in Servers, ServerStep(t), ~AssignTask(t) PROVE TasksHeld'
  <2>1. UNCHANGED task /\ pc[t] # "wait"
    BY <1>6 DEF ServerStep, Notify, TakeLock, ReadIndex, ReadEntry,
         SubmitRequest,
         SendPacket, Consume, Unlock, At, workVars, poolVars
  <2>2. \E p \in Places : pc' = [pc EXCEPT ![t] = p]
    BY <1>6, ServerMove
  <2> QED BY <1>1, <1>w, <2>1, <2>2
<1> QED BY <1>2, <1>3, <1>4, <1>5, <1>6 DEF ThreadStep

(* The other threads and the guest change neither what there is nor, but   *)
(* by stopping the machine, where main() is.                               *)
LEMMA StageStep ==
  ASSUME TypeInv, ClaimInv, StageInv, [Next]_vars
  PROVE  StageInv'
<1> SUFFICES ASSUME Alive' PROVE ObjectsHeld' /\ ThreadsHeld' /\ TasksHeld'
  BY DEF StageInv
<1>0. bad' = {}
  BY DEF Alive
<1>1. CASE Main
  BY <1>0, <1>1, MainStage
<1>2. CASE Fail
  BY <1>2 DEF Fail, Alive
<1>3. CASE ThreadStep
  <2>1. UNCHANGED <<mpc, obj>> /\ Alive
    BY <1>3, ThreadMove DEF Running, Gone, Alive
  <2>2. \A t \in Threads : Runs(t)' => Runs(t)
    BY <1>3, ThreadMove DEF Runs, TypeInv
  <2>3. TasksHeld'
    BY <1>0, <1>3, <2>1, TaskStep DEF StageInv
  <2> QED BY ZenonT(30), ZenonT(60), <2>1, <2>2, <2>3 DEF StageInv, ObjectsHeld, ThreadsHeld, Threads,
           Servers, Pollers
<1>4. CASE Poweroff \/ GuestFault
  <2>1. mpc = "run" /\ mpc' = "stopped" /\ UNCHANGED <<obj, pc, bad, task>>
    BY <1>4 DEF Poweroff, GuestFault, workVars, poolVars
  <2>2. ObjectsHeld /\ ThreadsHeld /\ TasksHeld
    BY <1>0, <2>1 DEF StageInv, Alive
  <2>3. ObjectsHeld' /\ TasksHeld'
    BY <2>1, <2>2 DEF ObjectsHeld, TasksHeld, HasMem, Teardown, HasNet, HasNetCtx,
       HasBlk, HasBlkCtx, HasPool, Up
  <2>4. ThreadsHeld'
    BY <2>1, <2>2 DEF ThreadsHeld, Runs, HasKbd, HasNet, HasNetCtx, HasBlk,
       HasBlkCtx, HasPool, Up
  <2> QED BY <2>3, <2>4
<1>5. CASE UNCHANGED <<mpc, obj, pc, bad, task>>
  BY <1>5 DEF StageInv, Alive, ObjectsHeld, ThreadsHeld, TasksHeld, Runs
<1>6. CASE OutsideStep
  BY ZenonT(30), ZenonT(60), <1>4, <1>5, <1>6
     DEF OutsideStep, Sigterm, Handler, Power, Guest, SetCommand, PulseIrq,
         ReadCommand, ClearCommand, IrqHandled, PowerWork, ModuleLoad,
         ModuleUnload, IrqIgnored, UserPoweroff, GuestPost, guestOnly, Alive,
         workVars, poolVars
<1>7. CASE UNCHANGED vars
  BY <1>5, <1>7 DEF vars, workVars, poolVars
<1> QED BY <1>1, <1>2, <1>3, <1>6, <1>7, WhoSteps

(* An orderly poweroff waits until the device threads are at rest, and     *)
(* only a guest that runs, or a packet, gives them new work.               *)
LEMMA QuietStep ==
  ASSUME TypeInv, StageInv, QuietInv, [Next]_vars
  PROVE  QuietInv'
<1>1. CASE UNCHANGED <<kick, pc, task, left, orderly>> /\ (mpc' \in Late => mpc \in Late)
  BY <1>1 DEF QuietInv, AtRest, Idle
<1>2. CASE Main \/ Fail
  <2> USE <1>2 DEF Main, Fail, InitVm, InitBlk, InitNet, LoadKernel,
       SpawnKeyboard,
       InstallHandler, EnterRun, SetQuit, JoinKeyboard, UnmapMemory, DeletePool,
       JoinWorker, FreePool, FreeBlkCtx, StopPolling, FreeDevice, QuitReceiver,
       JoinReceiver, Return, MainGoto
  <2>1. UNCHANGED <<kick, task, left, orderly>>
    BY ZenonT(30), ZenonT(60) DEF workVars, poolVars, powerVars, signalVars
  <2>2. mpc' \in Late => mpc \in Late
    <3> HIDE <1>2
    <3>l. /\ Late \cap {"blk", "net", "load", "spawn", "handler", "enter", "run",
                     "failed"} = {}
          /\ {"stopped", "joinKbd", "unmap", "deletePool", "joinPool", "freeBlkCtx",
              "stopBlk", "joinBlk", "quitRx", "joinRx", "stopNet", "joinNet",
              "return"} \subseteq Late
      BY DEF Late, Teardown, HasNet, HasNetCtx, HasBlk, HasBlkCtx, HasPool, Up
    <3>1. CASE Fail
      BY <3>1, <3>l DEF Fail
    <3>2. CASE \/ InitVm \/ InitBlk \/ InitNet \/ LoadKernel \/ SpawnKeyboard
               \/ InstallHandler \/ EnterRun
      BY ZenonT(30), ZenonT(60), <3>2, <3>l
    <3>3. CASE \/ SetQuit \/ JoinKeyboard \/ UnmapMemory \/ DeletePool
               \/ (\E w \in Workers : JoinWorker(w)) \/ FreePool \/ FreeBlkCtx
      BY ZenonT(30), ZenonT(60), <3>3, <3>l
    <3>4. CASE \/ StopPolling("blk", "stopBlk", "joinBlk")
               \/ FreeDevice("blk", "joinBlk", "quitRx")
               \/ QuitReceiver \/ JoinReceiver
               \/ StopPolling("net", "stopNet", "joinNet")
               \/ FreeDevice("net", "joinNet", "return") \/ Return
      BY ZenonT(30), ZenonT(60), <3>4, <3>l
    <3> QED BY ZenonT(30), ZenonT(60), <1>2, <3>1, <3>2, <3>3, <3>4 DEF Main
  <2>3. mpc' \in Late => UNCHANGED pc
    BY DEF Late, Teardown, HasNet, HasNetCtx, HasBlk, HasBlkCtx, HasPool, Up
  <2> HIDE <1>2
  <2> QED BY SMTT(30), SMTT(60), <1>1, <2>1, <2>2, <2>3 DEF QuietInv
<1>3. CASE ThreadStep
  <2>1. /\ Running /\ UNCHANGED <<mpc, orderly>>
    BY <1>3, ThreadMove
  <2> SUFFICES ASSUME orderly, mpc \in Late PROVE AtRest'
    BY <2>1 DEF QuietInv
  <2>2. AtRest /\ TasksHeld
    BY <2>1 DEF QuietInv, StageInv, Alive, Running, Gone
  <2>w. /\ Servers \subseteq Threads /\ Workers \subseteq Servers
        /\ {"kbd", "rx"} \subseteq Threads /\ \A d \in Devices : PollOf(d) \in Threads
    BY DEF Threads, Servers, Pollers, PollOf
  <2>3. ASSUME UNCHANGED <<kick, task, left>>, NEW t \in Threads,
               NEW p \in Places, pc' = [pc EXCEPT ![t] = p],
               p \in {"gone", "poll", "clear", "read"} \/ (p = "wait" /\ ~task[t])
        PROVE  AtRest'
    BY <2>2, <2>3 DEF AtRest, Idle, TypeInv
  <2>4. CASE KeyboardExit
    BY ZenonT(30), ZenonT(60), <2>3, <2>4, <2>w DEF KeyboardExit, Goto, Places, workVars, poolVars
  <2>5. CASE RxStep
    <3>1. pc["rx"] \notin {"ask", "write"} /\ mpc # "run"
      BY <2>2, <2>w DEF AtRest, Idle, Late, Teardown, HasNet, HasNetCtx,
           HasBlk, HasBlkCtx, HasPool, Up
    <3>2. RxTimeout \/ RxFail
      BY <2>5, <3>1 DEF RxStep, RxRead, RxAsk, RxWrite, At
    <3>3. UNCHANGED <<kick, task, left>>
      BY <3>2 DEF RxTimeout, RxFail, workVars, poolVars
    <3>4. \E p \in {"gone", "read"} : pc' = [pc EXCEPT !["rx"] = p]
      BY <3>2 DEF RxTimeout, RxTimeoutTurn, RxFail, Goto
    <3> QED BY ZenonT(30), ZenonT(60), <2>3, <2>w, <3>3, <3>4 DEF Places
  <2>6. ASSUME NEW t \in Servers, ServerStep(t) PROVE AtRest'
    <3>1. Idle(t)
      BY <2>2, <2>w DEF AtRest
    <3>2. Unlock(t)
      BY <2>6, <3>1 DEF ServerStep, Notify, TakeLock, ReadIndex, ReadEntry,
         SubmitRequest, SendPacket, AssignTask, Consume, At, Idle
    <3>3. UNCHANGED <<kick, task, left>>
      BY <3>2 DEF Unlock, poolVars
    <3>4. \E p \in {"gone", "poll", "clear"} : pc' = [pc EXCEPT ![t] = p]
      BY ZenonT(30), ZenonT(60), <3>2 DEF Unlock, Goto
    <3> QED BY ZenonT(30), ZenonT(60), <2>3, <2>w, <3>3, <3>4 DEF Places
  <2>7. ASSUME NEW d \in Devices, PollStep(d) PROVE AtRest'
    <3>1. PollTurn(d)
      BY <2>2, <2>7 DEF PollStep, PollKick, PollFail, AtRest
    <3>2. UNCHANGED <<kick, task, left>>
      BY <3>1 DEF PollTurn, workVars, poolVars
    <3>3. \E p \in {"gone", "poll"} : pc' = [pc EXCEPT ![PollOf(d)] = p]
      BY ZenonT(30), ZenonT(60), <3>1 DEF PollTurn, Goto
    <3> QED BY ZenonT(30), ZenonT(60), <2>3, <2>w, <3>2, <3>3 DEF Places
  <2>8. ASSUME NEW w \in Workers, WorkStep(w) PROVE AtRest'
    <3>1. Idle(w)
      BY <2>2, <2>w DEF AtRest
    <3>2. CASE ClearWorking(w)
      <4>1. ~task[w]
        BY <2>2, <3>2 DEF TasksHeld, ClearWorking, At
      <4> QED BY ZenonT(30), ZenonT(60), <2>3, <2>w, <3>2, <4>1 DEF ClearWorking, Goto, Places
    <3>3. CASE WorkerExit(w)
      BY ZenonT(30), ZenonT(60), <2>3, <2>w, <3>3 DEF WorkerExit, Goto, Places, workVars, poolVars
    <3> QED BY <2>8, <3>1, <3>2, <3>3 DEF WorkStep, TakeTask, At, Idle
  <2> QED BY <1>3, <2>4, <2>5, <2>6, <2>7, <2>8 DEF ThreadStep
<1>4. CASE Poweroff
  BY <1>4 DEF Poweroff, QuietInv, AtRest, Idle, workVars, poolVars
<1>5. CASE GuestFault
  BY <1>5 DEF GuestFault, QuietInv
<1>6. ASSUME NEW d \in Devices, GuestPost(d) PROVE QuietInv'
  BY <1>6 DEF GuestPost, QuietInv, Late, Teardown, HasNet, HasNetCtx, HasBlk,
       HasBlkCtx, HasPool, Up
<1>7. CASE Sigterm
  <2>1. mpc' \in Late => mpc \in Late
    BY SMTT(30), SMTT(60), <1>7 DEF Sigterm, Late, Teardown, HasNet, HasNetCtx, HasBlk, HasBlkCtx,
         HasPool, Up
  <2> QED BY <1>1, <1>7, <2>1 DEF Sigterm, workVars, poolVars
<1>8. CASE UNCHANGED vars \/ Handler \/ Power \/ ModuleLoad \/ ModuleUnload
           \/ IrqIgnored \/ UserPoweroff
  BY ZenonT(30), ZenonT(60), <1>1, <1>8 DEF vars, Handler, SetCommand, PulseIrq, Power, ReadCommand,
     ClearCommand, IrqHandled, PowerWork, ModuleLoad, ModuleUnload, IrqIgnored,
     UserPoweroff, GuestGoto, guestOnly, workVars, poolVars, powerVars, signalVars
<1> QED BY <1>2, <1>3, <1>4, <1>5, <1>6, <1>7, <1>8, WhoSteps DEF OutsideStep,
     Guest

(* Where the objects of a running thread are live, and, unless main() is   *)
(* already stopping, those of its device.                                  *)
LEMMA ServerHolds ==
  ASSUME TypeInv, StageInv, NEW t \in Servers, Running, Runs(t)
  PROVE  /\ obj[DeviceOf(t)] = "live"
         /\ t \in Workers => obj["blkctx"] = "live" /\ obj["pool"] = "live"
         /\ mpc \notin Late =>
              /\ obj["mem"] = "live"
              /\ t # "netpoll" => /\ obj["blkctx"] = "live" /\ obj["pool"] = "live"
                                  /\ \A w \in Workers : obj[w] = "live"
              /\ t = "netpoll" => obj["netctx"] = "live"
<1>0. ObjectsHeld /\ ThreadsHeld
  BY SMTT(30), SMTT(60) DEF Running, Gone, StageInv, Alive
<1>1. CASE t = "blkpoll"
  BY SMTT(30), SMTT(60), <1>0, <1>1, LifecycleAssumption DEF ObjectsHeld, ThreadsHeld, DeviceOf,
       HasMem,
     Late, Teardown, HasNet, HasNetCtx, HasBlk, HasBlkCtx, HasPool, Up, Pollers
<1>2. CASE t \in Workers
  BY <1>0, <1>2, LifecycleAssumption DEF ObjectsHeld, ThreadsHeld, DeviceOf,
       HasMem,
     Late, Teardown, HasNet, HasNetCtx, HasBlk, HasBlkCtx, HasPool, Up, Pollers
<1>3. CASE t = "netpoll"
  BY <1>0, <1>3, LifecycleAssumption DEF ObjectsHeld, ThreadsHeld, DeviceOf,
       HasMem,
     Late, Teardown, HasNet, HasNetCtx, HasBlk, HasBlkCtx, HasPool, Up, Pollers
<1> QED BY <1>1, <1>2, <1>3 DEF Servers, Pollers

(* A step finds nothing dead but what MayFindGone lists, in the order of   *)
(* main()'s frees, and main() itself only a device that was never made.    *)
LEMMA DeadStep ==
  ASSUME LifeInv, [Next]_vars
  PROVE  DeadInv'
<1> USE DEF LifeInv
<1>0. ASSUME Running PROVE bad = {} /\ ObjectsHeld /\ ThreadsHeld
  BY <1>0 DEF Running, Gone, StageInv, Alive
<1>1. UNCHANGED orderly
  <2>1. ASSUME Main \/ Fail PROVE UNCHANGED orderly
    BY ZenonT(30), ZenonT(60), <2>1 DEF Main, Fail, InitVm, InitBlk, InitNet, LoadKernel, SpawnKeyboard,
       InstallHandler, EnterRun, SetQuit, JoinKeyboard, UnmapMemory, DeletePool,
       JoinWorker, FreePool, FreeBlkCtx, StopPolling, FreeDevice, QuitReceiver,
       JoinReceiver, Return, powerVars, signalVars
  <2>2. ASSUME OutsideStep PROVE UNCHANGED orderly
    BY ZenonT(30), ZenonT(60), <2>2 DEF OutsideStep, Sigterm, Handler, Power, Guest, SetCommand,
         PulseIrq,
       ReadCommand, ClearCommand, IrqHandled, PowerWork, Poweroff, ModuleLoad,
       ModuleUnload, IrqIgnored, UserPoweroff, GuestFault, GuestPost, GuestGoto,
       guestOnly, powerVars, signalVars
  <2> QED BY SMTT(30), SMTT(60), <2>1, <2>2, WhoSteps, ThreadMove DEF vars, powerVars, signalVars
<1>2. CASE UNCHANGED bad
  BY <1>1, <1>2 DEF DeadInv
<1>3. ASSUME NEW t, NEW path, Running, Touch(t, path), FirstDead(path) = {}
      PROVE  DeadInv'
  BY <1>0, <1>3 DEF Touch, DeadInv
<1>4. ASSUME NEW t, NEW path, Running, Touch(t, path), ~orderly,
             NEW S, FirstDead(path) \subseteq S, {t} \X S \subseteq MayFindGone
      PROVE  DeadInv'
  <2>1. {t} \X FirstDead(path) \subseteq MayFindGone
    BY SMTT(30), SMTT(60), <1>4
  <2> QED BY <1>0, <1>1, <1>4, <2>1 DEF Touch, DeadInv
<1>5. CASE Main
  <2>1. CASE DeletePool
    <3> DEFINE path == <<"blk", "blkctx", "pool">>
    <3>1. Running /\ mpc = "deletePool" /\ Touch("main", path)
      BY <2>1 DEF DeletePool, MainGoto
    <3>2. CASE Disk
      <4>1. obj["blk"] = "live" /\ obj["blkctx"] = "live" /\ obj["pool"] = "live"
        BY <1>0, <3>1, <3>2 DEF ObjectsHeld, HasBlk, HasBlkCtx, HasPool
      <4>2. FirstDead(path) = {}
        BY <4>1, AllLive
      <4> QED BY <1>3, <3>1, <4>2
    <3>3. CASE ~Disk
      <4>1. FirstDead(path) = {"blk"}
        BY <1>0, <3>1, <3>3 DEF ObjectsHeld, FirstDead
      <4>2. {"main"} \X FirstDead(path) = {<<"main", "blk">>}
        BY <4>1
      <4> QED BY <1>0, <3>1, <3>3, <4>2 DEF Touch, DeadInv, MissingDevice
    <3> QED BY <3>2, <3>3
  <2>2. CASE QuitReceiver
    <3> DEFINE path == <<"net", "netctx">>
    <3>1. Running /\ mpc = "quitRx" /\ Touch("main", path)
      BY <2>2 DEF QuitReceiver, MainGoto
    <3>2. CASE Net
      <4>1. obj["net"] = "live" /\ obj["netctx"] = "live"
        BY <1>0, <3>1, <3>2 DEF ObjectsHeld, HasNet, HasNetCtx
      <4>2. FirstDead(path) = {}
        BY <4>1, AllLive
      <4> QED BY <1>3, <3>1, <4>2
    <3>3. CASE ~Net
      <4>1. FirstDead(path) = {"net"}
        BY <1>0, <3>1, <3>3 DEF ObjectsHeld, FirstDead
      <4>2. {"main"} \X FirstDead(path) = {<<"main", "net">>}
        BY <4>1
      <4> QED BY <1>0, <3>1, <3>3, <4>2 DEF Touch, DeadInv, MissingDevice
    <3> QED BY <3>2, <3>3
  <2>3. ASSUME StopPolling("blk", "stopBlk", "joinBlk") PROVE DeadInv'
    <3>1. Running /\ mpc = "stopBlk" /\ Touch("main", <<"blk">>)
      BY <2>3 DEF StopPolling, MainGoto
    <3>2. obj["blk"] = "live"
      BY <1>0, <3>1 DEF ObjectsHeld, Teardown, HasNet, HasNetCtx, HasBlk,
           HasBlkCtx, HasPool, Up
    <3> QED BY <1>3, <3>1, <3>2, AllLive
  <2>4. ASSUME StopPolling("net", "stopNet", "joinNet") PROVE DeadInv'
    <3>1. Running /\ mpc = "stopNet" /\ Touch("main", <<"net">>)
      BY <2>4 DEF StopPolling, MainGoto
    <3>2. obj["net"] = "live"
      BY <1>0, <3>1 DEF ObjectsHeld, Teardown, HasNet, HasNetCtx, HasBlk,
           HasBlkCtx, HasPool, Up
    <3> QED BY <1>3, <3>1, <3>2, AllLive
  <2> QED BY ZenonT(30), ZenonT(60), <1>2, <1>5, <2>1, <2>2, <2>3, <2>4 DEF Main, InitVm, InitBlk,
       InitNet,
       LoadKernel, SpawnKeyboard, InstallHandler, EnterRun, SetQuit,
       JoinKeyboard,
       UnmapMemory, JoinWorker, FreePool, FreeBlkCtx, FreeDevice, JoinReceiver,
       Return
<1>6. ASSUME NEW t \in Servers, ServerStep(t) PROVE DeadInv'
  <2>1. Running /\ Runs(t)
    BY <1>6, ServerMove
  <2>2. obj[DeviceOf(t)] = "live"
    BY <2>1, ServerHolds
  <2>3. CASE TakeLock(t) \/ Unlock(t)
    <3>1. Touch(t, <<DeviceOf(t)>>)
      BY <2>3 DEF TakeLock, Unlock
    <3>2. FirstDead(<<DeviceOf(t)>>) = {}
      BY <2>2, AllLive
    <3> QED BY <1>3, <2>1, <3>1, <3>2
  <2>4. ASSUME orderly, ~Unlock(t) PROVE mpc \notin Late
    <3>1. pc[t] \in {"lock", "index", "submit", "assign", "consume", "finish"}
          \/ (pc[t] = "entry" /\ left[t] > 0)
      BY <1>6, <2>4 DEF ServerStep, Notify, TakeLock, ReadIndex, ReadEntry,
         SubmitRequest, SendPacket, AssignTask, Consume, At
    <3>2. ~Idle(t)
      BY <3>1 DEF Idle
    <3> QED BY ZenonT(30), ZenonT(60), <2>4, <3>2 DEF QuietInv, AtRest, Threads
  <2>5. CASE ReadIndex(t) \/ ReadEntry(t) \/ Consume(t)
    <3>0. ~Unlock(t)
      BY <2>5 DEF ReadIndex, ReadEntry, Consume, Unlock, At
    <3>1. PICK path \in {<<"mem">>, <<"mem", DeviceOf(t)>>} : Touch(t, path)
      BY <2>5 DEF ReadIndex, ReadEntry, Consume
    <3>2. FirstDead(path) \subseteq {"mem"}
      BY <2>2, <3>1 DEF FirstDead
    <3>3. {t} \X {"mem"} \subseteq MayFindGone
      BY DEF MayFindGone
    <3>4. CASE orderly /\ ~Unlock(t)
      <4>1. obj["mem"] = "live"
        BY <2>1, <2>4, <3>4, ServerHolds
      <4>2. FirstDead(path) = {}
        BY <2>2, <3>1, <4>1, AllLive
      <4> QED BY <1>3, <2>1, <3>1, <4>2
    <3> QED BY <1>4, <2>1, <3>0, <3>1, <3>2, <3>3, <3>4 DEF TypeInv
  <2>6. CASE SubmitRequest(t)
    <3> DEFINE path == <<"blk", "blkctx", "pool">>
    <3>1. /\ Touch(t, path) /\ t # "netpoll" /\ obj["blk"] = "live" /\ ~Unlock(t)
      BY <2>2, <2>6 DEF SubmitRequest, DeviceOf, Unlock, At
    <3>2. CASE obj["blkctx"] = "live" /\ obj["pool"] = "live"
      <4>1. FirstDead(path) = {}
        BY <3>1, <3>2, AllLive
      <4> QED BY <1>3, <2>1, <3>1, <4>1
    <3>3. CASE ~(obj["blkctx"] = "live" /\ obj["pool"] = "live")
      <4>1. ~orderly /\ t = "blkpoll"
        BY <2>1, <2>4, <3>1, <3>3, ServerHolds DEF Servers, Pollers
      <4>2. FirstDead(path) \subseteq {"blkctx", "pool"}
        BY <3>1 DEF FirstDead
      <4>3. {t} \X {"blkctx", "pool"} \subseteq MayFindGone
        BY <4>1 DEF MayFindGone
      <4> HIDE DEF path
      <4> QED BY <1>4, <2>1, <3>1, <4>1, <4>2, <4>3
    <3> QED BY <3>2, <3>3
  <2>7. CASE SendPacket(t)
    <3> DEFINE path == <<"net", "netctx">>
    <3>1. /\ Touch(t, path) /\ t = "netpoll" /\ obj["net"] = "live" /\ ~Unlock(t)
      BY <2>2, <2>7 DEF SendPacket, DeviceOf, Unlock, At
    <3>2. CASE obj["netctx"] = "live"
      <4>1. FirstDead(path) = {}
        BY <3>1, <3>2, AllLive
      <4> QED BY <1>3, <2>1, <3>1, <4>1
    <3>3. CASE obj["netctx"] # "live"
      <4>1. ~orderly
        BY <2>1, <2>4, <3>1, <3>3, ServerHolds
      <4>2. FirstDead(path) \subseteq {"netctx"}
        BY <3>1 DEF FirstDead
      <4>3. {t} \X {"netctx"} \subseteq MayFindGone
        BY <3>1 DEF MayFindGone
      <4> HIDE DEF path
      <4> QED BY <1>4, <2>1, <3>1, <4>1, <4>2, <4>3
    <3> QED BY <3>2, <3>3
  <2>8. CASE AssignTask(t)
    <3>1. PICK w \in Workers : Touch(t, <<w>>) /\ t # "netpoll" /\ ~Unlock(t)
      BY <2>8 DEF AssignTask, ClaimInv, Unlock, At
    <3>2. CASE obj[w] = "live"
      <4>1. FirstDead(<<w>>) = {}
        BY <3>2, AllLive
      <4> QED BY <1>3, <2>1, <3>1, <4>1
    <3>3. CASE obj[w] # "live"
      <4>1. ~orderly
        BY <2>1, <2>4, <3>1, <3>3, ServerHolds
      <4>2. FirstDead(<<w>>) \subseteq {w}
        BY DEF FirstDead
      <4>3. {t} \X {w} \subseteq MayFindGone
        BY <3>1 DEF MayFindGone, Servers, Pollers
      <4> QED BY <1>4, <2>1, <3>1, <4>1, <4>2, <4>3
    <3> QED BY <3>2, <3>3
  <2> QED BY <1>6, <2>3, <2>5, <2>6, <2>7, <2>8 DEF ServerStep, Notify
<1>7. ASSUME NEW d \in Devices, PollStep(d) PROVE DeadInv'
  <2>1. Running /\ Runs(PollOf(d)) /\ PollOf(d) \in Servers /\ DeviceOf(PollOf(d)) = d
    BY <1>7 DEF PollStep, PollTurn, PollKick, PollFail, At, Runs, PollOf,
       DeviceOf, Devices, Servers, Pollers
  <2>2. obj[d] = "live"
    BY <2>1, ServerHolds
  <2>3. UNCHANGED bad \/ Touch(PollOf(d), <<d>>)
    BY <1>7 DEF PollStep, PollTurn, PollKick, PollFail
  <2>4. FirstDead(<<d>>) = {}
    BY <2>2, AllLive
  <2> QED BY <1>2, <1>3, <2>1, <2>3, <2>4
<1>8. ASSUME NEW w \in Workers, WorkStep(w) PROVE DeadInv'
  <2>1. Running /\ Runs(w) /\ w \in Servers
    BY <1>8 DEF WorkStep, TakeTask, ClearWorking, WorkerExit, At, Runs, Servers
  <2>2. obj["pool"] = "live"
    BY <2>1, ServerHolds
  <2>3. UNCHANGED bad \/ Touch(w, <<"pool">>)
    BY <1>8 DEF WorkStep, TakeTask, ClearWorking, WorkerExit
  <2>4. FirstDead(<<"pool">>) = {}
    BY <2>2, AllLive
  <2> QED BY <1>2, <1>3, <2>1, <2>3, <2>4
<1>9. CASE RxStep
  <2>1. Running /\ Runs("rx")
    BY <1>9 DEF RxStep, RxRead, RxAsk, RxWrite, RxTimeout, RxFail, At, Runs
  <2>2. obj["netctx"] = "live" /\ obj["net"] = "live" /\ mpc \in HasNetCtx
    BY <1>0, <2>1 DEF ObjectsHeld, ThreadsHeld, HasNet
  <2>3. FirstDead(<<"netctx">>) = {} /\ FirstDead(<<"net">>) = {}
    BY <2>2, AllLive
  <2>4. CASE Touch("rx", <<"netctx">>) \/ Touch("rx", <<"net">>)
    BY <1>3, <2>1, <2>3, <2>4
  <2>5. CASE (RxAsk \/ RxWrite) /\ Touch("rx", <<"net", "mem">>)
    <3> DEFINE path == <<"net", "mem">>
    <3>1. CASE obj["mem"] = "live"
      <4>1. FirstDead(path) = {}
        BY <2>2, <3>1, AllLive
      <4> QED BY <1>3, <2>1, <2>5, <4>1
    <3>2. CASE obj["mem"] # "live"
      <4>1. mpc \in Late
        BY <1>0, <2>1, <2>2, <3>2 DEF ObjectsHeld, HasMem, Late, Teardown,
             HasNet, HasNetCtx, HasBlk, HasBlkCtx, HasPool, Up
      <4>2. ~Idle("rx")
        BY <2>5 DEF RxAsk, RxWrite, At, Idle
      <4>3. ~orderly
        BY <4>1, <4>2 DEF QuietInv, AtRest, Threads
      <4>4. FirstDead(path) \subseteq {"mem"}
        BY <2>2 DEF FirstDead
      <4>5. {"rx"} \X {"mem"} \subseteq MayFindGone
        BY DEF MayFindGone
      <4>6. Touch("rx", path)
        BY SMTT(30), SMTT(60), <2>5
      <4> HIDE DEF path
      <4> QED BY SMTT(30), SMTT(60), <1>4, <2>1, <4>3, <4>4, <4>5, <4>6
    <3> QED BY <3>1, <3>2
  <2> QED BY <1>9, <2>4, <2>5 DEF RxStep, RxRead, RxAsk, RxWrite, RxTimeout,
       RxFail
<1>10. CASE UNCHANGED vars \/ Fail \/ KeyboardExit \/ OutsideStep
  BY ZenonT(30), ZenonT(60), <1>2, <1>10 DEF vars, Fail, KeyboardExit, OutsideStep, Sigterm, Handler,
       Power, Guest, SetCommand, PulseIrq,
       ReadCommand, ClearCommand, IrqHandled, PowerWork, Poweroff, ModuleLoad,
       ModuleUnload, IrqIgnored, UserPoweroff, GuestFault, GuestPost, GuestGoto,
       guestOnly
<1> QED BY <1>5, <1>6, <1>7, <1>8, <1>9, <1>10, WhoSteps DEF ThreadStep

-----------------------------------------------------------------------------
(* The inductive invariant holds in every run of main(): where main() is   *)
(* fixes what is live and who runs, and nothing else is ever found gone    *)
(* than DeadInv says.                                                      *)
THEOREM LifeInvariant == Spec => []LifeInv
<1>1. Init => LifeInv
  <2> HAVE Init
  <2>1. TypeInv /\ ClaimInv
    BY SMTT(30), SMTT(60) DEF Init, TypeInv, ClaimInv, Stages, Places, Threads
  <2>2. StageInv
    BY ZenonT(30), ZenonT(60), LifecycleAssumption DEF Init, StageInv, ObjectsHeld, ThreadsHeld,
         TasksHeld,
           Runs, HasMem, Teardown, HasNet, HasNetCtx, HasBlk, HasBlkCtx,
           HasPool, Up, Objects, Shared, Devices, Threads, Servers, Pollers
  <2>3. QuietInv
    BY DEF Init, QuietInv, Late, Teardown, HasNet, HasNetCtx, HasBlk,
         HasBlkCtx, HasPool, Up
  <2> QED BY <2>1, <2>2, <2>3 DEF Init, LifeInv, DeadInv
<1>2. LifeInv /\ [Next]_vars => LifeInv'
  BY TypeStep, ClaimStep, StageStep, QuietStep, DeadStep DEF LifeInv
<1> QED BY <1>1, <1>2, PTL DEF Spec

(* Whatever the options, main() and mvvm_destroy find nothing missing but  *)
(* a device that was not asked for, and a device thread nothing but what   *)
(* is freed before it is stopped.                                          *)
THEOREM NothingElseGone == Spec => [](bad \subseteq MayFindGone \cup MissingDevice)
<1>1. LifeInv => bad \subseteq MayFindGone \cup MissingDevice
  BY DEF LifeInv, DeadInv
<1> QED BY <1>1, LifeInvariant, PTL

(* With a disk and a network, however the guest stops, mvvm_destroy frees  *)
(* too early only guest memory, and for the poll threads and workers that  *)
(* still serve a queue the pool, its workers and the contexts.             *)
THEOREM FreedTooEarly ==
  ASSUME Disk, Net
  PROVE  Spec => []GoneTooEarly
<1>1. LifeInv => GoneTooEarly
  BY DEF LifeInv, DeadInv, MissingDevice, GoneTooEarly
<1> QED BY <1>1, LifeInvariant, PTL

(* With a disk and a network, a poweroff after the guest's I/O is done     *)
(* makes the teardown of mvvm_destroy safe: nothing dead is touched by any *)
(* thread, for any number of workers.                                      *)
THEOREM OrderlyTeardownSafe ==
  ASSUME Disk, Net
  PROVE  Spec => []NoDeadAccess
<1>1. LifeInv => NoDeadAccess
  BY DEF LifeInv, DeadInv, MissingDevice, NoDeadAccess
<1> QED BY <1>1, LifeInvariant, PTL
=============================================================================
