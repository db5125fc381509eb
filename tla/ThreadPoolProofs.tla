-------------------------- MODULE ThreadPoolProofs --------------------------
(***************************************************************************)
(* Theorems about ThreadPool for any number of workers, callers and tasks. *)
(*                                                                         *)
(* The argument.  pool->lock protects the scan of is_working only until    *)
(* the pool quits: line 16 then frees it under whoever holds it.  What     *)
(* must survive shutdown is therefore tied to the worker's own lock and to *)
(* the test of quit under it: a caller that got past that test had claimed *)
(* the worker while the pool lock still worked, so it is the only one      *)
(* (ClaimInv), and a worker with a task is claimed by nobody (BusyInv).    *)
(***************************************************************************)
EXTENDS ThreadPool, TLAPS

Inside == {"check", "running", "returned", "clearing", "exited"}
Claiming == {"mark", "claim", "post", "assign"}
Claimed == {"claim", "post", "assign"}

At(c, w) == cpc[c] \in Claiming /\ cidx[c] = w
Busy(w) == task_fn[w] # NoTask \/ wpc[w] \in {"running", "returned", "clearing"}

LockInv ==
  /\ \A w \in Workers : wpc[w] \in Inside => workerLock[w] = w
  /\ \A c \in Callers : cpc[c] \in {"post", "assign"} => workerLock[cidx[c]] = c
  /\ \A c \in Callers : cpc[c] \in Claiming => cidx[c] \in Workers /\ cidx[c] # c
  /\ \A w \in Workers : cpc[w] # "idle" => wpc[w] = "running"
  /\ \A w \in Workers : wpc[w] = "exited" => quit

BusyInv ==
  \A w \in Workers : Busy(w) => is_working[w] /\ \A c \in Callers : ~At(c, w)

ClaimInv ==
  \A c \in Callers : cpc[c] = "assign" =>
    /\ is_working[cidx[c]]
    /\ \A d \in Callers : At(d, cidx[c]) => d = c

(* What the pool lock guarantees as long as it works. *)
OpenInv ==
  ~quit =>
    /\ \A c \in Callers : cpc[c] \in {"scan", "mark"} => poolLock = c
    /\ \A w \in Workers : wpc[w] = "clearing" => poolLock = w
    /\ \A c \in Callers : cpc[c] = "mark" => ~is_working[cidx[c]]
    /\ \A c \in Callers : cpc[c] \in Claimed => is_working[cidx[c]]
    /\ \A c, d \in Callers : cpc[c] \in Claimed /\ cpc[d] \in Claimed
                               /\ cidx[c] = cidx[d] => c = d
    /\ \A c \in Callers : cpc[c] = "scan" =>
         \A w \in Workers : w < cidx[c] => is_working[w]

SlotInv ==
  /\ \A w \in Workers : wpc[w] = "running" => task_fn[w] # NoTask
  /\ \A w \in Workers :
       wpc[w] \in {"returned", "clearing", "exited"} => task_fn[w] = NoTask
  /\ \A w \in Workers : task_fn[w] # NoTask =>
       fate[task_fn[w]] = IF wpc[w] = "running" THEN "started" ELSE "accepted"
  /\ \A w, v \in Workers : task_fn[w] = task_fn[v] /\ task_fn[w] # NoTask => w = v

OfferInv ==
  /\ \A c \in Callers : cpc[c] # "idle" =>
       carg[c] \in Tasks /\ fate[carg[c]] = "offered"
  /\ \A c, d \in Callers :
       cpc[c] # "idle" /\ cpc[d] # "idle" /\ carg[c] = carg[d] => c = d

IInv ==
  /\ TypeOK /\ LockInv /\ BusyInv /\ ClaimInv /\ OpenInv
  /\ SlotInv /\ OfferInv /\ AcceptedNotDropped

-----------------------------------------------------------------------------
(* What the constants give: workers are numbers below NumWorkers and may    *)
(* call thread_pool_run like any other thread.                             *)
LEMMA Domains ==
  /\ Workers \subseteq Callers
  /\ NumWorkers \in Nat /\ NumWorkers > 0
  /\ \A w \in Workers : w \in Nat /\ w < NumWorkers
  /\ \A i \in Nat : i < NumWorkers => i \in Workers
  /\ Free \notin Callers /\ NoTask \notin Tasks
BY PoolAssumption DEF Workers, Callers

(* The pool new_thread_pool builds is well typed. *)
LEMMA InitType == ASSUME Init PROVE TypeOK
<1> USE DEF Init
<1>1. 0 \in 0 .. NumWorkers /\ 0 \in 0 .. NumWorkers + 1
  BY Domains
<1>2. is_working \in [Workers -> BOOLEAN] /\ quit \in BOOLEAN
  BY ZenonT(30)
<1>3. joined \in 0 .. NumWorkers + 1 /\ cidx \in [Callers -> 0 .. NumWorkers]
  BY <1>1
<1>4. wpc \in [Workers -> WorkerPcs] /\ cpc \in [Callers -> CallerPcs]
      /\ fate \in [Tasks -> Fates]
  BY DEF WorkerPcs, CallerPcs, Fates
<1> QED BY <1>2, <1>3, <1>4 DEF TypeOK

(* Every step keeps the types. *)
LEMMA TypeStep ==
  ASSUME TypeOK, [Next]_vars
  PROVE  TypeOK'
<1> USE Domains DEF TypeOK, Fates, WorkerPcs, CallerPcs
<1>1. ASSUME NEW w \in Workers, LockSelf(w) PROVE TypeOK'
  BY <1>1 DEF LockSelf, WorkerGoto, callVars
<1>2. ASSUME NEW w \in Workers, TakeTask(w) PROVE TypeOK'
  BY <1>2 DEF TakeTask, WorkerGoto, callVars
<1>3. ASSUME NEW w \in Workers, ExitWorker(w) PROVE TypeOK'
  BY <1>3 DEF ExitWorker, WorkerGoto, callVars
<1>4. ASSUME NEW w \in Workers, Wait(w) PROVE TypeOK'
  BY <1>4 DEF Wait, WorkerGoto, callVars
<1>5. ASSUME NEW w \in Workers, Wake(w) PROVE TypeOK'
  BY <1>5 DEF Wake, WorkerGoto, callVars
<1>6. ASSUME NEW w \in Workers, TaskReturns(w) PROVE TypeOK'
  BY <1>6 DEF TaskReturns, WorkerGoto, callVars
<1>7. ASSUME NEW w \in Workers, LockPool(w) PROVE TypeOK'
  BY <1>7 DEF LockPool, WorkerGoto, callVars
<1>8. ASSUME NEW w \in Workers, ClearWorking(w) PROVE TypeOK'
  BY <1>8 DEF ClearWorking, WorkerGoto, callVars
<1>9. ASSUME NEW c \in Callers, NEW t \in Tasks, CallRun(c, t) PROVE TypeOK'
  BY <1>9 DEF CallRun, CallerGoto, workerVars
<1>10. ASSUME NEW c \in Callers, RunLock(c) PROVE TypeOK'
  BY <1>10 DEF RunLock, CallerGoto, workerVars
<1>11. ASSUME NEW c \in Callers, ScanRead(c) PROVE TypeOK'
  BY <1>11 DEF ScanRead, workerVars
<1>12. ASSUME NEW c \in Callers, ScanFail(c) PROVE TypeOK'
  BY ZenonT(30), <1>12 DEF ScanFail, CallerGoto, workerVars
<1>13. ASSUME NEW c \in Callers, ScanMark(c) PROVE TypeOK'
  BY ZenonT(30), <1>13 DEF ScanMark, CallerGoto, workerVars
<1>14. ASSUME NEW c \in Callers, ClaimLock(c) PROVE TypeOK'
  BY ZenonT(30), <1>14 DEF ClaimLock, CallerGoto, workerVars
<1>15. ASSUME NEW c \in Callers, PostQuit(c) PROVE TypeOK'
  BY ZenonT(30), <1>15 DEF PostQuit, CallerGoto, workerVars
<1>16. ASSUME NEW c \in Callers, PostOpen(c) PROVE TypeOK'
  BY <1>16 DEF PostOpen, CallerGoto, workerVars
<1>17. ASSUME NEW c \in Callers, Assign(c) PROVE TypeOK'
  BY ZenonT(30), <1>17 DEF Assign, CallerGoto
<1>18. ASSUME DeleteStart PROVE TypeOK'
  BY <1>18 DEF DeleteStart, threadVars, callVars
<1>19. ASSUME Join PROVE TypeOK'
  BY <1>19 DEF Join, threadVars, callVars
<1>20. ASSUME FreePool PROVE TypeOK'
  BY <1>20 DEF FreePool, threadVars, callVars
<1>21. ASSUME UNCHANGED vars PROVE TypeOK'
  BY <1>21 DEF vars
<1> QED
  BY ZenonT(30), <1>1, <1>2, <1>3, <1>4, <1>5, <1>6, <1>7, <1>8, <1>9,
     <1>10, <1>11,
     <1>12, <1>13, <1>14, <1>15, <1>16, <1>17, <1>18, <1>19, <1>20, <1>21
  DEF Next, Worker, Caller, Deleted

(* Who holds a worker's lock. *)
LEMMA LockStep ==
  ASSUME IInv, [Next]_vars
  PROVE  LockInv'
<1> USE Domains DEF IInv, TypeOK, LockInv, Inside, Claiming, Dangling,
   WorkerPcs, CallerPcs
<1>1. ASSUME NEW w \in Workers, LockSelf(w) PROVE LockInv'
  BY <1>1 DEF LockSelf, WorkerGoto, callVars
<1>2. ASSUME NEW w \in Workers, TakeTask(w) PROVE LockInv'
  BY <1>2 DEF TakeTask, WorkerGoto, callVars
<1>3. ASSUME NEW w \in Workers, ExitWorker(w) PROVE LockInv'
  BY <1>3 DEF ExitWorker, WorkerGoto, callVars
<1>4. ASSUME NEW w \in Workers, Wait(w) PROVE LockInv'
  BY <1>4 DEF Wait, WorkerGoto, callVars
<1>5. ASSUME NEW w \in Workers, Wake(w) PROVE LockInv'
  BY <1>5 DEF Wake, WorkerGoto, callVars
<1>6. ASSUME NEW w \in Workers, TaskReturns(w) PROVE LockInv'
  BY <1>6 DEF TaskReturns, WorkerGoto, callVars
<1>7. ASSUME NEW w \in Workers, LockPool(w) PROVE LockInv'
  BY <1>7 DEF LockPool, WorkerGoto, callVars
<1>8. ASSUME NEW w \in Workers, ClearWorking(w) PROVE LockInv'
  BY <1>8 DEF ClearWorking, WorkerGoto, callVars
<1>9. ASSUME NEW c \in Callers, NEW t \in Tasks, CallRun(c, t) PROVE LockInv'
  BY <1>9 DEF CallRun, CallerGoto, workerVars
<1>10. ASSUME NEW c \in Callers, RunLock(c) PROVE LockInv'
  BY <1>10 DEF RunLock, CallerGoto, workerVars
<1>11. ASSUME NEW c \in Callers, ScanRead(c) PROVE LockInv'
  BY <1>11 DEF ScanRead, workerVars, BusyInv, Busy
<1>12. ASSUME NEW c \in Callers, ScanFail(c) PROVE LockInv'
  BY <1>12 DEF ScanFail, CallerGoto, workerVars
<1>13. ASSUME NEW c \in Callers, ScanMark(c) PROVE LockInv'
  BY <1>13 DEF ScanMark, CallerGoto, workerVars
<1>14. ASSUME NEW c \in Callers, ClaimLock(c) PROVE LockInv'
  BY <1>14 DEF ClaimLock, CallerGoto, workerVars
<1>15. ASSUME NEW c \in Callers, PostQuit(c) PROVE LockInv'
  BY <1>15 DEF PostQuit, CallerGoto, workerVars
<1>16. ASSUME NEW c \in Callers, PostOpen(c) PROVE LockInv'
  BY <1>16 DEF PostOpen, CallerGoto, workerVars
<1>17. ASSUME NEW c \in Callers, Assign(c) PROVE LockInv'
  BY <1>17 DEF Assign, CallerGoto
<1>18. ASSUME DeleteStart PROVE LockInv'
  BY <1>18 DEF DeleteStart, threadVars, callVars
<1>19. ASSUME Join PROVE LockInv'
  BY <1>19 DEF Join, threadVars, callVars
<1>20. ASSUME FreePool PROVE LockInv'
  BY <1>20 DEF FreePool, threadVars, callVars
<1>21. ASSUME UNCHANGED vars PROVE LockInv'
  BY <1>21 DEF vars
<1> QED
  BY ZenonT(30), <1>1, <1>2, <1>3, <1>4, <1>5, <1>6, <1>7, <1>8, <1>9,
     <1>10, <1>11,
     <1>12, <1>13, <1>14, <1>15, <1>16, <1>17, <1>18, <1>19, <1>20, <1>21
  DEF Next, Worker, Caller, Deleted

(* A worker with work in hand is marked working and nobody claims it. *)
LEMMA BusyStep ==
  ASSUME IInv, [Next]_vars
  PROVE  BusyInv'
<1> USE Domains DEF IInv, TypeOK, BusyInv, LockInv, ClaimInv, Busy, At,
   Claiming
<1>1. ASSUME NEW w \in Workers, LockSelf(w) PROVE BusyInv'
  BY <1>1 DEF LockSelf, WorkerGoto, callVars
<1>2. ASSUME NEW w \in Workers, TakeTask(w) PROVE BusyInv'
  BY <1>2 DEF TakeTask, WorkerGoto, callVars
<1>3. ASSUME NEW w \in Workers, ExitWorker(w) PROVE BusyInv'
  BY <1>3 DEF ExitWorker, WorkerGoto, callVars
<1>4. ASSUME NEW w \in Workers, Wait(w) PROVE BusyInv'
  BY <1>4 DEF Wait, WorkerGoto, callVars
<1>5. ASSUME NEW w \in Workers, Wake(w) PROVE BusyInv'
  BY <1>5 DEF Wake, WorkerGoto, callVars
<1>6. ASSUME NEW w \in Workers, TaskReturns(w) PROVE BusyInv'
  BY <1>6 DEF TaskReturns, WorkerGoto, callVars
<1>7. ASSUME NEW w \in Workers, LockPool(w) PROVE BusyInv'
  BY <1>7 DEF LockPool, WorkerGoto, callVars
<1>8. ASSUME NEW w \in Workers, ClearWorking(w) PROVE BusyInv'
  BY <1>8 DEF ClearWorking, WorkerGoto, callVars, SlotInv
<1>9. ASSUME NEW c \in Callers, NEW t \in Tasks, CallRun(c, t) PROVE BusyInv'
  BY <1>9 DEF CallRun, CallerGoto, workerVars
<1>10. ASSUME NEW c \in Callers, RunLock(c) PROVE BusyInv'
  BY <1>10 DEF RunLock, CallerGoto, workerVars
<1>11. ASSUME NEW c \in Callers, ScanRead(c) PROVE BusyInv'
  BY <1>11 DEF ScanRead, workerVars
<1>12. ASSUME NEW c \in Callers, ScanFail(c) PROVE BusyInv'
  BY <1>12 DEF ScanFail, CallerGoto, workerVars
<1>13. ASSUME NEW c \in Callers, ScanMark(c) PROVE BusyInv'
  BY <1>13 DEF ScanMark, CallerGoto, workerVars
<1>14. ASSUME NEW c \in Callers, ClaimLock(c) PROVE BusyInv'
  BY <1>14 DEF ClaimLock, CallerGoto, workerVars
<1>15. ASSUME NEW c \in Callers, PostQuit(c) PROVE BusyInv'
  BY <1>15 DEF PostQuit, CallerGoto, workerVars
<1>16. ASSUME NEW c \in Callers, PostOpen(c) PROVE BusyInv'
  BY <1>16 DEF PostOpen, CallerGoto, workerVars
<1>17. ASSUME NEW c \in Callers, Assign(c) PROVE BusyInv'
  BY <1>17 DEF Assign, CallerGoto
<1>18. ASSUME DeleteStart PROVE BusyInv'
  BY <1>18 DEF DeleteStart, threadVars, callVars
<1>19. ASSUME Join PROVE BusyInv'
  BY <1>19 DEF Join, threadVars, callVars
<1>20. ASSUME FreePool PROVE BusyInv'
  BY <1>20 DEF FreePool, threadVars, callVars
<1>21. ASSUME UNCHANGED vars PROVE BusyInv'
  BY <1>21 DEF vars
<1> QED
  BY ZenonT(30), <1>1, <1>2, <1>3, <1>4, <1>5, <1>6, <1>7, <1>8, <1>9,
     <1>10, <1>11,
     <1>12, <1>13, <1>14, <1>15, <1>16, <1>17, <1>18, <1>19, <1>20, <1>21
  DEF Next, Worker, Caller, Deleted

(* A caller past the quit test is alone at its worker. *)
LEMMA ClaimStep ==
  ASSUME IInv, [Next]_vars
  PROVE  ClaimInv'
<1> USE Domains DEF IInv, TypeOK, ClaimInv, LockInv, BusyInv, OpenInv, Busy,
   At, Claiming, Claimed, Inside
<1>1. ASSUME NEW w \in Workers, LockSelf(w) PROVE ClaimInv'
  BY <1>1 DEF LockSelf, WorkerGoto, callVars
<1>2. ASSUME NEW w \in Workers, TakeTask(w) PROVE ClaimInv'
  BY <1>2 DEF TakeTask, WorkerGoto, callVars
<1>3. ASSUME NEW w \in Workers, ExitWorker(w) PROVE ClaimInv'
  BY <1>3 DEF ExitWorker, WorkerGoto, callVars
<1>4. ASSUME NEW w \in Workers, Wait(w) PROVE ClaimInv'
  BY <1>4 DEF Wait, WorkerGoto, callVars
<1>5. ASSUME NEW w \in Workers, Wake(w) PROVE ClaimInv'
  BY <1>5 DEF Wake, WorkerGoto, callVars
<1>6. ASSUME NEW w \in Workers, TaskReturns(w) PROVE ClaimInv'
  BY <1>6 DEF TaskReturns, WorkerGoto, callVars
<1>7. ASSUME NEW w \in Workers, LockPool(w) PROVE ClaimInv'
  BY <1>7 DEF LockPool, WorkerGoto, callVars
<1>8. ASSUME NEW w \in Workers, ClearWorking(w) PROVE ClaimInv'
  BY <1>8 DEF ClearWorking, WorkerGoto, callVars
<1>9. ASSUME NEW c \in Callers, NEW t \in Tasks, CallRun(c, t) PROVE ClaimInv'
  BY <1>9 DEF CallRun, CallerGoto, workerVars
<1>10. ASSUME NEW c \in Callers, RunLock(c) PROVE ClaimInv'
  BY <1>10 DEF RunLock, CallerGoto, workerVars
<1>11. ASSUME NEW c \in Callers, ScanRead(c) PROVE ClaimInv'
  BY <1>11 DEF ScanRead, workerVars
<1>12. ASSUME NEW c \in Callers, ScanFail(c) PROVE ClaimInv'
  BY <1>12 DEF ScanFail, CallerGoto, workerVars
<1>13. ASSUME NEW c \in Callers, ScanMark(c) PROVE ClaimInv'
  BY <1>13 DEF ScanMark, CallerGoto, workerVars
<1>14. ASSUME NEW c \in Callers, ClaimLock(c) PROVE ClaimInv'
  BY <1>14 DEF ClaimLock, CallerGoto, workerVars
<1>15. ASSUME NEW c \in Callers, PostQuit(c) PROVE ClaimInv'
  BY <1>15 DEF PostQuit, CallerGoto, workerVars
<1>16. ASSUME NEW c \in Callers, PostOpen(c) PROVE ClaimInv'
  BY <1>16 DEF PostOpen, CallerGoto, workerVars
<1>17. ASSUME NEW c \in Callers, Assign(c) PROVE ClaimInv'
  BY <1>17 DEF Assign, CallerGoto
<1>18. ASSUME DeleteStart PROVE ClaimInv'
  BY <1>18 DEF DeleteStart, threadVars, callVars
<1>19. ASSUME Join PROVE ClaimInv'
  BY <1>19 DEF Join, threadVars, callVars
<1>20. ASSUME FreePool PROVE ClaimInv'
  BY <1>20 DEF FreePool, threadVars, callVars
<1>21. ASSUME UNCHANGED vars PROVE ClaimInv'
  BY <1>21 DEF vars
<1> QED
  BY ZenonT(30), <1>1, <1>2, <1>3, <1>4, <1>5, <1>6, <1>7, <1>8, <1>9,
     <1>10, <1>11,
     <1>12, <1>13, <1>14, <1>15, <1>16, <1>17, <1>18, <1>19, <1>20, <1>21
  DEF Next, Worker, Caller, Deleted

(* What the pool lock protects before shutdown. *)
LEMMA OpenStep ==
  ASSUME IInv, [Next]_vars
  PROVE  OpenInv'
<1> USE Domains DEF IInv, TypeOK, OpenInv, LockInv, BusyInv, Busy, At,
   Claiming, Claimed
<1>1. ASSUME NEW w \in Workers, LockSelf(w) PROVE OpenInv'
  BY <1>1 DEF LockSelf, WorkerGoto, callVars
<1>2. ASSUME NEW w \in Workers, TakeTask(w) PROVE OpenInv'
  BY <1>2 DEF TakeTask, WorkerGoto, callVars
<1>3. ASSUME NEW w \in Workers, ExitWorker(w) PROVE OpenInv'
  BY <1>3 DEF ExitWorker, WorkerGoto, callVars
<1>4. ASSUME NEW w \in Workers, Wait(w) PROVE OpenInv'
  BY <1>4 DEF Wait, WorkerGoto, callVars
<1>5. ASSUME NEW w \in Workers, Wake(w) PROVE OpenInv'
  BY <1>5 DEF Wake, WorkerGoto, callVars
<1>6. ASSUME NEW w \in Workers, TaskReturns(w) PROVE OpenInv'
  BY <1>6 DEF TaskReturns, WorkerGoto, callVars
<1>7. ASSUME NEW w \in Workers, LockPool(w) PROVE OpenInv'
  BY <1>7 DEF LockPool, WorkerGoto, callVars
<1>8. ASSUME NEW w \in Workers, ClearWorking(w) PROVE OpenInv'
  BY <1>8 DEF ClearWorking, WorkerGoto, callVars
<1>9. ASSUME NEW c \in Callers, NEW t \in Tasks, CallRun(c, t) PROVE OpenInv'
  BY <1>9 DEF CallRun, CallerGoto, workerVars
<1>10. ASSUME NEW c \in Callers, RunLock(c) PROVE OpenInv'
  BY <1>10 DEF RunLock, CallerGoto, workerVars
<1>11. ASSUME NEW c \in Callers, ScanRead(c) PROVE OpenInv'
  <2>1. CASE is_working[cidx[c]]
    <3>1. \A w \in Workers : w < cidx[c] + 1 => w < cidx[c] \/ w = cidx[c]
      BY <1>11
    <3> QED BY <1>11, <2>1, <3>1 DEF ScanRead, workerVars
  <2>2. CASE ~is_working[cidx[c]]
    BY <1>11, <2>2 DEF ScanRead, workerVars
  <2> QED BY <2>1, <2>2
<1>12. ASSUME NEW c \in Callers, ScanFail(c) PROVE OpenInv'
  BY <1>12 DEF ScanFail, CallerGoto, workerVars
<1>13. ASSUME NEW c \in Callers, ScanMark(c) PROVE OpenInv'
  BY <1>13 DEF ScanMark, CallerGoto, workerVars
<1>14. ASSUME NEW c \in Callers, ClaimLock(c) PROVE OpenInv'
  BY <1>14 DEF ClaimLock, CallerGoto, workerVars
<1>15. ASSUME NEW c \in Callers, PostQuit(c) PROVE OpenInv'
  BY <1>15 DEF PostQuit, CallerGoto, workerVars
<1>16. ASSUME NEW c \in Callers, PostOpen(c) PROVE OpenInv'
  BY <1>16 DEF PostOpen, CallerGoto, workerVars
<1>17. ASSUME NEW c \in Callers, Assign(c) PROVE OpenInv'
  BY <1>17 DEF Assign, CallerGoto
<1>18. ASSUME DeleteStart PROVE OpenInv'
  BY <1>18 DEF DeleteStart, threadVars, callVars
<1>19. ASSUME Join PROVE OpenInv'
  BY <1>19 DEF Join, threadVars, callVars
<1>20. ASSUME FreePool PROVE OpenInv'
  BY <1>20 DEF FreePool, threadVars, callVars
<1>21. ASSUME UNCHANGED vars PROVE OpenInv'
  BY <1>21 DEF vars
<1> QED
  BY ZenonT(30), <1>1, <1>2, <1>3, <1>4, <1>5, <1>6, <1>7, <1>8, <1>9,
     <1>10, <1>11,
     <1>12, <1>13, <1>14, <1>15, <1>16, <1>17, <1>18, <1>19, <1>20, <1>21
  DEF Next, Worker, Caller, Deleted

(* What a slot holds. *)
LEMMA SlotStep ==
  ASSUME IInv, [Next]_vars
  PROVE  SlotInv'
<1> USE Domains DEF IInv, TypeOK, SlotInv, LockInv, BusyInv, ClaimInv,
   OfferInv, Busy, At, Claiming, Inside
<1>1. ASSUME NEW w \in Workers, LockSelf(w) PROVE SlotInv'
  BY <1>1 DEF LockSelf, WorkerGoto, callVars
<1>2. ASSUME NEW w \in Workers, TakeTask(w) PROVE SlotInv'
  BY <1>2 DEF TakeTask, WorkerGoto, callVars
<1>3. ASSUME NEW w \in Workers, ExitWorker(w) PROVE SlotInv'
  BY <1>3 DEF ExitWorker, WorkerGoto, callVars
<1>4. ASSUME NEW w \in Workers, Wait(w) PROVE SlotInv'
  BY <1>4 DEF Wait, WorkerGoto, callVars
<1>5. ASSUME NEW w \in Workers, Wake(w) PROVE SlotInv'
  BY <1>5 DEF Wake, WorkerGoto, callVars
<1>6. ASSUME NEW w \in Workers, TaskReturns(w) PROVE SlotInv'
  BY <1>6 DEF TaskReturns, WorkerGoto, callVars
<1>7. ASSUME NEW w \in Workers, LockPool(w) PROVE SlotInv'
  BY <1>7 DEF LockPool, WorkerGoto, callVars
<1>8. ASSUME NEW w \in Workers, ClearWorking(w) PROVE SlotInv'
  BY <1>8 DEF ClearWorking, WorkerGoto, callVars
<1>9. ASSUME NEW c \in Callers, NEW t \in Tasks, CallRun(c, t) PROVE SlotInv'
  BY <1>9 DEF CallRun, CallerGoto, workerVars
<1>10. ASSUME NEW c \in Callers, RunLock(c) PROVE SlotInv'
  BY <1>10 DEF RunLock, CallerGoto, workerVars
<1>11. ASSUME NEW c \in Callers, ScanRead(c) PROVE SlotInv'
  BY <1>11 DEF ScanRead, workerVars
<1>12. ASSUME NEW c \in Callers, ScanFail(c) PROVE SlotInv'
  BY <1>12 DEF ScanFail, CallerGoto, workerVars
<1>13. ASSUME NEW c \in Callers, ScanMark(c) PROVE SlotInv'
  BY <1>13 DEF ScanMark, CallerGoto, workerVars
<1>14. ASSUME NEW c \in Callers, ClaimLock(c) PROVE SlotInv'
  BY <1>14 DEF ClaimLock, CallerGoto, workerVars
<1>15. ASSUME NEW c \in Callers, PostQuit(c) PROVE SlotInv'
  BY <1>15 DEF PostQuit, CallerGoto, workerVars
<1>16. ASSUME NEW c \in Callers, PostOpen(c) PROVE SlotInv'
  BY <1>16 DEF PostOpen, CallerGoto, workerVars
<1>17. ASSUME NEW c \in Callers, Assign(c) PROVE SlotInv'
  BY <1>17 DEF Assign, CallerGoto
<1>18. ASSUME DeleteStart PROVE SlotInv'
  BY <1>18 DEF DeleteStart, threadVars, callVars
<1>19. ASSUME Join PROVE SlotInv'
  BY <1>19 DEF Join, threadVars, callVars
<1>20. ASSUME FreePool PROVE SlotInv'
  BY <1>20 DEF FreePool, threadVars, callVars
<1>21. ASSUME UNCHANGED vars PROVE SlotInv'
  BY <1>21 DEF vars
<1> QED
  BY ZenonT(30), <1>1, <1>2, <1>3, <1>4, <1>5, <1>6, <1>7, <1>8, <1>9,
     <1>10, <1>11,
     <1>12, <1>13, <1>14, <1>15, <1>16, <1>17, <1>18, <1>19, <1>20, <1>21
  DEF Next, Worker, Caller, Deleted

(* What a caller holds. *)
LEMMA OfferStep ==
  ASSUME IInv, [Next]_vars
  PROVE  OfferInv'
<1> USE Domains DEF IInv, TypeOK, OfferInv, SlotInv, LockInv
<1>1. ASSUME NEW w \in Workers, LockSelf(w) PROVE OfferInv'
  BY <1>1 DEF LockSelf, WorkerGoto, callVars
<1>2. ASSUME NEW w \in Workers, TakeTask(w) PROVE OfferInv'
  BY <1>2 DEF TakeTask, WorkerGoto, callVars
<1>3. ASSUME NEW w \in Workers, ExitWorker(w) PROVE OfferInv'
  BY <1>3 DEF ExitWorker, WorkerGoto, callVars
<1>4. ASSUME NEW w \in Workers, Wait(w) PROVE OfferInv'
  BY <1>4 DEF Wait, WorkerGoto, callVars
<1>5. ASSUME NEW w \in Workers, Wake(w) PROVE OfferInv'
  BY <1>5 DEF Wake, WorkerGoto, callVars
<1>6. ASSUME NEW w \in Workers, TaskReturns(w) PROVE OfferInv'
  BY <1>6 DEF TaskReturns, WorkerGoto, callVars
<1>7. ASSUME NEW w \in Workers, LockPool(w) PROVE OfferInv'
  BY <1>7 DEF LockPool, WorkerGoto, callVars
<1>8. ASSUME NEW w \in Workers, ClearWorking(w) PROVE OfferInv'
  BY <1>8 DEF ClearWorking, WorkerGoto, callVars
<1>9. ASSUME NEW c \in Callers, NEW t \in Tasks, CallRun(c, t) PROVE OfferInv'
  BY <1>9 DEF CallRun, CallerGoto, workerVars
<1>10. ASSUME NEW c \in Callers, RunLock(c) PROVE OfferInv'
  BY <1>10 DEF RunLock, CallerGoto, workerVars
<1>11. ASSUME NEW c \in Callers, ScanRead(c) PROVE OfferInv'
  BY <1>11 DEF ScanRead, workerVars
<1>12. ASSUME NEW c \in Callers, ScanFail(c) PROVE OfferInv'
  BY <1>12 DEF ScanFail, CallerGoto, workerVars
<1>13. ASSUME NEW c \in Callers, ScanMark(c) PROVE OfferInv'
  BY <1>13 DEF ScanMark, CallerGoto, workerVars
<1>14. ASSUME NEW c \in Callers, ClaimLock(c) PROVE OfferInv'
  BY <1>14 DEF ClaimLock, CallerGoto, workerVars
<1>15. ASSUME NEW c \in Callers, PostQuit(c) PROVE OfferInv'
  BY <1>15 DEF PostQuit, CallerGoto, workerVars
<1>16. ASSUME NEW c \in Callers, PostOpen(c) PROVE OfferInv'
  BY <1>16 DEF PostOpen, CallerGoto, workerVars
<1>17. ASSUME NEW c \in Callers, Assign(c) PROVE OfferInv'
  BY <1>17 DEF Assign, CallerGoto
<1>18. ASSUME DeleteStart PROVE OfferInv'
  BY <1>18 DEF DeleteStart, threadVars, callVars
<1>19. ASSUME Join PROVE OfferInv'
  BY <1>19 DEF Join, threadVars, callVars
<1>20. ASSUME FreePool PROVE OfferInv'
  BY <1>20 DEF FreePool, threadVars, callVars
<1>21. ASSUME UNCHANGED vars PROVE OfferInv'
  BY <1>21 DEF vars
<1> QED
  BY ZenonT(30), <1>1, <1>2, <1>3, <1>4, <1>5, <1>6, <1>7, <1>8, <1>9,
     <1>10, <1>11,
     <1>12, <1>13, <1>14, <1>15, <1>16, <1>17, <1>18, <1>19, <1>20, <1>21
  DEF Next, Worker, Caller, Deleted

(* No accepted task is lost. *)
LEMMA DropStep ==
  ASSUME IInv, [Next]_vars
  PROVE  AcceptedNotDropped'
<1> USE Domains DEF IInv, TypeOK, AcceptedNotDropped, SlotInv, LockInv,
   BusyInv, OfferInv, Inside, Claiming
<1>1. ASSUME NEW w \in Workers, LockSelf(w) PROVE AcceptedNotDropped'
  BY <1>1 DEF LockSelf, WorkerGoto, callVars
<1>2. ASSUME NEW w \in Workers, TakeTask(w) PROVE AcceptedNotDropped'
  BY <1>2 DEF TakeTask, WorkerGoto, callVars
<1>3. ASSUME NEW w \in Workers, ExitWorker(w) PROVE AcceptedNotDropped'
  BY <1>3 DEF ExitWorker, WorkerGoto, callVars
<1>4. ASSUME NEW w \in Workers, Wait(w) PROVE AcceptedNotDropped'
  BY <1>4 DEF Wait, WorkerGoto, callVars
<1>5. ASSUME NEW w \in Workers, Wake(w) PROVE AcceptedNotDropped'
  BY <1>5 DEF Wake, WorkerGoto, callVars
<1>6. ASSUME NEW w \in Workers, TaskReturns(w) PROVE AcceptedNotDropped'
  BY <1>6 DEF TaskReturns, WorkerGoto, callVars
<1>7. ASSUME NEW w \in Workers, LockPool(w) PROVE AcceptedNotDropped'
  BY <1>7 DEF LockPool, WorkerGoto, callVars
<1>8. ASSUME NEW w \in Workers, ClearWorking(w) PROVE AcceptedNotDropped'
  BY <1>8 DEF ClearWorking, WorkerGoto, callVars
<1>9. ASSUME NEW c \in Callers, NEW t \in Tasks, CallRun(c, t) PROVE AcceptedNotDropped'
  BY <1>9 DEF CallRun, CallerGoto, workerVars
<1>10. ASSUME NEW c \in Callers, RunLock(c) PROVE AcceptedNotDropped'
  BY <1>10 DEF RunLock, CallerGoto, workerVars
<1>11. ASSUME NEW c \in Callers, ScanRead(c) PROVE AcceptedNotDropped'
  BY <1>11 DEF ScanRead, workerVars
<1>12. ASSUME NEW c \in Callers, ScanFail(c) PROVE AcceptedNotDropped'
  BY <1>12 DEF ScanFail, CallerGoto, workerVars
<1>13. ASSUME NEW c \in Callers, ScanMark(c) PROVE AcceptedNotDropped'
  BY SMTT(30), <1>13 DEF ScanMark, CallerGoto, workerVars
<1>14. ASSUME NEW c \in Callers, ClaimLock(c) PROVE AcceptedNotDropped'
  BY SMTT(30), <1>14 DEF ClaimLock, CallerGoto, workerVars
<1>15. ASSUME NEW c \in Callers, PostQuit(c) PROVE AcceptedNotDropped'
  <2>1. \A t \in Tasks : fate'[t] = "accepted" => fate[t] = "accepted"
    BY SMTT(30), <1>15 DEF PostQuit, CallerGoto, workerVars
  <2> QED BY SMTT(30), <1>15, <2>1 DEF PostQuit, CallerGoto, workerVars
<1>16. ASSUME NEW c \in Callers, PostOpen(c) PROVE AcceptedNotDropped'
  BY SMTT(30), <1>16 DEF PostOpen, CallerGoto, workerVars
<1>17. ASSUME NEW c \in Callers, Assign(c) PROVE AcceptedNotDropped'
  <2>1. ASSUME NEW t \in Tasks, fate'[t] = "accepted", t # carg[c]
        PROVE  \E w \in Workers : task_fn'[w] = t /\ wpc'[w] # "exited"
    <3>1. PICK w \in Workers : task_fn[w] = t /\ wpc[w] # "exited"
      BY <1>17, <2>1 DEF Assign, CallerGoto
    <3>2. w # cidx[c]
      BY SMTT(30), <1>17, <3>1 DEF Assign, CallerGoto, At, Busy
    <3> QED BY SMTT(30), <1>17, <3>1, <3>2 DEF Assign, CallerGoto
  <2>2. task_fn'[cidx[c]] = carg[c] /\ wpc'[cidx[c]] # "exited"
    BY SMTT(30), <1>17 DEF Assign, CallerGoto
  <2> QED BY SMTT(30), <1>17, <2>1, <2>2 DEF Assign, CallerGoto
<1>18. ASSUME DeleteStart PROVE AcceptedNotDropped'
  BY <1>18 DEF DeleteStart, threadVars, callVars
<1>19. ASSUME Join PROVE AcceptedNotDropped'
  BY <1>19 DEF Join, threadVars, callVars
<1>20. ASSUME FreePool PROVE AcceptedNotDropped'
  BY SMTT(30), <1>20 DEF FreePool, threadVars, callVars
<1>21. ASSUME UNCHANGED vars PROVE AcceptedNotDropped'
  BY <1>21 DEF vars
<1> QED
  BY ZenonT(30), <1>1, <1>2, <1>3, <1>4, <1>5, <1>6, <1>7, <1>8, <1>9,
     <1>10, <1>11,
     <1>12, <1>13, <1>14, <1>15, <1>16, <1>17, <1>18, <1>19, <1>20, <1>21
  DEF Next, Worker, Caller, Deleted

-----------------------------------------------------------------------------
(* Type correctness of the pool: in every state the locks are held by      *)
(* threads of the model, the scan index of thread_pool_run stays within    *)
(* worker_num, and slots hold tasks.                                       *)
THEOREM TypeCorrect == Spec => []TypeOK
<1>1. Init => TypeOK
  BY InitType
<1>2. TypeOK /\ [Next]_vars => TypeOK'
  BY TypeStep
<1> QED BY <1>1, <1>2, PTL DEF Spec

(* The strengthening the safety theorems rest on is inductive. *)
THEOREM Inductive == Spec => []IInv
<1>1. Init => IInv
  <2> SUFFICES ASSUME Init PROVE IInv
    OBVIOUS
  <2> USE Domains DEF Init
  <2>1. TypeOK
    BY ZenonT(30), InitType
  <2>2. LockInv
    BY DEF LockInv, Inside, Claiming
  <2>3. BusyInv /\ ClaimInv
    BY DEF BusyInv, ClaimInv, Busy, At, Claiming
  <2>4. OpenInv
    BY DEF OpenInv, Claimed
  <2>5. SlotInv /\ OfferInv /\ AcceptedNotDropped
    BY DEF SlotInv, OfferInv, AcceptedNotDropped
  <2> QED BY <2>1, <2>2, <2>3, <2>4, <2>5 DEF IInv
<1>2. IInv /\ [Next]_vars => IInv'
  <2> SUFFICES ASSUME IInv, [Next]_vars PROVE IInv'
    OBVIOUS
  <2>1. TypeOK'
    BY TypeStep DEF IInv
  <2>2. LockInv' /\ BusyInv' /\ ClaimInv' /\ OpenInv'
    BY LockStep, BusyStep, ClaimStep, OpenStep
  <2>3. SlotInv' /\ OfferInv' /\ AcceptedNotDropped'
    BY SlotStep, OfferStep, DropStep
  <2> QED BY <2>1, <2>2, <2>3 DEF IInv
<1> QED BY <1>1, <1>2, PTL DEF Spec

(* thread_pool_run never blocks on the lock of a worker that is running a  *)
(* task or has yet to clear its is_working flag, for any number of workers *)
(* and callers and whether or not the pool is being deleted.               *)
THEOREM CallersNeverWaitForTasks == Spec => []NeverWaitsForTask
<1>1. IInv => NeverWaitsForTask
  BY DEF IInv, LockInv, BusyInv, Busy, At, Claiming, NeverWaitsForTask
<1> QED BY <1>1, Inductive, PTL

(* A task thread_pool_run has accepted stays in the slot of a live worker  *)
(* until it runs: delete_thread_pool drops no work.                        *)
THEOREM ShutdownDropsNothing == Spec => []AcceptedNotDropped
<1>1. IInv => AcceptedNotDropped
  BY DEF IInv
<1> QED BY <1>1, Inductive, PTL

(* Before shutdown thread_pool_run returns -1 only if at that very moment  *)
(* all workers are marked working.                                         *)
THEOREM RefusalsAreTrue == Spec => RefusedOnlyWhenFull
<1> DEFINE Truthful ==
      \A t \in Tasks : fate[t] = "offered" /\ fate'[t] = "refused"
        => quit \/ \A w \in Workers : is_working[w]
<1>1. IInv /\ [Next]_vars => [Truthful]_vars
  <2> SUFFICES ASSUME IInv, Next PROVE Truthful
    BY ZenonT(30)
  <2> USE Domains DEF IInv, TypeOK
  <2>1. ASSUME NEW w \in Workers, Worker(w) PROVE Truthful
    BY SMTT(30), <2>1 DEF Worker, LockSelf, TakeTask, ExitWorker, Wait, Wake,
       TaskReturns, LockPool, ClearWorking
  <2>2. ASSUME NEW c \in Callers, NEW t \in Tasks, CallRun(c, t)
        PROVE  Truthful
    BY SMTT(30), <2>2 DEF CallRun
  <2>3. ASSUME NEW c \in Callers, ScanFail(c) PROVE Truthful
    BY SMTT(30), <2>3 DEF ScanFail, CallerGoto, OpenInv
  <2>4. ASSUME NEW c \in Callers, PostQuit(c) PROVE Truthful
    BY SMTT(30), <2>4 DEF PostQuit
  <2>5. ASSUME NEW c \in Callers, Assign(c) PROVE Truthful
    BY <2>5 DEF Assign
  <2>6. ASSUME NEW c \in Callers,
               RunLock(c) \/ ScanRead(c) \/ ScanMark(c) \/ ClaimLock(c)
                 \/ PostOpen(c)
        PROVE  Truthful
    BY ZenonT(30), <2>6 DEF RunLock, ScanRead, ScanMark, ClaimLock, PostOpen
  <2>7. CASE DeleteStart \/ Join \/ FreePool \/ Deleted
    BY <2>7 DEF DeleteStart, Join, FreePool, Deleted, threadVars, vars
  <2> QED
    BY ZenonT(30), <2>1, <2>2, <2>3, <2>4, <2>5, <2>6, <2>7 DEF Next, Caller
<1> QED BY <1>1, Inductive, PTL DEF Spec, RefusedOnlyWhenFull

-----------------------------------------------------------------------------
(* The pool implements TaskService: every step of the pool is one step of  *)
(* the service or none at all, so each task is refused and never runs or   *)
(* is accepted into an empty slot and runs exactly once.                   *)
THEOREM PoolImplementsService == Spec => Service
<1>1. Init => TS!Init
  BY DEF Init, TS!Init
<1>2. IInv /\ [Next]_vars => [TS!Next]_(TS!vars)
  <2> SUFFICES ASSUME IInv, [Next]_vars PROVE [TS!Next]_(TS!vars)
    OBVIOUS
  <2> USE Domains DEF IInv, TypeOK
  <2>1. ASSUME NEW w \in Workers, TakeTask(w) PROVE TS!Next
    <3>1. task_fn[w] \in Tasks /\ TS!Start(task_fn[w], w)
      BY SMTT(30), <2>1 DEF TakeTask, WorkerGoto, SlotInv, TS!Start
    <3> QED BY ZenonT(30), <3>1 DEF TS!Next
  <2>2. ASSUME NEW w \in Workers, TaskReturns(w) PROVE TS!Next
    <3>1. task_fn[w] \in Tasks /\ TS!Finish(task_fn[w], w)
      BY SMTT(30), <2>2 DEF TaskReturns, WorkerGoto, SlotInv, TS!Finish
    <3> QED BY <3>1 DEF TS!Next
  <2>3. ASSUME NEW w \in Workers,
               LockSelf(w) \/ ExitWorker(w) \/ Wait(w) \/ Wake(w)
                 \/ LockPool(w) \/ ClearWorking(w)
        PROVE  UNCHANGED TS!vars
    BY <2>3 DEF LockSelf, ExitWorker, Wait, Wake, LockPool, ClearWorking,
       TS!vars
  <2>4. ASSUME NEW c \in Callers, NEW t \in Tasks, CallRun(c, t)
        PROVE  TS!Next
    <3>1. TS!Offer(t)
      BY <2>4 DEF CallRun, workerVars, TS!Offer
    <3> QED BY ZenonT(30), <3>1 DEF TS!Next
  <2>5. ASSUME NEW c \in Callers, ScanFail(c) \/ PostQuit(c) PROVE TS!Next
    <3>1. carg[c] \in Tasks /\ TS!Refuse(carg[c])
      BY <2>5 DEF ScanFail, PostQuit, CallerGoto, workerVars, OfferInv,
         TS!Refuse
    <3> QED BY ZenonT(30), <3>1 DEF TS!Next
  <2>6. ASSUME NEW c \in Callers, Assign(c) PROVE TS!Next
    <3>1. cidx[c] \in Workers /\ task_fn[cidx[c]] = NoTask
      BY <2>6 DEF Assign, CallerGoto, LockInv, BusyInv, Busy, At, Claiming
    <3>2. carg[c] \in Tasks /\ TS!Accept(carg[c], cidx[c])
      BY ZenonT(30), <2>6, <3>1 DEF Assign, CallerGoto, OfferInv, TS!Accept
    <3> QED BY ZenonT(30), <3>1, <3>2 DEF TS!Next
  <2>7. ASSUME NEW c \in Callers,
               RunLock(c) \/ ScanRead(c) \/ ScanMark(c) \/ ClaimLock(c)
                 \/ PostOpen(c)
        PROVE  UNCHANGED TS!vars
    BY SMTT(30), <2>7 DEF RunLock, ScanRead, ScanMark, ClaimLock, PostOpen,
       workerVars,
       TS!vars
  <2>8. CASE DeleteStart \/ Join \/ FreePool \/ Deleted \/ UNCHANGED vars
    BY <2>8 DEF DeleteStart, Join, FreePool, Deleted, threadVars, vars, TS!vars
  <2> QED
    BY ZenonT(30), <2>1, <2>2, <2>3, <2>4, <2>5, <2>6, <2>7, <2>8 DEF Next,
       Worker, Caller
<1> QED BY <1>1, <1>2, Inductive, PTL DEF Spec, Service, TS!Spec

-----------------------------------------------------------------------------
(* What delete_thread_pool has freed, its thread has left. *)
JoinInv == \A w \in Workers : w < joined => wpc[w] = "exited"

(* pthread_join comes before free, and no worker returns from the dead:    *)
(* every worker delete_thread_pool has freed has left worker_thread_fn.    *)
LEMMA FreedHaveExited == Spec => []JoinInv
<1>1. Init => JoinInv
  BY Domains DEF Init, JoinInv
<1>2. TypeOK /\ JoinInv /\ [Next]_vars => JoinInv'
  <2> SUFFICES ASSUME TypeOK, JoinInv, [Next]_vars PROVE JoinInv'
    OBVIOUS
  <2>1. ASSUME NEW w \in Workers, Worker(w) PROVE JoinInv'
    <3>1. UNCHANGED joined
      BY SMTT(30), <2>1 DEF Worker, LockSelf, TakeTask, ExitWorker, Wait, Wake,
         TaskReturns, LockPool, ClearWorking
    <3>2. wpc[w] # "exited" /\ \E to : wpc' = [wpc EXCEPT ![w] = to]
      BY <2>1 DEF Worker, LockSelf, TakeTask, ExitWorker, Wait, Wake,
         TaskReturns, LockPool, ClearWorking, WorkerGoto
    <3>3. \A v \in Workers : wpc[v] = "exited" => wpc'[v] = "exited"
      BY <3>2 DEF TypeOK
    <3> QED BY <3>1, <3>3 DEF JoinInv
  <2>2. ASSUME NEW c \in Callers, Caller(c) PROVE JoinInv'
    <3>1. UNCHANGED <<joined, wpc>>
      BY <2>2 DEF Caller, RunLock, ScanRead, ScanFail, ScanMark, ClaimLock,
         PostQuit, PostOpen, Assign, workerVars
    <3> QED BY <3>1 DEF JoinInv
  <2>3. ASSUME NEW c \in Callers, NEW t \in Tasks, CallRun(c, t)
        PROVE  JoinInv'
    BY <2>3 DEF CallRun, workerVars, JoinInv
  <2>4. CASE DeleteStart \/ Deleted \/ UNCHANGED vars
    BY <2>4 DEF DeleteStart, Deleted, threadVars, vars, JoinInv
  <2>5. CASE Join
    <3>1. joined' = joined + 1 /\ wpc' = wpc /\ wpc[joined] = "exited"
      BY <2>5 DEF Join, threadVars
    <3>2. \A w \in Workers : w < joined + 1 => w < joined \/ w = joined
      BY SMTT(30), Domains DEF TypeOK
    <3> QED BY <3>1, <3>2 DEF JoinInv
  <2>6. CASE FreePool
    <3>1. joined = NumWorkers /\ wpc' = wpc
      BY <2>6 DEF FreePool, threadVars
    <3>2. \A w \in Workers : w < joined
      BY <3>1, Domains
    <3> QED BY <3>1, <3>2 DEF JoinInv
  <2> QED
    BY ZenonT(30), <2>1, <2>2, <2>3, <2>4, <2>5, <2>6 DEF Next
<1> QED BY <1>1, <1>2, TypeCorrect, PTL DEF Spec

(* delete_thread_pool frees no worker whose lock a caller holds and none   *)
(* whose task is inside thread_pool_run, for any number of workers and     *)
(* callers and however the two race: an exited worker keeps its own lock   *)
(* for ever, so nobody else can hold it.                                   *)
THEOREM HeldWorkersStay == Spec => []HeldNotFreed
<1>1. IInv /\ JoinInv => HeldNotFreed
  <2> SUFFICES ASSUME IInv, JoinInv PROVE HeldNotFreed
    OBVIOUS
  <2>1. joined \in Nat /\ \A w \in Workers : w \in Nat
    BY Domains DEF IInv, TypeOK
  <2>2. ASSUME NEW c \in Callers, cpc[c] \in {"post", "assign"}
        PROVE  cidx[c] >= joined
    <3>1. cidx[c] \in Workers /\ cidx[c] # c /\ workerLock[cidx[c]] = c
      BY <2>2 DEF IInv, LockInv, Claiming
    <3>2. wpc[cidx[c]] # "exited"
      BY <3>1 DEF IInv, LockInv, Inside
    <3> QED BY <2>1, <3>1, <3>2 DEF JoinInv
  <2>3. ASSUME NEW w \in Workers, cpc[w] # "idle" PROVE w >= joined
    <3>1. wpc[w] # "exited"
      BY <2>3 DEF IInv, LockInv
    <3> QED BY <2>1, <3>1 DEF JoinInv
  <2> QED BY <2>2, <2>3 DEF HeldNotFreed
<1> QED BY <1>1, Inductive, FreedHaveExited, PTL
=============================================================================
