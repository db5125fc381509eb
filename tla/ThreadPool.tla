----------------------------- MODULE ThreadPool -----------------------------
(***************************************************************************)
(* The worker pool that carries disk I/O (threadpool.c): its workers, the  *)
(* callers of thread_pool_run and the thread in delete_thread_pool.        *)
(*                                                                         *)
(* One step is one lock acquisition, or what a thread does from there to   *)
(* its next lock operation; the unprotected accesses (pool->quit, and the  *)
(* scan of is_working once line 16 has broken the pool lock) are steps of  *)
(* their own.  A caller is a thread outside the pool or a worker whose     *)
(* task calls thread_pool_run, as the completion of a disk request does.   *)
(***************************************************************************)
EXTENDS Naturals

CONSTANTS
  NumWorkers,  \* worker_num
  Submitters,  \* threads outside the pool that call thread_pool_run
  Tasks,       \* task identities, each offered at most once
  NoTask,      \* task_fn == NULL
  Free,        \* a mutex nobody holds
  LateCalls    \* may thread_pool_run race with, or follow, delete_thread_pool?

Workers == 0 .. NumWorkers - 1
Callers == Submitters \cup Workers

ASSUME PoolAssumption ==
  /\ NumWorkers \in Nat \ {0}
  /\ Submitters \cap Workers = {}
  /\ NoTask \notin Tasks
  /\ Free \notin Callers
  /\ LateCalls \in BOOLEAN

VARIABLES
  is_working,  \* pool->is_working
  task_fn,     \* worker->task_fn and worker->arg
  poolLock,    \* holder of pool->lock
  workerLock,  \* holder of worker->lock
  quit,        \* pool->quit
  joined,      \* workers joined and freed so far; NumWorkers + 1: all freed
  wpc,         \* where each worker is in worker_thread_fn
  cpc,         \* where each caller is in thread_pool_run
  cidx,        \* its loop index i
  carg,        \* the task it was given
  fate         \* history: how far each task has come (see TaskService)

vars == <<is_working, task_fn, poolLock, workerLock, quit, joined,
          wpc, cpc, cidx, carg, fate>>

Fates == {"new", "offered", "refused", "accepted", "started", "done"}
WorkerPcs == {"start", "check", "waiting", "running", "returned", "clearing",
              "exited"}
CallerPcs == {"idle", "lock", "scan", "mark", "claim", "post", "assign"}

TypeOK ==
  /\ is_working \in [Workers -> BOOLEAN]
  /\ task_fn \in [Workers -> Tasks \cup {NoTask}]
  /\ poolLock \in Callers \cup {Free}
  /\ workerLock \in [Workers -> Callers \cup {Free}]
  /\ quit \in BOOLEAN
  /\ joined \in 0 .. NumWorkers + 1
  /\ wpc \in [Workers -> WorkerPcs]
  /\ cpc \in [Callers -> CallerPcs]
  /\ cidx \in [Callers -> 0 .. NumWorkers]
  /\ carg \in [Callers -> Tasks \cup {NoTask}]
  /\ fate \in [Tasks -> Fates]

(* new_thread_pool: every worker is created idle and not yet scheduled. *)
Init ==
  /\ is_working = [w \in Workers |-> FALSE]
  /\ task_fn = [w \in Workers |-> NoTask]
  /\ poolLock = Free
  /\ workerLock = [w \in Workers |-> Free]
  /\ quit = FALSE
  /\ joined = 0
  /\ wpc = [w \in Workers |-> "start"]
  /\ cpc = [c \in Callers |-> "idle"]
  /\ cidx = [c \in Callers |-> 0]
  /\ carg = [c \in Callers |-> NoTask]
  /\ fate = [t \in Tasks |-> "new"]

-----------------------------------------------------------------------------
(* worker_thread_fn *)

WorkerGoto(w, from, to) == wpc[w] = from /\ wpc' = [wpc EXCEPT ![w] = to]

callVars == <<cpc, cidx, carg>>

LockSelf(w) ==
  /\ WorkerGoto(w, "start", "check")
  /\ workerLock[w] = Free
  /\ workerLock' = [workerLock EXCEPT ![w] = w]
  /\ UNCHANGED <<is_working, task_fn, poolLock, quit, joined, callVars, fate>>

(* The inner loop ends: the worker calls its task, its own lock held. *)
TakeTaskFreeEarly(w) ==
  /\ WorkerGoto(w, "check", "running")
  /\ task_fn[w] # NoTask
  /\ fate' = [fate EXCEPT ![task_fn[w]] = "started"]
  /\ is_working' = [is_working EXCEPT ![w] = FALSE]
  /\ UNCHANGED <<task_fn, poolLock, workerLock, quit, joined, callVars>>

TakeTask(w) ==
  /\ WorkerGoto(w, "check", "running")
  /\ task_fn[w] # NoTask
  /\ fate' = [fate EXCEPT ![task_fn[w]] = "started"]
  /\ UNCHANGED <<is_working, task_fn, poolLock, workerLock, quit, joined,
                 callVars>>

(* Shutdown.  Line 16 unlocks the POOL lock, which this thread does not    *)
(* hold, and leaves its own lock held for ever.  Unlocking a plain glibc   *)
(* mutex frees it whoever holds it.                                        *)
ExitWorkerBusy(w) ==
  /\ WorkerGoto(w, "check", "exited")
  /\ quit
  /\ poolLock' = Free
  /\ UNCHANGED <<is_working, task_fn, workerLock, quit, joined, callVars, fate>>

ExitWorkerUnlocks(w) ==
  /\ WorkerGoto(w, "check", "exited")
  /\ task_fn[w] = NoTask
  /\ quit
  /\ workerLock' = [workerLock EXCEPT ![w] = Free]
  /\ UNCHANGED <<is_working, task_fn, poolLock, quit, joined, callVars, fate>>

ExitWorker(w) ==
  /\ WorkerGoto(w, "check", "exited")
  /\ task_fn[w] = NoTask
  /\ quit
  /\ poolLock' = Free
  /\ UNCHANGED <<is_working, task_fn, workerLock, quit, joined, callVars, fate>>

(* pthread_cond_timedwait gives the worker lock up ...                     *)
Wait(w) ==
  /\ WorkerGoto(w, "check", "waiting")
  /\ task_fn[w] = NoTask
  /\ ~quit
  /\ workerLock' = [workerLock EXCEPT ![w] = Free]
  /\ UNCHANGED <<is_working, task_fn, poolLock, quit, joined, callVars, fate>>

(* ... and takes it back after a signal, 0.3 ms, or for no reason at all.  *)
WakeOnSignalOnly(w) ==
  /\ WorkerGoto(w, "waiting", "check")
  /\ workerLock[w] = Free
  /\ task_fn[w] # NoTask
  /\ workerLock' = [workerLock EXCEPT ![w] = w]
  /\ UNCHANGED <<is_working, task_fn, poolLock, quit, joined, callVars, fate>>

Wake(w) ==
  /\ WorkerGoto(w, "waiting", "check")
  /\ workerLock[w] = Free
  /\ workerLock' = [workerLock EXCEPT ![w] = w]
  /\ UNCHANGED <<is_working, task_fn, poolLock, quit, joined, callVars, fate>>

(* The task returns, all its own calls of thread_pool_run finished. *)
TaskReturnsKeepsTask(w) ==
  /\ WorkerGoto(w, "running", "returned")
  /\ cpc[w] = "idle"
  /\ fate' = [fate EXCEPT ![task_fn[w]] = "done"]
  /\ UNCHANGED <<is_working, task_fn, poolLock, workerLock, quit, joined,
                 callVars>>

TaskReturns(w) ==
  /\ WorkerGoto(w, "running", "returned")
  /\ cpc[w] = "idle"
  /\ task_fn' = [task_fn EXCEPT ![w] = NoTask]
  /\ fate' = [fate EXCEPT ![task_fn[w]] = "done"]
  /\ UNCHANGED <<is_working, poolLock, workerLock, quit, joined, callVars>>

LockPool(w) ==
  /\ WorkerGoto(w, "returned", "clearing")
  /\ poolLock = Free
  /\ poolLock' = w
  /\ UNCHANGED <<is_working, task_fn, workerLock, quit, joined, callVars, fate>>

ClearWorking(w) ==
  /\ WorkerGoto(w, "clearing", "check")
  /\ is_working' = [is_working EXCEPT ![w] = FALSE]
  /\ poolLock' = Free
  /\ UNCHANGED <<task_fn, workerLock, quit, joined, callVars, fate>>

Worker(w) ==
  \/ LockSelf(w) \/ TakeTask(w) \/ ExitWorker(w) \/ Wait(w) \/ Wake(w)
  \/ TaskReturns(w) \/ LockPool(w) \/ ClearWorking(w)

-----------------------------------------------------------------------------
(* thread_pool_run *)

(* What the caller is about to touch has been freed by delete_thread_pool. *)
(* What it does then is undefined: it takes no further step here.          *)
Dangling(c) ==
  \/ cpc[c] # "idle" /\ joined = NumWorkers + 1
  \/ cpc[c] \in {"claim", "post", "assign"} /\ cidx[c] < joined

CallerGoto(c, from, to) ==
  /\ cpc[c] = from
  /\ ~Dangling(c)
  /\ cpc' = [cpc EXCEPT ![c] = to]

workerVars == <<task_fn, wpc, quit, joined>>

CallRun(c, t) ==
  /\ CallerGoto(c, "idle", "lock")
  /\ c \in Workers => wpc[c] = "running"
  /\ quit => LateCalls
  /\ fate[t] = "new"
  /\ fate' = [fate EXCEPT ![t] = "offered"]
  /\ carg' = [carg EXCEPT ![c] = t]
  /\ UNCHANGED <<is_working, poolLock, workerLock, workerVars, cidx>>

RunLock(c) ==
  /\ CallerGoto(c, "lock", "scan")
  /\ poolLock = Free
  /\ poolLock' = c
  /\ cidx' = [cidx EXCEPT ![c] = 0]
  /\ UNCHANGED <<is_working, workerLock, workerVars, carg, fate>>

(* One test of "if (!self->is_working[i])". *)
ScanReadPastEnd(c) ==
  /\ cpc[c] = "scan" /\ ~Dangling(c)
  /\ IF cidx[c] < NumWorkers /\ ~is_working[cidx[c]]
     THEN cpc' = [cpc EXCEPT ![c] = "mark"] /\ UNCHANGED cidx
     ELSE cidx' = [cidx EXCEPT ![c] = @ + 1] /\ UNCHANGED cpc
  /\ UNCHANGED <<is_working, poolLock, workerLock, workerVars, carg, fate>>

ScanRead(c) ==
  /\ cpc[c] = "scan" /\ ~Dangling(c)
  /\ cidx[c] < NumWorkers
  /\ IF is_working[cidx[c]]
     THEN cidx' = [cidx EXCEPT ![c] = @ + 1] /\ UNCHANGED cpc
     ELSE cpc' = [cpc EXCEPT ![c] = "mark"] /\ UNCHANGED cidx
  /\ UNCHANGED <<is_working, poolLock, workerLock, workerVars, carg, fate>>

(* return -1, everybody busy *)
ScanFailEarly(c) ==
  /\ CallerGoto(c, "scan", "idle")
  /\ cidx[c] >= NumWorkers - 1
  /\ poolLock' = Free
  /\ fate' = [fate EXCEPT ![carg[c]] = "refused"]
  /\ UNCHANGED <<is_working, workerLock, workerVars, cidx, carg>>

ScanFail(c) ==
  /\ CallerGoto(c, "scan", "idle")
  /\ cidx[c] = NumWorkers
  /\ poolLock' = Free
  /\ fate' = [fate EXCEPT ![carg[c]] = "refused"]
  /\ UNCHANGED <<is_working, workerLock, workerVars, cidx, carg>>

ScanMarkKeepsLock(c) ==
  /\ CallerGoto(c, "mark", "claim")
  /\ is_working' = [is_working EXCEPT ![cidx[c]] = TRUE]
  /\ UNCHANGED <<poolLock, workerLock, workerVars, cidx, carg, fate>>

ScanMark(c) ==
  /\ CallerGoto(c, "mark", "claim")
  /\ is_working' = [is_working EXCEPT ![cidx[c]] = TRUE]
  /\ poolLock' = Free
  /\ UNCHANGED <<workerLock, workerVars, cidx, carg, fate>>

ClaimLock(c) ==
  /\ CallerGoto(c, "claim", "post")
  /\ workerLock[cidx[c]] = Free
  /\ workerLock' = [workerLock EXCEPT ![cidx[c]] = c]
  /\ UNCHANGED <<is_working, poolLock, workerVars, cidx, carg, fate>>

(* "if (self->quit)": return -1, with is_working[i] left set *)
PostQuit(c) ==
  /\ CallerGoto(c, "post", "idle")
  /\ quit
  /\ workerLock' = [workerLock EXCEPT ![cidx[c]] = Free]
  /\ fate' = [fate EXCEPT ![carg[c]] = "refused"]
  /\ UNCHANGED <<is_working, poolLock, workerVars, cidx, carg>>

PostOpen(c) ==
  /\ CallerGoto(c, "post", "assign")
  /\ ~quit
  /\ UNCHANGED <<is_working, poolLock, workerLock, workerVars, cidx, carg, fate>>

(* hand over, signal, unlock, return 0 *)
Assign(c) ==
  /\ CallerGoto(c, "assign", "idle")
  /\ task_fn' = [task_fn EXCEPT ![cidx[c]] = carg[c]]
  /\ workerLock' = [workerLock EXCEPT ![cidx[c]] = Free]
  /\ fate' = [fate EXCEPT ![carg[c]] = "accepted"]
  /\ UNCHANGED <<is_working, poolLock, wpc, quit, joined, cidx, carg>>

Caller(c) ==
  \/ RunLock(c) \/ ScanRead(c) \/ ScanFail(c) \/ ScanMark(c) \/ ClaimLock(c)
  \/ PostQuit(c) \/ PostOpen(c) \/ Assign(c)

-----------------------------------------------------------------------------
(* delete_thread_pool *)

threadVars == <<is_working, task_fn, poolLock, workerLock, wpc, callVars, fate>>

DeleteStart ==
  /\ ~quit
  /\ LateCalls \/ \A c \in Callers : cpc[c] = "idle"
  /\ quit' = TRUE
  /\ UNCHANGED <<threadVars, joined>>

(* pthread_join and free, in the order of the array *)
Join ==
  /\ quit
  /\ joined < NumWorkers
  /\ wpc[joined] = "exited"
  /\ joined' = joined + 1
  /\ UNCHANGED <<threadVars, quit>>

FreePool ==
  /\ joined = NumWorkers
  /\ joined' = joined + 1
  /\ UNCHANGED <<threadVars, quit>>

Deleted == joined = NumWorkers + 1 /\ UNCHANGED vars

-----------------------------------------------------------------------------
Next ==
  \/ \E w \in Workers : Worker(w)
  \/ \E c \in Callers : Caller(c) \/ \E t \in Tasks : CallRun(c, t)
  \/ DeleteStart \/ Join \/ FreePool \/ Deleted

Spec == Init /\ [][Next]_vars

(* Every thread keeps running, a task (one pread or pwrite and its         *)
(* completion) returns, and delete_thread_pool, once called, goes on.      *)
(* A caller that waits for a worker's lock gets it: the worker sleeps      *)
(* 0.3 ms without it in every turn of its loop, so strong fairness.        *)
Fairness ==
  /\ \A w \in Workers : WF_vars(Worker(w))
  /\ \A c \in Callers : WF_vars(Caller(c)) /\ SF_vars(ClaimLock(c))
  /\ WF_vars(Join) /\ WF_vars(FreePool)

FairSpec == Spec /\ Fairness

-----------------------------------------------------------------------------
(* The pool does what TaskService promises: every task is refused and      *)
(* never runs, or is put into an empty slot and runs exactly once, also    *)
(* while delete_thread_pool races with thread_pool_run and workers unlock  *)
(* a pool lock that is not theirs.                                         *)
TS == INSTANCE TaskService WITH slot <- task_fn
Service == TS!Spec

(* Before shutdown, thread_pool_run returns -1 only when, at that moment,  *)
(* every worker is marked working: the scan sees one state of the flags.   *)
RefusedOnlyWhenFull ==
  [][\A t \in Tasks : fate[t] = "offered" /\ fate'[t] = "refused"
       => quit \/ \A w \in Workers : is_working[w]]_vars

(* A caller blocked on worker->lock is never waiting for a task to end.    *)
(* The caller holds the device lock and the task needs it, so this is what *)
(* keeps device and pool from deadlocking.                                 *)
NeverWaitsForTask ==
  \A c \in Callers : cpc[c] = "claim"
    => wpc[cidx[c]] \notin {"running", "returned", "clearing"}

(* An accepted task that has not run yet is in the slot of a worker that   *)
(* has not exited: shutdown drains the pool instead of dropping work.      *)
AcceptedNotDropped ==
  \A t \in Tasks : fate[t] = "accepted"
    => \E w \in Workers : task_fn[w] = t /\ wpc[w] # "exited"

(* Even when delete_thread_pool races with thread_pool_run, it never frees  *)
(* a worker whose lock a caller holds, nor one whose task is itself inside *)
(* thread_pool_run.  Nothing in delete_thread_pool looks at callers: what  *)
(* protects them is that a worker leaves worker_thread_fn only with its    *)
(* own lock held.  A caller still waiting for that lock has no such        *)
(* protection and can find the worker, or the pool, freed.                 *)
HeldNotFreed ==
  /\ \A c \in Callers : cpc[c] \in {"post", "assign"} => cidx[c] >= joined
  /\ \A w \in Workers : cpc[w] # "idle" => w >= joined

(* Every accepted task is run to its end, shutdown or not. *)
AcceptedRuns ==
  \A t \in Tasks : fate[t] = "accepted" ~> fate[t] = "done"

(* thread_pool_run always returns. *)
CallReturns == \A c \in Callers : cpc[c] # "idle" ~> cpc[c] = "idle"

(* delete_thread_pool always returns, although it signals no worker. *)
DeleteFinishes == quit ~> joined = NumWorkers + 1
=============================================================================
