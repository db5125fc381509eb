---------------------------- MODULE TaskService ----------------------------
(***************************************************************************)
(* What the thread pool promises its callers, without locks, condition     *)
(* variables or scans: a task offered to the pool is either refused, and   *)
(* then never runs, or accepted by one worker that had room for it, and    *)
(* then runs exactly once before that worker takes another.                *)
(* ThreadPool implements this specification (ThreadPool!Service).          *)
(***************************************************************************)
CONSTANTS
  Workers,   \* the threads of the pool
  Tasks,     \* everything that may ever be offered, one offer each
  NoTask     \* an empty slot

VARIABLES
  slot,      \* slot[w]: the task worker w holds, NoTask when it has none
  fate       \* fate[t]: how far task t has come

vars == <<slot, fate>>

Fates == {"new", "offered", "refused", "accepted", "started", "done"}

Init ==
  /\ slot = [w \in Workers |-> NoTask]
  /\ fate = [t \in Tasks |-> "new"]

Offer(t) ==
  /\ fate[t] = "new"
  /\ fate' = [fate EXCEPT ![t] = "offered"]
  /\ UNCHANGED slot

Refuse(t) ==
  /\ fate[t] = "offered"
  /\ fate' = [fate EXCEPT ![t] = "refused"]
  /\ UNCHANGED slot

Accept(t, w) ==
  /\ fate[t] = "offered"
  /\ slot[w] = NoTask
  /\ slot' = [slot EXCEPT ![w] = t]
  /\ fate' = [fate EXCEPT ![t] = "accepted"]

Start(t, w) ==
  /\ slot[w] = t
  /\ fate[t] = "accepted"
  /\ fate' = [fate EXCEPT ![t] = "started"]
  /\ UNCHANGED slot

Finish(t, w) ==
  /\ slot[w] = t
  /\ fate[t] = "started"
  /\ slot' = [slot EXCEPT ![w] = NoTask]
  /\ fate' = [fate EXCEPT ![t] = "done"]

Next ==
  \E t \in Tasks :
    \/ Offer(t)
    \/ Refuse(t)
    \/ \E w \in Workers : Accept(t, w) \/ Start(t, w) \/ Finish(t, w)

Spec == Init /\ [][Next]_vars
=============================================================================
