---------------------------- MODULE BlockService ----------------------------
(***************************************************************************)
(* What a disk promises its driver: a request takes effect on the disk at  *)
(* one moment between its submission and its answer, at most once, and the *)
(* answer says what happened.  Requests in flight together may take effect *)
(* in any order.  Every write writes its own request as the data, so a     *)
(* read tells which write it saw.  VirtioBlk implements this specification *)
(* (VirtioBlk!DiskService).                                                *)
(***************************************************************************)
CONSTANTS
  Requests,  \* request identities; a write stores its own identity
  Blank      \* the initial contents of the sector

VARIABLES
  disk,      \* contents of the sector all requests are about
  kind,      \* kind[r]: "none", "in" (read), "out" (write) or another type
  phase,     \* phase[r]: how far request r has come
  xfer,      \* xfer[r]: the data its I/O moved
  answer     \* answer[r]: what the driver was told

svcVars == <<disk, kind, phase, xfer, answer>>

NoAnswer == [status |-> "none", data |-> Blank]

Init ==
  /\ disk = Blank
  /\ kind = [r \in Requests |-> "none"]
  /\ phase = [r \in Requests |-> "new"]
  /\ xfer = [r \in Requests |-> Blank]
  /\ answer = [r \in Requests |-> NoAnswer]

Step(r, from, to) == phase[r] = from /\ phase' = [phase EXCEPT ![r] = to]

Submit(r) ==
  /\ Step(r, "new", "submitted")
  /\ \E k \in {"in", "out", "other"} : kind' = [kind EXCEPT ![r] = k]
  /\ UNCHANGED <<disk, xfer, answer>>

Read(r) ==
  /\ kind[r] = "in"
  /\ Step(r, "submitted", "performed")
  /\ xfer' = [xfer EXCEPT ![r] = disk]
  /\ UNCHANGED <<disk, kind, answer>>

Write(r) ==
  /\ kind[r] = "out"
  /\ Step(r, "submitted", "performed")
  /\ disk' = r
  /\ xfer' = [xfer EXCEPT ![r] = r]
  /\ UNCHANGED <<kind, answer>>

(* A failed write may or may not have reached the sector. *)
Fail(r) ==
  /\ kind[r] \in {"in", "out"}
  /\ Step(r, "submitted", "failed")
  /\ disk' = disk \/ (kind[r] = "out" /\ disk' = r)
  /\ UNCHANGED <<kind, xfer, answer>>

Succeed(r) ==
  /\ Step(r, "performed", "answered")
  /\ answer' = [answer EXCEPT ![r] = [status |-> "OK", data |-> xfer[r]]]
  /\ UNCHANGED <<disk, kind, xfer>>

Report(r) ==
  /\ Step(r, "failed", "answered")
  /\ \E d \in Requests \cup {Blank} :
       answer' = [answer EXCEPT ![r] = [status |-> "IOERR", data |-> d]]
  /\ UNCHANGED <<disk, kind, xfer>>

Next ==
  \E r \in Requests :
    Submit(r) \/ Read(r) \/ Write(r) \/ Fail(r) \/ Succeed(r) \/ Report(r)

Spec == Init /\ [][Next]_svcVars
=============================================================================
