------------------------------ MODULE LossyLink ------------------------------
(***************************************************************************)
(* What the network device promises in each direction, without rings or    *)
(* threads: packets may be lost at any point on their way, but those that  *)
(* arrive are the ones sent, unaltered, in order and at most once.         *)
(***************************************************************************)
EXTENDS Naturals, Sequences

CONSTANT Packets

VARIABLES
  offered,  \* packets put on the link so far, each once
  transit,  \* packets on their way, oldest first
  out       \* packets delivered

Init == offered = {} /\ transit = <<>> /\ out = <<>>

Send(p) ==
  /\ p \notin offered /\ offered' = offered \cup {p}
  /\ transit' = Append(transit, p) /\ UNCHANGED out

(* A run of packets is lost, the others stay in order. *)
Lose ==
  /\ \E i \in 1..Len(transit) : \E j \in i..Len(transit) :
       transit' = SubSeq(transit, 1, i - 1) \o SubSeq(transit, j + 1, Len(transit))
  /\ UNCHANGED <<offered, out>>

Deliver ==
  /\ transit # <<>>
  /\ out' = Append(out, Head(transit))
  /\ transit' = Tail(transit)
  /\ UNCHANGED offered

Next == (\E p \in Packets : Send(p)) \/ Lose \/ Deliver

Spec == Init /\ [][Next]_<<offered, transit, out>>
=============================================================================
