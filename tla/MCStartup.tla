------------------------------ MODULE MCStartup ------------------------------
EXTENDS Startup

(* Around the boundaries: none, below the boot parameters, below the       *)
(* kernel, around 192 MB plus the initrd, around the reserved pages, around *)
(* the device windows, too large, and not a number with a suffix.          *)
MCMemArgs ==
  {[digits |-> d, suffix |-> ""] : d \in {0, 65536, 524288}}
  \cup {[digits |-> d, suffix |-> "K"] : d \in {140, 4194036, 4194040, 4194052, 4194056}}
  \cup {[digits |-> d, suffix |-> "M"] : d \in {1, 2, 256}}
  \cup {[digits |-> d, suffix |-> "G"] : d \in {1, 8, 1024, 1026, 2047, 4096}}
  \cup {[digits |-> 1, suffix |-> "x"]}
=============================================================================
