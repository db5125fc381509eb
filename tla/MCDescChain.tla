----------------------------- MODULE MCDescChain -----------------------------
(* Buffers for TLC: one across a page boundary, one across the end of       *)
(* guest memory, and one a page beyond it.                                  *)
EXTENDS DescChain

MCBase == <<3, 7, 12>>
=============================================================================
