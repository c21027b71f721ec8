--------------------------- MODULE MCDescriptors ---------------------------
EXTENDS Descriptors, TLC

(* Nothing tells threads, handles, numbers or sockets apart.               *)
Symmetry ==
  Permutations(Threads) \cup Permutations(Fds) \cup
  Permutations(Handles) \cup Permutations(Sockets)
=============================================================================
