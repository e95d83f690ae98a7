------------------------------ MODULE MCMsgQueue ------------------------------
(***************************************************************************)
(* A queue with several threads on each side, for TLC.  The threads of a   *)
(* side are not told apart by the code: TLC explores one of each set of    *)
(* states that differ in the names of threads only.                        *)
(***************************************************************************)
EXTENDS MsgQueue, TLC

Symmetry == Permutations(Senders) \cup Permutations(Receivers)
=============================================================================
