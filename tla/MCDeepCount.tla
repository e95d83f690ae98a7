------------------------------ MODULE MCDeepCount ------------------------------
(* Small position files, cut the way brdDbCountSetup cuts them.            *)
EXTENDS DeepCount, TLC

(* 7 positions in two parts.                                               *)
FirstOfTwo == <<0, 4>>
NumOfTwo == <<4, 3>>

(* One half of 6 positions: the first part of the split.                   *)
FirstHalf == 1 :> 0
HalfNum == 1 :> 3
=============================================================================
