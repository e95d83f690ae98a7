----------------------------- MODULE PlyExpansion -----------------------------
(***************************************************************************)
(* What create-db promises: the database grows by one ply of the game tree *)
(* at a time.  A ply is the sorted sequence of its positions, each once,   *)
(* and, once it is expanded, the positions that the moves of each lead to. *)
(***************************************************************************)
EXTENDS Integers, SequencesExt

CONSTANTS Root, Moves, Depth

VARIABLES
  expanded,     \* the plies whose moves are known
  last          \* the positions of the last ply

Init == expanded = <<>> /\ last = <<Root>>

(* q is S, sorted, each element once.                                      *)
Lists(q, S) == ToSet(q) = S /\ \A i, j \in 1..Len(q) : i < j => q[i] < q[j]

Reached(positions) == UNION {ToSet(Moves[x]) : x \in ToSet(positions)}

Expand ==
  /\ Len(expanded) < Depth
  /\ last # <<>>
  /\ expanded' = Append(expanded,
       [i \in 1..Len(last) |-> [pos |-> last[i], moves |-> Moves[last[i]]]])
  /\ Lists(last', Reached(last))

Spec == Init /\ [][Expand]_<<expanded, last>>
=============================================================================
