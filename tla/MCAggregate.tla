------------------------------ MODULE MCAggregate ------------------------------
(***************************************************************************)
(* A database of four plies.  Two positions have no moves, two are reached *)
(* by two moves, and the first moves are not in the order of the sorted    *)
(* positions of ply 1.                                                     *)
(***************************************************************************)
EXTENDS Aggregate, Functions

MCSize == 0 :> 1 @@ 1 :> 2 @@ 2 :> 4 @@ 3 :> 3

MCNumMoves == 0 :> (0 :> 2) @@ 1 :> (0 :> 3 @@ 1 :> 2)
              @@ 2 :> (0 :> 2 @@ 1 :> 0 @@ 2 :> 3 @@ 3 :> 1)

MCMoveFile == 0 :> <<1, 0>> @@ 1 :> <<2, 0, 1, 3, 2>> @@ 2 :> <<0, 2, 1, 0, 2, 2>>

MCMoveStart == 0 :> (0 :> 0 @@ 1 :> 2) @@ 1 :> (0 :> 0 @@ 1 :> 3 @@ 2 :> 5)
               @@ 2 :> (0 :> 0 @@ 1 :> 2 @@ 2 :> 2 @@ 3 :> 5 @@ 4 :> 6)

MCLeaves == {0 :> 5 @@ 1 :> 2 @@ 2 :> 7, 0 :> 5 @@ 1 :> 2 @@ 2 :> 9}

(* Three positions in one part, in two, and in four: the last one is empty. *)
Part(from, num) == [from |-> from, num |-> num]
MCCuts == {<<Part(0, 3)>>, <<Part(0, 2), Part(2, 1)>>,
           <<Part(0, 1), Part(1, 1), Part(2, 1), Part(0, 0)>>}
=============================================================================
