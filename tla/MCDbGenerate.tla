----------------------------- MODULE MCDbGenerate -----------------------------
(* A game of three plies: 6 and 7 are reached by several moves, from one   *)
(* position and from several; 6 to 9 are mates.  The second ply fills four *)
(* blocks of positions and five of moves, merged in two streams.           *)
EXTENDS DbGenerate

MCMoves == [x \in 1..9 |->
  CASE x = 1 -> <<4, 2, 5, 3>>
    [] x = 2 -> <<8, 6>>
    [] x = 3 -> <<7, 6>>
    [] x = 4 -> <<6, 9, 6>>
    [] x = 5 -> <<6, 7>>
    [] OTHER -> <<>>]

MCKeys == 0..9
MCValues == 0..9
=============================================================================
