------------------------------ MODULE CountSetup ------------------------------
(***************************************************************************)
(* "mcperft count-setup <depth> [split]": mcperftCountSetup and            *)
(* brdDbCountSetup.  The positions of the last ply of the database are cut *)
(* into split parts, and a workload file written for each; what an earlier *)
(* set-up and its counts left in the two directories is erased first.  The *)
(* process may be killed at any point and run again with other arguments.  *)
(***************************************************************************)
EXTENDS Integers

CONSTANTS
  Positions,   \* positions in the last ply
  PlyDepth,    \* its number
  MaxParts,    \* MAX_SEARCH_WORKLOADS
  Depths,      \* the depths and splits a user asks for
  Splits

ASSUME SetupAssumption ==
  /\ Positions \in Nat
  /\ PlyDepth \in Nat
  /\ MaxParts \in Nat \ {0}
  /\ Depths \subseteq Nat
  /\ Splits \subseteq Nat

VARIABLES
  workloads,   \* workload_<n>: the headers of the files that are there
  results,     \* result_<n>: likewise
  main,        \* where brdDbCountSetup is
  depth, split,
  i, start,    \* the loop and start_workload_number
  exit         \* how the last set-up ended

args == <<depth, split>>
loop == <<i, start>>
vars == <<workloads, results, main, args, loop, exit>>

NoHeader == [depth |-> 0]             \* a file still empty
Nothing == [p \in {} |-> NoHeader]    \* no files

Init ==
  /\ workloads = Nothing /\ results = Nothing
  /\ main = "idle" /\ exit = "none"
  /\ depth = 0 /\ split = 0 /\ i = 0 /\ start = 0

Goto(from, to) == main = from /\ main' = to

Leave(why) ==
  /\ main' = "idle" /\ exit' = why
  /\ depth' = 0 /\ split' = 0 /\ i' = 0 /\ start' = 0

Without(files, gone) == [p \in DOMAIN files \ gone |-> files[p]]

-----------------------------------------------------------------------------
(* mcperftCountSetup lets these through.                                   *)
Supported(d, s) == d >= 1 /\ 1 <= s /\ s <= MaxParts

Call(d, s) ==
  /\ main = "idle"
  /\ \/ /\ Supported(d, s)
        /\ main' = "erase" /\ depth' = d /\ split' = s /\ exit' = "none"
        /\ UNCHANGED loop
     \/ ~Supported(d, s) /\ Leave("unsupported")
  /\ UNCHANGED <<workloads, results>>

EraseWorkloads ==
  /\ Goto("erase", "erase results")
  /\ workloads' = Nothing
  /\ UNCHANGED <<results, args, loop, exit>>

KeepResults ==
  /\ Goto("erase results", "check")
  /\ UNCHANGED <<workloads, results, args, loop, exit>>

EraseResults ==
  /\ Goto("erase results", "check")
  /\ results' = Nothing
  /\ UNCHANGED <<workloads, args, loop, exit>>

(* Only now is it seen that a shallow search cannot be split.              *)
CheckSplit ==
  /\ \/ main = "check" /\ depth <= PlyDepth /\ split > 1 /\ Leave("split")
     \/ /\ Goto("check", "open") /\ ~(depth <= PlyDepth /\ split > 1)
        /\ UNCHANGED <<args, loop, exit>>
  /\ UNCHANGED <<workloads, results>>

QuotaOneMore(d, s, k) ==
  IF d <= PlyDepth THEN 0
  ELSE Positions \div s + (IF k <= Positions % s THEN 1 ELSE 0)

(* The size of the k-th part, counted from 0.                              *)
Quota(d, s, k) ==
  IF d <= PlyDepth THEN 0
  ELSE Positions \div s + (IF k < Positions % s THEN 1 ELSE 0)

Header(d, s, k, from) ==
  LET num == Quota(d, s, k)
  IN  [depth |-> d, split |-> s, part |-> k + 1, num |-> num,
       start |-> IF num = 0 THEN 0 ELSE from,
       end   |-> IF num = 0 THEN 0 ELSE from + num - 1]

Put(files, p, h) == [q \in DOMAIN files \cup {p} |-> IF q = p THEN h ELSE files[q]]

(* The files are opened with O_APPEND and were all erased before.          *)
OpenWorkload ==
  /\ Goto("open", "write") /\ i < split
  /\ workloads' = Put(workloads, i + 1, NoHeader)
  /\ UNCHANGED <<results, args, loop, exit>>

WriteWorkloadFromZero ==
  /\ Goto("write", "open")
  /\ workloads' = Put(workloads, i + 1, Header(depth, split, i, start))
  /\ i' = i + 1 /\ start' = Quota(depth, split, i)
  /\ UNCHANGED <<results, args, exit>>

WriteWorkload ==
  /\ Goto("write", "open")
  /\ workloads' = Put(workloads, i + 1, Header(depth, split, i, start))
  /\ i' = i + 1 /\ start' = start + Quota(depth, split, i)
  /\ UNCHANGED <<results, args, exit>>

Finish ==
  /\ main = "open" /\ i >= split
  /\ Leave("ok")
  /\ UNCHANGED <<workloads, results>>

-----------------------------------------------------------------------------
(* A kill, which may interrupt "rm -rf" half-way.                          *)
Interrupt ==
  /\ main # "idle"
  /\ \/ UNCHANGED <<workloads, results>>
     \/ /\ main = "erase" /\ UNCHANGED results
        /\ \E gone \in SUBSET DOMAIN workloads : workloads' = Without(workloads, gone)
     \/ /\ main = "erase results" /\ UNCHANGED workloads
        /\ \E gone \in SUBSET DOMAIN results : results' = Without(results, gone)
  /\ Leave("killed")

(* Between set-ups the parts are counted: a results file has the header of *)
(* its workload file (module DeepCount).                                   *)
Count(p) ==
  /\ main = "idle"
  /\ p \in DOMAIN workloads \ DOMAIN results /\ workloads[p] # NoHeader
  /\ results' = Put(results, p, workloads[p])
  /\ UNCHANGED <<workloads, main, args, loop, exit>>

Next == \/ \E d \in Depths, s \in Splits : Call(d, s)
        \/ EraseWorkloads \/ EraseResults \/ CheckSplit
        \/ OpenWorkload \/ WriteWorkload \/ Finish
        \/ Interrupt
        \/ \E p \in 1..MaxParts : Count(p)

Spec == Init /\ [][Next]_vars

-----------------------------------------------------------------------------
Headers == [depth : Nat, split : Nat, part : 1..MaxParts, num : 0..Positions,
            start : 0..Positions, end : 0..Positions]

IsFiles(f) == /\ DOMAIN f \subseteq 1..MaxParts
              /\ f \in [DOMAIN f -> Headers \cup {NoHeader}]

TypeOK ==
  /\ IsFiles(workloads) /\ IsFiles(results)
  /\ main \in {"idle", "erase", "erase results", "check", "open", "write"}
  /\ depth \in Nat /\ split \in 0..MaxParts
  /\ i \in 0..MaxParts /\ start \in 0..Positions
  /\ exit \in {"none", "unsupported", "split", "ok", "killed"}

(* The positions a file stands for.                                        *)
Covers(h) == IF h = NoHeader \/ h.num = 0 THEN {} ELSE h.start..h.end

(* Whatever was interrupted before, the workload files that are there, and *)
(* the results next to them, belong to one set-up, and no position is in   *)
(* two parts: a position counted twice or for another depth would go       *)
(* unnoticed if the total happened to be right.                            *)
Agree(g, h) ==
  NoHeader \in {g, h} \/ (g.depth = h.depth /\ g.split = h.split)

OneSetup ==
  /\ \A p \in DOMAIN workloads : \A q \in DOMAIN workloads : Agree(workloads[p], workloads[q])
  /\ \A p \in DOMAIN results : \A q \in DOMAIN results : Agree(results[p], results[q])
  /\ \A p \in DOMAIN workloads : \A q \in DOMAIN results : Agree(workloads[p], results[q])

NoOverlap ==
  \A files \in {workloads, results} :
    \A p \in DOMAIN files : \A q \in DOMAIN files \ {p} :
      Covers(files[p]) \cap Covers(files[q]) = {}

(* A set-up that ends well has written every part: each position of the    *)
(* ply in some file if the search goes deeper than the database, and the   *)
(* sizes of the parts differ by at most one.                               *)
SetupIsComplete ==
  exit = "ok" => LET parts == DOMAIN workloads IN
    /\ \E s \in Splits : parts = 1..s
    /\ \A p \in parts : /\ workloads[p] # NoHeader
                        /\ \A q \in parts : workloads[p].num <= workloads[q].num + 1
    /\ workloads[1].depth > PlyDepth =>
         UNION {Covers(workloads[p]) : p \in parts} = 0..Positions - 1
=============================================================================
