------------------------------ MODULE PlainFile ------------------------------
(***************************************************************************)
(* What the files of a ply promise to the thread that uses them: entries   *)
(* come back in the order they were appended, all of them before the end   *)
(* is reported, and with the changes made to them in an earlier pass.      *)
(* Entry k is k at first, and -k once it was updated.                      *)
(***************************************************************************)
EXTENDS Integers, Sequences

VARIABLES content,  \* the entries
          next,     \* how many of them this pass has handed out
          mode      \* "write", "open", "ended" or "closed"

Init == content = <<>> /\ next = 0 /\ mode = "write"

AppendEntry == /\ mode = "write"
               /\ content' = Append(content, Len(content) + 1)
               /\ UNCHANGED <<next, mode>>

Close == /\ mode # "closed" /\ mode' = "closed"
         /\ next' = 0
         /\ UNCHANGED content

Open == /\ mode = "closed" /\ mode' = "open"
        /\ UNCHANGED <<content, next>>

NextEntry == /\ mode = "open" /\ next < Len(content)
             /\ next' = next + 1
             /\ UNCHANGED <<content, mode>>

Update == /\ mode = "open" /\ next > 0
          /\ content' = [content EXCEPT ![next] = -next]
          /\ UNCHANGED <<next, mode>>

End == /\ mode = "open" /\ next = Len(content)
       /\ mode' = "ended"
       /\ UNCHANGED <<content, next>>

Next == AppendEntry \/ Close \/ Open \/ NextEntry \/ Update \/ End

Spec == Init /\ [][Next]_<<content, next, mode>>
=============================================================================
