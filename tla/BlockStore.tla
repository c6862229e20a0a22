----------------------------- MODULE BlockStore -----------------------------
(***************************************************************************)
(* What bread(), bwrite() and brelse() promise their callers: an array of  *)
(* blocks, each in the hands of at most one process at a time.             *)
(***************************************************************************)
CONSTANTS Proc, Block, Val, InitVal

VARIABLES
  content,   \* the blocks
  view       \* the block a process holds and what it sees in it, <<>> for none

Init ==
  /\ content = [k \in Block |-> InitVal]
  /\ view = [p \in Proc |-> <<>>]

(* bread() returns the latest contents of a block nobody holds. *)
get(p, k) ==
  /\ view[p] = <<>>
  /\ \A q \in Proc : view[q] # <<>> => view[q][1] # k
  /\ view' = [view EXCEPT ![p] = <<k, content[k]>>]
  /\ UNCHANGED content

(* The holder changes the block. *)
put(p, v) ==
  /\ view[p] # <<>>
  /\ view' = [view EXCEPT ![p][2] = v]
  /\ content' = [content EXCEPT ![view[p][1]] = v]

(* brelse() *)
drop(p) ==
  /\ view[p] # <<>>
  /\ view' = [view EXCEPT ![p] = <<>>]
  /\ UNCHANGED content

Next == \E p \in Proc : drop(p) \/ (\E k \in Block : get(p, k)) \/ (\E v \in Val : put(p, v))

Spec == Init /\ [][Next]_<<content, view>>
=============================================================================
