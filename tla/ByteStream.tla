----------------------------- MODULE ByteStream -----------------------------
(***************************************************************************)
(* What a pipe promises: a bounded first-in first-out queue of bytes.      *)
(* Every byte that write() put in is delivered to one reader, in order.    *)
(***************************************************************************)
EXTENDS Integers, Sequences

CONSTANTS Proc, PipePage, PIPESIZE, Byte

VARIABLES
  open,     \* pipes that exist
  queue,    \* bytes written and not yet read
  ubuf      \* bytes each process has read

Init ==
  /\ open = {}
  /\ queue = [pi \in PipePage |-> <<>>]
  /\ ubuf = [p \in Proc |-> <<>>]

create(pi) ==
  /\ pi \notin open
  /\ open' = open \cup {pi}
  /\ UNCHANGED <<queue, ubuf>>

(* The last end is closed; bytes nobody read are lost with the pipe. *)
remove(pi) ==
  /\ pi \in open
  /\ open' = open \ {pi}
  /\ queue' = [queue EXCEPT ![pi] = <<>>]
  /\ UNCHANGED ubuf

put(pi, b) ==
  /\ pi \in open
  /\ Len(queue[pi]) < PIPESIZE
  /\ queue' = [queue EXCEPT ![pi] = Append(@, b)]
  /\ UNCHANGED <<open, ubuf>>

take(p, pi, k) ==
  /\ pi \in open
  /\ k <= Len(queue[pi])
  /\ ubuf' = [ubuf EXCEPT ![p] = @ \o SubSeq(queue[pi], 1, k)]
  /\ queue' = [queue EXCEPT ![pi] = SubSeq(@, k + 1, Len(@))]
  /\ UNCHANGED open

(* A new process starts with nothing read. *)
start(p) ==
  /\ ubuf' = [ubuf EXCEPT ![p] = <<>>]
  /\ UNCHANGED <<open, queue>>

Next ==
  \/ \E pi \in PipePage :
       \/ create(pi) \/ remove(pi)
       \/ \E b \in 0..Byte - 1 : put(pi, b)
       \/ \E p \in Proc, k \in 1..PIPESIZE : take(p, pi, k)
  \/ \E p \in Proc : start(p)

Spec == Init /\ [][Next]_<<open, queue, ubuf>>
=============================================================================
