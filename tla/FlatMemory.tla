----------------------------- MODULE FlatMemory -----------------------------
(***************************************************************************)
(* What user programs are promised about their memory: every process has   *)
(* memory of its own, of a size it sets with sbrk(); memory it has not     *)
(* written reads as zero, fork() copies it, exec() replaces it, and nobody *)
(* else changes it.  Nothing is said of pages, frames or faults, except    *)
(* that the kernel may kill a process that touches memory.                 *)
(***************************************************************************)
EXTENDS Integers

CONSTANTS Proc, NPAGE, PG, IMAGE

VARIABLES
  alive,   \* the processes that have memory
  size,    \* how much, in addresses
  mem      \* what each page of it holds

flatVars == <<alive, size, mem>>

FlatPage == 0..(NPAGE - 1)
Blank == [v \in FlatPage |-> "0"]

FlatInit ==
  /\ alive = {}
  /\ size = [p \in Proc |-> 0]
  /\ mem = [p \in Proc |-> Blank]

(* A program starts, in a new process or in place of p's program. *)
FlatStart(p) ==
  /\ alive' = alive \cup {p}
  /\ size' = [size EXCEPT ![p] = IMAGE * PG]
  /\ mem' = [mem EXCEPT ![p] = Blank]

(* The last page may be used to its end. *)
FlatStore(p, a) ==
  /\ p \in alive /\ a \div PG < (size[p] + PG - 1) \div PG
  /\ mem' = [mem EXCEPT ![p][a \div PG] = "x"]
  /\ UNCHANGED <<alive, size>>

(* Memory given back, rounded to whole pages, is lost. *)
FlatResize(p, n) ==
  /\ p \in alive
  /\ size' = [size EXCEPT ![p] = n]
  /\ mem' = [mem EXCEPT ![p] =
               [v \in FlatPage |-> IF v < (n + PG - 1) \div PG THEN mem[p][v] ELSE "0"]]
  /\ UNCHANGED alive

FlatFork(p, q) ==
  /\ p \in alive /\ q \notin alive
  /\ alive' = alive \cup {q}
  /\ size' = [size EXCEPT ![q] = size[p]]
  /\ mem' = [mem EXCEPT ![q] = mem[p]]

FlatExit(p) ==
  /\ alive' = alive \ {p}
  /\ size' = [size EXCEPT ![p] = 0]
  /\ mem' = [mem EXCEPT ![p] = Blank]

FlatNext ==
  \/ \E p \in Proc : FlatStart(p) \/ FlatExit(p)
  \/ \E p \in Proc, a \in 0..(NPAGE * PG - 1) : FlatStore(p, a)
  \/ \E p \in Proc, n \in 0..(NPAGE * PG) : FlatResize(p, n)
  \/ \E p, q \in Proc : FlatFork(p, q)

FlatSpec == FlatInit /\ [][FlatNext]_flatVars
=============================================================================
