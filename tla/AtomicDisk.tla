----------------------------- MODULE AtomicDisk -----------------------------
(***************************************************************************)
(* What kernel/log.c promises to the file system, and nothing of how: a    *)
(* disk whose contents survive crashes, on which the updates of file       *)
(* system calls become durable all at once, only when no call is running.  *)
(* Log.tla is shown to implement this specification.                       *)
(***************************************************************************)
CONSTANTS Proc, Block, Val, InitVal

VARIABLES
  stable,   \* the contents a reboot would recover
  mem,      \* the contents the file system calls see
  active    \* the processes between begin_op() and end_op()

absVars == <<stable, mem, active>>

AbsInit ==
  /\ stable = [b \in Block |-> InitVal]
  /\ mem = stable
  /\ active = {}

AbsBegin(p) ==
  /\ p \notin active
  /\ active' = active \cup {p}
  /\ UNCHANGED <<stable, mem>>

AbsWrite(p, b, v) ==
  /\ p \in active
  /\ mem' = [mem EXCEPT ![b] = v]
  /\ UNCHANGED <<stable, active>>

AbsEnd(p) ==
  /\ p \in active
  /\ active' = active \ {p}
  /\ UNCHANGED <<stable, mem>>

(* A commit makes every finished call durable; no call is half done. *)
AbsCommit ==
  /\ active = {}
  /\ stable' = mem
  /\ UNCHANGED <<mem, active>>

(* A crash ends every running call and leaves exactly the last commit. *)
AbsCrash ==
  /\ mem' = stable
  /\ active' = {}
  /\ UNCHANGED stable

AbsNext ==
  \/ \E p \in Proc : AbsBegin(p) \/ AbsEnd(p)
  \/ \E p \in Proc, b \in Block, v \in Val : AbsWrite(p, b, v)
  \/ AbsCommit
  \/ AbsCrash

AbsSpec == AbsInit /\ [][AbsNext]_absVars
=============================================================================
