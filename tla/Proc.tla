-------------------------------- MODULE Proc --------------------------------
(***************************************************************************)
(* The life of a process in kernel/proc.c: fork, exit, wait, kill, sleep   *)
(* and the scheduler, on NCPU processors that interleave at every lock.    *)
(*                                                                         *)
(* A step is what happens between two lock operations.  Two spinlocks stay *)
(* visible because the code holds them across several steps: wait_lock,    *)
(* and the p->lock of a process that goes to sleep or exits, which it      *)
(* hands to the scheduler.  Other uses of p->lock are one step that        *)
(* requires the lock to be free.  wakeup(q) on a process address concerns  *)
(* process q alone, as only q sleeps on its own address (TypeOK's chan).   *)
(* File closing, memory and the exit status are left to other modules.     *)
(***************************************************************************)
EXTENDS Naturals, FiniteSets

CONSTANTS
  NPROC,      \* slots of the process table
  NCPU,       \* processors
  MaxPid,     \* bound: pids ever allocated
  KillPids    \* the arguments kill() is called with

ASSUME ProcAssumption ==
  /\ NPROC \in Nat \ {0} /\ NCPU \in Nat \ {0} /\ MaxPid \in Nat
  /\ KillPids \subseteq Nat /\ 1 \notin KillPids    \* killing init panics, "init exiting"

VARIABLES
  state, pid, parent, chan, killed,   \* the fields of struct proc
  pc,         \* where each process stands in the kernel, or "user"
  scan,       \* the table index of its loop in kexit() or kwait()
  havekids,   \* kwait()'s local
  child,      \* kfork()'s np
  wait_lock,  \* the holder of wait_lock, 0 if free
  lock,       \* the slots whose p->lock is held across steps
  oncpu,      \* the processes that run on some processor's kernel stack
  nextpid,
  targeted    \* history: the pids kill() was called for

procVars == <<state, pid, parent, chan, killed>>
vars == <<state, pid, parent, chan, killed, pc, scan, havekids, child, wait_lock, lock, oncpu,
          nextpid, targeted>>

Slot == 1..NPROC
initproc == 1
States == {"UNUSED", "USED", "SLEEPING", "RUNNABLE", "RUNNING", "ZOMBIE"}
Pc == {"user", "fork_parent", "fork_run", "reparent", "exit_wake", "exit_zombie", "exit_sched",
       "wait_scan", "wait_end", "sleep_lock", "sleep_sched", "woken"}

(* userinit() has made the first process; the rest of the table is zero. *)
Init ==
  /\ state = [p \in Slot |-> IF p = initproc THEN "RUNNABLE" ELSE "UNUSED"]
  /\ pid = [p \in Slot |-> IF p = initproc THEN 1 ELSE 0]
  /\ parent = [p \in Slot |-> 0]
  /\ chan = [p \in Slot |-> 0]
  /\ killed = [p \in Slot |-> 0]
  /\ pc = [p \in Slot |-> "user"]
  /\ scan = [p \in Slot |-> 1]
  /\ havekids = [p \in Slot |-> 0]
  /\ child = [p \in Slot |-> 0]
  /\ wait_lock = 0
  /\ lock = {}
  /\ oncpu = {}
  /\ nextpid = 2
  /\ targeted = {}

Go(p, where) == pc' = [pc EXCEPT ![p] = where]
-----------------------------------------------------------------------------
(* scheduler() takes p->lock and switches to p, which releases the lock in *)
(* forkret(), yield() or sleep(); sleep() also clears p->chan.             *)
scheduler(p) ==
  /\ state[p] = "RUNNABLE" /\ p \notin lock
  /\ Cardinality(oncpu) < NCPU
  /\ state' = [state EXCEPT ![p] = "RUNNING"]
  /\ chan' = [chan EXCEPT ![p] = 0]
  /\ oncpu' = oncpu \cup {p}
  /\ UNCHANGED <<pid, parent, killed, pc, scan, havekids, child, wait_lock, lock, nextpid, targeted>>

(* A timer interrupt: usertrap() or kerneltrap() yields, with no lock held. *)
yield(p) ==
  /\ state[p] = "RUNNING" /\ pc[p] \in {"user", "fork_parent", "fork_run", "woken"}
  /\ state' = [state EXCEPT ![p] = "RUNNABLE"]
  /\ oncpu' = oncpu \ {p}
  /\ UNCHANGED <<pid, parent, chan, killed, pc, scan, havekids, child, wait_lock, lock, nextpid,
                 targeted>>
-----------------------------------------------------------------------------
(* p may start a system call: usertrap() found it not killed. *)
Syscall(p) == state[p] = "RUNNING" /\ pc[p] = "user" /\ killed[p] = 0

(* allocproc(), and kfork() until it first releases np->lock. *)
kfork(p) ==
  /\ Syscall(p) /\ nextpid <= MaxPid
  /\ \E np \in Slot \ lock :
       /\ state[np] = "UNUSED"
       /\ state' = [state EXCEPT ![np] = "USED"]
       /\ pid' = [pid EXCEPT ![np] = nextpid]
       /\ child' = [child EXCEPT ![p] = np]
  /\ nextpid' = nextpid + 1
  /\ Go(p, "fork_parent")
  /\ UNCHANGED <<parent, chan, killed, scan, havekids, wait_lock, lock, oncpu, targeted>>

(* kalloc() fails in allocproc() or uvmcopy(): freeproc(np) clears the slot again. *)
kfork_fail(p) ==
  /\ Syscall(p) /\ nextpid <= MaxPid
  /\ \E np \in Slot \ lock :
       /\ state[np] = "UNUSED"
       /\ killed' = [killed EXCEPT ![np] = 0]
  /\ nextpid' = nextpid + 1
  /\ UNCHANGED <<state, pid, parent, chan, pc, scan, havekids, child, wait_lock, lock, oncpu, targeted>>

(* Under wait_lock: np->parent = p. *)
kfork_parent(p) ==
  /\ state[p] = "RUNNING" /\ pc[p] = "fork_parent" /\ wait_lock = 0
  /\ parent' = [parent EXCEPT ![child[p]] = p]
  /\ Go(p, "fork_run")
  /\ UNCHANGED <<state, pid, chan, killed, scan, havekids, child, wait_lock, lock, oncpu, nextpid,
                 targeted>>

(* Under np->lock: the child may run. *)
kfork_run(p) ==
  LET np == child[p] IN
  /\ state[p] = "RUNNING" /\ pc[p] = "fork_run" /\ np \notin lock
  /\ state' = [state EXCEPT ![np] = "RUNNABLE"]
  /\ pc' = [pc EXCEPT ![p] = "user", ![np] = "user"]
  /\ child' = [child EXCEPT ![p] = 0]
  /\ UNCHANGED <<pid, parent, chan, killed, scan, havekids, wait_lock, lock, oncpu, nextpid, targeted>>
-----------------------------------------------------------------------------
(* wakeup(q): q runs again if it sleeps on its own address. *)
Awoken(q) ==
  IF state[q] = "SLEEPING" /\ chan[q] = q THEN [state EXCEPT ![q] = "RUNNABLE"] ELSE state

(* kexit(), called by the process or by usertrap() once it is killed, takes wait_lock. *)
kexit(p) ==
  /\ state[p] = "RUNNING" /\ pc[p] = "user" /\ p # initproc
  /\ wait_lock = 0
  /\ wait_lock' = p
  /\ scan' = [scan EXCEPT ![p] = 1]
  /\ Go(p, "reparent")
  /\ UNCHANGED <<state, pid, parent, chan, killed, havekids, child, lock, oncpu, nextpid, targeted>>

(* Fault: the loop misses the last slot. *)
Bug_reparent_short(p) ==
  LET pp == scan[p] IN
  /\ pc[p] = "reparent" /\ pp <= NPROC
  /\ IF parent[pp] = p
     THEN /\ initproc \notin lock
          /\ parent' = [parent EXCEPT ![pp] = initproc]
          /\ state' = Awoken(initproc)
     ELSE UNCHANGED <<parent, state>>
  /\ scan' = [scan EXCEPT ![p] = pp + 1]
  /\ Go(p, IF pp = NPROC - 1 THEN "exit_wake" ELSE "reparent")
  /\ UNCHANGED <<pid, chan, killed, havekids, child, wait_lock, lock, oncpu, nextpid, targeted>>

(* Fault: init is not told of its new children. *)
Bug_reparent_no_wake(p) ==
  LET pp == scan[p] IN
  /\ pc[p] = "reparent" /\ pp <= NPROC
  /\ IF parent[pp] = p
     THEN /\ initproc \notin lock
          /\ parent' = [parent EXCEPT ![pp] = initproc]
          /\ UNCHANGED state
     ELSE UNCHANGED <<parent, state>>
  /\ scan' = [scan EXCEPT ![p] = pp + 1]
  /\ Go(p, IF pp = NPROC THEN "exit_wake" ELSE "reparent")
  /\ UNCHANGED <<pid, chan, killed, havekids, child, wait_lock, lock, oncpu, nextpid, targeted>>

(* One iteration of reparent(): a child goes to init, which is woken. *)
reparent(p) ==
  LET pp == scan[p] IN
  /\ pc[p] = "reparent" /\ pp <= NPROC
  /\ IF parent[pp] = p
     THEN /\ initproc \notin lock
          /\ parent' = [parent EXCEPT ![pp] = initproc]
          /\ state' = Awoken(initproc)
     ELSE UNCHANGED <<parent, state>>
  /\ scan' = [scan EXCEPT ![p] = pp + 1]
  /\ Go(p, IF pp = NPROC THEN "exit_wake" ELSE "reparent")
  /\ UNCHANGED <<pid, chan, killed, havekids, child, wait_lock, lock, oncpu, nextpid, targeted>>

(* Fault: the parent is not woken. *)
Bug_kexit_wake_nobody(p) ==
  /\ pc[p] = "exit_wake" /\ parent[p] \notin lock
  /\ UNCHANGED state
  /\ Go(p, "exit_zombie")
  /\ UNCHANGED <<pid, parent, chan, killed, scan, havekids, child, wait_lock, lock, oncpu, nextpid,
                 targeted>>

(* wakeup(p->parent). *)
kexit_wake(p) ==
  /\ pc[p] = "exit_wake" /\ parent[p] \notin lock
  /\ state' = Awoken(parent[p])
  /\ Go(p, "exit_zombie")
  /\ UNCHANGED <<pid, parent, chan, killed, scan, havekids, child, wait_lock, lock, oncpu, nextpid,
                 targeted>>

(* Fault: p->lock is not kept until the switch. *)
Bug_kexit_zombie_unlocked(p) ==
  /\ pc[p] = "exit_zombie" /\ p \notin lock
  /\ state' = [state EXCEPT ![p] = "ZOMBIE"]
  /\ wait_lock' = 0
  /\ Go(p, "exit_sched")
  /\ UNCHANGED <<pid, parent, chan, killed, scan, havekids, child, lock, oncpu, nextpid, targeted>>

(* p->lock is taken and stays held; wait_lock is released. *)
kexit_zombie(p) ==
  /\ pc[p] = "exit_zombie" /\ p \notin lock
  /\ lock' = lock \cup {p}
  /\ state' = [state EXCEPT ![p] = "ZOMBIE"]
  /\ wait_lock' = 0
  /\ Go(p, "exit_sched")
  /\ UNCHANGED <<pid, parent, chan, killed, scan, havekids, child, oncpu, nextpid, targeted>>

(* sched(): the processor leaves p's kernel stack, then scheduler() releases p->lock. *)
kexit_sched(p) ==
  /\ pc[p] = "exit_sched"
  /\ lock' = lock \ {p}
  /\ oncpu' = oncpu \ {p}
  /\ Go(p, "user")
  /\ UNCHANGED <<state, pid, parent, chan, killed, scan, havekids, child, wait_lock, nextpid, targeted>>
-----------------------------------------------------------------------------
(* Fault: the killed flag survives into the slot's next process. *)
Bug_freeproc_keeps_killed(pp) ==
  /\ state' = [state EXCEPT ![pp] = "UNUSED"]
  /\ pid' = [pid EXCEPT ![pp] = 0]
  /\ parent' = [parent EXCEPT ![pp] = 0]
  /\ chan' = [chan EXCEPT ![pp] = 0]
  /\ UNCHANGED killed

(* freeproc(pp), as far as this module keeps its fields. *)
freeproc(pp) ==
  /\ state' = [state EXCEPT ![pp] = "UNUSED"]
  /\ pid' = [pid EXCEPT ![pp] = 0]
  /\ parent' = [parent EXCEPT ![pp] = 0]
  /\ chan' = [chan EXCEPT ![pp] = 0]
  /\ killed' = [killed EXCEPT ![pp] = 0]

(* kwait() takes wait_lock, first from user space and then after each sleep(). *)
kwait(p) ==
  /\ Syscall(p) \/ (state[p] = "RUNNING" /\ pc[p] = "woken")
  /\ wait_lock = 0
  /\ wait_lock' = p
  /\ scan' = [scan EXCEPT ![p] = 1]
  /\ havekids' = [havekids EXCEPT ![p] = 0]
  /\ Go(p, "wait_scan")
  /\ UNCHANGED <<procVars, child, lock, oncpu, nextpid, targeted>>

(* One iteration of the scan that finds no exited child in this slot. *)
kwait_scan(p) ==
  LET pp == scan[p] IN
  /\ pc[p] = "wait_scan"
  /\ parent[pp] = p => pp \notin lock /\ state[pp] # "ZOMBIE"
  /\ havekids' = [havekids EXCEPT ![p] = IF parent[pp] = p THEN 1 ELSE @]
  /\ scan' = [scan EXCEPT ![p] = pp + 1]
  /\ Go(p, IF pp = NPROC THEN "wait_end" ELSE "wait_scan")
  /\ UNCHANGED <<procVars, child, wait_lock, lock, oncpu, nextpid, targeted>>

(* The scan finds an exited child, which is reaped ... *)
kwait_reap(p) ==
  LET pp == scan[p] IN
  /\ pc[p] = "wait_scan"
  /\ parent[pp] = p /\ pp \notin lock /\ state[pp] = "ZOMBIE"
  /\ freeproc(pp)
  /\ wait_lock' = 0
  /\ Go(p, "user")
  /\ UNCHANGED <<scan, havekids, child, lock, oncpu, nextpid, targeted>>


(* ... or left as it is, when its status cannot be copied out; init passes no address. *)
kwait_copyout_fails(p) ==
  LET pp == scan[p] IN
  /\ pc[p] = "wait_scan" /\ p # initproc
  /\ parent[pp] = p /\ pp \notin lock /\ state[pp] = "ZOMBIE"
  /\ wait_lock' = 0
  /\ Go(p, "user")
  /\ UNCHANGED <<procVars, scan, havekids, child, lock, oncpu, nextpid, targeted>>

(* Fault: a killed process sleeps again. *)
Bug_kwait_end_ignores_kill(p) ==
  /\ pc[p] = "wait_end" /\ p \notin lock
  /\ IF havekids[p] = 0
     THEN wait_lock' = 0 /\ Go(p, "user")
     ELSE wait_lock' = wait_lock /\ Go(p, "sleep_lock")
  /\ UNCHANGED <<procVars, scan, havekids, child, lock, oncpu, nextpid, targeted>>

(* No exited child: return -1 without children or when killed, else go to sleep. *)
kwait_end(p) ==
  /\ pc[p] = "wait_end" /\ p \notin lock
  /\ IF havekids[p] = 0 \/ killed[p] = 1
     THEN wait_lock' = 0 /\ Go(p, "user")
     ELSE wait_lock' = wait_lock /\ Go(p, "sleep_lock")
  /\ UNCHANGED <<procVars, scan, havekids, child, lock, oncpu, nextpid, targeted>>

(* sleep(p, &wait_lock): first p->lock ... *)
sleep_lock(p) ==
  /\ pc[p] = "sleep_lock" /\ p \notin lock
  /\ lock' = lock \cup {p}
  /\ Go(p, "sleep_sched")
  /\ UNCHANGED <<procVars, scan, havekids, child, wait_lock, oncpu, nextpid, targeted>>

(* ... then the condition lock is released and sched() gives up the processor. *)
sleep_sched(p) ==
  /\ pc[p] = "sleep_sched"
  /\ wait_lock' = 0
  /\ chan' = [chan EXCEPT ![p] = p]
  /\ state' = [state EXCEPT ![p] = "SLEEPING"]
  /\ oncpu' = oncpu \ {p}
  /\ lock' = lock \ {p}
  /\ Go(p, "woken")
  /\ UNCHANGED <<pid, parent, killed, scan, havekids, child, nextpid, targeted>>

(* kkill() stops at the first slot whose pid matches. *)
kkill(p, n) ==
  /\ Syscall(p)
  /\ \E q \in Slot \ lock :
       /\ pid[q] = n
       /\ \A r \in 1..(q - 1) : pid[r] # n
       /\ killed' = [killed EXCEPT ![q] = 1]
       /\ state' = IF state[q] = "SLEEPING" THEN [state EXCEPT ![q] = "RUNNABLE"] ELSE state
  /\ targeted' = targeted \cup {n}
  /\ UNCHANGED <<pid, parent, chan, pc, scan, havekids, child, wait_lock, lock, oncpu, nextpid>>
-----------------------------------------------------------------------------
fork(p) == kfork(p) \/ kfork_fail(p) \/ kfork_parent(p) \/ kfork_run(p)
exit(p) == kexit(p) \/ reparent(p) \/ kexit_wake(p) \/ kexit_zombie(p) \/ kexit_sched(p)
wait(p) == \/ kwait(p) \/ kwait_scan(p) \/ kwait_reap(p) \/ kwait_copyout_fails(p)
           \/ kwait_end(p) \/ sleep_lock(p) \/ sleep_sched(p)

Next ==
  \E p \in Slot :
    \/ scheduler(p) \/ yield(p)
    \/ fork(p) \/ exit(p) \/ wait(p)
    \/ \E n \in KillPids : kkill(p, n)

Spec == Init /\ [][Next]_vars

(* The steps p takes without a choice of its program: those in the kernel, *)
(* the exit of a killed process when it traps, and init's wait().          *)
Onward(p) ==
  \/ kfork_parent(p) \/ kfork_run(p)
  \/ reparent(p) \/ kexit_wake(p) \/ kexit_zombie(p) \/ kexit_sched(p)
  \/ (pc[p] = "woken" \/ p = initproc) /\ kwait(p)
  \/ kwait_scan(p) \/ kwait_reap(p) \/ kwait_copyout_fails(p) \/ kwait_end(p)
  \/ sleep_lock(p) \/ sleep_sched(p)
  \/ killed[p] = 1 /\ kexit(p)

(* scheduler() goes round the table, so a runnable process gets its turn,  *)
(* the timer ends turns, and a process gets the spinlocks it spins on.     *)
Fairness ==
  /\ SF_vars(\E p \in Slot : yield(p))
  /\ \A p \in Slot : SF_vars(scheduler(p)) /\ SF_vars(Onward(p))

FairSpec == Spec /\ Fairness
-----------------------------------------------------------------------------
(* The fields keep their ranges; in particular a process sleeps only on    *)
(* its own address, so that a wakeup() reaches exactly the parent it is    *)
(* meant for.                                                              *)
TypeOK ==
  /\ state \in [Slot -> States] /\ pid \in [Slot -> Nat]
  /\ parent \in [Slot -> Slot \cup {0}]
  /\ \A p \in Slot : chan[p] \in {0, p}
  /\ killed \in [Slot -> {0, 1}] /\ pc \in [Slot -> Pc]
  /\ scan \in [Slot -> 1..(NPROC + 1)] /\ havekids \in [Slot -> {0, 1}]
  /\ child \in [Slot -> Slot \cup {0}]
  /\ wait_lock \in Slot \cup {0} /\ lock \subseteq Slot /\ oncpu \subseteq Slot
  /\ nextpid \in Nat

(* No kernel stack is given away while a processor is on it: a process on  *)
(* a processor is running, or a zombie whose lock keeps kwait() from       *)
(* freeing it until scheduler() has switched away.                         *)
StackInUse ==
  \A p \in oncpu : state[p] = "RUNNING" \/ (state[p] = "ZOMBIE" /\ p \in lock)

(* Every process but init has a parent that can still wait for it, also    *)
(* while parents exit and their children pass to init.                     *)
LiveParent ==
  \A p \in Slot \ {initproc} :
    state[p] \in {"RUNNABLE", "RUNNING", "SLEEPING", "ZOMBIE"} =>
      parent[p] # 0 /\ state[parent[p]] \in {"RUNNABLE", "RUNNING", "SLEEPING"}

(* No exit is missed: a parent asleep in kwait() has no exited child, its  *)
(* own or inherited, once wait_lock is free.                               *)
NoMissedExit ==
  wait_lock = 0 =>
    \A p, q \in Slot : state[p] = "SLEEPING" /\ parent[q] = p => state[q] # "ZOMBIE"

(* kill() reaches the process it names and no other: a process is killed   *)
(* only if its own pid was the argument of a kill().                       *)
KilledByPid ==
  \A p \in Slot : state[p] # "UNUSED" /\ killed[p] = 1 => pid[p] \in targeted


(* Init reaps every orphan that has exited. *)
OrphanIsReaped ==
  \A p \in Slot : state[p] = "ZOMBIE" /\ parent[p] = initproc ~> state[p] = "UNUSED"

(* A killed process exits, asleep in kwait() or not, unless the kill() came *)
(* between kwait()'s killed() test and its sleep(): then it sleeps on       *)
(* until a child exits.                                                     *)
KilledExits ==
  \A p \in Slot :
    killed[p] = 1 /\ state[p] \in {"RUNNABLE", "RUNNING"} /\ pc[p] \notin {"sleep_lock", "sleep_sched"}
      ~> state[p] \in {"UNUSED", "ZOMBIE"}
=============================================================================
