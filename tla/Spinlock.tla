------------------------------ MODULE Spinlock ------------------------------
(***************************************************************************)
(* Spin locks and the interrupt state of the harts (kernel/spinlock.c),    *)
(* with the parts of kernel/proc.c that give a hart away: sleep(), yield() *)
(* and the scheduler.  A lock records the hart that holds it, as lk->cpu   *)
(* does.  p->lock is not here: sleep() and wakeup() hold it around what    *)
(* they do, so each of them is one step for the other harts (module Proc   *)
(* models p->lock itself).                                                 *)
(***************************************************************************)
EXTENDS Integers, FiniteSets

CONSTANTS
  Cpu,      \* harts
  Proc,     \* processes
  Lock      \* the spin locks

Idle == "scheduler"
Free == "free"
Fine == "fine"

ASSUME SpinlockAssumption ==
  /\ IsFiniteSet(Cpu) /\ Cpu # {}
  /\ Idle \notin Proc
  /\ Free \notin Cpu

VARIABLES
  cpu,      \* each hart: the sstatus.SIE bit, noff, intena, and the process it runs
  lock,     \* the hart holding each lock, or Free
  proc,     \* each process: state, chan, and the SIE bit it will resume with
  panic     \* the message of the first panic, or Fine

lockVars == <<cpu, lock, proc, panic>>

(* A hart in scheduler(): it takes interrupts (intr_on(), or a wfi that one ends). *)
InScheduler == [intr |-> 1, noff |-> 0, intena |-> 0, proc |-> Idle]

LockInit ==
  /\ cpu = [c \in Cpu |-> InScheduler]
  /\ lock = [l \in Lock |-> Free]
  /\ proc = [p \in Proc |-> [state |-> "RUNNABLE", chan |-> "none", intr |-> 1]]
  /\ panic = Fine

(* Fault: interrupts stay as they are. *)
Bug_push_off_enabled(k) ==
  [k EXCEPT !.intena = IF k.noff = 0 THEN k.intr ELSE @, !.noff = @ + 1]

push_off(k) ==
  [k EXCEPT !.intr = 0, !.intena = IF k.noff = 0 THEN k.intr ELSE @, !.noff = @ + 1]

pop_off(k) ==
  [k EXCEPT !.noff = @ - 1, !.intr = IF k.noff = 1 /\ k.intena = 1 THEN 1 ELSE @]

(* The panics of pop_off(). *)
PopOffCheck(k) ==
  IF k.intr = 1 THEN "pop_off - interruptible" ELSE IF k.noff < 1 THEN "pop_off" ELSE Fine

First(m) == IF panic # Fine THEN panic ELSE m

holding(c, l) == lock[l] = c

(* acquire() up to its loop. *)
acquire(c, l) ==
  /\ cpu' = [cpu EXCEPT ![c] = push_off(@)]
  /\ panic' = First(IF holding(c, l) THEN "acquire" ELSE Fine)

(* The atomic swap that ends the loop of acquire(). *)
test_and_set(c, l) ==
  /\ lock[l] = Free
  /\ lock' = [lock EXCEPT ![l] = c]

release(c, l) ==
  /\ lock' = [lock EXCEPT ![l] = Free]
  /\ cpu' = [cpu EXCEPT ![c] = pop_off(@)]
  /\ panic' = First(IF ~holding(c, l) THEN "release" ELSE PopOffCheck(cpu[c]))

(* The sleepers on ch become RUNNABLE. *)
wakeup(ch) ==
  proc' = [p \in Proc |-> IF proc[p].state = "SLEEPING" /\ proc[p].chan = ch
                          THEN [proc[p] EXCEPT !.state = "RUNNABLE", !.chan = "none"] ELSE proc[p]]

(* sleep(ch, l): l is released and the hart goes to the scheduler.  sched() panics when the
   process holds a lock besides its own; it saves intena for when the process runs again. *)
sleep(c, l, ch) ==
  /\ lock' = [lock EXCEPT ![l] = Free]
  /\ proc' = [proc EXCEPT ![cpu[c].proc] =
                [state |-> "SLEEPING", chan |-> ch, intr |-> cpu[c].intena]]
  /\ cpu' = [cpu EXCEPT ![c] = InScheduler]
  /\ panic' = First(IF ~holding(c, l) THEN "release"
                    ELSE IF cpu[c].noff # 1 THEN "sched locks"
                    ELSE IF cpu[c].intr = 1 THEN "sched interruptible" ELSE Fine)

(* yield() at the end of a timer interrupt; the return from the trap turns interrupts on. *)
yield(c) ==
  /\ cpu' = [cpu EXCEPT ![c] = InScheduler]
  /\ proc' = IF cpu[c].proc = Idle THEN proc
             ELSE [proc EXCEPT ![cpu[c].proc] =
                     [state |-> "RUNNABLE", chan |-> "none", intr |-> 1]]
  /\ panic' = First(IF cpu[c].noff # 0 THEN "sched locks" ELSE Fine)

(* scheduler() switches to p. *)
scheduler(c, p) ==
  /\ cpu[c].proc = Idle
  /\ proc[p].state = "RUNNABLE"
  /\ cpu' = [cpu EXCEPT ![c].proc = p, ![c].intr = proc[p].intr]
  /\ proc' = [proc EXCEPT ![p].state = "RUNNING"]
  /\ UNCHANGED <<lock, panic>>

(* The end of a process: the last sched() of kexit(). *)
kexit(c) ==
  /\ proc' = [proc EXCEPT ![cpu[c].proc].state = "ZOMBIE"]
  /\ cpu' = [cpu EXCEPT ![c] = InScheduler]
  /\ UNCHANGED <<lock, panic>>

=============================================================================
