-------------------------- MODULE ConsoleCallProofs -------------------------
(*****************************************************************************)
(* System calls and the invariant LockInv: a process that acquires, spins,   *)
(* holds, releases or sleeps on the one lock of its call.                    *)
(*****************************************************************************)
EXTENDS ConsoleLocks

Program == Seq([op : Op, n : Nat, ok : BOOLEAN])

(* The head and the tail of a program. *)
LEMMA HeadTail == ASSUME NEW S, NEW s \in Seq(S), s # <<>> PROVE Head(s) \in S /\ Tail(s) \in Seq(S)
  OBVIOUS

(* Every system call has a lock, and what is left after it is a program. *)
LEMMA CallType ==
  ASSUME Types, NEW p \in Proc, prog[p] # <<>>
  PROVE  Call(p).op \in Op /\ LockOf(Call(p).op) \in Lock /\ Tail(prog[p]) \in Program
  <1>1. prog[p] \in Program
    BY DEF Types, Program
  <1>2. Head(prog[p]) \in [op : Op, n : Nat, ok : BOOLEAN] /\ Tail(prog[p]) \in Program
    BY <1>1, HeadTail DEF Program
  <1>3. Call(p).op \in Op
    BY <1>2 DEF Call
  <1> QED
    BY <1>2, <1>3, ConsoleAssumption DEF Op, LockOf

(* What the invariant says of a hart that runs process p, outside handlers. *)
LEMMA InCall ==
  ASSUME LockInv, NEW c \in Cpu, NEW p \in Proc, Runs(c, p)
  PROVE  /\ Types /\ panic = Fine /\ cpu[c] \in CpuRecord /\ cpu[c].proc = p /\ ~Busy(c)
         /\ \A l \in Lock : lock[l] = c <=> l \in Holds(pc[p], Call(p).op)
         /\ cpu[c].noff = Depth(pc[p]) /\ put[c].saw = 0
         /\ cpu[c].intr = IF pc[p] \in Outside THEN 1 ELSE 0
         /\ cpu[c].noff > 0 => cpu[c].intena = 1
         /\ irq[c].at = "none" /\ proc[p].state = "RUNNING" /\ Resumable(p)
         /\ pc[p] \in Outside \cup Inside
  <1>1. Types /\ WellPlaced(c) /\ panic = Fine /\ Resumable(p)
    BY DEF LockInv
  <1>2. cpu[c].proc = p /\ irq[c].at = "none" /\ ~Busy(c) /\ p # Idle
    BY SpinlockAssumption DEF Runs
  <1>3. Pos(c) = pc[p] /\ pc[p] \in Outside \cup Inside /\ pc[p] # "idle"
    BY <1>1, <1>2 DEF Pos, Types, Outside, Inside
  <1>4. put[c].saw = 0 /\ cpu[c] \in CpuRecord
    BY <1>1, <1>2 DEF Types, PutShape, CpuRecord, WellPlaced
  <1>5. Depth(pc[p]) \in {0, 1, 2}
    BY DEF Depth
  <1>6. \A l \in Lock : lock[l] = c <=> l \in Holds(pc[p], Call(p).op)
    BY <1>1, <1>2, <1>3 DEF WellPlaced
  <1> QED
    BY <1>1, <1>2, <1>3, <1>4, <1>5, <1>6 DEF WellPlaced

(* Process p, on hart c, steps to the place at. *)
Advances(c, p, at) ==
  /\ cpu' \in [Cpu -> CpuRecord] /\ \A d \in Cpu \ {c} : cpu'[d] = cpu[d]
  /\ cpu'[c].intr = IF at \in Outside THEN 1 ELSE 0
  /\ cpu'[c].noff = Depth(at) /\ (cpu'[c].noff > 0 => cpu'[c].intena = 1)
  /\ cpu'[c].proc = p /\ irq' = irq /\ proc' = proc /\ panic' = Fine
  /\ PutShape' /\ put'[c].saw = 0 /\ \A d \in Cpu \ {c} : put'[d] = put[d]
  /\ Busy(c)' => at = "in"
  /\ lock' \in [Lock -> Cpu \cup {Free}]
  /\ \A d \in Cpu \ {c} : \A l \in Lock : lock'[l] = d <=> lock[l] = d
  /\ \A l \in Lock : lock'[l] = c <=> l \in Holds(at, Head(prog'[p]).op)
  /\ pc' = [pc EXCEPT ![p] = at]
  /\ prog' \in [Proc -> Program] /\ \A q \in Proc \ {p} : prog'[q] = prog[q]
  /\ at # "user" => prog'[p] # <<>>

(* Such a step keeps the invariant. *)
LEMMA CallStep ==
  ASSUME LockInv, NEW c \in Cpu, NEW p \in Proc, Runs(c, p), NEW at \in Outside \cup Inside, Advances(c, p, at)
  PROVE  LockInv'
  <1>0. /\ Types /\ cpu[c].proc = p /\ irq[c].at = "none" /\ proc[p].state = "RUNNING" /\ Resumable(p)
    BY InCall
  <1>1. Alone /\ \A q \in Proc : Resumable(q)
    BY DEF LockInv
  <1>2. /\ pc'[p] = at /\ (\A q \in Proc \ {p} : pc'[q] = pc[q]) /\ pc' \in [Proc -> Outside \cup Inside]
    BY <1>0 DEF Advances, Types
  <1>3. Frame(c)
    BY <1>0, <1>2 DEF Frame, Advances
  <1>4. Types'
    <2>1. /\ cpu' \in [Cpu -> CpuRecord] /\ lock' \in [Lock -> Cpu \cup {Free}] /\ PutShape'
          /\ prog' \in [Proc -> Program] /\ irq' = irq /\ proc' = proc
      BY DEF Advances
    <2> QED
      BY <1>0, <1>2, <2>1 DEF Types, CpuRecord, Program
  <1>5. Alone'
    BY <1>0, <1>1 DEF Alone, Advances
  <1>6. WellPlaced(c)'
    <2>1. Pos(c)' = at /\ at # "idle"
      BY <1>0, <1>2, SpinlockAssumption DEF Pos, Advances, Outside, Inside
    <2>2. (\A l \in Lock : lock[l] = c <=> l \in Holds(Pos(c), Call(cpu[c].proc).op))'
      BY <2>1 DEF Advances, Call
    <2>3. Depth(at) \in {0, 1, 2}
      BY DEF Depth
    <2> QED
      BY <1>0, <2>1, <2>2, <2>3 DEF WellPlaced, Advances
  <1>7. \A q \in Proc : Resumable(q)'
    BY <1>0, <1>1, <1>2 DEF Resumable, Advances
  <1> QED
    BY <1>3, <1>4, <1>5, <1>6, <1>7, Local DEF Advances

(* A system call reaches the loop of acquire(). *)
LEMMA CallAcquires ==
  ASSUME LockInv, NEW c \in Cpu, NEW p \in Proc, Runs(c, p), pc[p] \in Outside, prog[p] # <<>>,
         NEW l \in Lock, acquire(c, l), NEW at \in {"spin", "respin"}, pc' = [pc EXCEPT ![p] = at],
         UNCHANGED <<lock, proc, irq, put, prog>>
  PROVE  LockInv'
  <1>1. /\ Types /\ panic = Fine /\ cpu[c] \in CpuRecord /\ cpu[c].proc = p /\ ~Busy(c)
        /\ \A m \in Lock : lock[m] = c <=> m \in Holds(pc[p], Call(p).op)
        /\ cpu[c].noff = Depth(pc[p]) /\ put[c].saw = 0
        /\ cpu[c].intr = IF pc[p] \in Outside THEN 1 ELSE 0
        /\ cpu[c].noff > 0 => cpu[c].intena = 1
        /\ irq[c].at = "none" /\ Resumable(p)
    BY InCall
  <1>2. /\ Depth(pc[p]) = 0 /\ Depth(at) = 1 /\ at \notin Outside /\ at \in Inside
        /\ \A op : Holds(pc[p], op) = {} /\ Holds(at, op) = {}
    BY DEF Depth, Holds, Inside, Outside
  <1>3. panic' = Fine /\ cpu' = [cpu EXCEPT ![c] = Pushed(cpu[c])] /\ Pushed(cpu[c]) \in CpuRecord
    BY <1>1, <1>2, Acquires
  <1>4. /\ Pushed(cpu[c]).intr = 0 /\ Pushed(cpu[c]).noff = 1
        /\ Pushed(cpu[c]).intena = 1 /\ Pushed(cpu[c]).proc = p
    BY <1>1, <1>2 DEF Pushed
  <1>5. cpu' \in [Cpu -> CpuRecord] /\ cpu'[c] = Pushed(cpu[c]) /\ \A d \in Cpu \ {c} : cpu'[d] = cpu[d]
    BY <1>1, <1>3 DEF Types, CpuRecord
  <1>6. PutShape' /\ put'[c].saw = 0 /\ (\A d \in Cpu \ {c} : put'[d] = put[d]) /\ ~Busy(c)'
    BY <1>1 DEF Types, PutShape, Busy
  <1>7. lock' \in [Lock -> Cpu \cup {Free}] /\ prog' \in [Proc -> Program]
    BY <1>1 DEF Types, Program
  <1>8. Advances(c, p, at)
    BY <1>1, <1>2, <1>3, <1>4, <1>5, <1>6, <1>7 DEF Advances
  <1> QED
    BY <1>2, <1>8, CallStep

(* It gets the lock. *)
LEMMA CallTakes ==
  ASSUME LockInv, NEW c \in Cpu, NEW p \in Proc, enter(c, p)
  PROVE  LockInv'
  <1>0. Runs(c, p) /\ pc[p] \in {"spin", "respin"}
    BY DEF enter
  <1>1. /\ Types /\ panic = Fine /\ cpu[c] \in CpuRecord /\ cpu[c].proc = p /\ ~Busy(c)
        /\ \A m \in Lock : lock[m] = c <=> m \in Holds(pc[p], Call(p).op)
        /\ cpu[c].noff = Depth(pc[p]) /\ put[c].saw = 0
        /\ cpu[c].intr = IF pc[p] \in Outside THEN 1 ELSE 0
        /\ cpu[c].noff > 0 => cpu[c].intena = 1
        /\ irq[c].at = "none" /\ Resumable(p)
    BY <1>0, InCall
  <1> DEFINE l == LockOf(Call(p).op)
  <1>2. /\ Depth(pc[p]) = 1 /\ Depth("in") = 1 /\ pc[p] \notin Outside /\ "in" \notin Outside /\ "in" \in Inside
        /\ \A op : Holds(pc[p], op) = {} /\ Holds("in", op) = {LockOf(op)}
    BY <1>0 DEF Depth, Holds, Inside, Outside
  <1>3. prog[p] # <<>> /\ l \in Lock
    BY <1>0, <1>1, CallType DEF Resumable
  <1>4. /\ lock[l] = Free /\ lock' = [lock EXCEPT ![l] = c] /\ pc' = [pc EXCEPT ![p] = "in"]
        /\ UNCHANGED <<cpu, proc, panic, irq, prog>>
    BY DEF enter, test_and_set
  <1> HIDE DEF l
  <1>5. /\ lock' \in [Lock -> Cpu \cup {Free}]
        /\ \A d \in Cpu \ {c} : \A m \in Lock : lock'[m] = d <=> lock[m] = d
        /\ \A m \in Lock : lock'[m] = c <=> m = l
    BY <1>1, <1>2, <1>3, <1>4, SpinlockAssumption DEF Types
  <1>6. PutShape' /\ put'[c].saw = 0 /\ \A d \in Cpu \ {c} : put'[d] = put[d]
    <2>1. put' = put \/ put' = [put EXCEPT ![c].n = Call(p).n]
      BY DEF enter, consputc
    <2>2. PutShape
      BY <1>1 DEF Types
    <2>3. PutShape' /\ \A d \in Cpu : put'[d].saw = put[d].saw
      BY <2>1, <2>2, PutKept
    <2> QED
      BY <1>1, <2>1, <2>2, <2>3 DEF PutShape
  <1>7. cpu' \in [Cpu -> CpuRecord] /\ cpu'[c] = cpu[c] /\ \A d \in Cpu \ {c} : cpu'[d] = cpu[d]
    BY <1>1, <1>4 DEF Types, CpuRecord
  <1>8. prog' \in [Proc -> Program]
    BY <1>1, <1>4 DEF Types, Program
  <1>9. \A m \in Lock : lock'[m] = c <=> m \in Holds("in", Head(prog'[p]).op)
    BY <1>2, <1>4, <1>5 DEF l, Call
  <1>10. Advances(c, p, "in")
    BY <1>1, <1>2, <1>3, <1>4, <1>5, <1>6, <1>7, <1>8, <1>9 DEF Advances
  <1> QED
    BY <1>0, <1>2, <1>10, CallStep

(* It releases the lock, and returns or goes on to the next batch. *)
LEMMA CallReleases ==
  ASSUME LockInv, NEW c \in Cpu, NEW p \in Proc, Runs(c, p), pc[p] = "in",
         release(c, LockOf(Call(p).op)), NEW at \in {"user", "batch"}, pc' = [pc EXCEPT ![p] = at],
         \/ at = "user" /\ prog' = [prog EXCEPT ![p] = Tail(prog[p])]
         \/ at = "batch" /\ prog' = prog,
         UNCHANGED <<proc, irq, put>>
  PROVE  LockInv'
  <1>1. /\ Types /\ panic = Fine /\ cpu[c] \in CpuRecord /\ cpu[c].proc = p /\ ~Busy(c)
        /\ \A m \in Lock : lock[m] = c <=> m \in Holds(pc[p], Call(p).op)
        /\ cpu[c].noff = Depth(pc[p]) /\ put[c].saw = 0
        /\ cpu[c].intr = IF pc[p] \in Outside THEN 1 ELSE 0
        /\ cpu[c].noff > 0 => cpu[c].intena = 1
        /\ irq[c].at = "none" /\ Resumable(p)
    BY InCall
  <1> DEFINE l == LockOf(Call(p).op)
  <1>2. /\ Depth(pc[p]) = 1 /\ Depth(at) = 0 /\ pc[p] \notin Outside /\ at \in Outside
        /\ \A op : Holds(pc[p], op) = {LockOf(op)} /\ Holds(at, op) = {}
    BY DEF Depth, Holds, Inside, Outside
  <1>3. prog[p] # <<>> /\ l \in Lock /\ Tail(prog[p]) \in Program
    BY <1>1, CallType DEF Resumable
  <1>4. \A m \in Lock : lock[m] = c <=> m = l
    BY <1>1, <1>2
  <1> HIDE DEF l
  <1>5. /\ panic' = Fine /\ lock' = [lock EXCEPT ![l] = Free]
        /\ cpu' = [cpu EXCEPT ![c] = Popped(cpu[c])] /\ Popped(cpu[c]) \in CpuRecord
    BY <1>1, <1>2, <1>3, <1>4, Releases DEF l
  <1>6. /\ Popped(cpu[c]).intr = 1 /\ Popped(cpu[c]).noff = 0 /\ Popped(cpu[c]).proc = p
    BY <1>1, <1>2 DEF Popped
  <1>7. cpu' \in [Cpu -> CpuRecord] /\ cpu'[c] = Popped(cpu[c]) /\ \A d \in Cpu \ {c} : cpu'[d] = cpu[d]
    BY <1>1, <1>5 DEF Types, CpuRecord
  <1>8. PutShape' /\ put'[c].saw = 0 /\ (\A d \in Cpu \ {c} : put'[d] = put[d]) /\ ~Busy(c)'
    BY <1>1 DEF Types, PutShape, Busy
  <1>9. /\ lock' \in [Lock -> Cpu \cup {Free}] /\ \A m \in Lock : lock'[m] # c
        /\ \A d \in Cpu \ {c} : \A m \in Lock : lock'[m] = d <=> lock[m] = d
    BY <1>1, <1>3, <1>4, <1>5, SpinlockAssumption DEF Types
  <1>10. /\ prog' \in [Proc -> Program] /\ \A q \in Proc \ {p} : prog'[q] = prog[q]
         /\ at # "user" => prog'[p] # <<>>
    <2>1. prog \in [Proc -> Program]
      BY <1>1 DEF Types, Program
    <2> QED
      BY <1>3, <2>1
  <1>11. /\ cpu'[c].intr = (IF at \in Outside THEN 1 ELSE 0) /\ cpu'[c].noff = Depth(at) /\ cpu'[c].proc = p
         /\ ~(cpu'[c].noff > 0) /\ \A m \in Lock : lock'[m] = c <=> m \in Holds(at, Head(prog'[p]).op)
    BY <1>2, <1>6, <1>7, <1>9
  <1>12. Advances(c, p, at)
    BY <1>5, <1>7, <1>8, <1>9, <1>10, <1>11 DEF Advances
  <1> QED
    BY <1>2, <1>12, CallStep

(* It sleeps: sched() finds no other lock held. *)
LEMMA CallSleeps ==
  ASSUME LockInv, NEW c \in Cpu, NEW p \in Proc, Runs(c, p), pc[p] = "in",
         NEW ch \in {"tx_chan", "cons.r", "ticks"}, SleepsOn(c, p, LockOf(Call(p).op), ch),
         UNCHANGED <<irq, put>>
  PROVE  LockInv'
  <1>1. /\ Types /\ panic = Fine /\ cpu[c] \in CpuRecord /\ cpu[c].proc = p /\ ~Busy(c)
        /\ \A m \in Lock : lock[m] = c <=> m \in Holds(pc[p], Call(p).op)
        /\ cpu[c].noff = Depth(pc[p]) /\ put[c].saw = 0
        /\ cpu[c].intr = IF pc[p] \in Outside THEN 1 ELSE 0
        /\ cpu[c].noff > 0 => cpu[c].intena = 1
        /\ irq[c].at = "none" /\ Resumable(p)
    BY InCall
  <1> DEFINE l == LockOf(Call(p).op)
  <1>2. /\ Depth(pc[p]) = 1 /\ pc[p] \notin Outside /\ "woken" \in Outside
        /\ \A op : Holds(pc[p], op) = {LockOf(op)}
    BY DEF Depth, Holds, Inside, Outside
  <1>3. prog[p] # <<>> /\ l \in Lock
    BY <1>1, CallType DEF Resumable
  <1>4. \A m \in Lock : lock[m] = c <=> m = l
    BY <1>1, <1>2
  <1>5. /\ lock' = [lock EXCEPT ![l] = Free] /\ cpu' = [cpu EXCEPT ![c] = InScheduler]
        /\ proc' = [proc EXCEPT ![p] = [state |-> "SLEEPING", chan |-> ch, intr |-> 1]]
        /\ pc' = [pc EXCEPT ![p] = "woken"] /\ prog' = prog
    <2>1. cpu[c].intena = 1 /\ cpu[c].proc = p
      BY <1>1, <1>2
    <2> HIDE DEF l
    <2> QED
      BY <2>1 DEF SleepsOn, sleep, l
  <1>6. panic' = Fine
    BY <1>1, <1>2, <1>3, <1>4 DEF SleepsOn, sleep, First, holding
  <1> HIDE DEF l
  <1>7. /\ lock' \in [Lock -> Cpu \cup {Free}] /\ \A m \in Lock : lock'[m] # c
        /\ \A d \in Cpu \ {c} : \A m \in Lock : lock'[m] = d <=> lock[m] = d
    BY <1>1, <1>3, <1>4, <1>5, SpinlockAssumption DEF Types
  <1>8. /\ proc' \in [Proc -> ProcRecord] /\ \A q \in Proc : q # cpu[c].proc => proc'[q] = proc[q]
        /\ proc'[p].intr = 1
    BY <1>1, <1>5 DEF Types, ProcRecord
  <1>9. /\ pc' \in [Proc -> Outside \cup Inside] /\ pc'[p] = "woken"
        /\ prog' \in [Proc -> Seq([op : Op, n : Nat, ok : BOOLEAN])]
        /\ \A q \in Proc : q # cpu[c].proc => pc'[q] = pc[q] /\ prog'[q] = prog[q]
    BY <1>1, <1>2, <1>5 DEF Types
  <1>10. \A q \in Proc : q = cpu[c].proc => Resumable(q)'
    BY <1>1, <1>2, <1>3, <1>5, <1>8, <1>9 DEF Resumable
  <1>11. /\ irq'[c].at = "none" /\ irq' = [d \in Cpu |-> [at |-> irq'[d].at, c |-> irq'[d].c]]
         /\ (\A d \in Cpu \ {c} : irq'[d] = irq[d]) /\ put' = put
    BY <1>1 DEF Types
  <1> QED
    BY <1>1, <1>5, <1>6, <1>7, <1>8, <1>9, <1>10, <1>11, GivesUp

(* A system call that returns without having taken a lock, or between two batches. *)
LEMMA CallReturns ==
  ASSUME LockInv, NEW c \in Cpu, NEW p \in Proc, Runs(c, p), pc[p] \in Outside, prog[p] # <<>>, Return(p),
         UNCHANGED <<cpu, panic, lock, proc, irq, put>>
  PROVE  LockInv'
  <1>1. /\ Types /\ panic = Fine /\ cpu[c] \in CpuRecord /\ cpu[c].proc = p /\ ~Busy(c)
        /\ \A m \in Lock : lock[m] = c <=> m \in Holds(pc[p], Call(p).op)
        /\ cpu[c].noff = Depth(pc[p]) /\ put[c].saw = 0 /\ cpu[c].intr = 1
    BY InCall
  <1>2. /\ Depth(pc[p]) = 0 /\ Depth("user") = 0 /\ "user" \in Outside
        /\ \A op : Holds(pc[p], op) = {} /\ Holds("user", op) = {}
    BY DEF Depth, Holds, Inside, Outside
  <1>3. Tail(prog[p]) \in Program
    BY <1>1, CallType
  <1>4. pc' = [pc EXCEPT ![p] = "user"] /\ prog' = [prog EXCEPT ![p] = Tail(prog[p])]
    BY DEF Return
  <1>5. prog' \in [Proc -> Program] /\ \A q \in Proc \ {p} : prog'[q] = prog[q]
    BY <1>1, <1>3, <1>4 DEF Types, Program
  <1>6. /\ cpu' \in [Cpu -> CpuRecord] /\ cpu'[c] = cpu[c] /\ \A d \in Cpu \ {c} : cpu'[d] = cpu[d]
        /\ lock' \in [Lock -> Cpu \cup {Free}]
    BY <1>1 DEF Types, CpuRecord
  <1>7. PutShape' /\ put'[c].saw = 0 /\ (\A d \in Cpu \ {c} : put'[d] = put[d]) /\ ~Busy(c)'
    BY <1>1 DEF Types, PutShape, Busy
  <1>8. /\ cpu'[c].intr = (IF "user" \in Outside THEN 1 ELSE 0) /\ cpu'[c].noff = Depth("user") /\ cpu'[c].proc = p
        /\ ~(cpu'[c].noff > 0) /\ panic' = Fine
        /\ \A m \in Lock : lock'[m] = c <=> m \in Holds("user", Head(prog'[p]).op)
    BY <1>1, <1>2, <1>6
  <1>9. Advances(c, p, "user")
    BY <1>4, <1>5, <1>6, <1>7, <1>8 DEF Advances
  <1> QED
    BY <1>2, <1>9, CallStep
=============================================================================
