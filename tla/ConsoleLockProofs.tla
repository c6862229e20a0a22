------------------------- MODULE ConsoleLockProofs --------------------------
(*****************************************************************************)
(* The processes and uartputc_sync() keep LockInv, so that the spin locks of *)
(* Console never panic.                                                      *)
(*****************************************************************************)
EXTENDS ConsoleHandlerProofs, ConsoleCallProofs

(* A step of uartputc_sync(), which nests one more push_off(). *)
LEMMA PutStep ==
  ASSUME LockInv, NEW c \in Cpu, Busy(c),
         cpu' \in [Cpu -> CpuRecord], \A d \in Cpu \ {c} : cpu'[d] = cpu[d],
         cpu'[c].proc = cpu[c].proc, cpu'[c].intr = 0, cpu'[c].intena = cpu[c].intena,
         cpu'[c].noff = Depth(Pos(c)) + put'[c].saw,
         PutShape', \A d \in Cpu \ {c} : put'[d] = put[d], put'[c].saw = 1 => Busy(c)',
         UNCHANGED <<lock, proc, irq, pc, prog>>, panic' = Fine
  PROVE  LockInv'
  <1>0. Types /\ Alone /\ WellPlaced(c) /\ \A p \in Proc : Resumable(p)
    BY DEF LockInv
  <1>1. Frame(c)
    BY DEF Frame
  <1>2. Types'
    BY <1>0 DEF Types, CpuRecord
  <1>3. Alone'
    BY <1>0 DEF Alone
  <1>4. WellPlaced(c)'
    <2>1. Pos(c)' = Pos(c) /\ Pos(c) \in {"in", "store", "dumped"}
      BY <1>0 DEF Pos, WellPlaced
    <2>2. Depth(Pos(c)) \in {1, 2} /\ Pos(c) \notin Outside \cup {"idle"}
      BY <2>1 DEF Depth, Inside, Outside
    <2>3. put[c].saw \in {0, 1} /\ put'[c].saw \in {0, 1}
      BY <1>0 DEF Types, PutShape
    <2>4. cpu[c].noff > 0 /\ cpu'[c].noff > 0
      BY <1>0, <2>2, <2>3 DEF WellPlaced
    <2>5. (\A l \in Lock : lock[l] = c <=> l \in Holds(Pos(c), Call(cpu[c].proc).op))'
      BY <1>0, <2>1 DEF WellPlaced, Call
    <2>6. cpu'[c].intena = IF irq[c].at = "none" THEN 1 ELSE 0
      BY <1>0, <2>4 DEF WellPlaced
    <2>7. cpu'[c].proc # Idle =>
            /\ proc'[cpu'[c].proc].state = "RUNNING"
            /\ irq'[c].at # "none" => pc'[cpu'[c].proc] \in Outside
      BY <1>0 DEF WellPlaced
    <2> QED
      BY <2>1, <2>2, <2>4, <2>5, <2>6, <2>7 DEF WellPlaced
  <1>5. \A p \in Proc : Resumable(p)'
    BY <1>0 DEF Resumable
  <1> QED
    BY <1>1, <1>2, <1>3, <1>4, <1>5, Local

(* Its two steps. *)
LEMMA Lock_put ==
  ASSUME LockInv, NEW c \in Cpu, uartputc_wait(c) \/ uartputc_put(c) PROVE LockInv'
  <1>0. Types /\ panic = Fine /\ WellPlaced(c) /\ cpu[c] \in CpuRecord /\ put[c].saw \in {0, 1} /\ PutShape
    BY DEF LockInv, Types, CpuRecord, PutShape
  <1>1. Busy(c) /\ UNCHANGED <<lock, proc, irq, pc, prog>>
    BY <1>0 DEF uartputc_wait, uartputc_put, procVars, WellPlaced
  <1>2. Depth(Pos(c)) \in {1, 2} /\ cpu[c].intr = 0 /\ cpu[c].noff = Depth(Pos(c)) + put[c].saw
    <2>1. Pos(c) \in {"in", "store", "dumped"}
      BY <1>0, <1>1 DEF WellPlaced
    <2> QED
      BY <1>0, <2>1 DEF WellPlaced, Depth, Inside, Outside
  <1>3. CASE uartputc_wait(c)
    <2>1. /\ put' = [put EXCEPT ![c].saw = 1] /\ put[c].saw = 0 /\ panic' = Fine
          /\ cpu' = [cpu EXCEPT ![c] = Pushed(cpu[c])] /\ Pushed(cpu[c]) \in CpuRecord
      BY <1>0, <1>3, Nesting DEF uartputc_wait
    <2>2. PutShape' /\ put'[c].saw = 1 /\ put'[c].n = put[c].n /\ \A d \in Cpu \ {c} : put'[d] = put[d]
      BY <1>0, <2>1 DEF PutShape
    <2>3. /\ Pushed(cpu[c]).proc = cpu[c].proc /\ Pushed(cpu[c]).intr = 0 /\ Pushed(cpu[c]).intena = cpu[c].intena
          /\ Pushed(cpu[c]).noff = Depth(Pos(c)) + put'[c].saw
      BY <1>2, <2>1, <2>2 DEF Pushed
    <2>4. Busy(c)'
      BY <1>1, <2>2 DEF Busy
    <2>5. cpu' \in [Cpu -> CpuRecord] /\ cpu'[c] = Pushed(cpu[c]) /\ \A d \in Cpu \ {c} : cpu'[d] = cpu[d]
      BY <1>0, <2>1 DEF Types, CpuRecord
    <2> QED
      BY <1>1, <2>1, <2>2, <2>3, <2>4, <2>5, PutStep
  <1>4. CASE uartputc_put(c)
    <2>1. /\ put' = [put EXCEPT ![c] = [n |-> put[c].n - 1, saw |-> 0]] /\ put[c].saw = 1
          /\ panic' = First(PopOffCheck(cpu[c]))
          /\ cpu' = [cpu EXCEPT ![c] = Popped(cpu[c])] /\ Popped(cpu[c]) \in CpuRecord
      BY <1>0, <1>4, Nesting DEF uartputc_put
    <2>2. panic' = Fine
      BY <1>0, <1>2, <2>1 DEF First, PopOffCheck
    <2>3. PutShape' /\ put'[c].saw = 0 /\ \A d \in Cpu \ {c} : put'[d] = put[d]
      BY <1>0, <2>1 DEF PutShape
    <2>4. /\ Popped(cpu[c]).proc = cpu[c].proc /\ Popped(cpu[c]).intr = 0 /\ Popped(cpu[c]).intena = cpu[c].intena
          /\ Popped(cpu[c]).noff = Depth(Pos(c)) + put'[c].saw
      BY <1>2, <2>1, <2>3 DEF Popped
    <2>5. cpu' \in [Cpu -> CpuRecord] /\ cpu'[c] = Popped(cpu[c]) /\ \A d \in Cpu \ {c} : cpu'[d] = cpu[d]
      BY <1>0, <2>1 DEF Types, CpuRecord
    <2> QED
      BY <1>1, <2>1, <2>2, <2>3, <2>4, <2>5, PutStep
  <1> QED
    BY <1>3, <1>4

(* A step that touches no hart: keys, the transmitter, kill(). *)
LEMMA CalmStep ==
  ASSUME LockInv, Calm, UNCHANGED <<cpu, lock, panic, irq, put, pc, prog>> PROVE LockInv'
  <1>0. Types /\ Alone /\ panic = Fine /\ \A p \in Proc : Resumable(p)
    BY DEF LockInv
  <1>1. Types'
    BY <1>0 DEF Types, PutShape, Calm, ProcRecord
  <1>2. ASSUME NEW c \in Cpu PROVE WellPlaced(c)'
    <2>1. cpu[c] \in CpuRecord /\ WellPlaced(c)
      BY <1>0 DEF LockInv, Types, CpuRecord
    <2>2. cpu[c].proc # Idle => proc'[cpu[c].proc].state = "RUNNING"
      BY <2>1 DEF CpuRecord, WellPlaced, Calm
    <2>3. Pos(c)' = Pos(c) /\ Busy(c)' = Busy(c)
      BY DEF Pos, Busy
    <2>4. (\A l \in Lock : lock[l] = c <=> l \in Holds(Pos(c), Call(cpu[c].proc).op))'
      BY <2>1, <2>3 DEF WellPlaced, Call
    <2> QED
      BY <2>1, <2>2, <2>3, <2>4 DEF WellPlaced
  <1> QED
    BY <1>0, <1>1, <1>2 DEF LockInv, Alone, Resumable, Calm

-----------------------------------------------------------------------------
(* The last sched() of kexit(). *)
LEMMA Lock_exits ==
  ASSUME LockInv, NEW c \in Cpu, NEW p \in Proc, exits(c, p) PROVE LockInv'
  <1>0. /\ Runs(c, p) /\ pc[p] = "user" /\ cpu' = [cpu EXCEPT ![c] = InScheduler]
        /\ proc' = [proc EXCEPT ![cpu[c].proc].state = "ZOMBIE"] /\ prog' = [prog EXCEPT ![p] = <<>>]
        /\ UNCHANGED <<lock, panic, irq, put, pc>>
    BY DEF exits, kexit
  <1>1. /\ Types /\ panic = Fine /\ cpu[c].proc = p /\ ~Busy(c)
        /\ \A m \in Lock : lock[m] = c <=> m \in Holds(pc[p], Call(p).op)
        /\ irq[c].at = "none" /\ Resumable(p)
    BY <1>0, InCall
  <1>2. \A m \in Lock : lock[m] # c
    BY <1>0, <1>1 DEF Holds
  <1>3. proc' \in [Proc -> ProcRecord] /\ proc'[p].intr = proc[p].intr /\ \A q \in Proc : q # p => proc'[q] = proc[q]
    <2>1. proc \in [Proc -> ProcRecord]
      BY <1>1 DEF Types, ProcRecord
    <2>2. [proc[p] EXCEPT !.state = "ZOMBIE"] = [state |-> "ZOMBIE", chan |-> proc[p].chan, intr |-> proc[p].intr]
      BY <2>1 DEF ProcRecord
    <2>3. proc' = [proc EXCEPT ![p] = [state |-> "ZOMBIE", chan |-> proc[p].chan, intr |-> proc[p].intr]]
      BY <1>0, <1>1, <2>2
    <2> QED
      BY <2>1, <2>3 DEF ProcRecord
  <1>4. /\ prog' \in [Proc -> Seq([op : Op, n : Nat, ok : BOOLEAN])]
        /\ \A q \in Proc : q # p => pc'[q] = pc[q] /\ prog'[q] = prog[q]
    <2>1. <<>> \in Seq([op : Op, n : Nat, ok : BOOLEAN])
      OBVIOUS
    <2> QED
      BY <1>0, <1>1, <2>1 DEF Types
  <1>5. \A q \in Proc : q = cpu[c].proc => Resumable(q)'
    BY <1>0, <1>1, <1>3 DEF Resumable, Outside
  <1>6. /\ irq'[c].at = "none" /\ irq' = [d \in Cpu |-> [at |-> irq'[d].at, c |-> irq'[d].c]]
        /\ (\A d \in Cpu \ {c} : irq'[d] = irq[d]) /\ put' = put /\ panic' = Fine
        /\ lock' \in [Lock -> Cpu \cup {Free}] /\ (\A m \in Lock : lock'[m] # c)
        /\ (\A d \in Cpu \ {c} : \A m \in Lock : lock'[m] = d <=> lock[m] = d)
        /\ pc' \in [Proc -> Outside \cup Inside]
    BY <1>0, <1>1, <1>2 DEF Types
  <1> QED
    BY <1>0, <1>1, <1>3, <1>4, <1>5, <1>6, GivesUp

(* scheduler() starts a process, which holds nothing and has interrupts on. *)
LEMMA Lock_schedule ==
  ASSUME LockInv, NEW c \in Cpu, NEW p \in Proc, schedule(c, p) PROVE LockInv'
  <1>0. Types /\ Alone /\ panic = Fine /\ WellPlaced(c) /\ cpu[c] \in CpuRecord /\ \A q \in Proc : Resumable(q)
    BY DEF LockInv, Types, CpuRecord
  <1>1. /\ irq[c].at = "none" /\ cpu[c].proc = Idle /\ proc[p].state = "RUNNABLE"
        /\ UNCHANGED <<lock, panic, irq, put, pc, prog>>
    BY DEF schedule, scheduler, procVars
  <1>2. Pos(c) = "idle"
    BY <1>1 DEF Pos
  <1>3. /\ \A m \in Lock : lock[m] # c
        /\ cpu[c].noff = 0 /\ put[c].saw = 0 /\ ~Busy(c)
    <2>1. cpu[c].intr = 1
      BY <1>0, <1>2 DEF WellPlaced
    <2> QED
      BY <1>1, <2>1, Interruptible
  <1> DEFINE k == [intr |-> 1, noff |-> 0, intena |-> cpu[c].intena, proc |-> p]
  <1>4. cpu' = [cpu EXCEPT ![c] = k] /\ k \in CpuRecord
    <2> DEFINE j == [cpu[c] EXCEPT !.proc = p]
    <2>1. j = [intr |-> cpu[c].intr, noff |-> 0, intena |-> cpu[c].intena, proc |-> p]
      BY <1>0, <1>3 DEF CpuRecord
    <2>2. proc[p].intr = 1
      BY <1>0 DEF Resumable
    <2>3. cpu' = [cpu EXCEPT ![c] = [j EXCEPT !.intr = 1]]
      BY <1>0, <2>2 DEF schedule, scheduler, Types
    <2> HIDE DEF j
    <2>4. [j EXCEPT !.intr = 1] = k
      BY <2>1
    <2>5. cpu[c].intena \in {0, 1}
      BY <1>0 DEF CpuRecord
    <2>6. k \in CpuRecord
      BY <2>5 DEF CpuRecord
    <2> QED
      BY <2>3, <2>4, <2>6
  <1>5. cpu'[c] = k /\ cpu' \in [Cpu -> CpuRecord] /\ \A d \in Cpu \ {c} : cpu'[d] = cpu[d]
    BY <1>0, <1>4 DEF Types, CpuRecord
  <1>6. /\ proc' \in [Proc -> ProcRecord] /\ proc'[p].state = "RUNNING" /\ proc'[p].intr = 1
        /\ \A q \in Proc : q # p => proc'[q] = proc[q]
    <2>1. proc \in [Proc -> ProcRecord] /\ proc[p].intr = 1
      BY <1>0 DEF Types, ProcRecord, Resumable
    <2>2. [proc[p] EXCEPT !.state = "RUNNING"] = [state |-> "RUNNING", chan |-> proc[p].chan, intr |-> proc[p].intr]
      BY <2>1 DEF ProcRecord
    <2>3. proc' = [proc EXCEPT ![p] = [state |-> "RUNNING", chan |-> proc[p].chan, intr |-> proc[p].intr]]
      BY <2>2 DEF schedule, scheduler
    <2> QED
      BY <2>1, <2>3 DEF ProcRecord
  <1>7. Frame(c)
    BY <1>1, <1>5, <1>6 DEF Frame
  <1>8. Types'
    <2>1. PutShape'
      BY <1>0, <1>1 DEF Types, PutShape
    <2>2. irq' = [d \in Cpu |-> [at |-> irq'[d].at, c |-> irq'[d].c]] /\ \A d \in Cpu : irq'[d].at \in Handlers \cup {"none"}
      BY <1>0, <1>1 DEF Types
    <2> QED
      BY <1>0, <1>1, <1>5, <1>6, <2>1, <2>2 DEF Types, CpuRecord, ProcRecord
  <1>9. Alone'
    <2>1. ASSUME NEW d \in Cpu PROVE cpu[d].proc # p
      <3>1. WellPlaced(d)
        BY DEF LockInv
      <3> QED
        BY <1>1, <3>1, SpinlockAssumption DEF WellPlaced
    <2> QED
      <3> SUFFICES ASSUME NEW a \in Cpu, NEW b \in Cpu, a # b, cpu'[a].proc = cpu'[b].proc
                   PROVE  cpu'[a].proc = Idle
        BY DEF Alone
      <3>1. cpu'[c].proc = p
        BY <1>5
      <3>2. a # c /\ b # c
        BY <1>5, <2>1, <3>1
      <3> QED
        BY <1>0, <1>5, <3>2 DEF Alone
  <1>10. WellPlaced(c)'
    <2>1. pc[p] \in Outside
      BY <1>0, <1>1 DEF Resumable
    <2>2. Pos(c)' = pc[p]
      <3>1. cpu'[c].proc = p /\ p # Idle
        BY <1>5, SpinlockAssumption
      <3> QED
        BY <1>1, <3>1 DEF Pos
    <2>3. Depth(pc[p]) = 0 /\ \A op : Holds(pc[p], op) = {}
      BY <2>1 DEF Depth, Holds, Outside, Inside
    <2>4. (\A l \in Lock : lock[l] = c <=> l \in Holds(Pos(c), Call(cpu[c].proc).op))'
      BY <1>1, <1>3, <2>2, <2>3
    <2>5. ~Busy(c)' /\ put'[c].saw = 0
      BY <1>1, <1>3 DEF Busy
    <2> QED
      BY <1>1, <1>5, <1>6, <2>1, <2>2, <2>3, <2>4, <2>5 DEF WellPlaced
  <1>11. ASSUME NEW q \in Proc PROVE Resumable(q)'
    BY <1>0, <1>1, <1>6 DEF Resumable
  <1> QED
    BY <1>0, <1>1, <1>7, <1>8, <1>9, <1>10, <1>11, Local

(* A step under the lock that touches no lock. *)
LEMMA CallStays ==
  ASSUME LockInv, UNCHANGED <<lockVars, irq, put, pc, prog>> PROVE LockInv'
  <1>1. UNCHANGED <<cpu, lock, proc, panic, irq, put, pc, prog>>
    BY DEF lockVars
  <1>2. Calm
    BY <1>1, UnchangedIsCalm DEF LockInv
  <1> QED
    BY <1>1, <1>2, CalmStep

(* Every step of a process keeps the invariant: it sleeps and returns with no other lock. *)
LEMMA Lock_Process ==
  ASSUME LockInv, NEW c \in Cpu, NEW p \in Proc, Process(c, p) PROVE LockInv'
  <1>0. Types /\ Resumable(p) /\ Lock = {"cons", "tx", "pr", "tickslock"}
    BY ConsoleAssumption DEF LockInv
  <1>1. CASE syscall(c, p)
    <2>1. /\ Runs(c, p) /\ pc[p] \in Outside /\ prog[p] # <<>> /\ acquire(c, LockOf(Call(p).op))
          /\ pc' = [pc EXCEPT ![p] = "spin"] /\ UNCHANGED <<lock, proc, irq, put, prog>>
      BY <1>1 DEF syscall, Outside
    <2>2. LockOf(Call(p).op) \in Lock
      BY <1>0, <2>1, CallType
    <2> QED
      BY <2>1, <2>2, CallAcquires
  <1>2. CASE consolewrite(c, p)
    <2>1. Runs(c, p) /\ pc[p] \in Outside /\ prog[p] # <<>> /\ UNCHANGED <<lock, proc, irq, put>>
      BY <1>2 DEF consolewrite, Calls, Outside
    <2>2. CASE acquire(c, "tx") /\ pc' = [pc EXCEPT ![p] = "spin"] /\ prog' = prog
      BY <1>0, <2>1, <2>2, CallAcquires
    <2>3. CASE Return(p) /\ UNCHANGED <<cpu, panic>>
      BY <2>1, <2>3, CallReturns
    <2> QED
      BY <1>2, <2>2, <2>3 DEF consolewrite
  <1>3. CASE resume(c, p)
    <2>1. /\ Runs(c, p) /\ pc[p] = "woken" /\ acquire(c, LockOf(Call(p).op))
          /\ pc' = [pc EXCEPT ![p] = "respin"] /\ UNCHANGED <<lock, proc, irq, put, prog>>
      BY <1>3 DEF resume
    <2>2. prog[p] # <<>> /\ pc[p] \in Outside
      BY <1>0, <2>1 DEF Resumable, Outside
    <2>3. LockOf(Call(p).op) \in Lock
      BY <1>0, <2>2, CallType
    <2> QED
      BY <2>1, <2>2, <2>3, CallAcquires
  <1>4. CASE enter(c, p)
    BY <1>4, CallTakes
  <1>5. CASE uartwrite(c, p)
    <2>1. Runs(c, p) /\ pc[p] = "in" /\ LockOf(Call(p).op) = "tx" /\ UNCHANGED <<irq, put>>
      BY <1>5 DEF uartwrite, In, Calls, LockOf
    <2>2. CASE SleepsOn(c, p, "tx", "tx_chan")
      BY <2>1, <2>2, CallSleeps
    <2>3. CASE UNCHANGED <<lockVars, pc, prog>>
      BY <2>1, <2>3, CallStays
    <2>4. CASE release(c, "tx") /\ pc' = [pc EXCEPT ![p] = "batch"] /\ UNCHANGED <<proc, prog>>
      BY <2>1, <2>4, CallReleases
    <2> QED
      BY <1>5, <2>2, <2>3, <2>4 DEF uartwrite
  <1>6. CASE printf(c, p)
    <2>1. /\ Runs(c, p) /\ pc[p] = "in" /\ LockOf(Call(p).op) = "pr" /\ UNCHANGED <<proc, irq, put>>
          /\ release(c, "pr") /\ Return(p)
      BY <1>6 DEF printf, In, Calls, LockOf
    <2> QED
      BY <2>1, CallReleases DEF Return
  <1>7. CASE consoleread(c, p)
    <2>1. Runs(c, p) /\ pc[p] = "in" /\ LockOf(Call(p).op) = "cons" /\ UNCHANGED <<irq, put>>
      BY <1>7 DEF consoleread, In, Calls, LockOf
    <2>2. CASE release(c, "cons") /\ Return(p) /\ UNCHANGED proc
      BY <2>1, <2>2, CallReleases DEF Return
    <2>3. CASE SleepsOn(c, p, "cons", "cons.r")
      BY <2>1, <2>3, CallSleeps
    <2>4. CASE UNCHANGED <<lockVars, pc, prog>>
      BY <2>1, <2>4, CallStays
    <2> QED
      BY <1>7, <2>2, <2>3, <2>4 DEF consoleread
  <1>8. CASE sys_pause(c, p)
    <2>1. Runs(c, p) /\ pc[p] = "in" /\ LockOf(Call(p).op) = "tickslock" /\ UNCHANGED <<irq, put>>
      BY <1>8 DEF sys_pause, In, Calls, LockOf
    <2>2. CASE release(c, "tickslock") /\ Return(p) /\ UNCHANGED proc
      BY <2>1, <2>2, CallReleases DEF Return
    <2>3. CASE SleepsOn(c, p, "tickslock", "ticks")
      BY <2>1, <2>3, CallSleeps
    <2> QED
      BY <1>8, <2>2, <2>3 DEF sys_pause
  <1>9. CASE exits(c, p)
    BY <1>9, Lock_exits
  <1>10. CASE schedule(c, p)
    BY <1>10, Lock_schedule
  <1> QED
    BY <1>1, <1>2, <1>3, <1>4, <1>5, <1>6, <1>7, <1>8, <1>9, <1>10 DEF Process

(* Every step keeps the invariant. *)
LEMMA LockStep ==
  ASSUME LockInv, [Next]_vars PROVE LockInv'
  <1>1. ASSUME NEW k \in left.on, key(k) PROVE LockInv'
    BY <1>1, CallStays DEF key, procVars
  <1>2. CASE transmit
    BY <1>2, CallStays DEF transmit, procVars
  <1>3. ASSUME NEW p \in Proc, kkill(p) PROVE LockInv'
    <2> DEFINE st == IF proc[p].state = "SLEEPING" THEN "RUNNABLE" ELSE proc[p].state
    <2>1. proc \in [Proc -> ProcRecord]
      BY DEF LockInv, Types, ProcRecord
    <2>2. [proc[p] EXCEPT !.state = st] = [state |-> st, chan |-> proc[p].chan, intr |-> proc[p].intr]
      BY <2>1 DEF ProcRecord
    <2>3. proc' = [proc EXCEPT ![p] = [state |-> st, chan |-> proc[p].chan, intr |-> proc[p].intr]]
      BY <1>3, <2>2 DEF kkill
    <2>4. Calm
      BY <2>1, <2>3 DEF Calm, ProcRecord
    <2> QED
      BY <1>3, <2>4, CalmStep DEF kkill
  <1>4. ASSUME NEW c \in Cpu, trap(c) PROVE LockInv'
    BY <1>4, Lock_trap
  <1>5. ASSUME NEW c \in Cpu, Hart(c) PROVE LockInv'
    BY <1>5, Lock_put, Lock_Handler, Lock_Process DEF Hart
  <1>6. CASE UNCHANGED vars
    BY <1>6, CallStays DEF vars, procVars
  <1> QED
    BY <1>1, <1>2, <1>3, <1>4, <1>5, <1>6 DEF Next

(* LocksNeverPanic: acquire(), release(), pop_off() and sched() never find what they panic at,
   whatever the programs and however interrupts fall. *)
THEOREM LocksAreSafe == Spec => []LocksNeverPanic
  <1>1. Init => LockInv
    <2> SUFFICES ASSUME NEW s \in Scenario, Start(s) PROVE LockInv
      BY DEF Init
    <2>1. /\ cpu = [c \in Cpu |-> InScheduler] /\ lock = [l \in Lock |-> Free] /\ panic = Fine
          /\ proc = [p \in Proc |-> [state |-> "RUNNABLE", chan |-> "none", intr |-> 1]]
          /\ irq = [c \in Cpu |-> NoIrq] /\ put = [c \in Cpu |-> NoPut] /\ pc = [p \in Proc |-> "user"]
          /\ prog \in [Proc -> Seq([op : Op, n : Nat, ok : BOOLEAN])]
      BY ConsoleAssumption DEF Start, LockInit
    <2>2. PutShape
      BY <2>1 DEF PutShape, NoPut
    <2>3. Types
      <3>1. cpu \in [Cpu -> CpuRecord]
        BY <2>1 DEF CpuRecord, InScheduler
      <3>2. lock \in [Lock -> Cpu \cup {Free}] /\ proc \in [Proc -> ProcRecord]
        BY <2>1 DEF ProcRecord
      <3>3. irq = [c \in Cpu |-> [at |-> irq[c].at, c |-> irq[c].c]] /\ \A c \in Cpu : irq[c].at = "none"
        BY <2>1 DEF NoIrq
      <3>4. pc \in [Proc -> Outside \cup Inside]
        BY <2>1 DEF Outside
      <3> QED
        BY <2>1, <2>2, <3>1, <3>2, <3>3, <3>4 DEF Types, CpuRecord, ProcRecord
    <2>4. Alone
      BY <2>1 DEF Alone, InScheduler
    <2>5. ASSUME NEW c \in Cpu PROVE WellPlaced(c)
      <3>1. Pos(c) = "idle" /\ Depth("idle") = 0 /\ \A op : Holds("idle", op) = {}
        BY <2>1 DEF Pos, InScheduler, NoIrq, Depth, Inside, Holds
      <3>2. ~Busy(c) /\ put[c].saw = 0
        BY <2>1 DEF Busy, NoPut
      <3>3. \A l \in Lock : lock[l] # c
        BY <2>1, SpinlockAssumption
      <3> QED
        BY <2>1, <3>1, <3>2, <3>3 DEF WellPlaced, InScheduler
    <2>6. \A p \in Proc : Resumable(p)
      BY <2>1 DEF Resumable, Outside
    <2> QED
      BY <2>1, <2>3, <2>4, <2>5, <2>6 DEF LockInv
  <1>2. LockInv /\ [Next]_vars => LockInv'
    BY LockStep
  <1>3. LockInv => LocksNeverPanic
    BY DEF LockInv, LocksNeverPanic
  <1> QED
    BY <1>1, <1>2, <1>3, PTL DEF Spec
=============================================================================
