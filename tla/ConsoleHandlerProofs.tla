------------------------ MODULE ConsoleHandlerProofs ------------------------
(*****************************************************************************)
(* The interrupt handlers of Console keep LockInv.                           *)
(*****************************************************************************)
EXTENDS ConsoleLocks

(* A handler reaches the loop of acquire(), for a lock that it does not hold. *)
LEMMA HandlerAcquires ==
  ASSUME LockInv, NEW c \in Cpu, irq[c].at # "none", ~Busy(c), NEW l \in Lock, acquire(c, l),
         NEW at \in Handlers, NEW ch, irq' = [irq EXCEPT ![c] = [at |-> at, c |-> ch]],
         l \notin Holds(irq[c].at, "read"), Holds(at, "read") = Holds(irq[c].at, "read"),
         Depth(at) = Depth(irq[c].at) + 1,
         UNCHANGED <<put, lock, proc, pc, prog>>
  PROVE  LockInv'
  <1>1. /\ Types /\ panic = Fine /\ cpu[c] \in CpuRecord
        /\ \A m \in Lock : lock[m] = c <=> m \in Holds(irq[c].at, "read")
        /\ cpu[c].noff = Depth(irq[c].at) + put[c].saw /\ cpu[c].intr = 0
        /\ cpu[c].noff > 0 => cpu[c].intena = 0
        /\ put[c].saw = 0
        /\ cpu[c].proc # Idle => pc[cpu[c].proc] \in Outside
    BY InHandler
  <1>2. Depth(at) \in {0, 1, 2} /\ Depth(irq[c].at) \in {0, 1, 2}
    BY DEF Depth
  <1>3. /\ irq'[c] = [at |-> at, c |-> ch] /\ \A d \in Cpu \ {c} : irq'[d] = irq[d]
        /\ irq' = [d \in Cpu |-> [at |-> irq'[d].at, c |-> irq'[d].c]]
    BY <1>1, IrqStep
  <1>4. panic' = Fine /\ cpu' = [cpu EXCEPT ![c] = Pushed(cpu[c])] /\ Pushed(cpu[c]) \in CpuRecord
    BY <1>1, Acquires
  <1>5. /\ Pushed(cpu[c]).intr = 0 /\ Pushed(cpu[c]).noff = Depth(at)
        /\ Pushed(cpu[c]).intena = 0 /\ Pushed(cpu[c]).proc = cpu[c].proc
    BY <1>1, <1>2 DEF Pushed, CpuRecord
  <1>6. cpu' \in [Cpu -> CpuRecord] /\ cpu'[c] = Pushed(cpu[c]) /\ \A d \in Cpu \ {c} : cpu'[d] = cpu[d]
    BY <1>1, <1>4 DEF Types, CpuRecord
  <1>7. PutShape' /\ put'[c].saw = 0 /\ (\A d \in Cpu \ {c} : put'[d] = put[d]) /\ ~Busy(c)'
    BY <1>1 DEF Types, PutShape, Busy
  <1>8. Calm /\ lock' \in [Lock -> Cpu \cup {Free}]
    BY <1>1, UnchangedIsCalm DEF Types
  <1>9. Steps(c, at)
    BY <1>1, <1>3, <1>4, <1>5, <1>6, <1>7, <1>8 DEF Steps
  <1> QED
    BY <1>9, HandlerStep

(* It gets the lock. *)
LEMMA HandlerTakes ==
  ASSUME LockInv, NEW c \in Cpu, irq[c].at # "none", ~Busy(c), NEW l \in Lock, test_and_set(c, l),
         NEW at \in Handlers, NEW ch, irq' = [irq EXCEPT ![c] = [at |-> at, c |-> ch]],
         Holds(at, "read") = Holds(irq[c].at, "read") \cup {l},
         Depth(at) = Depth(irq[c].at), Depth(at) > 0,
         UNCHANGED <<put, cpu, panic, proc, pc, prog>>
  PROVE  LockInv'
  <1>1. /\ Types /\ panic = Fine /\ cpu[c] \in CpuRecord
        /\ \A m \in Lock : lock[m] = c <=> m \in Holds(irq[c].at, "read")
        /\ cpu[c].noff = Depth(irq[c].at) + put[c].saw /\ cpu[c].intr = 0
        /\ cpu[c].noff > 0 => cpu[c].intena = 0
        /\ put[c].saw = 0
        /\ cpu[c].proc # Idle => pc[cpu[c].proc] \in Outside
    BY InHandler
  <1>2. Depth(at) \in {0, 1, 2} /\ Depth(irq[c].at) \in {0, 1, 2}
    BY DEF Depth
  <1>3. /\ irq'[c] = [at |-> at, c |-> ch] /\ \A d \in Cpu \ {c} : irq'[d] = irq[d]
        /\ irq' = [d \in Cpu |-> [at |-> irq'[d].at, c |-> irq'[d].c]]
    BY <1>1, IrqStep
  <1>4. /\ lock' \in [Lock -> Cpu \cup {Free}] /\ lock[l] = Free
        /\ \A d \in Cpu \ {c} : \A m \in Lock : lock'[m] = d <=> lock[m] = d
        /\ \A m \in Lock : lock'[m] = c <=> (lock[m] = c \/ m = l)
    BY <1>1, SpinlockAssumption DEF Types, test_and_set
  <1>5. \A m \in Lock : lock'[m] = c <=> m \in Holds(at, "read")
    BY <1>1, <1>4
  <1>6. cpu' \in [Cpu -> CpuRecord] /\ cpu'[c] = cpu[c] /\ \A d \in Cpu \ {c} : cpu'[d] = cpu[d]
    BY <1>1 DEF Types, CpuRecord
  <1>7. PutShape' /\ put'[c].saw = 0 /\ (\A d \in Cpu \ {c} : put'[d] = put[d]) /\ ~Busy(c)'
    BY <1>1 DEF Types, PutShape, Busy
  <1>8. Calm
    BY <1>1, UnchangedIsCalm
  <1>9. Steps(c, at)
    BY <1>1, <1>2, <1>3, <1>4, <1>5, <1>6, <1>7, <1>8 DEF Steps
  <1> QED
    BY <1>9, HandlerStep

(* It releases a lock that it holds. *)
LEMMA HandlerReleases ==
  ASSUME LockInv, NEW c \in Cpu, irq[c].at # "none", ~Busy(c), NEW l \in Lock, release(c, l),
         NEW at \in Handlers, NEW ch, irq' = [irq EXCEPT ![c] = [at |-> at, c |-> ch]],
         l \in Holds(irq[c].at, "read"), Holds(at, "read") = Holds(irq[c].at, "read") \ {l},
         Depth(irq[c].at) = Depth(at) + 1,
         Calm, UNCHANGED <<put, pc, prog>>
  PROVE  LockInv'
  <1>1. /\ Types /\ panic = Fine /\ cpu[c] \in CpuRecord
        /\ \A m \in Lock : lock[m] = c <=> m \in Holds(irq[c].at, "read")
        /\ cpu[c].noff = Depth(irq[c].at) + put[c].saw /\ cpu[c].intr = 0
        /\ cpu[c].noff > 0 => cpu[c].intena = 0
        /\ put[c].saw = 0
        /\ cpu[c].proc # Idle => pc[cpu[c].proc] \in Outside
    BY InHandler
  <1>2. Depth(at) \in {0, 1, 2} /\ Depth(irq[c].at) \in {0, 1, 2}
    BY DEF Depth
  <1>3. /\ irq'[c] = [at |-> at, c |-> ch] /\ \A d \in Cpu \ {c} : irq'[d] = irq[d]
        /\ irq' = [d \in Cpu |-> [at |-> irq'[d].at, c |-> irq'[d].c]]
    BY <1>1, IrqStep
  <1>4. /\ panic' = Fine /\ lock' = [lock EXCEPT ![l] = Free]
        /\ cpu' = [cpu EXCEPT ![c] = Popped(cpu[c])] /\ Popped(cpu[c]) \in CpuRecord
    BY <1>1, <1>2, Releases
  <1>5. /\ Popped(cpu[c]).intr = 0 /\ Popped(cpu[c]).noff = Depth(at)
        /\ Popped(cpu[c]).intena = 0 /\ Popped(cpu[c]).proc = cpu[c].proc
    BY <1>1, <1>2 DEF Popped, CpuRecord
  <1>6. cpu' \in [Cpu -> CpuRecord] /\ cpu'[c] = Popped(cpu[c]) /\ \A d \in Cpu \ {c} : cpu'[d] = cpu[d]
    BY <1>1, <1>4 DEF Types, CpuRecord
  <1>7. PutShape' /\ put'[c].saw = 0 /\ (\A d \in Cpu \ {c} : put'[d] = put[d]) /\ ~Busy(c)'
    BY <1>1 DEF Types, PutShape, Busy
  <1>8. /\ lock' \in [Lock -> Cpu \cup {Free}]
        /\ \A d \in Cpu \ {c} : \A m \in Lock : lock'[m] = d <=> lock[m] = d
        /\ \A m \in Lock : lock'[m] = c <=> (lock[m] = c /\ m # l)
    BY <1>1, <1>4, SpinlockAssumption DEF Types
  <1>9. \A m \in Lock : lock'[m] = c <=> m \in Holds(at, "read")
    BY <1>1, <1>8
  <1>10. Steps(c, at)
    BY <1>1, <1>3, <1>4, <1>5, <1>6, <1>7, <1>8, <1>9 DEF Steps
  <1> QED
    BY <1>10, HandlerStep

(* A step to a place with the same locks, which may have characters to print. *)
LEMMA HandlerMoves ==
  ASSUME LockInv, NEW c \in Cpu, irq[c].at # "none", ~Busy(c),
         NEW at \in Handlers, NEW ch, irq' = [irq EXCEPT ![c] = [at |-> at, c |-> ch]],
         Holds(at, "read") = Holds(irq[c].at, "read"), Depth(at) = Depth(irq[c].at),
         NEW n, put' = put \/ (put' = [put EXCEPT ![c].n = n] /\ at \in {"store", "dumped"}),
         UNCHANGED <<cpu, lock, panic, proc, pc, prog>>
  PROVE  LockInv'
  <1>1. /\ Types /\ panic = Fine /\ cpu[c] \in CpuRecord
        /\ \A m \in Lock : lock[m] = c <=> m \in Holds(irq[c].at, "read")
        /\ cpu[c].noff = Depth(irq[c].at) + put[c].saw /\ cpu[c].intr = 0
        /\ cpu[c].noff > 0 => cpu[c].intena = 0
        /\ put[c].saw = 0
        /\ cpu[c].proc # Idle => pc[cpu[c].proc] \in Outside
    BY InHandler
  <1>2. Depth(at) \in {0, 1, 2} /\ Depth(irq[c].at) \in {0, 1, 2}
    BY DEF Depth
  <1>3. /\ irq'[c] = [at |-> at, c |-> ch] /\ \A d \in Cpu \ {c} : irq'[d] = irq[d]
        /\ irq' = [d \in Cpu |-> [at |-> irq'[d].at, c |-> irq'[d].c]]
    BY <1>1, IrqStep
  <1>4. PutShape' /\ put'[c].saw = 0 /\ \A d \in Cpu \ {c} : put'[d] = put[d]
    <2>1. PutShape
      BY <1>1 DEF Types
    <2>2. PutShape' /\ \A d \in Cpu : put'[d].saw = put[d].saw
      BY <2>1, PutKept
    <2> QED
      BY <1>1, <2>1, <2>2 DEF PutShape
  <1>5. Busy(c)' => at \in {"store", "dumped"}
    BY DEF Busy
  <1>6. cpu' \in [Cpu -> CpuRecord] /\ cpu'[c] = cpu[c] /\ \A d \in Cpu \ {c} : cpu'[d] = cpu[d]
    BY <1>1 DEF Types, CpuRecord
  <1>7. Calm /\ lock' \in [Lock -> Cpu \cup {Free}]
    BY <1>1, UnchangedIsCalm DEF Types
  <1>8. Steps(c, at)
    BY <1>1, <1>2, <1>3, <1>4, <1>5, <1>6, <1>7 DEF Steps
  <1> QED
    BY <1>8, HandlerStep

-----------------------------------------------------------------------------
(* yield() at the end of a timer interrupt. *)
LEMMA Lock_timer_end ==
  ASSUME LockInv, NEW c \in Cpu, timer_end(c) PROVE LockInv'
  <1>1. /\ irq[c].at = "yield" /\ ~Busy(c) /\ put' = put /\ lock' = lock /\ pc' = pc /\ prog' = prog
        /\ irq' = [irq EXCEPT ![c] = NoIrq] /\ cpu' = [cpu EXCEPT ![c] = InScheduler]
    BY DEF timer_end, yield, Handles, procVars
  <1>2. /\ Types /\ panic = Fine /\ cpu[c] \in CpuRecord
        /\ \A l \in Lock : lock[l] = c <=> l \in Holds(irq[c].at, "read")
        /\ cpu[c].noff = Depth(irq[c].at) + put[c].saw /\ put[c].saw = 0
        /\ cpu[c].proc # Idle => pc[cpu[c].proc] \in Outside
    BY <1>1, InHandler
  <1>3. cpu[c].noff = 0 /\ \A l \in Lock : lock[l] # c
    BY <1>1, <1>2 DEF Depth, Holds, Inside
  <1>4. panic' = Fine
    BY <1>2, <1>3 DEF timer_end, yield, First
  <1>5. /\ irq'[c] = NoIrq /\ \A d \in Cpu \ {c} : irq'[d] = irq[d]
        /\ irq' = [d \in Cpu |-> [at |-> irq'[d].at, c |-> irq'[d].c]]
    BY <1>1, <1>2, IrqStep DEF NoIrq
  <1>6. /\ proc' \in [Proc -> ProcRecord] /\ \A p \in Proc : p # cpu[c].proc => proc'[p] = proc[p]
        /\ cpu[c].proc # Idle => cpu[c].proc \in Proc /\ proc'[cpu[c].proc].intr = 1
    <2>1. CASE cpu[c].proc = Idle
      BY <1>2, <2>1 DEF timer_end, yield, Types, ProcRecord
    <2>2. CASE cpu[c].proc # Idle
      BY <1>2, <2>2 DEF timer_end, yield, Types, ProcRecord, CpuRecord
    <2> QED
      BY <2>1, <2>2
  <1>7. \A p \in Proc : p = cpu[c].proc => Resumable(p)'
    BY <1>1, <1>2, <1>6, SpinlockAssumption DEF Resumable, LockInv
  <1>8. /\ lock' \in [Lock -> Cpu \cup {Free}] /\ pc' \in [Proc -> Outside \cup Inside]
        /\ prog' \in [Proc -> Seq([op : Op, n : Nat, ok : BOOLEAN])]
    BY <1>1, <1>2 DEF Types
  <1> QED
    BY <1>1, <1>3, <1>4, <1>5, <1>6, <1>7, <1>8, GivesUp DEF NoIrq

(* Every handler keeps the invariant: the locks it takes are not those of the code that it
   interrupted, which ran with interrupts on and so held none. *)
LEMMA Lock_Handler ==
  ASSUME LockInv, NEW c \in Cpu, Handler(c) PROVE LockInv'
  <1>0. Types /\ Lock = {"cons", "tx", "pr", "tickslock"}
    BY ConsoleAssumption DEF LockInv
  <1> DEFINE To(at) == irq' = [irq EXCEPT ![c] = [at |-> at, c |-> irq[c].c]]
  <1>g. \A at : Goto(c, at) => To(at)
    BY <1>0, GotoStep
  <1> HIDE DEF To
  <1> USE DEF Handles
  <1>1. CASE plic_claim(c)
    <2>1. CASE Pending
      <3>1. To("uartintr") /\ irq[c].at = "devintr" /\ ~Busy(c) /\ UNCHANGED <<cpu, lock, panic, proc, pc, prog>>
            /\ put' = put
        BY <1>1, <1>g, <2>1 DEF plic_claim, procVars
      <3>2. Holds("uartintr", "read") = Holds("devintr", "read") /\ Depth("uartintr") = Depth("devintr")
            /\ "uartintr" \in Handlers
        BY DEF Holds, Depth, Inside, Handlers
      <3> QED
        BY <3>1, <3>2, HandlerMoves DEF To
    <2>2. CASE ~Pending
      BY <1>1, <2>2, HandlerEnd DEF plic_claim, procVars
    <2> QED
      BY <2>1, <2>2
  <1>2. CASE uartintr(c)
    <2>1. To("tx spin") /\ irq[c].at = "uartintr" /\ ~Busy(c) /\ acquire(c, "tx") /\ UNCHANGED <<put, lock, proc, pc, prog>>
      BY <1>2, <1>g DEF uartintr, procVars
    <2>2. /\ "tx" \notin Holds("uartintr", "read") /\ Holds("tx spin", "read") = Holds("uartintr", "read")
          /\ Depth("tx spin") = Depth("uartintr") + 1 /\ "tx spin" \in Handlers
      BY DEF Holds, Depth, Inside, Handlers
    <2> QED
      BY <1>0, <2>1, <2>2, HandlerAcquires DEF To
  <1>3. CASE spin(c)
    <2> DEFINE at == Spins[irq[c].at].next
               l == Spins[irq[c].at].l
    <2>1. /\ To(at) /\ irq[c].at \in {"tx spin", "cons spin", "pr spin", "ticks spin"} /\ ~Busy(c)
          /\ test_and_set(c, l) /\ UNCHANGED <<put, cpu, panic, proc, pc, prog>>
      BY <1>3, <1>g DEF spin, procVars, Spins
    <2>2. /\ Holds(at, "read") = Holds(irq[c].at, "read") \cup {l} /\ l \in Lock
          /\ Depth(at) = Depth(irq[c].at) /\ Depth(at) > 0 /\ at \in Handlers
      <3>1. CASE irq[c].at = "tx spin"
        <4>1. at = "tx" /\ l = "tx"
          BY <3>1 DEF Spins
        <4>2. Holds("tx", "read") = Holds("tx spin", "read") \cup {"tx"}
          BY DEF Holds
        <4>3. Depth("tx") = Depth("tx spin") /\ Depth("tx") > 0 /\ "tx" \in Handlers
          BY DEF Depth, Inside, Handlers
        <4> QED
          BY <1>0, <3>1, <4>1, <4>2, <4>3
      <3>2. CASE irq[c].at = "cons spin"
        <4>1. at = "consoleintr" /\ l = "cons"
          BY <3>2 DEF Spins
        <4>2. Holds("consoleintr", "read") = Holds("cons spin", "read") \cup {"cons"}
          BY DEF Holds
        <4>3. Depth("consoleintr") = Depth("cons spin") /\ Depth("consoleintr") > 0 /\ "consoleintr" \in Handlers
          BY DEF Depth, Inside, Handlers
        <4> QED
          BY <1>0, <3>2, <4>1, <4>2, <4>3
      <3>3. CASE irq[c].at = "pr spin"
        <4>1. at = "procdump" /\ l = "pr"
          BY <3>3 DEF Spins
        <4>2. Holds("procdump", "read") = Holds("pr spin", "read") \cup {"pr"}
          BY DEF Holds
        <4>3. Depth("procdump") = Depth("pr spin") /\ Depth("procdump") > 0 /\ "procdump" \in Handlers
          BY DEF Depth, Inside, Handlers
        <4> QED
          BY <1>0, <3>3, <4>1, <4>2, <4>3
      <3>4. CASE irq[c].at = "ticks spin"
        <4>1. at = "tick" /\ l = "tickslock"
          BY <3>4 DEF Spins
        <4>2. Holds("tick", "read") = Holds("ticks spin", "read") \cup {"tickslock"}
          BY DEF Holds
        <4>3. Depth("tick") = Depth("ticks spin") /\ Depth("tick") > 0 /\ "tick" \in Handlers
          BY DEF Depth, Inside, Handlers
        <4> QED
          BY <1>0, <3>4, <4>1, <4>2, <4>3
      <3> QED
        BY <2>1, <3>1, <3>2, <3>3, <3>4
    <2> HIDE DEF at, l
    <2> QED
      BY <2>1, <2>2, HandlerTakes DEF To
  <1>4. CASE uart_ready(c)
    <2>1. To("uartgetc") /\ irq[c].at = "tx" /\ ~Busy(c) /\ release(c, "tx") /\ UNCHANGED <<put, pc, prog>>
      BY <1>4, <1>g DEF uart_ready, procVars
    <2>2. Calm
      BY <1>0, <1>4, WakeupIsCalm, UnchangedIsCalm DEF uart_ready
    <2>3. /\ "tx" \in Holds("tx", "read") /\ Holds("uartgetc", "read") = Holds("tx", "read") \ {"tx"}
          /\ Depth("tx") = Depth("uartgetc") + 1 /\ "uartgetc" \in Handlers
      BY DEF Holds, Depth, Inside, Handlers
    <2> QED
      BY <1>0, <2>1, <2>2, <2>3, HandlerReleases DEF To
  <1>5. CASE uartgetc(c)
    <2>1. CASE uart.rx # <<>>
      <3>1. /\ irq' = [irq EXCEPT ![c] = [at |-> "cons spin", c |-> Head(uart.rx)]]
            /\ irq[c].at = "uartgetc" /\ ~Busy(c) /\ acquire(c, "cons") /\ UNCHANGED <<put, lock, proc, pc, prog>>
        BY <1>5, <2>1 DEF uartgetc, procVars
      <3>2. /\ "cons" \notin Holds("uartgetc", "read") /\ Holds("cons spin", "read") = Holds("uartgetc", "read")
            /\ Depth("cons spin") = Depth("uartgetc") + 1 /\ "cons spin" \in Handlers
        BY DEF Holds, Depth, Inside, Handlers
      <3> QED
        BY <1>0, <3>1, <3>2, HandlerAcquires
    <2>2. CASE uart.rx = <<>>
      BY <1>5, <2>2, HandlerEnd DEF uartgetc, procVars
    <2> QED
      BY <2>1, <2>2
  <1>6. CASE consoleintr(c)
    <2>1. CASE irq[c].c = "^P"
      <3>1. To("pr spin") /\ irq[c].at = "consoleintr" /\ ~Busy(c) /\ acquire(c, "pr")
            /\ UNCHANGED <<put, lock, proc, pc, prog>>
        BY <1>6, <1>g, <2>1 DEF consoleintr, procVars
      <3>2. /\ "pr" \notin Holds("consoleintr", "read") /\ Holds("pr spin", "read") = Holds("consoleintr", "read")
            /\ Depth("pr spin") = Depth("consoleintr") + 1 /\ "pr spin" \in Handlers
        BY DEF Holds, Depth, Inside, Handlers
      <3> QED
        BY <1>0, <3>1, <3>2, HandlerAcquires DEF To
    <2>2. CASE irq[c].c # "^P"
      <3> DEFINE n == IF Stores(irq[c].c) THEN 1 ELSE 3 * Erased(irq[c].c)
      <3>1. To("store") /\ irq[c].at = "consoleintr" /\ ~Busy(c) /\ put' = [put EXCEPT ![c].n = n]
            /\ UNCHANGED <<cpu, lock, panic, proc, pc, prog>>
        BY <1>6, <1>g, <2>2 DEF consoleintr, consputc, procVars
      <3>2. /\ Holds("store", "read") = Holds("consoleintr", "read") /\ Depth("store") = Depth("consoleintr")
            /\ "store" \in Handlers
        BY DEF Holds, Depth, Inside, Handlers
      <3> HIDE DEF n
      <3> QED
        BY <3>1, <3>2, HandlerMoves DEF To
    <2> QED
      BY <2>1, <2>2
  <1>7. CASE procdump(c)
    <2>1. To("dumped") /\ irq[c].at = "procdump" /\ ~Busy(c) /\ put' = [put EXCEPT ![c].n = 1]
          /\ UNCHANGED <<cpu, lock, panic, proc, pc, prog>>
      BY <1>7, <1>g DEF procdump, consputc, procVars, lockVars
    <2>2. /\ Holds("dumped", "read") = Holds("procdump", "read") /\ Depth("dumped") = Depth("procdump")
          /\ "dumped" \in Handlers
      BY DEF Holds, Depth, Inside, Handlers
    <2> QED
      BY <2>1, <2>2, HandlerMoves DEF To
  <1>8. CASE procdump_end(c)
    <2>1. To("store") /\ irq[c].at = "dumped" /\ ~Busy(c) /\ release(c, "pr") /\ UNCHANGED <<put, pc, prog>>
      BY <1>8, <1>g DEF procdump_end, procVars
    <2>2. Calm
      BY <1>0, <1>8, UnchangedIsCalm DEF procdump_end
    <2>3. /\ "pr" \in Holds("dumped", "read") /\ Holds("store", "read") = Holds("dumped", "read") \ {"pr"}
          /\ Depth("dumped") = Depth("store") + 1 /\ "store" \in Handlers
      BY DEF Holds, Depth, Inside, Handlers
    <2> QED
      BY <1>0, <2>1, <2>2, <2>3, HandlerReleases DEF To
  <1>9. CASE console_store(c)
    <2>1. /\ irq' = [irq EXCEPT ![c] = [at |-> "uartgetc", c |-> "none"]]
          /\ irq[c].at = "store" /\ ~Busy(c) /\ release(c, "cons") /\ UNCHANGED <<put, pc, prog>>
      BY <1>9 DEF console_store, procVars
    <2>2. wakeup("cons.r") \/ proc' = proc
      BY <1>9 DEF console_store
    <2>3. Calm
      BY <1>0, <2>2, WakeupIsCalm, UnchangedIsCalm
    <2>4. /\ "cons" \in Holds("store", "read") /\ Holds("uartgetc", "read") = Holds("store", "read") \ {"cons"}
          /\ Depth("store") = Depth("uartgetc") + 1 /\ "uartgetc" \in Handlers
      BY DEF Holds, Depth, Inside, Handlers
    <2> QED
      BY <1>0, <2>1, <2>3, <2>4, HandlerReleases
  <1>10. CASE clockintr(c)
    <2>1. CASE c = Cpu0
      <3>1. To("ticks spin") /\ irq[c].at = "clockintr" /\ ~Busy(c) /\ acquire(c, "tickslock")
            /\ UNCHANGED <<put, lock, proc, pc, prog>>
        BY <1>10, <1>g, <2>1 DEF clockintr, procVars
      <3>2. /\ "tickslock" \notin Holds("clockintr", "read")
            /\ Holds("ticks spin", "read") = Holds("clockintr", "read")
            /\ Depth("ticks spin") = Depth("clockintr") + 1 /\ "ticks spin" \in Handlers
        BY DEF Holds, Depth, Inside, Handlers
      <3> QED
        BY <1>0, <3>1, <3>2, HandlerAcquires DEF To
    <2>2. CASE c # Cpu0
      <3>1. To("yield") /\ irq[c].at = "clockintr" /\ ~Busy(c) /\ put' = put
            /\ UNCHANGED <<cpu, lock, panic, proc, pc, prog>>
        BY <1>10, <1>g, <2>2 DEF clockintr, procVars
      <3>2. /\ Holds("yield", "read") = Holds("clockintr", "read") /\ Depth("yield") = Depth("clockintr")
            /\ "yield" \in Handlers
        BY DEF Holds, Depth, Inside, Handlers
      <3> QED
        BY <3>1, <3>2, HandlerMoves DEF To
    <2> QED
      BY <2>1, <2>2
  <1>11. CASE tick(c)
    <2>1. To("yield") /\ irq[c].at = "tick" /\ ~Busy(c) /\ release(c, "tickslock") /\ UNCHANGED <<put, pc, prog>>
      BY <1>11, <1>g DEF tick, procVars
    <2>2. Calm
      BY <1>0, <1>11, WakeupIsCalm DEF tick
    <2>3. /\ "tickslock" \in Holds("tick", "read") /\ Holds("yield", "read") = Holds("tick", "read") \ {"tickslock"}
          /\ Depth("tick") = Depth("yield") + 1 /\ "yield" \in Handlers
      BY DEF Holds, Depth, Inside, Handlers
    <2> QED
      BY <1>0, <2>1, <2>2, <2>3, HandlerReleases DEF To
  <1>12. CASE timer_end(c)
    BY <1>12, Lock_timer_end
  <1> QED
    BY <1>1, <1>2, <1>3, <1>4, <1>5, <1>6, <1>7, <1>8, <1>9, <1>10, <1>11, <1>12 DEF Handler

(* An interrupt is taken. *)
LEMMA Lock_trap ==
  ASSUME LockInv, NEW c \in Cpu, trap(c) PROVE LockInv'
  <1>1. PICK at \in {"devintr", "clockintr"} : Goto(c, at)
    BY DEF trap
  <1>2. /\ irq[c].at = "none" /\ cpu[c].intr = 1 /\ cpu' = [cpu EXCEPT ![c].intr = 0]
        /\ lock' = lock /\ proc' = proc /\ panic' = panic /\ put' = put /\ pc' = pc /\ prog' = prog
    BY DEF trap, procVars
  <1>3. /\ \A l \in Lock : lock[l] # c
        /\ cpu[c].noff = 0 /\ put[c].saw = 0 /\ ~Busy(c)
        /\ cpu[c].proc # Idle => pc[cpu[c].proc] \in Outside
    BY <1>2, Interruptible
  <1>4. Types /\ panic = Fine
    BY DEF LockInv
  <1>5. /\ cpu' \in [Cpu -> CpuRecord] /\ \A d \in Cpu \ {c} : cpu'[d] = cpu[d]
        /\ cpu'[c].intr = 0 /\ cpu'[c].noff = 0 /\ cpu'[c].proc = cpu[c].proc
    <2> DEFINE k == [intr |-> 0, noff |-> cpu[c].noff, intena |-> cpu[c].intena, proc |-> cpu[c].proc]
    <2>1. cpu' = [cpu EXCEPT ![c] = k] /\ k \in CpuRecord
      BY <1>2, <1>4, IntrStep
    <2>2. cpu \in [Cpu -> CpuRecord]
      BY <1>4 DEF Types, CpuRecord
    <2> QED
      BY <1>3, <2>1, <2>2
  <1>6. at \in Handlers /\ Depth(at) = 0 /\ Holds(at, "read") = {}
    BY DEF Handlers, Depth, Inside, Holds
  <1>7. irq' = [irq EXCEPT ![c] = [at |-> at, c |-> irq[c].c]]
    BY <1>1, <1>4, GotoStep
  <1>8. /\ irq'[c] = [at |-> at, c |-> irq[c].c] /\ \A d \in Cpu \ {c} : irq'[d] = irq[d]
        /\ irq' = [d \in Cpu |-> [at |-> irq'[d].at, c |-> irq'[d].c]]
    BY <1>4, <1>6, <1>7, IrqStep
  <1>9. PutShape' /\ put'[c].saw = 0 /\ (\A d \in Cpu \ {c} : put'[d] = put[d]) /\ ~Busy(c)'
    BY <1>2, <1>3, <1>4 DEF Types, PutShape, Busy
  <1>10. Calm /\ lock' \in [Lock -> Cpu \cup {Free}]
    BY <1>2, <1>4, UnchangedIsCalm DEF Types
  <1>11. Steps(c, at)
    BY <1>2, <1>3, <1>4, <1>5, <1>6, <1>8, <1>9, <1>10 DEF Steps
  <1> QED
    BY <1>6, <1>11, HandlerStep
=============================================================================
