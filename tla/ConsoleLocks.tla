---------------------------- MODULE ConsoleLocks ----------------------------
(*****************************************************************************)
(* The inductive invariant behind LocksNeverPanic, for any number of harts   *)
(* and processes and any programs.  It says, for every place that a hart     *)
(* can be at, which locks it holds, how deep its push_off()s are nested and  *)
(* whether it takes interrupts.  The lemmas are what the steps of handlers   *)
(* and of processes have in common.                                          *)
(*****************************************************************************)
EXTENDS Console, TLAPS

(* put keeps the shape of its records; the number of characters left is whatever
   consoleintr() computes. *)
PutShape ==
  /\ put = [c \in Cpu |-> [n |-> put[c].n, saw |-> put[c].saw]]
  /\ \A c \in Cpu : put[c].saw \in {0, 1}

(* A step that leaves put alone, or changes only how many characters are left. *)
LEMMA PutKept ==
  ASSUME PutShape, NEW c \in Cpu, NEW n, put' = put \/ put' = [put EXCEPT ![c].n = n]
  PROVE  PutShape' /\ \A d \in Cpu : put'[d].saw = put[d].saw
  BY DEF PutShape

Outside == {"user", "woken", "batch"}
Inside == {"spin", "respin", "in"}
Handlers ==
  {"devintr", "uartintr", "tx spin", "tx", "uartgetc", "cons spin", "consoleintr", "pr spin",
   "procdump", "dumped", "store", "clockintr", "ticks spin", "tick", "yield"}

(* Where hart c is: in its handler, in scheduler(), or where its process is. *)
Pos(c) ==
  IF irq[c].at # "none" THEN irq[c].at
  ELSE IF cpu[c].proc = Idle THEN "idle" ELSE pc[cpu[c].proc]

(* The locks held at a place; op is the system call of the process there. *)
Holds(at, op) ==
  IF at = "tx" THEN {"tx"}
  ELSE IF at = "tick" THEN {"tickslock"}
  ELSE IF at \in {"consoleintr", "store", "pr spin"} THEN {"cons"}
  ELSE IF at \in {"procdump", "dumped"} THEN {"cons", "pr"}
  ELSE IF at = "in" THEN {LockOf(op)} ELSE {}

(* push_off()s that acquire() has made there. *)
Depth(at) ==
  IF at \in {"pr spin", "procdump", "dumped"} THEN 2
  ELSE IF at \in Inside \cup {"tx spin", "tx", "cons spin", "consoleintr", "store", "ticks spin", "tick"}
  THEN 1 ELSE 0

WellPlaced(c) ==
  /\ \A l \in Lock : lock[l] = c <=> l \in Holds(Pos(c), Call(cpu[c].proc).op)
  /\ cpu[c].noff = Depth(Pos(c)) + put[c].saw
  /\ cpu[c].intr = IF Pos(c) \in Outside \cup {"idle"} THEN 1 ELSE 0
  /\ cpu[c].noff > 0 => cpu[c].intena = IF irq[c].at = "none" THEN 1 ELSE 0
  /\ put[c].saw = 1 => Busy(c)
  /\ Busy(c) => Pos(c) \in {"in", "store", "dumped"}
  /\ cpu[c].proc # Idle =>
       /\ proc[cpu[c].proc].state = "RUNNING"
       /\ irq[c].at # "none" => pc[cpu[c].proc] \in Outside

(* A process that is not running holds nothing, and will resume with interrupts on. *)
Resumable(p) ==
  /\ proc[p].intr = 1
  /\ proc[p].state # "RUNNING" => pc[p] \in Outside
  /\ pc[p] # "user" => prog[p] # <<>>

(* No process runs on two harts. *)
Alone == \A c, d \in Cpu : c # d /\ cpu[c].proc = cpu[d].proc => cpu[c].proc = Idle

Types ==
  /\ cpu \in [Cpu -> [intr : {0, 1}, noff : Int, intena : {0, 1}, proc : Proc \cup {Idle}]]
  /\ lock \in [Lock -> Cpu \cup {Free}]
  /\ proc \in [Proc -> [state : {"RUNNABLE", "RUNNING", "SLEEPING", "ZOMBIE"},
                        chan : {"none", "tx_chan", "cons.r", "ticks"}, intr : {0, 1}]]
  /\ irq = [c \in Cpu |-> [at |-> irq[c].at, c |-> irq[c].c]]
  /\ \A c \in Cpu : irq[c].at \in Handlers \cup {"none"}
  /\ pc \in [Proc -> Outside \cup Inside]
  /\ prog \in [Proc -> Seq([op : Op, n : Nat, ok : BOOLEAN])]
  /\ PutShape

LockInv ==
  /\ Types /\ Alone /\ panic = Fine
  /\ \A c \in Cpu : WellPlaced(c)
  /\ \A p \in Proc : Resumable(p)
-----------------------------------------------------------------------------
CpuRecord == [intr : {0, 1}, noff : Int, intena : {0, 1}, proc : Proc \cup {Idle}]

(* A step of hart c leaves the other harts alone, with the processes that run there. *)
Frame(c) ==
  /\ \A d \in Cpu \ {c} :
       /\ cpu'[d] = cpu[d] /\ irq'[d] = irq[d] /\ put'[d] = put[d]
       /\ \A l \in Lock : lock'[l] = d <=> lock[l] = d
  /\ \A p \in Proc : p # cpu[c].proc /\ proc[p].state = "RUNNING" =>
       pc'[p] = pc[p] /\ prog'[p] = prog[p] /\ proc'[p].state = "RUNNING"

(* Such a step keeps every other hart well placed. *)
LEMMA Elsewhere ==
  ASSUME LockInv, NEW c \in Cpu, NEW d \in Cpu, d # c, Frame(c)
  PROVE  WellPlaced(d)'
  <1> DEFINE q == cpu[d].proc
  <1>1. cpu'[d] = cpu[d] /\ irq'[d] = irq[d] /\ put'[d] = put[d] /\ \A l \in Lock : lock'[l] = d <=> lock[l] = d
    BY DEF Frame
  <1>2. q # Idle => q \in Proc /\ q # cpu[c].proc /\ proc[q].state = "RUNNING"
    <2>1. cpu[d] \in CpuRecord /\ WellPlaced(d) /\ (q = cpu[c].proc => q = Idle)
      BY DEF LockInv, Types, Alone, CpuRecord
    <2> QED
      BY <2>1 DEF CpuRecord, WellPlaced
  <1>3. q # Idle => pc'[q] = pc[q] /\ prog'[q] = prog[q] /\ proc'[q].state = "RUNNING"
    BY <1>2 DEF Frame
  <1>4. WellPlaced(d)
    BY DEF LockInv
  <1>5. Pos(d)' = Pos(d)
    BY <1>1, <1>3 DEF Pos
  <1>6. Holds(Pos(d), Call(q).op)' = Holds(Pos(d), Call(q).op)
    <2>1. CASE Pos(d) = "in"
      <3>1. q # Idle
        BY <2>1 DEF Pos, LockInv, Types, Handlers
      <3> QED
        BY <1>1, <1>3, <1>5, <3>1 DEF Call
    <2>2. CASE Pos(d) # "in"
      BY <1>5, <2>2 DEF Holds
    <2> QED
      BY <2>1, <2>2
  <1>7. (\A l \in Lock : lock[l] = d <=> l \in Holds(Pos(d), Call(q).op))'
    BY <1>1, <1>4, <1>6 DEF WellPlaced
  <1>8. cpu'[d].proc # Idle => /\ proc'[cpu'[d].proc].state = "RUNNING"
                               /\ irq'[d].at # "none" => pc'[cpu'[d].proc] \in Outside
    BY <1>1, <1>3, <1>4 DEF WellPlaced
  <1> QED
    BY <1>1, <1>4, <1>5, <1>7, <1>8 DEF WellPlaced, Busy

(* So the invariant holds after the step if it holds for c and for the processes. *)
LEMMA Local ==
  ASSUME LockInv, NEW c \in Cpu, Frame(c), Types', Alone', panic' = Fine, WellPlaced(c)',
         \A p \in Proc : Resumable(p)'
  PROVE  LockInv'
  BY Elsewhere DEF LockInv

(* What push_off() and pop_off() do to the record of a hart. *)
Pushed(k) ==
  [intr |-> 0, noff |-> k.noff + 1, intena |-> IF k.noff = 0 THEN k.intr ELSE k.intena, proc |-> k.proc]
Popped(k) ==
  [intr |-> IF k.noff = 1 /\ k.intena = 1 THEN 1 ELSE k.intr, noff |-> k.noff - 1, intena |-> k.intena,
   proc |-> k.proc]

(* They change no other field. *)
LEMMA Nesting ==
  ASSUME NEW k \in CpuRecord
  PROVE  /\ push_off(k) = Pushed(k) /\ Pushed(k) \in CpuRecord
         /\ pop_off(k) = Popped(k) /\ Popped(k) \in CpuRecord
  <1>1. k = [intr |-> k.intr, noff |-> k.noff, intena |-> k.intena, proc |-> k.proc]
    BY DEF CpuRecord
  <1>2. /\ k.intr \in {0, 1} /\ k.noff \in Int /\ k.intena \in {0, 1} /\ k.proc \in Proc \cup {Idle}
    BY DEF CpuRecord
  <1>3. push_off(k) = Pushed(k)
    <2> DEFINE a == IF k.noff = 0 THEN k.intr ELSE k.intena
               i == [k EXCEPT !.intr = 0]
               j == [i EXCEPT !.intena = a]
    <2>1. i = [intr |-> 0, noff |-> k.noff, intena |-> k.intena, proc |-> k.proc]
      BY <1>1
    <2>2. push_off(k) = [j EXCEPT !.noff = k.noff + 1]
      BY <1>1 DEF push_off
    <2> HIDE DEF a, i
    <2>3. j = [intr |-> 0, noff |-> k.noff, intena |-> a, proc |-> k.proc]
      BY <2>1
    <2> HIDE DEF j
    <2>4. [j EXCEPT !.noff = k.noff + 1] = [intr |-> 0, noff |-> k.noff + 1, intena |-> a, proc |-> k.proc]
      BY <2>3
    <2> QED
      BY <2>2, <2>4 DEF a, Pushed
  <1>4. pop_off(k) = Popped(k)
    <2> DEFINE a == IF k.noff = 1 /\ k.intena = 1 THEN 1 ELSE k.intr
               i == [k EXCEPT !.noff = k.noff - 1]
    <2>1. i = [intr |-> k.intr, noff |-> k.noff - 1, intena |-> k.intena, proc |-> k.proc]
      BY <1>1
    <2>2. pop_off(k) = [i EXCEPT !.intr = a]
      BY <1>1 DEF pop_off
    <2> HIDE DEF a, i
    <2>3. [i EXCEPT !.intr = a] = [intr |-> a, noff |-> k.noff - 1, intena |-> k.intena, proc |-> k.proc]
      BY <2>1
    <2> QED
      BY <2>2, <2>3 DEF a, Popped
  <1>5. Pushed(k) \in CpuRecord
    BY <1>2 DEF Pushed, CpuRecord
  <1>6. Popped(k) \in CpuRecord
    BY <1>2 DEF Popped, CpuRecord
  <1> QED
    BY <1>3, <1>4, <1>5, <1>6

(* acquire() of a lock that the hart does not hold: push_off(), and no panic. *)
LEMMA Acquires ==
  ASSUME Types, panic = Fine, NEW c \in Cpu, NEW l \in Lock, acquire(c, l), lock[l] # c
  PROVE  panic' = Fine /\ cpu' = [cpu EXCEPT ![c] = Pushed(cpu[c])] /\ Pushed(cpu[c]) \in CpuRecord
  <1>1. cpu[c] \in CpuRecord
    BY DEF Types, CpuRecord
  <1> QED
    BY <1>1, Nesting DEF acquire, First, holding

(* release() of a lock that the hart holds, with interrupts off: pop_off(), and no panic. *)
LEMMA Releases ==
  ASSUME Types, panic = Fine, NEW c \in Cpu, NEW l \in Lock, release(c, l), lock[l] = c,
         cpu[c].intr = 0, cpu[c].noff >= 1
  PROVE  /\ panic' = Fine /\ lock' = [lock EXCEPT ![l] = Free]
         /\ cpu' = [cpu EXCEPT ![c] = Popped(cpu[c])] /\ Popped(cpu[c]) \in CpuRecord
  <1>1. cpu[c] \in CpuRecord
    BY DEF Types, CpuRecord
  <1>2. PopOffCheck(cpu[c]) = Fine
    BY <1>1 DEF PopOffCheck, CpuRecord
  <1> QED
    BY <1>1, <1>2, Nesting DEF release, First, holding
-----------------------------------------------------------------------------
ProcRecord ==
  [state : {"RUNNABLE", "RUNNING", "SLEEPING", "ZOMBIE"}, chan : {"none", "tx_chan", "cons.r", "ticks"},
   intr : {0, 1}]

(* A step that starts or stops no process, though it may wake some. *)
Calm ==
  /\ proc' \in [Proc -> ProcRecord]
  /\ \A p \in Proc : proc'[p].intr = proc[p].intr /\ (proc'[p].state = "RUNNING" <=> proc[p].state = "RUNNING")

(* wakeup() is one. *)
LEMMA WakeupIsCalm ==
  ASSUME Types, NEW ch, wakeup(ch) PROVE Calm
  <1> SUFFICES ASSUME NEW p \in Proc
               PROVE  /\ proc'[p] \in ProcRecord /\ proc'[p].intr = proc[p].intr
                      /\ proc'[p].state = "RUNNING" <=> proc[p].state = "RUNNING"
    BY DEF wakeup, Calm
  <1>1. proc[p] \in ProcRecord
    BY DEF Types, ProcRecord
  <1>2. CASE proc[p].state = "SLEEPING" /\ proc[p].chan = ch
    <2> DEFINE q == [proc[p] EXCEPT !.state = "RUNNABLE"]
    <2>1. q = [state |-> "RUNNABLE", chan |-> proc[p].chan, intr |-> proc[p].intr]
      BY <1>1 DEF ProcRecord
    <2>2. proc'[p] = [q EXCEPT !.chan = "none"]
      BY <1>2 DEF wakeup
    <2> HIDE DEF q
    <2>3. proc'[p] = [state |-> "RUNNABLE", chan |-> "none", intr |-> proc[p].intr]
      BY <2>1, <2>2
    <2> QED
      BY <1>1, <1>2, <2>3 DEF ProcRecord
  <1>3. CASE ~(proc[p].state = "SLEEPING" /\ proc[p].chan = ch)
    BY <1>1, <1>3 DEF wakeup
  <1> QED
    BY <1>2, <1>3

(* So is a step that leaves proc alone. *)
LEMMA UnchangedIsCalm == ASSUME Types, proc' = proc PROVE Calm
  BY DEF Types, Calm, ProcRecord

(* What the invariant says of a hart in a handler. *)
LEMMA InHandler ==
  ASSUME LockInv, NEW c \in Cpu, irq[c].at # "none"
  PROVE  /\ Types /\ panic = Fine /\ cpu[c] \in CpuRecord
         /\ \A l \in Lock : lock[l] = c <=> l \in Holds(irq[c].at, "read")
         /\ cpu[c].noff = Depth(irq[c].at) + put[c].saw /\ cpu[c].intr = 0
         /\ cpu[c].noff > 0 => cpu[c].intena = 0
         /\ put[c].saw \in {0, 1} /\ (put[c].saw = 1 => Busy(c))
         /\ cpu[c].proc # Idle => proc[cpu[c].proc].state = "RUNNING" /\ pc[cpu[c].proc] \in Outside
         /\ Busy(c) => irq[c].at \in {"store", "dumped"}
  <1>1. Types /\ WellPlaced(c) /\ panic = Fine
    BY DEF LockInv
  <1>2. Pos(c) = irq[c].at /\ irq[c].at \in Handlers
    BY <1>1 DEF Pos, Types
  <1>3. \A op : Holds(irq[c].at, op) = Holds(irq[c].at, "read")
    BY <1>2 DEF Holds, Handlers
  <1>4. \A l \in Lock : lock[l] = c <=> l \in Holds(irq[c].at, "read")
    BY <1>1, <1>2, <1>3 DEF WellPlaced
  <1>5. cpu[c].intr = 0
    BY <1>1, <1>2 DEF WellPlaced, Handlers, Outside
  <1>6. put[c].saw \in {0, 1} /\ cpu[c] \in CpuRecord
    BY <1>1 DEF Types, PutShape, CpuRecord
  <1>7. Busy(c) => irq[c].at \in {"store", "dumped"}
    BY <1>1, <1>2 DEF WellPlaced, Handlers
  <1> QED
    BY <1>1, <1>2, <1>4, <1>5, <1>6, <1>7 DEF WellPlaced

(* irq keeps its shape. *)
LEMMA IrqStep ==
  ASSUME Types, NEW c \in Cpu, NEW at \in Handlers \cup {"none"}, NEW ch,
         irq' = [irq EXCEPT ![c] = [at |-> at, c |-> ch]]
  PROVE  /\ irq'[c] = [at |-> at, c |-> ch] /\ \A d \in Cpu \ {c} : irq'[d] = irq[d]
         /\ irq' = [d \in Cpu |-> [at |-> irq'[d].at, c |-> irq'[d].c]]
         /\ \A d \in Cpu : irq'[d].at \in Handlers \cup {"none"}
  <1>1. irq' = [d \in Cpu |-> irq'[d]]
    BY DEF Types
  <1>2. irq'[c] = [at |-> at, c |-> ch] /\ \A d \in Cpu \ {c} : irq'[d] = irq[d]
    BY DEF Types
  <1>3. ASSUME NEW d \in Cpu PROVE irq'[d] = [at |-> irq'[d].at, c |-> irq'[d].c]
    <2>1. CASE d = c
      BY <1>2, <2>1
    <2>2. CASE d # c
      BY <1>2, <2>2 DEF Types
    <2> QED
      BY <2>1, <2>2
  <1>4. \A d \in Cpu : irq'[d].at \in Handlers \cup {"none"}
    BY <1>2 DEF Types
  <1> QED
    BY <1>1, <1>2, <1>3, <1>4

(* Goto keeps the character. *)
LEMMA GotoStep ==
  ASSUME Types, NEW c \in Cpu, NEW at, Goto(c, at)
  PROVE  irq' = [irq EXCEPT ![c] = [at |-> at, c |-> irq[c].c]]
  <1>1. irq[c] = [at |-> irq[c].at, c |-> irq[c].c]
    BY DEF Types
  <1>2. [irq[c] EXCEPT !.at = at] = [at |-> at, c |-> irq[c].c]
    BY <1>1
  <1> QED
    BY <1>2 DEF Goto

(* A trap or its end changes one bit. *)
LEMMA IntrStep ==
  ASSUME Types, NEW c \in Cpu, NEW b \in {0, 1}, cpu' = [cpu EXCEPT ![c].intr = b]
  PROVE  LET k == [intr |-> b, noff |-> cpu[c].noff, intena |-> cpu[c].intena, proc |-> cpu[c].proc]
         IN  cpu' = [cpu EXCEPT ![c] = k] /\ k \in CpuRecord
  <1>1. cpu[c] \in CpuRecord
    BY DEF Types, CpuRecord
  <1>2. [cpu[c] EXCEPT !.intr = b] =
          [intr |-> b, noff |-> cpu[c].noff, intena |-> cpu[c].intena, proc |-> cpu[c].proc]
    BY <1>1 DEF CpuRecord
  <1> QED
    BY <1>1, <1>2 DEF CpuRecord

(* Hart c steps to the place at of its handler. *)
Steps(c, at) ==
  /\ cpu' \in [Cpu -> CpuRecord] /\ \A d \in Cpu \ {c} : cpu'[d] = cpu[d]
  /\ cpu'[c].intr = 0 /\ cpu'[c].noff = Depth(at) /\ (cpu'[c].noff > 0 => cpu'[c].intena = 0)
  /\ cpu'[c].proc = cpu[c].proc /\ (cpu[c].proc # Idle => pc[cpu[c].proc] \in Outside)
  /\ irq' = [d \in Cpu |-> [at |-> irq'[d].at, c |-> irq'[d].c]]
  /\ irq'[c].at = at /\ \A d \in Cpu \ {c} : irq'[d] = irq[d]
  /\ PutShape' /\ put'[c].saw = 0 /\ \A d \in Cpu \ {c} : put'[d] = put[d]
  /\ Busy(c)' => at \in {"store", "dumped"}
  /\ lock' \in [Lock -> Cpu \cup {Free}]
  /\ \A d \in Cpu \ {c} : \A l \in Lock : lock'[l] = d <=> lock[l] = d
  /\ \A l \in Lock : lock'[l] = c <=> l \in Holds(at, "read")
  /\ Calm /\ pc' = pc /\ prog' = prog /\ panic' = Fine

(* Such a step keeps the invariant. *)
LEMMA HandlerStep ==
  ASSUME LockInv, NEW c \in Cpu, NEW at \in Handlers, Steps(c, at)
  PROVE  LockInv'
  <1>0. Types /\ Alone /\ WellPlaced(c) /\ \A p \in Proc : Resumable(p)
    BY DEF LockInv
  <1>1. Frame(c)
    BY DEF Frame, Calm, Steps
  <1>2. Types'
    <2>1. \A d \in Cpu : irq'[d].at \in Handlers \cup {"none"}
      BY <1>0 DEF Types, Steps
    <2> QED
      BY <1>0, <2>1 DEF Types, CpuRecord, ProcRecord, Calm, Steps
  <1>3. Alone'
    BY <1>0 DEF Alone, Steps
  <1>4. WellPlaced(c)'
    <2>1. at # "none" /\ at # "idle" /\ at # "in" /\ at \notin Outside
      BY DEF Handlers, Outside
    <2>2. Pos(c)' = at
      BY <2>1 DEF Pos, Steps
    <2>3. \A op : Holds(at, op) = Holds(at, "read")
      BY <2>1 DEF Holds
    <2>4. cpu'[c].proc # Idle => proc'[cpu'[c].proc].state = "RUNNING" /\ pc'[cpu'[c].proc] \in Outside
      <3>1. cpu[c] \in CpuRecord
        BY <1>0 DEF Types, CpuRecord
      <3>2. cpu[c].proc # Idle => cpu[c].proc \in Proc /\ proc[cpu[c].proc].state = "RUNNING"
        BY <1>0, <3>1 DEF CpuRecord, WellPlaced
      <3> QED
        BY <3>2 DEF Calm, Steps
    <2>5. (\A l \in Lock : lock[l] = c <=> l \in Holds(Pos(c), Call(cpu[c].proc).op))'
      BY <2>2, <2>3 DEF Steps
    <2>6. Depth(at) \in {0, 1, 2}
      BY DEF Depth
    <2> QED
      BY <2>1, <2>2, <2>4, <2>5, <2>6 DEF WellPlaced, Steps
  <1>5. \A p \in Proc : Resumable(p)'
    BY <1>0 DEF Resumable, Calm, Steps
  <1> QED
    BY <1>1, <1>2, <1>3, <1>4, <1>5, Local DEF Steps

(* The end of a handler that has changed nothing else: interrupts are on again. *)
LEMMA HandlerEnd ==
  ASSUME LockInv, NEW c \in Cpu, irq[c].at \in {"devintr", "uartgetc"}, ~Busy(c),
         cpu' = [cpu EXCEPT ![c].intr = 1], irq' = [irq EXCEPT ![c] = NoIrq],
         UNCHANGED <<put, lock, proc, pc, prog, panic>>
  PROVE  LockInv'
  <1>0. Types /\ Alone /\ \A p \in Proc : Resumable(p)
    BY DEF LockInv
  <1> DEFINE k == [intr |-> 1, noff |-> cpu[c].noff, intena |-> cpu[c].intena, proc |-> cpu[c].proc]
  <1>1. cpu'[c] = k /\ cpu' = [cpu EXCEPT ![c] = k] /\ k \in CpuRecord /\ \A d \in Cpu \ {c} : cpu'[d] = cpu[d]
    <2>1. cpu' = [cpu EXCEPT ![c] = k] /\ k \in CpuRecord
      BY <1>0, IntrStep
    <2>2. cpu \in [Cpu -> CpuRecord]
      BY <1>0 DEF Types, CpuRecord
    <2> HIDE DEF k
    <2> QED
      BY <2>1, <2>2
  <1>2. /\ irq'[c] = NoIrq /\ \A d \in Cpu \ {c} : irq'[d] = irq[d]
        /\ irq' = [d \in Cpu |-> [at |-> irq'[d].at, c |-> irq'[d].c]]
        /\ \A d \in Cpu : irq'[d].at \in Handlers \cup {"none"}
    BY <1>0, IrqStep DEF NoIrq
  <1>3. Frame(c)
    BY <1>1, <1>2 DEF Frame
  <1>4. Types'
    <2>1. cpu' \in [Cpu -> CpuRecord]
      BY <1>0, <1>1 DEF Types, CpuRecord
    <2>2. PutShape'
      BY <1>0 DEF Types, PutShape
    <2> QED
      BY <1>0, <1>2, <2>1, <2>2 DEF Types, CpuRecord
  <1>5. Alone'
    BY <1>0, <1>1 DEF Alone
  <1>6. WellPlaced(c)'
    <2>1. /\ \A l \in Lock : lock[l] = c <=> l \in Holds(irq[c].at, "read")
          /\ cpu[c].noff = Depth(irq[c].at) + put[c].saw
          /\ put[c].saw \in {0, 1} /\ put[c].saw # 1
          /\ cpu[c].proc # Idle => proc[cpu[c].proc].state = "RUNNING" /\ pc[cpu[c].proc] \in Outside
      BY InHandler
    <2>2. Holds(irq[c].at, "read") = {} /\ Depth(irq[c].at) = 0
      BY DEF Holds, Depth, Inside
    <2>3. Pos(c)' \in Outside \cup {"idle"}
      BY <1>1, <1>2, <2>1 DEF Pos, NoIrq
    <2>4. \A op : Holds(Pos(c)', op) = {} /\ Depth(Pos(c)') = 0
      BY <2>3 DEF Holds, Depth, Inside, Outside
    <2>5. cpu'[c].noff = 0 /\ cpu'[c].intr = 1 /\ put'[c].saw = 0 /\ ~Busy(c)'
      BY <1>1, <2>1, <2>2 DEF Busy
    <2>6. (\A l \in Lock : lock[l] = c <=> l \in Holds(Pos(c), Call(cpu[c].proc).op))'
      BY <2>1, <2>2, <2>4
    <2> QED
      BY <1>1, <1>2, <2>1, <2>3, <2>4, <2>5, <2>6 DEF WellPlaced, NoIrq
  <1>7. \A p \in Proc : Resumable(p)'
    BY <1>0 DEF Resumable
  <1> QED
    BY <1>3, <1>4, <1>5, <1>6, <1>7, Local DEF LockInv

(* A hart that gives its process up: it is in scheduler() and holds nothing. *)
LEMMA GivesUp ==
  ASSUME LockInv, NEW c \in Cpu, cpu' = [cpu EXCEPT ![c] = InScheduler], ~Busy(c), put' = put,
         irq'[c].at = "none", irq' = [d \in Cpu |-> [at |-> irq'[d].at, c |-> irq'[d].c]],
         \A d \in Cpu \ {c} : irq'[d] = irq[d],
         lock' \in [Lock -> Cpu \cup {Free}], \A l \in Lock : lock'[l] # c,
         \A d \in Cpu \ {c} : \A l \in Lock : lock'[l] = d <=> lock[l] = d,
         proc' \in [Proc -> ProcRecord], \A p \in Proc : p # cpu[c].proc => proc'[p] = proc[p],
         pc' \in [Proc -> Outside \cup Inside], prog' \in [Proc -> Seq([op : Op, n : Nat, ok : BOOLEAN])],
         \A p \in Proc : p # cpu[c].proc => pc'[p] = pc[p] /\ prog'[p] = prog[p],
         \A p \in Proc : p = cpu[c].proc => Resumable(p)', panic' = Fine
  PROVE  LockInv'
  <1>0. Types /\ Alone /\ WellPlaced(c) /\ \A p \in Proc : Resumable(p)
    BY DEF LockInv
  <1>1. cpu'[c] = InScheduler /\ cpu' \in [Cpu -> CpuRecord] /\ \A d \in Cpu \ {c} : cpu'[d] = cpu[d]
    BY <1>0 DEF Types, CpuRecord, InScheduler
  <1>2. Frame(c)
    BY <1>1 DEF Frame
  <1>3. PutShape' /\ put[c].saw = 0
    BY <1>0 DEF Types, PutShape, WellPlaced
  <1>4. Types'
    <2>1. \A d \in Cpu : irq'[d].at \in Handlers \cup {"none"}
      BY <1>0 DEF Types
    <2> QED
      BY <1>0, <1>1, <1>3, <2>1 DEF Types, CpuRecord, ProcRecord
  <1>5. Alone'
    BY <1>0, <1>1 DEF Alone, InScheduler
  <1>6. WellPlaced(c)'
    <2>1. Pos(c)' = "idle" /\ Depth("idle") = 0 /\ \A op : Holds("idle", op) = {}
      BY <1>1 DEF Pos, InScheduler, Depth, Inside, Holds
    <2>2. ~Busy(c)' /\ put'[c].saw = 0
      BY <1>3 DEF Busy
    <2> QED
      BY <1>1, <2>1, <2>2 DEF WellPlaced, InScheduler
  <1>7. ASSUME NEW p \in Proc PROVE Resumable(p)'
    <2>1. CASE p = cpu[c].proc
      BY <2>1
    <2>2. CASE p # cpu[c].proc
      BY <1>0, <2>2 DEF Resumable
    <2> QED
      BY <2>1, <2>2
  <1> QED
    BY <1>2, <1>4, <1>5, <1>6, <1>7, Local

(* A hart that takes interrupts holds no lock and is not in uartputc_sync(). *)
LEMMA Interruptible ==
  ASSUME LockInv, NEW c \in Cpu, irq[c].at = "none", cpu[c].intr = 1
  PROVE  /\ \A l \in Lock : lock[l] # c
         /\ cpu[c].noff = 0 /\ put[c].saw = 0 /\ ~Busy(c)
         /\ cpu[c].proc # Idle => pc[cpu[c].proc] \in Outside
  <1>1. Types /\ WellPlaced(c)
    BY DEF LockInv
  <1>2. Pos(c) \in Outside \cup {"idle"}
    BY <1>1 DEF WellPlaced
  <1>3. Depth(Pos(c)) = 0 /\ \A op : Holds(Pos(c), op) = {}
    BY <1>2 DEF Outside, Inside, Depth, Holds
  <1>4. ~Busy(c) /\ put[c].saw = 0
    BY <1>1, <1>2 DEF WellPlaced, Types, PutShape, Outside
  <1>5. cpu[c].noff = 0 /\ \A l \in Lock : lock[l] # c
    BY <1>1, <1>3, <1>4 DEF WellPlaced
  <1>6. cpu[c].proc # Idle => pc[cpu[c].proc] \in Outside
    <2>1. cpu[c] \in CpuRecord
      BY <1>1 DEF Types, CpuRecord
    <2>2. cpu[c].proc # Idle => cpu[c].proc \in Proc /\ pc[cpu[c].proc] = Pos(c)
      BY <2>1 DEF CpuRecord, Pos
    <2>3. \A q \in Proc : pc[q] # "idle"
      BY <1>1 DEF Types, Outside, Inside
    <2> QED
      BY <1>2, <2>2, <2>3
  <1> QED
    BY <1>4, <1>5, <1>6
=============================================================================
