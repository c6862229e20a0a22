------------------------------ MODULE Console -------------------------------
(***************************************************************************)
(* The console (kernel/console.c), the serial port's driver                *)
(* (kernel/uart.c), printf()'s output (kernel/printf.c), the clock         *)
(* (clockintr() and sys_pause()), and the interrupts that drive them       *)
(* (kernel/trap.c, kernel/plic.c), on several harts.                       *)
(*                                                                         *)
(* A hart runs its handler, if it is in one, and otherwise its process.    *)
(* What is done under a lock is cut only where a register of the device is *)
(* read or written, because the device and uartputc_sync() use no lock.    *)
(***************************************************************************)
EXTENDS Spinlock, Sequences

CONSTANTS
  Cpu0,            \* the hart with cpuid() 0
  INPUT_BUF_SIZE,  \* characters in cons.buf
  BATCH,           \* sizeof(buf) in consolewrite()
  UINT,            \* unsigned int counts modulo UINT (2^32)
  FIFO,            \* characters the transmitter holds (16)
  Scenario         \* harts, calls and inputs to start from, see Init

Op == {"read", "write", "printf", "pause"}

ASSUME ConsoleAssumption ==
  /\ Lock = {"cons", "tx", "pr", "tickslock"}
  /\ Cpu0 \in Cpu
  /\ INPUT_BUF_SIZE \in Nat \ {0} /\ BATCH \in Nat \ {0}
  /\ UINT \in Nat /\ UINT > INPUT_BUF_SIZE /\ UINT % INPUT_BUF_SIZE = 0
  /\ FIFO \in Nat /\ FIFO > Cardinality(Cpu)
  /\ \A s \in Scenario :
       /\ s.on \subseteq Cpu
       /\ s.prog \in [Proc -> Seq([op : Op, n : Nat, ok : BOOLEAN])]

VARIABLES
  online,    \* the harts that have started
  cons,      \* buf and the indices r, w and e
  uart,      \* the device: characters received, to transmit; its transmit interrupt
  claimed,   \* the PLIC has given the UART's interrupt to a hart
  tx_busy,
  ticks,
  irq,       \* each hart's handler: where it is and the character it has read
  put,       \* each hart in uartputc_sync(): characters left, and the LSR was seen idle
  pc,        \* where each process is in its system call
  prog,      \* the calls each process has still to make
  loc,       \* the locals of its call
  killed,    \* p->killed
  got,       \* the characters its read() has copied out so far
  time,      \* clock interrupts of hart 0 since boot, which ticks counts modulo UINT
  left       \* how many keys (of left.on), timer interrupts and kills are still to come

consVars == <<cons, got>>
devVars == <<uart, claimed, tx_busy>>
procVars == <<pc, prog, loc, killed>>
vars == <<lockVars, online, consVars, devVars, ticks, irq, put, procVars, time, left>>

NoCall == [n |-> 0, nn |-> 0, ticks0 |-> 0, from |-> 0]
NoIrq == [at |-> "none", c |-> "none"]
NoPut == [n |-> 0, saw |-> 0]

(* The harts on, each process's calls, what is still to come (left), and the console's index
   and the clock after the input and the time that have gone before. *)
Start(s) ==
  /\ LockInit
  /\ online = s.on
  /\ cons = [buf |-> [i \in 0..INPUT_BUF_SIZE - 1 |-> "x"], r |-> s.index, w |-> s.index, e |-> s.index]
  /\ uart = [rx |-> <<>>, tx |-> 0, thre |-> FALSE]
  /\ claimed = FALSE /\ tx_busy = 0
  /\ ticks = s.clock
  /\ irq = [c \in Cpu |-> NoIrq]
  /\ put = [c \in Cpu |-> NoPut]
  /\ pc = [p \in Proc |-> "user"]
  /\ prog = s.prog
  /\ loc = [p \in Proc |-> NoCall]
  /\ killed = [p \in Proc |-> FALSE]
  /\ got = [p \in Proc |-> <<>>]
  /\ time = 0
  /\ left = s.left

Init == \E s \in Scenario : Start(s)

-----------------------------------------------------------------------------
(* The 16550 and the keyboard behind it. *)

(* A key is pressed, not faster than the handler takes them. *)
key(c) ==
  /\ left.keys > 0 /\ uart.rx = <<>>
  /\ left' = [left EXCEPT !.keys = @ - 1]
  /\ uart' = [uart EXCEPT !.rx = Append(@, c)]
  /\ UNCHANGED <<lockVars, online, consVars, claimed, tx_busy, ticks, irq, put, procVars, time>>

(* The transmitter sends a character; sending the last one raises its interrupt. *)
transmit ==
  /\ uart.tx > 0
  /\ uart' = [uart EXCEPT !.tx = @ - 1, !.thre = uart.tx = 1]
  /\ UNCHANGED <<lockVars, online, consVars, claimed, tx_busy, ticks, irq, put, procVars, time, left>>

TX_IDLE == uart.tx = 0

(* WriteReg(THR, c) *)
WriteTHR == uart' = [uart EXCEPT !.tx = @ + 1, !.thre = FALSE]

(* ReadReg(ISR) acknowledges the transmit interrupt, unless it reports received input instead. *)
ReadISR == uart' = [uart EXCEPT !.thre = @ /\ uart.rx # <<>>]

(* The UART's line, which the PLIC passes on to every hart until one claims it. *)
Pending == (uart.rx # <<>> \/ uart.thre) /\ ~claimed

-----------------------------------------------------------------------------
(* uartputc_sync(): under a lock or in a handler, so the hart is not taken away. *)

Busy(c) == put[c].n > 0

(* push_off(), and the loop that waits for LSR_TX_IDLE. *)
uartputc_wait(c) ==
  /\ Busy(c) /\ put[c].saw = 0
  /\ TX_IDLE
  /\ put' = [put EXCEPT ![c].saw = 1]
  /\ cpu' = [cpu EXCEPT ![c] = push_off(@)]
  /\ UNCHANGED <<lock, proc, panic, online, consVars, devVars, ticks, irq, procVars, time, left>>

(* The write of THR, and pop_off(). *)
uartputc_put(c) ==
  /\ put[c].saw = 1
  /\ WriteTHR
  /\ put' = [put EXCEPT ![c] = [n |-> @.n - 1, saw |-> 0]]
  /\ cpu' = [cpu EXCEPT ![c] = pop_off(@)]
  /\ panic' = First(PopOffCheck(cpu[c]))
  /\ UNCHANGED <<lock, proc, online, consVars, claimed, tx_busy, ticks, irq, procVars, time, left>>

(* consputc(n characters) *)
consputc(c, n) == put' = [put EXCEPT ![c].n = n]

-----------------------------------------------------------------------------
(* System calls.  Process p runs on hart c. *)

Runs(c, p) == cpu[c].proc = p /\ irq[c].at = "none" /\ ~Busy(c)

Call(p) == Head(prog[p])
Calls(p, op) == prog[p] # <<>> /\ Call(p).op = op
LockOf(op) ==
  CASE op = "read" -> "cons" [] op = "write" -> "tx" [] op = "printf" -> "pr" [] op = "pause" -> "tickslock"

Return(p) ==
  /\ pc' = [pc EXCEPT ![p] = "user"]
  /\ prog' = [prog EXCEPT ![p] = Tail(@)]

(* A call is made: it begins with acquire(). *)
syscall(c, p) ==
  /\ Runs(c, p) /\ pc[p] = "user" /\ ~killed[p]
  /\ prog[p] # <<>> /\ Call(p).op # "write"
  /\ acquire(c, LockOf(Call(p).op))
  /\ pc' = [pc EXCEPT ![p] = "spin"]
  /\ loc' = [loc EXCEPT ![p] = [NoCall EXCEPT !.n = Call(p).n]]
  /\ got' = [got EXCEPT ![p] = <<>>]
  /\ UNCHANGED <<lock, proc, online, cons, devVars, ticks, irq, put, prog, killed, time, left>>

(* The loop of consolewrite(): the next batch is copied in, and uartwrite() begins. *)
consolewrite(c, p) ==
  /\ Runs(c, p) /\ Calls(p, "write")
  /\ pc[p] = "batch" \/ (pc[p] = "user" /\ ~killed[p])
  /\ LET n == IF pc[p] = "user" THEN Call(p).n ELSE loc[p].n IN
     \/ /\ n > 0 /\ Call(p).ok
        /\ loc' = [loc EXCEPT ![p] = [NoCall EXCEPT !.n = n, !.nn = IF n < BATCH THEN n ELSE BATCH]]
        /\ acquire(c, "tx")
        /\ pc' = [pc EXCEPT ![p] = "spin"]
        /\ UNCHANGED prog
     \/ /\ n = 0 \/ ~Call(p).ok
        /\ Return(p)
        /\ UNCHANGED <<cpu, panic, loc>>
  /\ UNCHANGED <<lock, proc, online, consVars, devVars, ticks, irq, put, killed, time, left>>

(* sleep() ends by acquiring the lock again. *)
resume(c, p) ==
  /\ Runs(c, p) /\ pc[p] = "woken"
  /\ acquire(c, LockOf(Call(p).op))
  /\ pc' = [pc EXCEPT ![p] = "respin"]
  /\ UNCHANGED <<lock, proc, online, consVars, devVars, ticks, irq, put, prog, loc, killed, time, left>>

(* acquire() succeeds.  The first statements of printf() and of sys_pause() follow. *)
enter(c, p) ==
  /\ Runs(c, p) /\ pc[p] \in {"spin", "respin"}
  /\ test_and_set(c, LockOf(Call(p).op))
  /\ pc' = [pc EXCEPT ![p] = "in"]
  /\ loc' = IF pc[p] = "spin" THEN [loc EXCEPT ![p].ticks0 = ticks, ![p].from = time] ELSE loc
  /\ IF Call(p).op = "printf" THEN consputc(c, Call(p).n) ELSE UNCHANGED put
  /\ UNCHANGED <<cpu, proc, panic, online, consVars, devVars, ticks, irq, prog, killed, time, left>>

In(c, p, op) == Runs(c, p) /\ pc[p] = "in" /\ Calls(p, op)
SleepsOn(c, p, l, ch) == sleep(c, l, ch) /\ pc' = [pc EXCEPT ![p] = "woken"] /\ UNCHANGED prog

(* Fault: the transmitter is not marked busy. *)
Bug_uart_send_idle == WriteTHR /\ UNCHANGED tx_busy

(* uartwrite() sends a character; the transmit interrupt resets tx_busy. *)
uart_send == WriteTHR /\ tx_busy' = 1

(* One iteration of the loop of uartwrite(), or its end. *)
uartwrite(c, p) ==
  /\ In(c, p, "write")
  /\ \/ /\ loc[p].nn > 0 /\ tx_busy # 0
        /\ SleepsOn(c, p, "tx", "tx_chan")
        /\ UNCHANGED <<uart, tx_busy, loc>>
     \/ /\ loc[p].nn > 0 /\ tx_busy = 0
        /\ uart_send
        /\ loc' = [loc EXCEPT ![p].n = @ - 1, ![p].nn = @ - 1]
        /\ UNCHANGED <<lockVars, pc, prog>>
     \/ /\ loc[p].nn = 0
        /\ release(c, "tx")
        /\ pc' = [pc EXCEPT ![p] = "batch"]
        /\ UNCHANGED <<proc, uart, tx_busy, loc, prog>>
  /\ UNCHANGED <<online, consVars, claimed, ticks, irq, put, killed, time, left>>

(* printf() has put its characters. *)
printf(c, p) ==
  /\ In(c, p, "printf")
  /\ release(c, "pr")
  /\ Return(p)
  /\ UNCHANGED <<proc, online, consVars, devVars, ticks, irq, put, loc, killed, time, left>>

Slot(i) == i % INPUT_BUF_SIZE
Minus(i, j) == (i - j) % UINT

(* One iteration of the loop of consoleread(), or its end.  The copy to user space can fail. *)
consoleread(c, p) ==
  LET n == loc[p].n
      ch == cons.buf[Slot(cons.r)]
      next == (cons.r + 1) % UINT
      Done == release(c, "cons") /\ Return(p) /\ UNCHANGED proc
  IN
  /\ In(c, p, "read")
  /\ \/ /\ n = 0 \/ (cons.r = cons.w /\ killed[p])
        /\ Done
        /\ UNCHANGED <<cons, got, loc>>
     \/ /\ n > 0 /\ cons.r = cons.w /\ ~killed[p]
        /\ SleepsOn(c, p, "cons", "cons.r")
        /\ UNCHANGED <<cons, got, loc>>
     \/ /\ n > 0 /\ cons.r # cons.w
        /\ \/ /\ ch = "^D"
              /\ cons' = [cons EXCEPT !.r = IF n < Call(p).n THEN @ ELSE next]
              /\ Done
              /\ UNCHANGED <<got, loc>>
           \/ /\ ch # "^D" /\ ~Call(p).ok
              /\ cons' = [cons EXCEPT !.r = next]
              /\ Done
              /\ UNCHANGED <<got, loc>>
           \/ /\ ch # "^D" /\ Call(p).ok
              /\ cons' = [cons EXCEPT !.r = next]
              /\ got' = [got EXCEPT ![p] = Append(@, ch)]
              /\ loc' = [loc EXCEPT ![p].n = n - 1]
              /\ IF ch = "\n" THEN Done ELSE UNCHANGED <<lockVars, pc, prog>>
  /\ UNCHANGED <<online, devVars, ticks, irq, put, killed, time, left>>

(* Fault: the deadline ticks0 + n is computed first, and wraps. *)
Bug_Elapsed_wraps(p) == ticks >= (loc[p].ticks0 + Call(p).n) % UINT

Elapsed(p) == Minus(ticks, loc[p].ticks0) >= Call(p).n

(* The loop of sys_pause(). *)
sys_pause(c, p) ==
  /\ In(c, p, "pause")
  /\ \/ /\ ~Elapsed(p) /\ ~killed[p]
        /\ SleepsOn(c, p, "tickslock", "ticks")
     \/ /\ Elapsed(p) \/ killed[p]
        /\ release(c, "tickslock")
        /\ Return(p)
        /\ UNCHANGED proc
  /\ UNCHANGED <<online, consVars, devVars, ticks, irq, put, loc, killed, time, left>>

(* A process ends after its last call, or where usertrap() finds it killed. *)
exits(c, p) ==
  /\ Runs(c, p) /\ pc[p] = "user"
  /\ prog[p] = <<>> \/ killed[p]
  /\ kexit(c)
  /\ prog' = [prog EXCEPT ![p] = <<>>]
  /\ UNCHANGED <<online, consVars, devVars, ticks, irq, put, pc, loc, killed, time, left>>

schedule(c, p) ==
  /\ c \in online /\ irq[c].at = "none"
  /\ scheduler(c, p)
  /\ UNCHANGED <<online, consVars, devVars, ticks, irq, put, procVars, time, left>>

(* kkill(p) by some other process. *)
kkill(p) ==
  /\ left.kills > 0 /\ ~killed[p] /\ proc[p].state # "ZOMBIE"
  /\ left' = [left EXCEPT !.kills = @ - 1]
  /\ killed' = [killed EXCEPT ![p] = TRUE]
  /\ proc' = [proc EXCEPT ![p].state = IF @ = "SLEEPING" THEN "RUNNABLE" ELSE @]
  /\ UNCHANGED <<cpu, lock, panic, online, consVars, devVars, ticks, irq, put, pc, prog, loc, time>>

-----------------------------------------------------------------------------
(* Interrupt handlers.  A trap turns interrupts off; its end restores them. *)

Handles(c, at) == irq[c].at = at /\ ~Busy(c)
Goto(c, at) == irq' = [irq EXCEPT ![c].at = at]

(* An interrupt is taken in user mode (usertrap()), in the kernel or in the scheduler
   (kerneltrap()): any hart may see the UART's, and each has a timer. *)
trap(c) ==
  /\ c \in online /\ cpu[c].intr = 1 /\ irq[c].at = "none"
  /\ \/ Pending /\ Goto(c, "devintr") /\ UNCHANGED left
     \/ /\ left.timers > 0
        /\ left' = [left EXCEPT !.timers = @ - 1]
        /\ Goto(c, "clockintr")
  /\ cpu' = [cpu EXCEPT ![c].intr = 0]
  /\ UNCHANGED <<lock, proc, panic, online, consVars, devVars, ticks, put, procVars, time>>

(* devintr(): plic_claim() gives the interrupt to one hart; the others return. *)
plic_claim(c) ==
  /\ Handles(c, "devintr")
  /\ IF Pending
     THEN claimed' = TRUE /\ Goto(c, "uartintr") /\ UNCHANGED cpu
     ELSE irq' = [irq EXCEPT ![c] = NoIrq] /\ cpu' = [cpu EXCEPT ![c].intr = 1] /\ UNCHANGED claimed
  /\ UNCHANGED <<lock, proc, panic, online, consVars, uart, tx_busy, ticks, put, procVars, time, left>>

(* uartintr() acknowledges the interrupt and calls acquire(&tx_lock). *)
uartintr(c) ==
  /\ Handles(c, "uartintr")
  /\ ReadISR
  /\ acquire(c, "tx")
  /\ Goto(c, "tx spin")
  /\ UNCHANGED <<lock, proc, online, consVars, claimed, tx_busy, ticks, put, procVars, time, left>>

(* acquire() succeeds in a handler. *)
Spins == [at \in {"tx spin", "cons spin", "pr spin", "ticks spin"} |->
           CASE at = "tx spin" -> [l |-> "tx", next |-> "tx"]
             [] at = "cons spin" -> [l |-> "cons", next |-> "consoleintr"]
             [] at = "pr spin" -> [l |-> "pr", next |-> "procdump"]
             [] at = "ticks spin" -> [l |-> "tickslock", next |-> "tick"]]

spin(c) ==
  /\ irq[c].at \in DOMAIN Spins /\ ~Busy(c)
  /\ test_and_set(c, Spins[irq[c].at].l)
  /\ Goto(c, Spins[irq[c].at].next)
  /\ UNCHANGED <<cpu, proc, panic, online, consVars, devVars, ticks, put, procVars, time, left>>

(* The transmitter is idle: the next character may be sent. *)
uart_ready(c) ==
  /\ Handles(c, "tx")
  /\ IF TX_IDLE THEN tx_busy' = 0 /\ wakeup("tx_chan") ELSE UNCHANGED <<tx_busy, proc>>
  /\ release(c, "tx")
  /\ Goto(c, "uartgetc")
  /\ UNCHANGED <<online, consVars, uart, claimed, ticks, put, procVars, time, left>>

(* uartgetc() and consoleintr()'s acquire(); or, with no input left, plic_complete(). *)
uartgetc(c) ==
  /\ Handles(c, "uartgetc")
  /\ IF uart.rx # <<>>
     THEN /\ uart' = [uart EXCEPT !.rx = Tail(@)]
          /\ irq' = [irq EXCEPT ![c] = [at |-> "cons spin", c |-> Head(uart.rx)]]
          /\ acquire(c, "cons")
          /\ UNCHANGED claimed
     ELSE /\ claimed' = FALSE
          /\ irq' = [irq EXCEPT ![c] = NoIrq]
          /\ cpu' = [cpu EXCEPT ![c].intr = 1]
          /\ UNCHANGED <<uart, panic>>
  /\ UNCHANGED <<lock, proc, online, consVars, tx_busy, ticks, put, procVars, time, left>>

Length == Minus(cons.e, cons.r)
Editing == Minus(cons.e, cons.w)

(* Characters that control-U erases: back to a newline or to cons.w. *)
Erasable ==
  CHOOSE k \in 0..Editing :
    /\ \A j \in 1..k : cons.buf[Slot(Minus(cons.e, j))] # "\n"
    /\ k = Editing \/ cons.buf[Slot(Minus(cons.e, k + 1))] = "\n"

Erased(ch) ==
  CASE ch = "^U" -> Erasable
    [] ch = "^H" -> IF cons.e # cons.w THEN 1 ELSE 0
    [] OTHER -> 0

(* Fault: a full buffer takes one more character. *)
Bug_Stores_over(ch) == ch \notin {"^P", "^U", "^H", "0"} /\ Length <= INPUT_BUF_SIZE

Stores(ch) == ch \notin {"^P", "^U", "^H", "0"} /\ Length < INPUT_BUF_SIZE

(* consoleintr(): the switch, up to the output it causes. *)
consoleintr(c) ==
  /\ Handles(c, "consoleintr")
  /\ LET ch == irq[c].c IN
     IF ch = "^P"
     THEN acquire(c, "pr") /\ Goto(c, "pr spin") /\ UNCHANGED put
     ELSE /\ consputc(c, IF Stores(ch) THEN 1 ELSE 3 * Erased(ch))
          /\ Goto(c, "store")
          /\ UNCHANGED <<cpu, panic>>
  /\ UNCHANGED <<lock, proc, online, consVars, devVars, ticks, procVars, time, left>>

(* procdump(): its calls of printf() are one. *)
procdump(c) ==
  /\ Handles(c, "procdump")
  /\ consputc(c, 1)
  /\ Goto(c, "dumped")
  /\ UNCHANGED <<lockVars, online, consVars, devVars, ticks, procVars, time, left>>

procdump_end(c) ==
  /\ Handles(c, "dumped")
  /\ release(c, "pr")
  /\ Goto(c, "store")
  /\ UNCHANGED <<proc, online, consVars, devVars, ticks, put, procVars, time, left>>

(* Fault: only a newline or end-of-file wakes the reader. *)
Bug_Commits_line(ch) == ch \in {"\n", "^D"}

(* A whole line has arrived, or the buffer is full. *)
Commits(ch) == ch \in {"\n", "^D"} \/ Length + 1 = INPUT_BUF_SIZE

(* The rest of consoleintr(): cons.buf and the indices change, a whole line wakes the readers.
   A carriage return is stored as a newline. *)
console_store(c) ==
  /\ Handles(c, "store")
  /\ LET ch == IF irq[c].c = "\r" THEN "\n" ELSE irq[c].c
         e == (cons.e + 1) % UINT
     IN
     IF Stores(ch)
     THEN /\ cons' = [cons EXCEPT !.buf[Slot(cons.e)] = ch, !.e = e, !.w = IF Commits(ch) THEN e ELSE @]
          /\ IF Commits(ch) THEN wakeup("cons.r") ELSE UNCHANGED proc
     ELSE cons' = [cons EXCEPT !.e = Minus(@, Erased(ch))] /\ UNCHANGED proc
  /\ release(c, "cons")
  /\ irq' = [irq EXCEPT ![c] = [at |-> "uartgetc", c |-> "none"]]
  /\ UNCHANGED <<online, got, devVars, ticks, put, procVars, time, left>>

(* clockintr() takes tickslock on hart 0.  Every hart gives its process up after a timer
   interrupt. *)
clockintr(c) ==
  /\ Handles(c, "clockintr")
  /\ IF c = Cpu0 THEN acquire(c, "tickslock") /\ Goto(c, "ticks spin")
                 ELSE Goto(c, "yield") /\ UNCHANGED <<cpu, panic>>
  /\ UNCHANGED <<lock, proc, online, consVars, devVars, ticks, put, procVars, time, left>>

tick(c) ==
  /\ Handles(c, "tick")
  /\ ticks' = (ticks + 1) % UINT
  /\ time' = time + 1
  /\ wakeup("ticks")
  /\ release(c, "tickslock")
  /\ Goto(c, "yield")
  /\ UNCHANGED <<online, consVars, devVars, put, procVars, left>>

timer_end(c) ==
  /\ Handles(c, "yield")
  /\ yield(c)
  /\ irq' = [irq EXCEPT ![c] = NoIrq]
  /\ UNCHANGED <<lock, online, consVars, devVars, ticks, put, procVars, time, left>>

-----------------------------------------------------------------------------
(* What hart c does next. *)
Process(c, p) ==
  \/ syscall(c, p) \/ consolewrite(c, p) \/ resume(c, p) \/ enter(c, p) \/ uartwrite(c, p)
  \/ printf(c, p) \/ consoleread(c, p) \/ sys_pause(c, p) \/ exits(c, p) \/ schedule(c, p)

Handler(c) ==
  \/ plic_claim(c) \/ uartintr(c) \/ spin(c) \/ uart_ready(c) \/ uartgetc(c) \/ consoleintr(c)
  \/ procdump(c) \/ procdump_end(c) \/ console_store(c) \/ clockintr(c) \/ tick(c) \/ timer_end(c)

Hart(c) ==
  \/ uartputc_wait(c) \/ uartputc_put(c)
  \/ Handler(c)
  \/ \E p \in Proc : Process(c, p)

Next ==
  \/ \E c \in left.on : key(c)
  \/ transmit
  \/ \E p \in Proc : kkill(p)
  \/ \E c \in Cpu : trap(c) \/ Hart(c)

(* Every hart executes, takes its interrupts, and the transmitter sends. *)
Fairness == WF_vars(transmit) /\ \A c \in Cpu : WF_vars(Hart(c)) /\ WF_vars(trap(c))

Spec == Init /\ [][Next]_vars /\ Fairness

-----------------------------------------------------------------------------
(* No hart panics in acquire(), release(), pop_off() or sched(): an interrupt handler never
   waits for a lock that the code it interrupted holds, and no process sleeps with a second
   lock. *)
LocksNeverPanic == panic = Fine

(* The transmitter never has more characters than it can hold, although uartwrite() and
   uartputc_sync() are under different locks and each looks before it writes: at most one
   character per hart, and one of uartwrite(), is sent on the strength of one idle LSR. *)
OutputIsNotLost == uart.tx <= FIFO

(* sys_pause() that ends otherwise than by a kill ends after n clock interrupts or more, also
   when ticks wraps around in between. *)
PauseLasts ==
  [][\A p \in Proc :
       Calls(p, "pause") /\ pc[p] = "in" /\ pc'[p] = "user" /\ ~killed[p]
         => time - loc[p].from >= Call(p).n]_vars

(* The characters of cons.buf from index i up to index j. *)
Stored(i, j) == [k \in 1..Minus(j, i) |-> cons.buf[Slot((i + k - 1) % UINT)]]

terminal == INSTANCE Terminal
  WITH Size <- INPUT_BUF_SIZE, line <- Stored(cons.w, cons.e), ready <- Stored(cons.r, cons.w)

(* consoleintr() and consoleread(), on a ring whose indices wrap around, are an editable line
   in front of a queue: erasing never reaches a finished line, no character is read twice or
   overwritten unread, and an end-of-file ends exactly one read(). *)
ImplementsTerminal == terminal!Spec

Asleep(p, op) == proc[p].state = "SLEEPING" /\ Calls(p, op)

(* Every process finishes its calls, except a reader for whom no line has been typed, while
   there is still room to type one, and a pause whose time has not come: no wakeup from an
   interrupt is lost, no lock is held for ever, and a full buffer goes to its reader. *)
CallsFinish ==
  \A p \in Proc :
    <>[](\/ proc[p].state = "ZOMBIE"
         \/ Asleep(p, "read") /\ cons.r = cons.w /\ Length < INPUT_BUF_SIZE
         \/ Asleep(p, "pause") /\ ~Elapsed(p))

=============================================================================
