------------------------ MODULE ConsoleOutputProofs -------------------------
(*****************************************************************************)
(* The transmitter does not overflow, for any number of harts below its      *)
(* capacity, any processes and any programs.                                 *)
(*****************************************************************************)
EXTENDS ConsoleLocks, FiniteSetTheorems

(* The harts that have seen the transmitter idle and not yet written to it. *)
Saw == {c \in Cpu : put[c].saw = 1}

(* Characters in the transmitter and those about to be written on the strength of an idle LSR:
   one for each hart in Saw, and one for uartwrite() while tx_busy is 0. *)
Credit ==
  /\ uart = [rx |-> uart.rx, tx |-> uart.tx, thre |-> uart.thre] /\ uart.tx \in Nat
  /\ tx_busy \in {0, 1}
  /\ uart.tx + Cardinality(Saw) + 1 - tx_busy <= Cardinality(Cpu) + 1

(* Saw is a finite set, and no larger than the set of harts. *)
LEMMA SawBound ==
  /\ IsFiniteSet(Saw) /\ Cardinality(Saw) \in Nat /\ Cardinality(Saw) <= Cardinality(Cpu)
  /\ Cardinality(Cpu) \in Nat
  <1>1. Saw \subseteq Cpu /\ IsFiniteSet(Cpu)
    BY SpinlockAssumption DEF Saw
  <1> QED
    BY <1>1, FS_Subset, FS_CardinalityType

(* A step that touches neither the transmitter nor what the harts have seen of it. *)
LEMMA CreditKept ==
  ASSUME Credit, PutShape,
         uart' = [rx |-> uart'.rx, tx |-> uart.tx, thre |-> uart'.thre],
         tx_busy' = tx_busy, \A c \in Cpu : put'[c].saw = put[c].saw
  PROVE  Credit'
  <1>1. Saw' = Saw
    BY DEF Saw
  <1> QED
    BY <1>1 DEF Credit

(* uartputc_sync() sees the transmitter idle: it is empty, so the count is at most one for each
   hart and one for uartwrite(). *)
LEMMA Credit_wait ==
  ASSUME Credit, PutShape, NEW c \in Cpu, uartputc_wait(c) PROVE Credit' /\ PutShape'
  <1>1. PutShape'
    BY DEF PutShape, uartputc_wait
  <1>2. uart.tx = 0 /\ uart' = uart /\ tx_busy' = tx_busy
    BY DEF uartputc_wait, TX_IDLE, devVars
  <1>3. Cardinality(Saw)' <= Cardinality(Cpu) /\ Cardinality(Saw)' \in Nat /\ Cardinality(Cpu) \in Nat
    <2>1. (Cardinality(Saw) \in Nat /\ Cardinality(Saw) <= Cardinality(Cpu))'
      BY SawBound, PTL
    <2> QED
      BY <2>1, SawBound
  <1> QED
    BY <1>1, <1>2, <1>3 DEF Credit

(* It writes: its place among the harts becomes a character. *)
LEMMA Credit_put ==
  ASSUME Credit, PutShape, NEW c \in Cpu, uartputc_put(c) PROVE Credit' /\ PutShape'
  <1>1. PutShape'
    BY DEF PutShape, uartputc_put
  <1>2. /\ uart' = [rx |-> uart.rx, tx |-> uart.tx + 1, thre |-> FALSE]
        /\ tx_busy' = tx_busy
    BY DEF Credit, uartputc_put, WriteTHR
  <1>3. Saw' = Saw \ {c} /\ c \in Saw
    BY DEF Saw, PutShape, uartputc_put
  <1>4. Cardinality(Saw') = Cardinality(Saw) - 1
    BY <1>3, SawBound, FS_RemoveElement
  <1> QED
    BY <1>1, <1>2, <1>4, SawBound DEF Credit

(* uartwrite() sends a character, sleeps or ends. *)
LEMMA Credit_uartwrite ==
  ASSUME Credit, PutShape, NEW c \in Cpu, NEW p \in Proc, uartwrite(c, p) PROVE Credit' /\ PutShape'
  <1>1. put' = put
    BY DEF uartwrite
  <1>2. PutShape' /\ Saw' = Saw
    BY <1>1 DEF PutShape, Saw
  <1>3. CASE uart' = uart /\ tx_busy' = tx_busy
    BY <1>2, <1>3 DEF Credit
  <1>4. CASE tx_busy = 0 /\ uart_send
    <2>1. uart' = [rx |-> uart.rx, tx |-> uart.tx + 1, thre |-> FALSE] /\ tx_busy' = 1
      BY <1>4 DEF Credit, uart_send, WriteTHR
    <2> QED
      BY <1>2, <1>4, <2>1, SawBound DEF Credit
  <1> QED
    BY <1>3, <1>4 DEF uartwrite

(* The transmit interrupt resets tx_busy only when the transmitter is empty. *)
LEMMA Credit_ready ==
  ASSUME Credit, PutShape, NEW c \in Cpu, uart_ready(c) PROVE Credit' /\ PutShape'
  <1>1. put' = put /\ uart' = uart
    BY DEF uart_ready
  <1>2. PutShape' /\ Saw' = Saw
    BY <1>1 DEF PutShape, Saw
  <1>3. CASE TX_IDLE
    BY <1>1, <1>2, <1>3, SawBound DEF Credit, uart_ready, TX_IDLE
  <1>4. CASE ~TX_IDLE
    BY <1>1, <1>2, <1>4 DEF Credit, uart_ready
  <1> QED
    BY <1>3, <1>4

(* A process step other than uartwrite() does not use the device; enter() gives printf() its
   characters. *)
LEMMA Credit_Process ==
  ASSUME Credit, PutShape, NEW c \in Cpu, NEW p \in Proc, Process(c, p) PROVE Credit' /\ PutShape'
  <1>1. CASE uartwrite(c, p)
    BY <1>1, Credit_uartwrite
  <1>2. CASE enter(c, p)
    <2>1. uart' = uart /\ tx_busy' = tx_busy
      BY <1>2 DEF enter, devVars
    <2>2. put' = put \/ put' = [put EXCEPT ![c].n = Call(p).n]
      BY <1>2 DEF enter, consputc
    <2>3. PutShape' /\ \A d \in Cpu : put'[d].saw = put[d].saw
      BY <2>2, PutKept
    <2> QED
      BY <2>1, <2>3, CreditKept DEF Credit
  <1>3. ASSUME uart' = uart, tx_busy' = tx_busy, put' = put PROVE Credit' /\ PutShape'
    BY <1>3, CreditKept DEF Credit, PutShape
  <1>4. CASE syscall(c, p)
    BY <1>3, <1>4 DEF syscall, devVars
  <1>5. CASE consolewrite(c, p)
    BY <1>3, <1>5 DEF consolewrite, devVars
  <1>6. CASE resume(c, p)
    BY <1>3, <1>6 DEF resume, devVars
  <1>7. CASE printf(c, p)
    BY <1>3, <1>7 DEF printf, devVars
  <1>8. CASE consoleread(c, p)
    BY <1>3, <1>8 DEF consoleread, devVars
  <1>9. CASE sys_pause(c, p)
    BY <1>3, <1>9 DEF sys_pause, devVars
  <1>10. CASE exits(c, p)
    BY <1>3, <1>10 DEF exits, devVars
  <1>11. CASE schedule(c, p)
    BY <1>3, <1>11 DEF schedule, devVars
  <1> QED
    BY <1>1, <1>2, <1>4, <1>5, <1>6, <1>7, <1>8, <1>9, <1>10, <1>11 DEF Process

(* A handler other than uart_ready() reads the device, or gives consputc() its characters. *)
LEMMA Credit_Handler ==
  ASSUME Credit, PutShape, NEW c \in Cpu, Handler(c) PROVE Credit' /\ PutShape'
  <1>1. CASE uart_ready(c)
    BY <1>1, Credit_ready
  <1>2. ASSUME uart' = [rx |-> uart'.rx, tx |-> uart.tx, thre |-> uart'.thre], tx_busy' = tx_busy,
               NEW n, put' = put \/ put' = [put EXCEPT ![c].n = n]
        PROVE  Credit' /\ PutShape'
    <2>1. PutShape' /\ \A d \in Cpu : put'[d].saw = put[d].saw
      BY <1>2, PutKept
    <2> QED
      BY <1>2, <2>1, CreditKept
  <1>3. CASE plic_claim(c)
    BY <1>2, <1>3 DEF plic_claim, Credit
  <1>4. CASE uartintr(c)
    BY <1>2, <1>4 DEF uartintr, ReadISR, Credit
  <1>5. CASE spin(c)
    BY <1>2, <1>5 DEF spin, devVars, Credit
  <1>6. CASE uartgetc(c)
    BY <1>2, <1>6 DEF uartgetc, Credit
  <1>7. CASE consoleintr(c)
    <2> DEFINE n == IF Stores(irq[c].c) THEN 1 ELSE 3 * Erased(irq[c].c)
    <2>1. uart' = uart /\ tx_busy' = tx_busy
      BY <1>7 DEF consoleintr, devVars
    <2>2. put' = put \/ put' = [put EXCEPT ![c].n = n]
      BY <1>7 DEF consoleintr, consputc
    <2> QED
      BY <1>2, <2>1, <2>2 DEF Credit
  <1>8. CASE procdump(c)
    BY <1>2, <1>8 DEF procdump, consputc, devVars, Credit
  <1>9. CASE procdump_end(c)
    BY <1>2, <1>9 DEF procdump_end, devVars, Credit
  <1>10. CASE console_store(c)
    BY <1>2, <1>10 DEF console_store, devVars, Credit
  <1>11. CASE clockintr(c)
    BY <1>2, <1>11 DEF clockintr, devVars, Credit
  <1>12. CASE tick(c)
    BY <1>2, <1>12 DEF tick, devVars, Credit
  <1>13. CASE timer_end(c)
    BY <1>2, <1>13 DEF timer_end, devVars, Credit
  <1> QED
    BY <1>1, <1>3, <1>4, <1>5, <1>6, <1>7, <1>8, <1>9, <1>10, <1>11, <1>12, <1>13 DEF Handler

(* Every step keeps the count. *)
LEMMA CreditStep ==
  ASSUME Credit, PutShape, [Next]_vars PROVE Credit' /\ PutShape'
  <1>1. ASSUME NEW k \in left.on, key(k) PROVE Credit' /\ PutShape'
    BY <1>1, CreditKept DEF key, Credit, PutShape
  <1>2. CASE transmit
    <2>1. /\ uart' = [rx |-> uart.rx, tx |-> uart.tx - 1, thre |-> uart'.thre]
          /\ uart.tx > 0 /\ tx_busy' = tx_busy /\ put' = put
      BY <1>2 DEF transmit, Credit
    <2>2. PutShape' /\ Saw' = Saw
      BY <2>1 DEF PutShape, Saw
    <2> QED
      BY <2>1, <2>2, SawBound DEF Credit
  <1>3. ASSUME NEW p \in Proc, kkill(p) PROVE Credit' /\ PutShape'
    BY <1>3, CreditKept DEF kkill, devVars, Credit, PutShape
  <1>4. ASSUME NEW c \in Cpu, trap(c) PROVE Credit' /\ PutShape'
    BY <1>4, CreditKept DEF trap, devVars, Credit, PutShape
  <1>5. ASSUME NEW c \in Cpu, Hart(c) PROVE Credit' /\ PutShape'
    BY <1>5, Credit_wait, Credit_put, Credit_Handler, Credit_Process DEF Hart
  <1>6. CASE UNCHANGED vars
    BY <1>6, CreditKept DEF vars, devVars, Credit, PutShape
  <1> QED
    BY <1>1, <1>2, <1>3, <1>4, <1>5, <1>6 DEF Next

(* OutputIsNotLost: uartwrite() and uartputc_sync() together never put more into the transmitter
   than it holds, for any number of harts below its capacity. *)
THEOREM OutputFits == Spec => []OutputIsNotLost
  <1>1. Init => Credit /\ PutShape
    <2> SUFFICES ASSUME NEW s \in Scenario, Start(s) PROVE Credit /\ PutShape
      BY DEF Init
    <2>1. put = [c \in Cpu |-> NoPut] /\ uart = [rx |-> <<>>, tx |-> 0, thre |-> FALSE] /\ tx_busy = 0
      BY DEF Start
    <2>2. PutShape /\ Saw = {}
      BY <2>1 DEF PutShape, Saw, NoPut
    <2> QED
      BY <2>1, <2>2, SawBound, FS_EmptySet DEF Credit
  <1>2. Credit /\ PutShape /\ [Next]_vars => (Credit /\ PutShape)'
    BY CreditStep
  <1>3. Credit => OutputIsNotLost
    BY SawBound, ConsoleAssumption DEF Credit, OutputIsNotLost
  <1> QED
    BY <1>1, <1>2, <1>3, PTL DEF Spec
=============================================================================
