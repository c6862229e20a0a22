--------------------------- MODULE LogSpaceProofs ---------------------------
(***************************************************************************)
(* Proofs about the space of the log: begin_op()'s reservation of          *)
(* MAXOPBLOCKS per call keeps log_write() away from its panic when every   *)
(* call logs fewer distinct blocks than it reserves, and nobody sleeps on  *)
(* a log that no one will empty.                                           *)
(***************************************************************************)
EXTENDS LogProofs

(* One token per block a running call may still add to the log. *)
Budget == {t \in Active \X (1..OpBlocks) : t[2] <= OpBlocks - Cardinality(wrote[t[1]])}

Reserve ==
  /\ \A p \in Proc : IsFiniteSet(wrote[p])
  /\ Len(lh) + Cardinality(Budget) <= LOGBLOCKS - outstanding
  /\ \A p \in Active : wrote[p] \subseteq Blocks(lh)
  /\ \A p \in Active :
       held[p] # None => held[p] \in wrote[p] \/ Cardinality(wrote[p]) < OpBlocks
-----------------------------------------------------------------------------
(* The tokens are finitely many: at most OpBlocks for each running call. *)
LEMMA BudgetFinite ==
  /\ IsFiniteSet(Budget) /\ Cardinality(Budget) \in Nat
  /\ Cardinality(Budget) <= Cardinality(Active) * OpBlocks
  <1>1. IsFiniteSet(1..OpBlocks) /\ Cardinality(1..OpBlocks) = OpBlocks
    BY FS_Interval, LogAssumption
  <1>2. /\ IsFiniteSet(Active \X (1..OpBlocks))
        /\ Cardinality(Active \X (1..OpBlocks)) = Cardinality(Active) * OpBlocks
    BY <1>1, ActiveFinite, FS_Product
  <1>3. Budget \subseteq Active \X (1..OpBlocks)
    BY DEF Budget
  <1> QED
    BY <1>2, <1>3, FS_Subset, FS_CardinalityType

(* Each of n calls leaves at least one of its MAXOPBLOCKS reserved slots unused. *)
LEMMA SpareSlots ==
  ASSUME NEW n \in Nat, NEW a \in Nat, NEW b \in Nat, a < b
  PROVE  n * a + n <= n * b
  <1> DEFINE d == b - (a + 1)
  <1>1. d \in Nat /\ b = a + 1 + d
    OBVIOUS
  <1> HIDE DEF d
  <1>2. n * d \in Nat /\ n * a \in Nat
    BY <1>1
  <1>3. n * (a + 1 + d) = n * a + n + n * d
    BY <1>1
  <1> QED
    BY <1>1, <1>2, <1>3

(* begin_op() admits a call only if its MAXOPBLOCKS fit beside all others'. *)
LEMMA Reserve_begin_op ==
  ASSUME OpBlocks < MAXOPBLOCKS, NEW p \in Proc, Ctl, Ctl', Reserve, begin_op(p) PROVE Reserve'
  <1>1. Active' = Active \cup {p}
    BY DEF Ctl, TypeOK, begin_op, Active, InOp
  <1>2. /\ wrote' = [wrote EXCEPT ![p] = {}] /\ wrote \in [Proc -> SUBSET Block]
        /\ lh' = lh /\ held' = held /\ held[p] = None
    BY DEF Ctl, TypeOK, HeldOK, begin_op
  <1>3. \A q \in Proc : IsFiniteSet(wrote'[q])
    BY <1>2, FS_EmptySet DEF Reserve
  <1>4. Len(lh') + Cardinality(Budget') <= LOGBLOCKS - outstanding'
    <2>1. (/\ IsFiniteSet(Budget) /\ Cardinality(Budget) \in Nat
           /\ Cardinality(Budget) <= Cardinality(Active) * OpBlocks)'
      BY BudgetFinite, PTL
    <2>2. outstanding' = outstanding + 1 /\ Cardinality(Active') = outstanding'
      BY DEF Ctl, begin_op
    <2>3. Len(lh) + (outstanding + 1) * MAXOPBLOCKS <= LOGBLOCKS
      BY DEF begin_op, RoomFor
    <2> DEFINE n == outstanding + 1
               used == n * OpBlocks
               kept == n * MAXOPBLOCKS
    <2>4. n \in Nat /\ used \in Nat /\ kept \in Nat /\ Len(lh) \in Nat
      BY LogAssumption DEF Ctl, TypeOK
    <2>5. used + n <= kept
      BY <2>4, SpareSlots, LogAssumption
    <2>6. Len(lh) + kept <= LOGBLOCKS /\ Cardinality(Budget') <= used /\ outstanding' = n
      BY <2>1, <2>2, <2>3
    <2> HIDE DEF n, used, kept
    <2> QED
      BY <1>2, <2>1, <2>4, <2>5, <2>6, LogAssumption
  <1>5. \A q \in Active' : wrote'[q] \subseteq Blocks(lh')
    BY <1>1, <1>2 DEF Reserve, Active
  <1>6. \A q \in Active' : held'[q] # None => held'[q] \in wrote'[q] \/ Cardinality(wrote'[q]) < OpBlocks
    BY <1>1, <1>2 DEF Reserve, Active
  <1> QED
    BY <1>3, <1>4, <1>5, <1>6 DEF Reserve

(* log_write() spends a token of its call for each header entry it adds. *)
LEMMA Reserve_log_write ==
  ASSUME NEW p \in Proc, Ctl, Ctl', Reserve, log_write(p) PROVE Reserve'
  <1> DEFINE b == held[p]
             k == OpBlocks - Cardinality(wrote[p])
  <1>1. /\ Active' = Active /\ p \in Active /\ outstanding' = outstanding
        /\ held' = [held EXCEPT ![p] = None] /\ wrote' = [wrote EXCEPT ![p] = @ \cup {b}]
        /\ held[p] # None
    BY DEF Ctl, TypeOK, HeldOK, log_write, Active, InOp
  <1>2. wrote \in [Proc -> SUBSET Block] /\ held \in [Proc -> Block \cup {None}] /\ b \in Block
    BY <1>1 DEF Ctl, TypeOK
  <1>3. IsFiniteSet(wrote[p]) /\ Cardinality(wrote[p]) \in Nat
    BY FS_CardinalityType DEF Reserve
  <1>4. /\ IsFiniteSet(wrote'[p])
        /\ Cardinality(wrote'[p])
             = IF b \in wrote[p] THEN Cardinality(wrote[p]) ELSE Cardinality(wrote[p]) + 1
    BY <1>1, <1>2, <1>3, FS_AddElement
  <1>5. \A q \in Proc : IsFiniteSet(wrote'[q])
    BY <1>1, <1>2, <1>4 DEF Reserve
  <1>6. \A q \in Active' : held'[q] # None => held'[q] \in wrote'[q] \/ Cardinality(wrote'[q]) < OpBlocks
    BY <1>1, <1>2 DEF Reserve, Active
  <1>7. lh \in Seq(Block) /\ Blocks(lh') = Blocks(lh) \cup {b}
    <2>1. lh \in Seq(Block)
      BY DEF Ctl, TypeOK
    <2>2. CASE b \in Blocks(lh)
      BY <2>1, <2>2 DEF log_write
    <2>3. CASE b \notin Blocks(lh)
      BY <1>2, <2>1, <2>3, BlocksAppend DEF log_write
    <2> QED
      BY <2>1, <2>2, <2>3
  <1>8. \A q \in Active' : wrote'[q] \subseteq Blocks(lh')
    BY <1>1, <1>2, <1>7 DEF Reserve, Active
  <1>9. Len(lh') + Cardinality(Budget') <= LOGBLOCKS - outstanding'
    <2>1. CASE b \in wrote[p]
      <3>1. lh' = lh
        BY <1>1, <2>1 DEF log_write, Reserve
      <3>2. wrote' = wrote
        BY <1>1, <1>2, <2>1
      <3> QED
        BY <1>1, <3>1, <3>2 DEF Budget, Reserve
    <2>2. CASE b \notin wrote[p]
      <3>1. k \in 1..OpBlocks
        BY <1>1, <1>3, <2>2, LogAssumption DEF Reserve
      <3>2. <<p, k>> \in Budget
        BY <1>1, <1>3, <3>1 DEF Budget
      <3>3. Budget' \subseteq Budget \ {<<p, k>>}
        <4> SUFFICES ASSUME NEW t \in Budget' PROVE t \in Budget /\ t # <<p, k>>
          OBVIOUS
        <4>1. t \in Active \X (1..OpBlocks) /\ t[2] <= OpBlocks - Cardinality(wrote'[t[1]])
          BY <1>1 DEF Budget
        <4>2. CASE t[1] = p
          BY <1>3, <1>4, <2>2, <4>1, <4>2, LogAssumption DEF Budget
        <4>3. CASE t[1] # p
          BY <1>1, <1>2, <4>1, <4>3 DEF Budget, Active
        <4> QED
          BY <4>2, <4>3
      <3>4. IsFiniteSet(Budget) /\ Cardinality(Budget) \in Nat
        BY BudgetFinite
      <3>5. /\ Cardinality(Budget \ {<<p, k>>}) = Cardinality(Budget) - 1
            /\ IsFiniteSet(Budget \ {<<p, k>>})
        BY <3>2, <3>4, FS_RemoveElement
      <3>6. Cardinality(Budget') \in Nat /\ Cardinality(Budget') <= Cardinality(Budget) - 1
        BY <3>3, <3>5, FS_Subset, FS_CardinalityType
      <3>7. Len(lh') <= Len(lh) + 1 /\ Len(lh') \in Nat /\ Len(lh) \in Nat
        BY <1>2, <1>7 DEF log_write
      <3>8. Len(lh) + Cardinality(Budget) <= LOGBLOCKS - outstanding
        BY DEF Reserve
      <3>9. outstanding \in Nat
        BY DEF Ctl, TypeOK
      <3> QED
        BY <1>1, <3>4, <3>6, <3>7, <3>8, <3>9, LogAssumption
    <2> QED
      BY <2>1, <2>2
  <1> QED
    BY <1>5, <1>6, <1>8, <1>9 DEF Reserve

(* end_op() gives up the tokens its call did not spend. *)
LEMMA Reserve_end_op ==
  ASSUME NEW p \in Proc, Ctl, Ctl', Reserve, end_op(p) PROVE Reserve'
  <1>1. /\ Active' = Active \ {p} /\ outstanding' = outstanding - 1 /\ lh' = lh
        /\ held' = held /\ wrote' = wrote
    BY DEF Ctl, TypeOK, end_op, Active, InOp, Wakeup
  <1>2. Budget' \subseteq Budget
    BY <1>1 DEF Budget
  <1>3. Cardinality(Budget) \in Nat /\ Cardinality(Budget') \in Nat
        /\ Cardinality(Budget') <= Cardinality(Budget)
    BY <1>2, BudgetFinite, FS_Subset, FS_CardinalityType
  <1>4. Len(lh') + Cardinality(Budget') <= LOGBLOCKS - outstanding'
    <2>1. outstanding \in Nat /\ Len(lh) \in Nat
      BY DEF Ctl, TypeOK
    <2>2. Len(lh) + Cardinality(Budget) <= LOGBLOCKS - outstanding
      BY DEF Reserve
    <2> QED
      BY <1>1, <1>3, <2>1, <2>2, LogAssumption
  <1> QED
    BY <1>1, <1>4 DEF Reserve

(* A call changes a new block only while it has a token for it. *)
LEMMA Reserve_modify ==
  ASSUME NEW p \in Proc, NEW b \in Block, NEW v \in Val, Ctl, Ctl', Reserve, modify(p, b, v)
  PROVE  Reserve'
  <1>1. /\ Active' = Active /\ outstanding' = outstanding /\ lh' = lh /\ wrote' = wrote
        /\ held' = [held EXCEPT ![p] = b]
    BY DEF Ctl, TypeOK, modify, Active, InOp
  <1>2. Budget' = Budget
    BY <1>1 DEF Budget
  <1>3. \A q \in Active' : held'[q] # None => held'[q] \in wrote'[q] \/ Cardinality(wrote'[q]) < OpBlocks
    BY <1>1 DEF Reserve, modify, Active, Ctl, TypeOK
  <1> QED
    BY <1>1, <1>2, <1>3 DEF Reserve

(* A step that leaves the calls and the log header alone. *)
LEMMA ReserveSame ==
  ASSUME Reserve, Active' = Active, UNCHANGED <<lh, outstanding, wrote, held>>
  PROVE  Reserve'
  <1>1. Budget' = Budget
    BY DEF Budget
  <1> QED
    BY <1>1 DEF Reserve

(* A step after which no call runs. *)
LEMMA ReserveNone ==
  ASSUME Reserve, Ctl', Active' = {}, \A p \in Proc : wrote'[p] = wrote[p] \/ wrote'[p] = {}
  PROVE  Reserve'
  <1>1. \A p \in Proc : IsFiniteSet(wrote'[p])
    BY FS_EmptySet DEF Reserve
  <1>2. Budget' = {}
    BY DEF Budget
  <1>3. Cardinality(Budget') = 0 /\ outstanding' = 0
    BY <1>2, FS_EmptySet DEF Ctl
  <1> QED
    BY <1>1, <1>3, LogAssumption DEF Ctl, TypeOK, HeaderOK, Reserve

(* Each step keeps the accounting, given that calls stay below MAXOPBLOCKS. *)
LEMMA NextReserve ==
  ASSUME OpBlocks < MAXOPBLOCKS, IInv, IInv', Reserve, Next
  PROVE  Reserve'
  <1>0. Ctl /\ Ctl' /\ wrote \in [Proc -> SUBSET Block]
    BY DEF IInv, Ctl, TypeOK
  <1>1. ASSUME NEW p \in Proc, begin_op(p) PROVE Reserve'
    BY <1>0, <1>1, Reserve_begin_op
  <1>2. ASSUME NEW p \in Proc, log_write(p) PROVE Reserve'
    BY <1>0, <1>2, Reserve_log_write
  <1>3. ASSUME NEW p \in Proc, end_op(p) PROVE Reserve'
    BY <1>0, <1>3, Reserve_end_op
  <1>4. ASSUME NEW p \in Proc, NEW b \in Block, NEW v \in Val, modify(p, b, v) PROVE Reserve'
    BY <1>0, <1>4, Reserve_modify
  <1>5. ASSUME NEW p \in Proc, begin_op_sleep(p) PROVE Reserve'
    <2>1. Active' = Active
      BY <1>0, <1>5 DEF Active, InOp, Ctl, TypeOK, begin_op_sleep, Wakeup
    <2> QED
      BY <1>5, <2>1, ReserveSame DEF begin_op_sleep
  <1>6. ASSUME NEW p \in Proc, write_log(p) PROVE Reserve'
    <2>1. Active' = Active
      BY <1>0, <1>6 DEF Active, InOp, Ctl, TypeOK, write_log, Wakeup
    <2> QED
      BY <1>6, <2>1, ReserveSame DEF write_log
  <1>7. ASSUME NEW p \in Proc, write_head(p) PROVE Reserve'
    <2>1. Active' = Active
      BY <1>0, <1>7 DEF Active, InOp, Ctl, TypeOK, write_head, Wakeup
    <2> QED
      BY <1>7, <2>1, ReserveSame DEF write_head
  <1>8. ASSUME NEW p \in Proc, install_trans(p) PROVE Reserve'
    <2>1. Active' = Active
      BY <1>0, <1>8 DEF Active, InOp, Ctl, TypeOK, install_trans, Wakeup
    <2> QED
      BY <1>8, <2>1, ReserveSame DEF install_trans
  <1>9. ASSUME NEW p \in Proc, finish(p) PROVE Reserve'
    <2>1. Active' = Active
      BY <1>0, <1>9 DEF Active, InOp, Ctl, TypeOK, finish, Wakeup
    <2> QED
      BY <1>9, <2>1, ReserveSame DEF finish
  <1>10. ASSUME NEW p \in Proc, end_op_commit(p) PROVE Reserve'
    <2>1. Active' = {}
      BY <1>0, <1>10 DEF Ctl, CommitOK, end_op_commit
    <2> QED
      BY <1>0, <1>10, <2>1, ReserveNone DEF end_op_commit
  <1>11. ASSUME NEW p \in Proc, erase(p) PROVE Reserve'
    <2>1. committing' = 1
      BY <1>0, <1>11 DEF Ctl, CommitOK, CommitPc, erase
    <2>2. Active' = {}
      BY <1>0, <2>1 DEF Ctl, CommitOK
    <2> QED
      BY <1>0, <1>11, <2>2, ReserveNone DEF erase
  <1>12. ASSUME NEW b \in Block, recycle(b) PROVE Reserve'
    BY <1>12, ReserveSame DEF recycle, Active, InOp
  <1>13. CASE crash
    <2>1. Active' = {}
      BY <1>0, <1>13 DEF Active, InOp, Ctl, BootOK, TypeOK, crash
    <2> QED
      BY <1>0, <1>13, <2>1, ReserveNone DEF crash
  <1>14. CASE read_head
    <2>1. Active' = {}
      BY <1>0, <1>14 DEF Active, InOp, Ctl, BootOK, TypeOK, read_head
    <2> QED
      BY <1>0, <1>14, <2>1, ReserveNone DEF read_head
  <1>15. CASE recover_install
    <2>1. Active' = {}
      BY <1>0, <1>15 DEF Active, InOp, Ctl, BootOK, TypeOK, recover_install
    <2> QED
      BY <1>0, <1>15, <2>1, ReserveNone DEF recover_install
  <1>16. CASE recover_clear
    <2>1. Active' = {}
      BY <1>0, <1>16 DEF Active, InOp, Ctl, BootOK, TypeOK, recover_clear
    <2> QED
      BY <1>0, <1>16, <2>1, ReserveNone DEF recover_clear
  <1> QED
    BY <1>1, <1>2, <1>3, <1>4, <1>5, <1>6, <1>7, <1>8,
       <1>9, <1>10, <1>11, <1>12, <1>13, <1>14, <1>15, <1>16 DEF Next, commit, recover

(* The accounting holds in every reachable state. *)
THEOREM ReserveInvariance == OpBlocks < MAXOPBLOCKS => (Spec => []Reserve)
  <1> SUFFICES ASSUME OpBlocks < MAXOPBLOCKS PROVE Spec => []Reserve
    OBVIOUS
  <1>1. Init => Reserve
    <2> SUFFICES ASSUME Init PROVE Reserve
      OBVIOUS
    <2>1. Active = {} /\ outstanding = 0 /\ lh = <<>>
      BY DEF Init, Active, InOp
    <2>2. Budget = {}
      BY <2>1 DEF Budget
    <2>3. Cardinality(Budget) = 0 /\ \A p \in Proc : IsFiniteSet(wrote[p])
      BY <2>2, FS_EmptySet DEF Init
    <2> QED
      BY <2>1, <2>3, LogAssumption DEF Reserve
  <1>2. IInv /\ IInv' /\ Reserve /\ [Next]_vars => Reserve'
    <2>1. CASE UNCHANGED vars
      BY <2>1, ReserveSame DEF vars, diskVars, Active, InOp
    <2> QED
      BY <2>1, NextReserve
  <1> QED
    BY Invariance, <1>1, <1>2, PTL DEF Spec

(* No panic() of log.c is reached, however calls interleave and whenever the
   machine crashes, if a call logs fewer distinct blocks than the MAXOPBLOCKS
   that begin_op() reserves for it. *)
THEOREM NeverPanics == OpBlocks < MAXOPBLOCKS => (Spec => []LogNeverPanics)
  <1> SUFFICES ASSUME OpBlocks < MAXOPBLOCKS PROVE Spec => []LogNeverPanics
    OBVIOUS
  <1>1. IInv /\ Reserve => LogNeverPanics
    <2> SUFFICES ASSUME IInv, Reserve, NEW p \in Proc
                 PROVE  /\ pc[p] = "modified" => Len(lh) < LOGBLOCKS /\ outstanding >= 1
                        /\ pc[p] = "op" => committing = 0
      BY DEF LogNeverPanics
    <2>1. CASE p \in Active
      <3>1. committing = 0
        BY <2>1 DEF IInv, Ctl, TypeOK, CommitOK
      <3>2. outstanding \in Nat /\ outstanding # 0 /\ Len(lh) \in Nat
        BY <2>1, ActiveEmpty DEF IInv, Ctl, TypeOK
      <3>3. Cardinality(Budget) \in Nat /\ Len(lh) + Cardinality(Budget) <= LOGBLOCKS - outstanding
        BY BudgetFinite DEF Reserve
      <3> QED
        BY <3>1, <3>2, <3>3, LogAssumption
    <2>2. CASE p \notin Active
      BY <2>2 DEF Active, InOp
    <2> QED
      BY <2>1, <2>2
  <1> QED
    BY Invariance, ReserveInvariance, <1>1, PTL
-----------------------------------------------------------------------------
(* begin_op() never sleeps on an idle log: an idle log is empty and has room
   for at least one call. *)
LEMMA IdleLogHasRoom ==
  ASSUME Ctl, boot = "up", committing = 0, outstanding = 0
  PROVE  RoomFor
  <1>1. Len(lh) = 0
    BY DEF Ctl, BootOK
  <1> QED
    BY <1>1, LogAssumption DEF RoomFor

(* No process sleeps in begin_op() with neither a call nor a commit left to
   wake it. *)
THEOREM NoSleeperForgotten == Spec => []SleeperHasWaker
  <1>1. Init => SleeperHasWaker
    BY DEF Init, SleeperHasWaker
  <1>2. IInv /\ IInv' /\ SleeperHasWaker /\ [Next]_vars => SleeperHasWaker'
    <2> SUFFICES ASSUME IInv, IInv', SleeperHasWaker, [Next]_vars PROVE SleeperHasWaker'
      OBVIOUS
    <2>0. /\ Ctl /\ pc \in [Proc -> Pc] /\ outstanding \in Nat /\ committing \in {0, 1}
          /\ outstanding' \in Nat
      BY DEF IInv, Ctl, TypeOK
    <2>1. ASSUME NEW p \in Proc, begin_op(p) PROVE SleeperHasWaker'
      BY <2>0, <2>1 DEF begin_op, SleeperHasWaker
    <2>2. ASSUME NEW p \in Proc, begin_op_sleep(p) PROVE SleeperHasWaker'
      BY <2>0, <2>2, IdleLogHasRoom DEF begin_op_sleep, SleeperHasWaker
    <2>3. ASSUME NEW p \in Proc, end_op(p) \/ finish(p) PROVE SleeperHasWaker'
      <3>1. \A q \in Proc : pc'[q] # "asleep"
        BY <2>0, <2>3 DEF end_op, finish, Wakeup
      <3> QED
        BY <3>1 DEF SleeperHasWaker
    <2>4. ASSUME NEW p \in Proc, end_op_commit(p) PROVE SleeperHasWaker'
      BY <2>4 DEF end_op_commit, SleeperHasWaker
    <2>5. ASSUME NEW p \in Proc, write_log(p) \/ write_head(p) \/ install_trans(p) \/ erase(p)
                                 \/ log_write(p)
          PROVE  SleeperHasWaker'
      BY <2>0, <2>5 DEF write_log, write_head, install_trans, erase, log_write, SleeperHasWaker
    <2>6. ASSUME NEW p \in Proc, NEW b \in Block, NEW v \in Val, modify(p, b, v)
          PROVE  SleeperHasWaker'
      BY <2>0, <2>6 DEF modify, SleeperHasWaker
    <2>7. ASSUME UNCHANGED <<pc, outstanding, committing>> PROVE SleeperHasWaker'
      BY <2>7 DEF SleeperHasWaker
    <2>8. CASE crash
      BY <2>8 DEF crash, SleeperHasWaker
    <2> QED
      BY <2>1, <2>2, <2>3, <2>4, <2>5, <2>6, <2>7, <2>8
      DEF Next, commit, recover, recycle, read_head, recover_install, recover_clear, vars, diskVars
  <1> QED
    BY Invariance, <1>1, <1>2, PTL DEF Spec
=============================================================================
