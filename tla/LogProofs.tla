----------------------------- MODULE LogProofs ------------------------------
(***************************************************************************)
(* Proofs about Log for any number of processes and blocks and any log     *)
(* size.  Ctl is the control part of the inductive invariant (who is where *)
(* and what the headers list), Data the part about block contents.         *)
(***************************************************************************)
EXTENDS Log, FiniteSetTheorems, TLAPS

Active == {p \in Proc : InOp(p)}

NoDup(s) == \A i, j \in 1..Len(s) : s[i] = s[j] => i = j

HeaderOK ==
  /\ Len(lh) <= LOGBLOCKS /\ Len(hdr) <= LOGBLOCKS
  /\ NoDup(lh) /\ NoDup(hdr)

(* At most one process is in commit(), and no call runs meanwhile. *)
CommitOK ==
  /\ \A p \in Proc : pc[p] \in CommitPc => committing = 1
  /\ \A p, q \in Proc : pc[p] \in CommitPc /\ pc[q] \in CommitPc => p = q
  /\ committing = 1 => Active = {}
  /\ \A p \in Proc : pc[p] \in {"write_log", "install"} => tail < Len(lh)
  /\ \A p \in Proc : pc[p] \in {"write_head", "erase"} => tail = 0 /\ Len(lh) > 0
  /\ \A p \in Proc : pc[p] = "finish" => lh = <<>>

HeldOK ==
  /\ \A p \in Proc : held[p] = None <=> pc[p] # "modified"
  /\ \A p, q \in Proc : held[p] = held[q] /\ held[p] # None => p = q

BootOK ==
  /\ boot # "up" => /\ \A p \in Proc : pc[p] = "idle"
                    /\ committing = 0
                    /\ \A b \in Block : pins[b] = 0
                    /\ cache = disk
  /\ boot = "read_head" => tail = 0 /\ lh = <<>>
  /\ boot = "install" => lh = hdr /\ tail <= Len(lh)
  /\ boot = "up" =>
       /\ (\E p \in Proc : pc[p] \in {"install", "erase"}) => hdr = lh
       /\ (\A p \in Proc : pc[p] \notin {"install", "erase"}) => hdr = <<>>
  /\ boot = "up" /\ committing = 0 /\ outstanding = 0 => lh = <<>>

Ctl ==
  /\ TypeOK
  /\ HeaderOK
  /\ outstanding = Cardinality(Active)
  /\ CommitOK
  /\ HeldOK
  /\ BootOK

(* The blocks of the transaction that are not yet home: those still pinned. *)
Installed(i) ==
  \E p \in Proc : pc[p] = "erase" \/ (pc[p] = "install" /\ i <= tail)

PinsOK ==
  boot = "up" =>
    \A b \in Block :
      pins[b] = IF \E i \in 1..Len(lh) : lh[i] = b /\ ~Installed(i) THEN 1 ELSE 0

CleanOK ==
  boot = "up" =>
    \A b \in Block : pins[b] = 0 /\ (\A p \in Proc : held[p] # b) => cache[b] = disk[b]

LoggedOK ==
  \A p \in Proc :
    /\ pc[p] = "write_log" => \A i \in 1..tail : logdata[i] = cache[lh[i]]
    /\ pc[p] \in {"write_head", "install", "erase"}
         => \A i \in 1..Len(lh) : logdata[i] = cache[lh[i]]

ReplayOK == boot = "install" => \A i \in 1..tail : disk[hdr[i]] = logdata[i]

Data == PinsOK /\ CleanOK /\ LoggedOK /\ ReplayOK

IInv == Ctl /\ Data
-----------------------------------------------------------------------------
(* The running calls, those outstanding counts, are finitely many. *)
LEMMA ActiveFinite == IsFiniteSet(Active) /\ Cardinality(Active) \in Nat
  <1>1. Active \subseteq Proc
    BY DEF Active
  <1> QED
    BY <1>1, FS_Subset, FS_CardinalityType, LogAssumption

(* outstanding = 0 says exactly that no call is between begin_op() and end_op(). *)
LEMMA ActiveEmpty == Cardinality(Active) = 0 <=> Active = {}
  BY ActiveFinite, FS_EmptySet

(* The last call to reach end_op() is the only running one. *)
LEMMA ActiveSingle ==
  ASSUME NEW p \in Active, Cardinality(Active) = 1
  PROVE  Active = {p}
  <1>1. IsFiniteSet(Active \ {p}) /\ Cardinality(Active \ {p}) = 0
    BY ActiveFinite, FS_RemoveElement
  <1> QED
    BY <1>1, FS_EmptySet

(* begin_op() adds one to the number of running calls. *)
LEMMA ActiveAdd ==
  ASSUME NEW p \in Proc, p \notin Active, Active' = Active \cup {p}
  PROVE  Cardinality(Active') = Cardinality(Active) + 1
  BY ActiveFinite, FS_AddElement

(* end_op() takes one from the number of running calls. *)
LEMMA ActiveRemove ==
  ASSUME NEW p \in Active, Active' = Active \ {p}
  PROVE  Cardinality(Active') = Cardinality(Active) - 1
  BY ActiveFinite, FS_RemoveElement

(* What Init gives. *)
LEMMA InitIInv == Init => IInv
  <1> SUFFICES ASSUME Init PROVE IInv
    OBVIOUS
  <1> USE LogAssumption DEF LogAssumption
  <1>1. TypeOK
    BY DEF Init, TypeOK, Pc, Slot
  <1>2. Active = {}
    BY DEF Active, InOp, Init
  <1>3. Cardinality(Active) = 0
    BY <1>2, ActiveEmpty
  <1>4. Ctl
    BY <1>1, <1>2, <1>3 DEF Init, Ctl, NoDup, CommitPc, None, HeaderOK, CommitOK, HeldOK, BootOK
  <1>5. Data
    BY DEF Init, Data, PinsOK, CleanOK, LoggedOK, ReplayOK
  <1> QED
    BY <1>4, <1>5 DEF IInv
-----------------------------------------------------------------------------
(* Control: begin_op() that gets its reservation adds one call to those
   counted in outstanding. *)
LEMMA Ctl_begin_op ==
  ASSUME NEW p \in Proc, Ctl, begin_op(p) PROVE Ctl'
  <1>1. TypeOK'
    BY DEF Ctl, TypeOK, begin_op, Pc, CommitPc, None
  <1>2. p \notin Active /\ Active' = Active \cup {p}
    BY DEF Ctl, TypeOK, Active, InOp, begin_op
  <1>3. outstanding' = Cardinality(Active')
    BY <1>2, ActiveAdd DEF Ctl, begin_op
  <1>4. HeaderOK'
    BY DEF Ctl, TypeOK, HeaderOK, NoDup, begin_op
  <1>5. CommitOK'
    BY <1>2 DEF Ctl, TypeOK, CommitOK, CommitPc, begin_op
  <1>6. HeldOK'
    BY DEF Ctl, TypeOK, HeldOK, None, begin_op
  <1>7. BootOK'
    BY <1>2, <1>3 DEF Ctl, TypeOK, HeaderOK, CommitOK, CommitPc, BootOK, begin_op
  <1> QED
    BY <1>1, <1>3, <1>4, <1>5, <1>6, <1>7 DEF Ctl

(* Control: begin_op() that must wait changes only where its process stands. *)
LEMMA Ctl_begin_op_sleep ==
  ASSUME NEW p \in Proc, Ctl, begin_op_sleep(p) PROVE Ctl'
  <1>1. TypeOK'
    BY DEF Ctl, TypeOK, begin_op_sleep, Pc, CommitPc, None
  <1>2. Active' = Active
    BY DEF Ctl, TypeOK, Active, InOp, begin_op_sleep
  <1>3. outstanding' = Cardinality(Active')
    BY <1>2 DEF Ctl, begin_op_sleep
  <1>4. HeaderOK'
    BY DEF Ctl, TypeOK, HeaderOK, NoDup, begin_op_sleep
  <1>5. CommitOK'
    BY <1>2 DEF Ctl, TypeOK, CommitOK, CommitPc, begin_op_sleep
  <1>6. HeldOK'
    BY DEF Ctl, TypeOK, HeldOK, None, begin_op_sleep
  <1>7. BootOK'
    BY <1>2, <1>3 DEF Ctl, TypeOK, HeaderOK, CommitOK, CommitPc, BootOK, begin_op_sleep
  <1> QED
    BY <1>1, <1>3, <1>4, <1>5, <1>6, <1>7 DEF Ctl

(* Control: a call that changes a locked buffer takes it alone. *)
LEMMA Ctl_modify ==
  ASSUME NEW p \in Proc, NEW b \in Block, NEW v \in Val, Ctl, modify(p, b, v) PROVE Ctl'
  <1>1. TypeOK'
    BY DEF Ctl, TypeOK, modify, Pc, CommitPc, None
  <1>2. Active' = Active
    BY DEF Ctl, TypeOK, Active, InOp, modify
  <1>3. outstanding' = Cardinality(Active')
    BY <1>2 DEF Ctl, modify
  <1>4. HeaderOK'
    BY DEF Ctl, TypeOK, HeaderOK, NoDup, modify
  <1>5. CommitOK'
    BY <1>2 DEF Ctl, TypeOK, CommitOK, CommitPc, modify
  <1>6. HeldOK'
    BY DEF Ctl, TypeOK, HeldOK, None, modify
  <1>7. BootOK'
    BY <1>2, <1>3 DEF Ctl, TypeOK, HeaderOK, CommitOK, CommitPc, BootOK, modify
  <1> QED
    BY <1>1, <1>3, <1>4, <1>5, <1>6, <1>7 DEF Ctl

(* Control: log_write() extends the header by a block that is not in it
   yet, or absorbs. *)
LEMMA Ctl_log_write ==
  ASSUME NEW p \in Proc, Ctl, log_write(p) PROVE Ctl'
  <1>1. p \in Active /\ held[p] \in Block /\ committing = 0
    BY DEF Ctl, TypeOK, CommitOK, HeldOK, log_write, Active, InOp, None
  <1>2. /\ lh' \in Seq(Block) /\ Len(lh') \in {Len(lh), Len(lh) + 1}
        /\ \A i \in 1..Len(lh) : lh'[i] = lh[i]
        /\ Len(lh') = Len(lh) + 1 => lh'[Len(lh) + 1] = held[p] /\ held[p] \notin Blocks(lh)
    <2>1. CASE held[p] \in Blocks(lh)
      BY <2>1 DEF Ctl, TypeOK, log_write
    <2>2. CASE held[p] \notin Blocks(lh)
      <3>1. lh' = Append(lh, held[p])
        BY <2>2 DEF log_write
      <3> QED
        BY <1>1, <2>2, <3>1 DEF Ctl, TypeOK
    <2> QED
      BY <2>1, <2>2
  <1>3. TypeOK'
    BY <1>1, <1>2 DEF Ctl, TypeOK, log_write, Pc, None
  <1>4. Active' = Active
    BY DEF Ctl, TypeOK, log_write, Active, InOp
  <1>5. outstanding' = Cardinality(Active')
    BY <1>4 DEF Ctl, log_write
  <1>6. HeaderOK'
    <2>1. Len(lh') <= LOGBLOCKS
      BY <1>2, LogAssumption DEF Ctl, TypeOK, HeaderOK, log_write
    <2>2. NoDup(lh')
      <3>1. SUFFICES ASSUME NEW i \in 1..Len(lh'), NEW j \in 1..Len(lh'), lh'[i] = lh'[j], i < j
                     PROVE  FALSE
        BY <1>2 DEF NoDup
      <3>2. CASE j \in 1..Len(lh)
        <4>1. i \in 1..Len(lh) /\ i # j
          BY <1>2, <3>1, <3>2 DEF Ctl, TypeOK
        <4>2. lh[i] = lh[j]
          BY <1>2, <3>1, <3>2, <4>1
        <4> QED
          BY <3>2, <4>1, <4>2 DEF Ctl, HeaderOK, NoDup
      <3>3. CASE j = Len(lh) + 1
        <4>1. i \in 1..Len(lh) /\ Len(lh') = Len(lh) + 1
          BY <1>2, <3>1, <3>3 DEF Ctl, TypeOK
        <4>2. lh[i] = held[p] /\ held[p] \notin Blocks(lh)
          BY <1>2, <3>1, <3>3, <4>1
        <4> QED
          BY <4>1, <4>2 DEF Blocks
      <3> QED
        BY <1>2, <3>2, <3>3 DEF Ctl, TypeOK
    <2> QED
      BY <2>1, <2>2 DEF Ctl, HeaderOK, NoDup, log_write
  <1>7. \A q \in Proc : pc[q] \notin CommitPc /\ pc'[q] \notin CommitPc
    BY <1>1 DEF Ctl, CommitOK, TypeOK, log_write, CommitPc
  <1>8. CommitOK'
    BY <1>1, <1>4, <1>7 DEF log_write, CommitOK, CommitPc
  <1>9. HeldOK'
    BY DEF Ctl, TypeOK, HeldOK, log_write, None
  <1>10. BootOK'
    BY <1>7 DEF Ctl, TypeOK, BootOK, log_write, CommitPc
  <1> QED
    BY <1>3, <1>5, <1>6, <1>8, <1>9, <1>10 DEF Ctl

(* Control: end_op() of a call that is not the last removes it from those
   counted. *)
LEMMA Ctl_end_op ==
  ASSUME NEW p \in Proc, Ctl, end_op(p) PROVE Ctl'
  <1>0. outstanding - 1 \in Nat
    BY ActiveFinite, ActiveEmpty DEF Ctl, TypeOK, end_op, Active, InOp
  <1>1. TypeOK'
    BY <1>0 DEF Ctl, TypeOK, end_op, Pc, CommitPc, None, Wakeup
  <1>2. p \in Active /\ Active' = Active \ {p}
    BY DEF Ctl, TypeOK, Active, InOp, end_op, Wakeup
  <1>3. outstanding' = Cardinality(Active')
    BY <1>2, ActiveRemove DEF Ctl, end_op
  <1>4. HeaderOK'
    BY DEF Ctl, TypeOK, HeaderOK, NoDup, end_op
  <1>5. CommitOK'
    BY <1>2 DEF Ctl, TypeOK, CommitOK, CommitPc, end_op, Wakeup
  <1>6. HeldOK'
    BY DEF Ctl, TypeOK, HeldOK, None, end_op, Wakeup
  <1>7. BootOK'
    BY <1>2, <1>3 DEF Ctl, TypeOK, HeaderOK, CommitOK, CommitPc, BootOK, end_op, Wakeup
  <1> QED
    BY <1>1, <1>3, <1>4, <1>5, <1>6, <1>7 DEF Ctl

(* Control: end_op() of the last call starts a commit with no call running. *)
LEMMA Ctl_end_op_commit ==
  ASSUME NEW p \in Proc, Ctl, end_op_commit(p) PROVE Ctl'
  <1>1. TypeOK'
    BY DEF Ctl, TypeOK, end_op_commit, Pc, CommitPc, None
  <1>2. p \in Active /\ Active' = Active \ {p}
    BY DEF Ctl, TypeOK, Active, InOp, end_op_commit
  <1>3. outstanding' = Cardinality(Active')
    <2>1. Cardinality(Active') = Cardinality(Active) - 1
      BY <1>2, ActiveRemove
    <2>2. outstanding = 1 /\ outstanding' = 0
      BY DEF end_op_commit
    <2>3. outstanding = Cardinality(Active)
      BY DEF Ctl
    <2> QED
      BY <2>1, <2>2, <2>3
  <1>4. HeaderOK'
    BY DEF Ctl, TypeOK, HeaderOK, NoDup, end_op_commit
  <1>5. CommitOK'
    <2>1. Active' = {}
      BY <1>2, ActiveSingle DEF Ctl, end_op_commit
    <2>2. \A q \in Proc : pc'[q] \in CommitPc => q = p
      BY DEF Ctl, TypeOK, CommitOK, end_op_commit, CommitPc
    <2>3. pc'[p] = "write_log" => tail' < Len(lh')
      BY DEF Ctl, TypeOK, end_op_commit
    <2>4. pc'[p] = "finish" => lh' = <<>>
      BY DEF Ctl, TypeOK, end_op_commit
    <2>5. pc'[p] \in {"write_log", "finish"} /\ committing' = 1
      BY DEF Ctl, TypeOK, end_op_commit
    <2> QED
      BY <2>1, <2>2, <2>3, <2>4, <2>5 DEF CommitOK, CommitPc
  <1>6. HeldOK'
    BY DEF Ctl, TypeOK, HeldOK, None, end_op_commit
  <1>7. BootOK'
    BY <1>2, <1>3 DEF Ctl, TypeOK, HeaderOK, CommitOK, CommitPc, BootOK, end_op_commit
  <1> QED
    BY <1>1, <1>3, <1>4, <1>5, <1>6, <1>7 DEF Ctl

(* Control: write_log() copies one block and moves on, to write_head()
   after the last. *)
LEMMA Ctl_write_log ==
  ASSUME NEW p \in Proc, Ctl, write_log(p) PROVE Ctl'
  <1>0. tail + 1 \in 1..Len(lh) /\ tail + 1 \in Slot /\ lh[tail + 1] \in Block
    BY LogAssumption DEF Ctl, TypeOK, HeaderOK, CommitOK, write_log, Slot
  <1>1. TypeOK'
    <2>1. logdata' \in [Slot -> Val]
      BY <1>0 DEF Ctl, TypeOK, write_log
    <2>2. tail' \in Nat /\ pc' \in [Proc -> Pc]
      BY DEF Ctl, TypeOK, write_log, Pc, CommitPc
    <2> QED
      BY <2>1, <2>2 DEF Ctl, TypeOK, write_log
  <1>2. Active' = Active
    BY DEF Ctl, TypeOK, Active, InOp, write_log
  <1>3. outstanding' = Cardinality(Active')
    BY <1>2 DEF Ctl, write_log
  <1>4. HeaderOK'
    BY DEF Ctl, TypeOK, HeaderOK, NoDup, write_log
  <1>5. CommitOK'
    BY <1>2 DEF Ctl, TypeOK, CommitOK, CommitPc, write_log
  <1>6. HeldOK'
    BY DEF Ctl, TypeOK, HeldOK, None, write_log
  <1>7. BootOK'
    BY <1>2, <1>3 DEF Ctl, TypeOK, HeaderOK, CommitOK, CommitPc, BootOK, write_log
  <1> QED
    BY <1>1, <1>3, <1>4, <1>5, <1>6, <1>7 DEF Ctl

(* Control: write_head() makes the two headers equal. *)
LEMMA Ctl_write_head ==
  ASSUME NEW p \in Proc, Ctl, write_head(p) PROVE Ctl'
  <1>1. TypeOK'
    BY DEF Ctl, TypeOK, write_head, Pc, CommitPc, None
  <1>2. Active' = Active
    BY DEF Ctl, TypeOK, Active, InOp, write_head
  <1>3. outstanding' = Cardinality(Active')
    BY <1>2 DEF Ctl, write_head
  <1>4. HeaderOK'
    BY DEF Ctl, TypeOK, HeaderOK, NoDup, write_head
  <1>5. CommitOK'
    BY <1>2 DEF Ctl, TypeOK, CommitOK, CommitPc, write_head
  <1>6. HeldOK'
    BY DEF Ctl, TypeOK, HeldOK, None, write_head
  <1>7. BootOK'
    BY <1>2, <1>3 DEF Ctl, TypeOK, HeaderOK, CommitOK, CommitPc, BootOK, write_head
  <1> QED
    BY <1>1, <1>3, <1>4, <1>5, <1>6, <1>7 DEF Ctl

(* Control: install_trans(0) writes one block home and unpins it. *)
LEMMA Ctl_install_trans ==
  ASSUME NEW p \in Proc, Ctl, install_trans(p) PROVE Ctl'
  <1>0. tail + 1 \in 1..Len(lh) /\ tail + 1 \in Slot /\ lh[tail + 1] \in Block
    BY LogAssumption DEF Ctl, TypeOK, HeaderOK, CommitOK, install_trans, Slot
  <1>1. TypeOK'
    <2>1. disk' \in [Block -> Val] /\ cache' \in [Block -> Val]
      BY <1>0 DEF Ctl, TypeOK, install_trans, InstallBlock
    <2>2. tail' \in Nat /\ pc' \in [Proc -> Pc]
      BY DEF Ctl, TypeOK, install_trans, Pc, CommitPc
    <2>3. pins' \in [Block -> Int]
      BY <1>0 DEF Ctl, TypeOK, install_trans
    <2> QED
      BY <2>1, <2>2, <2>3 DEF Ctl, TypeOK, install_trans
  <1>2. Active' = Active
    BY DEF Ctl, TypeOK, Active, InOp, install_trans
  <1>3. outstanding' = Cardinality(Active')
    BY <1>2 DEF Ctl, install_trans
  <1>4. HeaderOK'
    BY DEF Ctl, TypeOK, HeaderOK, NoDup, install_trans
  <1>5. CommitOK'
    <2>1. \A q \in Proc : pc'[q] \in CommitPc => q = p
      BY DEF Ctl, TypeOK, CommitOK, install_trans, CommitPc
    <2>2. pc'[p] \in {"install", "erase"} /\ committing' = 1
      BY DEF Ctl, TypeOK, CommitOK, install_trans, CommitPc
    <2>3. pc'[p] = "install" => tail' < Len(lh')
      BY <1>0 DEF Ctl, TypeOK, install_trans
    <2>4. pc'[p] = "erase" => tail' = 0 /\ Len(lh') > 0
      BY <1>0 DEF Ctl, TypeOK, install_trans
    <2> QED
      BY <1>2, <2>1, <2>2, <2>3, <2>4 DEF Ctl, CommitOK, install_trans, CommitPc
  <1>6. HeldOK'
    BY DEF Ctl, TypeOK, HeldOK, None, install_trans
  <1>7. BootOK'
    BY <1>2, <1>3 DEF Ctl, TypeOK, HeaderOK, CommitOK, CommitPc, BootOK, install_trans, InstallBlock
  <1> QED
    BY <1>1, <1>3, <1>4, <1>5, <1>6, <1>7 DEF Ctl

(* Control: clearing the header leaves both headers empty. *)
LEMMA Ctl_erase ==
  ASSUME NEW p \in Proc, Ctl, erase(p) PROVE Ctl'
  <1>1. TypeOK'
    BY DEF Ctl, TypeOK, erase, Pc, CommitPc, None
  <1>2. Active' = Active
    BY DEF Ctl, TypeOK, Active, InOp, erase
  <1>3. outstanding' = Cardinality(Active')
    BY <1>2 DEF Ctl, erase
  <1>4. HeaderOK'
    BY LogAssumption DEF Ctl, TypeOK, HeaderOK, NoDup, erase
  <1>5. CommitOK'
    BY <1>2 DEF Ctl, TypeOK, CommitOK, CommitPc, erase
  <1>6. HeldOK'
    BY DEF Ctl, TypeOK, HeldOK, None, erase
  <1>7. BootOK'
    BY <1>2, <1>3 DEF Ctl, TypeOK, HeaderOK, CommitOK, CommitPc, BootOK, erase
  <1> QED
    BY <1>1, <1>3, <1>4, <1>5, <1>6, <1>7 DEF Ctl

(* Control: the end of a commit readmits calls with an empty log. *)
LEMMA Ctl_finish ==
  ASSUME NEW p \in Proc, Ctl, finish(p) PROVE Ctl'
  <1>1. TypeOK'
    BY DEF Ctl, TypeOK, finish, Pc, CommitPc, None, Wakeup
  <1>2. Active' = Active
    BY DEF Ctl, TypeOK, Active, InOp, finish, Wakeup
  <1>3. outstanding' = Cardinality(Active')
    BY <1>2 DEF Ctl, finish
  <1>4. HeaderOK'
    BY DEF Ctl, TypeOK, HeaderOK, NoDup, finish
  <1>5. CommitOK'
    BY <1>2 DEF Ctl, TypeOK, CommitOK, CommitPc, finish, Wakeup
  <1>6. HeldOK'
    BY DEF Ctl, TypeOK, HeldOK, None, finish, Wakeup
  <1>7. BootOK'
    BY <1>2, <1>3 DEF Ctl, TypeOK, HeaderOK, CommitOK, CommitPc, BootOK, finish, Wakeup
  <1> QED
    BY <1>1, <1>3, <1>4, <1>5, <1>6, <1>7 DEF Ctl

(* Control: bget() recycles only a buffer that equals its disk block. *)
LEMMA Ctl_recycle ==
  ASSUME NEW b \in Block, Ctl, recycle(b) PROVE Ctl'
  <1>1. TypeOK'
    BY DEF Ctl, TypeOK, recycle, Pc, CommitPc, None
  <1>2. Active' = Active
    BY DEF Ctl, TypeOK, Active, InOp, recycle
  <1>3. outstanding' = Cardinality(Active')
    BY <1>2 DEF Ctl, recycle
  <1>4. HeaderOK'
    BY DEF Ctl, TypeOK, HeaderOK, NoDup, recycle
  <1>5. CommitOK'
    BY <1>2 DEF Ctl, TypeOK, CommitOK, CommitPc, recycle
  <1>6. HeldOK'
    BY DEF Ctl, TypeOK, HeldOK, None, recycle
  <1>7. BootOK'
    BY <1>2, <1>3 DEF Ctl, TypeOK, HeaderOK, CommitOK, CommitPc, BootOK, recycle
  <1> QED
    BY <1>1, <1>3, <1>4, <1>5, <1>6, <1>7 DEF Ctl

(* Control: a crash keeps the disk and resets all of memory. *)
LEMMA Ctl_crash ==
  ASSUME Ctl, crash PROVE Ctl'
  <1>1. TypeOK'
    BY DEF Ctl, TypeOK, crash, Pc, CommitPc, None, diskVars
  <1>2. Active' = {}
    BY DEF Ctl, TypeOK, Active, InOp, crash
  <1>3. outstanding' = Cardinality(Active')
    BY <1>2, FS_EmptySet DEF crash
  <1>4. HeaderOK'
    BY LogAssumption DEF Ctl, TypeOK, HeaderOK, NoDup, crash, diskVars
  <1>5. CommitOK'
    BY <1>2 DEF Ctl, TypeOK, CommitOK, CommitPc, crash
  <1>6. HeldOK'
    BY DEF Ctl, TypeOK, HeldOK, None, crash
  <1>7. BootOK'
    BY <1>2, <1>3 DEF Ctl, TypeOK, HeaderOK, CommitOK, CommitPc, BootOK, crash, diskVars
  <1> QED
    BY <1>1, <1>3, <1>4, <1>5, <1>6, <1>7 DEF Ctl

(* Control: read_head() loads the header that is on disk. *)
LEMMA Ctl_read_head ==
  ASSUME Ctl, read_head PROVE Ctl'
  <1>1. TypeOK'
    BY DEF Ctl, TypeOK, read_head, Pc, CommitPc, None
  <1>2. Active' = Active
    BY DEF Ctl, TypeOK, Active, InOp, read_head
  <1>3. outstanding' = Cardinality(Active')
    BY <1>2 DEF Ctl, read_head
  <1>4. HeaderOK'
    BY DEF Ctl, TypeOK, HeaderOK, NoDup, read_head
  <1>5. CommitOK'
    BY <1>2 DEF Ctl, CommitOK, BootOK, CommitPc, read_head
  <1>6. HeldOK'
    BY DEF Ctl, TypeOK, HeldOK, None, read_head
  <1>7. BootOK'
    BY DEF Ctl, TypeOK, BootOK, read_head
  <1> QED
    BY <1>1, <1>3, <1>4, <1>5, <1>6, <1>7 DEF Ctl

(* Control: install_trans(1) replays one logged block. *)
LEMMA Ctl_recover_install ==
  ASSUME Ctl, recover_install PROVE Ctl'
  <1>0. tail + 1 \in 1..Len(lh) /\ tail + 1 \in Slot /\ lh[tail + 1] \in Block
    BY LogAssumption DEF Ctl, TypeOK, HeaderOK, CommitOK, recover_install, Slot
  <1>1. TypeOK'
    BY <1>0 DEF Ctl, TypeOK, recover_install, Pc, CommitPc, None, InstallBlock
  <1>2. Active' = Active
    BY DEF Ctl, TypeOK, Active, InOp, recover_install
  <1>3. outstanding' = Cardinality(Active')
    BY <1>2 DEF Ctl, recover_install
  <1>4. HeaderOK'
    BY DEF Ctl, TypeOK, HeaderOK, NoDup, recover_install
  <1>5. CommitOK'
    BY <1>2 DEF Ctl, CommitOK, BootOK, CommitPc, recover_install
  <1>6. HeldOK'
    BY DEF Ctl, TypeOK, HeldOK, None, recover_install
  <1>7. BootOK'
    BY DEF Ctl, TypeOK, BootOK, recover_install, InstallBlock
  <1> QED
    BY <1>1, <1>3, <1>4, <1>5, <1>6, <1>7 DEF Ctl

(* Control: the end of recovery leaves an empty log. *)
LEMMA Ctl_recover_clear ==
  ASSUME Ctl, recover_clear PROVE Ctl'
  <1>1. TypeOK'
    BY DEF Ctl, TypeOK, recover_clear, Pc, CommitPc, None
  <1>2. Active' = Active
    BY DEF Ctl, TypeOK, Active, InOp, recover_clear
  <1>3. outstanding' = Cardinality(Active')
    BY <1>2 DEF Ctl, recover_clear
  <1>4. HeaderOK'
    BY LogAssumption DEF Ctl, TypeOK, HeaderOK, NoDup, recover_clear
  <1>5. CommitOK'
    BY <1>2 DEF Ctl, CommitOK, BootOK, CommitPc, recover_clear
  <1>6. HeldOK'
    BY DEF Ctl, TypeOK, HeldOK, None, recover_clear
  <1>7. BootOK'
    BY DEF Ctl, TypeOK, BootOK, recover_clear
  <1> QED
    BY <1>1, <1>3, <1>4, <1>5, <1>6, <1>7 DEF Ctl
-----------------------------------------------------------------------------
(* log_write()'s Append adds exactly its block to those the header lists. *)
LEMMA BlocksAppend ==
  ASSUME NEW s \in Seq(Block), NEW b \in Block
  PROVE  Blocks(Append(s, b)) = Blocks(s) \cup {b}
  <1> DEFINE t == Append(s, b)
  <1>1. Len(t) = Len(s) + 1 /\ t[Len(s) + 1] = b /\ \A i \in 1..Len(s) : t[i] = s[i]
    OBVIOUS
  <1>2. Len(s) \in Nat /\ 1..Len(t) = 1..Len(s) \cup {Len(s) + 1}
    BY <1>1
  <1> HIDE DEF t
  <1>3. Blocks(t) = {t[i] : i \in 1..Len(s)} \cup {t[Len(s) + 1]}
    BY <1>2 DEF Blocks
  <1>4. {t[i] : i \in 1..Len(s)} = Blocks(s)
    BY <1>1 DEF Blocks
  <1>5. Blocks(t) = Blocks(s) \cup {b}
    BY <1>1, <1>3, <1>4
  <1> QED
    BY <1>5 DEF t

(* Contents: begin_op() that gets its reservation adds one call to those
   counted in outstanding. *)
LEMMA Data_begin_op ==
  ASSUME NEW p \in Proc, Ctl, Data, begin_op(p) PROVE Data'
  <1>1. PinsOK'
    BY DEF Data, PinsOK, Installed, Ctl, TypeOK, CommitOK, CommitPc, begin_op
  <1>2. CleanOK'
    BY DEF Data, CleanOK, Ctl, TypeOK, CommitOK, CommitPc, begin_op
  <1>3. LoggedOK'
    BY DEF Data, LoggedOK, Ctl, TypeOK, CommitOK, CommitPc, begin_op
  <1>4. ReplayOK'
    BY DEF Data, ReplayOK, Ctl, TypeOK, CommitOK, CommitPc, begin_op
  <1> QED
    BY <1>1, <1>2, <1>3, <1>4 DEF Data

(* Contents: begin_op() that must wait changes only where its process stands. *)
LEMMA Data_begin_op_sleep ==
  ASSUME NEW p \in Proc, Ctl, Data, begin_op_sleep(p) PROVE Data'
  <1>1. PinsOK'
    BY DEF Data, PinsOK, Installed, Ctl, TypeOK, CommitOK, CommitPc, begin_op_sleep
  <1>2. CleanOK'
    BY DEF Data, CleanOK, Ctl, TypeOK, CommitOK, CommitPc, begin_op_sleep
  <1>3. LoggedOK'
    BY DEF Data, LoggedOK, Ctl, TypeOK, CommitOK, CommitPc, begin_op_sleep
  <1>4. ReplayOK'
    BY DEF Data, ReplayOK, Ctl, TypeOK, CommitOK, CommitPc, begin_op_sleep
  <1> QED
    BY <1>1, <1>2, <1>3, <1>4 DEF Data

(* Contents: a call that changes a locked buffer takes it alone. *)
LEMMA Data_modify ==
  ASSUME NEW p \in Proc, NEW b \in Block, NEW v \in Val, Ctl, Data, modify(p, b, v) PROVE Data'
  <1>1. PinsOK'
    BY DEF Data, PinsOK, Installed, Ctl, TypeOK, CommitOK, CommitPc, Active, InOp, modify
  <1>2. CleanOK'
    <2>1. held[p] = None /\ None \notin Block
      BY LogAssumption DEF Ctl, HeldOK, modify, None
    <2>2. SUFFICES ASSUME NEW c \in Block, pins[c] = 0, \A q \in Proc : held'[q] # c, boot = "up"
                   PROVE  cache'[c] = disk[c]
      BY DEF CleanOK, modify
    <2>3. c # b /\ \A q \in Proc : held[q] # c
      BY <2>1, <2>2 DEF Ctl, TypeOK, modify
    <2> QED
      BY <2>2, <2>3 DEF Data, CleanOK, Ctl, TypeOK, modify
  <1>3. LoggedOK'
    BY DEF Data, LoggedOK, Ctl, TypeOK, CommitOK, CommitPc, Active, InOp, modify
  <1>4. ReplayOK'
    BY DEF Data, ReplayOK, Ctl, TypeOK, CommitOK, CommitPc, Active, InOp, modify
  <1> QED
    BY <1>1, <1>2, <1>3, <1>4 DEF Data

(* Contents: log_write() extends the header by a block that is not in it
   yet, or absorbs. *)
LEMMA Data_log_write ==
  ASSUME NEW p \in Proc, Ctl, Data, log_write(p) PROVE Data'
  <1>1. /\ held[p] \in Block /\ None \notin Block
        /\ \A q \in Proc : pc[q] \notin CommitPc /\ pc'[q] \notin CommitPc
    BY LogAssumption DEF Ctl, TypeOK, CommitOK, CommitPc, HeldOK, log_write, None, Active, InOp
  <1>2. \A b \in Block : pins[b] = IF b \in Blocks(lh) THEN 1 ELSE 0
    <2>1. boot = "up" /\ \A i \in 1..Len(lh) : ~Installed(i)
      BY <1>1 DEF Installed, CommitPc, log_write
    <2>2. \A b \in Block : pins[b] = IF \E i \in 1..Len(lh) : lh[i] = b /\ ~Installed(i) THEN 1 ELSE 0
      BY <2>1 DEF Data, PinsOK
    <2>3. \A b \in Block : (\E i \in 1..Len(lh) : lh[i] = b /\ ~Installed(i)) <=> b \in Blocks(lh)
      BY <2>1 DEF Blocks
    <2> QED
      BY <2>2, <2>3
  <1>3. /\ Blocks(lh') = Blocks(lh) \cup {held[p]}
        /\ \A b \in Block : pins'[b] = IF b \in Blocks(lh') THEN 1 ELSE 0
    <2>1. CASE held[p] \in Blocks(lh)
      BY <1>2, <2>1 DEF log_write
    <2>2. CASE held[p] \notin Blocks(lh)
      <3>1. lh' = Append(lh, held[p]) /\ pins' = [pins EXCEPT ![held[p]] = @ + 1]
        BY <2>2 DEF log_write
      <3>2. Blocks(lh') = Blocks(lh) \cup {held[p]}
        BY <1>1, <3>1, BlocksAppend DEF Ctl, TypeOK
      <3> QED
        BY <1>1, <1>2, <2>2, <3>1, <3>2 DEF Ctl, TypeOK
    <2> QED
      BY <2>1, <2>2
  <1>4. PinsOK'
    <2>1. \A i \in 1..Len(lh') : ~Installed(i)'
      BY <1>1 DEF Installed, CommitPc
    <2>2. \A b \in Block : (\E i \in 1..Len(lh') : lh'[i] = b /\ ~Installed(i)') <=> b \in Blocks(lh')
      BY <2>1 DEF Blocks
    <2> QED
      BY <1>3, <2>2 DEF PinsOK
  <1>5. CleanOK'
    <2>1. SUFFICES ASSUME NEW b \in Block, pins'[b] = 0, \A q \in Proc : held'[q] # b
                   PROVE  cache[b] = disk[b]
      BY DEF CleanOK, log_write
    <2>2. pins[b] = 0 /\ b # held[p]
      BY <1>2, <1>3, <2>1
    <2>3. \A q \in Proc : held[q] # b
      BY <2>1, <2>2 DEF Ctl, TypeOK, log_write
    <2> QED
      BY <2>2, <2>3 DEF Data, CleanOK, log_write
  <1>6. LoggedOK'
    BY <1>1 DEF LoggedOK, CommitPc
  <1>7. ReplayOK'
    BY DEF ReplayOK, log_write
  <1> QED
    BY <1>4, <1>5, <1>6, <1>7 DEF Data

(* Contents: end_op() of a call that is not the last removes it from those
   counted. *)
LEMMA Data_end_op ==
  ASSUME NEW p \in Proc, Ctl, Data, end_op(p) PROVE Data'
  <1>1. PinsOK'
    BY DEF Data, PinsOK, Installed, Ctl, TypeOK, CommitOK, CommitPc, end_op, Wakeup
  <1>2. CleanOK'
    BY DEF Data, CleanOK, Ctl, TypeOK, CommitOK, CommitPc, end_op, Wakeup
  <1>3. LoggedOK'
    BY DEF Data, LoggedOK, Ctl, TypeOK, CommitOK, CommitPc, end_op, Wakeup
  <1>4. ReplayOK'
    BY DEF Data, ReplayOK, Ctl, TypeOK, CommitOK, CommitPc, end_op, Wakeup
  <1> QED
    BY <1>1, <1>2, <1>3, <1>4 DEF Data

(* Contents: end_op() of the last call starts a commit with no call running. *)
LEMMA Data_end_op_commit ==
  ASSUME NEW p \in Proc, Ctl, Data, end_op_commit(p) PROVE Data'
  <1>1. PinsOK'
    BY DEF Data, PinsOK, Installed, Ctl, TypeOK, CommitOK, CommitPc, Active, InOp, end_op_commit
  <1>2. CleanOK'
    BY DEF Data, CleanOK, Ctl, TypeOK, CommitOK, CommitPc, Active, InOp, end_op_commit
  <1>3. LoggedOK'
    BY DEF Data, LoggedOK, Ctl, TypeOK, CommitOK, CommitPc, Active, InOp, end_op_commit
  <1>4. ReplayOK'
    BY DEF Data, ReplayOK, Ctl, TypeOK, CommitOK, CommitPc, Active, InOp, end_op_commit
  <1> QED
    BY <1>1, <1>2, <1>3, <1>4 DEF Data

(* Contents: write_log() copies one block and moves on, to write_head()
   after the last. *)
LEMMA Data_write_log ==
  ASSUME NEW p \in Proc, Ctl, Data, write_log(p) PROVE Data'
  <1>1. /\ tail + 1 \in 1..Len(lh) /\ tail + 1 \in Slot
        /\ \A q \in Proc : q # p => pc[q] \notin CommitPc /\ pc'[q] \notin CommitPc
    BY LogAssumption DEF Ctl, TypeOK, HeaderOK, CommitOK, CommitPc, write_log, Slot
  <1>2. pc[p] = "write_log" /\ pc'[p] \in {"write_log", "write_head"}
    BY DEF Ctl, TypeOK, write_log
  <1>3. PinsOK'
    BY <1>1, <1>2 DEF Data, PinsOK, Installed, CommitPc, write_log
  <1>4. CleanOK'
    BY DEF Data, CleanOK, write_log
  <1>5. LoggedOK'
    <2>1. \A i \in 1..(tail + 1) : logdata'[i] = cache[lh[i]]
      BY <1>1, <1>2 DEF Data, LoggedOK, Ctl, TypeOK, write_log
    <2>2. CASE tail + 1 < Len(lh)
      BY <1>1, <2>1, <2>2 DEF LoggedOK, CommitPc, Ctl, TypeOK, write_log
    <2>3. CASE tail + 1 = Len(lh)
      BY <1>1, <2>1, <2>3 DEF LoggedOK, CommitPc, Ctl, TypeOK, write_log
    <2> QED
      BY <1>1, <2>2, <2>3 DEF Ctl, TypeOK
  <1>6. ReplayOK'
    BY DEF ReplayOK, write_log
  <1> QED
    BY <1>3, <1>4, <1>5, <1>6 DEF Data

(* Contents: write_head() makes the two headers equal. *)
LEMMA Data_write_head ==
  ASSUME NEW p \in Proc, Ctl, Data, write_head(p) PROVE Data'
  <1>1. PinsOK'
    BY DEF Data, PinsOK, Installed, Ctl, TypeOK, CommitOK, CommitPc, Active, InOp, write_head
  <1>2. CleanOK'
    BY DEF Data, CleanOK, Ctl, TypeOK, CommitOK, CommitPc, Active, InOp, write_head
  <1>3. LoggedOK'
    BY DEF Data, LoggedOK, Ctl, TypeOK, CommitOK, CommitPc, Active, InOp, write_head
  <1>4. ReplayOK'
    BY DEF Data, ReplayOK, Ctl, TypeOK, CommitOK, CommitPc, Active, InOp, write_head
  <1> QED
    BY <1>1, <1>2, <1>3, <1>4 DEF Data

(* Contents: install_trans(0) writes one block home and unpins it. *)
LEMMA Data_install_trans ==
  ASSUME NEW p \in Proc, Ctl, Data, install_trans(p) PROVE Data'
  <1>1. PinsOK'
    BY SMTT(30) DEF Data, PinsOK, Installed, Ctl, TypeOK, CommitOK, CommitPc, Active, InOp, HeaderOK, NoDup, BootOK, install_trans, InstallBlock
  <1>2. CleanOK'
    BY DEF Data, CleanOK, PinsOK, Installed, Ctl, TypeOK, CommitOK, HeaderOK, NoDup, install_trans, InstallBlock
  <1>3. LoggedOK'
    BY SMTT(30) DEF Data, LoggedOK, Ctl, TypeOK, CommitOK, CommitPc, Active, InOp, HeaderOK, NoDup, BootOK, install_trans, InstallBlock
  <1>4. ReplayOK'
    BY DEF Data, ReplayOK, Ctl, TypeOK, CommitOK, CommitPc, Active, InOp, HeaderOK, NoDup, BootOK, install_trans, InstallBlock
  <1> QED
    BY <1>1, <1>2, <1>3, <1>4 DEF Data

(* Contents: clearing the header leaves both headers empty. *)
LEMMA Data_erase ==
  ASSUME NEW p \in Proc, Ctl, Data, erase(p) PROVE Data'
  <1>1. PinsOK'
    BY DEF Data, PinsOK, Installed, Ctl, TypeOK, CommitOK, CommitPc, Active, InOp, erase
  <1>2. CleanOK'
    BY DEF Data, CleanOK, Ctl, TypeOK, CommitOK, CommitPc, Active, InOp, erase
  <1>3. LoggedOK'
    BY DEF Data, LoggedOK, Ctl, TypeOK, CommitOK, CommitPc, Active, InOp, erase
  <1>4. ReplayOK'
    BY DEF Data, ReplayOK, Ctl, TypeOK, CommitOK, CommitPc, Active, InOp, erase
  <1> QED
    BY <1>1, <1>2, <1>3, <1>4 DEF Data

(* Contents: the end of a commit readmits calls with an empty log. *)
LEMMA Data_finish ==
  ASSUME NEW p \in Proc, Ctl, Data, finish(p) PROVE Data'
  <1>1. PinsOK'
    BY DEF Data, PinsOK, Installed, Ctl, TypeOK, CommitOK, CommitPc, finish, Wakeup
  <1>2. CleanOK'
    BY DEF Data, CleanOK, Ctl, TypeOK, CommitOK, CommitPc, finish, Wakeup
  <1>3. LoggedOK'
    BY DEF Data, LoggedOK, Ctl, TypeOK, CommitOK, CommitPc, finish, Wakeup
  <1>4. ReplayOK'
    BY DEF Data, ReplayOK, Ctl, TypeOK, CommitOK, CommitPc, finish, Wakeup
  <1> QED
    BY <1>1, <1>2, <1>3, <1>4 DEF Data

(* Contents: bget() recycles only a buffer that equals its disk block. *)
LEMMA Data_recycle ==
  ASSUME NEW b \in Block, Ctl, Data, recycle(b) PROVE Data'
  <1>1. cache' = cache
    BY DEF Data, CleanOK, Ctl, TypeOK, recycle
  <1>2. PinsOK'
    BY DEF Data, PinsOK, Installed, recycle
  <1>3. CleanOK'
    BY <1>1 DEF Data, CleanOK, recycle
  <1>4. LoggedOK'
    BY <1>1 DEF Data, LoggedOK, recycle
  <1>5. ReplayOK'
    BY <1>1 DEF Data, ReplayOK, recycle
  <1> QED
    BY <1>2, <1>3, <1>4, <1>5 DEF Data

(* Contents: a crash keeps the disk and resets all of memory. *)
LEMMA Data_crash ==
  ASSUME Ctl, Data, crash PROVE Data'
  <1>1. PinsOK'
    BY DEF Data, PinsOK, Installed, Ctl, TypeOK, CommitOK, CommitPc, crash, diskVars
  <1>2. CleanOK'
    BY DEF Data, CleanOK, Ctl, TypeOK, CommitOK, CommitPc, crash, diskVars
  <1>3. LoggedOK'
    BY DEF Data, LoggedOK, Ctl, TypeOK, CommitOK, CommitPc, crash, diskVars
  <1>4. ReplayOK'
    BY DEF Data, ReplayOK, Ctl, TypeOK, CommitOK, CommitPc, crash, diskVars
  <1> QED
    BY <1>1, <1>2, <1>3, <1>4 DEF Data

(* Contents: read_head() loads the header that is on disk. *)
LEMMA Data_read_head ==
  ASSUME Ctl, Data, read_head PROVE Data'
  <1>1. PinsOK'
    BY DEF Data, PinsOK, Installed, Ctl, TypeOK, BootOK, read_head
  <1>2. CleanOK'
    BY DEF Data, CleanOK, Ctl, TypeOK, BootOK, read_head
  <1>3. LoggedOK'
    BY DEF Data, LoggedOK, Ctl, TypeOK, BootOK, read_head
  <1>4. ReplayOK'
    BY DEF Data, ReplayOK, Ctl, TypeOK, BootOK, read_head
  <1> QED
    BY <1>1, <1>2, <1>3, <1>4 DEF Data

(* Contents: install_trans(1) replays one logged block. *)
LEMMA Data_recover_install ==
  ASSUME Ctl, Data, recover_install PROVE Data'
  <1>1. PinsOK'
    BY DEF Data, PinsOK, Installed, Ctl, TypeOK, BootOK, HeaderOK, NoDup, recover_install, InstallBlock
  <1>2. CleanOK'
    BY DEF Data, CleanOK, Ctl, TypeOK, BootOK, HeaderOK, NoDup, recover_install, InstallBlock
  <1>3. LoggedOK'
    BY DEF Data, LoggedOK, Ctl, TypeOK, BootOK, HeaderOK, NoDup, recover_install, InstallBlock
  <1>4. ReplayOK'
    BY DEF Data, ReplayOK, Ctl, TypeOK, BootOK, HeaderOK, NoDup, recover_install, InstallBlock
  <1> QED
    BY <1>1, <1>2, <1>3, <1>4 DEF Data

(* Contents: the end of recovery leaves an empty log. *)
LEMMA Data_recover_clear ==
  ASSUME Ctl, Data, recover_clear PROVE Data'
  <1>1. PinsOK'
    BY DEF Data, PinsOK, Installed, Ctl, TypeOK, BootOK, recover_clear
  <1>2. CleanOK'
    BY DEF Data, CleanOK, Ctl, TypeOK, BootOK, recover_clear
  <1>3. LoggedOK'
    BY DEF Data, LoggedOK, Ctl, TypeOK, BootOK, recover_clear
  <1>4. ReplayOK'
    BY DEF Data, ReplayOK, Ctl, TypeOK, BootOK, recover_clear
  <1> QED
    BY <1>1, <1>2, <1>3, <1>4 DEF Data
-----------------------------------------------------------------------------
(* A step that changes nothing keeps the invariant. *)
LEMMA StutterIInv == IInv /\ UNCHANGED vars => IInv'
  <1> SUFFICES ASSUME IInv, UNCHANGED vars PROVE IInv'
    OBVIOUS
  <1> USE DEF vars, diskVars
  <1>1. Active' = Active
    BY DEF Active, InOp
  <1>2. Ctl'
    BY <1>1 DEF IInv, Ctl, TypeOK, HeaderOK, CommitOK, HeldOK, BootOK
  <1>3. PinsOK'
    BY DEF IInv, Data, PinsOK, Installed
  <1>4. CleanOK'
    BY DEF IInv, Data, CleanOK
  <1>5. LoggedOK'
    BY DEF IInv, Data, LoggedOK
  <1>6. ReplayOK'
    BY DEF IInv, Data, ReplayOK
  <1> QED
    BY <1>2, <1>3, <1>4, <1>5, <1>6 DEF IInv, Data

(* Every step of the log, of recovery and of a crash keeps the invariant. *)
LEMMA NextIInv == IInv /\ Next => IInv'
  <1> SUFFICES ASSUME IInv, Next PROVE IInv'
    OBVIOUS
  <1> USE DEF IInv
  <1>1. ASSUME NEW p \in Proc, begin_op(p) PROVE IInv'
    BY <1>1, Ctl_begin_op, Data_begin_op
  <1>2. ASSUME NEW p \in Proc, begin_op_sleep(p) PROVE IInv'
    BY <1>2, Ctl_begin_op_sleep, Data_begin_op_sleep
  <1>3. ASSUME NEW p \in Proc, log_write(p) PROVE IInv'
    BY <1>3, Ctl_log_write, Data_log_write
  <1>4. ASSUME NEW p \in Proc, end_op(p) PROVE IInv'
    BY <1>4, Ctl_end_op, Data_end_op
  <1>5. ASSUME NEW p \in Proc, end_op_commit(p) PROVE IInv'
    BY <1>5, Ctl_end_op_commit, Data_end_op_commit
  <1>6. ASSUME NEW p \in Proc, write_log(p) PROVE IInv'
    BY <1>6, Ctl_write_log, Data_write_log
  <1>7. ASSUME NEW p \in Proc, write_head(p) PROVE IInv'
    BY <1>7, Ctl_write_head, Data_write_head
  <1>8. ASSUME NEW p \in Proc, install_trans(p) PROVE IInv'
    BY <1>8, Ctl_install_trans, Data_install_trans
  <1>9. ASSUME NEW p \in Proc, erase(p) PROVE IInv'
    BY <1>9, Ctl_erase, Data_erase
  <1>10. ASSUME NEW p \in Proc, finish(p) PROVE IInv'
    BY <1>10, Ctl_finish, Data_finish
  <1>11. ASSUME NEW p \in Proc, NEW b \in Block, NEW v \in Val, modify(p, b, v) PROVE IInv'
    BY <1>11, Ctl_modify, Data_modify
  <1>12. ASSUME NEW b \in Block, recycle(b) PROVE IInv'
    BY <1>12, Ctl_recycle, Data_recycle
  <1>13. CASE crash
    BY <1>13, Ctl_crash, Data_crash
  <1>14. CASE read_head
    BY <1>14, Ctl_read_head, Data_read_head
  <1>15. CASE recover_install
    BY <1>15, Ctl_recover_install, Data_recover_install
  <1>16. CASE recover_clear
    BY <1>16, Ctl_recover_clear, Data_recover_clear
  <1> HIDE DEF IInv
  <1> QED
    BY <1>1, <1>2, <1>3, <1>4, <1>5, <1>6, <1>7, <1>8,
       <1>9, <1>10, <1>11, <1>12, <1>13, <1>14, <1>15, <1>16 DEF Next, commit, recover

(* In every reachable state of Log, whatever the crashes, Ctl and Data hold. *)
THEOREM Invariance == Spec => []IInv
  <1>1. IInv /\ [Next]_vars => IInv'
    BY NextIInv, StutterIInv
  <1> QED
    BY InitIInv, <1>1, PTL DEF Spec

(* The log's variables keep their types: no counter underflows. *)
THEOREM TypeCorrect == Spec => []TypeOK
  <1>1. IInv => TypeOK
    BY DEF IInv, Ctl
  <1> QED
    BY Invariance, <1>1, PTL

(* A block is pinned at most once, none is left pinned by an empty log, and
   a buffer that bget() may recycle equals its disk block. *)
THEOREM PinsAreExact == Spec => []PinsMatchLog
  <1>1. IInv => PinsMatchLog
    <2> SUFFICES ASSUME IInv, boot = "up", NEW b \in Block
                 PROVE  /\ pins[b] \in {0, 1}
                        /\ lh = <<>> => pins[b] = 0
                        /\ pins[b] = 0 /\ (\A p \in Proc : held[p] # b) => cache[b] = disk[b]
      BY DEF PinsMatchLog
    <2>1. pins[b] \in {0, 1} /\ (lh = <<>> => pins[b] = 0)
      BY DEF IInv, Data, PinsOK
    <2> QED
      BY <2>1 DEF IInv, Data, CleanOK
  <1> QED
    BY Invariance, <1>1, PTL

(* With no call and no commit running, the disk holds all that was written. *)
THEOREM QuiescentDurability == Spec => []QuiescentIsDurable
  <1>1. IInv => QuiescentIsDurable
    <2> SUFFICES ASSUME IInv, boot = "up", outstanding = 0, committing = 0
                 PROVE  cache = disk /\ Recovered = disk
      BY DEF QuiescentIsDurable
    <2>1. /\ disk \in [Block -> Val] /\ cache \in [Block -> Val] /\ lh = <<>>
          /\ pc \in [Proc -> Pc] /\ held \in [Proc -> Block \cup {None}]
      BY DEF IInv, Ctl, TypeOK, BootOK
    <2>2. Active = {}
      BY ActiveEmpty DEF IInv, Ctl
    <2>3. \A p \in Proc : held[p] = None
      BY <2>2 DEF IInv, Ctl, HeldOK, Active, InOp
    <2>4. hdr = <<>>
      BY DEF IInv, Ctl, BootOK, CommitOK, CommitPc
    <2>5. \A b \in Block : pins[b] = 0
      BY <2>1 DEF IInv, Data, PinsOK
    <2>6. \A b \in Block : cache[b] = disk[b]
      BY <2>3, <2>5, LogAssumption DEF IInv, Data, CleanOK, None
    <2>7. Recovered = disk
      BY <2>1, <2>4 DEF Recovered, Blocks
    <2> QED
      BY <2>1, <2>6, <2>7
  <1> QED
    BY Invariance, <1>1, PTL

(* Only a block that the header on disk commits is written home. *)
THEOREM WriteAheadHolds == Spec => WriteAhead
  <1> DEFINE Ahead == \A b \in Block : disk'[b] # disk[b] => b \in Blocks(hdr) /\ hdr' = hdr
  <1>1. IInv /\ [Next]_vars => [Ahead]_vars
    <2> SUFFICES ASSUME IInv, Next PROVE Ahead
      OBVIOUS
    <2>1. ASSUME NEW p \in Proc, install_trans(p) PROVE Ahead
      <3>1. /\ hdr' = hdr /\ hdr = lh /\ lh \in Seq(Block) /\ tail \in Nat /\ tail < Len(lh)
            /\ disk' = [disk EXCEPT ![lh[tail + 1]] = logdata[tail + 1]]
            /\ disk \in [Block -> Val]
        BY <2>1 DEF IInv, Ctl, TypeOK, BootOK, CommitOK, install_trans, InstallBlock
      <3> QED
        BY <3>1 DEF Blocks
    <2>2. CASE recover_install
      <3>1. /\ hdr' = hdr /\ hdr = lh /\ lh \in Seq(Block) /\ tail \in Nat /\ tail < Len(lh)
            /\ disk' = [disk EXCEPT ![lh[tail + 1]] = logdata[tail + 1]]
            /\ disk \in [Block -> Val]
        BY <2>2 DEF IInv, Ctl, TypeOK, BootOK, recover_install, InstallBlock
      <3> QED
        BY <3>1 DEF Blocks
    <2>3. ASSUME disk' = disk PROVE Ahead
      BY <2>3
    <2> QED
      BY <2>1, <2>2, <2>3 DEF Next, commit, recover, begin_op, begin_op_sleep, modify, log_write,
         end_op, end_op_commit, write_log, write_head, erase, finish, recycle, crash, diskVars,
         read_head, recover_clear
  <1> QED
    BY Invariance, <1>1, PTL DEF Spec, WriteAhead
=============================================================================
