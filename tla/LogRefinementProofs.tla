------------------------ MODULE LogRefinementProofs -------------------------
(***************************************************************************)
(* The proof that Log implements AtomicDisk: Recovered is the stable disk, *)
(* the buffer cache is what calls see, and the header write is the commit. *)
(***************************************************************************)
EXTENDS LogProofs

(* What calls see: the cache, or after a crash what recovery will restore. *)
Seen == IF boot = "up" THEN cache ELSE Recovered

(* Recovery takes block i of the header from slot i of the log, as no block
   is listed twice. *)
LEMMA RecoveredValue ==
  ASSUME Ctl
  PROVE  /\ \A i \in 1..Len(hdr) : Recovered[hdr[i]] = logdata[i]
         /\ \A b \in Block : b \notin Blocks(hdr) => Recovered[b] = disk[b]
  <1>1. hdr \in Seq(Block) /\ NoDup(hdr)
    BY DEF Ctl, TypeOK, HeaderOK
  <1>2. ASSUME NEW i \in 1..Len(hdr) PROVE Recovered[hdr[i]] = logdata[i]
    <2>1. hdr[i] \in Block /\ hdr[i] \in Blocks(hdr)
      BY <1>1 DEF Blocks
    <2>2. (CHOOSE j \in 1..Len(hdr) : hdr[j] = hdr[i]) = i
      BY <1>1 DEF NoDup
    <2> QED
      BY <2>1, <2>2 DEF Recovered
  <1>3. \A b \in Block : b \notin Blocks(hdr) => Recovered[b] = disk[b]
    BY DEF Recovered
  <1> QED
    BY <1>2, <1>3

(* An empty header recovers the home blocks as they are. *)
LEMMA RecoveredEmpty ==
  ASSUME TypeOK, hdr = <<>>
  PROVE  Recovered = disk
  BY DEF TypeOK, Recovered, Blocks

(* Writing home a block of the committed transaction changes nothing that
   recovery would restore. *)
LEMMA RecoveredInstall ==
  ASSUME Ctl, hdr = lh, tail < Len(lh), InstallBlock, UNCHANGED <<hdr, logdata>>
  PROVE  Recovered' = Recovered
  <1>1. /\ lh \in Seq(Block) /\ tail \in Nat /\ disk \in [Block -> Val]
        /\ disk' = [disk EXCEPT ![lh[tail + 1]] = logdata[tail + 1]]
    BY DEF Ctl, TypeOK, InstallBlock
  <1>2. lh[tail + 1] \in Blocks(hdr)
    BY <1>1 DEF Blocks
  <1>3. \A b \in Block : b \notin Blocks(hdr) => disk'[b] = disk[b]
    BY <1>1, <1>2
  <1> QED
    BY <1>3 DEF Recovered, Blocks

(* Once every listed block is home, clearing the header changes nothing. *)
LEMMA RecoveredHome ==
  ASSUME Ctl, \A i \in 1..Len(hdr) : disk[hdr[i]] = logdata[i]
  PROVE  Recovered = disk
  <1>1. hdr \in Seq(Block) /\ disk \in [Block -> Val]
    BY DEF Ctl, TypeOK
  <1>2. ASSUME NEW b \in Block PROVE Recovered[b] = disk[b]
    <2>1. CASE b \in Blocks(hdr)
      <3>1. PICK i \in 1..Len(hdr) : b = hdr[i]
        BY <2>1 DEF Blocks
      <3> QED
        BY <3>1, RecoveredValue
    <2>2. CASE b \notin Blocks(hdr)
      BY <2>2, RecoveredValue
    <2> QED
      BY <2>1, <2>2
  <1> QED
    BY <1>1, <1>2 DEF Recovered

(* Every step of Log maps to a step of AtomicDisk or to none. *)
LEMMA StepRefines ==
  ASSUME IInv, IInv', Next
  PROVE  [AD!AbsNext]_(AD!absVars)
  <1> USE DEF AD!absVars, AD!AbsNext
  <1>0. /\ Ctl /\ Ctl' /\ TypeOK /\ TypeOK' /\ pc \in [Proc -> Pc]
        /\ cache \in [Block -> Val] /\ disk \in [Block -> Val]
    BY DEF IInv, Ctl, TypeOK
  <1>a. ASSUME UNCHANGED <<disk, logdata, hdr>> PROVE Recovered' = Recovered
    BY <1>a DEF Recovered, Blocks
  <1>1. ASSUME NEW p \in Proc, begin_op(p) PROVE AD!AbsBegin(p)
    <2>1. UNCHANGED <<Recovered, Seen>>
      BY <1>1, <1>a DEF begin_op, Seen
    <2>2. p \notin Active /\ Active' = Active \cup {p}
      BY <1>0, <1>1 DEF begin_op, Active, InOp
    <2> QED
      BY <2>1, <2>2 DEF AD!AbsBegin, Active, Seen
  <1>2. ASSUME NEW p \in Proc, NEW b \in Block, NEW v \in Val, modify(p, b, v)
        PROVE  AD!AbsWrite(p, b, v)
    <2>1. Recovered' = Recovered /\ Seen' = [Seen EXCEPT ![b] = v]
      BY <1>2, <1>a DEF modify, Seen
    <2>2. p \in Active /\ Active' = Active
      BY <1>0, <1>2 DEF modify, Active, InOp
    <2> QED
      BY <2>1, <2>2 DEF AD!AbsWrite, Active, Seen
  <1>3. ASSUME NEW p \in Proc, end_op(p) \/ end_op_commit(p) PROVE AD!AbsEnd(p)
    <2>1. UNCHANGED <<Recovered, Seen>>
      BY <1>3, <1>a DEF end_op, end_op_commit, Seen
    <2>2. p \in Active /\ Active' = Active \ {p}
      BY <1>0, <1>3 DEF end_op, end_op_commit, Active, InOp, Wakeup
    <2> QED
      BY <2>1, <2>2 DEF AD!AbsEnd, Active, Seen
  <1>4. ASSUME NEW p \in Proc, write_head(p) PROVE AD!AbsCommit
    <2>1. Active = {} /\ Active' = {}
      BY <1>0, <1>4 DEF write_head, Ctl, CommitOK, CommitPc
    <2>2. /\ hdr' = lh /\ boot = "up" /\ boot' = "up" /\ cache' = cache /\ logdata' = logdata
          /\ disk' = disk /\ lh \in Seq(Block)
      BY <1>0, <1>4 DEF write_head, TypeOK
    <2>3. \A i \in 1..Len(lh) : logdata[i] = cache[lh[i]]
      BY <1>4 DEF write_head, IInv, Data, LoggedOK
    <2>4. \A b \in Block : b \notin Blocks(lh) => cache[b] = disk[b]
      <3> SUFFICES ASSUME NEW b \in Block, b \notin Blocks(lh) PROVE cache[b] = disk[b]
        OBVIOUS
      <3>1. pins[b] = 0
        BY <2>2 DEF IInv, Data, PinsOK, Blocks
      <3>2. \A q \in Proc : held[q] # b
        BY <1>0, <2>1, LogAssumption DEF Ctl, HeldOK, Active, InOp, None
      <3> QED
        BY <2>2, <3>1, <3>2 DEF IInv, Data, CleanOK
    <2>5. ASSUME NEW b \in Block PROVE Recovered'[b] = cache[b]
      <3>1. CASE b \in Blocks(lh)
        <4>1. PICK i \in 1..Len(lh) : b = lh[i]
          BY <3>1 DEF Blocks
        <4>2. (CHOOSE j \in 1..Len(lh) : lh[j] = lh[i]) = i
          BY <1>0 DEF Ctl, HeaderOK, NoDup
        <4>3. Recovered'[b] = logdata[i]
          BY <2>2, <3>1, <4>1, <4>2 DEF Recovered, Blocks
        <4> QED
          BY <2>3, <4>1, <4>3
      <3>2. CASE b \notin Blocks(lh)
        BY <2>2, <2>4, <3>2 DEF Recovered, Blocks
      <3> QED
        BY <3>1, <3>2
    <2>6. Recovered' = Seen /\ Seen' = Seen
      BY <1>0, <2>2, <2>5 DEF Seen, Recovered
    <2> QED
      BY <2>1, <2>6 DEF AD!AbsCommit, Active, Seen
  <1>5. CASE crash
    <2>1. Recovered' = Recovered /\ Seen' = Recovered' /\ Active' = {}
      BY <1>5, <1>a DEF crash, diskVars, Seen, Active, InOp
    <2> QED
      BY <2>1 DEF AD!AbsCrash, Active, Seen
  <1>6. ASSUME UNCHANGED <<Recovered, Seen, Active>> PROVE UNCHANGED AD!absVars
    BY <1>6 DEF Active, Seen
  <1>7. ASSUME NEW p \in Proc, begin_op_sleep(p) \/ log_write(p) \/ finish(p)
        PROVE  UNCHANGED <<Recovered, Seen, Active>>
    <2>1. UNCHANGED <<Recovered, Seen>>
      BY <1>7, <1>a DEF begin_op_sleep, log_write, finish, Seen
    <2>2. Active' = Active
      BY <1>0, <1>7 DEF begin_op_sleep, log_write, finish, Active, InOp, Wakeup
    <2> QED
      BY <2>1, <2>2
  <1>8. ASSUME NEW p \in Proc, write_log(p) PROVE UNCHANGED <<Recovered, Seen, Active>>
    <2>1. hdr = <<>> /\ hdr' = hdr /\ disk' = disk /\ cache' = cache /\ boot' = boot /\ boot = "up"
      BY <1>0, <1>8 DEF write_log, Ctl, CommitOK, CommitPc, BootOK
    <2>2. Recovered = disk /\ Recovered' = disk'
      BY <1>0, <2>1, RecoveredEmpty DEF Recovered, Blocks
    <2>3. Active' = Active
      BY <1>0, <1>8 DEF write_log, Active, InOp
    <2> QED
      BY <2>1, <2>2, <2>3 DEF Seen
  <1>9. ASSUME NEW p \in Proc, install_trans(p) PROVE UNCHANGED <<Recovered, Seen, Active>>
    <2>1. /\ hdr = lh /\ tail < Len(lh) /\ tail \in Nat /\ InstallBlock /\ boot' = boot /\ boot = "up"
          /\ UNCHANGED <<hdr, logdata>> /\ lh \in Seq(Block)
      BY <1>0, <1>9 DEF install_trans, Ctl, CommitOK, BootOK, TypeOK
    <2>2. Recovered' = Recovered
      BY <1>0, <2>1, RecoveredInstall
    <2>3. logdata[tail + 1] = cache[lh[tail + 1]]
      BY <1>9, <2>1 DEF install_trans, IInv, Data, LoggedOK
    <2>4. cache' = cache
      BY <1>0, <2>1, <2>3 DEF InstallBlock
    <2>5. Active' = Active
      BY <1>0, <1>9 DEF install_trans, Active, InOp
    <2> QED
      BY <2>1, <2>2, <2>4, <2>5 DEF Seen
  <1>10. ASSUME NEW p \in Proc, erase(p) PROVE UNCHANGED <<Recovered, Seen, Active>>
    <2>1. /\ hdr = lh /\ hdr' = <<>> /\ UNCHANGED <<disk, cache, boot>> /\ boot = "up"
          /\ pc[p] = "erase" /\ lh \in Seq(Block)
      BY <1>0, <1>10 DEF erase, Ctl, BootOK, TypeOK
    <2>2. Active = {} /\ Active' = Active
      BY <1>0, <1>10 DEF erase, Ctl, CommitOK, CommitPc, Active, InOp
    <2>3. \A i \in 1..Len(hdr) : disk[hdr[i]] = logdata[i]
      <3> SUFFICES ASSUME NEW i \in 1..Len(hdr) PROVE disk[hdr[i]] = logdata[i]
        OBVIOUS
      <3>1. logdata[i] = cache[lh[i]] /\ lh[i] \in Block
        BY <2>1 DEF IInv, Data, LoggedOK
      <3>2. pins[lh[i]] = 0
        BY <2>1, <3>1 DEF IInv, Data, PinsOK, Installed
      <3>3. \A q \in Proc : held[q] # lh[i]
        BY <1>0, <2>2, <3>1, LogAssumption DEF Ctl, HeldOK, Active, InOp, None
      <3> QED
        BY <2>1, <3>1, <3>2, <3>3 DEF IInv, Data, CleanOK
    <2>4. Recovered = disk
      BY <1>0, <2>3, RecoveredHome
    <2>5. Recovered' = disk'
      BY <1>0, <2>1 DEF Recovered, Blocks
    <2> QED
      BY <2>1, <2>2, <2>4, <2>5 DEF Seen
  <1>11. ASSUME NEW b \in Block, recycle(b) PROVE UNCHANGED <<Recovered, Seen, Active>>
    <2>1. cache' = cache
      BY <1>0, <1>11 DEF recycle, IInv, Data, CleanOK
    <2> QED
      BY <1>11, <1>a, <2>1 DEF recycle, Seen, Active, InOp
  <1>12. CASE read_head
    <2>1. UNCHANGED <<Recovered, Seen, Active>>
      BY <1>12, <1>a DEF read_head, Seen, Active, InOp
    <2> QED
      BY <1>6, <2>1
  <1>13. CASE recover_install
    <2>1. UNCHANGED <<Recovered, Seen, Active>>
      BY <1>0, <1>13, RecoveredInstall DEF recover_install, Ctl, BootOK, Seen, Active, InOp
    <2> QED
      BY <1>6, <2>1
  <1>14. CASE recover_clear
    <2>1. /\ hdr = lh /\ tail = Len(hdr) /\ hdr' = <<>> /\ UNCHANGED <<disk, cache, pc>>
          /\ boot = "install" /\ boot' = "up" /\ cache = disk
      BY <1>0, <1>14 DEF recover_clear, Ctl, BootOK
    <2>2. Recovered = disk
      BY <1>0, <2>1, RecoveredHome DEF IInv, Data, ReplayOK
    <2>3. Recovered' = disk'
      BY <1>0, <2>1 DEF Recovered, Blocks
    <2>4. UNCHANGED <<Recovered, Seen, Active>>
      BY <2>1, <2>2, <2>3 DEF Seen, Active, InOp
    <2> QED
      BY <1>6, <2>4
  <1> QED
    BY <1>1, <1>2, <1>3, <1>4, <1>5, <1>6, <1>7, <1>8, <1>9, <1>10, <1>11, <1>12, <1>13, <1>14
    DEF Next, commit, recover

(* The log is an atomic disk: calls become durable in whole groups and every
   crash, also one during recovery, leaves exactly the last committed state. *)
THEOREM Refinement == Spec => ImplementsAtomicDisk
  <1>1. Init => AD!AbsInit
    <2> SUFFICES ASSUME Init PROVE AD!AbsInit
      OBVIOUS
    <2>1. Recovered = disk
      BY LogAssumption DEF Init, Recovered, Blocks
    <2> QED
      BY <2>1 DEF Init, AD!AbsInit, InOp
  <1>2. IInv /\ IInv' /\ [Next]_vars => [AD!AbsNext]_(AD!absVars)
    <2>1. CASE UNCHANGED vars
      BY <2>1 DEF vars, diskVars, AD!absVars, Recovered, Blocks, InOp
    <2> QED
      BY <2>1, StepRefines
  <1> QED
    BY Invariance, <1>1, <1>2, PTL DEF Spec, ImplementsAtomicDisk, AD!AbsSpec
=============================================================================
