-------------------------------- MODULE Log ---------------------------------
(***************************************************************************)
(* The redo log of kernel/log.c with the part of the buffer cache          *)
(* (kernel/bio.c) it relies on: pinned buffers stay cached, any other      *)
(* unused buffer may be recycled.  One action per critical section or per  *)
(* synchronous disk write, so that a crash may fall between any two of     *)
(* them, recovery included.                                                *)
(*                                                                         *)
(* A step at which the code would panic() is disabled here; the invariant  *)
(* LogNeverPanics says that no such step is ever reached.                  *)
(***************************************************************************)
EXTENDS Integers, Sequences, FiniteSets

CONSTANTS
  Proc,          \* processes that make file system calls
  Block,         \* home blocks of the file system
  Val,           \* block contents
  InitVal,       \* the contents mkfs leaves
  LOGBLOCKS,     \* data blocks of the on-disk log (param.h)
  MAXOPBLOCKS,   \* what begin_op() reserves for a call (param.h)
  OpBlocks,      \* the distinct blocks a call really logs, at most
  MaxCrashes     \* bound: crashes in a behaviour

ASSUME LogAssumption ==
  /\ InitVal \in Val
  /\ LOGBLOCKS \in Nat /\ MaxCrashes \in Nat
  /\ MAXOPBLOCKS \in 1..LOGBLOCKS
  /\ OpBlocks \in 1..MAXOPBLOCKS
  /\ IsFiniteSet(Proc)
  /\ "none" \notin Block

None == "none"   \* no buffer

VARIABLES
  disk,         \* home blocks on disk
  logdata,      \* body of the on-disk log
  hdr,          \* header block of the on-disk log: the blocks of a committed transaction
  lh,           \* log.lh: the blocks of the transaction in memory
  outstanding,  \* log.outstanding
  committing,   \* log.committing
  cache,        \* what bread() returns for each home block
  pins,         \* references bpin() holds on each block's buffer
  pc,           \* where each process is in log.c
  held,         \* the buffer a call has modified and still has locked
  wrote,        \* the distinct blocks the running call has logged
  boot,         \* "up", or the step of recover_from_log()
  tail,         \* loop variable of write_log() and install_trans()
  crashes       \* crashes so far

diskVars == <<disk, logdata, hdr>>
vars == <<disk, logdata, hdr, lh, outstanding, committing, cache, pins,
          pc, held, wrote, boot, tail, crashes>>

Slot == 1..LOGBLOCKS
Blocks(h) == {h[i] : i \in 1..Len(h)}

(* Where a process can be; the last five are the phases of commit(). *)
CommitPc == {"write_log", "write_head", "install", "erase", "finish"}
Pc == {"idle", "begin", "asleep", "op", "modified"} \cup CommitPc

InOp(p) == pc[p] \in {"op", "modified"}
-----------------------------------------------------------------------------
(* initlog() on the image mkfs writes: the first boot recovers too. *)
Init ==
  /\ disk = [b \in Block |-> InitVal]
  /\ logdata = [i \in Slot |-> InitVal]
  /\ hdr = <<>>
  /\ lh = <<>>
  /\ outstanding = 0
  /\ committing = 0
  /\ cache = disk
  /\ pins = [b \in Block |-> 0]
  /\ pc = [p \in Proc |-> "idle"]
  /\ held = [p \in Proc |-> None]
  /\ wrote = [p \in Proc |-> {}]
  /\ boot = "read_head"
  /\ tail = 0
  /\ crashes = 0

(* begin_op()'s test that the log has room for one more call. *)
RoomFor == Len(lh) + (outstanding + 1) * MAXOPBLOCKS <= LOGBLOCKS

(* Fault: begin_op() forgets to wait for a commit. *)
Bug_begin_op_ignores_commit(p) ==
  /\ boot = "up"
  /\ pc[p] \in {"idle", "begin"}
  /\ RoomFor
  /\ outstanding' = outstanding + 1
  /\ pc' = [pc EXCEPT ![p] = "op"]
  /\ wrote' = [wrote EXCEPT ![p] = {}]
  /\ UNCHANGED <<disk, logdata, hdr, lh, committing, cache, pins, held, boot, tail, crashes>>

begin_op(p) ==
  /\ boot = "up"
  /\ pc[p] \in {"idle", "begin"}
  /\ committing = 0 /\ RoomFor
  /\ outstanding' = outstanding + 1
  /\ pc' = [pc EXCEPT ![p] = "op"]
  /\ wrote' = [wrote EXCEPT ![p] = {}]
  /\ UNCHANGED <<disk, logdata, hdr, lh, committing, cache, pins, held, boot, tail, crashes>>

begin_op_sleep(p) ==
  /\ boot = "up"
  /\ pc[p] \in {"idle", "begin"}
  /\ committing = 1 \/ ~RoomFor
  /\ pc' = [pc EXCEPT ![p] = "asleep"]
  /\ UNCHANGED <<disk, logdata, hdr, lh, outstanding, committing, cache, pins, held, wrote,
                 boot, tail, crashes>>

(* wakeup(&log): every sleeper runs again and retests, after process p's own step. *)
Wakeup(p, next) ==
  [q \in Proc |-> IF q = p THEN next ELSE IF pc[q] = "asleep" THEN "begin" ELSE pc[q]]
-----------------------------------------------------------------------------
(* A call changes a locked buffer it got from bread() ... *)
modify(p, b, v) ==
  /\ boot = "up"
  /\ pc[p] = "op"
  /\ \A q \in Proc : held[q] # b
  /\ b \in wrote[p] \/ Cardinality(wrote[p]) < OpBlocks
  /\ cache' = [cache EXCEPT ![b] = v]
  /\ held' = [held EXCEPT ![p] = b]
  /\ pc' = [pc EXCEPT ![p] = "modified"]
  /\ UNCHANGED <<disk, logdata, hdr, lh, outstanding, committing, pins, wrote, boot, tail, crashes>>

(* Fault: an absorbed block is pinned again. *)
Bug_log_write_pins_again(p) ==
  LET b == held[p] IN
  /\ boot = "up"
  /\ pc[p] = "modified"
  /\ Len(lh) < LOGBLOCKS /\ outstanding >= 1
  /\ lh' = IF b \in Blocks(lh) THEN lh ELSE Append(lh, b)
  /\ pins' = [pins EXCEPT ![b] = @ + 1]
  /\ wrote' = [wrote EXCEPT ![p] = @ \cup {b}]
  /\ held' = [held EXCEPT ![p] = None]
  /\ pc' = [pc EXCEPT ![p] = "op"]
  /\ UNCHANGED <<disk, logdata, hdr, outstanding, committing, cache, boot, tail, crashes>>

(* ... records it in the log header, once per transaction, and releases it. *)
log_write(p) ==
  LET b == held[p] IN
  /\ boot = "up"
  /\ pc[p] = "modified"
  /\ Len(lh) < LOGBLOCKS /\ outstanding >= 1      \* otherwise panic()
  /\ IF b \in Blocks(lh)
     THEN UNCHANGED <<lh, pins>>
     ELSE lh' = Append(lh, b) /\ pins' = [pins EXCEPT ![b] = @ + 1]
  /\ wrote' = [wrote EXCEPT ![p] = @ \cup {b}]
  /\ held' = [held EXCEPT ![p] = None]
  /\ pc' = [pc EXCEPT ![p] = "op"]
  /\ UNCHANGED <<disk, logdata, hdr, outstanding, committing, cache, boot, tail, crashes>>

(* bget() recycles the buffer of a block nobody references: its next read is from disk. *)
recycle(b) ==
  /\ boot = "up"
  /\ pins[b] = 0 /\ \A p \in Proc : held[p] # b
  /\ cache' = [cache EXCEPT ![b] = disk[b]]
  /\ UNCHANGED <<disk, logdata, hdr, lh, outstanding, committing, pins, pc, held, wrote, boot,
                 tail, crashes>>

(* end_op() of a call that is not the last: its reservation is free again. *)
end_op(p) ==
  /\ boot = "up"
  /\ pc[p] = "op" /\ outstanding # 1
  /\ committing = 0                                  \* otherwise panic()
  /\ outstanding' = outstanding - 1
  /\ pc' = Wakeup(p, "idle")
  /\ UNCHANGED <<disk, logdata, hdr, lh, committing, cache, pins, held, wrote, boot, tail, crashes>>

(* end_op() of the last call: commit() follows, without the lock. *)
end_op_commit(p) ==
  /\ boot = "up"
  /\ pc[p] = "op" /\ outstanding = 1
  /\ committing = 0                                  \* otherwise panic()
  /\ outstanding' = 0
  /\ committing' = 1
  /\ pc' = [pc EXCEPT ![p] = IF Len(lh) > 0 THEN "write_log" ELSE "finish"]
  /\ tail' = 0
  /\ UNCHANGED <<disk, logdata, hdr, lh, cache, pins, held, wrote, boot, crashes>>
-----------------------------------------------------------------------------
(* Fault: home blocks are installed before the header is written. *)
Bug_write_log_then_install(p) ==
  /\ boot = "up"
  /\ pc[p] = "write_log"
  /\ logdata' = [logdata EXCEPT ![tail + 1] = cache[lh[tail + 1]]]
  /\ IF tail + 1 < Len(lh)
     THEN tail' = tail + 1 /\ pc' = pc
     ELSE tail' = 0 /\ pc' = [pc EXCEPT ![p] = "install"]
  /\ UNCHANGED <<disk, hdr, lh, outstanding, committing, cache, pins, held, wrote, boot, crashes>>

(* One iteration of write_log(): the cached block goes to the log. *)
write_log(p) ==
  /\ boot = "up"
  /\ pc[p] = "write_log"
  /\ logdata' = [logdata EXCEPT ![tail + 1] = cache[lh[tail + 1]]]
  /\ IF tail + 1 < Len(lh)
     THEN tail' = tail + 1 /\ pc' = pc
     ELSE tail' = 0 /\ pc' = [pc EXCEPT ![p] = "write_head"]
  /\ UNCHANGED <<disk, hdr, lh, outstanding, committing, cache, pins, held, wrote, boot, crashes>>

(* write_head(): the commit point. *)
write_head(p) ==
  /\ boot = "up"
  /\ pc[p] = "write_head"
  /\ hdr' = lh
  /\ pc' = [pc EXCEPT ![p] = "install"]
  /\ UNCHANGED <<disk, logdata, lh, outstanding, committing, cache, pins, held, wrote, boot,
                 tail, crashes>>

(* The body of install_trans()'s loop: log block to buffer, buffer to disk. *)
InstallBlock ==
  LET b == lh[tail + 1] IN
  /\ disk' = [disk EXCEPT ![b] = logdata[tail + 1]]
  /\ cache' = [cache EXCEPT ![b] = logdata[tail + 1]]

(* Fault: the loop stops one block early. *)
Bug_install_trans_short(p) ==
  /\ boot = "up"
  /\ pc[p] = "install"
  /\ InstallBlock
  /\ pins' = [pins EXCEPT ![lh[tail + 1]] = @ - 1]
  /\ IF tail + 2 < Len(lh)
     THEN tail' = tail + 1 /\ pc' = pc
     ELSE tail' = 0 /\ pc' = [pc EXCEPT ![p] = "erase"]
  /\ UNCHANGED <<logdata, hdr, lh, outstanding, committing, held, wrote, boot, crashes>>

(* One iteration of install_trans(0). *)
install_trans(p) ==
  /\ boot = "up"
  /\ pc[p] = "install"
  /\ InstallBlock
  /\ pins' = [pins EXCEPT ![lh[tail + 1]] = @ - 1]
  /\ IF tail + 1 < Len(lh)
     THEN tail' = tail + 1 /\ pc' = pc
     ELSE tail' = 0 /\ pc' = [pc EXCEPT ![p] = "erase"]
  /\ UNCHANGED <<logdata, hdr, lh, outstanding, committing, held, wrote, boot, crashes>>

(* Fault: the header on disk keeps naming the installed transaction. *)
Bug_erase_in_memory_only(p) ==
  /\ boot = "up"
  /\ pc[p] = "erase"
  /\ lh' = <<>>
  /\ pc' = [pc EXCEPT ![p] = "finish"]
  /\ UNCHANGED <<disk, logdata, hdr, outstanding, committing, cache, pins, held, wrote, boot, tail,
                 crashes>>

(* commit()'s last write_head(), with log.lh.n = 0. *)
erase(p) ==
  /\ boot = "up"
  /\ pc[p] = "erase"
  /\ lh' = <<>> /\ hdr' = <<>>
  /\ pc' = [pc EXCEPT ![p] = "finish"]
  /\ UNCHANGED <<disk, logdata, outstanding, committing, cache, pins, held, wrote, boot, tail,
                 crashes>>

(* Faults: no wakeup(); committing stays set. *)
Bug_finish_no_wakeup(p) ==
  /\ boot = "up" /\ pc[p] = "finish"
  /\ committing' = 0
  /\ pc' = [pc EXCEPT ![p] = "idle"]
  /\ UNCHANGED <<disk, logdata, hdr, lh, outstanding, cache, pins, held, wrote, boot, tail, crashes>>
Bug_finish_still_committing(p) ==
  /\ boot = "up" /\ pc[p] = "finish"
  /\ pc' = Wakeup(p, "idle")
  /\ UNCHANGED <<disk, logdata, hdr, lh, outstanding, committing, cache, pins, held, wrote, boot,
                 tail, crashes>>

(* end_op() after commit(). *)
finish(p) ==
  /\ boot = "up"
  /\ pc[p] = "finish"
  /\ committing' = 0
  /\ pc' = Wakeup(p, "idle")
  /\ UNCHANGED <<disk, logdata, hdr, lh, outstanding, cache, pins, held, wrote, boot, tail, crashes>>
-----------------------------------------------------------------------------
(* Power is lost: only the disk survives, and the next boot starts recovery. *)
crash ==
  /\ crashes < MaxCrashes
  /\ crashes' = crashes + 1
  /\ lh' = <<>>
  /\ outstanding' = 0
  /\ committing' = 0
  /\ cache' = disk
  /\ pins' = [b \in Block |-> 0]
  /\ pc' = [p \in Proc |-> "idle"]
  /\ held' = [p \in Proc |-> None]
  /\ wrote' = [p \in Proc |-> {}]
  /\ boot' = "read_head"
  /\ tail' = 0
  /\ UNCHANGED diskVars

read_head ==
  /\ boot = "read_head"
  /\ lh' = hdr
  /\ boot' = "install"
  /\ UNCHANGED <<disk, logdata, hdr, outstanding, committing, cache, pins, pc, held, wrote,
                 tail, crashes>>

(* One iteration of install_trans(1). *)
recover_install ==
  /\ boot = "install"
  /\ tail < Len(lh)
  /\ InstallBlock
  /\ tail' = tail + 1
  /\ UNCHANGED <<logdata, hdr, lh, outstanding, committing, pins, pc, held, wrote, boot, crashes>>

(* The end of recover_from_log(): the log is cleared and file system calls may start. *)
recover_clear ==
  /\ boot = "install"
  /\ tail = Len(lh)
  /\ lh' = <<>> /\ hdr' = <<>>
  /\ boot' = "up"
  /\ tail' = 0
  /\ UNCHANGED <<disk, logdata, outstanding, committing, cache, pins, pc, held, wrote, crashes>>
-----------------------------------------------------------------------------
commit(p) == write_log(p) \/ write_head(p) \/ install_trans(p) \/ erase(p) \/ finish(p)
recover == read_head \/ recover_install \/ recover_clear

Next ==
  \/ \E p \in Proc :
       \/ begin_op(p) \/ begin_op_sleep(p)
       \/ \E b \in Block, v \in Val : modify(p, b, v)
       \/ log_write(p)
       \/ end_op(p) \/ end_op_commit(p)
       \/ commit(p)
  \/ \E b \in Block : recycle(b)
  \/ crash
  \/ recover

Spec == Init /\ [][Next]_vars

(* Every runnable process is scheduled, the disk answers, and every file   *)
(* system call ends: it logs finitely many blocks between begin_op() and   *)
(* end_op().                                                               *)
Fairness ==
  /\ WF_vars(recover)
  /\ \A p \in Proc :
       /\ WF_vars(log_write(p))
       /\ WF_vars(commit(p))
       /\ WF_vars(pc[p] = "begin" /\ (begin_op(p) \/ begin_op_sleep(p)))
       /\ SF_vars(end_op(p) \/ end_op_commit(p))

FairSpec == Spec /\ Fairness
-----------------------------------------------------------------------------
(* The variables range over what the code can store in them. *)
TypeOK ==
  /\ disk \in [Block -> Val] /\ cache \in [Block -> Val]
  /\ logdata \in [Slot -> Val]
  /\ hdr \in Seq(Block) /\ lh \in Seq(Block)
  /\ outstanding \in Nat /\ committing \in {0, 1}
  /\ pins \in [Block -> Int]
  /\ pc \in [Proc -> Pc]
  /\ held \in [Proc -> Block \cup {None}]
  /\ wrote \in [Proc -> SUBSET Block]
  /\ boot \in {"read_head", "install", "up"}
  /\ tail \in Nat /\ crashes \in Nat

(* The contents recover_from_log() would leave on disk after a crash now:  *)
(* the home blocks, overwritten by the log if its header says it is full.  *)
Recovered ==
  [b \in Block |-> IF b \in Blocks(hdr)
                   THEN logdata[CHOOSE i \in 1..Len(hdr) : hdr[i] = b]
                   ELSE disk[b]]

(* No call reaches a panic() of log.c: log_write() finds the log neither   *)
(* full nor without a transaction, and end_op() finds no commit running.   *)
LogNeverPanics ==
  \A p \in Proc :
    /\ pc[p] = "modified" => Len(lh) < LOGBLOCKS /\ outstanding >= 1
    /\ pc[p] = "op" => committing = 0

(* A process asleep on &log in begin_op() has someone left to wake it: a   *)
(* call that will run end_op(), or a commit that will finish.              *)
SleeperHasWaker ==
  (\E p \in Proc : pc[p] = "asleep") => committing = 1 \/ outstanding > 0

(* Group commit loses nothing: once the last end_op() has returned, what   *)
(* every call wrote is on disk at home, whatever was in the log.           *)
QuiescentIsDurable ==
  boot = "up" /\ outstanding = 0 /\ committing = 0 => cache = disk /\ Recovered = disk

(* log_write() pins a block once however often it is absorbed, and         *)
(* install_trans() undoes exactly that pin: bget() can neither recycle a   *)
(* buffer that differs from the disk nor lose one to a leaked reference.   *)
PinsMatchLog ==
  boot = "up" =>
    \A b \in Block :
      /\ pins[b] \in {0, 1}
      /\ lh = <<>> => pins[b] = 0
      /\ pins[b] = 0 /\ (\A p \in Proc : held[p] # b) => cache[b] = disk[b]

(* Write-ahead: a home block changes on disk only while the header on disk *)
(* commits a transaction that contains it.                                 *)
WriteAhead ==
  [][\A b \in Block : disk'[b] # disk[b] => b \in Blocks(hdr) /\ hdr' = hdr]_vars

(* The log implements an atomic disk: file system calls become durable in  *)
(* whole groups, at the header write, and a crash at any point leaves the  *)
(* state of the last commit, also when it interrupts recovery.             *)
AD == INSTANCE AtomicDisk WITH
        stable <- Recovered,
        mem <- IF boot = "up" THEN cache ELSE Recovered,
        active <- {p \in Proc : InOp(p)}

ImplementsAtomicDisk == AD!AbsSpec

(* A process that begin_op() put to sleep is woken to look again: no       *)
(* wakeup(&log) is lost between calls, commits and crashes.                *)
SleeperIsWoken == \A p \in Proc : pc[p] = "asleep" ~> pc[p] # "asleep"

(* A commit always comes to its end, and so does recovery after the last   *)
(* crash: file system calls are possible again.                            *)
CommitAndRecoveryEnd == []<>(boot = "up" /\ committing = 0)
=============================================================================
