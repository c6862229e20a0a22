---------------------------- MODULE BufferCache -----------------------------
(***************************************************************************)
(* The buffer cache of kernel/bio.c with the sleep locks of                *)
(* kernel/sleeplock.c, over the disk driver of VirtioDisk.  bcache.lock,   *)
(* a sleep lock's spin lock and vdisk_lock each make one action of the     *)
(* section they protect; everything between two sections interleaves.      *)
(*                                                                         *)
(* The callers are those of log.c: a process that changed a buffer writes  *)
(* it with bwrite() or pins it with bpin() before brelse(), and unpins it  *)
(* once it has written it.                                                 *)
(***************************************************************************)
EXTENDS VirtioDisk, Sequences

CONSTANTS
  ReadOnly,    \* bound: blocks the callers only read
  MaxPinned    \* buffers the log may pin (LOGBLOCKS in log.c)

VARIABLES
  blockno,   \* b->blockno; None while b->dev is 0
  valid,     \* b->valid
  refcnt,    \* b->refcnt
  holder,    \* b->lock: the process whose pid is in it, None when not locked
  lru,       \* the list from bcache.head.next (most recent) to bcache.head.prev
  pinned,    \* buffers log.c holds a bpin() reference on
  pc,        \* where each process is in bio.c
  held       \* the buffer it is working with

cacheVars == <<blockno, valid, refcnt, holder, lru, pinned>>
callVars == <<pc, held>>
vars == <<diskVars, cacheVars, callVars>>

ASSUME CacheAssumption ==
  /\ ReadOnly \subseteq Block
  /\ IsFiniteSet(Buf) /\ IsFiniteSet(Proc)
  /\ MaxPinned \in Nat /\ MaxPinned + Cardinality(Proc) <= Cardinality(Buf)

Position(b) == CHOOSE i \in 1..Len(lru) : lru[i] = b
ToFront(b) == <<b>> \o SelectSeq(lru, LAMBDA c : c # b)

(* binit(): some order of the buffers, none of them locked or in use. *)
binit ==
  /\ lru \in {s \in [1..Cardinality(Buf) -> Buf] : \A i, j \in DOMAIN s : s[i] = s[j] => i = j}
  /\ blockno = [b \in Buf |-> None]
  /\ valid = [b \in Buf |-> 0]
  /\ refcnt = [b \in Buf |-> 0]
  /\ holder = [b \in Buf |-> None]
  /\ data = [b \in Buf |-> InitVal]
  /\ pinned = {}

Init ==
  /\ virtio_disk_init /\ binit
  /\ pc = [p \in Proc |-> "idle"]
  /\ held = [p \in Proc |-> None]
-----------------------------------------------------------------------------
Cached(k) == {b \in Buf : blockno[b] = k}
Unused == {b \in Buf : refcnt[b] = 0}

(* bget() finds the block in a buffer, and takes a reference before it waits for the lock. *)
bget_hit(p, k) ==
  /\ pc[p] = "idle"
  /\ \E b \in Cached(k) :
       /\ refcnt' = [refcnt EXCEPT ![b] = @ + 1]
       /\ held' = [held EXCEPT ![p] = b]
  /\ pc' = [pc EXCEPT ![p] = "lock"]
  /\ UNCHANGED <<diskVars, blockno, valid, holder, lru, pinned>>

(* Fault: bget() recycles without looking whether the block is cached. *)
Bug_bget_recycle_unchecked(p, k) ==
  /\ pc[p] = "idle"
  /\ Unused # {}
  /\ \E b \in Unused :
       /\ \A c \in Unused : Position(c) <= Position(b)
       /\ blockno' = [blockno EXCEPT ![b] = k]
       /\ valid' = [valid EXCEPT ![b] = 0]
       /\ refcnt' = [refcnt EXCEPT ![b] = 1]
       /\ held' = [held EXCEPT ![p] = b]
  /\ pc' = [pc EXCEPT ![p] = "lock"]
  /\ UNCHANGED <<diskVars, holder, lru, pinned>>

(* bget() recycles the least recently used buffer that nobody refers to. *)
bget_recycle(p, k) ==
  /\ pc[p] = "idle"
  /\ Cached(k) = {}
  /\ \E b \in Unused :
       /\ \A c \in Unused : Position(c) <= Position(b)
       /\ blockno' = [blockno EXCEPT ![b] = k]
       /\ valid' = [valid EXCEPT ![b] = 0]
       /\ refcnt' = [refcnt EXCEPT ![b] = 1]
       /\ held' = [held EXCEPT ![p] = b]
  /\ pc' = [pc EXCEPT ![p] = "lock"]
  /\ UNCHANGED <<diskVars, holder, lru, pinned>>

(* acquiresleep(): take the lock, or sleep on it. *)
acquiresleep(p) ==
  /\ pc[p] = "lock"
  /\ IF holder[held[p]] = None
     THEN /\ holder' = [holder EXCEPT ![held[p]] = p]
          /\ pc' = [pc EXCEPT ![p] = "locked"]
     ELSE /\ pc' = [pc EXCEPT ![p] = "asleep"]
          /\ UNCHANGED holder
  /\ UNCHANGED <<diskVars, blockno, valid, refcnt, lru, pinned, held>>

(* kill() may also wake a process that sleeps on the lock; the loop tests the lock again. *)
wake_lock(p) ==
  /\ pc[p] = "asleep"
  /\ pc' = [pc EXCEPT ![p] = "lock"]
  /\ UNCHANGED <<diskVars, cacheVars, held>>

(* Calling virtio_disk_rw(b, write). *)
CallDriver(p, write) ==
  /\ rw' = [rw EXCEPT ![p] = "call"]
  /\ arg' = [arg EXCEPT ![p] = [b |-> held[p], blockno |-> blockno[held[p]], write |-> write]]
  /\ UNCHANGED <<NUM, disk, data, bdisk, head, free, ringVars, used_idx, deviceVars, irq, intr>>

(* bread() with the buffer locked: use it, or read the block first. *)
bread(p) ==
  /\ pc[p] = "locked"
  /\ IF valid[held[p]] = 1
     THEN /\ pc' = [pc EXCEPT ![p] = "has"]
          /\ UNCHANGED diskVars
     ELSE /\ pc' = [pc EXCEPT ![p] = "reading"]
          /\ CallDriver(p, 0)
  /\ UNCHANGED <<cacheVars, held>>

bread_end(p) ==
  /\ pc[p] = "reading" /\ rw[p] = "idle"
  /\ valid' = [valid EXCEPT ![held[p]] = 1]
  /\ pc' = [pc EXCEPT ![p] = "has"]
  /\ UNCHANGED <<diskVars, blockno, refcnt, holder, lru, pinned, held>>
-----------------------------------------------------------------------------
(* The caller changes the block. *)
modify(p, v) ==
  /\ pc[p] = "has"
  /\ blockno[held[p]] \notin ReadOnly
  /\ data' = [data EXCEPT ![held[p]] = v]
  /\ pc' = [pc EXCEPT ![p] = "dirty"]
  /\ UNCHANGED <<NUM, disk, arg, driverVars, cacheVars, held>>

bwrite(p) ==
  /\ pc[p] = "dirty"
  /\ holder[held[p]] = p
  /\ pc' = [pc EXCEPT ![p] = "writing"]
  /\ CallDriver(p, 1)
  /\ UNCHANGED <<cacheVars, held>>

bwrite_end(p) ==
  /\ pc[p] = "writing" /\ rw[p] = "idle"
  /\ pc' = [pc EXCEPT ![p] = "written"]
  /\ UNCHANGED <<diskVars, cacheVars, held>>

(* Fault: the pin is not counted. *)
Bug_bpin_uncounted(p) ==
  /\ pc[p] = "dirty"
  /\ held[p] \notin pinned => Cardinality(pinned) < MaxPinned
  /\ pinned' = pinned \cup {held[p]}
  /\ pc' = [pc EXCEPT ![p] = "done"]
  /\ UNCHANGED <<diskVars, blockno, valid, refcnt, holder, lru, held>>

(* log_write() pins a buffer of a new block of the transaction, and absorbs a known one. *)
bpin(p) ==
  /\ pc[p] = "dirty"
  /\ held[p] \notin pinned => Cardinality(pinned) < MaxPinned
  /\ refcnt' = [refcnt EXCEPT ![held[p]] = IF held[p] \in pinned THEN @ ELSE @ + 1]
  /\ pinned' = pinned \cup {held[p]}
  /\ pc' = [pc EXCEPT ![p] = "done"]
  /\ UNCHANGED <<diskVars, blockno, valid, holder, lru, held>>

(* install_trans() unpins the buffer it has just written. *)
bunpin(p) ==
  /\ pc[p] = "written"
  /\ refcnt' = [refcnt EXCEPT ![held[p]] = IF held[p] \in pinned THEN @ - 1 ELSE @]
  /\ pinned' = pinned \ {held[p]}
  /\ pc' = [pc EXCEPT ![p] = "done"]
  /\ UNCHANGED <<diskVars, blockno, valid, holder, lru, held>>

(* brelse(): releasesleep(), which wakes the processes that sleep on the lock ... *)
releasesleep(p) ==
  /\ pc[p] \in {"has", "done"}
  /\ holder[held[p]] = p
  /\ holder' = [holder EXCEPT ![held[p]] = None]
  /\ pc' = [q \in Proc |-> IF q = p THEN "drop"
                           ELSE IF pc[q] = "asleep" /\ held[q] = held[p] THEN "lock"
                           ELSE pc[q]]
  /\ UNCHANGED <<diskVars, blockno, valid, refcnt, lru, pinned, held>>

(* ... and then gives the reference back, moving an unused buffer to the front. *)
brelse(p) ==
  /\ pc[p] = "drop"
  /\ refcnt' = [refcnt EXCEPT ![held[p]] = @ - 1]
  /\ lru' = IF refcnt[held[p]] = 1 THEN ToFront(held[p]) ELSE lru
  /\ pc' = [pc EXCEPT ![p] = "idle"]
  /\ held' = [held EXCEPT ![p] = None]
  /\ UNCHANGED <<diskVars, blockno, valid, holder, pinned>>
-----------------------------------------------------------------------------
bget(p) == \E k \in Block : bget_hit(p, k) \/ bget_recycle(p, k)

(* A process on its way through the cache and the driver; it may stay idle for ever. *)
Step(p) ==
  \/ acquiresleep(p) \/ bread(p) \/ bread_end(p)
  \/ \E v \in Val : modify(p, v)
  \/ bwrite(p) \/ bwrite_end(p) \/ bpin(p) \/ bunpin(p)
  \/ releasesleep(p) \/ brelse(p)
Driver(p) == virtio_disk_rw(p) /\ UNCHANGED <<cacheVars, callVars>>
Killed(p) == wake_lock(p) \/ (wake_rw(p) /\ UNCHANGED <<cacheVars, callVars>>)
Interrupt == virtio_disk_intr /\ UNCHANGED <<cacheVars, callVars>>
Device == device /\ UNCHANGED <<cacheVars, callVars>>

Next ==
  \/ \E p \in Proc : bget(p) \/ Step(p) \/ Driver(p) \/ Killed(p)
  \/ Interrupt \/ Device

Spec == Init /\ [][Next]_vars
-----------------------------------------------------------------------------
Pc == {"idle", "lock", "asleep", "locked", "reading", "has", "dirty", "writing", "written", "done",
       "drop"}
Has(p) == pc[p] \in {"has", "dirty", "writing", "written", "done"}
Locks(p) == Has(p) \/ pc[p] \in {"locked", "reading"}

(* Every variable has its type. *)
TypeOK ==
  /\ DiskTypeOK
  /\ blockno \in [Buf -> Block \cup {None}]
  /\ valid \in [Buf -> {0, 1}]
  /\ refcnt \in [Buf -> Nat]
  /\ holder \in [Buf -> Proc \cup {None}]
  /\ lru \in [1..Cardinality(Buf) -> Buf]
  /\ pinned \in SUBSET Buf
  /\ pc \in [Proc -> Pc]
  /\ held \in [Proc -> Buf \cup {None}]

(* At most one buffer holds a given block, and the buffer a process works with keeps its block,
   its lock and a reference of its own: bget() never recycles or duplicates a buffer in use. *)
BuffersAreExclusive ==
  /\ \A b, c \in Buf : blockno[b] = blockno[c] /\ blockno[b] # None => b = c
  /\ \A b \in Buf :
       refcnt[b] = Cardinality({p \in Proc : held[p] = b}) + (IF b \in pinned THEN 1 ELSE 0)
  /\ \A p \in Proc : Locks(p) => holder[held[p]] = p

(* panic("bget: no buffers") is not reached while the log pins at most MaxPinned buffers, and the
   driver's panics are not reached at all. *)
NeverPanics ==
  /\ \A p \in Proc : pc[p] = "idle" => Unused # {}
  /\ DriverNeverPanics

(* No wakeup() is lost, whatever kill() wakes in between: nobody sleeps on a free buffer lock, for
   descriptors that are there or for a transfer whose completion has been handled. *)
NoLostWakeup ==
  /\ \A p \in Proc : pc[p] = "asleep" => holder[held[p]] # None
  /\ DriverSleepersAreDue

(* What the blocks hold: the cached copy when there is one. *)
content ==
  [k \in Block |-> IF \E b \in Cached(k) : valid[b] = 1
                   THEN data[CHOOSE b \in Cached(k) : valid[b] = 1] ELSE disk[k]]
view == [p \in Proc |-> IF Has(p) THEN <<blockno[held[p]], data[held[p]]>> ELSE <<>>]
Abstract == INSTANCE BlockStore WITH Proc <- Proc, Block <- Block, Val <- Val, InitVal <- InitVal,
                                     content <- content, view <- view

(* The cache, its locks, the driver and the device together are an array of blocks that one
   process at a time reads and changes: bread() returns what was last stored, and neither
   eviction nor a late transfer loses or resurrects contents. *)
ImplementsBlockStore == Abstract!Spec

=============================================================================
