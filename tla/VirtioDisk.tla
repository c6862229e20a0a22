----------------------------- MODULE VirtioDisk -----------------------------
(***************************************************************************)
(* The disk driver of kernel/virtio_disk.c and the device it drives.       *)
(* vdisk_lock makes one action of each stretch of virtio_disk_rw() between *)
(* two sleep()s.  virtio_disk_intr() takes one action per loop iteration,  *)
(* because the device does not take the lock: it adds to the used ring,    *)
(* in any order, while the handler is running.                             *)
(*                                                                         *)
(* A step at which the code would panic() is disabled here; the invariant  *)
(* DriverNeverPanics says that no such step is ever reached.               *)
(***************************************************************************)
EXTENDS Integers, FiniteSets, FiniteSetsExt

CONSTANTS
  Proc,      \* processes that read and write blocks
  Buf,       \* struct buf
  Block,     \* block numbers
  Val,       \* block contents
  InitVal,   \* what mkfs left in every block
  Sizes,     \* values of NUM to consider
  Wraps      \* the rings' idx fields wrap after Wraps rounds, 2^16 / NUM in virtio.h

None == "none"

ASSUME VirtioAssumption ==
  /\ \A n \in Sizes : n \in Nat /\ n >= 3
  /\ Wraps \in Nat \ {0}
  /\ InitVal \in Val
  /\ None \notin Buf \cup Block \cup Proc

VARIABLES
  NUM,       \* descriptors, and entries of each ring (virtio.h); never changes
  disk,      \* the blocks of the device
  data,      \* b->data
  bdisk,     \* b->disk: the device owns the buffer
  rw,        \* where each process is in virtio_disk_rw()
  arg,       \* its arguments: the buffer, the block number in it, and write
  head,      \* its idx[0]
  free,      \* descriptors with disk.free[i] = 1
  next,      \* desc[i].next, Last without VRING_DESC_F_NEXT
  ops,       \* the request that starts at descriptor i: disk.ops[i] and the address in the second
  info,      \* disk.info[i].b
  status,    \* disk.info[i].status
  avail,     \* the available ring, written by the driver
  used,      \* the used ring, written by the device
  used_idx,  \* disk.used_idx: completions handled so far
  seen,      \* available entries the device has read
  inflight,  \* requests the device is working on
  irq,       \* the device's interrupt is pending
  intr       \* virtio_disk_intr() is in its loop, holding vdisk_lock

IDX == Wraps * NUM
Desc == 0..NUM - 1
Last == NUM        \* next of a descriptor without VRING_DESC_F_NEXT

ringVars == <<next, ops, info, status, avail, used>>
deviceVars == <<seen, inflight>>
driverVars == <<bdisk, rw, head, free, ringVars, used_idx, deviceVars, irq, intr>>
diskVars == <<NUM, disk, data, arg, driverVars>>

NoRequest == [b |-> None, blockno |-> None, write |-> 0]
Ring == [ring : [Desc -> Desc], idx : 0..IDX - 1]
Request == [b : Buf, blockno : Block, write : {0, 1}]

(* virtio_disk_init(): every descriptor is free and both rings are zeroed. *)
virtio_disk_init ==
  /\ NUM \in Sizes
  /\ disk = [k \in Block |-> InitVal]
  /\ bdisk = [b \in Buf |-> 0]
  /\ rw = [p \in Proc |-> "idle"]
  /\ arg = [p \in Proc |-> NoRequest]
  /\ head = [p \in Proc |-> 0]
  /\ free = Desc
  /\ next = [i \in Desc |-> Last]
  /\ ops = [i \in Desc |-> NoRequest]
  /\ info = [i \in Desc |-> None]
  /\ status = [i \in Desc |-> 0]
  /\ avail = [ring |-> [i \in Desc |-> 0], idx |-> 0]
  /\ used = [ring |-> [i \in Desc |-> 0], idx |-> 0]
  /\ used_idx = 0 /\ seen = 0 /\ inflight = {}
  /\ irq = FALSE /\ intr = FALSE
-----------------------------------------------------------------------------
(* alloc_desc() three times over: the lowest free indices, in order. *)
alloc3_desc ==
  LET i0 == Min(free)
      i1 == Min(free \ {i0})
  IN <<i0, i1, Min(free \ {i0, i1})>>

(* The descriptors free_chain(i) walks. *)
Chain(i) == {i, next[i], next[next[i]]}

(* wakeup(&disk.free[0]), after process p's own step. *)
WakeFree(p, at) ==
  [q \in Proc |-> IF q = p THEN at ELSE IF rw[q] = "nodesc" THEN "call" ELSE rw[q]]

(* add(): an entry at the end of a ring. *)
Push(r, i) == [ring |-> [r.ring EXCEPT ![r.idx % NUM] = i], idx |-> (r.idx + 1) % IDX]

(* Fault: a descriptor of the chain is not marked as taken. *)
Bug_submit_leaves_one(p) ==
  /\ rw[p] = "call" /\ ~intr
  /\ Cardinality(free) >= 3
  /\ LET d == alloc3_desc IN
     /\ free' = free \ {d[1], d[2]}
     /\ head' = [head EXCEPT ![p] = d[1]]
     /\ next' = [next EXCEPT ![d[1]] = d[2], ![d[2]] = d[3], ![d[3]] = Last]
     /\ ops' = [ops EXCEPT ![d[1]] = arg[p]]
     /\ status' = [status EXCEPT ![d[1]] = 255]
     /\ info' = [info EXCEPT ![d[1]] = arg[p].b]
     /\ avail' = Push(avail, d[1])
  /\ bdisk' = [bdisk EXCEPT ![arg[p].b] = 1]
  /\ rw' = [rw EXCEPT ![p] = "wait"]
  /\ UNCHANGED <<NUM, disk, data, arg, used, used_idx, deviceVars, irq, intr>>

(* virtio_disk_rw() with three descriptors at hand: format the chain, publish it, and sleep on b. *)
submit(p) ==
  /\ rw[p] = "call" /\ ~intr
  /\ Cardinality(free) >= 3
  /\ LET d == alloc3_desc IN
     /\ free' = free \ {d[1], d[2], d[3]}
     /\ head' = [head EXCEPT ![p] = d[1]]
     /\ next' = [next EXCEPT ![d[1]] = d[2], ![d[2]] = d[3], ![d[3]] = Last]
     /\ ops' = [ops EXCEPT ![d[1]] = arg[p]]
     /\ status' = [status EXCEPT ![d[1]] = 255]
     /\ info' = [info EXCEPT ![d[1]] = arg[p].b]
     /\ avail' = Push(avail, d[1])
  /\ bdisk' = [bdisk EXCEPT ![arg[p].b] = 1]
  /\ rw' = [rw EXCEPT ![p] = "wait"]
  /\ UNCHANGED <<NUM, disk, data, arg, used, used_idx, deviceVars, irq, intr>>

(* Too few descriptors: alloc3_desc() gives back what it took, and free_desc() wakes the other
   processes that wait for descriptors; then this one goes to sleep too. *)
nodesc(p) ==
  /\ rw[p] = "call" /\ ~intr
  /\ Cardinality(free) < 3
  /\ rw' = IF free = {} THEN [rw EXCEPT ![p] = "nodesc"] ELSE WakeFree(p, "nodesc")
  /\ UNCHANGED <<NUM, disk, data, arg, bdisk, head, free, ringVars, used_idx, deviceVars, irq, intr>>

(* Woken before the device is done: the loop sleeps again. *)
wait_again(p) ==
  /\ rw[p] = "woken" /\ ~intr
  /\ bdisk[arg[p].b] = 1
  /\ rw' = [rw EXCEPT ![p] = "wait"]
  /\ UNCHANGED <<NUM, disk, data, arg, bdisk, head, free, ringVars, used_idx, deviceVars, irq, intr>>

(* Fault: b->disk is not tested again after a wakeup. *)
Bug_complete_untested(p) ==
  /\ rw[p] = "woken" /\ ~intr
  /\ info' = [info EXCEPT ![head[p]] = None]
  /\ free' = free \cup Chain(head[p])
  /\ next' = [i \in Desc |-> IF i \in Chain(head[p]) THEN Last ELSE next[i]]
  /\ rw' = WakeFree(p, "idle")
  /\ arg' = [arg EXCEPT ![p] = NoRequest]
  /\ head' = [head EXCEPT ![p] = 0]
  /\ UNCHANGED <<NUM, disk, data, bdisk, ops, status, avail, used, used_idx, deviceVars, irq, intr>>

(* The end of virtio_disk_rw(): free_chain(), which wakes those who wait for descriptors.  The
   arguments and idx[] go out of scope. *)
complete(p) ==
  /\ rw[p] = "woken" /\ ~intr
  /\ bdisk[arg[p].b] = 0
  /\ Chain(head[p]) \cap free = {}
  /\ info' = [info EXCEPT ![head[p]] = None]
  /\ free' = free \cup Chain(head[p])
  /\ next' = [i \in Desc |-> IF i \in Chain(head[p]) THEN Last ELSE next[i]]
  /\ rw' = WakeFree(p, "idle")
  /\ arg' = [arg EXCEPT ![p] = NoRequest]
  /\ head' = [head EXCEPT ![p] = 0]
  /\ UNCHANGED <<NUM, disk, data, bdisk, ops, status, avail, used, used_idx, deviceVars, irq, intr>>

(* kill(p) makes a sleeping process runnable whatever it waits for (proc.c). *)
wake_rw(p) ==
  /\ rw[p] \in {"wait", "nodesc"}
  /\ rw' = [rw EXCEPT ![p] = IF rw[p] = "wait" THEN "woken" ELSE "call"]
  /\ UNCHANGED <<NUM, disk, data, arg, bdisk, head, free, ringVars, used_idx, deviceVars, irq, intr>>
-----------------------------------------------------------------------------
(* virtio_disk_intr() up to the loop: acknowledge the interrupt. *)
intr_ack ==
  /\ irq /\ ~intr
  /\ irq' = FALSE /\ intr' = TRUE
  /\ UNCHANGED <<NUM, disk, data, arg, bdisk, rw, head, free, ringVars, used_idx, deviceVars>>

(* Fault: one completion per interrupt. *)
Bug_intr_loop_once ==
  /\ intr /\ used_idx # used.idx
  /\ LET id == used.ring[used_idx % NUM] IN
     /\ status[id] = 0 /\ info[id] # None
     /\ bdisk' = [bdisk EXCEPT ![info[id]] = 0]
     /\ rw' = [q \in Proc |-> IF rw[q] = "wait" /\ arg[q].b = info[id] THEN "woken" ELSE rw[q]]
  /\ used_idx' = (used_idx + 1) % IDX
  /\ intr' = FALSE
  /\ UNCHANGED <<NUM, disk, data, arg, head, free, ringVars, deviceVars, irq>>

(* One completion: the buffer is no longer the device's, and wakeup(b). *)
intr_loop ==
  /\ intr /\ used_idx # used.idx
  /\ LET id == used.ring[used_idx % NUM] IN
     /\ status[id] = 0 /\ info[id] # None
     /\ bdisk' = [bdisk EXCEPT ![info[id]] = 0]
     /\ rw' = [q \in Proc |-> IF rw[q] = "wait" /\ arg[q].b = info[id] THEN "woken" ELSE rw[q]]
  /\ used_idx' = (used_idx + 1) % IDX
  /\ UNCHANGED <<NUM, disk, data, arg, head, free, ringVars, deviceVars, irq, intr>>

(* The loop finds no further completion and releases vdisk_lock. *)
intr_exit ==
  /\ intr /\ used_idx = used.idx
  /\ intr' = FALSE
  /\ UNCHANGED <<NUM, disk, data, arg, bdisk, rw, head, free, ringVars, used_idx, deviceVars, irq>>

virtio_disk_intr == intr_ack \/ intr_loop \/ intr_exit
-----------------------------------------------------------------------------
(* The device reads the next available entry ... *)
device_take ==
  /\ seen # avail.idx
  /\ inflight' = inflight \cup {avail.ring[seen % NUM]}
  /\ seen' = (seen + 1) % IDX
  /\ UNCHANGED <<NUM, disk, data, arg, bdisk, rw, head, free, ringVars, used_idx, irq, intr>>

(* ... and finishes requests in any order: transfer, status, used ring, interrupt. *)
device_done(id) ==
  /\ id \in inflight
  /\ LET r == ops[id] IN
     IF r.write = 1
     THEN disk' = [disk EXCEPT ![r.blockno] = data[r.b]] /\ data' = data
     ELSE data' = [data EXCEPT ![r.b] = disk[r.blockno]] /\ disk' = disk
  /\ status' = [status EXCEPT ![id] = 0]
  /\ used' = Push(used, id)
  /\ inflight' = inflight \ {id}
  /\ irq' = TRUE
  /\ UNCHANGED <<NUM, arg, bdisk, rw, head, free, next, ops, info, avail, used_idx, seen, intr>>

device == device_take \/ \E id \in Desc : device_done(id)
virtio_disk_rw(p) == submit(p) \/ nodesc(p) \/ wait_again(p) \/ complete(p)
-----------------------------------------------------------------------------
DiskTypeOK ==
  /\ NUM \in Sizes
  /\ disk \in [Block -> Val] /\ data \in [Buf -> Val]
  /\ bdisk \in [Buf -> {0, 1}]
  /\ rw \in [Proc -> {"idle", "call", "nodesc", "wait", "woken"}]
  /\ arg \in [Proc -> Request \cup {NoRequest}]
  /\ head \in [Proc -> Desc]
  /\ free \in SUBSET Desc /\ inflight \in SUBSET Desc
  /\ next \in [Desc -> Desc \cup {Last}]
  /\ ops \in [Desc -> Request \cup {NoRequest}]
  /\ info \in [Desc -> Buf \cup {None}]
  /\ status \in [Desc -> {0, 255}]
  /\ avail \in Ring /\ used \in Ring
  /\ used_idx \in 0..IDX - 1 /\ seen \in 0..IDX - 1
  /\ irq \in BOOLEAN /\ intr \in BOOLEAN

Waiting(p) == rw[p] \in {"wait", "woken"}

(* The entries of ring r from index i on. *)
Entries(r, i) == {r.ring[(i + k) % NUM] : k \in 0..((r.idx - i) % IDX) - 1}

(* Every request the device has not finished belongs to exactly one process that still waits in
   virtio_disk_rw() for that buffer, its descriptors are not free, and b->disk is set: the device
   never transfers to or from a buffer somebody else may use. *)
DmaOnlyWhileWaiting ==
  \A id \in Entries(avail, seen) \cup inflight :
    \E p \in Proc :
      /\ \A q \in Proc : Waiting(q) /\ head[q] = id <=> q = p
      /\ Chain(id) \cap free = {} /\ Cardinality(Chain(id)) = 3
      /\ ops[id] = arg[p] /\ info[id] = arg[p].b
      /\ bdisk[arg[p].b] = 1

(* A process sleeps for descriptors only while fewer than three are free, and on its buffer only
   until the completion is handled; and a completion the handler has not seen has its interrupt
   pending or the handler still in its loop. *)
DriverSleepersAreDue ==
  /\ \A p \in Proc : rw[p] = "nodesc" => Cardinality(free) < 3
  /\ \A p \in Proc : rw[p] = "wait" => bdisk[arg[p].b] = 1
  /\ used_idx # used.idx => irq \/ intr

(* virtio_disk_intr() finds status 0 and a buffer at each completion, and free_chain() never frees
   a free descriptor. *)
DriverNeverPanics ==
  /\ \A id \in Entries(used, used_idx) : status[id] = 0 /\ info[id] # None
  /\ \A p \in Proc : Waiting(p) => Chain(head[p]) \cap free = {}
=============================================================================
