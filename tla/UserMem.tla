------------------------------ MODULE UserMem -------------------------------
(***************************************************************************)
(* User memory: the page tables and frames behind fork, exec, exit, sbrk,  *)
(* mapzero, map_ro and the shared page, with pages filled in lazily by     *)
(* page faults (kernel/vm.c, kalloc.c, trap.c, sysproc.c, proc.c, exec.c,  *)
(* crear_memoria_compartida.c).                                            *)
(*                                                                         *)
(* Addresses count half pages (PG to a page), so that sizes need not be    *)
(* page aligned.  Frames are numbered and kalloc() takes the lowest, as no *)
(* property tells frames apart; page-table pages are not counted, and may  *)
(* be missing when no frame is free.  A panic() or a second kfree() of a   *)
(* frame stops the model: broken says which.                               *)
(***************************************************************************)
EXTENDS Integers, FiniteSets

CONSTANTS
  Proc,         \* slots for user processes
  NPAGE,        \* user pages below TRAPFRAME
  NFRAME,       \* frames of physical memory
  IMAGE,        \* pages of a program: text, stack guard, stack
  SbrkBy,       \* the arguments of sbrk()
  Floor, Top,   \* bounds: the sizes, in half pages, that a program shrinks and grows to
  RoPages,      \* the arguments of map_ro(), as page numbers
  Execs,        \* whether programs call exec(): 0 or 1
  MaxRegions,   \* bound: mapzero() calls of a process
  MaxMapRo,     \* bound: map_ro() calls of a process
  MaxShmForks   \* bound: forks of a process that called setshm(), its ancestors' included

PG == 2

ASSUME MemAssumption ==
  /\ NPAGE \in Nat /\ NFRAME \in Nat /\ IMAGE \in 3..NPAGE
  /\ SbrkBy \subseteq Int /\ Floor \in Nat /\ Top \in 0..(NPAGE * PG) /\ RoPages \subseteq 1..(NPAGE - 1) /\ Execs \in {0, 1}
  /\ MaxRegions \in Nat /\ MaxMapRo \in Nat /\ MaxShmForks \in Nat

VARIABLES
  st,           \* none, run, dying, in kfork() (forking, mapping or failing), or child of one
  child,        \* kfork()'s np
  pt, perm,     \* the page table: the frame of each page, 0 if none, and its access
  sz,           \* p->sz
  vr,           \* p->vr
  map_ro_va,    \* as a page number, 0 if none
  usar, shm_va, \* usar_memoria_compartida, and the shared page's page number
  shared_page,  \* its frame, 0 if none
  refcount,
  free,         \* kmem.freelist
  val,          \* what a frame holds: 0, A, ro (map_ro's text), x (a program's data) or junk
  used,         \* how often each bounded call was made
  broken

shmVars == <<shared_page, refcount>>
vars == <<st, child, pt, perm, sz, vr, map_ro_va, usar, shm_va, shared_page, refcount, free, val,
          used, broken>>

Page == 0..(NPAGE - 1)
Frame == 1..NFRAME
Address == 0..(NPAGE * PG - 1)
Up(n) == (n + PG - 1) \div PG        \* PGROUNDUP, in pages
NoPages == [v \in Page |-> 0]
NoPerms == [v \in Page |-> "rw"]
NoRegion == [start |-> 0, size |-> 0, active |-> 0]
NoCalls == [region |-> 0, map_ro |-> 0, shmfork |-> 0]

Init ==
  /\ st = [p \in Proc |-> "none"]
  /\ child = [p \in Proc |-> p]
  /\ pt = [p \in Proc |-> NoPages]
  /\ perm = [p \in Proc |-> NoPerms]
  /\ sz = [p \in Proc |-> 0]
  /\ vr = [p \in Proc |-> NoRegion]
  /\ map_ro_va = [p \in Proc |-> 0]
  /\ usar = [p \in Proc |-> 0]
  /\ shm_va = [p \in Proc |-> 0]
  /\ shared_page = 0
  /\ refcount = 0
  /\ free = Frame
  /\ val = [f \in Frame |-> "junk"]
  /\ used = [p \in Proc |-> NoCalls]
  /\ broken = ""

Running(p) == broken = "" /\ st[p] = "run"
Mapped(p) == {v \in Page : pt[p][v] # 0}
Below(p) == {v \in Page : v < Up(sz[p])}

(* kalloc() takes the first of the free frames; n of them for n pages, in order. *)
Rank(S, x) == Cardinality({y \in S : y <= x})
Nth(S, n) == CHOOSE x \in S : Rank(S, x) = n
kalloc == Nth(free, 1)
Fill(S) == [v \in Page |-> IF v \in S THEN Nth(free, Rank(S, v)) ELSE 0]
Taken(table) == {table[v] : v \in Page} \ {0}

(* kfree() of the frames of p's pages S would free one of them twice. *)
DoubleFree(p, S) ==
  \/ \E v \in S : pt[p][v] \in free
  \/ \E v, w \in S : v # w /\ pt[p][v] = pt[p][w]
FramesOf(p, S) == {pt[p][v] : v \in S}

(* kfree() fills a frame with junk. *)
Junk(contents, F) == [f \in Frame |-> IF f \in F THEN "junk" ELSE contents[f]]
-----------------------------------------------------------------------------
(* kexec(): a new page table, with the guard page below the stack out of   *)
(* user reach; the old one is freed up to the old size.  The fields of     *)
(* struct proc other than pagetable and sz keep their values.              *)
ImagePages == 0..(IMAGE - 1)
ImagePerms ==
  [v \in Page |-> IF v < IMAGE - 2 THEN "ro" ELSE IF v = IMAGE - 2 THEN "kernel" ELSE "rw"]

Load(p) ==
  LET table == Fill(ImagePages) IN
  /\ pt' = [pt EXCEPT ![p] = table]
  /\ perm' = [perm EXCEPT ![p] = ImagePerms]
  /\ sz' = [sz EXCEPT ![p] = IMAGE * PG]

Loaded == [f \in Frame |-> IF f \in Taken(Fill(ImagePages)) THEN "0" ELSE val[f]]

(* The shell starts a program: a process that shares nothing with the others. *)
spawn(p) ==
  /\ broken = "" /\ st[p] = "none" /\ Cardinality(free) >= IMAGE
  /\ Load(p)
  /\ val' = Loaded
  /\ free' = free \ Taken(Fill(ImagePages))
  /\ st' = [st EXCEPT ![p] = "run"]
  /\ UNCHANGED <<child, vr, map_ro_va, usar, shm_va, shmVars, used, broken>>

kexec(p) ==
  LET old == Mapped(p) \cap Below(p) IN
  /\ Running(p) /\ Execs = 1 /\ Cardinality(free) >= IMAGE
  /\ IF Mapped(p) \subseteq Below(p) /\ ~DoubleFree(p, old)
     THEN /\ Load(p)
          /\ val' = Junk(Loaded, FramesOf(p, old))
          /\ free' = (free \ Taken(Fill(ImagePages))) \cup FramesOf(p, old)
          /\ UNCHANGED broken
     ELSE /\ broken' = IF DoubleFree(p, old) THEN "double free" ELSE "freewalk: leaf"
          /\ UNCHANGED <<pt, perm, sz, val, free>>
  /\ UNCHANGED <<st, child, vr, map_ro_va, usar, shm_va, shmVars, used>>
-----------------------------------------------------------------------------
(* mappages() of one page, with a frame that kalloc() gave. *)
Map(p, v, access, contents) ==
  /\ pt' = [pt EXCEPT ![p][v] = kalloc]
  /\ perm' = [perm EXCEPT ![p][v] = access]
  /\ val' = [val EXCEPT ![kalloc] = contents]
  /\ free' = free \ {kalloc}

(* vmfault(): a zeroed page for a lazily allocated address; fails without memory. *)
CanFault(p, a) == a < sz[p] /\ pt[p][a \div PG] = 0 /\ free # {}
RoundDown(a) == (a \div PG) * PG

InRegion(p, a) ==
  vr[p].active = 1 /\ vr[p].start <= a /\ a < vr[p].start + vr[p].size

(* A store by the program to a page it may write. *)
store(p, a) ==
  LET v == a \div PG IN
  /\ Running(p) /\ v \in Mapped(p) /\ perm[p][v] = "rw"
  /\ val' = [val EXCEPT ![pt[p][v]] = "x"]
  /\ UNCHANGED <<st, child, pt, perm, sz, vr, map_ro_va, usar, shm_va, shmVars, free, used, broken>>

(* usertrap() for a load or store that faults: the page is missing, or not *)
(* open to this access.  Without a frame, or outside its memory, the       *)
(* process is killed.                                                      *)
pagefault(p, a, write) ==
  LET v == a \div PG IN
  /\ Running(p)
  /\ v \notin Mapped(p) \/ perm[p][v] = "kernel" \/ (write /\ perm[p][v] = "ro")
  /\ IF InRegion(p, a)
     THEN IF free = {} THEN /\ st' = [st EXCEPT ![p] = "dying"]
                            /\ UNCHANGED <<pt, perm, val, free, broken>>
          ELSE IF v \in Mapped(p) THEN /\ broken' = "mappages: remap"
                                       /\ UNCHANGED <<pt, perm, val, free, st>>
          ELSE Map(p, v, "rw", "A") /\ UNCHANGED <<st, broken>>
     ELSE IF a # 0 /\ CanFault(p, a)
          THEN Map(p, v, "rw", "0") /\ UNCHANGED <<st, broken>>
          ELSE /\ st' = [st EXCEPT ![p] = "dying"]
               /\ UNCHANGED <<pt, perm, val, free, broken>>
  /\ UNCHANGED <<child, sz, vr, map_ro_va, usar, shm_va, shmVars, used>>

(* copyin() and copyout() on a missing page call vmfault() themselves and  *)
(* otherwise fail; then copyout() writes.                                  *)
(* Fault: the page is not zeroed. *)
Bug_copyin_no_memset(p, a) ==
  /\ Running(p) /\ CanFault(p, RoundDown(a))
  /\ Map(p, a \div PG, "rw", val[kalloc])
  /\ UNCHANGED <<st, child, sz, vr, map_ro_va, usar, shm_va, shmVars, used, broken>>

copyin(p, a) ==
  /\ Running(p) /\ CanFault(p, RoundDown(a))
  /\ Map(p, a \div PG, "rw", "0")
  /\ UNCHANGED <<st, child, sz, vr, map_ro_va, usar, shm_va, shmVars, used, broken>>

copyout(p, a) ==
  LET v == a \div PG IN
  /\ Running(p)
  /\ IF CanFault(p, RoundDown(a))
     THEN Map(p, v, "rw", "x")
     ELSE /\ v \in Mapped(p) /\ perm[p][v] = "rw"
          /\ val' = [val EXCEPT ![pt[p][v]] = "x"]
          /\ UNCHANGED <<pt, perm, free>>
  /\ UNCHANGED <<st, child, sz, vr, map_ro_va, usar, shm_va, shmVars, used, broken>>
-----------------------------------------------------------------------------
(* sbrk(n) with n > 0 only moves p->sz, up to TRAPFRAME (here Top); pages  *)
(* come with page faults.                                                  *)
sbrk_grow(p, n) ==
  /\ Running(p) /\ n > 0 /\ sz[p] + n <= Top
  /\ sz' = [sz EXCEPT ![p] = @ + n]
  /\ UNCHANGED <<st, child, pt, perm, vr, map_ro_va, usar, shm_va, shmVars, free, val, used, broken>>

(* growproc(n) with n < 0: uvmdealloc() frees whole pages; an n beyond the *)
(* size wraps around and changes nothing.                                  *)
(* Fault: only p->sz changes. *)
Bug_sbrk_shrink_frees_nothing(p, n) ==
  /\ Running(p) /\ n < 0 /\ sz[p] + n >= Floor
  /\ sz' = [sz EXCEPT ![p] = @ + n]
  /\ UNCHANGED <<st, child, pt, perm, vr, map_ro_va, usar, shm_va, shmVars, free, val, used, broken>>

sbrk_shrink(p, n) ==
  LET gone == {v \in Mapped(p) \cap Below(p) : v >= Up(sz[p] + n)} IN
  /\ Running(p) /\ n < 0 /\ sz[p] + n >= Floor
  /\ IF DoubleFree(p, gone)
     THEN broken' = "double free" /\ UNCHANGED <<pt, perm, free, sz, val>>
     ELSE /\ pt' = [pt EXCEPT ![p] = [v \in Page |-> IF v \in gone THEN 0 ELSE pt[p][v]]]
          /\ perm' = [perm EXCEPT ![p] = [v \in Page |-> IF v \in gone THEN "rw" ELSE perm[p][v]]]
          /\ free' = free \cup FramesOf(p, gone)
          /\ val' = Junk(val, FramesOf(p, gone))
          /\ sz' = [sz EXCEPT ![p] = @ + n]
          /\ UNCHANGED broken
  /\ UNCHANGED <<st, child, vr, map_ro_va, usar, shm_va, shmVars, used>>

(* mapzero(n): the region starts at p->sz, aligned or not, and replaces an *)
(* earlier one.  Top is a bound here: the code does not check TRAPFRAME.   *)
mapzero(p, n) ==
  LET aligned == Up(n) * PG IN
  /\ Running(p) /\ used[p].region < MaxRegions
  /\ sz[p] + aligned <= Top
  /\ vr' = [vr EXCEPT ![p] = [start |-> sz[p], size |-> aligned, active |-> 1]]
  /\ sz' = [sz EXCEPT ![p] = @ + aligned]
  /\ used' = [used EXCEPT ![p].region = @ + 1]
  /\ UNCHANGED <<st, child, pt, perm, map_ro_va, usar, shm_va, shmVars, free, val, broken>>

(* map_ro(va): a read-only page at any free page number, remembered for freeproc(). *)
(* Fault: the address is not remembered. *)
Bug_map_ro_forgets(p, v) ==
  /\ Running(p) /\ used[p].map_ro < MaxMapRo
  /\ v \notin Mapped(p) /\ free # {}
  /\ Map(p, v, "ro", "ro")
  /\ used' = [used EXCEPT ![p].map_ro = @ + 1]
  /\ UNCHANGED <<st, child, sz, vr, map_ro_va, usar, shm_va, shmVars, broken>>

map_ro(p, v) ==
  /\ Running(p) /\ used[p].map_ro < MaxMapRo
  /\ v \notin Mapped(p) /\ free # {}
  /\ Map(p, v, "ro", "ro")
  /\ map_ro_va' = [map_ro_va EXCEPT ![p] = v]
  /\ used' = [used EXCEPT ![p].map_ro = @ + 1]
  /\ UNCHANGED <<st, child, sz, vr, usar, shm_va, shmVars, broken>>

setshm(p) ==
  /\ Running(p) /\ MaxShmForks > 0
  /\ usar' = [usar EXCEPT ![p] = 1]
  /\ UNCHANGED <<st, child, pt, perm, sz, vr, map_ro_va, shm_va, shmVars, free, val, used, broken>>
-----------------------------------------------------------------------------
(* kfork() up to the copy: uvmcopy() gives the child frames of its own for *)
(* all pages below p->sz.                                                  *)
kfork(p, np) ==
  LET copied == Mapped(p) \cap Below(p)
      table == Fill(copied) IN
  /\ Running(p) /\ st[np] = "none"
  /\ usar[p] = 1 => used[p].shmfork < MaxShmForks /\ Up(sz[p]) * PG < Top
  /\ Cardinality(copied) <= Cardinality(free)
  /\ pt' = [pt EXCEPT ![np] = table]
  /\ perm' = [perm EXCEPT ![np] = [v \in Page |-> IF v \in copied THEN perm[p][v] ELSE "rw"]]
  /\ val' = [f \in Frame |->
               IF f \in Taken(table) THEN val[pt[p][CHOOSE v \in copied : table[v] = f]] ELSE val[f]]
  /\ free' = free \ Taken(table)
  /\ sz' = [sz EXCEPT ![np] = sz[p]]
  /\ child' = [child EXCEPT ![p] = np]
  /\ IF usar[p] = 1
     THEN /\ st' = [st EXCEPT ![p] = "forking", ![np] = "child"]
          /\ used' = [used EXCEPT ![p].shmfork = @ + 1, ![np].shmfork = used[p].shmfork + 1]
     ELSE st' = [st EXCEPT ![np] = "run"] /\ UNCHANGED used
  /\ UNCHANGED <<vr, map_ro_va, usar, shm_va, shmVars, broken>>

(* uvmcopy() runs out of frames: the pages before the one that failed are  *)
(* in the child's table, whose size is still 0 ...                         *)
uvmcopy_short(p, np) ==
  LET copied == Mapped(p) \cap Below(p)
      table == Fill({v \in copied : Rank(copied, v) <= Cardinality(free)}) IN
  /\ Running(p) /\ st[np] = "none"
  /\ free # {} /\ Cardinality(copied) > Cardinality(free)
  /\ pt' = [pt EXCEPT ![np] = table]
  /\ perm' = [perm EXCEPT ![np] = [v \in Page |-> IF table[v] # 0 THEN perm[p][v] ELSE "rw"]]
  /\ val' = [f \in Frame |->
               IF f \in free THEN val[pt[p][CHOOSE v \in copied : table[v] = f]] ELSE val[f]]
  /\ free' = {}
  /\ child' = [child EXCEPT ![p] = np]
  /\ st' = [st EXCEPT ![p] = "failing", ![np] = "child"]
  /\ UNCHANGED <<sz, vr, map_ro_va, usar, shm_va, shmVars, used, broken>>

(* Fault: the last page copied is left to freeproc(), which sees a size of 0. *)
Bug_uvmcopy_undo_short(p) ==
  LET np == child[p]
      gone == {v \in Mapped(np) : \E w \in Mapped(np) : v < w} IN
  /\ broken = "" /\ st[p] = "failing"
  /\ free' = free \cup FramesOf(np, gone)
  /\ val' = Junk(val, FramesOf(np, gone))
  /\ pt' = [pt EXCEPT ![np] = NoPages]
  /\ perm' = [perm EXCEPT ![np] = NoPerms]
  /\ st' = [st EXCEPT ![p] = "run", ![np] = "none"]
  /\ UNCHANGED <<child, sz, vr, map_ro_va, usar, shm_va, shmVars, used, broken>>

(* ... and are freed before kfork() frees the slot and returns -1. *)
uvmcopy_undo(p) ==
  LET np == child[p]
      gone == Mapped(np) IN
  /\ broken = "" /\ st[p] = "failing"
  /\ free' = free \cup FramesOf(np, gone)
  /\ val' = Junk(val, FramesOf(np, gone))
  /\ pt' = [pt EXCEPT ![np] = NoPages]
  /\ perm' = [perm EXCEPT ![np] = NoPerms]
  /\ st' = [st EXCEPT ![p] = "run", ![np] = "none"]
  /\ UNCHANGED <<child, sz, vr, map_ro_va, usar, shm_va, shmVars, used, broken>>

(* kfork() makes the child runnable, whatever crear_memoria_compartida() returned. *)
ForkDone(p) ==
  /\ st' = [st EXCEPT ![p] = "run", ![child[p]] = "run"]
  /\ usar' = [usar EXCEPT ![p] = 1, ![child[p]] = 1]

(* crear_memoria_compartida() under shm_lock: the page exists from now on, *)
(* and a reference more is counted.                                        *)
crear_ref(p) ==
  /\ broken = "" /\ st[p] = "forking"
  /\ IF shared_page # 0
     THEN /\ refcount' = refcount + 1
          /\ st' = [st EXCEPT ![p] = "mapping"]
          /\ UNCHANGED <<shared_page, free, val, usar>>
     ELSE IF free # {}
     THEN /\ shared_page' = kalloc
          /\ free' = free \ {kalloc}
          /\ val' = [val EXCEPT ![kalloc] = "0"]
          /\ refcount' = 2
          /\ st' = [st EXCEPT ![p] = "mapping"]
          /\ UNCHANGED usar
     ELSE ForkDone(p) /\ UNCHANGED <<shared_page, free, val, refcount>>
  /\ UNCHANGED <<child, pt, perm, sz, vr, map_ro_va, shm_va, used, broken>>

(* The rest, without the lock: the page is mapped above both processes'    *)
(* memory, in the parent and then in the child.  Of the two calls of       *)
(* mappages() done succeed, both if there are frames for page-table pages. *)
crear_map(p) ==
  LET v == Up(sz[p])
      np == child[p] IN
  /\ broken = "" /\ st[p] = "mapping"
  /\ IF pt[p][v] # 0
     THEN broken' = "mappages: remap" /\ UNCHANGED <<pt, perm, sz, shm_va, st, usar>>
     ELSE \E done \in (IF free = {} THEN 0..2 ELSE {2}) :
            LET mapping == {q \in {p, np} : done = 2 \/ (done = 1 /\ q = p)}
                both == IF done = 2 THEN {p, np} ELSE {} IN
            /\ pt' = [q \in Proc |-> IF q \in mapping THEN [pt[q] EXCEPT ![v] = shared_page] ELSE pt[q]]
            /\ perm' = [q \in Proc |-> IF q \in mapping THEN [perm[q] EXCEPT ![v] = "rw"] ELSE perm[q]]
            /\ sz' = [q \in Proc |-> IF q \in both THEN (v + 1) * PG ELSE sz[q]]
            /\ shm_va' = [q \in Proc |-> IF q \in both THEN v ELSE shm_va[q]]
            /\ ForkDone(p)
            /\ UNCHANGED broken
  /\ UNCHANGED <<child, vr, map_ro_va, shmVars, free, val, used>>
-----------------------------------------------------------------------------
(* The pages freeproc() visits for the mapzero region. *)
RegionPages(p) ==
  IF vr[p].active = 1
  THEN {(vr[p].start + k * PG) \div PG : k \in 0..((vr[p].size \div PG) - 1)}
  ELSE {}

(* The page freeproc() unmaps as shared, whether it is the last reference,  *)
(* and the count that is left.                                             *)
ShmPages(p) == IF usar[p] = 1 /\ shm_va[p] # 0 THEN {shm_va[p]} ELSE {}
(* Fault: the page is freed one reference too early. *)
Bug_LastSharer_early(p) == ShmPages(p) # {} /\ refcount = 2
LastSharer(p) == ShmPages(p) # {} /\ refcount = 1
RefcountLeft(p) == IF ShmPages(p) # {} THEN refcount - 1 ELSE refcount

(* kexit(), and freeproc() by the parent's wait(): the shared page is      *)
(* given up, then the map_ro page, the region and everything below p->sz   *)
(* are freed; a page left over makes freewalk() panic.                     *)
freeproc(p) ==
  LET shm == ShmPages(p)
      ro == IF map_ro_va[p] # 0 THEN {map_ro_va[p]} ELSE {}
      last == LastSharer(p)
      S == (Mapped(p) \cap (ro \cup RegionPages(p) \cup Below(p))) \ shm
      gone == FramesOf(p, S) \cup (IF last THEN {shared_page} ELSE {})
      unaligned == /\ vr[p].start % PG # 0
                   /\ (RegionPages(p) \cap Mapped(p)) \ (shm \cup ro) # {} IN
  /\ broken = "" /\ st[p] \in {"run", "dying"}
  /\ IF unaligned \/ DoubleFree(p, S) \/ (last /\ shared_page \in FramesOf(p, S))
          \/ ~(Mapped(p) \subseteq S \cup shm)
     THEN /\ broken' = IF unaligned THEN "uvmunmap: not aligned"
                       ELSE IF Mapped(p) \subseteq S \cup shm THEN "double free"
                       ELSE "freewalk: leaf"
          /\ UNCHANGED <<st, pt, perm, sz, vr, map_ro_va, usar, shm_va, shmVars, free, val, used>>
     ELSE /\ free' = free \cup gone
          /\ val' = Junk(val, gone)
          /\ refcount' = RefcountLeft(p)
          /\ shared_page' = IF last THEN 0 ELSE shared_page
          /\ st' = [st EXCEPT ![p] = "none"]
          /\ pt' = [pt EXCEPT ![p] = NoPages]
          /\ perm' = [perm EXCEPT ![p] = NoPerms]
          /\ sz' = [sz EXCEPT ![p] = 0]
          /\ vr' = [vr EXCEPT ![p] = NoRegion]
          /\ map_ro_va' = [map_ro_va EXCEPT ![p] = 0]
          /\ usar' = [usar EXCEPT ![p] = 0]
          /\ shm_va' = [shm_va EXCEPT ![p] = 0]
          /\ used' = [used EXCEPT ![p] = NoCalls]
          /\ UNCHANGED broken
  /\ UNCHANGED child
-----------------------------------------------------------------------------
Next ==
  \E p \in Proc :
    \/ spawn(p) \/ kexec(p) \/ freeproc(p)
    \/ \E a \in Address : store(p, a) \/ copyin(p, a) \/ copyout(p, a)
    \/ \E a \in Address, write \in BOOLEAN : pagefault(p, a, write)
    \/ \E n \in SbrkBy : sbrk_grow(p, n) \/ sbrk_shrink(p, n)
    \/ \E n \in 1..(NPAGE * PG) : mapzero(p, n)
    \/ \E v \in RoPages : map_ro(p, v)
    \/ setshm(p)
    \/ \E np \in Proc \ {p} : kfork(p, np) \/ uvmcopy_short(p, np)
    \/ uvmcopy_undo(p)
    \/ crear_ref(p) \/ crear_map(p)

Spec == Init /\ [][Next]_vars
-----------------------------------------------------------------------------
(* Every variable stays in its range: in particular sbrk() keeps p->sz     *)
(* below TRAPFRAME (mapzero() and fork() only by the bound Top), and page  *)
(* table entries point at frames.                                          *)
TypeOK ==
  /\ st \in [Proc -> {"none", "run", "forking", "mapping", "failing", "child", "dying"}]
  /\ child \in [Proc -> Proc]
  /\ pt \in [Proc -> [Page -> Frame \cup {0}]]
  /\ perm \in [Proc -> [Page -> {"rw", "ro", "kernel"}]]
  /\ sz \in [Proc -> 0..(NPAGE * PG)]
  /\ vr \in [Proc -> [start : 0..(NPAGE * PG), size : 0..(NPAGE * PG), active : {0, 1}]]
  /\ map_ro_va \in [Proc -> Page] /\ shm_va \in [Proc -> Page] /\ usar \in [Proc -> {0, 1}]
  /\ shared_page \in Frame \cup {0} /\ refcount \in Int
  /\ free \subseteq Frame /\ val \in [Frame -> {"0", "A", "ro", "x", "junk"}]

(* The kernel reaches none of its panics about page tables and frees no    *)
(* frame twice, whatever order faults, sbrk, fork, exec and exit come in.  *)
NoPanic == broken = ""

(* Isolation: no mapped frame is on the free list, and a frame is mapped   *)
(* twice only if it is the shared page, once by each process.              *)
FramesAreOwned ==
  \A p, q \in Proc : \A v \in Mapped(p), w \in Mapped(q) :
    /\ pt[p][v] \notin free
    /\ pt[p][v] = pt[q][w] => <<p, v>> = <<q, w>> \/ (pt[p][v] = shared_page /\ p # q)

(* The page a process got from setshm() and fork() lives as long as the    *)
(* process maps it: refcount keeps it from being freed.                    *)
SharedPageLives ==
  \A p \in Proc : usar[p] = 1 /\ shm_va[p] \in Mapped(p) => pt[p][shm_va[p]] \notin free

(* No frame is lost: each is free, mapped or the shared page. *)
NoLeak ==
  broken = "" =>
    Frame = free \cup UNION {FramesOf(p, Mapped(p)) : p \in Proc} \cup ({shared_page} \ {0})


(* Lazily allocated memory is memory: page faults, shared zero pages and   *)
(* frames handed from one process to the next are invisible to programs.   *)
FM == INSTANCE FlatMemory WITH
        alive <- {p \in Proc : st[p] \notin {"none", "child"}},
        size <- sz,
        mem <- [p \in Proc |-> [v \in Page |-> IF st[p] = "child" \/ pt[p][v] = 0
                                               THEN "0" ELSE val[pt[p][v]]]]

ImplementsFlatMemory == FM!FlatSpec
=============================================================================
