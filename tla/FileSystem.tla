----------------------------- MODULE FileSystem -----------------------------
(***************************************************************************)
(* The system calls on files and directories (kernel/sysfile.c, the inode  *)
(* cases of kernel/file.c) over the inodes of Inodes, with several         *)
(* processes, crashes and the reclaiming of orphans at boot.  An action    *)
(* runs from one acquisition of an inode lock to the next one, or to the   *)
(* next iput(), which is three actions of its own.  The log is taken at    *)
(* its specification (AtomicDisk): what the transactions wrote becomes     *)
(* durable, all at once, when the last one ends.                           *)
(***************************************************************************)
EXTENDS Inodes

CONSTANTS
  Proc,        \* processes
  Workloads,   \* which calls each process may make: the alternatives
  Image        \* the disk that mkfs made

VARIABLES
  fs,           \* the file system as the buffer cache and itable have it
  durable,      \* what a crash leaves of it
  outstanding,  \* log.outstanding: transactions in progress
  pr,           \* what each process is doing
  puts,         \* inodes that a process has still to iput(), in order
  cwd,          \* p->cwd
  ofile,        \* the file a process has open
  boot,         \* ireclaim()'s inode number; past NINODES when the system is up
  lost,         \* history: inodes whose last iput() had begun when they were free
  work          \* the workload, which does not change

vars == <<fs, durable, outstanding, pr, puts, cwd, ofile, boot, lost, work>>

Disk(s) == [bitmap |-> s.bitmap, dinode |-> s.dinode, data |-> s.data]
Mounted(d) == [bitmap |-> d.bitmap, dinode |-> d.dinode, data |-> d.data,
               icache |-> [i \in Inum |-> NoEntry], panic |-> FALSE]

(* A call as data; path and new are sequences of names, from the root if abs. *)
Call(op, path) == [op |-> op, path |-> path, new |-> <<>>, abs |-> TRUE, type |-> 0, mode |-> "r", n |-> 0, ok |-> 0]
NoCall == Call("none", <<>>)

(* Where a process is: the step at, namex()'s remaining path with the steps to go on with, whether
   it wants the parent, its inode, a second inode it keeps meanwhile, and the step of iput(). *)
Idle == [call |-> NoCall, at |-> "idle", path |-> <<>>, then |-> "", else |-> "", parent |-> FALSE,
         ip |-> 0, dp |-> 0, put |-> "check"]
NoFile == [ip |-> 0, off |-> 0, type |-> 0]

Init ==
  /\ durable = Image
  /\ fs = Mounted(Image)
  /\ outstanding = 0
  /\ pr = [p \in Proc |-> Idle]
  /\ puts = [p \in Proc |-> <<>>]
  /\ cwd = [p \in Proc |-> 0]
  /\ ofile = [p \in Proc |-> NoFile]
  /\ boot = 1
  /\ lost = {}
  /\ work \in Workloads

orphan(d) == d.type # 0 /\ d.nlink = 0

Up == boot > NINODES /\ ~fs.panic
At(p, step) == Up /\ pr[p].at = step /\ puts[p] = <<>>

(* The step ends with the file system s, goes on at the step next and leaves inodes to iput(). *)
Goto(p, s, next, ip, dp, drop) ==
  /\ fs' = s
  /\ pr' = [pr EXCEPT ![p] = [IF next = "end" THEN Idle ELSE @ EXCEPT !.at = next, !.ip = ip, !.dp = dp]]
  /\ puts' = [puts EXCEPT ![p] = drop]
Rest == UNCHANGED <<durable, outstanding, cwd, ofile, boot, lost>>
-----------------------------------------------------------------------------
(* begin_op() and the start of namex(): iget() of the root, or idup() of the current directory. *)
From(c, p) == IF c.abs THEN ROOTINO ELSE cwd[p]
Walks(c) == c.op \in {"open", "create", "unlink", "link", "chdir"}
syscall(p, c) ==
  /\ At(p, "idle") /\ Walks(c)
  /\ outstanding' = outstanding + 1
  /\ fs' = IF c.abs THEN iget(fs, ROOTINO) ELSE idup(fs, cwd[p])
  /\ pr' = [pr EXCEPT ![p] = [Idle EXCEPT !.call = c, !.at = "namex", !.path = c.path, !.then = c.op,
                               !.else = "end", !.parent = c.op \in {"create", "unlink"}, !.ip = From(c, p)]]
  /\ UNCHANGED <<durable, puts, cwd, ofile, boot, lost>>

(* One element of the path, under the lock of its directory. *)
namex(p) ==
  LET r == pr[p]
      s == ilock(fs, r.ip, p)
      off == dirlookup(s, r.ip, Head(r.path))
      next == EntryAt(s, r.ip, off)
      stop == r.parent /\ Len(r.path) = 1
  IN
  /\ At(p, "namex") /\ r.path # <<>>
  /\ Unlocked(fs, r.ip)
  /\ \/ /\ Ino(s, r.ip).type # T_DIR \/ (~stop /\ off = -1)
        /\ Goto(p, iunlock(s, r.ip), r.else, 0, r.dp, <<r.ip>>)
     \/ /\ Ino(s, r.ip).type = T_DIR /\ stop
        /\ Goto(p, iunlock(s, r.ip), r.then, r.ip, r.dp, <<>>)
     \/ /\ Ino(s, r.ip).type = T_DIR /\ ~stop /\ off # -1
        /\ fs' = iunlock(iget(s, next), r.ip)
        /\ pr' = [pr EXCEPT ![p] = [@ EXCEPT !.path = Tail(@), !.ip = next,
                     !.at = IF Len(r.path) = 1 THEN r.then ELSE @]]
        /\ puts' = [puts EXCEPT ![p] = <<r.ip>>]
  /\ Rest

(* The path has no elements: it names the directory itself, and no parent. *)
namex_end(p) ==
  /\ At(p, "namex") /\ pr[p].path = <<>>
  /\ IF pr[p].parent THEN Goto(p, fs, pr[p].else, 0, pr[p].dp, <<pr[p].ip>>)
     ELSE Goto(p, fs, pr[p].then, pr[p].ip, pr[p].dp, <<>>)
  /\ Rest

(* end_op(): the last transaction commits them all. *)
end_op(p) ==
  /\ At(p, "end")
  /\ outstanding' = outstanding - 1
  /\ durable' = IF outstanding = 1 THEN Disk(fs) ELSE durable
  /\ pr' = [pr EXCEPT ![p] = Idle]
  /\ UNCHANGED <<fs, puts, cwd, ofile, boot, lost>>
-----------------------------------------------------------------------------

(* iput(), first part: the last reference to an inode without links frees its contents and the
   inode, under ip->lock, which nobody can hold. *)
iput_free(p) ==
  LET i == Head(puts[p])
      e == fs.icache[i]
      t == itrunc([fs EXCEPT !.icache[i].lock = p], i)
  IN
  /\ Up /\ puts[p] # <<>> /\ pr[p].put = "check"
  /\ e.ref = 1 /\ e.valid = 1 /\ e.ino.nlink = 0
  /\ fs' = IF Unlocked(fs, i) THEN iupdate([t EXCEPT !.icache[i].ino.type = 0], i) ELSE Dirty(fs)
  /\ pr' = [pr EXCEPT ![p].put = "freed"]
  /\ UNCHANGED puts /\ Rest

(* Fault: the table entry stays valid. *)
Bug_iput_invalidate_not(p) ==
  LET i == Head(puts[p]) IN
  /\ Up /\ puts[p] # <<>> /\ pr[p].put = "freed"
  /\ fs' = iunlock(fs, i)
  /\ pr' = [pr EXCEPT ![p].put = "drop"]
  /\ UNCHANGED puts /\ Rest

iput_invalidate(p) ==
  LET i == Head(puts[p]) IN
  /\ Up /\ puts[p] # <<>> /\ pr[p].put = "freed"
  /\ fs' = iunlock([fs EXCEPT !.icache[i].valid = 0], i)
  /\ pr' = [pr EXCEPT ![p].put = "drop"]
  /\ UNCHANGED puts /\ Rest

iput_drop(p) ==
  LET i == Head(puts[p])
      e == fs.icache[i]
  IN
  /\ Up /\ puts[p] # <<>>
  /\ pr[p].put = "drop" \/ (pr[p].put = "check" /\ ~(e.ref = 1 /\ e.valid = 1 /\ e.ino.nlink = 0))
  /\ fs' = [fs EXCEPT !.icache[i] = IF @.ref = 1 THEN [NoEntry EXCEPT !.lock = e.lock]
                                          ELSE [@ EXCEPT !.ref = @ - 1]]
  /\ pr' = [pr EXCEPT ![p].put = "check"]
  /\ puts' = [puts EXCEPT ![p] = Tail(@)]
  /\ lost' = IF e.ref = 1 /\ orphan(fs.dinode[i]) THEN lost \cup {i} ELSE lost
  /\ UNCHANGED <<durable, outstanding, cwd, ofile, boot>>
-----------------------------------------------------------------------------
(* sys_open() of an existing path, up to the descriptor. *)
sys_open(p) ==
  LET r == pr[p]
      s == ilock(fs, r.ip, p)
  IN
  /\ At(p, "open") /\ Unlocked(fs, r.ip)
  /\ IF Ino(s, r.ip).type = T_DIR /\ r.call.mode # "r"
     THEN Goto(p, iunlock(s, r.ip), "end", 0, 0, <<r.ip>>)
     ELSE Goto(p, s, "fdalloc", r.ip, 0, <<>>)
  /\ Rest

(* The rest of sys_open(), with the inode locked: filealloc(), fdalloc() and O_TRUNC. *)
sys_open_fd(p) ==
  LET i == pr[p].ip
      t == Ino(fs, i).type
  IN
  /\ At(p, "fdalloc")
  /\ IF ofile[p] # NoFile
     THEN Goto(p, iunlock(fs, i), "end", 0, 0, <<i>>) /\ UNCHANGED ofile
     ELSE /\ Goto(p, iunlock(IF pr[p].call.mode = "t" /\ t = T_FILE THEN itrunc(fs, i) ELSE fs, i),
                  "end", 0, 0, <<>>)
          /\ ofile' = [ofile EXCEPT ![p] = [ip |-> i, off |-> 0, type |-> t]]
  /\ UNCHANGED <<durable, outstanding, cwd, boot, lost>>

(* create() under the parent's lock: the name exists, or ialloc() finds an inode, or does not. *)
DirLock(s, i, p) == LET t == ilock(s, i, p) IN IF Ino(t, i).type # T_DIR THEN Dirty(t) ELSE t
Name(p) == Head(pr[p].path)
create(p) ==
  LET r == pr[p]
      s == DirLock(fs, r.ip, p)
      off == dirlookup(s, r.ip, Name(p))
      i == EntryAt(s, r.ip, off)
  IN
  /\ At(p, "create") /\ Unlocked(fs, r.ip)
  /\ \/ /\ off # -1
        /\ Goto(p, iunlock(iget(s, i), r.ip), "exists", i, 0, <<r.ip>>)
     \/ /\ off = -1 /\ FreeInodes(s) = {}
        /\ Goto(p, iunlock(s, r.ip), "end", 0, 0, <<r.ip>>)
     \/ /\ off = -1 /\ FreeInodes(s) # {}
        /\ Goto(p, ialloc(s, r.call.type), "create2", Min(FreeInodes(s)), r.ip, <<>>)
  /\ Rest

create_exists(p) ==
  LET r == pr[p]
      s == ilock(fs, r.ip, p)
  IN
  /\ At(p, "exists") /\ Unlocked(fs, r.ip)
  /\ IF r.call.type = T_FILE /\ Ino(s, r.ip).type \in {T_FILE, T_DEVICE}
     THEN Goto(p, s, "fdalloc", r.ip, 0, <<>>)
     ELSE Goto(p, iunlock(s, r.ip), "end", 0, 0, <<r.ip>>)
  /\ Rest

(* Fault: mkdir forgets the parent's link for "..". *)
Bug_create_inode_nolink(p) ==
  LET r == pr[p]
      one == [fs |-> SetLinks(ilock(fs, r.ip, p), r.ip, 1), n |-> 1]
      dots == IF r.call.type # T_DIR THEN one
              ELSE AndLink(AndLink(one, r.ip, ".", r.ip), r.ip, "..", r.dp)
      new == AndLink(dots, r.dp, Name(p), r.ip)
  IN
  /\ At(p, "create2") /\ Unlocked(fs, r.ip)
  /\ \/ /\ new.n = 1 /\ r.call.type = T_FILE
        /\ Goto(p, iunlock(new.fs, r.dp), "fdalloc", r.ip, 0, <<r.dp>>)
     \/ /\ new.n = 1 /\ r.call.type # T_FILE
        /\ Goto(p, iunlock(iunlock(new.fs, r.dp), r.ip), "end", 0, 0, <<r.dp, r.ip>>)
     \/ /\ new.n # 1
        /\ Goto(p, iunlock(SetLinks(new.fs, r.ip, 0), r.ip), "unlock", 0, r.dp, <<r.ip>>)
  /\ Rest

(* The new inode, under both locks: its link count, "." and "..", its name in the parent; when one
   of them cannot be written the inode goes away again. *)
create_inode(p) ==
  LET r == pr[p]
      one == [fs |-> SetLinks(ilock(fs, r.ip, p), r.ip, 1), n |-> 1]
      dots == IF r.call.type # T_DIR THEN one
              ELSE AndLink(AndLink(one, r.ip, ".", r.ip), r.ip, "..", r.dp)
      new == AndLink(dots, r.dp, Name(p), r.ip)
  IN
  /\ At(p, "create2") /\ Unlocked(fs, r.ip)
  /\ \/ /\ new.n = 1 /\ r.call.type = T_FILE
        /\ Goto(p, iunlock(new.fs, r.dp), "fdalloc", r.ip, 0, <<r.dp>>)
     \/ /\ new.n = 1 /\ r.call.type = T_DEVICE
        /\ Goto(p, iunlock(iunlock(new.fs, r.dp), r.ip), "end", 0, 0, <<r.dp, r.ip>>)
     \/ /\ new.n = 1 /\ r.call.type = T_DIR
        /\ Goto(p, iunlock(iunlock(AddLinks(new.fs, r.dp, 1), r.dp), r.ip), "end", 0, 0, <<r.dp, r.ip>>)
     \/ /\ new.n # 1
        /\ Goto(p, iunlock(SetLinks(new.fs, r.ip, 0), r.ip), "unlock", 0, r.dp, <<r.ip>>)
  /\ Rest

(* iunlockput() of the parent, at the end of a call that failed. *)
unlock_parent(p) ==
  /\ At(p, "unlock")
  /\ Goto(p, iunlock(fs, pr[p].dp), "end", 0, 0, <<pr[p].dp>>)
  /\ Rest
-----------------------------------------------------------------------------
(* sys_unlink(): look the name up under the parent's lock, *)
sys_unlink(p) ==
  LET r == pr[p]
      s == DirLock(fs, r.ip, p)
      off == dirlookup(s, r.ip, Name(p))
      i == EntryAt(s, r.ip, off)
  IN
  /\ At(p, "unlink") /\ Unlocked(fs, r.ip)
  /\ IF Name(p) \in {".", ".."} \/ off = -1
     THEN Goto(p, iunlock(s, r.ip), "end", 0, 0, <<r.ip>>)
     ELSE Goto(p, iget(s, i), "unlink2", i, r.ip, <<>>)
  /\ Rest

(* and take it away under both locks, unless it is a directory that is not empty. *)
unlink_inode(p) ==
  LET r == pr[p]
      s == ilock(fs, r.ip, p)
      dir == Ino(s, r.ip).type = T_DIR
      w == writei(s, r.dp, dirlookup(s, r.dp, Name(p)), <<Zero>>, 1)
      t == AddLinks(IF dir THEN AddLinks(w.fs, r.dp, -1) ELSE w.fs, r.ip, -1)
  IN
  /\ At(p, "unlink2") /\ Unlocked(fs, r.ip)
  /\ IF Ino(s, r.ip).nlink > 0 /\ dir /\ ~isdirempty(s, r.ip)
     THEN Goto(p, iunlock(s, r.ip), "unlock", 0, r.dp, <<r.ip>>)
     ELSE Goto(p, IF Ino(s, r.ip).nlink < 1 \/ w.n # 1 THEN Dirty(s) ELSE iunlock(iunlock(t, r.dp), r.ip),
               "end", 0, 0, <<r.dp, r.ip>>)
  /\ Rest

(* Fault: the inode stays locked on the way to the new parent. *)
Bug_sys_link_locked(p) ==
  LET r == pr[p]
      s == ilock(fs, r.ip, p)
      t == AddLinks(s, r.ip, 1)
  IN
  /\ At(p, "link") /\ Unlocked(fs, r.ip)
  /\ Ino(s, r.ip).type # T_DIR
  /\ fs' = iget(t, ROOTINO)
  /\ pr' = [pr EXCEPT ![p] = [@ EXCEPT !.at = "namex", !.path = r.call.new, !.then = "dirlink",
               !.else = "bad", !.parent = TRUE, !.ip = ROOTINO, !.dp = r.ip]]
  /\ UNCHANGED puts /\ Rest

(* sys_link(): count the link first and set out for the parent of the new name, *)
sys_link(p) ==
  LET r == pr[p]
      s == ilock(fs, r.ip, p)
      t == iunlock(AddLinks(s, r.ip, 1), r.ip)
  IN
  /\ At(p, "link") /\ Unlocked(fs, r.ip)
  /\ IF Ino(s, r.ip).type = T_DIR
     THEN Goto(p, iunlock(s, r.ip), "end", 0, 0, <<r.ip>>)
     ELSE /\ fs' = IF r.call.abs THEN iget(t, ROOTINO) ELSE idup(t, cwd[p])
          /\ pr' = [pr EXCEPT ![p] = [@ EXCEPT !.at = "namex", !.path = r.call.new, !.then = "dirlink",
                       !.else = "bad", !.parent = TRUE, !.ip = From(r.call, p), !.dp = r.ip]]
          /\ UNCHANGED puts
  /\ Rest

(* write the name there, *)
link_name(p) ==
  LET r == pr[p]
      s == DirLock(fs, r.ip, p)
      w == dirlink(s, r.ip, Name(p), r.dp)
  IN
  /\ At(p, "dirlink") /\ Unlocked(fs, r.ip)
  /\ IF w.n = 1 THEN Goto(p, iunlock(w.fs, r.ip), "end", 0, 0, <<r.ip, r.dp>>)
     ELSE Goto(p, iunlock(w.fs, r.ip), "bad", 0, r.dp, <<r.ip>>)
  /\ Rest

(* or take the link back. *)
link_bad(p) ==
  LET r == pr[p] IN
  /\ At(p, "bad") /\ Unlocked(fs, r.dp)
  /\ Goto(p, iunlock(AddLinks(ilock(fs, r.dp, p), r.dp, -1), r.dp), "end", 0, 0, <<r.dp>>)
  /\ Rest

sys_chdir(p) ==
  LET r == pr[p]
      s == ilock(fs, r.ip, p)
      dir == Ino(s, r.ip).type = T_DIR
  IN
  /\ At(p, "chdir") /\ Unlocked(fs, r.ip)
  /\ Goto(p, iunlock(s, r.ip), "end", 0, 0, <<IF dir THEN cwd[p] ELSE r.ip>>)
  /\ cwd' = IF dir THEN [cwd EXCEPT ![p] = r.ip] ELSE cwd
  /\ UNCHANGED <<durable, outstanding, ofile, boot, lost>>
-----------------------------------------------------------------------------
(* The calls on the open file.  fileclose() of the last reference is a transaction with an iput(). *)
sys_close(p, c) ==
  /\ At(p, "idle") /\ c.op = "close" /\ ofile[p] # NoFile
  /\ outstanding' = outstanding + 1
  /\ ofile' = [ofile EXCEPT ![p] = NoFile]
  /\ Goto(p, fs, "end", 0, 0, <<ofile[p].ip>>)
  /\ UNCHANGED <<durable, cwd, boot, lost>>

(* fileread() of the next n words. *)
sys_read(p, c) ==
  LET f == ofile[p]
      s == ilock(fs, f.ip, p)
      n == Max({0, Min({c.n, Ino(s, f.ip).size - f.off})})
  IN
  /\ At(p, "idle") /\ c.op = "read" /\ f.ip # 0 /\ f.type # T_DEVICE
  /\ Unlocked(fs, f.ip)
  /\ Goto(p, iunlock(s, f.ip), "idle", 0, 0, <<>>)
  /\ ofile' = [ofile EXCEPT ![p].off = @ + n]
  /\ UNCHANGED <<durable, outstanding, cwd, boot, lost>>

(* filewrite() of n words, few enough for one transaction. *)
sys_write(p, c) ==
  /\ At(p, "idle") /\ c.op = "write" /\ ofile[p].type = T_FILE
  /\ outstanding' = outstanding + 1
  /\ pr' = [pr EXCEPT ![p] = [Idle EXCEPT !.call = c, !.at = "write"]]
  /\ UNCHANGED <<fs, durable, puts, cwd, ofile, boot, lost>>

filewrite(p) ==
  LET f == ofile[p]
      c == pr[p].call
      w == writei(ilock(fs, f.ip, p), f.ip, f.off, [k \in 1..c.n |-> Word(1, "data")], c.ok)
  IN
  /\ At(p, "write") /\ Unlocked(fs, f.ip)
  /\ Goto(p, iunlock(w.fs, f.ip), "end", 0, 0, <<>>)
  /\ ofile' = [ofile EXCEPT ![p].off = @ + Max({0, w.n})]
  /\ UNCHANGED <<durable, outstanding, cwd, boot, lost>>
-----------------------------------------------------------------------------
(* Power fails: memory is lost, recover_from_log() leaves the committed transactions. *)
crash ==
  /\ Up
  /\ fs' = Mounted(durable)
  /\ outstanding' = 0
  /\ pr' = [p \in Proc |-> Idle]
  /\ puts' = [p \in Proc |-> <<>>]
  /\ cwd' = [p \in Proc |-> 0]
  /\ ofile' = [p \in Proc |-> NoFile]
  /\ boot' = 1
  /\ lost' = {}
  /\ UNCHANGED durable

(* ireclaim(), one inode: an orphan is freed by ilock(), iunlock() and iput() in a transaction.
   Nobody else runs yet. *)
ireclaim ==
  LET t == itrunc(ilock(iget(fs, boot), boot, "boot"), boot)
      u == iupdate([t EXCEPT !.icache[boot].ino.type = 0], boot)
  IN
  /\ boot \in Inum /\ ~fs.panic
  /\ boot' = boot + 1
  /\ fs' = IF orphan(fs.dinode[boot]) THEN [u EXCEPT !.icache[boot] = NoEntry] ELSE fs
  /\ durable' = Disk(fs')
  /\ UNCHANGED <<outstanding, pr, puts, cwd, ofile, lost>>

(* The processes start in the root directory. *)
userinit ==
  /\ Up /\ \A p \in Proc : cwd[p] = 0
  /\ cwd' = [p \in Proc |-> ROOTINO]
  /\ fs' = [fs EXCEPT !.icache[ROOTINO] = [NoEntry EXCEPT !.ref = Cardinality(Proc)]]
  /\ UNCHANGED <<durable, outstanding, pr, puts, ofile, boot, lost>>

Step(p) ==
  /\ cwd[p] # 0
  /\ \/ \E c \in work[p] : syscall(p, c) \/ sys_read(p, c) \/ sys_write(p, c) \/ sys_close(p, c)
     \/ namex(p) \/ namex_end(p) \/ end_op(p)
     \/ iput_free(p) \/ iput_invalidate(p) \/ iput_drop(p)
     \/ sys_open(p) \/ sys_open_fd(p) \/ create(p) \/ create_exists(p) \/ create_inode(p)
     \/ unlock_parent(p) \/ sys_unlink(p) \/ unlink_inode(p)
     \/ sys_link(p) \/ link_name(p) \/ link_bad(p) \/ sys_chdir(p) \/ filewrite(p)

Next == UNCHANGED work /\ (crash \/ ireclaim \/ userinit \/ \E p \in Proc : Step(p))

Spec == Init /\ [][Next]_vars
-----------------------------------------------------------------------------
(* What a disk says about itself. *)
Allocated(d) == {i \in Inum : d.dinode[i].type # 0}
Slots(d, i) ==
  LET ino == d.dinode[i] IN
  {<<i, "addr", k>> : k \in {k \in 0..NDIRECT : ino.addrs[k] # 0}} \cup
  (IF ino.addrs[NDIRECT] = 0 THEN {}
   ELSE {<<i, "ind", k>> : k \in {k \in 0..NINDIRECT - 1 : d.data[ino.addrs[NDIRECT]][k].num # 0}})
BlockIn(d, s) ==
  LET addrs == d.dinode[s[1]].addrs IN
  IF s[2] = "addr" THEN addrs[s[3]] ELSE d.data[addrs[NDIRECT]][s[3]].num
AllSlots(d) == UNION {Slots(d, i) : i \in Allocated(d)}

(* The entries of the directories that are themselves in the tree. *)
LinkedDirs(d) == {i \in Allocated(d) : d.dinode[i].type = T_DIR /\ d.dinode[i].nlink > 0}
Entries(d) ==
  {e \in UNION {{<<i, off>> : off \in 0..d.dinode[i].size - 1} : i \in LinkedDirs(d)} :
     readi(d, d.dinode[e[1]], e[2]).num # 0}
EntryOf(d, e) == readi(d, d.dinode[e[1]], e[2])

NoHoles(d) ==
  \A i \in Allocated(d) : \A bn \in 0..MAXFILE - 1 :
    bn * BSIZE < d.dinode[i].size =>
      IF bn < NDIRECT THEN <<i, "addr", bn>> \in Slots(d, i) ELSE <<i, "ind", bn - NDIRECT>> \in Slots(d, i)

Consistent(d) ==
  /\ NoHoles(d)
  /\ \A s, t \in AllSlots(d) : s # t => BlockIn(d, s) # BlockIn(d, t)
  /\ \A b \in Block : d.bitmap[b] = 1 <=> \E s \in AllSlots(d) : BlockIn(d, s) = b
  /\ \A e \in Entries(d) : EntryOf(d, e).num \in Allocated(d)
  /\ \A e, f \in Entries(d) : e # f /\ e[1] = f[1] => EntryOf(d, e).name # EntryOf(d, f).name
  /\ \A i \in Allocated(d) :
       d.dinode[i].nlink = Cardinality({e \in Entries(d) : EntryOf(d, e).num = i /\ EntryOf(d, e).name # "."})

(* Whatever calls were under way, a crash at any moment leaves a consistent disk: every block in
   use belongs to one place of one inode and every other block is free, every link count is the
   number of names, every name refers to an inode in use and no name occurs twice. *)
CommittedImageIsConsistent == Consistent(durable)

(* References to an inode held by processes. *)
Uses(p, i) ==
  (IF cwd[p] = i THEN 1 ELSE 0) + (IF ofile[p].ip = i THEN 1 ELSE 0) +
  (IF pr[p].ip = i THEN 1 ELSE 0) + (IF pr[p].dp = i THEN 1 ELSE 0) +
  Cardinality({k \in DOMAIN puts[p] : puts[p][k] = i})


(* The copy of an inode in the table agrees with the disk whenever nobody has it locked. *)
CopiesAreCurrent ==
  \A i \in Inum : fs.icache[i].valid = 1 /\ Unlocked(fs, i) => fs.icache[i].ino = fs.dinode[i]

(* None of the panics of fs.c and sysfile.c: ilock() of a free inode, freeing a free block,
   unlinking what has no links, looking names up in a file. *)
FsNeverPanics == ~fs.panic

(* The inode whose lock p needs for its next step, and a process that is waiting for another one. *)
Needs(p) ==
  IF pr[p].at = "write" THEN ofile[p].ip ELSE IF pr[p].at = "bad" THEN pr[p].dp
  ELSE IF pr[p].at \in {"idle", "end", "fdalloc", "unlock"} \/ puts[p] # <<>> THEN 0 ELSE pr[p].ip
WaitsFor(p, q) == Needs(p) # 0 /\ fs.icache[Needs(p)].lock = q

(* Processes that hold inode locks never wait for each other in a circle: lookups hold one lock at
   a time, and calls that hold two lock the parent first. *)
NoCircularWait == \A s \in (SUBSET Proc) \ {{}} : \E p \in s : \A q \in s : ~WaitsFor(p, q)

(* "iput() frees if the reference and link counts have fallen to zero" (kernel/fs.c): no inode
   without links is left behind when nobody refers to it. *)
OrphansAreFreed == Up => \A i \in Inum : orphan(fs.dinode[i]) => fs.icache[i].ref > 0
=============================================================================
