------------------------------- MODULE Inodes -------------------------------
(***************************************************************************)
(* Blocks, inodes, file contents and directories (kernel/fs.c) as          *)
(* operators on the state of a file system, a record with                  *)
(*   bitmap  the free map: 1 for a block in use                            *)
(*   dinode  the inodes on disk                                            *)
(*   data    the contents of the blocks, in words                          *)
(*   icache  itable: the entry of each inode number                        *)
(*   panic   whether the kernel has panicked                               *)
(* A word of a block is a directory entry, a block address or a datum.     *)
(***************************************************************************)
EXTENDS Integers, Sequences, FiniteSets, SequencesExt

CONSTANTS
  NINODES,     \* inodes on disk, numbered from 1
  Block,       \* numbers of the data blocks
  BSIZE,       \* words in a block
  NDIRECT      \* direct addresses of an inode

T_DIR == 1
T_FILE == 2
T_DEVICE == 3
ROOTINO == 1
NINDIRECT == BSIZE
MAXFILE == NDIRECT + NINDIRECT
None == "none"

ASSUME InodesAssumption ==
  /\ NINODES \in Nat \ {0} /\ BSIZE \in Nat \ {0} /\ NDIRECT \in Nat \ {0}
  /\ Block \subseteq Nat \ {0}

Inum == 1..NINODES
Word(n, name) == [num |-> n, name |-> name]
Zero == Word(0, "")
Zeroes == [k \in 0..BSIZE - 1 |-> Zero]
NoDinode == [type |-> 0, nlink |-> 0, size |-> 0, addrs |-> [k \in 0..NDIRECT |-> 0]]

(* An entry of itable: ip->ref, the holder of ip->lock, ip->valid and the copy of the dinode. *)
NoEntry == [ref |-> 0, lock |-> None, valid |-> 0, ino |-> NoDinode]

Dirty(s) == [s EXCEPT !.panic = TRUE]
-----------------------------------------------------------------------------
bzero(s, b) == [s EXCEPT !.data = (b :> Zeroes) @@ @]

(* balloc(), with the bzero() of the block; address 0 stands for no space. *)
Taken(s, b) == [fs |-> [bzero(s, b) EXCEPT !.bitmap[b] = 1], b |-> b]
balloc(s) ==
  LET free == {b \in Block : s.bitmap[b] = 0} IN
  IF free = {} THEN [fs |-> s, b |-> 0] ELSE Taken(s, Min(free))

bfree(b, s) == IF s.bitmap[b] = 0 THEN Dirty(s) ELSE [s EXCEPT !.bitmap[b] = 0]

(* iget() of an inode: a table entry that nobody refers to starts without a copy. *)
iget(s, i) ==
  [s EXCEPT !.icache[i] = IF @.ref > 0 THEN [@ EXCEPT !.ref = @ + 1] ELSE [NoEntry EXCEPT !.ref = 1]]
idup(s, i) == [s EXCEPT !.icache[i].ref = @ + 1]

(* ilock() by p, once nobody holds ip->lock. *)
Unlocked(s, i) == s.icache[i].lock = None
ilock(s, i, p) ==
  LET e == s.icache[i]
      t == [s EXCEPT !.icache[i] = [@ EXCEPT !.lock = p, !.valid = 1,
                                             !.ino = IF e.valid = 1 THEN @ ELSE s.dinode[i]]]
  IN IF e.ref < 1 \/ (e.valid = 0 /\ s.dinode[i].type = 0) THEN Dirty(t) ELSE t

iunlock(s, i) == [s EXCEPT !.icache[i].lock = None]

(* The locked inode, and iupdate(): the copy goes to disk. *)
Ino(s, i) == s.icache[i].ino
iupdate(s, i) == [s EXCEPT !.dinode[i] = Ino(s, i)]
SetLinks(s, i, n) == iupdate([s EXCEPT !.icache[i].ino.nlink = n], i)
AddLinks(s, i, n) == SetLinks(s, i, Ino(s, i).nlink + n)

(* The dinode that ialloc() takes. *)
FreeInodes(s) == {i \in Inum : s.dinode[i].type = 0}
ialloc(s, type) ==
  LET i == Min(FreeInodes(s)) IN iget([s EXCEPT !.dinode[i] = [NoDinode EXCEPT !.type = type]], i)
-----------------------------------------------------------------------------
(* An address slot of the inode, filled if need be. *)
Direct(r, i, k) == [r EXCEPT !.fs.icache[i].ino.addrs[k] = r.b]
Filled(s, i, k) ==
  IF Ino(s, i).addrs[k] # 0 THEN [fs |-> s, b |-> Ino(s, i).addrs[k]] ELSE Direct(balloc(s), i, k)

(* The same for slot k of the indirect block ind.b. *)
Recorded(r, a, k) == IF r.b = 0 THEN r ELSE [r EXCEPT !.fs.data[a][k] = Word(r.b, "")]
Indirect(ind, k) ==
  LET b == ind.fs.data[ind.b][k].num IN
  IF ind.b = 0 THEN ind ELSE IF b # 0 THEN [ind EXCEPT !.b = b] ELSE Recorded(balloc(ind.fs), ind.b, k)

bmap(s, i, bn) ==
  IF bn < NDIRECT THEN Filled(s, i, bn) ELSE Indirect(Filled(s, i, NDIRECT), bn - NDIRECT)

(* The block that holds word off.  Below ip->size there are no holes (NoHoles), so readi()'s bmap()
   allocates nothing. *)
Address(s, d, off) ==
  LET bn == off \div BSIZE IN
  IF bn < NDIRECT THEN d.addrs[bn] ELSE s.data[d.addrs[NDIRECT]][bn - NDIRECT].num
readi(s, d, off) == s.data[Address(s, d, off)][off % BSIZE]

(* writei() of the words ws at off, block by block, until there is no space or either_copyin()
   fails, which can fetch the first ok words.  n is the number of words written. *)
writei(s, i, off, ws, ok) ==
  LET end == off + Len(ws)
      Upto(bn) == Min({end, (bn + 1) * BSIZE})
      Copied(acc, r, bn) ==
        IF r.b = 0 \/ Upto(bn) > off + ok THEN [acc EXCEPT !.fs = r.fs, !.stop = TRUE]
        ELSE [acc EXCEPT !.off = Upto(bn),
                !.fs = [r.fs EXCEPT !.data[r.b] =
                          [k \in {x % BSIZE : x \in acc.off..Upto(bn) - 1} |-> ws[bn * BSIZE + k - off + 1]] @@ @]]
      Put(acc, bn) == IF acc.stop THEN acc ELSE Copied(acc, bmap(acc.fs, i, bn), bn)
      Sized(w) == [fs |-> iupdate([w.fs EXCEPT !.icache[i].ino.size = Max({@, w.off})], i), n |-> w.off - off]
  IN IF off > Ino(s, i).size \/ end > MAXFILE * BSIZE THEN [fs |-> s, n |-> -1]
     ELSE Sized(FoldLeft(Put, [fs |-> s, off |-> off, stop |-> FALSE],
                         [j \in 1..((end - 1) \div BSIZE - off \div BSIZE + 1) |-> off \div BSIZE + j - 1]))

(* Fault: the addresses of the freed blocks stay in the inode. *)
Bug_itrunc_stale(s, i) ==
  LET d == Ino(s, i)
      blocks == {d.addrs[k] : k \in 0..NDIRECT}
                  \cup (IF d.addrs[NDIRECT] = 0 THEN {}
                        ELSE {s.data[d.addrs[NDIRECT]][k].num : k \in 0..NINDIRECT - 1})
      t == FoldLeft(LAMBDA acc, b : bfree(b, acc), s, SetToSeq(blocks \ {0}))
  IN iupdate([t EXCEPT !.icache[i].ino.size = 0], i)

(* itrunc(): free the direct blocks, the blocks of the indirect block and that block. *)
itrunc(s, i) ==
  LET d == Ino(s, i)
      blocks == {d.addrs[k] : k \in 0..NDIRECT}
                  \cup (IF d.addrs[NDIRECT] = 0 THEN {}
                        ELSE {s.data[d.addrs[NDIRECT]][k].num : k \in 0..NINDIRECT - 1})
      t == FoldLeft(LAMBDA acc, b : bfree(b, acc), s, SetToSeq(blocks \ {0}))
  IN iupdate([t EXCEPT !.icache[i].ino = [@ EXCEPT !.size = 0, !.addrs = NoDinode.addrs]], i)
-----------------------------------------------------------------------------
(* Directories.  dirlookup() without its iget(): the offset of the name, or -1. *)
Offsets(s, d, name) == {off \in 0..d.size - 1 : readi(s, d, off).num # 0 /\ readi(s, d, off).name = name}
dirlookup(s, i, name) ==
  LET offs == Offsets(s, Ino(s, i), name) IN IF offs = {} THEN -1 ELSE Min(offs)
EntryAt(s, i, off) == readi(s, Ino(s, i), off).num

(* dirlink(): in the first empty entry or at the end; n is 1 on success. *)
dirlink(s, i, name, inum) ==
  LET d == Ino(s, i)
      empty == {off \in 0..d.size - 1 : readi(s, d, off).num = 0} \cup {d.size}
  IN IF dirlookup(s, i, name) # -1 THEN [fs |-> s, n |-> -1]
     ELSE writei(s, i, Min(empty), <<Word(inum, name)>>, 1)

(* One more dirlink(), unless an earlier one has failed. *)
AndLink(w, i, name, inum) == IF w.n # 1 THEN w ELSE dirlink(w.fs, i, name, inum)

isdirempty(s, i) == \A off \in 2..Ino(s, i).size - 1 : EntryAt(s, i, off) = 0
=============================================================================
