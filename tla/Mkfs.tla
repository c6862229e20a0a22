-------------------------------- MODULE Mkfs --------------------------------
(***************************************************************************)
(* The file system image that mkfs/mkfs.c writes: a root directory and the *)
(* files it is given, with blocks and inodes handed out in order.          *)
(***************************************************************************)
EXTENDS Inodes

(* iappend(): one word at the end of an inode; the image carries freeblock. *)
iappend(m, i, w) ==
  LET din == m.dinode[i]
      bn == din.size \div BSIZE
      Slot(k, x) == IF x.dinode[i].addrs[k] # 0 THEN x
                    ELSE [x EXCEPT !.dinode[i].addrs[k] = x.freeblock, !.freeblock = @ + 1]
      ind == Slot(NDIRECT, m)
      a == ind.dinode[i].addrs[NDIRECT]
      m1 == IF bn < NDIRECT THEN Slot(bn, m)
            ELSE IF ind.data[a][bn - NDIRECT].num # 0 THEN ind
            ELSE [ind EXCEPT !.data[a][bn - NDIRECT] = Word(ind.freeblock, ""), !.freeblock = @ + 1]
      x == Address(m1, m1.dinode[i], din.size)
  IN [m1 EXCEPT !.data = (x :> [@[x] EXCEPT ![din.size % BSIZE] = w]) @@ @, !.dinode[i].size = @ + 1]

(* ialloc() of the next inode. *)
ialloc2(m, type) ==
  [m EXCEPT !.dinode[m.freeinode] = [NoDinode EXCEPT !.type = type, !.nlink = 1], !.freeinode = @ + 1]

(* A file: its inode, its name in the root and its words. *)
AddFile(m, f) ==
  LET i == m.freeinode
      named == iappend(ialloc2(m, T_FILE), ROOTINO, Word(i, f.name))
  IN FoldLeft(LAMBDA x, w : iappend(x, i, w), named, [k \in 1..f.size |-> Word(1, "data")])

(* main(): the size of the root is rounded up to the next block, and balloc() marks what was used. *)
mkfs(files) ==
  LET empty == [bitmap |-> [b \in Block |-> 0], dinode |-> [i \in Inum |-> NoDinode],
                data |-> [b \in Block |-> Zeroes], freeblock |-> Min(Block), freeinode |-> ROOTINO]
      root == iappend(iappend(ialloc2(empty, T_DIR), ROOTINO, Word(ROOTINO, ".")), ROOTINO, Word(ROOTINO, ".."))
      m == FoldLeft(AddFile, root, files)
  IN [bitmap |-> [b \in Block |-> IF b < m.freeblock THEN 1 ELSE 0],
      dinode |-> [m.dinode EXCEPT ![ROOTINO].size = (@ \div BSIZE + 1) * BSIZE],
      data |-> m.data]
=============================================================================
