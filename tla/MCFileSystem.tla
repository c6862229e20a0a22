---------------------------- MODULE MCFileSystem ----------------------------
(* Two processes on a disk of a few blocks and inodes. *)
EXTENDS FileSystem, Mkfs, TLC

CONSTANT P1   \* the process that makes and removes the directory

MCImage == mkfs(<<>>)

C(op, path, new, type, mode) == [Call(op, path) EXCEPT !.new = new, !.type = type, !.mode = mode]
Create(path, mode) == C("create", path, <<>>, T_FILE, mode)
Open(path, mode) == C("open", path, <<>>, 0, mode)
Mkdir(path) == C("create", path, <<>>, T_DIR, "r")
Mknod(path) == C("create", path, <<>>, T_DEVICE, "r")
Unlink(path) == C("unlink", path, <<>>, 0, "r")
Link(path, new) == C("link", path, new, 0, "r")
Chdir(path) == C("chdir", path, <<>>, 0, "r")
Write(n, ok) == [Call("write", <<>>) EXCEPT !.n = n, !.ok = ok]
Read(n) == [Call("read", <<>>) EXCEPT !.n = n]

Close == Call("close", <<>>)
Two(one, other) == [p \in Proc |-> IF p = P1 THEN one ELSE other]
W1 == Two({Create(<<"a">>, "t"), Write(6, 6), Close}, {Unlink(<<"a">>)})
W2 == Two({Mkdir(<<"d">>), Unlink(<<"d">>)}, {Chdir(<<"d">>), [Chdir(<<"..">>) EXCEPT !.abs = FALSE], Chdir(<<>>)})
W3 == Two({Mknod(<<"a">>), Unlink(<<"b">>)}, {Link(<<"a">>, <<"b">>), Unlink(<<"a">>)})
W4 == Two({Mkdir(<<"d">>), Create(<<"d", "x">>, "w"), Close, Unlink(<<"d">>)}, {Unlink(<<"d", "x">>)})
W5 == Two({Mknod(<<"a">>), Open(<<"a">>, "r"), Close, Open(<<"a", "x">>, "r"), Unlink(<<>>), Open(<<>>, "r"), Open(<<>>, "w"), Read(2)},
          {Unlink(<<"..">>), Unlink(<<"a">>), Link(<<>>, <<"b">>)})
W6 == Two({Create(<<"a">>, "w"), Write(4, 2), Write(4, 4), Read(2), Close}, {})
Removed == {Two({Mkdir(<<"d">>), Unlink(<<"d">>)}, {Create(<<"d", "x">>, "w")})}
Upward == {Two({Mkdir(<<"d">>), Mkdir(<<"d", "e">>), Unlink(<<"d", "e">>), Unlink(<<"d">>)},
               {Chdir(<<"d", "e">>), [Chdir(<<"..">>) EXCEPT !.abs = FALSE]})}
Reuse == {W2}
MCWorkloads == {W1, W2, W3, W4, W5, W6}

(* States that differ in the numbers of blocks, in the contents of free ones or in the order of
   directory entries behave alike. *)
Shape(d, ino, i) ==
  <<ino.type, ino.nlink, ino.size, {k \in 0..NDIRECT : ino.addrs[k] # 0}, Cardinality(Slots(d, i)),
    IF ino.type # T_DIR THEN {} ELSE {readi(d, ino, off) : off \in 0..ino.size - 1},
    IF ino.type # T_DIR THEN 0 ELSE Cardinality({off \in 0..ino.size - 1 : readi(d, ino, off).num # 0})>>
Outline(d) ==
  <<[i \in Inum |-> Shape(d, d.dinode[i], i)], Cardinality({b \in Block : d.bitmap[b] = 1}),
    Cardinality({BlockIn(d, s) : s \in AllSlots(d)})>>
Table(s) ==
  [i \in Inum |-> LET e == s.icache[i] IN
    <<e.ref, e.lock, e.valid, IF e.ino = s.dinode[i] THEN <<>> ELSE <<e.ino.type, e.ino.nlink, e.ino.size>> >>]

(* The comparisons make TLC evaluate the functions that fs and durable hold. *)
Quotient == <<fs = fs, durable = durable, Outline(fs), Table(fs), fs.panic, Outline(durable), outstanding, pr, puts, cwd, ofile, boot, lost, work>>
=============================================================================
