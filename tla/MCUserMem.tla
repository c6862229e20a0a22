------------------------------ MODULE MCUserMem -----------------------------
(* Instances of UserMem for TLC. *)
EXTENDS UserMem
Heap == {-3, -2, 1, 2}
Whole == {2}

(* States that differ only in which frame is which are one: kalloc() may   *)
(* give any, and no action or property looks at a frame but to compare it. *)
Sharing ==
  LET slots == {s \in Proc \X Page : pt[s[1]][s[2]] # 0}
      frame(s) == pt[s[1]][s[2]] IN
  <<st, child, perm, sz, vr, map_ro_va, usar, shm_va, refcount, used, broken,
    [s \in slots |-> <<frame(s) \in free, frame(s) = shared_page>>],
    {<<s, t>> \in slots \X slots : s # t /\ frame(s) = frame(t)},
    shared_page = 0, shared_page \in free, Cardinality(free)>>

UpToFrames ==
  <<Sharing, [p \in Proc |-> [v \in Page |-> IF pt[p][v] = 0 THEN "" ELSE val[pt[p][v]]]]>>

(* No guard reads what a frame holds, nor do the invariants about frames. *)
UpToContents == Sharing
=============================================================================
