--------------------------- MODULE MCBufferCache ----------------------------
(* Instances of BufferCache for TLC. *)
EXTENDS BufferCache, TLC

CONSTANTS p1, p2, p3, b1, b2, b3, b4, k1, k2, k3, k4, k5

MCProc2 == {p1, p2}
MCProc3 == {p1, p2, p3}
MCBuf3 == {b1, b2, b3}
MCBuf4 == {b1, b2, b3, b4}
MCBlock3 == {k1, k2, k3}
MCBlock4 == {k1, k2, k3, k4}
MCBlock5 == {k1, k2, k3, k4, k5}
MCReadOnly == Block \ {k1}
Symmetry == Permutations(Buf) \cup Permutations(Proc) \cup Permutations(ReadOnly)

(* Two states that differ only in what is dead count as one: ring entries, descriptors and
   requests that are not in use, the data of a buffer that is to be read from disk, and by how
   much all three ring indices are shifted. *)
Pending(r, i) == [k \in 1..(r.idx - i) % IDX |-> r.ring[(i + k - 1) % NUM]]
Quotient ==
  <<NUM, disk, bdisk, rw, arg, head, free, inflight, irq, intr, cacheVars, callVars,
    [b \in Buf |-> IF valid[b] = 1 \/ \E p \in Proc : held[p] = b /\ Locks(p) THEN data[b] ELSE 0],
    [i \in Desc \ free |-> <<next[i], ops[i], info[i], status[i]>>],
    Pending(avail, seen), Pending(used, used_idx)>>
=============================================================================
