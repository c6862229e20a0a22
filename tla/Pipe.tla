-------------------------------- MODULE Pipe --------------------------------
(***************************************************************************)
(* Pipes (kernel/pipe.c).  pi->lock makes piperead() one action up to its  *)
(* sleep() or return.  pipewrite() takes one action per iteration, because *)
(* it looks at the killed flag, which kill() sets without the lock, before *)
(* every byte.                                                             *)
(***************************************************************************)
EXTENDS Integers, Sequences, FiniteSets

CONSTANTS
  Proc,       \* process slots
  PipePage,   \* pages that kalloc() may hand to pipealloc()
  PIPESIZE,   \* bytes in a pipe's buffer
  UINT,       \* nread and nwrite count modulo UINT (2^32, a multiple of PIPESIZE)
  Byte        \* bytes are 0..Byte - 1

None == "none"

ASSUME PipeAssumption ==
  /\ PIPESIZE \in Nat \ {0}
  /\ UINT \in Nat /\ UINT > PIPESIZE /\ UINT % PIPESIZE = 0
  /\ Byte \in Nat \ {0}
  /\ None \notin Proc \cup PipePage

VARIABLES
  pipe,      \* the struct pipe in each page
  lock,      \* pi->lock: the process that holds it across actions, or None
  op,        \* the operation each process is in: where, its arguments, i and the result
  ubuf,      \* the bytes each process has got from read()
  killed     \* p->killed

NoPipe == [alloc |-> FALSE, data |-> [i \in 0..PIPESIZE - 1 |-> 0], nread |-> 0, nwrite |-> 0,
           readopen |-> 0, writeopen |-> 0, cut |-> FALSE]

(* pipealloc() in a fresh page.  cut is a history flag: a pipewrite() was abandoned after it had
   stored bytes. *)
NewPipe == [NoPipe EXCEPT !.alloc = TRUE, !.readopen = 1, !.writeopen = 1]

NoOp == [at |-> "none", pi |-> None, n |-> 0, ok |-> 0, i |-> 0, ret |-> 0]

(* A call with a buffer of n bytes, of which copyin() and copyout() can reach the first ok. *)
Call(at, pi, n, ok) == [NoOp EXCEPT !.at = at, !.pi = pi, !.n = n, !.ok = ok]
Return(o, p, r) == [o EXCEPT ![p] = [NoOp EXCEPT !.at = "ret", !.ret = r]]

(* Byte i of the buffer a process writes (user/pipes.c fills it with a repeating pattern). *)
fill_pattern(i) == i % Byte

Empty(pi) == pipe[pi].nread = pipe[pi].nwrite
Held(pi) == (pipe[pi].nwrite - pipe[pi].nread) % UINT
Nth(pi, j) == pipe[pi].data[((pipe[pi].nread + j - 1) % UINT) % PIPESIZE]

(* Fault: the test for a full pipe is off by one. *)
Bug_Full_late(pi) == pipe[pi].nwrite = (pipe[pi].nread + PIPESIZE + 1) % UINT

Full(pi) == pipe[pi].nwrite = (pipe[pi].nread + PIPESIZE) % UINT

(* wakeup(&pi->nread) and wakeup(&pi->nwrite): the sleepers test their condition again. *)
WakeReaders(o, pi) ==
  [q \in Proc |-> IF o[q].at = "rsleep" /\ o[q].pi = pi THEN [o[q] EXCEPT !.at = "read"] ELSE o[q]]
WakeWriters(o, pi) ==
  [q \in Proc |-> IF o[q].at = "wsleep" /\ o[q].pi = pi THEN [o[q] EXCEPT !.at = "write"] ELSE o[q]]
-----------------------------------------------------------------------------
(* Process p is at the top of pipewrite()'s loop with pi->lock. *)
InWriteLoop(p) ==
  \/ op[p].at = "write" /\ lock[op[p].pi] = None
  \/ op[p].at = "wloop"

(* No reader is left or the caller is killed: what was stored stays stored, and nobody is woken. *)
pipewrite_broken(p) ==
  LET pi == op[p].pi IN
  /\ InWriteLoop(p)
  /\ op[p].i < op[p].n
  /\ pipe[pi].readopen = 0 \/ killed[p] = 1
  /\ pipe' = [pipe EXCEPT ![pi].cut = @ \/ op[p].i > 0]
  /\ lock' = [lock EXCEPT ![pi] = None]
  /\ op' = Return(op, p, -1)
  /\ UNCHANGED <<ubuf, killed>>

pipewrite_full(p) ==
  LET pi == op[p].pi IN
  /\ InWriteLoop(p)
  /\ op[p].i < op[p].n
  /\ pipe[pi].readopen = 1 /\ killed[p] = 0
  /\ Full(pi)
  /\ lock' = [lock EXCEPT ![pi] = None]
  /\ op' = WakeReaders([op EXCEPT ![p].at = "wsleep"], pi)
  /\ UNCHANGED <<pipe, ubuf, killed>>

pipewrite_byte(p) ==
  LET pi == op[p].pi
      i == op[p].i
  IN
  /\ InWriteLoop(p)
  /\ i < op[p].n /\ i < op[p].ok
  /\ pipe[pi].readopen = 1 /\ killed[p] = 0
  /\ ~Full(pi)
  /\ pipe' = [pipe EXCEPT ![pi].data[pipe[pi].nwrite % PIPESIZE] = fill_pattern(i),
                          ![pi].nwrite = (@ + 1) % UINT]
  /\ lock' = [lock EXCEPT ![pi] = p]
  /\ op' = [op EXCEPT ![p].at = "wloop", ![p].i = i + 1]
  /\ UNCHANGED <<ubuf, killed>>

(* Everything is written, or copyin() failed. *)
pipewrite_end(p) ==
  LET pi == op[p].pi
      i == op[p].i
  IN
  /\ InWriteLoop(p)
  /\ \/ i = op[p].n
     \/ i = op[p].ok /\ pipe[pi].readopen = 1 /\ killed[p] = 0 /\ ~Full(pi)
  /\ lock' = [lock EXCEPT ![pi] = None]
  /\ op' = WakeReaders(Return(op, p, i), pi)
  /\ UNCHANGED <<pipe, ubuf, killed>>

pipewrite(p) == pipewrite_broken(p) \/ pipewrite_full(p) \/ pipewrite_byte(p) \/ pipewrite_end(p)
-----------------------------------------------------------------------------
(* The pipe is empty and has writers: give up when killed, else sleep. *)
piperead_wait(p) ==
  LET pi == op[p].pi IN
  /\ op[p].at = "read" /\ lock[pi] = None
  /\ Empty(pi) /\ pipe[pi].writeopen = 1
  /\ op' = IF killed[p] = 1 THEN Return(op, p, -1) ELSE [op EXCEPT ![p].at = "rsleep"]
  /\ UNCHANGED <<pipe, lock, ubuf, killed>>

(* Copy what there is, at most n bytes and as many as copyout() can store. *)
piperead_copy(p) ==
  LET pi == op[p].pi
      want == IF op[p].n < Held(pi) THEN op[p].n ELSE Held(pi)
      k == IF op[p].ok < want THEN op[p].ok ELSE want
  IN
  /\ op[p].at = "read" /\ lock[pi] = None
  /\ ~(Empty(pi) /\ pipe[pi].writeopen = 1)
  /\ ubuf' = [ubuf EXCEPT ![p] = @ \o [j \in 1..k |-> Nth(pi, j)]]
  /\ pipe' = [pipe EXCEPT ![pi].nread = (@ + k) % UINT]
  /\ op' = WakeWriters(Return(op, p, IF k = 0 /\ want > 0 THEN -1 ELSE k), pi)
  /\ UNCHANGED <<lock, killed>>

piperead(p) == piperead_wait(p) \/ piperead_copy(p)
-----------------------------------------------------------------------------

(* pipeclose() of one end; the second one frees the page. *)
pipeclose(p) ==
  LET pi == op[p].pi
      left == [pipe[pi] EXCEPT !.readopen = IF op[p].at = "closew" THEN @ ELSE 0,
                               !.writeopen = IF op[p].at = "closew" THEN 0 ELSE @]
  IN
  /\ op[p].at \in {"closer", "closew"} /\ lock[pi] = None
  /\ pipe' = [pipe EXCEPT ![pi] = IF left.readopen = 0 /\ left.writeopen = 0 THEN NoPipe ELSE left]
  /\ op' = IF op[p].at = "closew" THEN WakeReaders([op EXCEPT ![p] = NoOp], pi)
           ELSE WakeWriters([op EXCEPT ![p] = NoOp], pi)
  /\ UNCHANGED <<lock, ubuf, killed>>

(* What is in the pipe, oldest byte first. *)
Stream(pi) == [j \in 1..Held(pi) |-> Nth(pi, j)]
=============================================================================
