------------------------------- MODULE Files --------------------------------
(***************************************************************************)
(* The file table (kernel/file.c), the descriptors of each process and     *)
(* the system calls on them (kernel/sysfile.c), over the pipes of Pipe.    *)
(* Processes fork, exit and wait as in kernel/proc.c, with the scheduler   *)
(* left out; their programs are sequences of calls.                        *)
(***************************************************************************)
EXTENDS Pipe, Functions

CONSTANTS
  NFILE,       \* entries of ftable.file
  NOFILE,      \* descriptors of a process
  MaxKills     \* bound: kill() calls in a behaviour

ASSUME FilesAssumption ==
  /\ NOFILE \in Nat /\ NOFILE >= 2
  /\ MaxKills \in Nat
  /\ NFILE \in Nat \ {0}

File == 1..NFILE
Fd == 0..NOFILE - 1

VARIABLES
  ftable,    \* ftable.file
  irefs,     \* references on the console's inode
  ofile,     \* p->ofile, 0 for a null pointer
  todo,      \* files a process has still to fileclose() in the present call
  fresh,     \* files sys_pipe() has allocated so far
  status,    \* "unused", "run", "exit" (in kexit()) or "zombie"
  parent,    \* p->parent, None for init
  prog,      \* the calls a process has still to make
  fds,       \* what its last pipe() stored in int p[2]
  kills      \* kill() calls so far

fileVars == <<ftable, irefs>>
procVars == <<status, parent, prog, fds>>
pipeVars == <<pipe, lock, op, ubuf, killed>>
vars == <<pipeVars, fileVars, ofile, todo, fresh, procVars, kills>>

NoFile == [ref |-> 0, type |-> "none", readable |-> 0, writable |-> 0, pipe |-> None]
Console == [ref |-> 2, type |-> "device", readable |-> 1, writable |-> 1, pipe |-> None]
End(pi, w) == [ref |-> 1, type |-> "pipe", readable |-> 1 - w, writable |-> w, pipe |-> pi]

(* Calls as data.  A descriptor is a number, or P0 and P1 for the ends of the last pipe(); ok says
   how much of the buffer is mapped, must that the program gives up when the call fails, all that
   it reads again until the end of the stream. *)
P0 == NOFILE
P1 == NOFILE + 1
Instr(name) == [call |-> name, fd |-> 0, n |-> 0, ok |-> 1, must |-> FALSE,
                all |-> FALSE, child |-> <<>>]
OnFd(name, fd) == [Instr(name) EXCEPT !.fd = fd]
Transfer(name, fd, n, ok) == [OnFd(name, fd) EXCEPT !.n = n, !.ok = ok]

(* One process with the console as standard input and output, about to run a program. *)
Start(p, program) ==
  /\ pipe = [pi \in PipePage |-> NoPipe]
  /\ lock = [pi \in PipePage |-> None]
  /\ op = [q \in Proc |-> NoOp]
  /\ ubuf = [q \in Proc |-> <<>>]
  /\ killed = [q \in Proc |-> 0]
  /\ ftable = [f \in File |-> IF f = 1 THEN Console ELSE NoFile]
  /\ irefs = 1
  /\ ofile = [q \in Proc |-> [d \in Fd |-> IF q = p /\ d < 2 THEN 1 ELSE 0]]
  /\ todo = [q \in Proc |-> <<>>]
  /\ fresh = [q \in Proc |-> <<>>]
  /\ status = [q \in Proc |-> IF q = p THEN "run" ELSE "unused"]
  /\ parent = [q \in Proc |-> None]
  /\ prog = [q \in Proc |-> IF q = p THEN program ELSE <<>>]
  /\ fds = [q \in Proc |-> <<0, 0>>]
  /\ kills = 0
-----------------------------------------------------------------------------
(* p is in user mode, and about to make one of the calls. *)
AtUser(p) == status[p] = "run" /\ op[p].at = "none" /\ todo[p] = <<>> /\ fresh[p] = <<>>
Arg(p) == Head(prog[p])
Makes(p, calls) == AtUser(p) /\ killed[p] = 0 /\ prog[p] # <<>> /\ Arg(p).call \in calls
Done(p) == prog' = [prog EXCEPT ![p] = Tail(@)]
Failed(p) == prog' = [prog EXCEPT ![p] = IF Arg(p).must THEN <<>> ELSE Tail(@)]

Number(p, fd) == IF fd = P0 THEN fds[p][1] ELSE IF fd = P1 THEN fds[p][2] ELSE fd
argfd(p) == ofile[p][Number(p, Arg(p).fd)]
FreeFds(p) == {d \in Fd : ofile[p][d] = 0}
Lowest(s) == CHOOSE d \in s : \A e \in s : d <= e
FreeFiles == {f \in File : ftable[f].ref = 0}

(* A call that fails at once, or does nothing. *)
BadCall(p) ==
  /\ \/ Makes(p, {"close", "dup", "read", "write"}) /\ argfd(p) = 0
     \/ Makes(p, {"dup"}) /\ FreeFds(p) = {}
     \/ Makes(p, {"read"}) /\ argfd(p) # 0 /\ ftable[argfd(p)].readable = 0
     \/ Makes(p, {"write"}) /\ argfd(p) # 0 /\ ftable[argfd(p)].writable = 0
  /\ Done(p)
  /\ UNCHANGED <<pipeVars, fileVars, ofile, todo, fresh, status, parent, fds, kills>>

(* sys_dup(): fdalloc() and filedup(). *)
sys_dup(p) ==
  /\ Makes(p, {"dup"})
  /\ argfd(p) # 0 /\ FreeFds(p) # {}
  /\ ftable[argfd(p)].ref >= 1
  /\ ofile' = [ofile EXCEPT ![p][Lowest(FreeFds(p))] = argfd(p)]
  /\ ftable' = [ftable EXCEPT ![argfd(p)].ref = @ + 1]
  /\ Done(p)
  /\ UNCHANGED <<pipeVars, irefs, todo, fresh, status, parent, fds, kills>>

(* sys_close() up to fileclose(). *)
sys_close(p) ==
  /\ Makes(p, {"close"})
  /\ argfd(p) # 0
  /\ ofile' = [ofile EXCEPT ![p][Number(p, Arg(p).fd)] = 0]
  /\ todo' = [todo EXCEPT ![p] = <<argfd(p)>>]
  /\ Done(p)
  /\ UNCHANGED <<pipeVars, fileVars, fresh, status, parent, fds, kills>>

(* sys_read() and sys_write(), through fileread() and filewrite(), up to piperead() and
   pipewrite(); the console takes and gives nothing here. *)
sys_rw(p) ==
  /\ Makes(p, {"read", "write"})
  /\ LET f == argfd(p) IN
     /\ f # 0
     /\ IF Arg(p).call = "read" THEN ftable[f].readable = 1 ELSE ftable[f].writable = 1
     /\ \/ /\ ftable[f].type = "pipe"
           /\ op' = [op EXCEPT ![p] = Call(Arg(p).call, ftable[f].pipe, Arg(p).n, Arg(p).ok)]
           /\ UNCHANGED prog
        \/ /\ ftable[f].type = "device"
           /\ Done(p)
           /\ UNCHANGED op
  /\ UNCHANGED <<pipe, lock, ubuf, killed, fileVars, ofile, todo, fresh, status, parent, fds, kills>>

(* The call returns, and the program goes on. *)
sys_rw_end(p) ==
  /\ op[p].at = "ret"
  /\ \/ op[p].ret < 0 /\ Failed(p)
     \/ op[p].ret > 0 /\ Arg(p).all /\ UNCHANGED prog
     \/ op[p].ret >= 0 /\ ~(op[p].ret > 0 /\ Arg(p).all) /\ Done(p)
  /\ op' = [op EXCEPT ![p] = NoOp]
  /\ UNCHANGED <<pipe, lock, ubuf, killed, fileVars, ofile, todo, fresh, status, parent, fds, kills>>
-----------------------------------------------------------------------------
(* Fault: the last close leaves the type, which a failing pipealloc() then acts on. *)
Bug_fileclose_keeps_type(p) ==
  /\ todo[p] # <<>> /\ op[p].at = "none"
  /\ LET f == Head(todo[p])
         ff == ftable[f]
     IN
     /\ ff.ref >= 1
     /\ ftable' = [ftable EXCEPT ![f].ref = @ - 1]
     /\ IF ff.ref = 1 /\ ff.type = "pipe"
        THEN op' = [op EXCEPT ![p] = Call(IF ff.writable = 1 THEN "closew" ELSE "closer", ff.pipe, 0, 0)]
        ELSE UNCHANGED op
     /\ irefs' = IF ff.ref = 1 /\ ff.type = "device" THEN irefs - 1 ELSE irefs
  /\ todo' = [todo EXCEPT ![p] = Tail(@)]
  /\ UNCHANGED <<pipe, lock, ubuf, killed, ofile, fresh, procVars, kills>>

(* fileclose(): give the reference back, and on the last one go on, without ftable.lock, to
   pipeclose() or to iput() (a transaction of its own, one action here). *)
fileclose(p) ==
  /\ todo[p] # <<>> /\ op[p].at = "none"
  /\ LET f == Head(todo[p])
         ff == ftable[f]
     IN
     /\ ff.ref >= 1
     /\ ftable' = [ftable EXCEPT ![f].ref = @ - 1, ![f].type = IF ff.ref = 1 THEN "none" ELSE @]
     /\ IF ff.ref = 1 /\ ff.type = "pipe"
        THEN op' = [op EXCEPT ![p] = Call(IF ff.writable = 1 THEN "closew" ELSE "closer", ff.pipe, 0, 0)]
        ELSE UNCHANGED op
     /\ irefs' = IF ff.ref = 1 /\ ff.type = "device" THEN irefs - 1 ELSE irefs
  /\ todo' = [todo EXCEPT ![p] = Tail(@)]
  /\ UNCHANGED <<pipe, lock, ubuf, killed, ofile, fresh, procVars, kills>>
-----------------------------------------------------------------------------
(* pipealloc()'s two calls of filealloc(), in two sections of ftable.lock. *)
filealloc(p) ==
  /\ Makes(p, {"pipe"}) \/ Len(fresh[p]) = 1
  /\ FreeFiles # {}
  /\ ftable' = [ftable EXCEPT ![Lowest(FreeFiles)].ref = 1]
  /\ fresh' = [fresh EXCEPT ![p] = Append(@, Lowest(FreeFiles))]
  /\ UNCHANGED <<pipeVars, irefs, ofile, todo, procVars, kills>>

(* The file table is full, or kalloc() finds no page: close what was allocated. *)
pipealloc_bad(p) ==
  /\ \/ (Makes(p, {"pipe"}) \/ Len(fresh[p]) = 1) /\ FreeFiles = {}
     \/ Len(fresh[p]) = 2 /\ \A pi \in PipePage : pipe[pi].alloc
  /\ todo' = [todo EXCEPT ![p] = fresh[p]]
  /\ fresh' = [fresh EXCEPT ![p] = <<>>]
  /\ Failed(p)
  /\ UNCHANGED <<pipeVars, fileVars, ofile, status, parent, fds, kills>>

(* The rest of pipealloc() and sys_pipe(): the pipe, its two files and two descriptors, which are
   given up again when the process has too few or cannot be told about them. *)
sys_pipe(p) ==
  LET rf == fresh[p][1]
      wf == fresh[p][2]
      fd0 == Lowest(FreeFds(p))
      fd1 == Lowest(FreeFds(p) \ {fd0})
  IN
  /\ Len(fresh[p]) = 2
  /\ \E pi \in PipePage :
       /\ ~pipe[pi].alloc
       /\ pipe' = [pipe EXCEPT ![pi] = NewPipe]
       /\ ftable' = [ftable EXCEPT ![rf] = End(pi, 0), ![wf] = End(pi, 1)]
  /\ IF Cardinality(FreeFds(p)) >= 2 /\ Arg(p).ok = 1
     THEN /\ ofile' = [ofile EXCEPT ![p][fd0] = rf, ![p][fd1] = wf]
          /\ fds' = [fds EXCEPT ![p] = <<fd0, fd1>>]
          /\ Done(p)
          /\ UNCHANGED todo
     ELSE /\ todo' = [todo EXCEPT ![p] = fresh[p]]
          /\ Failed(p)
          /\ UNCHANGED <<ofile, fds>>
  /\ fresh' = [fresh EXCEPT ![p] = <<>>]
  /\ UNCHANGED <<lock, op, ubuf, killed, irefs, status, parent, kills>>
-----------------------------------------------------------------------------
Slots == {q \in Proc : status[q] = "unused"}
Copies(p, f) == Cardinality({d \in Fd : ofile[p][d] = f})

(* kfork(): the child gets a filedup() of every descriptor. *)
sys_fork(p) ==
  /\ Makes(p, {"fork"})
  /\ IF Slots = {}
     THEN Failed(p) /\ UNCHANGED <<ftable, ofile, status, parent, fds, ubuf, killed>>
     ELSE LET q == CHOOSE q \in Slots : TRUE IN
          /\ ofile' = [ofile EXCEPT ![q] = ofile[p]]
          /\ ftable' = [f \in File |-> [ftable[f] EXCEPT !.ref = @ + Copies(p, f)]]
          /\ status' = [status EXCEPT ![q] = "run"]
          /\ parent' = [parent EXCEPT ![q] = p]
          /\ prog' = [prog EXCEPT ![p] = Tail(@), ![q] = Arg(p).child]
          /\ fds' = [fds EXCEPT ![q] = fds[p]]
          /\ ubuf' = [ubuf EXCEPT ![q] = <<>>]
          /\ killed' = [killed EXCEPT ![q] = 0]
  /\ UNCHANGED <<pipe, lock, op, irefs, todo, fresh, kills>>

(* kexit(): close every descriptor, whether the program ends or usertrap() finds it killed. *)
kexit(p) ==
  /\ AtUser(p)
  /\ prog[p] = <<>> \/ killed[p] = 1
  /\ todo' = [todo EXCEPT ![p] = SelectSeq([d \in 1..NOFILE |-> ofile[p][d - 1]], LAMBDA f : f # 0)]
  /\ ofile' = [ofile EXCEPT ![p] = [d \in Fd |-> 0]]
  /\ status' = [status EXCEPT ![p] = "exit"]
  /\ prog' = [prog EXCEPT ![p] = <<>>]
  /\ UNCHANGED <<pipeVars, fileVars, fresh, parent, fds, kills>>

(* The end of kexit(): children go to init. *)
kexit_zombie(p) ==
  /\ status[p] = "exit" /\ todo[p] = <<>> /\ op[p].at = "none"
  /\ status' = [status EXCEPT ![p] = "zombie"]
  /\ parent' = [q \in Proc |-> IF parent[q] = p THEN None ELSE parent[q]]
  /\ UNCHANGED <<pipeVars, fileVars, ofile, todo, fresh, prog, fds, kills>>

(* kwait() reaps a zombie child, or fails without children; else the caller keeps waiting. *)
sys_wait(p) ==
  /\ Makes(p, {"wait"})
  /\ \/ \E q \in Proc :
          /\ parent[q] = p /\ status[q] = "zombie"
          /\ status' = [status EXCEPT ![q] = "unused"]
          /\ parent' = [parent EXCEPT ![q] = None]
     \/ /\ \A q \in Proc : parent[q] # p
        /\ UNCHANGED <<status, parent>>
  /\ Done(p)
  /\ UNCHANGED <<pipeVars, fileVars, ofile, todo, fresh, fds, kills>>

(* init waits for everybody else's children. *)
init_wait(q) ==
  /\ parent[q] = None /\ status[q] = "zombie"
  /\ status' = [status EXCEPT ![q] = "unused"]
  /\ UNCHANGED <<pipeVars, fileVars, ofile, todo, fresh, parent, prog, fds, kills>>

(* kkill() of a running process: it wakes from whatever it sleeps on. *)
kkill(p) ==
  /\ kills < MaxKills
  /\ status[p] = "run" /\ killed[p] = 0
  /\ kills' = kills + 1
  /\ killed' = [killed EXCEPT ![p] = 1]
  /\ op' = [op EXCEPT ![p].at = CASE @ = "rsleep" -> "read" [] @ = "wsleep" -> "write" [] OTHER -> @]
  /\ UNCHANGED <<pipe, lock, ubuf, fileVars, ofile, todo, fresh, procVars>>
-----------------------------------------------------------------------------
otherVars == <<fileVars, ofile, todo, fresh, procVars, kills>>
PipeStep(p) == (piperead(p) \/ pipewrite(p) \/ pipeclose(p)) /\ UNCHANGED otherVars

(* Everything a process does; its parent, or init, is the one that reaps it. *)
Step(p) ==
  \/ PipeStep(p)
  \/ sys_rw(p) \/ sys_rw_end(p) \/ sys_close(p) \/ fileclose(p) \/ sys_dup(p) \/ BadCall(p)
  \/ filealloc(p) \/ pipealloc_bad(p) \/ sys_pipe(p)
  \/ sys_fork(p) \/ kexit(p) \/ kexit_zombie(p) \/ sys_wait(p) \/ init_wait(p)
-----------------------------------------------------------------------------
(* References in the hands of p: descriptors, files it is about to close, files it is opening. *)
Uses(p, f) ==
  Copies(p, f) + Cardinality({i \in 1..Len(todo[p]) : todo[p][i] = f})
               + Cardinality({i \in 1..Len(fresh[p]) : fresh[p][i] = f})
Total(f) == SumFunction([p \in Proc |-> Uses(p, f)])
Closing(pi, at) == \E p \in Proc : op[p].at = at /\ op[p].pi = pi
EndFiles(pi, w) == {f \in File : ftable[f].ref > 0 /\ ftable[f].type = "pipe" /\ ftable[f].pipe = pi
                                  /\ ftable[f].writable = w}

(* Every reference count is exact across dup, fork, close, exit and failing pipe() calls, and a
   pipe keeps its page and each end exactly as long as a file refers to that end: nothing leaks,
   nothing is closed early, and nobody reads or writes a freed pipe. *)
ReferencesAreExact ==
  /\ \A f \in File : ftable[f].ref = Total(f)
  /\ \A pi \in PipePage :
       /\ pipe[pi].readopen = Cardinality(EndFiles(pi, 0)) + (IF Closing(pi, "closer") THEN 1 ELSE 0)
       /\ pipe[pi].writeopen = Cardinality(EndFiles(pi, 1)) + (IF Closing(pi, "closew") THEN 1 ELSE 0)
       /\ pipe[pi].alloc <=> pipe[pi].readopen + pipe[pi].writeopen > 0
  /\ irefs = Cardinality({f \in File : ftable[f].ref > 0 /\ ftable[f].type = "device"})
  /\ \A p \in Proc :
       /\ op[p].at \in {"read", "rsleep"} => pipe[op[p].pi].readopen = 1
       /\ op[p].at \in {"write", "wloop", "wsleep"} => pipe[op[p].pi].writeopen = 1


(* "read se bloquea hasta que haya datos" (user/pipes.c): a sleeping reader has nothing to read,
   once no writer is in the middle of a call. *)
ReaderSleepsOnlyWhenEmpty ==
  \A p \in Proc : op[p].at = "rsleep" /\ lock[op[p].pi] = None => Empty(op[p].pi)

Streams == INSTANCE ByteStream WITH open <- {pi \in PipePage : pipe[pi].alloc},
                                    queue <- [pi \in PipePage |-> Stream(pi)]

(* A pipe is a bounded first-in first-out queue of bytes: the ring buffer neither loses, repeats
   nor reorders bytes, also when its counters wrap around. *)
ImplementsByteStream == Streams!Spec
=============================================================================
