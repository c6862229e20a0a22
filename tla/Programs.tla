------------------------------ MODULE Programs ------------------------------
(***************************************************************************)
(* The user programs that put pipes to work, as sequences of calls: the    *)
(* pipeline of the shell (user/sh.c) and the demonstrations of             *)
(* user/pipes.c, next to free programs that choose their calls.            *)
(***************************************************************************)
EXTENDS Files

CONSTANTS
  Init0,       \* the process that runs first
  Long         \* bytes of a write() that does not fit the pipe

VARIABLE scenario   \* which program was started
allVars == <<vars, scenario>>

pipe2 == [Instr("pipe") EXCEPT !.must = TRUE]
fork1(child) == [Instr("fork") EXCEPT !.must = TRUE, !.child = child]
close(fd) == OnFd("close", fd)
dup(fd) == OnFd("dup", fd)
wait == Instr("wait")

(* write_exact(), and one read_some(). *)
write(fd, n) == Transfer("write", fd, n, n)
read(fd, n) == Transfer("read", fd, n, n)

(* Reading to the end of the stream, as cat(), wc() and the children of the demonstrations do. *)
read_all(fd, n) == [read(fd, n) EXCEPT !.must = TRUE, !.all = TRUE]


(* runcmd(), case PIPE, with a program on the left that writes its standard output twice. *)
runcmd_PIPE ==
  <<pipe2,
    fork1(<<close(1), dup(P1), close(P0), close(P1), write(1, Long), write(1, 1)>>),
    fork1(<<close(0), dup(P0), close(P0), close(P1), read_all(0, Long)>>),
    close(P0), close(P1), wait, wait>>

demo_basico == <<pipe2, write(P1, 1), read(P0, 2), close(P0), close(P1)>>

demo_fork_herencia ==
  <<pipe2, fork1(<<close(P1), read_all(P0, 2), close(P0)>>),
    write(P1, 1), write(P1, 1), close(P1), wait, close(P0)>>

demo_bloqueo_vacio ==
  <<pipe2, fork1(<<close(P1), read(P0, 2), close(P0)>>), write(P1, 2), close(P1), wait, close(P0)>>

demo_bloqueo_lleno ==
  <<pipe2, fork1(<<close(P1), read_all(P0, 1), close(P0)>>), close(P0), write(P1, Long), close(P1), wait>>

demo_dup_exec_wc ==
  <<pipe2, fork1(<<close(0), dup(P0), close(P0), close(P1), read_all(0, Long)>>),
    close(P0), write(P1, 2), close(P1), wait>>

(* The demonstrations in the order of pipes.c's main(). *)
main == demo_basico \o demo_fork_herencia \o demo_bloqueo_vacio \o demo_bloqueo_lleno \o demo_dup_exec_wc

(* The next call of a free program: badly addressed buffers, exhausted tables and descriptors that
   are not open included.  talk keeps to the pipe it has. *)
any == Instr("any")
talk == Instr("talk")
Talk == { close(P0), close(P1), write(P1, 2), read(P0, 2) }
Choices(rest) ==
  Talk \cup { Transfer("write", P1, 2, 1), Transfer("read", P0, 2, 0) } \cup { [Instr("pipe") EXCEPT !.ok = k] : k \in 0..1 } \cup
  { OnFd("close", 0), dup(0), dup(P0), dup(P1), wait, [Instr("fork") EXCEPT !.child = rest] }

choose(p) ==
  /\ \E c \in IF Makes(p, {"any"}) THEN Choices(Tail(prog[p]))
              ELSE IF Makes(p, {"talk"}) THEN Talk ELSE {} :
       prog' = [prog EXCEPT ![p] = <<c>> \o Tail(@)]
  /\ UNCHANGED <<pipeVars, fileVars, ofile, todo, fresh, status, parent, fds, kills>>

Program ==
  [sh |-> runcmd_PIPE, pipes |-> main, alone |-> <<any, any>>,
   shared |-> <<pipe2, fork1(<<any>>), any>>,
   three |-> <<pipe2, close(0), close(1), fork1(<<talk>>), fork1(<<talk>>), talk>>]

Init == scenario \in DOMAIN Program /\ Start(Init0, Program[scenario])

Next ==
  /\ UNCHANGED scenario
  /\ \E p \in Proc : Step(p) \/ choose(p) \/ kkill(p)

(* The scheduler runs every runnable process again and again, and init() waits for its children. *)
Spec == Init /\ [][Next]_allVars /\ \A p \in Proc : WF_allVars(UNCHANGED scenario /\ Step(p))

=============================================================================
