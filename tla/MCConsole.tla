----------------------------- MODULE MCConsole ------------------------------
(***************************************************************************)
(* Instances of Console: each initial state is one of the scenarios below. *)
(***************************************************************************)
EXTENDS Console, TLC

CONSTANTS C0, C1, P, Q

MCLock == {"cons", "tx", "pr", "tickslock"}

C(op, n, ok) == [op |-> op, n |-> n, ok |-> ok]
S(on, p, q, keys, of, timers, kills, index, clock) ==
  [on |-> on, prog |-> P :> p @@ Q :> q, index |-> index, clock |-> clock,
   left |-> [keys |-> keys, on |-> of, timers |-> timers, kills |-> kills]]

MCScenario == {
  \* One hart and one reader: every short sequence of keys.
  S({C0}, <<C("read", 1, TRUE), C("read", 2, TRUE)>>, <<>>,
    3, {"x", "\n", "^D", "^U", "^H"}, 0, 0, UINT - 2, 0),
  S({C0}, <<C("read", 2, TRUE), C("read", 2, FALSE)>>, <<>>,
    3, {"x", "\n", "^D", "^U", "^H"}, 0, 0, UINT - 2, 0),
  \* A buffer that fills up.
  S({C0}, <<C("read", 2, TRUE)>>, <<>>, 5, {"x"}, 0, 0, 0, 0),
  \* Two harts: a writer, the echo, and a reader.
  S(Cpu, <<C("read", 1, TRUE)>>, <<C("write", 3, TRUE)>>, 1, {"\r", "0"}, 0, 0, 0, 0),
  \* Two harts: printf(), a writer and the process list.
  S(Cpu, <<C("printf", 2, TRUE)>>, <<C("write", 2, TRUE), C("write", 1, FALSE)>>,
    1, {"^P", "x"}, 0, 0, 0, 0),
  \* Two harts, two readers and one line, and a timer interrupt that moves one of them.
  S(Cpu, <<C("read", 1, TRUE)>>, <<C("read", 1, TRUE)>>, 1, {"\n"}, 1, 0, 0, 0),
  \* The clock, with ticks about to wrap around, and a reader to kill.
  S(Cpu, <<C("pause", 2, TRUE)>>, <<C("read", 1, TRUE)>>, 0, {}, 3, 1, 0, UINT - 1) }

=============================================================================
