------------------------------ MODULE Terminal ------------------------------
(***************************************************************************)
(* What the console promises to its readers: a line that can be edited     *)
(* until it is finished, finished characters that are read once each, in   *)
(* the order they were typed, and an end-of-file that one read() sees.     *)
(***************************************************************************)
EXTENDS Naturals, Sequences

CONSTANTS
  Proc,    \* readers
  Size     \* characters typed and not yet read

VARIABLES
  line,    \* the line being edited
  ready,   \* finished characters that nobody has read yet
  got      \* what each reader's current read() has so far

vars == <<line, ready, got>>

Init == line = <<>> /\ ready = <<>> /\ got = [p \in Proc |-> <<>>]

(* A character is typed, if there is room; it ends the line if it is a newline, an end-of-file
   or the last one that fits. *)
Type(ch) ==
  /\ Len(ready) + Len(line) < Size
  /\ IF ch \in {"\n", "^D"} \/ Len(ready) + Len(line) + 1 = Size
     THEN ready' = ready \o Append(line, ch) /\ line' = <<>>
     ELSE line' = Append(line, ch) /\ UNCHANGED ready
  /\ UNCHANGED got

(* The last character, or the whole line, is erased: never a finished character. *)
Erase ==
  /\ line # <<>>
  /\ line' \in {<<>>, SubSeq(line, 1, Len(line) - 1)}
  /\ UNCHANGED <<ready, got>>

Read(p) == got' = [got EXCEPT ![p] = <<>>] /\ UNCHANGED <<line, ready>>

(* A reader takes the next character; it may fail to keep it. *)
Take(p) ==
  /\ ready # <<>> /\ Head(ready) # "^D"
  /\ ready' = Tail(ready)
  /\ got' \in {got, [got EXCEPT ![p] = Append(@, Head(ready))]}
  /\ UNCHANGED line

(* Only a read() that has nothing uses the end-of-file up. *)
EndOfFile(p) ==
  /\ ready # <<>> /\ Head(ready) = "^D" /\ got[p] = <<>>
  /\ ready' = Tail(ready)
  /\ UNCHANGED <<line, got>>

Key == {"x", "\n", "^D"}

Next ==
  \/ \E ch \in Key : Type(ch)
  \/ Erase
  \/ \E p \in Proc : Read(p) \/ Take(p) \/ EndOfFile(p)

Spec == Init /\ [][Next]_vars

=============================================================================
