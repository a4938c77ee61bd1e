------------------------------ MODULE Windows -------------------------------
(***************************************************************************)
(* What the console promises: two windows, the upper one for the tasks and *)
(* the lower one for the shell, which scrolls, and for every task a cursor *)
(* of its own in its window.  There is neither a shared cursor nor a       *)
(* running task here.                                                      *)
(***************************************************************************)
EXTENDS Integers, Sequences

CONSTANTS
  Width, UpperHeight, LowerHeight,
  Tasks, Shell,
  TaskTexts, ShellTexts      \* what the tasks and the shell write

VARIABLES
  live,                      \* the tasks that there are, besides the shell
  upper, lower,              \* the windows: rows of cells
  cursor                     \* of each task, <<column, row>> in its window

vars == <<live, upper, lower, cursor>>

Home == <<0, 0>>
BlankRow == [j \in 0 .. Width - 1 |-> "SP"]
Blank(h) == [i \in 0 .. h - 1 |-> BlankRow]

Init ==
  /\ live = {}
  /\ upper = Blank(UpperHeight) /\ lower = Blank(LowerHeight)
  /\ cursor = [t \in Tasks \cup {Shell} |-> Home]

\* A character on a window of which `at` is the cursor.
Type(w, ch) ==
  LET x == w.at[1]
      y == w.at[2]
  IN  CASE ch = "LF" -> [rows |-> w.rows, at |-> <<0, y + 1>>]
        [] ch = "BS" -> IF x = 0 THEN w
                        ELSE [rows |-> [w.rows EXCEPT ![y][x - 1] = "SP"], at |-> <<x - 1, y>>]
        [] OTHER -> [rows |-> [w.rows EXCEPT ![y][x] = ch],
                     at   |-> IF x + 1 = Width THEN <<0, y + 1>> ELSE <<x + 1, y>>]

\* The cursor has left the last row: the rows move up.
Scrolled(w, h) ==
  IF w.at[2] < h THEN w
  ELSE [rows |-> [i \in 0 .. h - 1 |-> IF i < h - 1 THEN w.rows[i + 1] ELSE BlankRow],
        at   |-> <<0, h - 1>>]

\* The window w after each character of a text ...
Typed(w, text) ==
  LET v[n \in 0 .. Len(text)] == IF n = 0 THEN w ELSE Type(v[n - 1], text[n])
  IN  v

\* ... and if it scrolls, with h rows.
TypedScrolling(w, text, h) ==
  LET v[n \in 0 .. Len(text)] == IF n = 0 THEN w ELSE Scrolled(Type(v[n - 1], text[n]), h)
  IN  v

-----------------------------------------------------------------------------
TaskWrite(t, text) ==
  LET v == Typed([rows |-> upper, at |-> cursor[t]], text)
      w == v[Len(text)]
  IN  /\ \A n \in 0 .. Len(text) - 1 : v[n].at[2] < UpperHeight
      /\ upper' = w.rows /\ cursor' = [cursor EXCEPT ![t] = w.at]
      /\ UNCHANGED <<live, lower>>

TaskMove(t) ==
  /\ \E i \in 0 .. UpperHeight - 1 : cursor' = [cursor EXCEPT ![t] = <<0, i>>]
  /\ UNCHANGED <<live, upper, lower>>

ShellWrite(text) ==
  LET w == TypedScrolling([rows |-> lower, at |-> cursor[Shell]], text, LowerHeight)[Len(text)]
  IN  /\ lower' = w.rows /\ cursor' = [cursor EXCEPT ![Shell] = w.at]
      /\ UNCHANGED <<live, upper>>

\* The shell's command clear.
ClearUpper == upper' = Blank(UpperHeight) /\ UNCHANGED <<live, lower, cursor>>
ClearLower == lower' = Blank(LowerHeight) /\ UNCHANGED <<live, upper, cursor>>
ShellHome == cursor' = [cursor EXCEPT ![Shell] = Home] /\ UNCHANGED <<live, upper, lower>>

\* A new task begins at the home position, whoever had its pid before.
Spawn(t) ==
  /\ t \in Tasks \ live /\ live' = live \cup {t}
  /\ cursor' = [cursor EXCEPT ![t] = Home]
  /\ UNCHANGED <<upper, lower>>

\* A task ends, of itself or because it is killed.
End(t) == t \in live /\ live' = live \ {t} /\ UNCHANGED <<upper, lower, cursor>>

Next ==
  \/ \E t \in Tasks : Spawn(t)
  \/ \E t \in live : TaskMove(t) \/ End(t) \/ \E text \in TaskTexts : TaskWrite(t, text)
  \/ \E text \in ShellTexts : ShellWrite(text)
  \/ ClearUpper \/ ClearLower \/ ShellHome

Spec == Init /\ [][Next]_vars
=============================================================================
