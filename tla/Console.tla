------------------------------ MODULE Console -------------------------------
(***************************************************************************)
(* The screen (drivers/screen.c) and the shell (kernel/software/shell.c),  *)
(* beside tasks that write to the upper half of the screen.                *)
(*                                                                         *)
(* All write to one array of characters with one cursor, which scheduler() *)
(* saves and restores; every exception first sends to the terminal what    *)
(* has changed.  A system call is one step, and the shell is the sequence  *)
(* of system calls that it makes between two keys (`calls`).               *)
(*                                                                         *)
(* The name of a command is one character here, and so is every word that  *)
(* a message is made of.  Which task runs next is Kernel's subject: here   *)
(* any may.                                                                *)
(***************************************************************************)
EXTENDS Integers, Sequences, SequencesExt, FiniteSetsExt, FiniteSets

CONSTANTS
  SCREEN_WIDTH, SCREEN_HEIGHT,
  Char,                \* the characters, line feed and backspace aside
  Tasks,               \* pids of the tasks that the shell starts
  prefix,              \* the prompt
  test_tasks_num,
  TaskTexts,           \* what these tasks write
  Replies,             \* what a command that only prints may print
  Lines                \* the lines that are typed, mistakes aside

Shell == 1
Boot == 0
Half == SCREEN_HEIGHT \div 2
Capacity == SCREEN_WIDTH - Len(prefix)

AnyChar == Char \cup {"LF", "BS"}

ASSUME ConsoleAssumption ==
  /\ SCREEN_WIDTH \in Nat /\ SCREEN_HEIGHT \in Nat /\ SCREEN_HEIGHT > 5
  /\ Tasks \subseteq Nat \ {Boot, Shell} /\ IsFiniteSet(Tasks)
  /\ test_tasks_num \in Nat
ASSUME TextsAssumption ==
  /\ {"SP", "-", "pid", "error", "nosuch"} \subseteq Char
  /\ "LF" \notin Char /\ "BS" \notin Char
  /\ prefix \in Seq(Char) /\ Len(prefix) > 0 /\ Capacity > 0
  /\ TaskTexts \subseteq Seq(AnyChar) /\ Replies \subseteq Seq(AnyChar)
  /\ Lines \subseteq Seq(Char) \ {<<>>}

VARIABLES
  screen,              \* new_screen, screen_cursor_x and screen_cursor_y
  old_screen,
  terminal,            \* external: what can be seen, its rows and columns from 1
  current_running, live,
  cursor,              \* cursor_x and cursor_y of the pcbs
  calls,               \* what the shell does before it reads the next key
  input_buffer,        \* up to buffer_index
  askew                \* history: the line was filled, or began after other output

shellVars == <<calls, input_buffer, askew>>
vars == <<screen, old_screen, terminal, current_running, live, cursor, shellVars>>

Rows == 0 .. SCREEN_HEIGHT - 1
Columns == 0 .. SCREEN_WIDTH - 1
All(ch) == [i \in Rows |-> [j \in Columns |-> ch]]

-----------------------------------------------------------------------------
\* screen.c.  A screen is a record of the cells and the cursor.

screen_scroll(cell, line1, line2) ==
  [i \in Rows |-> CASE i = line2 -> [j \in Columns |-> "SP"]
                    [] i \in line1 .. line2 - 1 -> cell[i + 1]
                    [] OTHER -> cell[i]]

\* The three parts of screen_write_ch.
Put(s, ch) ==
  CASE ch = "LF" -> [cell |-> s.cell, x |-> 0, y |-> s.y + 1]
    [] ch = "BS" -> IF s.x > 0 THEN [s EXCEPT !.x = @ - 1, !.cell[s.y][s.x - 1] = "SP"] ELSE s
    [] OTHER -> [s EXCEPT !.cell[s.y][s.x] = ch, !.x = @ + 1]

Wrap(s) == IF s.x = SCREEN_WIDTH THEN [cell |-> s.cell, x |-> 0, y |-> s.y + 1] ELSE s

\* Faulty variant of KeepLastLine: the last line is not preserved.
KeepLastLine_not(s) ==
  IF s.y = SCREEN_HEIGHT
  THEN [cell |-> screen_scroll(s.cell, Half + 1, SCREEN_HEIGHT - 1),
        x |-> 0, y |-> SCREEN_HEIGHT - 1]
  ELSE s

KeepLastLine(s) ==
  IF s.y = SCREEN_HEIGHT - 1
  THEN [cell |-> screen_scroll(s.cell, Half + 1, SCREEN_HEIGHT - 2),
        x |-> 0, y |-> SCREEN_HEIGHT - 2]
  ELSE s

screen_write_ch(s, ch) == KeepLastLine(Wrap(Put(s, ch)))

\* The screen after each turn of the loop of screen_write.
Written(s, buff) ==
  LET w[n \in 0 .. Len(buff)] == IF n = 0 THEN s ELSE screen_write_ch(w[n - 1], buff[n])
  IN  w

screen_write(s, buff) == Written(s, buff)[Len(buff)]

\* new_screen after the loop of screen_clear.
screen_clear(s, line1, line2) ==
  [s EXCEPT !.cell = [i \in Rows |-> IF i \in line1 .. line2 THEN [j \in Columns |-> "SP"] ELSE @[i]]]

screen_move_cursor(s, x, y) == [cell |-> s.cell, x |-> x, y |-> y]

\* Faulty variant of screen_reflush: blanks are not sent.
screen_reflush_text(term, old, cell) ==
  [i \in 1 .. SCREEN_HEIGHT |-> [j \in 1 .. SCREEN_WIDTH |->
    IF cell[i - 1][j - 1] # old[i - 1][j - 1] /\ cell[i - 1][j - 1] # "SP"
    THEN cell[i - 1][j - 1] ELSE term[i][j]]]

\* What the terminal shows after a screen_reflush.
screen_reflush(term, old, cell) ==
  [i \in 1 .. SCREEN_HEIGHT |-> [j \in 1 .. SCREEN_WIDTH |->
    IF cell[i - 1][j - 1] # old[i - 1][j - 1] THEN cell[i - 1][j - 1] ELSE term[i][j]]]

\* exception_handler calls screen_reflush before anything else.
Reflush ==
  /\ terminal' = screen_reflush(terminal, old_screen, screen.cell)
  /\ old_screen' = screen.cell

\* Then the call changes the screen and calls screen_reflush itself.
ReflushTwice ==
  /\ terminal' = screen_reflush(screen_reflush(terminal, old_screen, screen.cell),
                                screen.cell, screen'.cell)
  /\ old_screen' = screen'.cell

-----------------------------------------------------------------------------
\* shell.c, with what it uses of string.c.
Write(text) == <<"write", text>>
Clear(line1, line2) == <<"clear", line1, line2>>
Cursor(x, y) == <<"cursor", x, y>>

NoSuchCommend == <<"nosuch", "LF">>
Error == <<"error", "LF">>

separate(s, separator) ==
  LET found == {i \in DOMAIN s : s[i] = separator}
  IN  IF found = {} THEN -1 ELSE Min(found) - 1

Digit(c) == CASE c = "0" -> 0 [] c = "1" -> 1 [] c = "2" -> 2 [] c = "3" -> 3 [] OTHER -> -1

atoi(s) ==
  IF \E i \in DOMAIN s : Digit(s[i]) = -1 THEN -1
  ELSE FoldLeft(LAMBDA n, c : n * 10 + Digit(c), 0, s)

\* The commands on files, which change nothing but the card and print something,
\* or nothing.  (run, which starts a task as exec does, is left out.)
FileCommends == {"mkfs", "statfs", "currdir", "mkdir", "rmdir", "ls", "cd", "touch", "cat"}

\* parse_commend: the calls for a line, r being what a command on files prints.
\* Without an argument separate() returns -1, which is not the buffer_index
\* that the code compares it with: the argument is then the whole line, and a
\* terminator is written to the byte before input_buffer.
parse_commend(line, r) ==
  LET separator_position == separate(line, "SP")
      word == IF separator_position = -1 THEN line ELSE SubSeq(line, 1, separator_position)
      arg_string == SubSeq(line, separator_position + 2, Len(line))
      arg_int == IF separator_position # Len(line) THEN atoi(arg_string) ELSE 0
      ClearLower == <<Clear(Half + 1, SCREEN_HEIGHT - 1), Cursor(0, Half + 1)>>
      ClearUpper == <<Clear(0, Half - 1)>>
  IN  CASE word = <<"ps">>    -> <<<<"show">>>>
        [] word = <<"clear">> -> IF arg_int = 0 THEN ClearLower
                                 ELSE IF arg_int = 1 THEN ClearUpper
                                 ELSE ClearUpper \o ClearLower
        [] word = <<"exec">>  -> IF arg_int > test_tasks_num \/ arg_int < 1 THEN <<Write(Error)>>
                                 ELSE <<<<"spawn">>>>
        [] word = <<"kill">>  -> <<<<"kill", arg_int>>>>
        [] Len(word) = 1 /\ word[1] \in FileCommends -> <<Write(r)>>
        [] OTHER              -> IF line # <<>> THEN <<Write(NoSuchCommend)>> ELSE <<>>

\* sw_shell before its loop.
Welcome ==
  <<Cursor(0, Half)>> \o [i \in 1 .. SCREEN_WIDTH |-> Write(<<"-">>)] \o <<Write(prefix)>>

\* show_process: a heading of two lines, and a line for the shell, for io_proc
\* and for each of the tasks.
ProcessTable(tasks) ==
  [i \in 1 .. 2 * (4 + Cardinality(tasks)) |-> IF i % 2 = 1 THEN "pid" ELSE "LF"]

-----------------------------------------------------------------------------
Home == <<0, 0>>

\* init_screen finds another boot's text on the terminal; the start-up messages
\* have been cleared but have moved the cursor.  The shell has not run yet.
Init ==
  /\ screen = [cell |-> All("SP"), x |-> 0, y |-> 2]
  /\ old_screen = All("SP")
  /\ terminal = screen_reflush([i \in 1 .. SCREEN_HEIGHT |-> [j \in 1 .. SCREEN_WIDTH |-> "?"]],
                               All("NUL"), All("SP"))
  /\ current_running = Boot /\ live = {}
  /\ cursor = [p \in {Boot, Shell} \cup Tasks |-> Home]
  /\ calls = Welcome /\ input_buffer = <<>> /\ askew = FALSE

\* scheduler() selects p.  While a task runs, what its pcb holds is not used.
SwitchTo(p) ==
  LET saved == [cursor EXCEPT ![current_running] = <<screen.x, screen.y>>]
  IN  /\ current_running' = p
      /\ screen' = screen_move_cursor(screen, saved[p][1], saved[p][2])
      /\ cursor' = [saved EXCEPT ![p] = Home]

Tick ==
  /\ \E p \in live \cup {Shell} : SwitchTo(p)
  /\ Reflush
  /\ UNCHANGED <<live, shellVars>>

-----------------------------------------------------------------------------
\* The other tasks: no character that they write is below the upper half.
Fits(text) == \A n \in 0 .. Len(text) - 1 : Written(screen, text)[n].y < Half

TaskWrite(text) ==
  /\ current_running \in Tasks /\ Fits(text)
  /\ screen' = screen_write(screen, text)
  /\ Reflush
  /\ UNCHANGED <<current_running, live, cursor, shellVars>>

\* sys_move_cursor to one of the print locations of the test programs.
TaskMove ==
  /\ current_running \in Tasks
  /\ \E i \in {0, 1} : screen' = screen_move_cursor(screen, 0, i)
  /\ Reflush
  /\ UNCHANGED <<current_running, live, cursor, shellVars>>

TaskExit ==
  /\ current_running \in Tasks
  /\ live' = live \ {current_running}
  /\ \E p \in live' \cup {Shell} : SwitchTo(p)
  /\ Reflush
  /\ UNCHANGED shellVars

-----------------------------------------------------------------------------
\* A system call of the shell.
ShellCalls(name) == current_running = Shell /\ calls # <<>> /\ Head(calls)[1] = name

\* The shell goes on after the call, having first to print an error if it failed.
Proceed(ok) == calls' = IF ok THEN Tail(calls) ELSE <<Write(Error)>> \o Tail(calls)

ShellWrite ==
  /\ ShellCalls("write")
  /\ screen' = screen_write(screen, Head(calls)[2])
  /\ Reflush /\ Proceed(TRUE)
  /\ UNCHANGED <<current_running, live, cursor, input_buffer, askew>>

ShellCursor ==
  /\ ShellCalls("cursor")
  /\ screen' = screen_move_cursor(screen, Head(calls)[2], Head(calls)[3])
  /\ Reflush /\ Proceed(TRUE)
  /\ UNCHANGED <<current_running, live, cursor, input_buffer, askew>>

ShellClear ==
  /\ ShellCalls("clear")
  /\ screen' = screen_clear(screen, Head(calls)[2], Head(calls)[3])
  /\ ReflushTwice /\ Proceed(TRUE)
  /\ UNCHANGED <<current_running, live, cursor, input_buffer, askew>>

show_process ==
  /\ ShellCalls("show")
  /\ screen' = screen_write(screen, ProcessTable(live))
  /\ ReflushTwice /\ Proceed(TRUE)
  /\ UNCHANGED <<current_running, live, cursor, input_buffer, askew>>

\* Faulty variant of PcbCursor: a new task finds the cursor of the last one.
PcbCursor_kept(t) == cursor

\* init_pcb.
PcbCursor(t) == [cursor EXCEPT ![t] = Home]

ShellSpawn ==
  /\ ShellCalls("spawn")
  /\ \/ /\ live # Tasks
        /\ \E t \in Tasks \ live : live' = live \cup {t} /\ cursor' = PcbCursor(t)
     \/ live = Tasks /\ UNCHANGED <<live, cursor>>
  /\ Reflush /\ Proceed(live # Tasks)
  /\ UNCHANGED <<screen, current_running, input_buffer, askew>>

ShellKill ==
  /\ ShellCalls("kill")
  /\ live' = live \ {Head(calls)[2]}
  /\ Reflush /\ Proceed(Head(calls)[2] \in live)
  /\ UNCHANGED <<screen, current_running, cursor, input_buffer, askew>>

-----------------------------------------------------------------------------
Reading == current_running = Shell /\ calls = <<>>

EndsLine(text) == text = <<>> \/ Last(text) = "LF"

KeyEnter ==
  /\ Reading
  /\ \E r \in Replies :
       LET todo == parse_commend(input_buffer, r)
       IN  /\ calls' = <<Write(<<"LF">>)>> \o todo \o <<Write(prefix)>>
           /\ askew' = \E i \in DOMAIN todo : todo[i][1] = "write" /\ ~ EndsLine(todo[i][2])
  /\ input_buffer' = <<>>
  /\ Reflush
  /\ UNCHANGED <<screen, current_running, live, cursor>>

\* Faulty variant of Erased: an empty line is erased, too.
Erased_always == <<SubSeq(input_buffer, 1, Len(input_buffer) - 1), <<Write(<<"BS">>)>>>>

\* input_buffer after a backspace, and what is echoed.
Erased ==
  IF input_buffer # <<>>
  THEN <<SubSeq(input_buffer, 1, Len(input_buffer) - 1), <<Write(<<"BS">>)>>>>
  ELSE <<<<>>, <<>>>>

KeyBackspace ==
  /\ Reading
  /\ input_buffer' = Erased[1] /\ calls' = Erased[2]
  /\ Reflush
  /\ UNCHANGED <<screen, current_running, live, cursor, askew>>

\* Any other character.  In a full line it begins a new one, after a message,
\* and is not echoed there.
KeyCharacter(c) ==
  /\ Reading
  /\ \/ /\ Len(input_buffer) = Capacity
        /\ input_buffer' = <<c>>
        /\ calls' = <<Write(<<c>>), Write(NoSuchCommend), Write(prefix)>>
     \/ /\ Len(input_buffer) # Capacity
        /\ input_buffer' = Append(input_buffer, c)
        /\ calls' = <<Write(<<c>>)>>
  /\ askew' = (askew \/ Len(input_buffer) + 1 >= Capacity)
  /\ Reflush
  /\ UNCHANGED <<screen, current_running, live, cursor>>

\* What the user may type next.
Typed ==
  IF Len(input_buffer) = Capacity THEN {Head(l) : l \in Lines}
  ELSE {l[Len(input_buffer) + 1] : l \in {x \in Lines : IsStrictPrefix(input_buffer, x)}}

Next ==
  \/ Tick
  \/ TaskMove \/ TaskExit \/ (\E text \in TaskTexts : TaskWrite(text))
  \/ ShellWrite \/ ShellCursor \/ ShellClear \/ show_process \/ ShellSpawn \/ ShellKill
  \/ KeyEnter \/ KeyBackspace \/ (\E c \in Typed : KeyCharacter(c))

Spec == Init /\ [][Next]_vars

-----------------------------------------------------------------------------
\* The cursor that a task sees.
CursorOf(p) == IF p = current_running THEN <<screen.x, screen.y>> ELSE cursor[p]

\* The screen keeps its layout: nobody writes to the line between the halves
\* once it is there, nor to the last one ("preserve one line to adapt
\* minicom", drivers/screen.c:90); the cursors of the tasks stay above it, the
\* shell's below, and input_buffer has room for the terminator.
LayoutOK ==
  /\ screen.cell[SCREEN_HEIGHT - 1] = [j \in Columns |-> "SP"]
  /\ Len(input_buffer) < SCREEN_WIDTH
  /\ calls = <<>> =>
       /\ screen.cell[Half] = [j \in Columns |-> "-"]
       /\ CursorOf(Shell) \in Columns \X (Half + 1 .. SCREEN_HEIGHT - 2)
  /\ \A t \in live : CursorOf(t) \in Columns \X (0 .. Half)

\* What is typed is what the prompt shows and what will be executed: whatever
\* the other tasks write meanwhile, the line of the shell's cursor is the
\* prompt, the characters of input_buffer and blanks.  (A line that has been
\* filled, or that began after output that does not end in a line feed, is
\* shown otherwise, until the next one.)
EchoOK ==
  calls = <<>> /\ ~ askew =>
    LET shown == prefix \o input_buffer
        at == CursorOf(Shell)
    IN  /\ at[1] = Len(shown)
        /\ \A j \in Columns :
             screen.cell[at[2]][j] = IF j < Len(shown) THEN shown[j + 1] ELSE "SP"

\* The cells as the terminal numbers them.
Numbered(cell) == [i \in 1 .. SCREEN_HEIGHT |-> [j \in 1 .. SCREEN_WIDTH |-> cell[i - 1][j - 1]]]

\* No output is lost on its way to the terminal, although "we only refresh the
\* characters that have been modified" (drivers/screen.c:142): after every
\* exception the terminal shows all that had been written before it.
ShownOK ==
  [][terminal' \in {Numbered(screen.cell), Numbered(screen.cell)'}]_vars

\* The windows that the console implements: their rows, the cursors in them,
\* and what the shell writes to its own.
InWindow(at) == IF at[2] <= Half THEN Home ELSE <<at[1], at[2] - (Half + 1)>>

LowerHeight == SCREEN_HEIGHT - Half - 2

RowsOf(cell, top, h) == [i \in 0 .. h - 1 |-> cell[top + i]]

Upper == RowsOf(screen.cell, 0, Half)
Lower == RowsOf(screen.cell, Half + 1, LowerHeight)
WindowCursor ==
  [p \in Tasks \cup {Shell} |-> IF p = Shell THEN InWindow(CursorOf(p)) ELSE CursorOf(p)]

ShellTexts ==
  {<<c>> : c \in {"LF", "BS"} \cup UNION {ToSet(l) : l \in Lines}}
  \cup Replies \cup {prefix, NoSuchCommend, Error} \cup {ProcessTable(x) : x \in SUBSET Tasks}

W == INSTANCE Windows WITH
  Width <- SCREEN_WIDTH, UpperHeight <- Half,
  upper <- Upper, lower <- Lower, cursor <- WindowCursor

\* One array, one cursor and one function that writes are as good as a window
\* for the tasks, one for the shell, and a cursor for each of them: neither
\* the scheduler, wherever it switches, nor scrolling, nor clear, nor a pid
\* that is used again makes one task write where another one writes.
WindowsSpec == W!Spec
=============================================================================
