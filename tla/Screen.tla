------------------------------- MODULE Screen -------------------------------
(***************************************************************************)
(* The screen of drivers/screen.c, shared by all processes: the buffers    *)
(* new_screen and old_screen, the one cursor, which the scheduler saves in *)
(* the task's pcb and restores, and the terminal behind the serial port.   *)
(*                                                                         *)
(* The system calls run with the interrupts closed; a switch may come      *)
(* between any two of them.  The kernel's printk, which writes to the port *)
(* past the buffers, is left out.                                          *)
(***************************************************************************)
EXTENDS Integers, Sequences

CONSTANTS
    Procs,
    Shell,                          \* the process that spawns the others
    SCREEN_WIDTH, SCREEN_HEIGHT,    \* 80 and 60 in screen.h
    Texts,                          \* what is written: sequences of characters
    MaxCalls                        \* bound: system calls in a behaviour

Nul == "nul"
Newline == "newline"
Backspace == "backspace"
Enter == "enter"
Blank == "blank"

\* A text is a string of C: it ends before the first '\0'.
ASSUME ScreenAssumption ==
    /\ SCREEN_WIDTH \in Nat \ {0} /\ SCREEN_HEIGHT \in Nat \ {0}
    /\ Shell \in Procs
    /\ Texts \subseteq Seq(STRING \ {Nul})

VARIABLES
    scr,        \* new_screen, old_screen, the terminal and the cursor
    saved,      \* cursor_x and cursor_y in each pcb
    running,    \* current_running
    alive,      \* the processes that have been spawned and have not ended
    kept,       \* screen_cursor_x_saved and screen_cursor_y_saved of the shell
    calls,      \* system calls so far
    at          \* history: where each process's own calls have left the cursor

vars == <<scr, saved, running, alive, kept, calls, at>>

Cells == 0 .. SCREEN_HEIGHT * SCREEN_WIDTH - 1
Columns == 0 .. SCREEN_WIDTH - 1
Lines == 0 .. SCREEN_HEIGHT - 1
LineOf(c) == c \div SCREEN_WIDTH

Cursor(s) == [x |-> s.x, y |-> s.y]
Origin == [x |-> 0, y |-> 0]
NoCursor == [x |-> -1, y |-> -1]

\* The lines line1 .. line2 move up by one, and are to be printed again.
screen_scroll(s, line1, line2) ==
    [s EXCEPT
        !.old = [c \in Cells |-> IF LineOf(c) \in line1 .. line2 THEN Nul ELSE s.old[c]],
        !.new = [c \in Cells |->
                    IF LineOf(c) = line2 THEN Blank
                    ELSE IF LineOf(c) \in line1 .. line2 - 1 THEN s.new[c + SCREEN_WIDTH]
                    ELSE s.new[c]]]

NextLine(s) == [s EXCEPT !.x = 0, !.y = @ + 1]

\* A character in the cell that is d columns from the cursor; the cursor goes
\* to column x.
Store(s, d, ch, x) == [s EXCEPT !.x = x, !.new[s.y * SCREEN_WIDTH + s.x + d] = ch]

\* The character itself.
PutChar(s, ch) ==
    CASE ch \in {Newline, Enter} -> NextLine(s)
      [] ch = Backspace -> IF s.x > 0 THEN Store(s, -1, Blank, s.x - 1) ELSE s
      [] OTHER -> Store(s, 0, ch, s.x + 1)

\* The end of a line.
WrapLine(s) == IF s.x >= SCREEN_WIDTH THEN NextLine(s) ELSE s

\* The end of the screen: its lower half scrolls.
ScrollAtEnd(s) ==
    IF s.y >= SCREEN_HEIGHT
    THEN [screen_scroll(s, (SCREEN_HEIGHT \div 2) + 1, SCREEN_HEIGHT - 1)
            EXCEPT !.x = 0, !.y = SCREEN_HEIGHT - 1]
    ELSE s

screen_write_ch(s, ch) == ScrollAtEnd(WrapLine(PutChar(s, ch)))

screen_write(s, buff) ==
    LET after[n \in 0 .. Len(buff)] ==
            IF n = 0 THEN s ELSE screen_write_ch(after[n - 1], buff[n])
    IN  after[Len(buff)]

\* Bug: only cells that old_screen marks as unknown are printed.
AssumesPrinted(s) ==
    [s EXCEPT !.term = [c \in Cells |-> IF s.old[c] = Nul THEN s.new[c] ELSE s.term[c]],
              !.old = s.new]

\* ESC [ y ; x H counts from 1, and takes 0 for 1.
vt100_move_cursor(s, x, y) ==
    [s EXCEPT !.tx = IF x = 0 THEN 0 ELSE x - 1, !.ty = IF y = 0 THEN 0 ELSE y - 1]

\* Only the cells that differ from old_screen go to the terminal.
screen_reflush(s) ==
    vt100_move_cursor(
        [s EXCEPT !.term = [c \in Cells |-> IF s.new[c] # s.old[c] THEN s.new[c] ELSE s.term[c]],
                  !.old = s.new],
        s.x, s.y)

\* Whatever line1 and line2 are, the whole screen is cleared.
screen_clear(s, line1, line2) ==
    screen_reflush([s EXCEPT !.new = [c \in Cells |-> Blank],
                             !.old = [c \in Cells |-> Nul],
                             !.x = 0, !.y = 0])

screen_move_cursor(s, x, y) == [s EXCEPT !.x = x, !.y = y]

do_write(s, buff) == screen_reflush(screen_write(s, buff))

\* vt100_clear leaves a blank terminal, init_screen then clears the buffers.
init_screen ==
    screen_clear([new |-> [c \in Cells |-> Nul], old |-> [c \in Cells |-> Nul],
                  term |-> [c \in Cells |-> Blank], x |-> 0, y |-> 0, tx |-> 0, ty |-> 0],
                 0, SCREEN_HEIGHT - 1)

Init ==
    /\ scr = init_screen
    /\ saved = [p \in Procs |-> Origin]
    /\ running = Shell /\ alive = {Shell}
    /\ kept = NoCursor
    /\ calls = 0
    /\ at = [p \in Procs |-> Origin]

\* The shell is inside "exec", between sys_spawn and its next step.
InExec == running = Shell /\ kept # NoCursor

\* A system call of the running process.
Call(s) ==
    /\ ~InExec
    /\ calls < MaxCalls
    /\ calls' = calls + 1
    /\ scr' = s
    /\ at' = [at EXCEPT ![running] = Cursor(s)]
    /\ UNCHANGED <<saved, running, alive, kept>>

Write == \E buff \in Texts : Call(do_write(scr, buff))
MoveCursor == \E x \in Columns, y \in Lines : Call(screen_move_cursor(scr, x, y))
Clear == Call(screen_clear(scr, 0, 0))
Reflush == Call(screen_reflush(scr))

\* Bug: the cursor of the process that stops is not saved.
SwitchUnsaved ==
    \E p \in alive \ {running} :
        /\ running' = p
        /\ scr' = [scr EXCEPT !.x = saved[p].x, !.y = saved[p].y]
        /\ UNCHANGED <<saved, alive, kept, calls, at>>

\* scheduler(): the cursor belongs to the running process.
scheduler ==
    \E p \in alive \ {running} :
        /\ saved' = [saved EXCEPT ![running] = Cursor(scr)]
        /\ running' = p
        /\ scr' = [scr EXCEPT !.x = saved[p].x, !.y = saved[p].y]
        /\ UNCHANGED <<alive, kept, calls, at>>

\* The shell's "exec" remembers the cursor; do_spawn gives the new task one.
Spawn ==
    \E p \in Procs \ alive :
        /\ running = Shell /\ ~InExec
        /\ alive' = alive \cup {p}
        /\ saved' = [saved EXCEPT ![p] = Origin]
        /\ at' = [at EXCEPT ![p] = Origin]
        /\ kept' = Cursor(scr)
        /\ UNCHANGED <<scr, running, calls>>

\* The shell sets the cursor to what it was before it spawned a task, perhaps
\* after other processes have run.
RestoreAfterExec ==
    /\ InExec
    /\ scr' = [scr EXCEPT !.x = kept.x, !.y = kept.y]
    /\ kept' = NoCursor
    /\ UNCHANGED <<saved, running, alive, calls, at>>

\* do_exit ends with scheduler().
Exit ==
    \E p \in alive \ {running} :
        /\ running # Shell
        /\ alive' = alive \ {running}
        /\ saved' = [saved EXCEPT ![running] = Cursor(scr)]
        /\ running' = p
        /\ scr' = [scr EXCEPT !.x = saved[p].x, !.y = saved[p].y]
        /\ UNCHANGED <<kept, calls, at>>

Next ==
    \/ Write \/ MoveCursor \/ Clear \/ Reflush
    \/ scheduler \/ Spawn \/ RestoreAfterExec \/ Exit

Spec == Init /\ [][Next]_vars

-----------------------------------------------------------------------------
Positions == [x : Columns, y : Lines]

(* screen_reflush prints only what differs from old_screen; the terminal   *)
(* still shows new_screen after every call, scrolled and cleared lines     *)
(* included.                                                               *)
Shown == scr.term = scr.new

(* A process writes where its own calls have left the cursor, whatever     *)
(* other processes do between its calls: the cursor is saved and restored  *)
(* by scheduler(), and the shell's own saving around sys_spawn agrees.  No *)
(* call leaves it outside the screen, where the next character would be    *)
(* stored outside the buffers.                                             *)
CursorOfProcess ==
    /\ Cursor(scr) = at[running] /\ Cursor(scr) \in Positions
    /\ \A p \in alive \ {running} : saved[p] = at[p]

(* "clear line1 to line2" (screen.c): the other lines keep their contents. *)
(* sys_screen_clear passes 0 and 0.                                        *)
ClearsLines ==
    [][Clear => \A c \in Cells : LineOf(c) \notin 0 .. 0 => scr'.new[c] = scr.new[c]]_vars

(* "recover cursor position" (screen.c): after a write the terminal's      *)
(* cursor is where the next character will be written.                     *)
CursorRecovered == [][Write => scr'.tx = scr'.x /\ scr'.ty = scr'.y]_vars
=============================================================================
