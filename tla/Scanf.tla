-------------------------------- MODULE Scanf --------------------------------
(***************************************************************************)
(* Console input for programs, libs/scanf.c: do_scanf takes one character  *)
(* from the serial port per call, collects them in one buffer for all      *)
(* programs, and at the end of a line stores the number that was typed.    *)
(*                                                                         *)
(* The shell, which reads the same port, is left out, and so is the test   *)
(* against VM_SIZE: the numbers typed are below it.                        *)
(***************************************************************************)
EXTENDS Strings

CONSTANTS
    Programs,       \* programs that read (rw_task4_1, rw_task4_2), one after the other
    Keys,           \* the characters that are typed
    Patient,        \* TRUE: nothing is typed before the port has been read
    Lines,          \* lines a program reads
    MaxTyped        \* bound: characters typed

CR == 13
X == 120

VARIABLES
    uart,       \* characters the port holds
    buffer,     \* Buffer_s up to the static variable index
    pointer,    \* where the current line begins
    mem,        \* *mem, the number that was read
    left,       \* lines each program has still to read; -1 before it starts
    typed,      \* history: the line as it was typed
    want,       \* history: the number on the last whole line
    keys        \* characters typed so far

vars == <<uart, buffer, pointer, mem, left, typed, want, keys>>

index == Len(buffer)

Init ==
    /\ uart = <<>> /\ buffer = <<>> /\ pointer = 0 /\ mem = 0
    /\ left = [p \in Programs |-> -1]
    /\ typed = <<>> /\ want = 0 /\ keys = 0

Reading(p) == left[p] > 0

\* A program begins with init_InputBuffer_s, which resets pointer; index is a
\* variable of its own.
init_InputBuffer_s(p) ==
    /\ left[p] = -1
    /\ \A q \in Programs : ~Reading(q)
    /\ pointer' = 0
    /\ left' = [left EXCEPT ![p] = Lines]
    /\ UNCHANGED <<uart, buffer, mem, typed, want, keys>>

Type ==
    /\ \E p \in Programs : Reading(p)
    /\ keys < MaxTyped
    /\ Patient => uart = <<>>
    /\ \E ch \in Keys :
        /\ uart' = Append(uart, ch)
        /\ typed' = Append(typed, ch)
    /\ keys' = keys + 1
    /\ UNCHANGED <<buffer, pointer, mem, left, want>>

\* Only the last of the characters the port holds is returned.
read_uart_ch_s == Last(uart)

IsNumber(s) == Len(s) >= 2 /\ s[1] = 48 /\ s[2] = X
NumberAt(s) == SubSeq(s, 3, Len(s))

\* Bug: the next line begins with the carriage return of this one.
StaysOnLine(p) ==
    LET ch == read_uart_ch_s
        text == SubSeq(Append(buffer, ch), pointer + 1, index + 1)
    IN  /\ Reading(p) /\ uart # <<>>
        /\ uart' = <<>>
        /\ buffer' = Append(buffer, ch)
        /\ IF ch = CR
           THEN /\ mem' = IF IsNumber(text) THEN atoh(NumberAt(text)) ELSE mem
                /\ pointer' = index
                /\ left' = [left EXCEPT ![p] = @ - 1]
                /\ want' = IF IsNumber(typed) THEN htoi(NumberAt(typed)) ELSE want
                /\ typed' = <<>>
           ELSE UNCHANGED <<mem, pointer, left, want, typed>>
        /\ UNCHANGED keys

\* One call of do_scanf, from the first character that is not 0 on.
do_scanf(p) ==
    LET ch == read_uart_ch_s
        text == SubSeq(Append(buffer, ch), pointer + 1, index + 1)
    IN  /\ Reading(p) /\ uart # <<>>
        /\ uart' = <<>>
        /\ buffer' = Append(buffer, ch)
        /\ IF ch = CR
           THEN /\ mem' = IF IsNumber(text) THEN atoh(NumberAt(text)) ELSE mem
                /\ pointer' = index + 1
                /\ left' = [left EXCEPT ![p] = @ - 1]
                /\ want' = IF IsNumber(typed) THEN htoi(NumberAt(typed)) ELSE want
                /\ typed' = <<>>
           ELSE UNCHANGED <<mem, pointer, left, want, typed>>
        /\ UNCHANGED keys

Next == Type \/ \E p \in Programs : init_InputBuffer_s(p) \/ do_scanf(p)
Spec == Init /\ [][Next]_vars

-----------------------------------------------------------------------------
(* "read input as a hex number" (do_scanf's comment): after a line, *mem   *)
(* is the number that was typed on it, and lines that are not numbers      *)
(* leave it as it was.                                                     *)
ReadsNumber == mem = want
=============================================================================
