------------------------------- MODULE Format -------------------------------
(***************************************************************************)
(* printf and printk of libs/printk.c: the conversion of numbers in        *)
(* mini_itoa, for integers of Width bits, and the formatting into a buffer *)
(* of limited length in mini_vsnprintf.  A format is a sequence of items;  *)
(* its parsing into items is left out.                                     *)
(***************************************************************************)
EXTENDS Strings

CONSTANTS
    Width,          \* bits of an int (32 on the machine)
    BufferLengths,  \* lengths of the buffer (256 in printf)
    Formats,        \* formats: sequences of items
    ZeroPads        \* the digit between %0 and the conversion, or 0

VARIABLES
    value, radix, unsig, zero_pad,      \* arguments of mini_itoa
    fmt, buffer_len                     \* arguments of mini_vsnprintf

vars == <<value, radix, unsig, zero_pad, fmt, buffer_len>>

Minus == 45
Zero == 48

\* The arithmetic of the machine.
Unsigned(v) == v % 2^Width
Signed(v) == LET u == Unsigned(v) IN IF u >= 2^(Width - 1) THEN u - 2^Width ELSE u

\* Bug: the value is negated as a signed integer and then tested.
NegatesFirst(v, rdx, us, pad) ==
    LET negative == v < 0 /\ ~us
        u == IF negative THEN Signed(-v) ELSE v
        digits == IF u <= 0 THEN <<Zero>> ELSE AsDigits(LastDigitFirst(u, rdx))
        padded == digits \o [i \in 1 .. pad - Len(digits) |-> Zero]
    IN  reverse(IF negative THEN Append(padded, Minus) ELSE padded)

\* The digit is taken modulo an unsigned radix, so the sign bit counts as a
\* digit's worth; the negation of the least integer is that integer.
mini_itoa(v, rdx, us, pad) ==
    LET negative == v < 0 /\ ~us
        u == Unsigned(IF negative THEN Signed(-v) ELSE v)
        digits == AsDigits(LastDigitFirst(u, rdx))
        padded == digits \o [i \in 1 .. pad - Len(digits) |-> Zero]
    IN  reverse(IF negative THEN Append(padded, Minus) ELSE padded)

_putc(b, ch) == IF Len(b.out) + 1 >= b.buffer_len THEN b ELSE [b EXCEPT !.out = Append(@, ch)]

_puts(b, s) ==
    LET room == b.buffer_len - Len(b.out) - 1
    IN  [b EXCEPT !.out = @ \o SubSeq(s, 1, IF room < Len(s) THEN room ELSE Len(s))]

\* What an item stands for when there is room for it.
Text(item) ==
    CASE item.kind = "char" -> <<item.ch>>
      [] item.kind = "%d" -> mini_itoa(item.v, 10, FALSE, item.pad)
      [] item.kind = "%x" -> mini_itoa(item.v, 16, TRUE, item.pad)
      [] item.kind = "%s" -> item.s

\* One turn of the loop of mini_vsnprintf, which stops when the buffer is full.
Convert(b, item) ==
    IF Len(b.out) + 1 >= b.buffer_len THEN b
    ELSE IF item.kind = "char" THEN _putc(b, item.ch)
    ELSE _puts(b, Text(item))

mini_vsnprintf(len, items) ==
    FoldLeft(Convert, [out |-> <<>>, buffer_len |-> len], items).out

Init ==
    /\ value = 0 /\ radix = 10 /\ unsig = FALSE /\ zero_pad = 0
    /\ fmt = <<>> /\ buffer_len \in BufferLengths

\* The calls of mini_itoa: %d, %u, %x and %X.
Number ==
    /\ value' \in -(2^(Width - 1)) .. 2^(Width - 1) - 1
    /\ \E c \in {<<10, FALSE>>, <<10, TRUE>>, <<16, TRUE>>} : radix' = c[1] /\ unsig' = c[2]
    /\ zero_pad' \in ZeroPads
    /\ UNCHANGED <<fmt, buffer_len>>

\* The calls of printf and printk.
printf ==
    /\ fmt' \in Formats
    /\ UNCHANGED <<value, radix, unsig, zero_pad, buffer_len>>

Next == (value = 0 /\ fmt = <<>>) /\ (Number \/ printf)
Spec == Init /\ [][Next]_vars

-----------------------------------------------------------------------------
Flatten(seqs) == FoldLeft(LAMBDA a, b : a \o b, <<>>, seqs)

\* The reference: what the digits of s stand for.
ValueOf(s) ==
    IF s # <<>> /\ s[1] = Minus
    THEN -(IF radix = 10 THEN atoi(Tail(s)) ELSE htoi(Tail(s)))
    ELSE IF radix = 10 THEN atoi(s) ELSE htoi(s)

(* mini_itoa prints every integer of the machine as its value, the least   *)
(* one and, unsigned, those with the sign bit set included; zero padding   *)
(* adds no more than leading zeroes.                                       *)
PrintsValue ==
    LET s == mini_itoa(value, radix, unsig, zero_pad)
    IN  /\ ValueOf(s) = IF unsig THEN Unsigned(value) ELSE value
        /\ zero_pad = 0 /\ Len(s) > 1 => s[1] # Zero

(* printf and printk fill their buffer with the formatted text as far as   *)
(* it goes, and leave room for the '\0' at buff[ret].                      *)
FillsBuffer ==
    LET out == mini_vsnprintf(buffer_len, fmt)
        full == Flatten([i \in DOMAIN fmt |-> Text(fmt[i])])
    IN  /\ Len(out) < buffer_len
        /\ IsPrefix(out, full)
        /\ Len(out) < buffer_len - 1 => out = full

(* itoa and itohex are undone by atoi and htoi.                            *)
ReadsBack ==
    value >= 0 => atoi(itoa(value)) = value /\ htoi(itohex(value)) = value
=============================================================================
