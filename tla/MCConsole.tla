----------------------------- MODULE MCConsole ------------------------------
(***************************************************************************)
(* What a program's text goes through: the screen that it is written to    *)
(* (module Screen, with the constants of the configuration), printf        *)
(* (Format), the console input of scanf.c (Scanf) and strtok (Tokens).     *)
(* They have no variable in common, so each is checked while the others do *)
(* nothing.                                                                *)
(***************************************************************************)
EXTENDS Screen

VARIABLES
    part,                                                   \* which takes steps
    value, radix, unsig, zero_pad, fmt, buffer_len,         \* of Format
    uart, buffer, pointer, mem, left, typed, want, keys,    \* of Scanf
    buf, cuts, last, tokens, stage                          \* of Tokens

formatVars == <<value, radix, unsig, zero_pad, fmt, buffer_len>>
scanfVars == <<uart, buffer, pointer, mem, left, typed, want, keys>>
tokensVars == <<buf, cuts, last, tokens, stage>>
mcVars == <<part, vars, formatVars, scanfVars, tokensVars>>

\* A letter, a line that fills the screen's width and goes on, a new line, a
\* backspace, an enter.
MCTexts == { <<"a">>, <<"a", "a", "a">>, <<"a", Newline>>, <<Backspace>>, <<Enter>> }

\* Items of every kind, with numbers of one, two and three characters.
Items == { [kind |-> "char", ch |-> 97],
           [kind |-> "%d", v |-> -12, pad |-> 0],
           [kind |-> "%d", v |-> 7, pad |-> 3],
           [kind |-> "%x", v |-> -1, pad |-> 0],
           [kind |-> "%s", s |-> <<>>],
           [kind |-> "%s", s |-> <<98, 99>>] }

Fmt == INSTANCE Format WITH
    Width <- 8, BufferLengths <- {1, 2, 4, 6, 16}, ZeroPads <- {0, 2, 5},
    Formats <- UNION {[1 .. n -> Items] : n \in 0 .. 3}

\* The keys 0, 1, x and carriage return; a user who waits for the program.
Scan == INSTANCE Scanf WITH
    Programs <- {"rw_task"}, Keys <- {48, 49, 120, 13}, Patient <- TRUE,
    Lines <- 3, MaxTyped <- 8

\* Words of a letter, '/' and ' '; the last two separate tokens.
Tok == INSTANCE Tokens WITH
    Chars <- {97, 47, 32}, Delimiters <- {47, 32}, MaxLength <- 5, calls <- stage

\* A part that takes no steps is in one of its initial states.
MCInit ==
    /\ part \in {"screen", "printf", "scanf", "strtok"}
    /\ Init /\ Fmt!Init /\ Scan!Init /\ Tok!Init
    /\ part # "printf" => buffer_len = 1
    /\ part # "strtok" => buf = <<>>

MCNext ==
    \/ part = "screen" /\ Next /\ UNCHANGED <<part, formatVars, scanfVars, tokensVars>>
    \/ part = "printf" /\ Fmt!Next /\ UNCHANGED <<part, vars, scanfVars, tokensVars>>
    \/ part = "scanf" /\ Scan!Next /\ UNCHANGED <<part, vars, formatVars, tokensVars>>
    \/ part = "strtok" /\ Tok!Next /\ UNCHANGED <<part, vars, formatVars, scanfVars>>

MCSpec == MCInit /\ [][MCNext]_mcVars

-----------------------------------------------------------------------------
(* do_scanf: after a line *mem is the number that was typed on it, and a   *)
(* line that is not a number leaves it as it was.                          *)
ReadsNumber == part = "scanf" => Scan!ReadsNumber

(* The conversions are right for every integer of the machine, the least   *)
(* one included: mini_itoa prints its value, signed and unsigned, with no  *)
(* more than leading zeroes as padding; what itoa and itohex write, atoi   *)
(* and htoi read back; and printf and printk fill their buffer with the    *)
(* text as far as it goes, with room for the '\0' at buff[ret].            *)
ConversionsAgree ==
    part = "printf" => Fmt!PrintsValue /\ Fmt!ReadsBack /\ Fmt!FillsBuffer

(* The calls of strtok return the words of the string in order, none twice *)
(* and none left out, and NULL only after the last one; strcmp, by which   *)
(* names of files and mailboxes are compared, is 0 only for equal strings. *)
StringsAgree ==
    part = "strtok" => Tok!TokensInOrder /\ Tok!CompareIsEquality
=============================================================================
