------------------------------- MODULE Tokens -------------------------------
(***************************************************************************)
(* strtok and myStrtok_origin of libs/string.c: the calls that cut a       *)
(* string into tokens, with the place they keep between two calls, and the *)
(* functions on strings they are made of.                                  *)
(***************************************************************************)
EXTENDS Strings

CONSTANTS
    Chars,          \* the characters of the strings
    Delimiters,     \* those that separate tokens
    MaxLength       \* bound: length of the string

Words == UNION {[1 .. n -> Chars] : n \in 0 .. MaxLength}

VARIABLES
    buf,        \* the string that is cut up
    cuts,       \* where a '\0' has been stored in it
    last,       \* the static variable of strtok: a place in buf, or NULL
    tokens,     \* the tokens returned so far
    calls       \* "first", "next", or how the sequence of calls ended

vars == <<buf, cuts, last, tokens, calls>>

\* What a pointer to place p sees: the string up to the next '\0'.
After(p) ==
    LET ends == {e \in p .. Len(buf) + 1 : e = Len(buf) + 1 \/ e \in cuts}
        end == CHOOSE e \in ends : \A f \in ends : e <= f
    IN  SubSeq(buf, p, end - 1)

Init ==
    /\ buf \in Words
    /\ cuts = {} /\ last = NULL /\ tokens = <<>> /\ calls = "first"

\* Bug: the string is not cut at the delimiter.
KeepsDelimiter(start) ==
    LET from == start + strspn(After(start), Delimiters)
        rest == After(from)
        cut == strpbrk(rest, Delimiters)
    IN  IF rest = <<>>
        THEN calls' = "NULL" /\ UNCHANGED <<cuts, last, tokens>>
        ELSE /\ calls' = "next"
             /\ IF cut = NULL
                THEN /\ last' = (IF strchr(rest, 0) = NULL THEN NULL ELSE from + strchr(rest, 0) - 1)
                     /\ UNCHANGED cuts
                     /\ tokens' = Append(tokens, rest)
                ELSE /\ last' = from + cut
                     /\ UNCHANGED cuts
                     /\ tokens' = Append(tokens, rest)

\* One call, with the place it starts from: the string, or what the call
\* before has kept.
myStrtok_origin(start) ==
    LET from == start + strspn(After(start), Delimiters)
        rest == After(from)
        cut == strpbrk(rest, Delimiters)
    IN  IF rest = <<>>
        THEN calls' = "NULL" /\ UNCHANGED <<cuts, last, tokens>>
        ELSE /\ calls' = "next"
             /\ IF cut = NULL
                THEN /\ last' = (IF strchr(rest, 0) = NULL THEN NULL ELSE from + strchr(rest, 0) - 1)
                     /\ UNCHANGED cuts
                     /\ tokens' = Append(tokens, rest)
                ELSE /\ last' = from + cut
                     /\ cuts' = cuts \cup {from + cut - 1}
                     /\ tokens' = Append(tokens, SubSeq(rest, 1, cut - 1))

\* strtok(buf, delimiters), then strtok(NULL, delimiters) again and again.
strtok ==
    /\ \/ calls = "first" /\ myStrtok_origin(1)
       \/ calls = "next" /\ last # NULL /\ myStrtok_origin(last)
    /\ UNCHANGED buf

Next == strtok
Spec == Init /\ [][Next]_vars

-----------------------------------------------------------------------------
\* The reference: the maximal runs of characters that are not delimiters.
IsToken(i, j) ==
    /\ \A k \in i .. j : buf[k] \notin Delimiters
    /\ i = 1 \/ buf[i - 1] \in Delimiters
    /\ j = Len(buf) \/ buf[j + 1] \in Delimiters

TokenSet == {r \in (1 .. Len(buf)) \X (1 .. Len(buf)) : r[1] <= r[2] /\ IsToken(r[1], r[2])}

Reference ==
    LET order == SetToSortSeq(TokenSet, LAMBDA a, b : a[1] < b[1])
    IN  [n \in DOMAIN order |-> SubSeq(buf, order[n][1], order[n][2])]

(* The calls return the words of the string in order, none twice and none  *)
(* left out, and NULL only after the last one.                             *)
TokensInOrder ==
    /\ IsPrefix(tokens, Reference)
    /\ calls = "NULL" => tokens = Reference
    /\ calls = "next" /\ last = NULL => tokens = Reference

(* myStrtok_origin's comment: when no separator is left, temp_str is set   *)
(* to the place of the '\0' at the end of the string, so that the next     *)
(* call returns NULL.                                                      *)
KeepsPlace == calls = "next" => last # NULL

(* The names of files and mailboxes are compared with strcmp: it is 0 only *)
(* for equal strings, and a proper prefix is never taken for the whole.    *)
CompareIsEquality ==
    calls = "first" =>
        \A w \in Words : (strcmp(buf, w) = 0) <=> (buf = w)
=============================================================================
