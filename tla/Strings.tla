------------------------------- MODULE Strings -------------------------------
(***************************************************************************)
(* The functions of libs/string.c, as operators.  A string is a sequence   *)
(* of character codes without its terminating '\0'; a pointer into it is   *)
(* an index, and Len(s) + 1 is the place of the '\0'.                      *)
(***************************************************************************)
EXTENDS Integers, Sequences, SequencesExt

NULL == 0

DigitCodes == 48 .. 57              \* '0' .. '9'
LetterCodes == 97 .. 102            \* 'a' .. 'f'
HexCodes == DigitCodes \cup LetterCodes

\* The length of the longest prefix of s with all characters in chars.
PrefixLength(s, chars) ==
    CHOOSE n \in 0 .. Len(s) :
        /\ \A i \in 1 .. n : s[i] \in chars
        /\ n = Len(s) \/ s[n + 1] \notin chars

PrefixIn(s, chars) == SubSeq(s, 1, PrefixLength(s, chars))

CommonLength(str1, str2) ==
    CHOOSE n \in 0 .. Len(str1) :
        /\ n <= Len(str2)
        /\ \A i \in 1 .. n : str1[i] = str2[i]
        /\ n = Len(str1) \/ n = Len(str2) \/ str1[n + 1] # str2[n + 1]

\* -1 when str1 is a proper prefix, 1 for every other difference.
strcmp(str1, str2) ==
    LET n == CommonLength(str1, str2) IN
    IF n = Len(str1) /\ n = Len(str2) THEN 0
    ELSE IF n = Len(str1) THEN -1
    ELSE 1

strspn(s, accept) == PrefixLength(s, accept)

\* The first character of string that is in control, or NULL.
strpbrk(string, control) ==
    LET found == {i \in 1 .. Len(string) : string[i] \in control}
    IN  IF found = {} THEN NULL ELSE CHOOSE i \in found : \A j \in found : i <= j

\* The loop ends at the '\0' without looking at it: a search for '\0' fails.
strchr(s, c) ==
    LET found == {i \in 1 .. Len(s) : s[i] = c}
    IN  IF found = {} THEN NULL ELSE CHOOSE i \in found : \A j \in found : i <= j

\* The digits of n, the last one first, as the do ... while loops produce them.
LastDigitFirst(n, radix) ==
    LET digits[k \in 0 .. n] ==
            IF k < radix THEN <<k>> ELSE <<k % radix>> \o digits[k \div radix]
    IN  digits[n]

AsDigit(d) == IF d < 10 THEN d + 48 ELSE d - 10 + 97
AsDigits(ds) == [i \in DOMAIN ds |-> AsDigit(ds[i])]

reverse(s) == Reverse(s)

itoa(n) == reverse(AsDigits(LastDigitFirst(n, 10)))
itohex(n) == reverse(AsDigits(LastDigitFirst(n, 16)))

atoi(s) == FoldLeft(LAMBDA n, c : n * 10 + c - 48, 0, PrefixIn(s, DigitCodes))

\* The letters count from 0, not from 10.
atoh(s) ==
    FoldLeft(LAMBDA n, c : n * 16 + (IF c \in DigitCodes THEN c - 48 ELSE c - 97),
             0, PrefixIn(s, HexCodes))

htoi(s) ==
    FoldLeft(LAMBDA n, c : n * 16 + (IF c \in DigitCodes THEN c - 48 ELSE c - 97 + 10),
             0, PrefixIn(s, HexCodes))
=============================================================================
