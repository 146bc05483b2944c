---- MODULE GuestNumbers ----
(***************************************************************************)
(* Numbers and characters: division of double words (thunks_runtime.cpp),  *)
(* the strto* family and the character classes with the tables the guest   *)
(* reads them from (thunks_libc.cpp, thunks_math.cpp).                     *)
(*                                                                         *)
(* A double word is two words, the low one first.  Text is a sequence of   *)
(* digits with Space, Minus and Other between them, the whole of a string; *)
(* Memory::str copies no more than MaxString characters out.               *)
(***************************************************************************)
EXTENDS GuestRoutines, GuestStrings

CONSTANTS Classes,      \* character -> names of the classes it is in
          LowerCase     \* capital -> small letter

ASSUME NumbersAssumption ==
    /\ DOMAIN LowerCase \subseteq DOMAIN Classes
    /\ \E n \in 1..WordBase - 1 : DOMAIN Classes = 0..n - 1

(***************************************************************************)
(* __aeabi_ldivmod and __aeabi_uldivmod.                                   *)
(***************************************************************************)
LongBase == WordBase * WordBase
Wide(pair) == pair[1] + WordBase * pair[2]
Pair(w) == <<w % WordBase, (w \div WordBase) % WordBase>>

\* A value of so many as a signed one.
AsSigned(w, base) == IF 2 * w < base THEN w ELSE w - base

set_divmod64(quot, rem) == Pair(quot % LongBase) \o Pair(rem % LongBase)

\* Mutant of ldivmod: the quotient is rounded down.
ldivmod_Floors(n, d) ==
    LET a == AsSigned(Wide(n), LongBase)
        b == AsSigned(Wide(d), LongBase)
        q == IF b > 0 THEN a \div b ELSE (-a) \div (-b)
    IN IF b = 0 THEN set_divmod64(0, 0) ELSE set_divmod64(q, a - q * b)

\* C++ divides toward zero.
ldivmod(n, d) ==
    LET a == AsSigned(Wide(n), LongBase)
        b == AsSigned(Wide(d), LongBase)
        magnitude == Udiv(Abs(a), Abs(b))
        q == IF (a < 0) = (b < 0) THEN magnitude ELSE -magnitude
    IN IF b = 0 THEN set_divmod64(0, 0) ELSE set_divmod64(q, a - q * b)

uldivmod(n, d) ==
    IF Wide(d) = 0 THEN set_divmod64(0, 0)
    ELSE set_divmod64(Wide(n) \div Wide(d), Wide(n) % Wide(d))

(***************************************************************************)
(* Text to numbers.                                                        *)
(***************************************************************************)
Space == -1
Minus == -2
Other == -3

\* The host's conversion: spaces, a sign and the longest row of digits.  It
\* leaves the number and how much it has read, none of it without a digit.
ReadNumber(text, base) ==
    LET Spaces(n) == \A i \in 1..n : text[i] = Space
        blank == Max({n \in 0..Len(text) : Spaces(n)})
        sign == IF blank < Len(text) /\ text[blank + 1] = Minus THEN 1 ELSE 0
        first == blank + sign
        Digits(n) == \A i \in first + 1..n : text[i] \in 0..base - 1
        end == Max({n \in first..Len(text) : Digits(n)})
        Put(v, digit) == v * base + digit
        value == FoldLeft(Put, 0, SubSeq(text, first + 1, end))
    IN [end |-> IF end = first THEN 0 ELSE end,
        value |-> IF sign = 1 THEN -value ELSE value]

\* What a type of so many values, signed or not, makes of a number.
Saturated(v, values) ==
    Max({-(values \div 2), Min({v, values \div 2 - 1})})
Unsigned(v, values) ==
    IF Abs(v) >= values THEN values - 1 ELSE v % values

\* What is stored at the second argument, if there is one.
EndOf(s, endp, n) == IF endp # 0 THEN s + n ELSE "nothing"

\* atoi and strtoll convert a copy of the string, the others the string.
Copy(text) == SubSeq(text, 1, Min({Len(text), MaxString}))

\* `long` counts the values of the host's long: a word of them on Windows,
\* a double word elsewhere.
SignedWord(v, long) == Saturated(v, long) % WordBase
atoi(text, base, long) ==
    SignedWord(ReadNumber(Copy(text), base).value, long)

\* Mutant of strtol: the end is told as a count of characters.
strtol_CountsFromZero(text, s, endp, base, long) ==
    [ret |-> SignedWord(ReadNumber(text, base).value, long),
     stored |-> EndOf(0, endp, ReadNumber(text, base).end)]

strtol(text, s, endp, base, long) ==
    [ret |-> SignedWord(ReadNumber(text, base).value, long),
     stored |-> EndOf(s, endp, ReadNumber(text, base).end)]

strtoul(text, s, endp, base, long) ==
    [ret |-> Unsigned(ReadNumber(text, base).value, long) % WordBase,
     stored |-> EndOf(s, endp, ReadNumber(text, base).end)]

strtoll(text, s, endp, base) ==
    LET n == ReadNumber(Copy(text), base)
    IN [ret |-> Pair(Saturated(n.value, LongBase) % LongBase),
        stored |-> EndOf(s, endp, n.end)]

(***************************************************************************)
(* Characters.  EOF and wide characters beyond the table are in no class.  *)
(***************************************************************************)
Eof == -1
ClassesOf(c) == IF c \in DOMAIN Classes THEN Classes[c] ELSE {}
LowerOf(c) == IF c \in DOMAIN LowerCase THEN LowerCase[c] ELSE c

tolower(c) == LowerOf(c)
isalpha(c) == ClassesOf(c) \cap {"upper", "lower"} # {}
isalnum(c) == ClassesOf(c) \cap {"upper", "lower", "digit"} # {}
isspace(c) == "space" \in ClassesOf(c)

\* The tokens of the class names, 0 for a name that is not known.
WType == <<"alnum", "alpha", "space", "digit", "upper", "lower", "punct">>
wctype(name) ==
    IF \E t \in DOMAIN WType : WType[t] = name
    THEN CHOOSE t \in DOMAIN WType : WType[t] = name ELSE 0
iswctype(c, t) ==
    /\ t \in DOMAIN WType
    /\ CASE WType[t] = "alnum" -> isalnum(c)
         [] WType[t] = "alpha" -> isalpha(c)
         [] OTHER -> WType[t] \in ClassesOf(c)

\* Between a character, or EOF, and a wide one; the words r0 holds.
CharacterCount == Cardinality(DOMAIN Classes)
btowc(c) == IF c = WordBase - 1 THEN WordBase - 1 ELSE c % CharacterCount
wctob(c) == IF c < CharacterCount THEN c ELSE WordBase - 1

\* A character to a wide one and back, each [stored, ret].
mbrtowc(c, n) ==
    IF n = 0 THEN [stored |-> "nothing", ret |-> 0]
    ELSE [stored |-> c, ret |-> IF c # 0 THEN 1 ELSE 0]
wcrtomb(wc) == [stored |-> wc % CharacterCount, ret |-> 1]

\* Mutant of ctype_table: no slot for EOF.
ctype_table_NoEof(d) == [a \in {d + c : c \in DOMAIN Classes} |->
                            ClassesOf(a - d)]

\* The imported tables, address -> contents: a byte of flags, named as the
\* classes, for EOF and every character; a half word, its small letter.
ctype_table(d) == [a \in {d} \cup {d + 1 + c : c \in DOMAIN Classes} |->
                      IF a = d THEN {} ELSE ClassesOf(a - d - 1)]
tolower_table(d) ==
    [a \in {d} \cup {d + 2 + 2 * c : c \in DOMAIN Classes} |->
        IF a = d THEN Eof ELSE LowerOf((a - d - 2) \div 2)]
====
