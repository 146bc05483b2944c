---- MODULE GuestStrings ----
(***************************************************************************)
(* Memory and string imports over guest memory (guest.h, thunks_libc.cpp)  *)
(* and the printf family's buffer (thunks_printf.cpp, emit).               *)
(*                                                                         *)
(* Memory is a function from addresses to bytes; byte 2 is the capital of  *)
(* byte 1, and a slash to basename.  A call is [mem, ret]: memory after it *)
(* and the value in r0.  Imports that only hand their pointers to the      *)
(* host's function of the same name (strcmp, strstr, ...) are left out.    *)
(* For the functions on wide characters (thunks_math.cpp) a cell of memory *)
(* is a word, and a pointer is told in words too.                          *)
(***************************************************************************)
EXTENDS Integers, SequencesExt

CONSTANTS SpaceSize,       \* layout::kSpaceSize
          MaxString,       \* Memory::str's limit, 4096
          WordSpan         \* words that 32 bits of address count, 2^30

ASSUME StringsAssumption ==
    /\ SpaceSize \in Nat \ {0} /\ MaxString \in Nat /\ WordSpan \in Nat
    /\ 2 * SpaceSize <= WordSpan

InSpace == 0..SpaceSize - 1
Memories == {m \in [InSpace -> 0..2] : m[0] = 0}

\* Largest length starting at addr that stays inside the arena.
clamp(addr, n) ==
    IF addr >= SpaceSize THEN 0 ELSE Min({n, SpaceSize - addr})

read8(m, a) == IF a \in InSpace THEN m[a] ELSE 0

in_range(a, n) == a + n <= SpaceSize

\* std::memmove: every byte is read before the first is written.  A byte
\* past the arena is there too, and shows as an address memory never had.
Copied(m, d, s, n) ==
    [a \in DOMAIN m \cup d..d + n - 1 |->
        IF a \in d..d + n - 1 THEN read8(m, s + a - d) ELSE m[a]]

Filled(m, d, b, n) ==
    [a \in DOMAIN m \cup d..d + n - 1 |->
        IF a \in d..d + n - 1 THEN b ELSE m[a]]

zero(m, d, n) == IF in_range(d, n) THEN Filled(m, d, 0, n) ELSE m
write8(m, d, b) == IF in_range(d, 1) THEN Filled(m, d, b, 1) ELSE m

memmove(m, d, s, n) ==
    [mem |-> Copied(m, d, s, Min({clamp(d, n), clamp(s, n)})), ret |-> d]
memcpy(m, d, s, n) == memmove(m, d, s, n)
memset(m, d, c, n) == [mem |-> Filled(m, d, c, clamp(d, n)), ret |-> d]

memchr(m, p, c, n) ==
    LET hits == {a \in p..p + clamp(p, n) - 1 : m[a] = c}
    IN [mem |-> m, ret |-> IF hits = {} THEN 0 ELSE Min(hits)]

\* The loops end at the first zero, and past the arena everything reads zero.
guest_strlen(m, p) ==
    Min({n \in 0..SpaceSize : read8(m, p + n) = 0})

strlen(m, p) == [mem |-> m, ret |-> guest_strlen(m, p)]

strcpy(m, d, s) ==
    [mem |-> Copied(m, d, s, guest_strlen(m, s) + 1), ret |-> d]

\* Mutant of strncpy: what is left of the buffer is not cleared.
strncpy_NoPadding(m, d, s, n) ==
    [mem |-> Copied(m, d, s, Min({guest_strlen(m, s), n})), ret |-> d]

strncpy(m, d, s, n) ==
    LET copy == Min({guest_strlen(m, s), n})
    IN [mem |-> zero(Copied(m, d, s, copy), d + copy, n - copy), ret |-> d]

strcat(m, d, s) ==
    [mem |-> Copied(m, d + guest_strlen(m, d), s, guest_strlen(m, s) + 1),
     ret |-> d]

strncat(m, d, s, n) ==
    LET end == d + guest_strlen(m, d)
        copy == Min({guest_strlen(m, s), n})
    IN [mem |-> write8(Copied(m, end, s, copy), end + copy, 0), ret |-> d]

strlcat(m, d, s, n) ==
    LET dl == guest_strlen(m, d)
        sl == guest_strlen(m, s)
        copy == Min({sl, n - dl - 1})
    IN [mem |-> IF dl < n
                THEN write8(Copied(m, d + dl, s, copy), d + dl + copy, 0)
                ELSE m,
        ret |-> dl + sl]

\* The characters of a string and the zero that ends it.
Upto(m, p) == p..p + guest_strlen(m, p)

strchr(m, p, c) ==
    LET hits == {a \in Upto(m, p) : read8(m, a) = c}
    IN [mem |-> m, ret |-> IF hits = {} THEN 0 ELSE Min(hits)]

strrchr(m, p, c) ==
    LET hits == {a \in Upto(m, p) : read8(m, a) = c}
    IN [mem |-> m, ret |-> IF hits = {} THEN 0 ELSE Max(hits)]

\* Memory::str: the string copied out, as far as the limit.
str(m, p) ==
    [i \in 1..Min({guest_strlen(m, p), MaxString}) |-> m[p + i - 1]]

\* The copy resized to n and in lower case.
Lower(b) == IF b = 2 THEN 1 ELSE b
Lowered(m, p, n) ==
    LET copy == str(m, p)
    IN [i \in 1..Min({Len(copy), n}) |-> Lower(copy[i])]

Compare(x, y) ==
    LET differ == {i \in 1..Min({Len(x), Len(y)}) : x[i] # y[i]}
    IN IF differ = {} THEN Len(x) - Len(y)
       ELSE x[Min(differ)] - y[Min(differ)]

strncasecmp(m, p, q, n) ==
    [mem |-> m, ret |-> Compare(Lowered(m, p, n), Lowered(m, q, n))]
strcasecmp(m, p, q) == strncasecmp(m, p, q, MaxString)

\* Truncates to cap with the terminator; returns the length it would have had.
emit(m, dst, cap, text) ==
    LET room == clamp(dst, cap)
        n == Min({Len(text), room - 1})
        put == [a \in InSpace |-> IF a \in dst..dst + n - 1
                                  THEN text[a - dst + 1] ELSE m[a]]
    IN [mem |-> IF dst # 0 /\ room > 0 THEN write8(put, dst + n, 0) ELSE m,
        ret |-> Len(text)]

(***************************************************************************)
(* The rest of the strings (thunks_math.cpp).                              *)
(***************************************************************************)
memrchr(m, p, c, n) ==
    LET hits == {a \in p..p + clamp(p, n) - 1 : m[a] = c}
    IN [mem |-> m, ret |-> IF hits = {} THEN 0 ELSE Max(hits)]

strcoll(m, p, q) == [mem |-> m, ret |-> Compare(str(m, p), str(m, q))]

\* The characters are copied out, then back in as far as there is room.
strxfrm(m, d, s, n) == emit(m, d, n, str(m, s))
strerror_r(m, d, n, text) == [emit(m, d, n, text) EXCEPT !.ret = 0]

basename(m, p) ==
    LET s == str(m, p)
        slashes == {at \in 0..Len(s) - 1 : s[at + 1] = 2}
    IN [mem |-> m, ret |-> IF slashes = {} THEN p ELSE p + Max(slashes) + 1]

\* Mutant of tokenise: a separator that ends a token is left standing.
tokenise_KeepsSeparator(m, p, delims, cursor) ==
    LET at == IF p # 0 THEN p ELSE cursor
        begin == Min({a \in at..SpaceSize : read8(m, a) \notin delims})
        end == Min({a \in begin..SpaceSize : read8(m, a) \in delims \cup {0}})
    IN IF at = 0 \/ read8(m, begin) = 0
       THEN [mem |-> m, ret |-> 0, cursor |-> 0]
       ELSE [mem |-> m, ret |-> begin,
             cursor |-> IF read8(m, end) = 0 THEN 0 ELSE end + 1]

\* From the string given, or else from where the last call stopped.
tokenise(m, p, delims, cursor) ==
    LET at == IF p # 0 THEN p ELSE cursor
        begin == Min({a \in at..SpaceSize : read8(m, a) \notin delims})
        end == Min({a \in begin..SpaceSize : read8(m, a) \in delims \cup {0}})
    IN IF at = 0 \/ read8(m, begin) = 0
       THEN [mem |-> m, ret |-> 0, cursor |-> 0]
       ELSE [mem |-> write8(m, end, 0), ret |-> begin,
             cursor |-> IF read8(m, end) = 0 THEN 0 ELSE end + 1]

\* A state of both tokenisers: strtok's g_strtok_cursor and the word at
\* strtok_r's third argument.
strtok(t, p, delims) ==
    LET g == tokenise(t.mem, p, delims, t.cursor)
    IN [t EXCEPT !.mem = g.mem, !.cursor = g.cursor, !.got = Append(@, g.ret)]

strtok_r(t, p, delims) ==
    LET g == tokenise(t.mem, p, delims, t.save)
    IN [t EXCEPT !.mem = g.mem, !.save = g.cursor, !.got_r = Append(@, g.ret)]

(***************************************************************************)
(* Wide characters.  wmemcpy and wmemmove are clamped like their twins,    *)
(* after the count has been made one of bytes; the loops of the others are *)
(* not: what is read beyond the arena is zero, what is written there is    *)
(* dropped, and behind the last address they go on with the first.         *)
(***************************************************************************)
wmemmove(m, d, s, n) == memmove(m, d, s, n % WordSpan)
wmemcpy(m, d, s, n) == wmemmove(m, d, s, n)

\* d + i * 4, in 32 bits.
Cell(p, i) == (p + i) % WordSpan

wmemset(m, d, v, n) ==
    LET written == {Cell(d, i) : i \in 0..n - 1}
    IN [mem |-> [a \in InSpace |-> IF a \in written THEN v ELSE m[a]],
        ret |-> d]

wcslen(m, p) == strlen(m, p)

\* The words from p on, as the loops read them.
Cells(m, p, n) == [i \in 1..n |-> read8(m, Cell(p, i - 1))]

wmemcmp(m, p, q, n) ==
    [mem |-> m, ret |-> Compare(Cells(m, p, n), Cells(m, q, n))]

wmemchr(m, p, v, n) ==
    LET hits == {i \in 0..n - 1 : read8(m, Cell(p, i)) = v}
    IN [mem |-> m, ret |-> IF hits = {} THEN 0 ELSE Cell(p, Min(hits))]

wcscoll(m, p, q) ==
    wmemcmp(m, p, q, 1 + Min({guest_strlen(m, p), guest_strlen(m, q)}))

\* Word by word up to the terminator, but no more than n - 1 of them.
wcsxfrm(m, d, s, n) ==
    LET i == Min({guest_strlen(m, s), Max({n - 1, 0})})
    IN [mem |-> [a \in InSpace |->
                    IF a \in d..d + Min({i, n - 2}) THEN read8(m, s + a - d)
                    ELSE m[a]],
        ret |-> i]
====
