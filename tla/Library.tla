---- MODULE Library ----
(***************************************************************************)
(* The sequential parts of the program, one call at a time: a call with    *)
(* every input of a small set, its result, and what the result must be by  *)
(* a definition of its own.  `call` is what was asked and what came back;  *)
(* the guest thread that asked is idle in between.                         *)
(***************************************************************************)
EXTENDS GuestScan, GuestStreams, GuestNumbers, GlData, Jni,
        WatchLoop

CONSTANTS Conversions, MaxConversions,    \* printf formats
          Directives, MaxDirectives,      \* scanf formats
          MaxInput,                       \* characters sscanf reads
          MaxSize,                        \* lengths passed to mem* and str*n*
          MaxEdge,                        \* width and height of a texture
          MaxBlock, Dividends, Rounded,    \* what the guest's routines are given
          Numerics, MaxNumerics, Radices,  \* text of numbers
          Chunks, MaxChunks               \* shader source

Init == call = NoCall

(***************************************************************************)
(* Formats.                                                                *)
(***************************************************************************)
Printf ==
    /\ call = NoCall
    /\ \E fmt \in Sequences(Conversions, MaxConversions) :
           \/ Called([fn |-> "printf", from |-> 1, fmt |-> fmt,
                      got |-> printf(fmt)])
           \/ Called([fn |-> "printf", from |-> 2, fmt |-> fmt,
                      got |-> sprintf(fmt)])
           \/ Called([fn |-> "printf", from |-> 3, fmt |-> fmt,
                      got |-> snprintf(fmt)])
           \/ \E ap \in {2, 5} :
                  Called([fn |-> "printf", from |-> ap, fmt |-> fmt,
                          got |-> vsnprintf(fmt, ap)])

\* Every conversion of a format, up to the first the formatter does not
\* know, reads the words its caller put that argument in: through registers,
\* skipped registers, the stack and its padding, from a call and from a
\* va_list alike.  (env.cpp, Env::Args; guest_format.cpp: "Reading four bytes
\* for it ... leaves every argument after it one word out of step")
ArgumentsAreFound ==
    call.fn = "printf" =>
        \A k \in 1..KnownPart(call.fmt) :
            call.got[k] = Passed(call.from, call.fmt)[k]

Scanf ==
    /\ call = NoCall
    /\ \E fmt \in Sequences(Directives, MaxDirectives),
          input \in Sequences(Chars, MaxInput) :
           Called([fn |-> "sscanf", fmt |-> fmt, input |-> input,
                   got |-> sscanf(input, fmt)])

\* sscanf stores a field for every conversion up to the first thing in the
\* format its input does not match; each goes through the pointer passed for
\* it, as many bytes wide as the object behind that pointer, from its own
\* part of the input; and the count returned is the fields stored.
\* (thunks_printf.cpp, t_sscanf: "%hd wrote four bytes into a two-byte
\* object; %lf wrote a float into a double")
ScansAreStored ==
    call.fn = "sscanf" => ScanIsSound(call.input, call.fmt, call.got)

\* Both directions: no conversion takes the place of another.
FormatsFindTheirArguments == ArgumentsAreFound /\ ScansAreStored

(***************************************************************************)
(* Strings.  A call of a str function is one C allows: its strings end     *)
(* in the arena, what it writes fits there, and the two do not overlap.    *)
(* The mem functions are called with anything, those of wide characters    *)
(* with counts that wrap too.                                              *)
(***************************************************************************)
Terminated(m, p) == \E a \in p..SpaceSize - 1 : m[a] = 0
Strlen(m, p) == CHOOSE n \in 0..SpaceSize : /\ m[p + n] = 0
                                            /\ \A i \in 0..n - 1 :
                                                   m[p + i] # 0
\* Writing n bytes at d is inside the arena and away from the string at s.
Roomy(m, d, n, s) ==
    /\ d + n <= SpaceSize
    /\ d + n <= s \/ s + Strlen(m, s) < d

Pointers == 1..SpaceSize
Short(n, m, s) == Min({n, Strlen(m, s)})

\* Characters of a string that count where the code works on a copy.
Seen(m, s) == Short(MaxString, m, s)

Memory ==
    /\ call = NoCall
    /\ \E m \in Memories, d \in Pointers, s \in Pointers, n \in 0..MaxSize :
           \/ Called([fn |-> "memmove", m |-> m, d |-> d, s |-> s, n |-> n,
                      got |-> memmove(m, d, s, n)])
           \/ /\ s = 1
              /\ \/ Called([fn |-> "memset", m |-> m, d |-> d, n |-> n,
                            got |-> memset(m, d, 1, n)])
                 \/ Called([fn |-> "memchr", m |-> m, d |-> d, n |-> n,
                            got |-> memchr(m, d, 1, n)])
                 \/ Called([fn |-> "memrchr", m |-> m, d |-> d, n |-> n,
                            got |-> memrchr(m, d, 1, n)])

\* Counts of wide characters, the first two that wrap among them.
WideCounts == 0..MaxSize \cup {WordSpan, WordSpan + 1}

WideMemory ==
    /\ call = NoCall
    /\ \E m \in Memories, d \in Pointers, n \in WideCounts :
           \/ \E s \in Pointers :
                  Called([fn |-> "memmove", m |-> m, d |-> d, s |-> s, n |-> n,
                          got |-> wmemmove(m, d, s, n)])
           \/ Called([fn |-> "memset", m |-> m, d |-> d, n |-> n,
                      got |-> wmemset(m, d, 1, n)])
           \/ Called([fn |-> "memchr", m |-> m, d |-> d, n |-> n,
                      got |-> wmemchr(m, d, 1, n)])

Copies ==
    /\ call = NoCall
    /\ \E m \in Memories, d \in Pointers, s \in Pointers, n \in 0..MaxSize :
           /\ Terminated(m, s)
           /\ \/ /\ n = 0 /\ Roomy(m, d, Strlen(m, s) + 1, s)
                 /\ Called([fn |-> "strcpy", m |-> m, d |-> d, s |-> s,
                            got |-> strcpy(m, d, s)])
              \/ /\ Roomy(m, d, n, s)
                 /\ Called([fn |-> "strncpy", m |-> m, d |-> d, s |-> s,
                            n |-> n, got |-> strncpy(m, d, s, n)])
              \/ /\ n = 0 /\ Terminated(m, d)
                 /\ Roomy(m, d, Strlen(m, d) + Strlen(m, s) + 1, s)
                 /\ Called([fn |-> "strcat", m |-> m, d |-> d, s |-> s,
                            n |-> SpaceSize, got |-> strcat(m, d, s)])
              \/ /\ Terminated(m, d)
                 /\ Roomy(m, d, Strlen(m, d) + Short(n, m, s) + 1, s)
                 /\ Called([fn |-> "strcat", m |-> m, d |-> d, s |-> s,
                            n |-> n, got |-> strncat(m, d, s, n)])
              \/ /\ Terminated(m, d) /\ Roomy(m, d, n, s)
                 /\ Called([fn |-> "strlcat", m |-> m, d |-> d, s |-> s,
                            n |-> n, got |-> strlcat(m, d, s, n)])
              \/ /\ Strlen(m, s) + 2 <= n /\ Roomy(m, d, n, s)
                 /\ Called([fn |-> "wcsxfrm", m |-> m, d |-> d, s |-> s,
                            got |-> wcsxfrm(m, d, s, n)])
              \/ Called([fn |-> "emit", m |-> m, d |-> d, n |-> n,
                         text |-> [i \in 1..Seen(m, s) |-> m[s + i - 1]],
                         got |-> strxfrm(m, d, s, n)])

Searches ==
    /\ call = NoCall
    /\ \E m \in Memories, p \in Pointers, c \in 0..1 :
           /\ Terminated(m, p)
           /\ \/ Called([fn |-> "strchr", m |-> m, p |-> p, c |-> c,
                         got |-> strchr(m, p, c)])
              \/ Called([fn |-> "strrchr", m |-> m, p |-> p, c |-> c,
                         got |-> strrchr(m, p, c)])
              \/ /\ c = 0
                 /\ \/ Called([fn |-> "basename", m |-> m, p |-> p,
                               got |-> basename(m, p)])
                    \/ \E got \in {strlen(m, p), wcslen(m, p)} :
                           Called([fn |-> "length", m |-> m, p |-> p,
                                   got |-> got])
              \/ \E q \in Pointers, n \in 0..MaxSize :
                    /\ c = 0 /\ Terminated(m, q)
                    /\ \/ Called([fn |-> "strncasecmp", m |-> m, p |-> p,
                                  q |-> q, n |-> n,
                                  got |-> strncasecmp(m, p, q, n)])
                       \/ /\ n = MaxSize
                          /\ \/ Called([fn |-> "strcoll", m |-> m, p |-> p,
                                        q |-> q, n |-> SpaceSize,
                                        got |-> strcoll(m, p, q)])
                             \/ Called([fn |-> "strncasecmp", m |-> m,
                                        p |-> p, q |-> q, n |-> SpaceSize,
                                        got |-> strcasecmp(m, p, q)])
                             \/ Called([fn |-> "wcscoll", m |-> m, p |-> p,
                                        q |-> q, n |-> SpaceSize,
                                        got |-> wcscoll(m, p, q)])
                       \/ Called([fn |-> "wmemcmp", m |-> m, p |-> p, q |-> q,
                                  n |-> n, got |-> wmemcmp(m, p, q, n)])

\* Two tokenisers at once, turn by turn: strtok on the string at p, strtok_r
\* on the one behind it at q, as often as there can be tokens.
Turns == SpaceSize
Tokenisers(m, p, q, delims) ==
    LET Turn(t, k) == strtok_r(strtok(t, IF k = 1 THEN p ELSE 0, delims),
                               IF k = 1 THEN q ELSE 0, delims)
    IN FoldLeft(Turn, [mem |-> m, cursor |-> 0, save |-> 0, got |-> <<>>,
                       got_r |-> <<>>], [k \in 1..Turns |-> k])

Tokens ==
    /\ call = NoCall
    /\ \E m \in Memories, p, q \in Pointers, delims \in SUBSET (1..2) :
           /\ Terminated(m, p) /\ Terminated(m, q) /\ p + Strlen(m, p) < q
           /\ Called([fn |-> "strtok", m |-> m, p |-> p, q |-> q,
                      delims |-> delims, got |-> Tokenisers(m, p, q, delims)])

Texts == Sequences(1..2, 3)
Emits ==
    /\ call = NoCall
    /\ \E m \in {[a \in InSpace |-> 2]}, d \in Pointers, n \in 0..MaxSize + 1,
          text \in Texts :
           \/ Called([fn |-> "emit", m |-> m, d |-> d, n |-> n, text |-> text,
                      got |-> emit(m, d, n, text)])
           \/ Called([fn |-> "strerror_r", m |-> m, d |-> d, n |-> n,
                      text |-> text, got |-> strerror_r(m, d, n, text)])

\* Bytes n of a buffer at d that are in the arena.
Reaches(d, n) == {a \in d..d + n - 1 : a \in InSpace}

\* Memory after the call: `New(a)` at the addresses `where`, and elsewhere
\* what it was; nothing is written outside the arena.
Inside == DOMAIN call.got.mem = InSpace
Becomes(where, New(_)) ==
    /\ Inside
    /\ \A a \in InSpace :
           call.got.mem[a] = IF a \in where THEN New(a) ELSE call.m[a]

MemoryOK ==
    LET both == Cardinality(Reaches(call.d, call.n))
        moved == Min({both, Cardinality(Reaches(call.s, call.n))})
        From(a) == call.m[call.s + a - call.d]
        One(a) == 1
    IN CASE call.fn \in {"memmove", "memset"} /\ call.n >= WordSpan ->
               Inside /\ call.got.ret = call.d
         [] call.fn = "memmove" ->
               /\ Becomes(call.d..call.d + moved - 1, From)
               /\ call.got.ret = call.d
         [] call.fn = "memset" ->
               /\ Becomes(Reaches(call.d, call.n), One)
               /\ call.got.ret = call.d
         [] call.fn = "memchr" ->
               /\ call.got.ret # 0 => call.m[call.got.ret] = 1
               /\ \A a \in Reaches(call.d, call.n) :
                      call.m[a] = 1 => call.got.ret \in call.d..a
         [] call.fn = "memrchr" ->
               /\ call.got.ret # 0 => call.m[call.got.ret] = 1
               /\ \A a \in Reaches(call.d, call.n) :
                      call.m[a] = 1 => call.got.ret >= a
         [] OTHER -> TRUE

CopiesOK ==
    LET len == Strlen(call.m, call.s)
        dlen == Strlen(call.m, call.d)
        most == Min({len, call.n})            \* strcat, strncat
        kept == Min({len, call.n - dlen - 1}) \* strlcat
        Source(a) == call.m[call.s + a - call.d]
        Padded(a) == IF a - call.d < len THEN Source(a) ELSE 0
        Joined(a) == IF a = call.d + dlen + most THEN 0
                     ELSE call.m[call.s + a - call.d - dlen]
        Fitted(a) == IF a = call.d + dlen + kept THEN 0
                     ELSE call.m[call.s + a - call.d - dlen]
    IN CASE call.fn = "strcpy" -> Becomes(call.d..call.d + len, Source)
         [] call.fn = "wcsxfrm" ->
               /\ Becomes(call.d..call.d + len, Source)
               /\ call.got.ret = len
         [] call.fn = "strncpy" ->
               Becomes(call.d..call.d + call.n - 1, Padded)
         [] call.fn = "strcat" ->
               Becomes(call.d + dlen..call.d + dlen + most, Joined)
         [] call.fn = "strlcat" ->
               /\ Becomes(call.d + dlen..call.d + dlen + kept, Fitted)
               /\ (call.got.ret >= call.n) <=> (dlen + len >= call.n)
         [] OTHER -> TRUE

SearchesOK ==
    LET Hits == {a \in call.p..call.p + Strlen(call.m, call.p) :
                    call.m[a] = call.c}
        At(a) == IF call.fn = "strncasecmp" THEN Lower(read8(call.m, a))
                 ELSE read8(call.m, a)
        \* The first place where the two differ, if strings do not end before.
        most == IF call.fn \in {"strncasecmp", "strcoll"}
                THEN Min({call.n, MaxString}) ELSE call.n
        Differ == {k \in 0..most - 1 :
                      /\ At(call.p + k) # At(call.q + k)
                      /\ \A i \in 0..k - 1 :
                            /\ At(call.p + i) = At(call.q + i)
                            /\ At(call.p + i) # 0 \/ call.fn = "wmemcmp"}
    IN CASE call.fn = "strchr" ->
               IF Hits = {} THEN call.got.ret = 0
               ELSE call.got.ret \in Hits /\ \A a \in Hits : a >= call.got.ret
         [] call.fn = "strrchr" ->
               IF Hits = {} THEN call.got.ret = 0
               ELSE call.got.ret \in Hits /\ \A a \in Hits : a <= call.got.ret
         [] call.fn \in {"strncasecmp", "strcoll", "wcscoll", "wmemcmp"} ->
               IF Differ = {} THEN call.got.ret = 0
               ELSE LET k == CHOOSE k \in Differ : TRUE
                    IN (call.got.ret < 0) <=> (At(call.p + k) < At(call.q + k))
         [] call.fn = "length" -> call.got.ret = Strlen(call.m, call.p)
         [] call.fn = "basename" ->
               LET end == call.p + Seen(call.m, call.p)
               IN /\ call.got.ret \in call.p..end
                  /\ call.got.ret # call.p => call.m[call.got.ret - 1] = 2
                  /\ \A a \in call.got.ret..end - 1 : call.m[a] # 2
         [] OTHER -> TRUE

EmitOK ==
    LET put == Min({Len(call.text), Cardinality(Reaches(call.d, call.n)) - 1})
        Text(a) == IF a = call.d + put THEN 0 ELSE call.text[a - call.d + 1]
    IN call.fn \in {"emit", "strerror_r"} =>
          /\ call.got.ret = IF call.fn = "emit" THEN Len(call.text) ELSE 0
          /\ Becomes(call.d..call.d + put, Text)

\* A token begins at a character that separates nothing, at the beginning
\* or behind one that does; such a one behind a token becomes zero.
TokensOK ==
    LET Separates(a) == call.m[a] \in call.delims
        In(p) == p..p + Strlen(call.m, p) - 1
        Starts(p) == {a \in In(p) : ~Separates(a)
                                       /\ (a = p \/ Separates(a - 1))}
        Stops(p) == {a \in In(p) : Separates(a) /\ a # p
                                     /\ ~Separates(a - 1)}
        Told(p) == [k \in 1..Turns |->
                       LET first == {a \in Starts(p) :
                                Cardinality({b \in Starts(p) : b < a}) = k - 1}
                       IN IF first = {} THEN 0 ELSE Min(first)]
        Zero(a) == 0
    IN call.fn = "strtok" =>
          /\ call.got.got = Told(call.p) /\ call.got.got_r = Told(call.q)
          /\ Becomes(Stops(call.p) \cup Stops(call.q), Zero)

(***************************************************************************)
(* Text to numbers, and characters.                                        *)
(***************************************************************************)
Converts ==
    /\ call = NoCall
    /\ \/ \E text \in Sequences(Numerics, MaxNumerics), base \in Radices,
             long \in {WordBase, LongBase}, endp \in {0, 4} :
              Called([fn |-> "convert", text |-> text, s |-> 8, base |-> base,
                      endp |-> endp,
                      got |-> [int |-> atoi(text, base, long),
                               long |-> strtol(text, 8, endp, base, long),
                               ulong |-> strtoul(text, 8, endp, base, long),
                               llong |-> strtoll(text, 8, endp, base)]])
       \/ \E c \in DOMAIN Classes \cup {Eof} :
              Called([fn |-> "character", c |-> c, ctype |-> ctype_table(16),
                      lower |-> tolower_table(16)])

\* The number a text begins with: blanks, perhaps a sign, digits.
Numerals(text, base) ==
    {<<i, j>> \in (0..Len(text)) \X (0..Len(text)) :
        /\ i < j /\ \A k \in i + 1..j : text[k] \in 0..base - 1
        /\ \A k \in 1..i : \/ text[k] = Space
                           \/ k = i /\ text[k] = Minus}
Numeral(text, base) ==
    LET ends == {n[2] : n \in Numerals(text, base)}
        end == Max(ends)
        first == CHOOSE i \in 0..end : <<i, end>> \in Numerals(text, base)
        size == SumFunctionOnSet([k \in first + 1..end |->
                                     text[k] * base^(end - k)], first + 1..end)
    IN IF ends = {} THEN [end |-> 0, value |-> 0]
       ELSE [end |-> end,
             value |-> IF first > 0 /\ text[first] = Minus THEN -size
                       ELSE size]

ConvertsOK ==
    call.fn = "convert" =>
      LET n == Numeral(call.text, call.base)
          \* The number of what atoi and strtoll copy.
          c == Numeral(SubSeq(call.text, 1, Min({Len(call.text), MaxString})),
                       call.base)
          Fits(v) == v \in -(WordBase \div 2)..WordBase \div 2 - 1
          Stored(g, end) == g.stored = IF call.endp = 0 THEN "nothing"
                                       ELSE call.s + end
      IN /\ Stored(call.got.long, n.end) /\ Stored(call.got.ulong, n.end)
         /\ Stored(call.got.llong, c.end)
         /\ Fits(c.value) => Signed(call.got.int) = c.value
         /\ Fits(n.value) => Signed(call.got.long.ret) = n.value
         /\ Abs(n.value) < WordBase =>
               call.got.ulong.ret = n.value % WordBase
         /\ AsSigned(Wide(call.got.llong.ret), LongBase)
               = Max({-(LongBase \div 2), Min({c.value, LongBase \div 2 - 1})})

\* What the guest's inlined macros make of the tables they import.
CharactersOK ==
    call.fn = "character" =>
      LET c == call.c
          flags == call.ctype[16 + 1 + c]
      IN /\ (flags \cap {"upper", "lower"} # {}) = isalpha(c)
         /\ (flags \cap {"upper", "lower", "digit"} # {}) = isalnum(c)
         /\ ("space" \in flags) = isspace(c)
         /\ call.lower[16 + 2 * (c + 1)] = tolower(c)
         /\ isalpha(c) = iswctype(c, wctype("alpha"))
         /\ isalnum(c) = iswctype(c, wctype("alnum"))
         /\ \A name \in {"space", "digit", "upper", "lower", "punct"} :
               (name \in flags) = iswctype(c, wctype(name))
         /\ wctob(btowc(c % WordBase)) = c % WordBase
         /\ c # Eof => wcrtomb(mbrtowc(c, 1).stored).stored = c

\* Memory and string imports leave memory as C says, byte for byte - what is
\* written, what is not, where the terminator goes, what is cleared behind it
\* - and return what C says; a length that leaves the arena is cut short at
\* its end.  Two tokenisers work side by side, each giving every token of its
\* string once and in order.  Wide characters are claimed to be collated into
\* a buffer with room to spare only.  A number is the one its text begins
\* with, whatever follows it, and the end told is the character behind it, or
\* the text itself where there is none: claimed of numbers the guest's long
\* can hold.  Two limits of the code are part of the claim, as findings tell:
\* strcasecmp, strncasecmp, strcoll, strxfrm, basename, atoi and strtoll work
\* on a copy, and do what C says of the first MaxString characters of their
\* strings; and of wide characters too many for 32 bits of address nothing
\* is written outside the arena, but what is moved or set is not claimed.  A character is in the same classes by the table the guest was
\* given, by the host's function and as a wide one.
\* (guest.cpp, Memory::str; thunks_libc.cpp, t_memcpy to t_iswctype,
\* init_libc_data;
\* thunks_printf.cpp, emit; thunks_math.cpp, t_memrchr to t_wcrtomb)
StringsAreC == /\ MemoryOK /\ CopiesOK /\ SearchesOK /\ EmitOK /\ TokensOK
               /\ ConvertsOK /\ CharactersOK

(***************************************************************************)
(* The guest's own routines: where GuestCode::self_test tries some twenty  *)
(* values, every one of a range.                                           *)
(***************************************************************************)
CodeSize == 54
Code == build(CodeSize)

Around == [a \in 0..MaxBlock + 31 |-> ByteBase - 1]

\* Two strings in one memory, the first at 0 and the second at 8.
TwoStrings(x, y) ==
    [a \in 0..7 |-> IF a < Len(x) THEN x[a + 1] ELSE 0]
        @@ [a \in 8..15 |-> IF a - 8 < Len(y) THEN y[a - 7] ELSE 0]

Routines ==
    /\ call = NoCall
    /\ \/ \E d \in 8..11, c \in {0, 1, ByteBase + 2}, n \in 0..MaxBlock :
              Called([fn |-> "fill", d |-> d, c |-> c, n |-> n,
                      got |-> CallRoutine(Code, "memset", Around, d, c, n)])
       \/ \E x, y \in Sequences(1..2, 2) :
              \/ \E name \in {"strcmp", "strlen"} :
                     Called([fn |-> name, x |-> x, y |-> y,
                             got |-> CallRoutine(Code, name, TwoStrings(x, y),
                                                 0, 8, 0)])
              \/ \E n \in 0..4 :
                     Called([fn |-> "memcmp", x |-> x, y |-> y, n |-> n,
                             got |-> CallRoutine(Code, "memcmp",
                                                 TwoStrings(x, y), 0, 8, n)])
       \/ \E n, d \in Dividends :
              Called([fn |-> "divide", n |-> n, d |-> d,
                      got |-> <<idivmod(n, d), uidivmod(n, d)>>])
       \/ \E n, d \in Dividends \X Dividends :
              /\ Wide(n) # LongBase \div 2 \/ Wide(d) # LongBase - 1
              /\ Called([fn |-> "long divide", n |-> n, d |-> d,
                         got |-> <<ldivmod(n, d), uldivmod(n, d)>>])
       \/ \E x \in Rounded :
              Called([fn |-> "round", x |-> x,
                      got |-> <<truncf(x), floorf(x), ceilf(x)>>])

\* The first place among n where two byte sequences differ decides.
Order(m, n) ==
    LET differ == {k \in 0..n - 1 : m[k] # m[8 + k]}
    IN IF differ = {} THEN 0
       ELSE LET k == Min(differ) IN IF m[k] < m[8 + k] THEN -1 ELSE 1
Sign(w) == IF Signed(w) < 0 THEN -1 ELSE IF w = 0 THEN 0 ELSE 1

BlocksOK ==
    /\ call.fn = "fill" =>
          /\ call.got.r[0] = call.d
          /\ \A a \in DOMAIN call.got.mem :
                call.got.mem[a] = IF a \in call.d..call.d + call.n - 1
                                  THEN call.c % ByteBase ELSE Around[a]
    /\ call.fn = "strlen" => call.got.r[0] = Len(call.x)
    /\ call.fn = "strcmp" =>
          Sign(call.got.r[0]) =
              Order(call.got.mem, Min({Len(call.x), Len(call.y)}) + 1)
    /\ call.fn = "memcmp" =>
          Sign(call.got.r[0]) = Order(call.got.mem, call.n)

\* Quotient and remainder make up the numerator again, and the remainder is
\* smaller than the divisor and has the numerator's sign.
Divides(n, d, q, rem, Number(_), base) ==
    /\ (Number(q) * Number(d) + Number(rem) - Number(n)) % base = 0
    /\ Abs(Number(rem)) < Abs(Number(d))
    /\ Number(rem) = 0 \/ (Number(rem) < 0) = (Number(n) < 0)

NumbersOK ==
    LET Plain(w) == w
        LongSigned(pair) == AsSigned(Wide(pair), LongBase)
        DividesLong(got, Number(_)) ==
            Divides(call.n, call.d, SubSeq(got, 1, 2), SubSeq(got, 3, 4),
                    Number, LongBase)
    IN /\ (call.fn = "divide" /\ call.d # 0) =>
            /\ Divides(call.n, call.d, call.got[1][1], call.got[1][2], Signed,
                       WordBase)
            /\ Divides(call.n, call.d, call.got[2][1], call.got[2][2], Plain,
                       WordBase)
       /\ (call.fn = "long divide" /\ call.d # <<0, 0>>) =>
            /\ DividesLong(call.got[1], LongSigned)
            /\ DividesLong(call.got[2], Wide)
       /\ call.fn = "round" =>
            LET v == Parts(call.x)
                whole == (v \div Fraction) * Fraction     \* rounded down
                Got(k) == Parts(call.got[k])
            IN /\ Got(2) = whole
               /\ Got(3) = IF v = whole THEN v ELSE whole + Fraction
               /\ Got(1) = IF v < 0 THEN Got(3) ELSE Got(2)

\* The routines emitted into guest code do what the host's functions of the
\* same names do: a block filled to its last byte and not one further at
\* every alignment and length, strings ordered by their first difference,
\* divisions that add up, floats rounded the right way on both sides of zero
\* and left alone where they have no fraction.  (guest_code.cpp, self_test:
\* "a memset that writes one byte too many is silent for hours")  So does the
\* host's division of double words, the least number by -1 apart.
\* (thunks_runtime.cpp, t_ldivmod)
RoutinesAgree == BlocksOK /\ NumbersOK

(***************************************************************************)
(* Textures and shaders.                                                   *)
(***************************************************************************)
Formats == {"RGB", "RGBA", "LUMINANCE_ALPHA", "ALPHA", "LUMINANCE"}
Types == {"BYTE", "5_6_5", "4_4_4_4", "SHORT", "INT", "FLOAT"}
Packed == {"5_6_5", "4_4_4_4"}

Texture ==
    /\ call = NoCall
    /\ \E w, h \in 1..MaxEdge, format \in Formats, type \in Types,
          alignment \in {1, 2, 4}, room \in {0, 8, 1000} :
           /\ type \in Packed => format \in {"RGB", "RGBA"}
           /\ \/ Called([fn |-> "tex", w |-> w, h |-> h, format |-> format,
                         type |-> type, alignment |-> alignment, room |-> room,
                         got |-> TexImage2D(w, h, format, type, room)])
              \/ /\ format = "RGBA" /\ type = "BYTE" /\ alignment = 1
                 /\ Called([fn |-> "compressed", bytes |-> w - 1,
                            room |-> room,
                            got |-> CompressedTexImage2D(w - 1, room)])

Shader ==
    /\ call = NoCall
    /\ \E chunks \in Sequences(Chunks, MaxChunks) :
           Called([fn |-> "shader", source |-> FlattenSeq(chunks),
                   got |-> initialise_loop_counters(FlattenSeq(chunks))])

UploadsOK ==
    /\ call.fn = "tex" =>
          /\ call.got <= call.room
          /\ (/\ call.got > 0
              /\ (call.w * PixelBytes(call.format, call.type))
                     % call.alignment = 0) =>
                DriverReads(call.w, call.h, call.format, call.type,
                            call.alignment) <= call.got
    /\ call.fn = "compressed" => call.got \in {0, call.bytes}
                                   /\ call.got <= call.room

\* The driver reads no more of an upload than was staged for it, as long as
\* rows need no padding, and what does not fit the arena is not uploaded;
\* every loop counter a shader declares without a value is given one, once,
\* and nothing else of the shader changes.  (thunks_gl.cpp, staged: "a
\* staging copy that cannot overrun", and initialise_loop_counters)
DriverGetsItsData ==
    /\ UploadsOK
    /\ call.fn = "shader" => call.got = CountersStarted(call.source)

Next == \/ Printf \/ Java \/ Shader \/ Texture \/ Watch
        \/ Routines \/ Converts \/ Emits \/ Tokens \/ Copies \/ Searches \/ Memory
        \/ WideMemory
        \/ Stream \/ Scanf \/ Load \/ Return

Spec == Init /\ [][Next]_call
====
