---- MODULE GuestScan ----
(***************************************************************************)
(* sscanf (thunks_printf.cpp, t_sscanf).                                   *)
(*                                                                         *)
(* The input is a sequence of characters: a digit, a letter or a space.  A *)
(* format is a sequence of directives: a space, a text character to match, *)
(* or a conversion with suppress, width, length and conv, `length` being   *)
(* the letters in front of it.  A store is [slot, bytes, conv, from, to]:  *)
(* the slot its pointer was read from, the bytes written through it, and   *)
(* the part of the input it came from.                                     *)
(***************************************************************************)
EXTENDS GuestFormat

Digits == {"1"}
Letters == {"x"}
Chars == Digits \cup Letters \cup {" "}

\* -2 hh, -1 h, 0 none, 1 l, 2 ll or L.
Length(letters) ==
    LET Add(length, c) ==
            CASE c = "h" -> IF length = -1 THEN -2 ELSE -1
              [] c = "l" -> IF length = 1 THEN 2 ELSE 1
              [] c = "L" -> 2
              [] OTHER -> 1
    IN FoldLeft(Add, 0, letters)

\* How much is written through the pointer, for a field of `size` characters.
Bytes(c, size) ==
    CASE c.conv \in Ints -> CASE Length(c.length) = -2 -> 1
                              [] Length(c.length) = -1 -> 2
                              [] Length(c.length) = 2 -> 8
                              [] OTHER -> 4
      [] c.conv \in Floats -> IF Length(c.length) >= 1 THEN 8 ELSE 4
      [] c.conv = "n" -> 4
      [] c.conv = "c" -> size
      [] OTHER -> size + 1

Skip(input, at) ==
    Max({j \in at..Len(input) + 1 : \A k \in at..j - 1 : input[k] = " "})

\* The characters a field of this conversion is made of: {"[", "^"} are the
\* set of digits and its complement.
Accepts(conv) ==
    CASE conv \in Ints \cup Floats \cup {"["} -> Digits
      [] conv = "^" -> Chars \ Digits
      [] OTHER -> Chars \ {" "}

Longest(input, at, conv) ==
    Max({j \in at..Len(input) + 1 :
             \A k \in at..j - 1 : input[k] \in Accepts(conv)}) - at

\* The size of the field, -1 when the conversion does not match.
Field(input, at, c) ==
    LET most == Longest(input, at, c.conv)
        want == IF c.width = 0 THEN 1 ELSE c.width
    IN CASE c.conv = "n" -> 0
         [] c.conv = "c" -> IF at + want - 1 <= Len(input)
                            THEN want ELSE -1
         [] c.conv \notin Ints \cup Floats \cup {"s", "[", "^"} -> -1
         [] most = 0 -> -1
         [] c.width = 0 -> most
         [] OTHER -> Min({most, c.width})

\* Mutant of Pointer: a suppressed conversion takes a pointer all the same.
Pointer_Always(args, c) == Next32(args)

Pointer(args, c) ==
    IF c.suppress THEN [value |-> <<>>, args |-> args] ELSE Next32(args)

Convert(scan, input, c) ==
    LET at == IF c.conv \in {"c", "[", "^", "n"} THEN scan.in
              ELSE Skip(input, scan.in)
        size == Field(input, at, c)
        p == Pointer(scan.args, c)
    IN IF size = -1
       THEN [scan EXCEPT !.matched = FALSE]
       ELSE [scan EXCEPT
               !.in = at + size, !.args = p.args,
               !.assigned = IF c.suppress \/ c.conv = "n" THEN @ ELSE @ + 1,
               !.stores = IF c.suppress THEN @
                          ELSE Append(@, [slot |-> p.value[1],
                                          bytes |-> Bytes(c, size),
                                          conv |-> c.conv,
                                          from |-> at, to |-> at + size])]

Directive(scan, input, d) ==
    CASE ~scan.matched -> scan
      [] scan.matched /\ d.kind = "space" ->
            [scan EXCEPT !.in = Skip(input, @)]
      [] scan.matched /\ d.kind = "text" ->
            IF scan.in <= Len(input) /\ input[scan.in] = d.char
            THEN [scan EXCEPT !.in = @ + 1]
            ELSE [scan EXCEPT !.matched = FALSE]
      [] OTHER -> Convert(scan, input, d)

sscanf(input, fmt) ==
    LET Step(scan, d) == Directive(scan, input, d)
    IN FoldLeft(Step, [args |-> RegArgs(2), in |-> 1, assigned |-> 0,
                       matched |-> TRUE, stores |-> <<>>], fmt)

(***************************************************************************)
(* The reference: the size of the object each conversion names in C, and   *)
(* what the standard says of fields and of the count returned.             *)
(***************************************************************************)
ObjectSize(c, size) ==
    CASE c.conv \in Ints \cup {"n"} ->
            CASE c.length = <<"h", "h">> -> 1
              [] c.length = <<"h">> -> 2
              [] c.length \in {<<"l", "l">>, <<"j">>} -> 8
              [] OTHER -> 4
      [] c.conv \in Floats ->
            IF c.length \in {<<"l">>, <<"L">>} THEN 8 ELSE 4
      [] c.conv = "c" -> size
      [] OTHER -> size + 1

\* Two places where the code departs from it: %n writes four bytes whatever
\* its length, and j is taken as 32 bits where guest_format takes 64.
Departs(c) == (c.conv = "n" /\ c.length # <<>>) \/ c.length = <<"j">>

Targets(fmt) ==
    LET Named(d) == d.kind = "conv" /\ ~d.suppress
    IN SelectSeq(fmt, Named)

\* The input from one place up to another is what a directive asks for.
Matches(input, from, to, d) ==
    LET Of(a, b, chars) == \A k \in a..b - 1 : input[k] \in chars
        EndsOf(chars) == to = Len(input) + 1 \/ input[to] \notin chars
        Takes(c, first) ==
            /\ Of(from, first, {" "}) /\ Of(first, to, Accepts(c))
            /\ c \in {"[", "^"} => first = from
            /\ \/ to - first = d.width
               \/ EndsOf(Accepts(c)) /\ (d.width = 0 \/ to - first < d.width)
    IN CASE d.kind = "space" -> Of(from, to, {" "}) /\ EndsOf({" "})
         [] d.kind = "text" -> to = from + 1 /\ Of(from, to, {d.char})
         [] d.kind = "conv" ->
               \/ d.conv = "n" /\ to = from
               \/ d.conv = "c" /\ to - from = Max({d.width, 1})
               \/ /\ d.conv \in Ints \cup Floats \cup {"s", "[", "^"}
                  /\ \E first \in from..to - 1 : Takes(d.conv, first)

\* The longest part of the format the input has a match for.
MatchedPart(input, fmt) ==
    LET After(places, d) ==
            {to \in 1..Len(input) + 1 :
                \E from \in places : from <= to /\ Matches(input, from, to, d)}
        Places(k) == FoldLeft(After, {1}, SubSeq(fmt, 1, k))
    IN SubSeq(fmt, 1, Max({k \in 0..Len(fmt) : Places(k) # {}}))

\* The scan stores as long as the input matches the format and no longer.
\* Every store goes through its own pointer and is as wide as the object
\* behind it, fields follow one another and stop where they must, and what
\* is returned is the number of stores %n did not make.
ScanIsSound(input, fmt, scan) ==
    LET t == Targets(MatchedPart(input, fmt))
        s == scan.stores
    IN /\ Len(s) = Len(t)
       /\ \A k \in 1..Len(s) :
            /\ s[k].slot = k + 1
            /\ s[k].conv = t[k].conv
            /\ s[k].bytes = ObjectSize(t[k], s[k].to - s[k].from)
                 \/ Departs(t[k])
            /\ k > 1 => s[k].from >= s[k - 1].to
            /\ (s[k].conv # "c" /\ s[k].conv # "n") =>
                 \/ s[k].to - s[k].from = t[k].width
                 \/ s[k].to = Len(input) + 1
                 \/ input[s[k].to] \notin Accepts(s[k].conv)
       /\ scan.assigned = Cardinality({k \in 1..Len(s) : s[k].conv # "n"})
====
