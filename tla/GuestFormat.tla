---- MODULE GuestFormat ----
(***************************************************************************)
(* How the printf and scanf families find their arguments                  *)
(* (env.cpp, guest_format.h, guest_format.cpp, thunks_printf.cpp).         *)
(*                                                                         *)
(* The guest follows the ARM procedure call standard: arguments fill words *)
(* 0..3 (r0-r3), then the stack, and a 64-bit value starts at an even      *)
(* word.  A SLOT is a word of that area: 0..3 the registers, 4.. the words *)
(* at sp, which is aligned to eight bytes.  A value read is the sequence   *)
(* of slots it was read from; what the characters look like is left out.   *)
(***************************************************************************)
EXTENDS Integers, SequencesExt

Ints == {"d", "u"}             \* d i, and u x X o
Floats == {"f"}                \* f F g G e E
Words == {"c", "p", "s"}
Silent == {"%"}

\* Where Env::Args stands: `core` registers read, `stack` words past sp.
RegArgs(core) == [core |-> core, stack |-> 0]

\* A va_list is a pointer into the same area, and never sees registers: a
\* variadic function stores r0-r3 just below its stack arguments.
VaListArgs(slot) == [core |-> 4, stack |-> slot - 4]

Even(n) == 2 * ((n + 1) \div 2)

Next32(a) ==
    IF a.core < 4
    THEN [value |-> <<a.core>>, args |-> [a EXCEPT !.core = @ + 1]]
    ELSE [value |-> <<4 + a.stack>>, args |-> [a EXCEPT !.stack = @ + 1]]

\* Mutant of Next64: on the stack a pair is not aligned.
Next64_Unaligned(a) ==
    IF Even(a.core) <= 2
    THEN [value |-> <<Even(a.core), Even(a.core) + 1>>,
          args |-> [a EXCEPT !.core = Even(@) + 2]]
    ELSE [value |-> <<4 + a.stack, 5 + a.stack>>,
          args |-> [core |-> 4, stack |-> a.stack + 2]]

Next64(a) ==
    IF Even(a.core) <= 2
    THEN [value |-> <<Even(a.core), Even(a.core) + 1>>,
          args |-> [a EXCEPT !.core = Even(@) + 2]]
    ELSE [value |-> <<4 + Even(a.stack), 5 + Even(a.stack)>>,
          args |-> [core |-> 4, stack |-> Even(a.stack) + 2]]

Is64Bit(length) == length \in {"ll", "q", "j"}

(***************************************************************************)
(* printf.  A format is a sequence of conversions; what one has read is    *)
(* [stars, value], the widths and precisions taken from the arguments and  *)
(* then the value.                                                         *)
(***************************************************************************)

\* One star of a conversion: the width or precision is an argument.
Star(done, n) ==
    LET r == Next32(done.args)
    IN [args |-> r.args, stars |-> Append(done.stars, r.value)]

Stars(args, n) ==
    FoldLeft(Star, [args |-> args, stars |-> <<>>], [i \in 1..n |-> i])

\* The value of a conversion; one the code does not know reads nothing.
Value(args, c) ==
    IF c.conv \in Floats \/ (c.conv \in Ints /\ Is64Bit(c.length))
    THEN Next64(args)
    ELSE IF c.conv \in Ints \cup Words
         THEN Next32(args)
         ELSE [value |-> <<>>, args |-> args]

Conversion(out, c) ==
    LET sized == Stars(out.args, c.stars)
        v == Value(sized.args, c)
    IN [args |-> v.args,
        read |-> Append(out.read, [stars |-> sized.stars,
                                   value |-> v.value])]

guest_format(args, fmt) ==
    FoldLeft(Conversion, [args |-> args, read |-> <<>>], fmt).read

\* The entry points: where the arguments after the fixed ones begin.
snprintf(fmt) == guest_format(RegArgs(3), fmt)
sprintf(fmt) == guest_format(RegArgs(2), fmt)
printf(fmt) == guest_format(RegArgs(1), fmt)
fprintf(fmt) == guest_format(RegArgs(2), fmt)
vsnprintf(fmt, ap) == guest_format(VaListArgs(ap), fmt)
vsprintf(fmt, ap) == guest_format(VaListArgs(ap), fmt)

(***************************************************************************)
(* The reference: what C says a conversion is passed on 32-bit ARM, and    *)
(* where the procedure call standard puts it.                              *)
(***************************************************************************)
TypeSize(c) ==
    CASE c.conv \in {"f", "a"} -> 2
      [] c.conv \in {"d", "u"} ->
            IF c.length \in {"ll", "q", "j"} THEN 2 ELSE 1
      [] c.conv \in {"c", "s", "p", "n"} -> 1
      [] OTHER -> 0

Slots(from, size) ==
    LET first == IF size = 2 THEN Even(from) ELSE from
    IN [k \in 1..size |-> first + k - 1]

Passed(from, fmt) ==
    LET Pass(at, c) ==
            LET stars == [k \in 1..c.stars |-> <<at.next + k - 1>>]
                value == Slots(at.next + c.stars, TypeSize(c))
            IN [next |-> IF value = <<>> THEN at.next + c.stars
                         ELSE Last(value) + 1,
                args |-> Append(at.args, [stars |-> stars,
                                          value |-> value])]
    IN FoldLeft(Pass, [next |-> from, args |-> <<>>], fmt).args

Known(c) == c.conv \in Ints \cup Floats \cup Words \cup Silent

\* How many conversions come before the first the code does not know.
KnownPart(fmt) ==
    Cardinality({i \in DOMAIN fmt : \A j \in 1..i : Known(fmt[j])})
====
