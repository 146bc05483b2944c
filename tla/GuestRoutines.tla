---- MODULE GuestRoutines ----
(***************************************************************************)
(* The routines the guest runs without leaving the recompiler              *)
(* (guest_code.cpp), executed instruction by instruction: memset, strlen,  *)
(* strcmp and memcmp with their encoded branch offsets, division with its  *)
(* remainder, and the rounding of floats.                                  *)
(*                                                                         *)
(* A byte counts to ByteBase and a word is four of them; an instruction is *)
(* a tuple, an offset of a branch counts words from the second after it.   *)
(***************************************************************************)
EXTENDS Integers, Sequences, TLC

CONSTANTS ByteBase, Fraction, Exact, Saturation

ASSUME RoutinesAssumption ==
    /\ ByteBase \in Nat \ {0, 1}
    /\ {Fraction, Exact, Saturation} \subseteq Nat \ {0}
    /\ Exact <= Saturation        \* 2^23 and 2^31

WordBase == ByteBase * ByteBase * ByteBase * ByteBase

\* GuestCode::emit puts routines one behind the other, a word at a time.
Emit(code, name, words, size) ==
    IF Len(code.space) + Len(words) > size THEN code
    ELSE [space |-> code.space \o words,
          routines |-> (name :> Len(code.space)) @@ code.routines]

(***************************************************************************)
(* memset, strlen, strcmp, memcmp.                                         *)
(***************************************************************************)
\* Mutant of MemsetCode: short blocks are aligned as well.
MemsetCode_AlignsAll ==
    << <<"mov", 3, 0>>, <<"and", 1>>, <<"orr", 1, ByteBase>>,
       <<"orr", 1, ByteBase * ByteBase>>,
       <<"cmp", 2, 0>>, <<"blo", 12>>,
       <<"tst", 3>>, <<"beq", 2>>, <<"strb", 1, 3>>, <<"sub", 2, 1>>,
       <<"b", -6>>,
       <<"cmp", 2, 16>>, <<"blo", 5>>, <<"str", 1, 3>>, <<"str", 1, 3>>,
       <<"str", 1, 3>>, <<"str", 1, 3>>, <<"sub", 2, 16>>, <<"b", -9>>,
       <<"cmp", 2, 0>>, <<"bxeq">>, <<"strb", 1, 3>>, <<"subs", 2, 1>>,
       <<"bne", -4>>, <<"bx">> >>

\* r0 the block, r1 the byte, r2 the length; r3 walks.  Sixteen bytes or
\* more are aligned to a word and filled by four words at a time.
MemsetCode ==
    << <<"mov", 3, 0>>, <<"and", 1>>, <<"orr", 1, ByteBase>>,
       <<"orr", 1, ByteBase * ByteBase>>,
       <<"cmp", 2, 16>>, <<"blo", 12>>,
       <<"tst", 3>>, <<"beq", 2>>, <<"strb", 1, 3>>, <<"sub", 2, 1>>,
       <<"b", -6>>,
       <<"cmp", 2, 16>>, <<"blo", 5>>, <<"str", 1, 3>>, <<"str", 1, 3>>,
       <<"str", 1, 3>>, <<"str", 1, 3>>, <<"sub", 2, 16>>, <<"b", -9>>,
       <<"cmp", 2, 0>>, <<"bxeq">>, <<"strb", 1, 3>>, <<"subs", 2, 1>>,
       <<"bne", -4>>, <<"bx">> >>

StrlenCode ==
    << <<"mov", 1, 0>>, <<"ldrb", 2, 1>>, <<"cmp", 2, 0>>, <<"bne", -4>>,
       <<"subr", 0, 1, 0>>, <<"sub", 0, 1>>, <<"bx">> >>

StrcmpCode ==
    << <<"ldrb", 2, 0>>, <<"ldrb", 3, 1>>, <<"cmpr", 2, 3>>, <<"bne", 3>>,
       <<"cmp", 2, 0>>, <<"bne", -7>>, <<"zero", 0>>, <<"bx">>,
       <<"subr", 0, 2, 3>>, <<"bx">> >>

MemcmpCode ==
    << <<"cmp", 2, 0>>, <<"beq", 5>>, <<"ldrb", 3, 0>>, <<"ldrb", 12, 1>>,
       <<"cmpr", 3, 12>>, <<"bne", 3>>, <<"subs", 2, 1>>, <<"bne", -7>>,
       <<"zero", 0>>, <<"bx">>, <<"subr", 0, 3, 12>>, <<"bx">> >>

Names == <<"memset", "strlen", "strcmp", "memcmp">>
Codes == <<MemsetCode, StrlenCode, StrcmpCode, MemcmpCode>>

\* GuestCode::build.
build(size) ==
    LET f[k \in 0..4] == IF k = 0 THEN [space |-> <<>>, routines |-> <<>>]
                         ELSE Emit(f[k - 1], Names[k], Codes[k], size)
    IN f[4]

(***************************************************************************)
(* The processor: registers, the flags of the last compare (eq, and lo for *)
(* unsigned less), memory, and the word to run next.                       *)
(***************************************************************************)
Set(s, r, v) == [s EXCEPT !.r[r] = v % WordBase, !.pc = @ + 1]
Flags(s, a, b) == [s EXCEPT !.eq = a = b, !.lo = a < b, !.pc = @ + 1]
Branch(s, taken, offset) == [s EXCEPT !.pc = @ + IF taken THEN 2 + offset
                                                 ELSE 1]
Byte(w, k) == (IF k = 0 THEN w ELSE IF k = 1 THEN w \div ByteBase
               ELSE IF k = 2 THEN w \div (ByteBase * ByteBase)
               ELSE w \div (ByteBase * ByteBase * ByteBase)) % ByteBase
Store(s, w, at, n) ==
    [Set(s, at, s.r[at] + n) EXCEPT
        !.mem = [a \in s.r[at]..s.r[at] + n - 1 |-> Byte(w, a - s.r[at])]
                   @@ @]

Execute(space, s) ==
    LET i == space[s.pc + 1]
        r == s.r
    IN CASE i[1] = "mov" -> Set(s, i[2], r[i[3]])
         [] i[1] = "zero" -> Set(s, i[2], 0)
         [] i[1] = "and" -> Set(s, i[2], r[i[2]] % ByteBase)
         [] i[1] = "orr" -> Set(s, i[2], r[i[2]] + r[i[2]] * i[3])
         [] i[1] = "sub" -> Set(s, i[2], r[i[2]] - i[3])
         [] i[1] = "subr" -> Set(s, i[2], r[i[3]] - r[i[4]])
         [] i[1] = "subs" ->
              Set(Flags([s EXCEPT !.pc = @ - 1], r[i[2]], i[3]), i[2],
                  r[i[2]] - i[3])
         [] i[1] = "cmp" -> Flags(s, r[i[2]], i[3])
         [] i[1] = "cmpr" -> Flags(s, r[i[2]], r[i[3]])
         [] i[1] = "tst" -> Flags(s, r[i[2]] % 4, 0)
         [] i[1] = "ldrb" -> Set(Set([s EXCEPT !.pc = @ - 1], i[2],
                                     s.mem[r[i[3]]]), i[3], r[i[3]] + 1)
         [] i[1] = "strb" -> Store(s, r[i[2]], i[3], 1)
         [] i[1] = "str" -> Store(s, r[i[2]], i[3], 4)
         [] i[1] = "b" -> Branch(s, TRUE, i[2])
         [] i[1] = "beq" -> Branch(s, s.eq, i[2])
         [] i[1] = "bne" -> Branch(s, ~s.eq, i[2])
         [] i[1] = "blo" -> Branch(s, s.lo, i[2])
         [] i[1] = "bx" -> [s EXCEPT !.done = TRUE]
         [] i[1] = "bxeq" -> [s EXCEPT !.done = s.eq, !.pc = @ + 1]

\* 2^k instructions, or fewer if the routine returns.
RECURSIVE Run(_, _, _)
Run(space, s, k) ==
    IF s.done THEN s
    ELSE IF k = 0 THEN Execute(space, s)
    ELSE Run(space, Run(space, s, k - 1), k - 1)

\* GuestCode::resolve and a call of what it found.
CallRoutine(code, name, mem, r0, r1, r2) ==
    Run(code.space,
        [pc |-> code.routines[name], eq |-> FALSE, lo |-> FALSE,
         mem |-> mem, done |-> FALSE,
         r |-> (0 :> r0 @@ 1 :> r1 @@ 2 :> r2 @@ 3 :> 0 @@ 12 :> 0)], 9)

(***************************************************************************)
(* __aeabi_idivmod and __aeabi_uidivmod.                                   *)
(***************************************************************************)
Signed(w) == IF 2 * w < WordBase THEN w ELSE w - WordBase
Abs(i) == IF i < 0 THEN -i ELSE i

\* sdiv and udiv: toward zero, a divisor of zero gives zero.
Udiv(n, d) == IF d = 0 THEN 0 ELSE n \div d
Sdiv(n, d) ==
    LET q == Udiv(Abs(Signed(n)), Abs(Signed(d)))
    IN (IF (Signed(n) < 0) = (Signed(d) < 0) THEN q ELSE -q) % WordBase

\* The remainder is recovered with one multiply-and-subtract.
idivmod(n, d) == <<Sdiv(n, d), (n - Sdiv(n, d) * d) % WordBase>>
uidivmod(n, d) == <<Udiv(n, d), (n - Udiv(n, d) * d) % WordBase>>

(***************************************************************************)
(* truncf, floorf and ceilf.  A float is its sign and its magnitude in     *)
(* parts of one over Fraction, whole from Exact up; infinity and NaN are   *)
(* magnitudes beyond all others.                                           *)
(***************************************************************************)
Parts(x) == IF x.neg THEN -x.mag ELSE x.mag
Float(v) == [neg |-> v < 0, mag |-> Abs(v)]

\* vcvt.s32.f32 and back.
Converted(x) ==
    LET whole == x.mag - (x.mag % Fraction)
        top == Saturation * Fraction
    IN Float(IF x.neg THEN -(IF whole > top THEN top ELSE whole)
             ELSE IF whole > top - Fraction THEN top - Fraction ELSE whole)

Early(x) == x.mag >= Exact * Fraction

truncf(x) == IF Early(x) THEN x ELSE Converted(x)
floorf(x) == IF Early(x) THEN x
             ELSE IF Parts(x) < Parts(Converted(x))
                  THEN Float(Parts(Converted(x)) - Fraction)
                  ELSE Converted(x)
ceilf(x) == IF Early(x) THEN x
            ELSE IF Parts(x) > Parts(Converted(x))
                 THEN Float(Parts(Converted(x)) + Fraction)
                 ELSE Converted(x)
====
