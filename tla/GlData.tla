---- MODULE GlData ----
(***************************************************************************)
(* What GL thunks hand the driver (thunks_gl.cpp): textures through a      *)
(* staging copy, and shader source with its loop counters initialised.     *)
(* Formats and types are named; a shader is a sequence of tokens, without  *)
(* the white space between them.                                           *)
(***************************************************************************)
EXTENDS Integers, SequencesExt

Components(format) ==
    CASE format = "RGB" -> 3
      [] format = "LUMINANCE_ALPHA" -> 2
      [] format \in {"ALPHA", "LUMINANCE"} -> 1
      [] OTHER -> 4

\* Mutant of pixel_size: a packed pixel counted by component.
pixel_size_ByComponent(format, type) ==
    CASE type = "SHORT" -> 2 * Components(format)
      [] type \in {"INT", "FLOAT"} -> 4 * Components(format)
      [] type = "5_6_5" -> 1
      [] OTHER -> Components(format)

pixel_size(format, type) ==
    CASE type \in {"5_6_5", "4_4_4_4", "5_5_5_1"} -> 2
      [] type = "SHORT" -> 2 * Components(format)
      [] type \in {"INT", "FLOAT"} -> 4 * Components(format)
      [] OTHER -> Components(format)

\* What the driver is given to read, 0 for a null pointer.  `room` is how
\* much of the arena is left at the guest's pointer.
staged(room, bytes) == IF room < bytes THEN 0 ELSE bytes

TexImage2D(w, h, format, type, room) ==
    staged(room, IF w > 0 /\ h > 0 THEN w * h * pixel_size(format, type)
                 ELSE 0)

CompressedTexImage2D(bytes, room) ==
    staged(room, IF bytes < 0 THEN 0 ELSE bytes)

(***************************************************************************)
(* The reference, from OpenGL ES: how large a pixel is, and that rows      *)
(* start at multiples of GL_UNPACK_ALIGNMENT.                              *)
(***************************************************************************)
PixelBytes(format, type) ==
    LET each == CASE type = "BYTE" -> 1 [] type = "SHORT" -> 2
                  [] type \in {"INT", "FLOAT"} -> 4 [] OTHER -> 0
    IN IF each = 0 THEN 2
       ELSE each * CASE format \in {"ALPHA", "LUMINANCE"} -> 1
                     [] format = "LUMINANCE_ALPHA" -> 2
                     [] format = "RGB" -> 3
                     [] format = "RGBA" -> 4

RowBytes(w, format, type, alignment) ==
    alignment * ((w * PixelBytes(format, type) + alignment - 1) \div alignment)

DriverReads(w, h, format, type, alignment) ==
    (h - 1) * RowBytes(w, format, type, alignment)
        + w * PixelBytes(format, type)

(***************************************************************************)
(* Loop counters a shader declares without a value.                        *)
(***************************************************************************)
CounterTypes == {"int", "float"}

\* Between the bracket and the semicolon: two words and nothing else.
Declaration(init) == Len(init) = 2 /\ init[1] \in CounterTypes

After(source, token, from) ==
    {k \in from..Len(source) : source[k] = token}

initialise_loop_counters(source) ==
    LET From[i \in 1..Len(source) + 1] ==
            LET at == Min(After(source, "for", i))
                semi == Min(After(source, ";", at + 2))
                init == SubSeq(source, at + 2, semi - 1)
            IN IF After(source, "for", i) = {}
               THEN SubSeq(source, i, Len(source))
               ELSE IF at + 1 > Len(source) \/ source[at + 1] # "("
               THEN SubSeq(source, i, at) \o From[at + 1]
               ELSE IF After(source, ";", at + 2) = {}
               THEN SubSeq(source, i, Len(source))
               ELSE SubSeq(source, i, semi - 1)
                      \o (IF Declaration(init) THEN <<"=", "0">> ELSE <<>>)
                      \o From[semi]
    IN From[1]

\* The reference, token by token: a semicolon that ends `for ( int x` is
\* where a value goes in, and nothing else changes.
CountersStarted(source) ==
    LET EndsCounter(i) == /\ i > 4 /\ source[i] = ";"
                          /\ source[i - 4] = "for" /\ source[i - 3] = "("
                          /\ source[i - 2] \in CounterTypes
    IN FlattenSeq([i \in 1..Len(source) |->
            IF EndsCounter(i) THEN <<"=", "0", ";">> ELSE <<source[i]>>])
====
