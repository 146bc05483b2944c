---- MODULE GuestStreams ----
(***************************************************************************)
(* Reading, writing and seeking of an open file (thunks_fs.cpp): what the  *)
(* descriptor calls and the stdio calls make of one host FILE.             *)
(*                                                                         *)
(* A stream is the host's FILE: the bytes under it, where it stands, a     *)
(* byte pushed back, the end-of-file mark.  `last` is what was done since  *)
(* the last seek, and `defined` falls when C leaves the next call open:    *)
(* writing right after reading, or reading right after writing.  A thunk   *)
(* gives back [f, out, ret]: the stream, the bytes put into guest memory,  *)
(* and r0.                                                                 *)
(***************************************************************************)
EXTENDS GuestStrings, OneCall

CONSTANTS Disk,                    \* the bytes of the file that is opened
          OnDescriptor, OnFile,    \* calls on what open and fopen gave
          MaxStreamCalls           \* bound on the calls of a session

Whences == {"SET", "CUR", "END"}

ASSUME StreamAssumption ==
    /\ Disk \in Seq(Nat)
    /\ \A c \in OnDescriptor \cup OnFile :
           \/ c.fn = "read" /\ c.buf \in Nat /\ c.n \in Nat
           \/ c.fn = "write" /\ c.buf \in Nat /\ c.text \in Seq(Nat)
           \/ c.fn \in {"lseek", "fseek"} /\ c.off \in Int
                /\ c.whence \in Whences
           \/ c.fn = "fread" /\ c.buf \in Nat /\ c.size \in Nat
                /\ c.count \in Nat
           \/ c.fn = "fwrite" /\ c.buf \in Nat /\ c.text \in Seq(Nat)
                /\ c.count \in Nat
           \/ c.fn = "fgets" /\ c.buf \in Nat /\ c.n \in Nat
           \/ c.fn = "fputs" /\ c.text \in Seq(Nat)
           \/ c.fn = "fputc" /\ c.byte \in Nat
           \/ c.fn \in {"fstat", "ftell", "feof", "fflush", "fgetc", "ungetc"}

Newline == 1

(***************************************************************************)
(* The host's stdio.                                                       *)
(***************************************************************************)
Fopen(bytes, mode) ==
    [bytes |-> IF mode \in {"wb", "w+b"} THEN <<>> ELSE bytes,
     pos |-> 0, back |-> <<>>, eof |-> FALSE, last |-> "none",
     defined |-> TRUE, reads |-> mode \in {"rb", "r+b", "w+b"},
     writes |-> mode # "rb", append |-> mode = "ab"]

\* What there is to read from where the stream stands.
Rest(f) == f.back \o SubSeq(f.bytes, f.pos + 1 + Len(f.back), Len(f.bytes))

Fread(f, n) ==
    LET got == IF f.reads THEN SubSeq(Rest(f), 1, Min({n, Len(Rest(f))}))
               ELSE <<>>
    IN [out |-> got, ret |-> Len(got),
        f |-> [f EXCEPT !.pos = @ + Len(got), !.last = "read",
                        !.back = IF got = <<>> THEN @ ELSE <<>>,
                        !.eof = @ \/ (f.reads /\ Len(got) < n),
                        !.defined = @ /\ f.last # "write"]]

Fwrite(f, text) ==
    LET at == IF f.append THEN Len(f.bytes) ELSE f.pos
        size == Max({Len(f.bytes), at + Len(text)})
        Put(i) == IF i \in at + 1..at + Len(text) THEN text[i - at]
                  ELSE IF i <= Len(f.bytes) THEN f.bytes[i] ELSE 0
    IN IF ~f.writes \/ text = <<>> THEN [out |-> <<>>, ret |-> 0, f |-> f]
       ELSE [out |-> <<>>, ret |-> Len(text),
             f |-> [f EXCEPT !.bytes = [i \in 1..size |-> Put(i)],
                             !.pos = at + Len(text), !.last = "write",
                             !.back = <<>>,
                             !.defined = @ /\ f.last # "read"]]

Fseek(f, off, whence) ==
    LET to == off + CASE whence = "SET" -> 0
                      [] whence = "CUR" -> f.pos
                      [] whence = "END" -> Len(f.bytes)
    IN IF to < 0 THEN [out |-> <<>>, ret |-> -1, f |-> f]
       ELSE [out |-> <<>>, ret |-> 0,
             f |-> [f EXCEPT !.pos = to, !.back = <<>>, !.eof = FALSE,
                             !.last = "none"]]

Ftell(f) == f.pos

(***************************************************************************)
(* Descriptors.  Flags is the set of O_ flags besides O_RDONLY.            *)
(***************************************************************************)
OpenMode(flags) ==
    LET mode == IF "APPEND" \in flags THEN "ab"
                ELSE IF "TRUNC" \in flags THEN "wb"
                ELSE IF "RDWR" \in flags THEN "r+b"
                ELSE IF "WRONLY" \in flags THEN "wb" ELSE "rb"
    IN IF "CREAT" \in flags /\ mode \in {"rb", "r+b"} THEN "w+b" ELSE mode

Answer0(f, ret) == [f |-> f, out |-> <<>>, ret |-> ret]

t_read(f, buf, n) ==
    LET count == clamp(buf, n)
    IN IF count = 0 THEN Answer0(f, 0) ELSE Fread(f, count)

t_write(f, buf, text) ==
    LET count == clamp(buf, Len(text))
    IN IF count = 0 THEN Answer0(f, 0) ELSE Fwrite(f, SubSeq(text, 1, count))

\* The answer is where the stream stands, whether the seek failed or not.
t_lseek(f, off, whence) ==
    LET s == Fseek(f, off, whence) IN Answer0(s.f, Ftell(s.f))

\* Mutant of t_fstat: the stream is left at its end.
t_fstat_Stays(f) ==
    LET end == Fseek(f, 0, "END").f IN Answer0(end, Ftell(end))

t_fstat(f) ==
    LET here == Ftell(f)
        end == Fseek(f, 0, "END").f
    IN Answer0(Fseek(end, here, "SET").f, Ftell(end))

(***************************************************************************)
(* FILE objects.                                                           *)
(***************************************************************************)
t_fread(f, buf, size, count) ==
    LET safe == clamp(buf, size * count)
        r == Fread(f, safe)
    IN IF safe = 0 \/ size = 0 THEN Answer0(f, 0)
       ELSE [r EXCEPT !.ret = r.ret \div size]

\* The answer does not look at how much was written.
t_fwrite(f, buf, text, count) ==
    LET safe == clamp(buf, Len(text))
    IN IF safe = 0 THEN Answer0(f, count)
       ELSE Answer0(Fwrite(f, SubSeq(text, 1, safe)).f, count)

t_fseek(f, off, whence) == Fseek(f, off, whence)
t_ftell(f) == Answer0(f, Ftell(f))
t_feof(f) == Answer0(f, IF f.eof THEN 1 ELSE 0)
t_fflush(f) == Answer0(IF f.last = "write" THEN [f EXCEPT !.last = "none"]
                       ELSE f, 0)

t_fgetc(f) ==
    LET r == Fread(f, 1)
    IN Answer0(r.f, IF r.out = <<>> THEN -1 ELSE r.out[1])

\* One byte may be pushed back on a stream that has been read.
t_ungetc(f, c) ==
    IF c = -1 \/ ~f.reads \/ f.back # <<>> \/ f.pos = 0 THEN Answer0(f, -1)
    ELSE Answer0([f EXCEPT !.back = <<c>>, !.pos = @ - 1, !.eof = FALSE,
                           !.last = "read"], c)

\* A text with its terminator, up to its first zero.
CString(text) ==
    LET line == Append(text, 0)
    IN SubSeq(line, 1, Min({i \in DOMAIN line : line[i] = 0}))

\* std::fgets reads to the newline or to size - 1 bytes; the line is copied
\* in up to its first zero.
t_fgets(f, buf, n) ==
    LET size == clamp(buf, n)
        rest == Rest(f)
        ends == {i \in DOMAIN rest : rest[i] = Newline}
        want == Min({size - 1} \cup ends)
        r == Fread(f, want)
    IN IF size < 2 \/ ~f.reads THEN Answer0(f, 0)
       ELSE IF r.out = <<>> THEN Answer0(r.f, 0)
       ELSE [r EXCEPT !.out = CString(@), !.ret = buf]

t_fputs(f, text) == Answer0(Fwrite(f, text).f, 0)

t_fputc(f, c) == Answer0(Fwrite(f, <<c>>).f, c)

\* `got` is the last byte fgetc returned, which is what ungetc is given.
OnStream(f, c, got) ==
    CASE c.fn = "read" -> t_read(f, c.buf, c.n)
      [] c.fn = "write" -> t_write(f, c.buf, c.text)
      [] c.fn = "lseek" -> t_lseek(f, c.off, c.whence)
      [] c.fn = "fstat" -> t_fstat(f)
      [] c.fn = "fread" -> t_fread(f, c.buf, c.size, c.count)
      [] c.fn = "fwrite" -> t_fwrite(f, c.buf, c.text, c.count)
      [] c.fn = "fseek" -> t_fseek(f, c.off, c.whence)
      [] c.fn = "ftell" -> t_ftell(f)
      [] c.fn = "feof" -> t_feof(f)
      [] c.fn = "fflush" -> t_fflush(f)
      [] c.fn = "fgetc" -> t_fgetc(f)
      [] c.fn = "ungetc" -> t_ungetc(f, got)
      [] c.fn = "fgets" -> t_fgets(f, c.buf, c.n)
      [] c.fn = "fputs" -> t_fputs(f, c.text)
      [] c.fn = "fputc" -> t_fputc(f, c.byte)

(***************************************************************************)
(* A session on one open file: how it was opened, the stream, the last     *)
(* call and what it gave.  Every call is a step of its own.                *)
(***************************************************************************)

\* The flags whose meaning the code keeps, and what the caller asks for.
PosixFlags == {{}, {"RDWR"}, {"WRONLY", "CREAT", "TRUNC"},
               {"WRONLY", "CREAT", "APPEND"}}
ByFlags(flags) == [reads |-> "WRONLY" \notin flags, writes |-> flags # {},
                   append |-> "APPEND" \in flags,
                   keeps |-> "TRUNC" \notin flags]
ByMode(mode) == [reads |-> mode \in {"rb", "r+b", "w+b"},
                 writes |-> mode # "rb", append |-> mode = "ab",
                 keeps |-> mode \notin {"wb", "w+b"}]

OpenedAs(how, mode, calls) ==
    [fn |-> "file", how |-> how, calls |-> calls, done |-> 0,
     f |-> Fopen(Disk, mode), got |-> -1, asked |-> [fn |-> "open"],
     gave |-> [out |-> <<>>, ret |-> 0]]

AfterStreamCall(s, c) ==
    LET r == OnStream(s.f, c, s.got)
    IN [s EXCEPT !.done = @ + 1, !.f = r.f, !.asked = c,
                 !.got = IF c.fn = "fgetc" THEN r.ret ELSE -1,
                 !.gave = [out |-> r.out, ret |-> r.ret]]

Stream ==
    \/ /\ call = NoCall
       /\ \/ \E flags \in PosixFlags :
                 Called(OpenedAs(ByFlags(flags), OpenMode(flags),
                                 OnDescriptor))
          \/ \E mode \in {"rb", "r+b", "w+b", "ab"} :
                 Called(OpenedAs(ByMode(mode), mode, OnFile))
    \/ /\ call.fn = "file" /\ call.f.defined /\ call.done < MaxStreamCalls
       /\ \E c \in call.calls : Called(AfterStreamCall(call, c))

\* Files' part of what the program is asked.
StreamSpec == call = NoCall /\ [][Stream \/ call'.fn # "file"]_call

(***************************************************************************)
(* A file with one offset, and what a call on it is, by a definition of    *)
(* its own; `short` is set by a read that found less than it wanted.       *)
(***************************************************************************)
FileOf(f) == [bytes |-> f.bytes, pos |-> f.pos, short |-> f.eof]

Says(file, ret) == [out |-> <<>>, ret |-> ret, file |-> file]
Moves(file, pos, ret) ==
    Says([file EXCEPT !.pos = pos, !.short = FALSE], ret)

Ahead(file, how, n) ==
    IF ~how.reads THEN <<>>
    ELSE SubSeq(file.bytes, file.pos + 1,
                Min({file.pos + n, Len(file.bytes)}))

\* Of n bytes that were wanted, `text` is there.
Takes(file, how, text, n, out, ret) ==
    [out |-> out, ret |-> ret,
     file |-> [file EXCEPT !.pos = @ + Len(text),
                           !.short = @ \/ (how.reads /\ Len(text) < n)]]

Newlines(text) == {i \in DOMAIN text : text[i] = Newline}
Line(text) == IF Newlines(text) = {} THEN text
              ELSE SubSeq(text, 1, Min(Newlines(text)))

Overlaid(bytes, from, text) ==
    [i \in 1..Max({Len(bytes), from + Len(text)}) |->
        IF i - from \in DOMAIN text THEN text[i - from]
        ELSE IF i <= Len(bytes) THEN bytes[i] ELSE 0]

Puts(file, how, text, ret) ==
    LET from == IF how.append THEN Len(file.bytes) ELSE file.pos
    IN IF ~how.writes \/ text = <<>> THEN Says(file, ret)
       ELSE Says([file EXCEPT !.bytes = Overlaid(@, from, text),
                              !.pos = from + Len(text)], ret)

Target(file, c) == c.off + CASE c.whence = "SET" -> 0
                             [] c.whence = "CUR" -> file.pos
                             [] c.whence = "END" -> Len(file.bytes)

\* `got` is the byte the caller has just been given, which it may put back.
FileCall(file, how, c, got) ==
    CASE c.fn = "read" ->
            LET out == Ahead(file, how, clamp(c.buf, c.n))
            IN Takes(file, how, out, clamp(c.buf, c.n), out, Len(out))
      [] c.fn = "fread" ->
            LET n == clamp(c.buf, c.size * c.count)
                out == Ahead(file, how, n)
            IN IF c.size = 0 THEN Says(file, 0)
               ELSE Takes(file, how, out, n, out, Len(out) \div c.size)
      [] c.fn = "fgetc" ->
            LET out == Ahead(file, how, 1)
            IN Takes(file, how, out, 1, <<>>,
                     IF out = <<>> THEN -1 ELSE out[1])
      [] c.fn = "fgets" ->
            LET n == clamp(c.buf, c.n) - 1
                text == Ahead(file, how, n)
                line == Line(text)
            IN IF n < 1 THEN Says(file, 0)
               ELSE IF line = <<>> THEN Takes(file, how, <<>>, n, <<>>, 0)
               ELSE Takes(file, how, line,
                          IF Newlines(text) = {} THEN n ELSE Len(line),
                          CString(line), c.buf)
      [] c.fn = "write" ->
            LET n == clamp(c.buf, Len(c.text))
            IN Puts(file, how, SubSeq(c.text, 1, n),
                    IF how.writes THEN n ELSE 0)
      [] c.fn = "fwrite" ->
            Puts(file, how, SubSeq(c.text, 1, clamp(c.buf, Len(c.text))),
                 c.count)
      [] c.fn = "fputs" -> Puts(file, how, c.text, 0)
      [] c.fn = "fputc" -> Puts(file, how, <<c.byte>>, c.byte)
      [] c.fn = "ungetc" -> IF got = -1 THEN Says(file, -1)
                            ELSE Moves(file, file.pos - 1, got)
      [] c.fn = "lseek" -> IF Target(file, c) < 0 THEN Says(file, file.pos)
                           ELSE Moves(file, Target(file, c), Target(file, c))
      [] c.fn = "fseek" -> IF Target(file, c) < 0 THEN Says(file, -1)
                           ELSE Moves(file, Target(file, c), 0)
      [] c.fn = "fstat" -> Moves(file, file.pos, Len(file.bytes))
      [] c.fn = "ftell" -> Says(file, file.pos)
      [] c.fn = "feof" -> Says(file, IF file.short THEN 1 ELSE 0)
      [] c.fn = "fflush" -> Says(file, 0)

Opens(s) ==
    FileOf(s.f) = [bytes |-> IF s.how.keeps THEN Disk ELSE <<>>,
                   pos |-> 0, short |-> FALSE]

Answers(s, t) ==
    FileCall(FileOf(s.f), s.how, t.asked, s.got)
        = [out |-> t.gave.out, ret |-> t.gave.ret, file |-> FileOf(t.f)]

\* The calls on an open file are those of a file with one offset: what is
\* read is what stands there, in order, none of it twice and none left out;
\* a short read is told by its count and then by feof; asking for the size
\* or pushing a byte back does not disturb the next read; what is written
\* lands at the offset, or at the end of a file opened for appending.  It is
\* claimed of programs that seek between reading and writing, as C asks.
\* (thunks_fs.cpp, t_open to t_fputc)
StreamsAreFiles ==
    [][call'.fn = "file" =>
          \/ call.fn # "file" /\ Opens(call')
          \/ call.fn = "file" /\ (call'.f.defined => Answers(call, call'))]_call
====
