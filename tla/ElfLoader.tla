---- MODULE ElfLoader ----
(***************************************************************************)
(* The loader (elf_loader.cpp, guest.cpp) and the table of host functions  *)
(* behind the trampolines it makes (env.cpp, bind_thunks).                 *)
(*                                                                         *)
(* The image is read as it is loaded, an entry a step: [tls, segments,     *)
(* textrel, symbols, relocations] is what has been read of it.  Segments   *)
(* are [vaddr, file, memsz], `file` the words stored in the file; symbols  *)
(* [name, defined, value, object, size]; relocations [type, symbol, where].*)
(* Memory is a function from the addresses that have been written to       *)
(* words.  Parsing the file's bytes is left out.                           *)
(***************************************************************************)
EXTENDS SequencesExt, OneCall

CONSTANTS ImageBase, ImageLimit,      \* where the image may lie
          Trampolines, TrampSize,     \* 8 bytes for each host function
          DataImports, DataSize,      \* storage for imported objects
          Segments, Symbols, Relocations,   \* what an image is made of
          MaxSegments, MaxSymbols, MaxRelocations,  \* bounds on how many
          Guest,                      \* name -> the guest's own routine
          Tables,                     \* the host's tables, sets of names
          GlNames, EglNames           \* names of the GL table; of EGL

ASSUME LoaderAssumption ==
    /\ {ImageBase, TrampSize, DataSize} \subseteq Nat \ {0}
    /\ ImageLimit \in Nat /\ Trampolines \in Nat /\ DataImports \in Nat
    /\ ImageBase < ImageLimit /\ ImageLimit <= Trampolines
    /\ Trampolines + TrampSize <= DataImports
    /\ Trampolines % 8 = 0 /\ DataImports % 16 = 0

ASSUME ImageAssumption ==
    /\ \A s \in Segments : /\ s.vaddr \in Nat /\ s.memsz \in Nat
                           /\ s.file \in Seq(Int)
    /\ \A s \in Symbols : /\ s.defined \in BOOLEAN /\ s.object \in BOOLEAN
                          /\ s.value \in Nat
                          /\ s.object => s.size \in Nat \ {0}
    /\ \A r \in Relocations : r.symbol \in Nat /\ r.where \in Nat
    /\ \A name \in DOMAIN Guest : Guest[name] \in Nat
    /\ Len(Tables) \in Nat /\ DOMAIN Tables = 1..Len(Tables)

\* A map with one entry, or all those of another map, put in.
Entered(f, x, v) == [y \in DOMAIN f \cup {x} |-> IF y = x THEN v ELSE f[y]]
Written(f, g) == [y \in DOMAIN f \cup DOMAIN g |->
                     IF y \in DOMAIN g THEN g[y] ELSE f[y]]

\* BumpAllocator::alloc; address 0 is no room.
Aligned(n, align) == align * ((n + align - 1) \div align)

BumpAlloc(b, size, align) ==
    LET addr == Aligned(b.next, align)
    IN IF addr + size > b.limit THEN [addr |-> 0, left |-> b]
       ELSE [addr |-> addr, left |-> [b EXCEPT !.next = addr + size]]

Empty == [error |-> "", mem |-> <<>>, hi |-> 0, thunks |-> <<>>,
          tramp |-> [next |-> Trampolines, limit |-> Trampolines + TrampSize],
          data |-> [next |-> DataImports, limit |-> DataImports + DataSize],
          imports |-> <<>>, objects |-> <<>>, exports |-> <<>>]

Failed(l, why) == [l EXCEPT !.error = why]

parse_headers(l, tls) == IF tls THEN Failed(l, "PT_TLS present") ELSE l

\* Address -> word of one segment: what the file holds, then zeroes.
Place(s) == ImageBase + s.vaddr..ImageBase + s.vaddr + s.memsz - 1
Mapped(s) == [a \in Place(s) |->
                 LET i == a - ImageBase - s.vaddr + 1
                 IN IF i <= Len(s.file) THEN s.file[i] ELSE 0]

MapSegment(l, s) == [l EXCEPT !.mem = Written(@, Mapped(s)),
                              !.hi = Max({@, s.vaddr + s.memsz})]

AfterSegments(l) ==
    IF ImageBase + l.hi > ImageLimit THEN Failed(l, "image too large") ELSE l

parse_dynamic(l, textrel) == IF textrel THEN Failed(l, "DT_TEXTREL") ELSE l

AddTrampoline(l, name) ==
    LET t == BumpAlloc(l.tramp, 8, 8)
    IN IF t.addr = 0 THEN Failed(l, "out of trampoline space")
       ELSE [l EXCEPT !.tramp = t.left,
                      !.mem = Entered(@, t.addr, [svc |-> Len(l.thunks)]),
                      !.thunks = Append(@, name),
                      !.imports = Entered(@, name, t.addr)]

AddData(l, name, size) ==
    LET d == BumpAlloc(l.data, size, 16)
    IN IF d.addr = 0 THEN Failed(l, "out of data-import storage")
       ELSE [l EXCEPT !.data = d.left,
                      !.objects = Entered(@, name, [addr |-> d.addr,
                                                    size |-> size]),
                      !.imports = Entered(@, name, d.addr)]

\* Mutant of Bind: a name imported twice gets a second trampoline.
Bind_Again(l, s) ==
    CASE s.name = "" -> l
      [] s.defined -> l
      [] s.name \in DOMAIN Guest ->
            [l EXCEPT !.imports = Entered(@, s.name, Guest[s.name])]
      [] s.object -> AddData(l, s.name, s.size)
      [] OTHER -> AddTrampoline(l, s.name)

\* bind_symbols, for one symbol.
Bind(l, s) ==
    IF s.name = "" THEN l
    ELSE IF s.defined
    THEN IF s.name \in DOMAIN l.exports THEN l
         ELSE [l EXCEPT !.exports = Entered(@, s.name, ImageBase + s.value)]
    ELSE IF s.name \in DOMAIN l.imports THEN l
    ELSE IF s.name \in DOMAIN Guest
    THEN [l EXCEPT !.imports = Entered(@, s.name, Guest[s.name])]
    ELSE IF s.object THEN AddData(l, s.name, s.size)
    ELSE AddTrampoline(l, s.name)

\* 0 when the symbol cannot be resolved; a weak one is null, which differs
\* only in not being an error.
resolve(l, s) ==
    IF s.defined THEN ImageBase + s.value
    ELSE IF s.name \in DOMAIN l.imports THEN l.imports[s.name]
    ELSE 0

Handled == {"NONE", "RELATIVE", "GLOB_DAT", "JUMP_SLOT", "ABS32"}

Relocated(word, type, value) ==
    CASE type = "RELATIVE" -> word + ImageBase
      [] type \in {"GLOB_DAT", "JUMP_SLOT"} -> value
      [] type = "ABS32" -> word + value

\* apply_relocations, for one relocation.
Relocate(l, image, r) ==
    LET where == ImageBase + r.where
        s == image.symbols[r.symbol]
    IN CASE r.type = "NONE" -> l
         [] r.type \notin Handled -> Failed(l, "unhandled relocation type")
         [] r.type = "RELATIVE" ->
                [l EXCEPT !.mem = Entered(@, where, @[where] + ImageBase)]
         [] r.type \in Handled \ {"NONE", "RELATIVE"} ->
                IF ~s.defined /\ s.name \notin DOMAIN l.imports
                THEN Failed(l, "unresolved symbol")
                ELSE [l EXCEPT !.mem =
                         Entered(@, where, Relocated(@[where], r.type,
                                                     resolve(l, s)))]

(***************************************************************************)
(* Env::bind_thunks: the host's tables in the order they are put in.       *)
(* bound[i] is the table the function of trampoline i comes from, 0 when   *)
(* no table has it.                                                        *)
(***************************************************************************)
PutIn(table, k) == Written(table, [name \in Tables[k] |-> k])

bind_thunks(thunks, table) ==
    [i \in DOMAIN thunks |->
        [table |-> IF thunks[i] \in DOMAIN table THEN table[thunks[i]] ELSE 0,
         gl |-> thunks[i] \in DOMAIN table /\ thunks[i] \in GlNames \ EglNames]]

\* CallSVC, for a call that lands on a trampoline.
CallSVC(l, bound, addr) ==
    LET swi == l.mem[addr].svc
    IN IF swi >= Len(bound) THEN [name |-> "", table |-> 0, gl |-> FALSE]
       ELSE [name |-> l.thunks[swi + 1], table |-> bound[swi + 1].table,
             gl |-> bound[swi + 1].gl]

(***************************************************************************)
(* Loading, step by step.                                                  *)
(***************************************************************************)
Loading(tls) ==
    [fn |-> "load", stage |-> "segments", l |-> parse_headers(Empty, tls),
     image |-> [tls |-> tls, segments |-> <<>>, textrel |-> FALSE,
                symbols |-> <<>>, relocations |-> <<>>],
     put |-> 0, table |-> <<>>, bound |-> <<>>]

ReadSegment(s, seg) ==
    [s EXCEPT !.image.segments = Append(@, seg),
              !.l = MapSegment(@, seg)]

ReadDynamic(s, textrel) ==
    LET l == AfterSegments(s.l)
    IN [s EXCEPT !.stage = "symbols",
                 !.image.textrel = textrel,
                 !.l = IF l.error = "" THEN parse_dynamic(l, textrel) ELSE l]

ReadSymbol(s, sym) ==
    [s EXCEPT !.image.symbols = Append(@, sym),
              !.l = Bind(@, sym)]

ReadRelocation(s, r) ==
    [s EXCEPT !.stage = "relocations",
              !.image.relocations = Append(@, r),
              !.l = Relocate(@, s.image, r)]

PutTable(s) ==
    [s EXCEPT !.stage = "tables", !.put = @ + 1,
              !.table = PutIn(@, s.put + 1)]

BindThunks(s) ==
    [s EXCEPT !.stage = "bound", !.bound = bind_thunks(s.l.thunks, s.table)]

\* What a linker writes: segments in order and apart, no name both defined
\* and imported or imported as two things, at most one relocation of a word
\* and that in a segment.
InOrder(image, seg) ==
    \A s \in ToSet(image.segments) : s.vaddr + s.memsz <= seg.vaddr

OneMeaning(image, sym) ==
    \A s \in ToSet(image.symbols) :
        s.name = sym.name /\ s.name # "" => s = sym /\ ~s.defined

Patches(image, r) ==
    /\ r.symbol \in DOMAIN image.symbols
    /\ r.type # "NONE" =>
          /\ \E s \in ToSet(image.segments) : ImageBase + r.where \in Place(s)
          /\ \A q \in ToSet(image.relocations) :
                q.type # "NONE" => q.where # r.where

Load ==
    \/ /\ call = NoCall
       /\ \E tls \in BOOLEAN : Called(Loading(tls))
    \/ /\ call.fn = "load" /\ call.l.error = ""
       /\ \/ /\ call.stage = "segments"
             /\ Len(call.image.segments) < MaxSegments
             /\ \E seg \in Segments : /\ InOrder(call.image, seg)
                                      /\ Called(ReadSegment(call, seg))
          \/ /\ call.stage = "segments"
             /\ \E textrel \in BOOLEAN : Called(ReadDynamic(call, textrel))
          \/ /\ call.stage = "symbols"
             /\ Len(call.image.symbols) < MaxSymbols
             /\ \E sym \in Symbols : /\ OneMeaning(call.image, sym)
                                     /\ Called(ReadSymbol(call, sym))
          \/ /\ call.stage \in {"symbols", "relocations"}
             /\ Len(call.image.relocations) < MaxRelocations
             /\ \E r \in Relocations : /\ Patches(call.image, r)
                                       /\ Called(ReadRelocation(call, r))
          \/ /\ call.stage \in {"symbols", "relocations", "tables"}
             /\ call.put < Len(Tables)
             /\ Called(PutTable(call))
          \/ /\ call.stage = "tables" /\ call.put = Len(Tables)
             /\ Called(BindThunks(call))

\* The loader's part of what the program is asked.
LoadSpec == call = NoCall /\ [][Load \/ call'.fn # "load"]_call

(***************************************************************************)
(* What a loaded image is, by definitions of their own.                    *)
(***************************************************************************)
ImageWords(image) == UNION {Place(s) : s \in ToSet(image.segments)}

\* The word an image has at an address.
FileWord(image, a) ==
    Mapped(CHOOSE s \in ToSet(image.segments) : a \in Place(s))[a]

\* The last table that has the name, and whether it needs a GL context.
Host(name) ==
    LET holders == {k \in DOMAIN Tables : name \in Tables[k]}
    IN [name |-> name, table |-> IF holders = {} THEN 0 ELSE Max(holders),
        gl |-> holders # {} /\ name \in GlNames \ EglNames]

\* What reaching a symbol's address must mean.
LeadsTo(s, sym, addr) ==
    IF sym.defined THEN addr = ImageBase + sym.value
    ELSE IF sym.name \in DOMAIN Guest THEN addr = Guest[sym.name]
    ELSE IF sym.object THEN addr = s.l.objects[sym.name].addr
    ELSE CallSVC(s.l, s.bound, addr) = Host(sym.name)

Patched(s) ==
    \A r \in ToSet(s.image.relocations) :
        LET a == ImageBase + r.where
            sym == s.image.symbols[r.symbol]
        IN /\ r.type = "RELATIVE" =>
                 s.l.mem[a] = FileWord(s.image, a) + ImageBase
           /\ r.type \in {"GLOB_DAT", "JUMP_SLOT"} =>
                 LeadsTo(s, sym, s.l.mem[a])
           /\ r.type = "ABS32" =>
                 LeadsTo(s, sym, s.l.mem[a] - FileWord(s.image, a))

AsFiled(s) ==
    \A a \in ImageWords(s.image) :
        \/ s.l.mem[a] = FileWord(s.image, a)
        \/ \E r \in ToSet(s.image.relocations) :
               r.type # "NONE" /\ a = ImageBase + r.where

Storage(l, name) ==
    l.objects[name].addr..l.objects[name].addr + l.objects[name].size - 1

ObjectsApart(l) ==
    \A x, y \in DOMAIN l.objects :
        x # y => Storage(l, x) \cap Storage(l, y) = {}

\* No place of a region is left for one more import.
NoTrampolineLeft(l) ==
    \A a \in Trampolines..Trampolines + TrampSize - 8 :
        a % 8 = 0 => \E name \in DOMAIN l.imports : l.imports[name] = a

NoStorageLeft(l, size) ==
    \A a \in DataImports..DataImports + DataSize - size :
        a % 16 = 0 => \E name \in DOMAIN l.objects : a \in Storage(l, name)

HasReason(image, l) ==
    \/ image.tls \/ image.textrel
    \/ \E s \in ToSet(image.segments) :
          ImageBase + s.vaddr + s.memsz > ImageLimit
    \/ \E s \in ToSet(image.symbols) :
          /\ ~s.defined /\ s.name \notin DOMAIN l.imports
          /\ IF s.object THEN NoStorageLeft(l, s.size)
             ELSE NoTrampolineLeft(l)
    \/ \E r \in ToSet(image.relocations) :
          \/ r.type \notin Handled
          \/ /\ ~image.symbols[r.symbol].defined
             /\ image.symbols[r.symbol].name = ""

\* After a load that succeeds every relocated word leads to what its symbol
\* names: the image's own address, the guest's routine, storage no other
\* object shares, or - through a trampoline and the host's tables - the
\* function of that very name, the last table winning; words no relocation
\* names are as the file or zero; and a load fails only for a reason, where
\* room that a name imported twice has taken twice is none.
\* (elf_loader.cpp, load; env.cpp, bind_thunks, CallSVC)
ImageIsLinked ==
    call.fn = "load" =>
        /\ call.l.error # "" => HasReason(call.image, call.l)
        /\ call.stage = "bound" => /\ Patched(call) /\ AsFiled(call)
                                   /\ ObjectsApart(call.l)
====
