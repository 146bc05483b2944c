---- MODULE Jni ----
(***************************************************************************)
(* The Java the engine sees (jni.cpp, jni_dispatch) and the memory it is   *)
(* given (android_glue.cpp, alloc_bytes).                                  *)
(*                                                                         *)
(* A token is <<kind, n>>; null is <<>>.  A string is a sequence of        *)
(* characters, an array a sequence of words.  The state of a session is    *)
(* [members, strings, arrays, made, copies, bump, mem], `copies` being     *)
(* g_string_bytes and `made` the arrays gamepad_field has handed out.      *)
(***************************************************************************)
EXTENDS ElfLoader

CONSTANTS GlueBase, GlueSize,    \* the glue's own region
          DataRoot,              \* the path Java answers with
          ScreenWidth,
          Capabilities,          \* field name -> array, the controller's
          JavaCalls, MaxJavaCalls      \* what is asked, and how often

\* Address 0 is nobody's, and what Java answers with is text and words.
ASSUME JniAssumption ==
    /\ GlueBase \in Nat \ {0} /\ GlueSize \in Nat
    /\ DataRoot \in Seq(STRING)
    /\ \A name \in DOMAIN Capabilities : Capabilities[name] \in Seq(Int)

Null == <<>>

FreshJava == [members |-> <<>>, strings |-> <<>>, arrays |-> <<>>,
              made |-> <<>>, copies |-> <<>>, mem |-> <<>>,
              bump |-> [next |-> GlueBase, limit |-> GlueBase + GlueSize]]

Answer(j, v) == [java |-> j, value |-> v]

\* GetMethodID and GetFieldID never look for a member they already have.
add_member(j, name, string, kind) ==
    Answer([j EXCEPT !.members = Append(@, [name |-> name,
                                            string |-> string])],
           <<kind, Len(j.members) + 1>>)

\* Methods and fields share the numbers, so the kind is not looked at.
HasMember(j, id) == id # Null /\ id[2] \in DOMAIN j.members

make_string(j, text) ==
    Answer([j EXCEPT !.strings = Append(@, text)],
           <<"object", Len(j.strings) + 1>>)

string_for(j, token) ==
    IF token # Null /\ token[1] = "object" /\ token[2] \in DOMAIN j.strings
    THEN <<j.strings[token[2]]>> ELSE <<>>

array_for(j, token) ==
    IF token # Null /\ token[1] = "array" /\ token[2] \in DOMAIN j.arrays
    THEN <<j.arrays[token[2]]>> ELSE <<>>

\* An array of the controller's is made once, whoever asks for it.
gamepad_field(j, name) ==
    IF name \in DOMAIN j.made THEN Answer(j, j.made[name])
    ELSE LET token == <<"array", Len(j.arrays) + 1>>
         IN Answer([j EXCEPT !.arrays = Append(@, Capabilities[name]),
                             !.made = Entered(@, name, token)], token)

CallObjectMethod(j, id) ==
    IF ~HasMember(j, id) THEN Answer(j, Null)
    ELSE LET m == j.members[id[2]]
         IN IF m.name \in DOMAIN Capabilities THEN gamepad_field(j, m.name)
            ELSE IF m.string THEN make_string(j, DataRoot)
            ELSE Answer(j, Null)

CallIntMethod(j, id) ==
    Answer(j, IF HasMember(j, id) /\ j.members[id[2]].name = "screenWidth"
              THEN ScreenWidth ELSE 0)

NewStringUTF(j, text) == make_string(j, text)

GetStringUTFLength(j, token) ==
    LET s == string_for(j, token)
    IN Answer(j, IF s = <<>> THEN 0 ELSE Len(s[1]))

GetArrayLength(j, token) ==
    LET v == array_for(j, token)
    IN Answer(j, IF v = <<>> THEN 0 ELSE Len(v[1]))

GetArrayRegion(j, token, start, len) ==
    LET v == array_for(j, token)
    IN Answer(j, IF v = <<>> THEN <<>>
                 ELSE [i \in 1..len |-> IF start + i <= Len(v[1])
                                        THEN v[1][start + i] ELSE 0])

\* Room for a copy, made the first time and kept for good; 0 when the glue's
\* region is full.  `stride` is 1 for characters and 4 for words.
Materialised(j, token, what, bytes, stride) ==
    LET b == BumpAlloc(j.bump, bytes, 4)
        put == [a \in {b.addr + stride * (i - 1) : i \in DOMAIN what} |->
                   what[(a - b.addr) \div stride + 1]]
    IN IF token \in DOMAIN j.copies THEN Answer(j, j.copies[token])
       ELSE IF b.addr = 0 THEN Answer(j, 0)
       ELSE Answer([j EXCEPT !.bump = b.left, !.mem = Written(@, put),
                             !.copies = Entered(@, token, b.addr)], b.addr)

\* Mutant of GetStringUTFChars: no room is asked for the terminator.
GetStringUTFChars_NoTerminator(j, token) ==
    LET s == string_for(j, token)
    IN IF s = <<>> THEN Answer(j, 0)
       ELSE Materialised(j, token, Append(s[1], ""), Len(s[1]), 1)

GetStringUTFChars(j, token) ==
    LET s == string_for(j, token)
    IN IF s = <<>> THEN Answer(j, 0)
       ELSE Materialised(j, token, Append(s[1], ""), Len(s[1]) + 1, 1)

GetArrayElements(j, token) ==
    LET v == array_for(j, token)
    IN IF v = <<>> THEN Answer(j, 0)
       ELSE Materialised(j, token, v[1], 4 * Len(v[1]) + 4, 4)

jni_dispatch(j, c) ==
    CASE c.slot = "GetMethodID" -> add_member(j, c.name, c.string, "method")
      [] c.slot = "GetFieldID" -> add_member(j, c.name, c.string, "field")
      [] c.slot = "CallObjectMethod" -> CallObjectMethod(j, c.token)
      [] c.slot = "CallIntMethod" -> CallIntMethod(j, c.token)
      [] c.slot = "NewStringUTF" -> NewStringUTF(j, c.text)
      [] c.slot = "GetStringUTFLength" -> GetStringUTFLength(j, c.token)
      [] c.slot = "GetStringUTFChars" -> GetStringUTFChars(j, c.token)
      [] c.slot = "GetArrayLength" -> GetArrayLength(j, c.token)
      [] c.slot = "GetArrayRegion" ->
            GetArrayRegion(j, c.token, c.start, c.len)
      [] c.slot = "GetArrayElements" -> GetArrayElements(j, c.token)

(***************************************************************************)
(* A session: the calls made so far, their values, and Java after them.    *)
(* Every call is a step of its own.                                        *)
(***************************************************************************)
\* What the engine may hold for a token, its own invention included.
JavaTokens == {Null} \cup ({"object", "array", "method", "field"} \X Nat)

Asks == {"GetMethodID", "GetFieldID"}
Reads == {"CallObjectMethod", "CallIntMethod", "GetStringUTFLength",
          "GetStringUTFChars", "GetArrayLength", "GetArrayRegion",
          "GetArrayElements"}

ASSUME SessionAssumption ==
    /\ \A c \in JavaCalls :
           \/ c.slot \in Asks /\ c.name \in STRING /\ c.string \in BOOLEAN
           \/ c.slot = "NewStringUTF" /\ c.text \in Seq(STRING)
           \/ c.slot \in Reads /\ c.token \in JavaTokens

Opened == [fn |-> "java", calls |-> <<>>, got |-> <<>>, java |-> FreshJava]

AfterCall(s, c) ==
    LET r == jni_dispatch(s.java, c)
    IN [fn |-> "java", calls |-> Append(s.calls, c),
        got |-> Append(s.got, r.value), java |-> r.java]

Java ==
    \/ call = NoCall /\ Called(Opened)
    \/ /\ call.fn = "java" /\ Len(call.calls) < MaxJavaCalls
       /\ \E c \in JavaCalls : Called(AfterCall(call, c))

\* Java's part of what the program is asked; everything else leaves it alone.
JavaSpec == call = NoCall /\ [][Java \/ call'.fn # "java"]_call

CallsTo(s, slots) == {k \in DOMAIN s.calls : s.calls[k].slot \in slots}

\* The calls that answered with a token of a kind.
Given(s, kind) == {k \in CallsTo(s, {"CallObjectMethod"}) :
                      s.got[k] # Null /\ s.got[k][1] = kind}

\* The calls that made a string, and the string they made.
Makers(s) == CallsTo(s, {"NewStringUTF"}) \cup Given(s, "object")
TextOf(s, k) == IF s.calls[k].slot = "NewStringUTF" THEN s.calls[k].text
                ELSE DataRoot

\* The calls that were answered with a pointer.
Pointed(s, slots) == {k \in CallsTo(s, slots) : s.got[k] # 0}

\* What the guest finds from an address on.
Shows(mem, addr, what, stride) ==
    \A i \in DOMAIN what : /\ addr + stride * (i - 1) \in DOMAIN mem
                           /\ mem[addr + stride * (i - 1)] = what[i]

StringsDiffer(s) == \A i, k \in Makers(s) : s.got[i] = s.got[k] => i = k

StringsShow(s) ==
    \A k \in Pointed(s, {"GetStringUTFChars"}) :
        \E i \in Makers(s) :
            /\ s.got[i] = s.calls[k].token
            /\ Shows(s.java.mem, s.got[k], Append(TextOf(s, i), ""), 1)

\* The array came from reading a field or method the engine asked for by
\* name, and is the controller's array of that name.
ArraysShow(s) ==
    \A k \in Pointed(s, {"GetArrayElements"}) :
        \E i \in Given(s, "array"), m \in CallsTo(s, Asks) :
            /\ s.got[i] = s.calls[k].token
            /\ s.got[m][2] = s.calls[i].token[2]
            /\ s.calls[m].name \in DOMAIN Capabilities
            /\ Shows(s.java.mem, s.got[k], Capabilities[s.calls[m].name], 4)

PointersDiffer(s) ==
    \A k, l \in Pointed(s, {"GetStringUTFChars", "GetArrayElements"}) :
        (s.got[k] = s.got[l]) <=> (s.calls[k].token = s.calls[l].token)

ArraysStay(s) ==
    \A k, l \in Given(s, "array") :
        s.calls[k].token = s.calls[l].token => s.got[k] = s.got[l]

\* No room for n bytes more.
Full(bump, n) == Aligned(bump.next, 4) + n > bump.limit

OnlyFullRefuses(s) ==
    \A k \in CallsTo(s, {"GetStringUTFChars"}), i \in Makers(s) :
        i < k /\ s.got[i] = s.calls[k].token /\ s.got[k] = 0
            => Full(s.java.bump, Len(TextOf(s, i)) + 1)

\* A string is its own token, and the pointer the engine got for it still
\* shows its text and terminator when the session ends, whatever was asked
\* in between; so does the pointer to an array of the controller's.  Asking
\* twice gives the same pointer; an answer of the controller's is the same
\* array every time; and only a full region gives no pointer.  (jni.cpp:
\* "materialised into guest memory the first time it is asked for and kept
\* there"; android_glue.cpp, alloc_bytes)
JavaKeepsItsWord ==
    call.fn = "java" =>
        /\ StringsDiffer(call) /\ StringsShow(call) /\ ArraysShow(call)
        /\ PointersDiffer(call) /\ ArraysStay(call) /\ OnlyFullRefuses(call)
====
