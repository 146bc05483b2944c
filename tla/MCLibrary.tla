---- MODULE MCLibrary ----
EXTENDS Library

C(stars, length, conv) == [stars |-> stars, length |-> length, conv |-> conv]
SomeConversions ==
    {C(0, "", "d"), C(1, "l", "u"), C(0, "ll", "d"), C(1, "j", "u"),
     C(0, "", "f"), C(2, "", "f"), C(0, "", "s"), C(0, "", "%"),
     C(0, "", "n")}

D(suppress, width, length, conv) ==
    [kind |-> "conv", suppress |-> suppress, width |-> width,
     length |-> length, conv |-> conv]
SomeDirectives ==
    {[kind |-> "space"], [kind |-> "text", char |-> "x"],
     D(FALSE, 0, <<>>, "d"), D(FALSE, 1, <<"h">>, "d"),
     D(FALSE, 0, <<"h", "h">>, "u"), D(FALSE, 0, <<"l", "l">>, "d"),
     D(TRUE, 0, <<>>, "d"), D(FALSE, 0, <<"l">>, "f"),
     D(FALSE, 2, <<>>, "f"), D(FALSE, 0, <<>>, "s"), D(TRUE, 1, <<>>, "s"),
     D(FALSE, 0, <<>>, "c"), D(FALSE, 2, <<>>, "c"), D(FALSE, 0, <<>>, "["),
     D(FALSE, 0, <<>>, "^"), D(FALSE, 0, <<>>, "n"), D(FALSE, 0, <<>>, "b")}

Seek(fn, off, whence) == [fn |-> fn, off |-> off, whence |-> whence]
DescriptorCalls ==
    {[fn |-> "read", buf |-> 0, n |-> 2], [fn |-> "read", buf |-> 5, n |-> 2],
     [fn |-> "write", buf |-> 0, text |-> <<2, 2>>],
     [fn |-> "write", buf |-> 5, text |-> <<2, 2>>],
     Seek("lseek", 2, "SET"), Seek("lseek", -1, "CUR"),
     Seek("lseek", 1, "END"), [fn |-> "fstat"]}
FileCalls ==
    {[fn |-> "fread", buf |-> 0, size |-> 2, count |-> 2],
     [fn |-> "read", buf |-> 0, n |-> 1],
     [fn |-> "fread", buf |-> 0, size |-> 0, count |-> 2],
     [fn |-> "fwrite", buf |-> 5, text |-> <<2, 2>>, count |-> 1],
     [fn |-> "fputs", text |-> <<1>>], [fn |-> "fputs", text |-> <<>>],
     [fn |-> "fputc", byte |-> 2], [fn |-> "fgetc"], [fn |-> "ungetc"],
     [fn |-> "fgets", buf |-> 0, n |-> 4],
     [fn |-> "fgets", buf |-> 5, n |-> 4], [fn |-> "feof"],
     [fn |-> "fstat"], [fn |-> "fflush"], [fn |-> "ftell"],
     Seek("fseek", -1, "CUR"), Seek("fseek", -1, "END"),
     Seek("fseek", 2, "END")}
SomeBytes == <<2, 1, 2>>

SomeWords == {0, 1, 2, 3, 127, 128, 129, 254, 255}
SomeFloats == {[neg |-> n, mag |-> m] : n \in BOOLEAN, m \in 0..32}
                  \cup {[neg |-> n, mag |-> 4 * m] :
                            n \in BOOLEAN, m \in {9, 15, 16, 17, 100}}

SomeNumerics == {-3, -2, -1, 0, 1, 15}

\* A control, a blank of both kinds, a digit, A, a, Z, z, a point and one of
\* no class.
SomeClasses ==
    [c \in 0..9 |->
        << {"cntrl"}, {"cntrl", "space"}, {"space", "blank"},
           {"digit", "xdigit"}, {"upper", "xdigit"}, {"lower", "xdigit"},
           {"upper"}, {"lower"}, {"punct"}, {} >>[c + 1]]
SomeCapitals == (4 :> 5) @@ (6 :> 7)

SomeTexts == {<<>>, <<97>>, <<97, 98>>}

SomeChunks ==
    {<<"x", ";">>, <<"for">>, <<"for", "(", ";">>, <<"for", "(", "x", ";">>,
     <<"for", "(", "int", "x", ";">>, <<"for", "(", "float", "x", ";">>,
     <<"for", "(", "int", "x", "=", "x", ";">>, <<"int", "x", ";">>}

S(name, defined, object) ==
    [name |-> name, defined |-> defined, object |-> object,
     value |-> IF defined THEN 2 ELSE 0, size |-> IF object THEN 4 ELSE 0]
SomeSymbols ==
    {S("f", TRUE, FALSE), S("f", FALSE, FALSE), S("g", FALSE, FALSE),
     S("glf", FALSE, FALSE), S("d", FALSE, TRUE), S("e", FALSE, TRUE),
     S("div", FALSE, FALSE), S("", FALSE, FALSE)}

R(type, symbol, where) == [type |-> type, symbol |-> symbol, where |-> where]
SomeRelocations ==
    {R("NONE", 1, 0), R("RELATIVE", 1, 0), R("RELATIVE", 1, 2),
     R("OTHER", 1, 1)}
        \cup {R(type, k, where) : type \in {"JUMP_SLOT", "ABS32"},
                                  k \in 1..3, where \in 0..1}

SomeSegments ==
    {[vaddr |-> 0, file |-> <<3>>, memsz |-> 2],
     [vaddr |-> 2, file |-> <<5>>, memsz |-> 1],
     [vaddr |-> 2, file |-> <<7>>, memsz |-> 10]}

GuestRoutines == [name \in {"div"} |-> 1]
HostTables == <<{"f", "g", "glf"}, {"g"}, {"glf"}, {"f"}>>

Id(slot, name, string) == [slot |-> slot, name |-> name, string |-> string]
On(slot, token) == [slot |-> slot, token |-> token]
SomeJavaCalls ==
    {Id("GetFieldID", "axes", FALSE), Id("GetMethodID", "path", TRUE),
     Id("GetFieldID", "screenWidth", FALSE),
     [slot |-> "NewStringUTF", text |-> <<"a", "b", "c", "d">>],
     [slot |-> "NewStringUTF", text |-> <<"a">>],
     On("CallIntMethod", <<"field", 1>>),
     On("CallObjectMethod", <<"method", 1>>),
     On("CallObjectMethod", <<"field", 2>>),
     On("GetStringUTFChars", <<"object", 1>>),
     On("GetStringUTFChars", <<"object", 2>>),
     On("GetStringUTFLength", <<"object", 2>>),
     On("GetArrayElements", <<"array", 1>>),
     On("GetArrayLength", <<"array", 1>>),
     [slot |-> "GetArrayRegion", token |-> <<"array", 1>>, start |-> 1,
      len |-> 2]}
Path == <<"r">>
Controller == [name \in {"axes"} |-> <<1, 2>>]
====
