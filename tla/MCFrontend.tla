------------------------------ MODULE MCFrontend ------------------------------
(* Small features for TLC: two C++ types that refer to each other in every  *)
(* position, and features whose two families share a copied type.           *)
EXTENDS Frontend

Spelling(base, n, form) == [wraps |-> <<>>, base |-> base, name |-> n, form |-> form, ns |-> ""]
Plain(n) == Spelling("named", n, "plain")
Shared(n) == Spelling("named", n, "shared")
Num == Spelling("scalar", "", "")
List(sp) == [sp EXCEPT !.wraps = <<"array">> \o @]
Maybe(sp) == [sp EXCEPT !.wraps = <<"nullable">> \o @]
Member(n, sp) == [name |-> n, type |-> sp, mutable |-> FALSE]
Call(n, static, public, params, result) ==
    [name |-> n, static |-> static, public |-> public, params |-> params, result |-> result]

Source(fam, kind, n) ==
    [fam |-> fam, lang |-> fam, kind |-> kind, name |-> n, ns |-> "", built |-> TRUE,
     ctors |-> {}, calls |-> {}, fields |-> <<>>, consts |-> <<>>]
Object(n, ctors, calls, fields) ==
    [Source("cpp", "object", n) EXCEPT !.ctors = ctors, !.calls = calls, !.fields = fields]
Value(fam, n, fields) == [Source(fam, "value", n) EXCEPT !.fields = fields]
Enum(fam, n, consts) == [Source(fam, "enum", n) EXCEPT !.consts = consts]
Holder(fam, kind, calls) == [Source(fam, kind, "F") EXCEPT !.calls = calls]
Get(sp) == Call("get", FALSE, TRUE, <<>>, sp)
Make(sp) == Call("make", TRUE, TRUE, <<>>, sp)

(*------------------------- two types of one family ----------------------*)
Lowly(n) == {Value("cpp", n, <<>>), Enum("cpp", n, <<"x", "y">>), Enum("cpp", n, <<"x", "x">>)}
Types(n, other) ==
    LET refs == {Num, Shared(other), List(Plain(other))}
    IN {Object(n, ctors, calls, fields) :
            ctors \in {{}, {<<Maybe(Shared(other))>>}},
            calls \in {{}} \cup {{Get(r)} : r \in refs} \cup {{Make(r)} : r \in refs \ {Num}}
                      \cup {{Get(Shared(other)), Call("get", FALSE, FALSE, <<>>, Num)},
                            {Call("create", TRUE, TRUE, <<>>, Shared(other))},
                            {Call("hidden", FALSE, FALSE, <<Shared(other)>>, Num)}},
            fields \in {<<>>, <<Member("f", Shared(other))>>, <<Member("f", Plain(other))>>}}
       \cup {Value("cpp", n, <<Member("f", r)>>) :
                r \in {Num, Plain(other), Shared(other), List(Plain(n)), Maybe(List(Plain(other)))}}
       \cup Lowly(n)
Others(n, other) ==
    {Object(n, ctors, calls, fields) :
            ctors \in {{}, {<<>>}}, calls \in {{}, {Get(Shared(other))}},
            fields \in {<<>>, <<Member("f", Shared(other))>>}}
       \cup {Value("cpp", n, <<Member("f", r)>>) : r \in {Num, List(Plain(other)), Shared(other)}}
       \cup Lowly(n)

Functions ==
    {{}} \cup {{Call("run", TRUE, public, params, r)} :
                  public \in BOOLEAN, params \in {<<>>, <<Shared("A")>>},
                  r \in {Plain("A"), Maybe(Shared("B"))}}
CppOnly ==
    {[native |-> TRUE, sources |-> {a, b, Holder("cpp", "free", calls)}] :
        a \in Types("A", "B"), b \in Others("B", "A"), calls \in Functions}

(*------------------- sources the projection refuses ---------------------*)
In(n, s) == [s EXCEPT !.ns = n]
OddTypes ==
    {Object("A", {<<>>, <<Num>>}, {}, <<>>), Object("SupernoteError", {<<>>}, {}, <<>>),
     Object("A", {<<>>}, {}, <<Member("f", Num), Member("f", Num)>>),
     Object("run", {<<>>}, {}, <<>>),
     [Value("cpp", "A", <<Member("f", Num)>>) EXCEPT !.built = FALSE],
     In("n", Value("cpp", "A", <<Member("f", Num)>>))}
Owners ==
    {[Holder("cpp", "owner", {Call("go", static, TRUE, <<>>, Num)}) EXCEPT !.built = built] :
        static \in BOOLEAN, built \in BOOLEAN}
OddCalls ==
    {{}, {Call("run", TRUE, TRUE, <<Plain("A")>>, Num)},
     {Call("run", TRUE, TRUE, <<[Plain("A") EXCEPT !.ns = "n"]>>, Num)},
     {Call("go", TRUE, TRUE, <<Spelling("void", "", "")>>, Num)}}
Odd ==
    {[native |-> TRUE, sources |-> {s, t, Holder("cpp", "free", calls)}] :
        s \in OddTypes, calls \in OddCalls,
        t \in Owners \cup {Enum("cpp", "B", <<"x">>), In("m", Value("cpp", "A", <<Member("g", Num)>>))}}

(*----------------------------- two families -----------------------------*)
Copies(fam) ==
    {{}} \cup {{Value(fam, "V", fields)} :
                 fields \in {<<Member("f", Num)>>, <<Member("f", List(Num))>>,
                             <<Member("f", Num), Member("g", Num)>>}}
         \cup {{Value(fam, "V", <<Member("f", Plain("E"))>>), Enum(fam, "E", consts)} :
                 consts \in {<<"x", "y">>, <<"y", "x">>}}
         \cup {{[Source(fam, "object", "V") EXCEPT !.ctors = {<<>>}]}}
CppCalls == {{}} \cup {{Call("one", TRUE, TRUE, <<Plain("V")>>, Num)}}
JvmCalls ==
    {Call("two", static, public, <<p>>, r) :
        static \in BOOLEAN, public \in BOOLEAN, p \in {Num, Plain("V")},
        r \in {Spelling("void", "", ""), Maybe(Plain("V")), List(Spelling("boxed", "", ""))}}
    \cup {Call("one", TRUE, TRUE, <<>>, Num)}
Mixed ==
    {[native |-> native,
      sources |-> {[s EXCEPT !.lang = IF @ = "jvm" THEN lang ELSE @] :
                      s \in (IF native THEN c \cup {Holder("cpp", "free", f)} ELSE {}) \cup
                            j \cup {Holder("jvm", IF g.static THEN "free" ELSE "owner", {g})}}] :
        native \in BOOLEAN, lang \in {"kotlin", "java"}, c \in Copies("cpp"), j \in Copies("jvm"),
        f \in CppCalls, g \in JvmCalls}

MCFeatures == CppOnly \cup Odd \cup Mixed
==============================================================================
