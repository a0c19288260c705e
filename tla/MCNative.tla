------------------------------ MODULE MCNative ------------------------------
(***************************************************************************)
(* The generated native code for TLC: one call through a binding           *)
(* (Conversion), the handles of JVM objects (JvmObjects) and the loading   *)
(* of the runtime (ModuleLoader).  Each behaviour exercises one part,      *)
(* chosen by its initial state; the parts share no state, and the          *)
(* properties are those of their modules.                                  *)
(***************************************************************************)
EXTENDS Conversion, JvmObjects, ModuleLoader, TLC

CONSTANTS o1, o2, c1, m1, m2, m3

VARIABLE part

(*------------------- the calls that are converted -----------------------*)
T(k, kids) == [k |-> k, kids |-> kids]
Str(size, class) == V("string", class, size, <<>>)
Bytes(size) == V("bytes", "none", size, <<>>)
Just(j) == V(j, "none", 0, <<>>)
Class(j, n) == V(j, n, 0, <<>>)
List(t) == T("array", <<t>>)
Maybe(t) == T("nullable", <<t>>)
Arr(s) == V("array", "none", 0, s)
Text == T("string", <<>>)
Ref == T("object", <<>>)
Mine == Class("handle", "mine")
UpTo(n, S) == UNION {[1 .. k -> S] : k \in 0 .. n}

Leaves == {T(k, <<>>) : k \in {"bool", "int32", "int64", "float32", "float64", "string",
                               "bytes", "enum", "object"}}
MCTypes == Leaves \cup
    {Maybe(Text), Maybe(Ref), List(Text), List(Ref), List(T("enum", <<>>)), List(Maybe(Text)),
     Maybe(List(Ref)), List(List(Text)), List(List(Maybe(Text))), T("value", <<Text, Ref>>),
     T("value", <<Maybe(Text), T("int32", <<>>)>>), T("value", <<List(Ref), Text>>),
     T("value", <<Ref, Ref>>), Maybe(T("value", <<Text, Ref>>)), List(T("value", <<Ref, Ref>>))}

Scalars == {Just("undefined"), Just("null"), Just("boolean"), Mine, Class("handle", "other"),
            Class("bigint", "int"), Class("bigint", "wide")}
    \cup {Class("number", n) : n \in Numbers}
    \cup {Bytes(0), Bytes(MaxBytes), Bytes(MaxBytes + 1)}
    \cup {Str(1, "constant"), Str(MaxString, "constant")}
    \cup {Str(MaxString, "none"), Str(MaxString + 1, "none"), Str(1, "surrogate")}
    \cup {V("handle", "mine", 0, <<Str(1, "constant"), Mine>>),
          V("bytes", "none", 1, <<Just("null"), Class("number", "int")>>)}
Items == {Just("undefined"), Just("null"), Just("hole"), Str(1, "constant"), Str(2, "none"),
          Mine, Class("number", "int")}
Fields == (Items \ {Just("hole")}) \cup
          {Just("missing"), V("inherited", "none", 0, <<Str(1, "constant")>>), Arr(<<Mine>>)}
Pair(a, b) == V("object", "none", 0, <<a, b>>)
Inner == {Arr(<<>>), Arr(<<Str(1, "constant")>>), Arr(<<Just("null")>>), Pair(Mine, Mine),
          Pair(Mine, Just("missing"))}
Given == Scalars \cup {Arr(s) : s \in UpTo(MaxArray, Items)} \cup {Pair(a, b) : a, b \in Fields}
          \cup {Arr(s) : s \in UpTo(MaxArray, Inner)}
          \cup {Arr([i \in 1 .. MaxArray + 1 |-> Str(1, "constant")])}
MCValues == Given \cup Items \cup Fields \cup Inner

(*------------- classes of the author's, and their instances -------------*)
(* require, trim and pad in a constructor; a getter that throws, or that   *)
(* returns the null of a class written in Java.                            *)
MCAuthors == {"keeps", "requires", "trims", "pads", "throws", "nulls"}
MCBuild(a, t, fields) ==
    LET Texts == {i \in DOMAIN fields : fields[i].j = "string"}
        With(x, S) == [i \in DOMAIN fields |-> IF i \in S THEN x ELSE fields[i]] IN
    CASE a = "requires" -> IF \E i \in Texts : fields[i].size > 1 THEN <<>> ELSE fields
      [] a = "trims" -> With(V("string", "none", 0, <<>>), Texts)
      [] a = "pads" -> With(V("string", "none", MaxString + 1, <<>>), Texts)
      [] a = "throws" -> With(Just("thrown"), {1})
      [] a = "nulls" -> With(Just("broken"), {Len(fields)})

HasValue(t) == t.k = "value" \/ (t.kids # <<>> /\ t.kids[1].k = "value")

MCInputs == {[sig |-> <<t>>, arguments |-> <<v>>] : t \in MCTypes, v \in Given}
    \cup {[sig |-> <<t, u>>, arguments |-> <<v, w>>] :
            t \in {Text, Ref}, u \in {List(Text), List(Ref), Text}, v \in {Str(2, "none"), Mine},
            w \in Scalars \cup {Arr(s) : s \in UpTo(MaxArray, {Str(1, "constant"), Mine})}}
    \cup {[sig |-> <<Text>>, arguments |-> a] : a \in {<<>>, <<Str(1, "constant"), Str(1, "constant")>>}}

(*------------- two objects of one type whose hashes collide -------------*)
MCHash == [o \in Objects |-> 7]
MCTypeId == [o \in Objects |-> "t"]

(*-------- a plugin, its reload, and a reload with a new binary ----------*)
MCBinary == [m \in Modules |-> IF m = m3 THEN "new" ELSE "old"]

(* The objects are alike, and so are the plugin and its reload. *)
Symmetry == Permutations(Objects) \cup Permutations({m1, m2})

vars == <<part, conversionVars, objectVars, loaderVars>>

Init == /\ part \in {"conversion", "objects", "loader"}
        /\ ConversionInit /\ JvmObjectsInit /\ ModuleLoaderInit
        /\ IF part = "conversion" THEN /\ closed => Len(sig) = 2
                                       /\ author # "keeps" => lowering = "jvm" /\ HasValue(sig[1])
           ELSE lowering = "cpp" /\ ~async /\ ~closed /\ author = "keeps" /\ arguments = <<>>

Next ==
    /\ UNCHANGED part
    /\ \/ part = "conversion" /\ ConversionNext /\ UNCHANGED <<objectVars, loaderVars>>
       \/ part = "objects" /\ JvmObjectsNext /\ UNCHANGED <<conversionVars, loaderVars>>
       \/ part = "loader" /\ ModuleLoaderNext /\ UNCHANGED <<conversionVars, objectVars>>

Spec == Init /\ [][Next]_vars
=============================================================================
