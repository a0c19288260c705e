----------------------------- MODULE Conversion -----------------------------
(***************************************************************************)
(* A call from JavaScript into a generated binding: the optional preflight *)
(* (accepts, checkArguments), the conversion of the arguments under one    *)
(* budget, the implementation, and the conversion of its result.  Five     *)
(* converters are modelled: the reference engine of conversion.py, what    *)
(* cpp_object_binding_codegen.py and jvm_object_binding_codegen.py emit    *)
(* for a call, and what they emit for a preflight.                         *)
(*                                                                         *)
(* Data.  A type is [k, kids].  A value is [j, n, size, kids]: j is its    *)
(* kind, in JavaScript or in native code, and n the class of a number or a *)
(* string, or the nominal type of a handle; kids are elements or fields,   *)
(* which handles and byte arrays can have, too.  `missing' is a field that *)
(* is not there, `inherited' one that only the prototype has, `hole' an    *)
(* absent array element.  Sizes are counted in pointers: 24 bytes are 3,   *)
(* 32 are 4.                                                               *)
(*                                                                         *)
(* The JVM values are instances of classes that the author of the module   *)
(* wrote: a constructor can throw or keep other fields than it was given,  *)
(* and a getter can throw (`thrown') or return null where the type has     *)
(* none (`broken').                                                        *)
(***************************************************************************)
EXTENDS Naturals, Sequences

CONSTANTS MaxDepth, MaxArray, MaxVisits, MaxString, MaxBytes, MaxTemporary,
          Types, Values,    \* those a call can meet, and all their parts
          Inputs,           \* what is called: records [sig, arguments]
          Authors,          \* what the author's classes do; "keeps": keep every field
          Build(_, _, _)    \* author, type, fields |-> those of the instance; <<>> if it throws

VARIABLES
    lowering,     \* cpp or jvm
    async, author,
    sig, arguments,
    closed,       \* is the feature closed
    preflight,    \* none, or the verdict of checkArguments
    call          \* pc, and what the call has converted so far

conversionVars == <<lowering, async, author, sig, arguments, closed, preflight, call>>

(*------------------------------- converters -----------------------------*)
(* A converter: the depth it starts at, the kinds of value whose temporary *)
(* size it reserves, whether a field must be an own property, whether it   *)
(* is generated code (four bytes for a float32, UTF-8 for a string, fields *)
(* of any object), and what the classes do that it builds instances of.    *)
Converter(depth, reserves, own, native, classes) ==
    [depth |-> depth, reserves |-> reserves, own |-> own, native |-> native, author |-> classes]

Sized == {"string", "bytes", "enum", "object", "array", "value"}
ReferenceInput == Converter(1, Sized, TRUE, FALSE, "none")

(* Mutant: an argument starts at depth 0. *)
CppFromJsShallow == Converter(0, Sized, TRUE, TRUE, "none")
CppFromJs == Converter(1, Sized, TRUE, TRUE, "none")
(* Mutant: a preflight reads fields through the prototype. *)
CppValidateJsLoose == Converter(1, {"object"}, FALSE, TRUE, "none")
CppValidateJs == Converter(1, {"object"}, TRUE, TRUE, "none")
CppToJs == Converter(1, Sized, TRUE, TRUE, "none")

JvmBuilding(classes) == Converter(0, {"string", "bytes"}, FALSE, TRUE, classes)
JvmFrom == JvmBuilding(author)
JvmValidate == Converter(1, {"object"}, FALSE, TRUE, "none")
(* Mutant: the result starts one level deeper than an argument. *)
JvmToDeep == Converter(1, {"object"}, FALSE, TRUE, "none")
JvmTo == Converter(0, {"object"}, FALSE, TRUE, "none")

FromJs == IF lowering = "cpp" THEN CppFromJs ELSE JvmFrom
ValidateJs == IF lowering = "cpp" THEN CppValidateJs ELSE JvmValidate
ToJs == IF lowering = "cpp" THEN CppToJs ELSE JvmTo

(*--------------------------------- data ---------------------------------*)
V(j, n, size, kids) == [j |-> j, n |-> n, size |-> size, kids |-> kids]

ScalarTypes == {"bool", "int32", "int64", "float32", "float64", "string", "bytes"}
(* A number is an int32, an integer beyond int32 (both are float32s here), *)
(* another float32, one between two float32s, beyond them, or not finite;  *)
(* a bigint fits int64 or does not.  A string is a constant of an enum,    *)
(* any other, has a lone surrogate, or what replaces that in UTF-8.        *)
Numbers == {"int", "wide", "single", "fraction", "huge", "nan"}
Strings == {"none", "constant", "surrogate", "replaced"}
Kinds == ScalarTypes \cup {"undefined", "null", "boolean", "number", "bigint", "handle", "array",
             "object", "hole", "missing", "inherited", "constant", "ref", "list", "struct",
             "thrown", "broken"}
Classes == Numbers \cup Strings \cup {"mine", "other"}

(* The values whose elements or fields are in S. *)
Holding(S) == [j : Kinds, n : Classes, size : Nat, kids : Seq(S)]
Undefined == V("undefined", "none", 0, <<>>)

(* A field that is looked up: absent, the own one or the prototype's.  A   *)
(* native value is never absent and read as it is.                         *)
FieldOf(v, i) ==
    IF i \in DOMAIN v.kids THEN v.kids[i] ELSE V("missing", "none", 0, <<>>)
Absent(e, v) == v.j = "hole" \/ (e.own /\ v.j \in {"missing", "inherited"})
Read(v) == IF v.j = "inherited" THEN v.kids[1] ELSE IF v.j = "missing" THEN Undefined ELSE v

TypeShape(t) ==
    /\ t \in [k : ScalarTypes \cup {"enum", "object", "nullable", "array", "value"},
             kids : Seq(Types)]
    /\ t.k \in {"nullable", "array"} => Len(t.kids) = 1
    /\ t.k = "value" => t.kids # <<>>
ValueShape(v) ==
    /\ v \in Holding(Values)
    /\ v.n # "none" => v.j \in {"number", "bigint", "string", "handle"}
    /\ v.j = "number" => v.n \in Numbers
    /\ v.j = "string" => v.n \in Strings
    /\ v.size # 0 => v.j \in {"string", "bytes"}
    /\ v.kids # <<>> => v.j \in {"array", "object", "handle", "bytes", "inherited"}
    /\ v.j = "inherited" => Len(v.kids) = 1

(* The parts of types and values are types and values.  There is room for  *)
(* the pointer of an object at each visit (conversion.py ConversionLimits: *)
(* 262144 visits, 64 MiB).                                                 *)
ASSUME ConversionAssumption ==
    /\ {MaxDepth, MaxArray, MaxVisits, MaxString, MaxBytes, MaxTemporary} \subseteq Nat
    /\ MaxVisits <= MaxTemporary /\ "none" \notin Authors
    /\ \A t \in Types : TypeShape(t)
    /\ \A v \in Values : ValueShape(v)
    /\ Undefined \in Values
    /\ \A input \in Inputs :
          input.sig \in Seq(Types) /\ input.sig # <<>> /\ input.arguments \in Seq(Values)

(*------------------------- the conversion budget ------------------------*)
Budgets == [visits : Nat, temporary : Nat]
NoBudget == [visits |-> 0, temporary |-> 0]

Ok(out, retained, b) == [verdict |-> "ok", out |-> out, retained |-> retained, budget |-> b]
Fail(verdict, b) == [verdict |-> verdict, out |-> V("none", "none", 0, <<>>), retained |-> <<>>,
                     budget |-> b]

Visit(b) == [b EXCEPT !.visits = @ + 1]

(* The levels below a depth: none are left where the depth exceeds its limit. *)
Levels == 0 .. MaxDepth + 1
Left(e) == MaxDepth + 1 - e.depth
TooDeep(S) == [x \in Types \X S \X Budgets |-> Fail("limit", Visit(x[3]))]

(* Budget.reserve, where the converter reserves this kind at all. *)
Charge(e, kind, amount, b) ==
    IF kind \in e.reserves THEN [b EXCEPT !.temporary = @ + amount] ELSE b
Charged(e, kind, amount, b, result) ==
    LET after == Charge(e, kind, amount, b) IN
    IF after.temporary > MaxTemporary THEN Fail("limit", after) ELSE [result EXCEPT !.budget = after]

(*-------------------------------- sequences -----------------------------*)
(* One more element, field or argument after those so far. *)
Join(sofar, item) ==
    IF item.verdict # "ok" THEN item
    ELSE Ok([sofar.out EXCEPT !.kids = Append(@, item.out)], sofar.retained \o item.retained,
            item.budget)

(* `below' converts a <<type, value, budget>> one level further down.      *)
Item(e, below, type, value, sofar) ==
    IF sofar.verdict # "ok" THEN sofar
    ELSE IF Absent(e, value) THEN Fail("TypeError", sofar.budget)
    ELSE Join(sofar, below[<<type, Read(value), sofar.budget>>])

(* Elements, fields or arguments in order; the first failure ends it. *)
Each(e, below, types, values, start) ==
    LET each[i \in 0 .. Len(values)] ==
            IF i = 0 THEN start ELSE Item(e, below, types[i], values[i], each[i - 1])
    IN each[Len(values)]

(*------------------------------- scalars --------------------------------*)
Accepts(k, v) ==
    CASE k = "bool" -> v.j = "boolean"
      [] k \in {"int32", "float32", "float64"} -> v.j = "number"
      [] k = "int64" -> v.j = "bigint"
      [] k = "string" -> v.j = "string"
      [] k = "bytes" -> v.j = "bytes"
InRange(k, v) ==
    CASE k = "int32" -> v.n = "int"
      [] k = "float32" -> v.n # "huge"
      [] k = "int64" -> v.n = "int"
      [] OTHER -> TRUE

(* static_cast<float> and utf8().  The reference computes with doubles and *)
(* raises UnicodeEncodeError for a lone surrogate.                         *)
Narrow(k, n) ==
    CASE k = "float32" /\ n = "fraction" -> "single"
      [] k = "string" /\ n = "surrogate" -> "replaced"
      [] OTHER -> n
Stored(e, k, n) == IF e.native THEN Narrow(k, n) ELSE n

FromScalar(e, k, v, b) ==
    IF ~Accepts(k, v) THEN Fail("TypeError", b)
    ELSE IF ~InRange(k, v) THEN Fail("RangeError", b)
    ELSE IF k = "string" /\ v.n = "surrogate" /\ ~e.native THEN Fail("encoding", b)
    ELSE IF \/ k = "string" /\ v.size > MaxString
            \/ k = "bytes" /\ v.size > MaxBytes
    THEN Fail("limit", b)
    ELSE Charged(e, k, v.size, b, Ok(V(k, Stored(e, k, v.n), v.size, <<>>), <<>>, b))

(* The reference asks for a constant first, the generated code last, and   *)
(* the one for the JVM through fromName of the class, which throws.        *)
FromEnum(e, v, b) ==
    IF v.j # "string" \/ (v.n # "constant" /\ ~e.native) THEN Fail("TypeError", b)
    ELSE IF v.size > MaxString THEN Fail("limit", b)
    ELSE Charged(e, "enum", v.size, b,
                 IF v.n = "constant" THEN Ok(V("constant", v.n, v.size, <<>>), <<>>, b)
                 ELSE Fail(IF e.author = "none" THEN "TypeError" ELSE "thrown", b))

(* try_extract: the exact nominal type; the handle's owner is retained. *)
FromHandle(e, v, b) ==
    IF v.j # "handle" \/ v.n # "mine" THEN Fail("TypeError", b)
    ELSE Charged(e, "object", 1, b, Ok(V("ref", v.n, 0, <<>>), <<v>>, b))

(*------------------------------ composites ------------------------------*)
FromArray(e, below, t, v, b) ==
    IF v.j # "array" THEN Fail("TypeError", b)
    ELSE IF Len(v.kids) > MaxArray THEN Fail("limit", b)
    ELSE Each(e, below, [i \in 1 .. Len(v.kids) |-> t.kids[1]], v.kids,
              Charged(e, "array", 3 + Len(v.kids), b, Ok(V("list", "none", 0, <<>>), <<>>, b)))

(* The fields, once converted, go to the constructor of the author's class. *)
Built(e, t, fields) ==
    IF fields.verdict # "ok" \/ e.author \in {"none", "keeps"} THEN fields
    ELSE LET made == Build(e.author, t, fields.out.kids) IN
         IF made = <<>> THEN Fail("thrown", fields.budget)
         ELSE Ok(V("struct", "none", 0, made), fields.retained, fields.budget)

FromValue(e, below, t, v, b) ==
    IF v.j # "object" /\ ~(e.native /\ v.j \in {"handle", "bytes"}) THEN Fail("TypeError", b)
    ELSE Built(e, t, Each(e, below, t.kids, [i \in 1 .. Len(t.kids) |-> FieldOf(v, i)],
                          Charged(e, "value", 4 + 2 * Len(t.kids), b,
                                  Ok(V("struct", "none", 0, <<>>), <<>>, b))))

FromNode(e, below, t, v, before) ==
    LET b == Visit(before) IN
    IF b.visits > MaxVisits THEN Fail("limit", b)
    ELSE IF v.j = "undefined" THEN Fail("TypeError", b)
    ELSE IF v.j = "null" THEN IF t.k = "nullable" THEN Ok(V("null", "none", 0, <<>>), <<>>, b)
                              ELSE Fail("TypeError", b)
    ELSE CASE t.k = "nullable" -> below[<<t.kids[1], v, b>>]
           [] t.k = "array" -> FromArray(e, below, t, v, b)
           [] t.k = "value" -> FromValue(e, below, t, v, b)
           [] t.k = "enum" -> FromEnum(e, v, b)
           [] t.k = "object" -> FromHandle(e, v, b)
           [] OTHER -> FromScalar(e, t.k, v, b)

FromLevel(e, below) ==
    [x \in Types \X Values \X Budgets |-> FromNode(e, below, x[1], x[2], x[3])]
From(e) ==
    LET from[n \in Levels] == IF n = 0 THEN TooDeep(Values) ELSE FromLevel(e, from[n - 1])
    IN from

(* Every argument under one budget. *)
Prepare(e) == Each(e, From(e)[Left(e)], sig, arguments,
                   Ok(V("arguments", "none", 0, <<>>), <<>>, NoBudget))

(*-------------------------------- results -------------------------------*)
(* Native values that have no more levels than a conversion. *)
Nested ==
    LET nested[n \in Levels] == IF n = 0 THEN {} ELSE Holding(nested[n - 1])
    IN nested
Natives == Nested[MaxDepth + 1]

(* A scalar, a constant or a handle: sizes are checked and reserved. *)
ToLeaf(e, k, x, b) ==
    LET j == CASE k = "bool" -> "boolean" [] k = "int64" -> "bigint"
               [] k \in {"int32", "float32", "float64"} -> "number"
               [] k \in {"string", "enum"} -> "string"
               [] k = "bytes" -> "bytes" [] k = "object" -> "handle" IN
    IF \/ k \in {"string", "enum"} /\ x.size > MaxString
       \/ k = "bytes" /\ x.size > MaxBytes
    THEN Fail("limit", b)
    ELSE Charged(e, k, IF k = "object" THEN 1 ELSE x.size, b, Ok(V(j, x.n, x.size, <<>>), <<>>, b))

ToArray(e, below, t, x, b) ==
    IF Len(x.kids) > MaxArray THEN Fail("limit", b)
    ELSE Each(e, below, [i \in 1 .. Len(x.kids) |-> t.kids[1]], x.kids,
              Charged(e, "array", 3 + Len(x.kids), b, Ok(V("array", "none", 0, <<>>), <<>>, b)))

ToValue(e, below, t, x, b) ==
    Each(e, below, t.kids, x.kids,
         Charged(e, "value", 4 + 2 * Len(x.kids), b, Ok(V("object", "none", 0, <<>>), <<>>, b)))

(* A getter comes before the visit of what it returns. *)
ToNode(e, below, t, x, before) ==
    LET b == Visit(before) IN
    IF x.j \in {"thrown", "broken"} THEN Fail(x.j, before)
    ELSE IF b.visits > MaxVisits THEN Fail("limit", b)
    ELSE CASE t.k = "nullable" -> IF x.j = "null" THEN Ok(V("null", "none", 0, <<>>), <<>>, b)
                                  ELSE below[<<t.kids[1], x, b>>]
           [] t.k = "array" -> ToArray(e, below, t, x, b)
           [] t.k = "value" -> ToValue(e, below, t, x, b)
           [] OTHER -> ToLeaf(e, t.k, x, b)

ToLevel(e, below) ==
    [x \in Types \X Natives \X Budgets |-> ToNode(e, below, x[1], x[2], x[3])]
To(e) ==
    LET to[n \in Levels] == IF n = 0 THEN TooDeep(Natives) ELSE ToLevel(e, to[n - 1])
    IN to

(*--------------------------------- calls --------------------------------*)
At(pc) == call.pc = pc
Goto(pc) == call' = [call EXCEPT !.pc = pc]
Done(outcome) == call' = [call EXCEPT !.pc = "done", !.outcome = outcome]
Unchanged == UNCHANGED <<lowering, async, author, sig, arguments, closed>>

ConversionInit ==
    /\ lowering \in {"cpp", "jvm"} /\ async \in BOOLEAN /\ closed \in BOOLEAN
    /\ author \in Authors
    /\ \E input \in Inputs : sig = input.sig /\ arguments = input.arguments
    /\ preflight = "none"
    /\ call = [pc |-> "idle", prepared |-> Fail("none", NoBudget), outcome |-> "none",
               result |-> Undefined, ran |-> FALSE]

(* accepts and checkArguments: limits are RangeErrors, nothing is converted. *)
CheckArguments ==
    IF Len(arguments) # Len(sig) THEN "TypeError"
    ELSE LET r == Prepare(ValidateJs) IN IF r.verdict = "limit" THEN "RangeError" ELSE r.verdict
Preflight ==
    /\ At("idle") /\ preflight = "none"
    /\ preflight' = CheckArguments
    /\ Unchanged /\ UNCHANGED call

(* The number of arguments, and for a synchronous JVM call the feature. *)
EnterCall ==
    /\ At("idle")
    /\ IF Len(arguments) # Len(sig) THEN Done("TypeError")
       ELSE IF lowering = "jvm" /\ ~async /\ closed THEN Done("FEATURE_CLOSED")
       ELSE Goto("prepare")
    /\ Unchanged /\ UNCHANGED preflight

(* A failed budget is a RangeError and an exception of the author's class  *)
(* an IMPLEMENTATION_ERROR, but both are INTERNAL from an asynchronous JVM *)
(* call, which has no handlers for them.                                   *)
PrepareArguments ==
    /\ At("prepare")
    /\ LET r == Prepare(FromJs) IN
       call' = [call EXCEPT
           !.prepared = r,
           !.pc = IF r.verdict = "ok" THEN "check" ELSE "done",
           !.outcome = CASE r.verdict = "ok" -> "none"
                         [] r.verdict \in {"limit", "thrown"} ->
                              IF lowering = "jvm" /\ async THEN "INTERNAL"
                              ELSE IF r.verdict = "limit" THEN "RangeError"
                              ELSE "IMPLEMENTATION_ERROR"
                         [] OTHER -> r.verdict]
    /\ Unchanged /\ UNCHANGED preflight

CheckFeature ==
    /\ At("check")
    /\ IF closed THEN Done("FEATURE_CLOSED") ELSE Goto("run")
    /\ Unchanged /\ UNCHANGED preflight

(* The implementation throws, or returns its last argument. *)
Implementation(throws) ==
    /\ At("run")
    /\ call' = [call EXCEPT !.ran = TRUE,
                            !.pc = IF throws THEN "done" ELSE "result",
                            !.outcome = IF throws THEN "IMPLEMENTATION_ERROR" ELSE @]
    /\ Unchanged /\ UNCHANGED preflight

ConvertResult ==
    /\ At("result")
    /\ LET last == call.prepared.out.kids[Len(sig)]
           r == To(ToJs)[Left(ToJs)][<<sig[Len(sig)], last, NoBudget>>] IN
       call' = [call EXCEPT
           !.pc = "done", !.result = IF r.verdict = "ok" THEN r.out ELSE Undefined,
           !.outcome = IF r.verdict = "ok" THEN "ok"
                       ELSE IF async \/ r.verdict = "broken" THEN "INTERNAL"
                       ELSE IF r.verdict = "thrown" THEN "IMPLEMENTATION_ERROR"
                       ELSE "RangeError"]
    /\ Unchanged /\ UNCHANGED preflight

ConversionNext ==
    \/ Preflight \/ EnterCall \/ PrepareArguments \/ CheckFeature \/ ConvertResult
    \/ \E throws \in BOOLEAN : Implementation(throws)

ConversionSpec == ConversionInit /\ [][ConversionNext]_conversionVars

(*------------------------------ properties ------------------------------*)
Converted == call.pc \in {"check", "run", "result"} \/ call.prepared.verdict # "none"
Expected == Prepare(ReferenceInput)
IsOk(r) == r.verdict = "ok"

(* The reference engine with the numbers, strings, objects and classes of  *)
(* the generated code: its limits, its counting, its own properties.       *)
Made == Prepare(Converter(1, Sized, TRUE, TRUE, FromJs.author))

(* What the reference engine accepts, both lowerings accept unless a       *)
(* constructor of the author's refuses it, and the C++ one spends the same *)
(* budget on it and retains the same handles.  With floats, strings and    *)
(* host objects as native code has them, the C++ lowering accepts exactly  *)
(* what the reference engine would, and the JVM lowering accepts that with *)
(* the same native values or fails in the same constructor; what it        *)
(* accepts beyond exceeds a limit by the reference's count or has a field  *)
(* from a prototype (_from_js_definition, _from_definition against         *)
(* _convert).                                                              *)
LoweringsFollowReference ==
    Converted =>
        /\ IsOk(Expected) =>
              \/ /\ IsOk(call.prepared)
                 /\ lowering = "cpp" => /\ call.prepared.budget = Expected.budget
                                        /\ call.prepared.retained = Expected.retained
              \/ lowering = "jvm" /\ call.prepared.verdict = "thrown"
        /\ Made.verdict \in {"ok", "thrown"} =>
              call.prepared.verdict = Made.verdict /\ call.prepared.out = Made.out
        /\ (lowering = "cpp" /\ (IsOk(Made) \/ IsOk(call.prepared))) => call.prepared = Made

(* Preflight and call agree: arguments that checkArguments refuses for     *)
(* their type do not convert, and those it lets pass convert unless the    *)
(* temporary storage, which only the call reserves, runs out or a          *)
(* constructor of the author's, which only the call runs, refuses them     *)
(* (_preflight_host_function against _callable_body).                      *)
PreflightAgrees ==
    preflight # "none" /\ Converted =>
        /\ preflight = "TypeError" => ~IsOk(call.prepared)
        /\ preflight # "ok" /\ lowering = "cpp" => ~IsOk(call.prepared)
        /\ preflight = "ok" =>
              \/ IsOk(call.prepared)
              \/ call.prepared.budget.temporary > MaxTemporary
              \/ lowering = "jvm" /\ author # "keeps" /\ call.prepared.verdict = "thrown"

(* A value as its type has it: the fields that the type names, read, and   *)
(* numbers and strings as they are stored, at each level of it.  A handle  *)
(* stands for its instance and a byte array for its bytes.                 *)
PlainNode(below, t, v) ==
    LET Kid(u, kid) == below[<<u, Read(kid)>>] IN
    IF v.j = "null" THEN v
    ELSE CASE t.k = "nullable" -> below[<<t.kids[1], v>>]
           [] t.k = "array" -> [v EXCEPT !.kids = [i \in DOMAIN @ |-> Kid(t.kids[1], @[i])]]
           [] t.k = "value" ->
                V("object", "none", 0, [i \in DOMAIN t.kids |-> Kid(t.kids[i], FieldOf(v, i))])
           [] OTHER -> V(v.j, Narrow(t.k, v.n), v.size, <<>>)
PlainLevel(below) == [x \in Types \X Values |-> PlainNode(below, x[1], x[2])]
Unread == [x \in Types \X Values |-> x[2]]
Plain ==
    LET plain[n \in Levels] ==
            IF n = 0 THEN Unread ELSE PlainLevel(plain[n - 1])
    IN plain

(* An accepted argument can be returned: its conversion back fits the      *)
(* limits too and yields the same value, with the fields of its type and   *)
(* with numbers and strings as native code stores them, unless a           *)
(* constructor of the author's made something else of it                   *)
(* (_to_js_definition, _to_definition against the conversion of arguments).*)
Intact == lowering = "cpp" \/ call.prepared = Prepare(JvmBuilding("keeps"))
EchoReturnsArgument ==
    At("done") /\ call.ran /\ call.outcome # "IMPLEMENTATION_ERROR" /\ Intact =>
        /\ call.outcome = "ok"
        /\ call.result = Plain[Left(FromJs)][<<sig[Len(sig)], Read(arguments[Len(sig)])>>]

(*--------------------------- inductive invariant ------------------------*)
(* The arguments are converted once, when their number is right; the       *)
(* implementation runs only when they were accepted.                       *)
CallInv ==
    /\ lowering \in {"cpp", "jvm"} /\ author \in Authors
    /\ sig \in Seq(Types) /\ sig # <<>> /\ arguments \in Seq(Values)
    /\ call = [pc |-> call.pc, prepared |-> call.prepared, outcome |-> call.outcome,
               result |-> call.result, ran |-> call.ran]
    /\ At("prepare") => Len(arguments) = Len(sig)
    /\ \/ /\ call.pc \in {"idle", "prepare", "done"}
          /\ call.prepared = Fail("none", NoBudget) /\ call.ran = FALSE
       \/ /\ call.pc \in {"check", "run", "result", "done"} /\ call.ran \in BOOLEAN
          /\ Len(arguments) = Len(sig) /\ call.prepared = Prepare(FromJs)
          /\ (~At("done") \/ call.ran) => IsOk(call.prepared)
          /\ call.ran => call.pc \in {"result", "done"}

(* What the preflight said is still true. *)
PreflightInv == preflight # "none" => preflight = CheckArguments

ConversionInv == CallInv /\ PreflightInv /\ EchoReturnsArgument
=============================================================================
