---------------------------- MODULE SemanticModel ----------------------------
(***************************************************************************)
(* From the marked sources of a feature to its semantic API: the spelling  *)
(* of a C++ or JVM type to a semantic type, the projection of a family's   *)
(* sources, the checks every API passes, and the merge of the two families.*)
(*                                                                         *)
(* A source is what a frontend found: [fam, lang, kind, name, ns, built,   *)
(* ctors, calls, fields, consts].  Its kind is object, value, enum, owner  *)
(* (an unmarked class with marked methods) or free (functions outside a    *)
(* class, JVM static ones included).  ctors holds the parameters of each   *)
(* selected constructor; built says that it has the construction path and  *)
(* the modifiers its kind needs.  Marker names, locations and identifier   *)
(* syntax are left out: an identity is the family, owner and name.         *)
(***************************************************************************)
EXTENDS Naturals, FiniteSets, Sequences, SequencesExt

(*---------------------------- semantic types ----------------------------*)
(* A type is what is at its bottom (void, a scalar or a named declaration)  *)
(* with the arrays and nullables around it, outermost first.                *)
NamedKinds == {"object", "value", "enum"}
Type(kind, id) == [wraps |-> <<>>, kind |-> kind, id |-> id]
Void == Type("void", "")
Scalar == Type("scalar", "")
Invalid == Type("invalid", "")
NamedRef(kind, id) == Type(kind, id)

(* array(t) and nullable(t): no void inside, no nullable of a nullable. *)
Wrapper(wraps, element) ==
    IF \/ element.kind = "void" /\ wraps # <<>>
       \/ \E i \in 1 .. Len(wraps) - 1 : wraps[i] = "nullable" /\ wraps[i + 1] = "nullable"
       \/ element = Invalid
    THEN Invalid
    ELSE [element EXCEPT !.wraps = wraps]

(* The named reference at the bottom of a type, if there is one. *)
Leaf(t) == IF t.kind \in NamedKinds THEN {NamedRef(t.kind, t.id)} ELSE {}

(*------------------------------- spellings ------------------------------*)
(* A spelling is [wraps, base, name, form, ns] with base void, scalar, boxed *)
(* (a Java class) or named; form and ns (the qualifier) are those of a name. *)

(* Name lookup: the declaration's namespace, then the global one, then any *)
(* unique type of that final name.                                         *)
resolve(registry, sp, ns) ==
    LET named == {t \in registry : t.name = sp.name}
        In(n) == {t \in named : t.ns = n}
    IN IF sp.ns # "" THEN In(sp.ns)
       ELSE IF In(ns) # {} THEN In(ns)
       ELSE IF In("") # {} THEN In("") ELSE named

(* Which C++ forms may carry an object in a position. *)
ObjectForms(position) ==
    IF position = "parameter" THEN {"ref", "const_ref", "shared", "shared_ref"}
    ELSE {"shared"}

canonical_cpp_type(sp, position, ns, registry) ==
    LET place == IF sp.wraps = <<>> THEN position ELSE "contained"
        found == resolve(registry, sp, ns)
        t == CHOOSE x \in found : TRUE
        fits == /\ Cardinality(found) = 1
                /\ sp.form \in (IF t.kind = "object" THEN ObjectForms(place) ELSE {"plain"})
    IN Wrapper(sp.wraps,
         CASE sp.base = "void" /\ place = "result" -> Void
           [] sp.base = "scalar" -> Scalar
           [] sp.base = "named" /\ fits -> NamedRef(t.kind, t.name)
           [] OTHER -> Invalid)

(* Java spells a scalar as a class inside a List or where it is nullable. *)
canonical_jvm_type(sp, lang, result, registry) ==
    LET found == {t \in registry : t.name = sp.name}
        t == CHOOSE x \in found : TRUE
        nested == sp.wraps # <<>>
    IN Wrapper(sp.wraps,
         CASE sp.base = "void" /\ result /\ ~nested -> Void
           [] sp.base = "scalar" /\ ~(lang = "java" /\ nested) -> Scalar
           [] sp.base = "boxed" /\ lang = "java" /\ nested -> Scalar
           [] sp.base = "named" /\ found # {} -> NamedRef(t.kind, t.name)
           [] OTHER -> Invalid)

(*------------------------------ projections -----------------------------*)
(* The types a family's sources declare. *)
_CppTypeRegistry(sources) ==
    {[name |-> s.name, ns |-> s.ns, kind |-> s.kind] :
        s \in {x \in sources : x.kind \in NamedKinds}}

TypeIn(s, sp, position, registry) ==
    IF s.fam = "cpp" THEN canonical_cpp_type(sp, position, s.ns, registry)
    ELSE canonical_jvm_type(sp, s.lang, position = "result", registry)

Parameters(s, params, registry) ==
    [i \in DOMAIN params |-> TypeIn(s, params[i], "parameter", registry)]

(* One marked function or method.  A method of an unmarked class becomes a *)
(* function of the feature.                                                *)
ProjectCall(s, c, registry) ==
    [id |-> <<s.fam, s.kind, s.name, c.name>>, fam |-> s.fam, via |-> s.kind,
     owner |-> IF s.kind = "object" THEN s.name ELSE "",
     scope |-> IF s.kind # "object" THEN "top"
               ELSE IF c.static THEN "static" ELSE "instance",
     name |-> c.name, public |-> c.public,
     params |-> Parameters(s, c.params, registry),
     result |-> TypeIn(s, c.result, "result", registry)]

ProjectFields(s, registry) ==
    [i \in DOMAIN s.fields |->
        [name |-> s.fields[i].name, mutable |-> s.fields[i].mutable,
         type |-> TypeIn(s, s.fields[i].type, "field", registry)]]

(* An object, a value or an enum with its members. *)
ProjectType(s, registry) ==
    [id |-> s.name, kind |-> s.kind, fams |-> {s.fam},
     ctors |-> {Parameters(s, p, registry) : p \in s.ctors},
     methods |-> {ProjectCall(s, c, registry) : c \in s.calls},
     fields |-> ProjectFields(s, registry), consts |-> s.consts]

(* What a projection refuses by itself, whatever the types. *)
OneConstructor(s) == \A p, q \in s.ctors : p = q
CppShape(s) ==
    CASE s.kind = "object" -> OneConstructor(s) /\ s.built
      [] s.kind = "value" -> s.ctors = {} /\ s.calls = {} /\ s.built
      [] s.kind = "owner" ->
           /\ s.ctors = {}
           /\ (\E c \in s.calls : ~c.static) => s.built
      [] OTHER -> TRUE

JvmShape(s) ==
    CASE s.kind = "object" -> OneConstructor(s) /\ s.built
      [] s.kind = "value" ->
           /\ s.ctors = {} /\ s.calls = {} /\ s.built
           /\ (s.lang = "java" => \A i \in DOMAIN s.fields : ~s.fields[i].mutable)
      [] s.kind = "enum" -> s.built
      [] s.kind = "owner" ->
           s.ctors = {} /\ s.built /\ \A c \in s.calls : ~c.static
      [] OTHER -> TRUE

(*---------------------------- the semantic API --------------------------*)
TypesOfCall(c) == {c.params[i] : i \in DOMAIN c.params} \cup {c.result}
FieldTypes(d) == {d.fields[i].type : i \in DOMAIN d.fields}
TypesOfDecl(d) ==
    FieldTypes(d) \cup (UNION {ToSet(p) : p \in d.ctors})
                  \cup (UNION {TypesOfCall(m) : m \in d.methods})
_all_api_types(api) ==
    (UNION {TypesOfCall(c) : c \in api.functions})
        \cup (UNION {TypesOfDecl(d) : d \in api.decls})

Distinct(seq) == \A i, j \in DOMAIN seq : seq[i] = seq[j] => i = j
DistinctBy(set, Key(_)) == \A x, y \in set : Key(x) = Key(y) => x = y
CallName(c) == c.name
DeclId(d) == d.id
NamesOfFields(d) == [i \in DOMAIN d.fields |-> d.fields[i].name]

(* What the constructor of one declaration refuses. *)
SemanticDeclarationOk(d) ==
    LET static == {m \in d.methods : m.scope = "static"}
        instance == {m \in d.methods : m.scope = "instance"}
    IN CASE d.kind = "enum" -> d.consts # <<>> /\ Distinct(d.consts)
         [] d.kind = "value" -> d.fields # <<>> /\ Distinct(NamesOfFields(d))
         [] d.kind = "object" ->
              /\ DistinctBy(static, CallName)
              /\ DistinctBy(instance, CallName)
              /\ Distinct(NamesOfFields(d))
              /\ {m.name : m \in instance} \cap ToSet(NamesOfFields(d)) = {}

Refs(api) == {NamedRef(d.kind, d.id) : d \in api.decls}
LeavesOf(types) == UNION {Leaf(t) : t \in types}
_validate_named_references(api) == LeavesOf(_all_api_types(api)) \subseteq Refs(api)

(* The references in the fields of the declaration id. *)
FieldRefs(api, id) ==
    LeavesOf(UNION {FieldTypes(d) : d \in {x \in api.decls : x.id = id}})

ValueIds(api) == {d.id : d \in {x \in api.decls : x.kind = "value"}}
_value_dependencies(api, id) == {x.id : x \in {y \in FieldRefs(api, id) : y.kind = "value"}}

(* Depth-first over the values: a value met again while it is being visited *)
(* is a cycle.                                                              *)
visit(api) ==
    LET ids == ValueIds(api)
        acyclic[visiting \in SUBSET ids] ==
            [id \in ids |->
                /\ id \notin visiting
                /\ \A dep \in _value_dependencies(api, id) : acyclic[visiting \cup {id}][dep]]
    IN acyclic[{}]

(* Mutant: only a value that contains itself directly is a cycle. *)
SelfCyclesOnly(api) == \A d \in api.decls : d.id \notin _value_dependencies(api, d.id)
_validate_value_cycles(api) == \A id \in ValueIds(api) : visit(api)[id]

SemanticApiOk(api) ==
    /\ Invalid \notin _all_api_types(api)
    /\ \A d \in api.decls : SemanticDeclarationOk(d)
    /\ DistinctBy(api.decls, DeclId)
    /\ DistinctBy({c \in api.functions : c.public}, CallName)
    /\ _validate_named_references(api)
    /\ _validate_value_cycles(api)

NoApi == [functions |-> {}, decls |-> {}]

(* All sources of one family become an API, which its constructor checks. *)
ProjectSources(sources) ==
    LET registry == _CppTypeRegistry(sources)
        types == {s \in sources : s.kind \in NamedKinds}
    IN [functions |-> UNION {{ProjectCall(s, c, registry) : c \in s.calls} : s \in sources \ types},
        decls |-> {ProjectType(s, registry) : s \in types}]

project_cpp_api(sources) == ProjectSources(sources)
project_jvm_owners(sources) == ProjectSources(sources)

CppAccepted(sources, api) ==
    /\ \A s \in sources : CppShape(s)
    /\ \A s, t \in {x \in sources : x.kind \in NamedKinds} :
           s.name = t.name /\ s.ns = t.ns => s = t
    /\ SemanticApiOk(api)

JvmAccepted(sources, api) ==
    (\A s \in sources : JvmShape(s)) /\ SemanticApiOk(api)

(*--------------------------------- merge --------------------------------*)
(* Two declarations of one identity are one copied type when their schemas *)
(* agree; mutability is not part of it.  Objects never merge.              *)
_declaration_schema(d) ==
    <<d.kind, d.consts, [i \in DOMAIN d.fields |-> <<d.fields[i].name, d.fields[i].type>>]>>

_merge_declarations_ok(a, b) ==
    a.kind # "object" /\ b.kind # "object" /\ _declaration_schema(a) = _declaration_schema(b)

Twins(a, b) == {p \in a.decls \X b.decls : p[1].id = p[2].id}

merge_semantic_apis(a, b) ==
    LET twins == Twins(a, b)
        rest == {d \in a.decls \cup b.decls : \A p \in twins : d \notin {p[1], p[2]}}
    IN [functions |-> a.functions \cup b.functions,
        decls |-> rest \cup {[p[1] EXCEPT !.fams = @ \cup p[2].fams] : p \in twins}]

MergeAccepted(a, b, merged) ==
    /\ \A p \in Twins(a, b) : _merge_declarations_ok(p[1], p[2])
    /\ SemanticApiOk(merged)

(*--------------------------------- routes -------------------------------*)
(* The references that a walk from a type meets: its own and, through a     *)
(* value, those of the value's fields, each value once.                     *)
Met(api, t) ==
    LET walked == {S \in SUBSET Refs(api) :
                      /\ Leaf(t) \subseteq S
                      /\ \A x \in S : x.kind = "value" => FieldRefs(api, x.id) \subseteq S}
    IN {x \in Refs(api) : \A S \in walked : x \in S}

(* A value of this type may travel between the families source and target. *)
validate_semantic_route(api, t, source, target) ==
    \A x \in Met(api, t) : \A d \in {y \in api.decls : y.id = x.id} :
        IF x.kind = "object" THEN source = target /\ source \in d.fams
        ELSE {source, target} \subseteq d.fams

(* A conversion plan is a finite tree: no value inside itself.  active is   *)
(* the values that a node is inside of.                                     *)
_plan_value(api) ==
    LET ids == ValueIds(api)
        planned[active \in SUBSET ids] ==
            [id \in ids |->
                /\ id \notin active
                /\ \A x \in FieldRefs(api, id) :
                      x \in Refs(api) /\ (x.kind = "value" => planned[active \cup {id}][x.id])]
    IN planned[{}]
_plan_type(api, t) ==
    \A x \in Leaf(t) : x \in Refs(api) /\ (x.kind = "value" => _plan_value(api)[x.id])

plan_api_conversion(api) == \A t \in _all_api_types(api) : _plan_type(api, t)
==============================================================================
