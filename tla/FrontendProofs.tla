--------------------------- MODULE FrontendProofs ---------------------------
(***************************************************************************)
(* Theorems about Frontend for every feature: the depth-first searches for *)
(* cycles and for plans agree; projection and merge cover each family; the *)
(* walk ends with the least surface; what the renderers install is         *)
(* declared and has its routes.                                            *)
(***************************************************************************)
EXTENDS Frontend, VectorTheorems, FiniteSetTheorems

(*----------------------------- depth-first search -----------------------*)
(* A search over S from a node along D, which enters no node that it is    *)
(* inside of and none outside of G: the recursion, and what it says of f.  *)
Enters(v, id, G, D, P) ==
    id \notin v /\ id \in G /\ \A dep \in D[id] : <<v \cup {id}, dep>> \in P
Search(S, G, D, f) ==
    [v \in SUBSET S |-> [id \in S |->
        id \notin v /\ id \in G /\ \A dep \in D[id] : f[v \cup {id}][dep]]]
Stable(S, G, D, P) ==
    \A v \in SUBSET S : \A id \in S : Enters(v, id, G, D, P) => <<v, id>> \in P

(* The recursion of a search has a solution: its least one.                *)
LEMMA SearchExists ==
  ASSUME NEW S, NEW G, NEW D, \A id \in S : D[id] \subseteq S
  PROVE  \E f : f = Search(S, G, D, f)
<1> DEFINE Pairs == (SUBSET S) \X S
           W == {p \in Pairs : \A P \in SUBSET Pairs : Stable(S, G, D, P) => p \in P}
           f == [v \in SUBSET S |-> [id \in S |-> <<v, id>> \in W]]
<1>1. Stable(S, G, D, W)
  <2> SUFFICES ASSUME NEW v \in SUBSET S, NEW id \in S, Enters(v, id, G, D, W),
                      NEW P \in SUBSET Pairs, Stable(S, G, D, P)
               PROVE  <<v, id>> \in P
    BY DEF Stable
  <2>1. W \subseteq P
    OBVIOUS
  <2>2. Enters(v, id, G, D, P)
    BY <2>1 DEF Enters
  <2> QED
    BY <2>2 DEF Stable
<1>2. ASSUME NEW v \in SUBSET S, NEW id \in S, <<v, id>> \in W
      PROVE  Enters(v, id, G, D, W)
  <2> DEFINE Q == {p \in W : Enters(p[1], p[2], G, D, W)}
  <2>1. Stable(S, G, D, Q)
    <3> SUFFICES ASSUME NEW u \in SUBSET S, NEW i \in S, Enters(u, i, G, D, Q)
                 PROVE  <<u, i>> \in Q
      BY DEF Stable
    <3>1. Enters(u, i, G, D, W)
      BY DEF Enters
    <3>2. <<u, i>> \in W
      BY <1>1, <3>1 DEF Stable
    <3> HIDE DEF W
    <3> QED
      BY <3>1, <3>2
  <2>2. Q \in SUBSET Pairs
    OBVIOUS
  <2>3. <<v, id>> \in Q
    <3> HIDE DEF Q
    <3> QED
      BY <1>2, <2>1, <2>2
  <2> HIDE DEF W
  <2> QED
    BY <2>3
<1>3. ASSUME NEW v \in SUBSET S, NEW id \in S
      PROVE  (<<v, id>> \in W) <=> (id \notin v /\ id \in G /\ \A dep \in D[id] : f[v \cup {id}][dep])
  <2>1. (<<v, id>> \in W) <=> Enters(v, id, G, D, W)
    <3> HIDE DEF W
    <3> QED
      BY <1>1, <1>2 DEF Stable
  <2>2. \A dep \in D[id] : f[v \cup {id}][dep] <=> (<<v \cup {id}, dep>> \in W)
    <3>1. v \cup {id} \in SUBSET S /\ D[id] \subseteq S
      OBVIOUS
    <3> HIDE DEF W
    <3> QED
      BY <3>1
  <2> HIDE DEF W, f
  <2> QED
    BY <2>1, <2>2 DEF Enters
<1>4. f = Search(S, G, D, f)
  <2> HIDE DEF W
  <2>1. \A v \in SUBSET S : [id \in S |-> <<v, id>> \in W]
            = [id \in S |-> id \notin v /\ id \in G /\ \A dep \in D[id] : f[v \cup {id}][dep]]
    <3> HIDE DEF f
    <3> QED
      BY <1>3
  <2>2. f = [v \in SUBSET S |-> [id \in S |->
                id \notin v /\ id \in G /\ \A dep \in D[id] : f[v \cup {id}][dep]]]
    <3> DEFINE g == f
    <3>1. f = [v \in SUBSET S |-> [id \in S |-> <<v, id>> \in W]]
      OBVIOUS
    <3> HIDE DEF f
    <3> QED
      BY <2>1, <3>1
  <2> HIDE DEF f
  <2> QED
    BY <2>2 DEF Search
<1> QED
  BY <1>4

(* What a search finds holds of P, when P holds of a node that may be      *)
(* entered once it holds of all that follow: the search gets deeper only   *)
(* finitely often.                                                         *)
LEMMA SearchInduction ==
  ASSUME NEW S, IsFiniteSet(S), NEW G, NEW D, \A id \in S : D[id] \subseteq S,
         NEW f, f = Search(S, G, D, f), NEW P, Stable(S, G, D, P)
  PROVE  \A v \in SUBSET S : \A id \in S : f[v][id] => <<v, id>> \in P
<1> DEFINE Rest(v) == Cardinality(S \ v)
           Bad == {n \in Nat : \E v \in SUBSET S : \E id \in S :
                      Rest(v) = n /\ f[v][id] /\ <<v, id>> \notin P}
<1>0. \A v \in SUBSET S : IsFiniteSet(S \ v) /\ Rest(v) \in Nat
  BY FS_Difference, FS_CardinalityType
<1>1. SUFFICES ASSUME Bad # {} PROVE FALSE
  BY <1>0
<1>2. PICK n \in Bad : \A m \in Bad : n <= m
  <2>1. Bad \in SUBSET Nat
    OBVIOUS
  <2> HIDE DEF Bad
  <2> QED
    BY <1>1, <2>1, Least
<1>3. PICK v \in SUBSET S, id \in S : Rest(v) = n /\ f[v][id] /\ <<v, id>> \notin P
  <2>1. n \in Bad
    BY <1>2
  <2> QED
    BY <2>1
<1>4. n \in Nat
  BY <1>0, <1>3
<1>5. id \notin v /\ id \in G /\ \A dep \in D[id] : f[v \cup {id}][dep]
  <2> DEFINE row == [i \in S |-> i \notin v /\ i \in G /\ \A dep \in D[i] : f[v \cup {i}][dep]]
  <2>1. f[v] = row
    <3> DEFINE g == Search(S, G, D, f)
    <3>1. g[v] = row
      BY DEF Search
    <3> HIDE DEF g, row
    <3>2. f = g
      BY DEF g
    <3> QED
      BY <3>1, <3>2
  <2>2. row[id]
    <3> HIDE DEF row
    <3> QED
      BY <1>3, <2>1
  <2> QED
    BY <2>2
<1>6. Rest(v \cup {id}) = n - 1 /\ v \cup {id} \in SUBSET S
  <2>1. S \ (v \cup {id}) = (S \ v) \ {id}
    OBVIOUS
  <2>2. id \in S \ v /\ IsFiniteSet(S \ v)
    BY <1>0, <1>5
  <2>3. Cardinality((S \ v) \ {id}) = Cardinality(S \ v) - 1
    BY <2>2, FS_RemoveElement
  <2>4. Cardinality(S \ v) = n
    BY <1>3
  <2> QED
    BY <2>1, <2>3, <2>4
<1>7. n - 1 \notin Bad /\ n - 1 \in Nat
  <2>1. n - 1 \in Nat
    <3> HIDE DEF Rest
    <3> QED
      BY <1>0, <1>6
  <2> HIDE DEF Bad
  <2> QED
    BY <1>2, <1>4, <2>1
<1>8. \A dep \in D[id] : <<v \cup {id}, dep>> \in P
  <2> SUFFICES ASSUME NEW dep \in D[id], <<v \cup {id}, dep>> \notin P
               PROVE  n - 1 \in Bad
    BY <1>7
  <2>1. dep \in S /\ f[v \cup {id}][dep]
    BY <1>5
  <2> HIDE DEF Rest
  <2> QED
    BY <1>6, <1>7, <2>1
<1>9. Enters(v, id, G, D, P)
  BY <1>5, <1>8 DEF Enters
<1> QED
  BY <1>3, <1>9 DEF Stable

(* Where the fields of values name values of the API only, the check for   *)
(* cycles and the planner of conversions are such searches.                *)
ValuesClosed(api) ==
    \A id \in ValueIds(api) : _value_dependencies(api, id) \subseteq ValueIds(api)
Dependencies(api) == [id \in ValueIds(api) |-> _value_dependencies(api, id)]
Plannable(api) == {id \in ValueIds(api) : FieldRefs(api, id) \subseteq Refs(api)}

LEMMA VisitIsSearch ==
  ASSUME NEW api, ValuesClosed(api)
  PROVE  \E f : /\ f = Search(ValueIds(api), ValueIds(api), Dependencies(api), f)
                /\ visit(api) = f[{}]
<1> DEFINE ids == ValueIds(api)
           D == Dependencies(api)
           Body(g) == [visiting \in SUBSET ids |->
               [id \in ids |->
                   /\ id \notin visiting
                   /\ \A dep \in _value_dependencies(api, id) : g[visiting \cup {id}][dep]]]
           acyclic == CHOOSE g : g = Body(g)
<1>1. ASSUME NEW g PROVE Body(g) = Search(ids, ids, D, g)
  <2>1. \A id \in ids : D[id] = _value_dependencies(api, id)
    BY DEF Dependencies
  <2> HIDE DEF ids, D
  <2> QED
    BY <2>1 DEF Search
<1>2. \E g : g = Search(ids, ids, D, g)
  <2>1. \A id \in ids : D[id] \subseteq ids
    BY DEF Dependencies, ValuesClosed
  <2> HIDE DEF ids, D
  <2> QED
    BY <2>1, SearchExists
<1>3. acyclic = Body(acyclic)
  <2> HIDE DEF Body, ids, D
  <2> QED
    BY <1>1, <1>2
<1>4. visit(api) = acyclic[{}]
  BY DEF visit
<1> HIDE DEF acyclic, Body
<1> QED
  BY <1>1, <1>3, <1>4

LEMMA PlanIsSearch ==
  ASSUME NEW api, ValuesClosed(api)
  PROVE  \E f : /\ f = Search(ValueIds(api), Plannable(api), Dependencies(api), f)
                /\ _plan_value(api) = f[{}]
<1> DEFINE ids == ValueIds(api)
           D == Dependencies(api)
           G == Plannable(api)
           Body(g) == [active \in SUBSET ids |->
               [id \in ids |->
                   /\ id \notin active
                   /\ \A x \in FieldRefs(api, id) :
                         x \in Refs(api) /\ (x.kind = "value" => g[active \cup {id}][x.id])]]
           planned == CHOOSE g : g = Body(g)
<1>1. ASSUME NEW g PROVE Body(g) = Search(ids, G, D, g)
  <2>1. ASSUME NEW v \in SUBSET ids, NEW id \in ids
        PROVE  (/\ id \notin v
                /\ \A x \in FieldRefs(api, id) :
                      x \in Refs(api) /\ (x.kind = "value" => g[v \cup {id}][x.id]))
               <=> (id \notin v /\ id \in G /\ \A dep \in D[id] : g[v \cup {id}][dep])
    <3>1. D[id] = _value_dependencies(api, id)
      BY DEF Dependencies
    <3>2. id \in G <=> \A x \in FieldRefs(api, id) : x \in Refs(api)
      BY DEF Plannable
    <3> HIDE DEF ids, D, G
    <3> QED
      BY <3>1, <3>2 DEF _value_dependencies
  <2> HIDE DEF ids, D, G
  <2>2. \A v \in SUBSET ids : Body(g)[v] = Search(ids, G, D, g)[v]
    BY <2>1, Zenon DEF Search
  <2> QED
    BY <2>2 DEF Search
<1>2. \E g : g = Search(ids, G, D, g)
  <2>1. \A id \in ids : D[id] \subseteq ids
    BY DEF Dependencies, ValuesClosed
  <2> HIDE DEF ids, D, G
  <2> QED
    BY <2>1, SearchExists
<1>3. planned = Body(planned)
  <2> HIDE DEF Body, ids, D, G
  <2> QED
    BY <1>1, <1>2
<1>4. _plan_value(api) = planned[{}]
  BY DEF _plan_value
<1> HIDE DEF planned, Body
<1> QED
  BY <1>1, <1>3, <1>4

(*-------------------------- references of an API ------------------------*)
(* A reference names a declaration of its kind; the fields of a declaration *)
(* are among the types of the API.                                         *)
LEMMA RefFacts ==
  ASSUME NEW api
  PROVE  /\ \A x \in Refs(api) : \E d \in api.decls : x = NamedRef(d.kind, d.id)
         /\ \A k, id : \A x \in Refs(api) : x = NamedRef(k, id) => x.kind = k /\ x.id = id
         /\ \A d \in api.decls : FieldTypes(d) \subseteq TypesOfDecl(d)
                                  /\ TypesOfDecl(d) \subseteq _all_api_types(api)
         /\ \A id : FieldRefs(api, id) \subseteq LeavesOf(_all_api_types(api))
<1>1. ASSUME NEW d \in api.decls
      PROVE  FieldTypes(d) \subseteq TypesOfDecl(d) /\ TypesOfDecl(d) \subseteq _all_api_types(api)
  <2>1. FieldTypes(d) \subseteq TypesOfDecl(d)
    BY DEF TypesOfDecl
  <2>2. TypesOfDecl(d) \subseteq _all_api_types(api)
    BY DEF _all_api_types
  <2> QED
    BY <2>1, <2>2
<1>2. ASSUME NEW id PROVE FieldRefs(api, id) \subseteq LeavesOf(_all_api_types(api))
  BY <1>1 DEF FieldRefs, LeavesOf
<1> QED
  BY <1>1, <1>2 DEF Refs, NamedRef, Type

(* The values that a value holds are values of the API. *)
LEMMA ValuesAreClosed ==
  ASSUME NEW api, _validate_named_references(api)
  PROVE  ValuesClosed(api)
<1> SUFFICES ASSUME NEW id \in ValueIds(api), NEW x \in FieldRefs(api, id), x.kind = "value"
             PROVE  x.id \in ValueIds(api)
  BY DEF ValuesClosed, _value_dependencies
<1>1. x \in Refs(api)
  BY RefFacts DEF _validate_named_references
<1>2. PICK d \in api.decls : x = NamedRef(d.kind, d.id)
  BY <1>1, RefFacts
<1> QED
  BY <1>2 DEF NamedRef, Type, ValueIds

(* An API whose types are declared and whose values hold no cycle has a    *)
(* conversion plan: the two searches, written apart, agree.                *)
LEMMA PlanAccepts ==
  ASSUME NEW api, IsFiniteSet(ValueIds(api)),
         _validate_named_references(api), _validate_value_cycles(api)
  PROVE  plan_api_conversion(api)
<1> DEFINE S == ValueIds(api)
           D == Dependencies(api)
<1>1. ValuesClosed(api)
  BY ValuesAreClosed
<1>2. PICK f : f = Search(S, S, D, f) /\ visit(api) = f[{}]
  BY <1>1, VisitIsSearch
<1>3. PICK g : g = Search(S, Plannable(api), D, g) /\ _plan_value(api) = g[{}]
  BY <1>1, PlanIsSearch
<1>4. \A id \in S : id \in Plannable(api)
  BY RefFacts DEF Plannable, _validate_named_references
<1> DEFINE P == {p \in (SUBSET S) \X S : g[p[1]][p[2]]}
<1>5. Stable(S, S, D, P)
  <2> SUFFICES ASSUME NEW v \in SUBSET S, NEW id \in S, Enters(v, id, S, D, P)
               PROVE  g[v][id]
    BY DEF Stable
  <2> DEFINE row == [i \in S |->
               i \notin v /\ i \in Plannable(api) /\ \A dep \in D[i] : g[v \cup {i}][dep]]
  <2>1. g[v] = row
    <3> DEFINE h == Search(S, Plannable(api), D, g)
    <3>1. h[v] = row
      BY DEF Search
    <3> HIDE DEF h, row
    <3>2. g = h
      BY <1>3 DEF h
    <3> QED
      BY <3>1, <3>2
  <2>2. row[id]
    BY <1>4 DEF Enters
  <2> HIDE DEF row
  <2> QED
    BY <2>1, <2>2
<1>6. \A id \in S : f[{}][id] => <<{}, id>> \in P
  <2>1. \A id \in S : D[id] \subseteq S
    BY <1>1 DEF Dependencies, ValuesClosed
  <2>2. IsFiniteSet(S) /\ {} \in SUBSET S
    OBVIOUS
  <2> HIDE DEF P, D, S
  <2> QED
    BY <1>2, <1>5, <2>1, <2>2, SearchInduction
<1>7. \A id \in S : _plan_value(api)[id]
  <2>1. \A id \in S : f[{}][id]
    BY <1>2 DEF _validate_value_cycles
  <2> QED
    BY <1>3, <1>6, <2>1
<1>8. ASSUME NEW t \in _all_api_types(api) PROVE _plan_type(api, t)
  <2> SUFFICES ASSUME NEW x \in Leaf(t)
               PROVE  x \in Refs(api) /\ (x.kind = "value" => x.id \in S)
    BY <1>7 DEF _plan_type
  <2>1. x \in Refs(api)
    BY DEF LeavesOf, _validate_named_references
  <2>2. PICK d \in api.decls : x = NamedRef(d.kind, d.id)
    BY <2>1, RefFacts
  <2> QED
    BY <2>1, <2>2 DEF NamedRef, Type, ValueIds
<1> QED
  BY <1>8 DEF plan_api_conversion

(*----------------------- projection of one family -----------------------*)
(* What the later steps need of an API: its declarations are finitely many *)
(* records; only objects have methods and constructors, at most one of the *)
(* latter; an enum has no fields; a function has no owner; everything      *)
(* comes from the families F, an object from one of them.                  *)
Declaration(d) ==
    d = [id |-> d.id, kind |-> d.kind, fams |-> d.fams, ctors |-> d.ctors,
         methods |-> d.methods, fields |-> d.fields, consts |-> d.consts]
DeclShape(d, F) ==
    /\ Declaration(d) /\ d.kind \in NamedKinds
    /\ d.fams \subseteq F /\ d.fams # {}
    /\ d.kind # "object" => d.methods = {} /\ d.ctors = {}
    /\ d.kind = "enum" => FieldTypes(d) = {}
    /\ \A m \in d.methods : m.owner = d.id /\ m.scope \in {"static", "instance"} /\ d.fams = {m.fam}
    /\ d.kind = "object" => \A f, g \in d.fams : f = g
    /\ \A p, q \in d.ctors : p = q
Shape(api, F) ==
    /\ IsFiniteSet(api.decls)
    /\ \A d \in api.decls : DeclShape(d, F)
    /\ \A c \in api.functions : c.owner = "" /\ c.scope = "top" /\ c.fam \in F

LEMMA ProjectionShape ==
  ASSUME NEW X, IsFiniteSet(X), NEW fm,
         \A s \in X : /\ s.fam = fm /\ s.kind \in NamedKinds \cup {"owner", "free"}
                      /\ s.kind = "enum" => s.fields = <<>> /\ s.ctors = {} /\ s.calls = {}
                      /\ s.kind = "value" => s.ctors = {} /\ s.calls = {}
                      /\ s.kind = "object" => OneConstructor(s)
  PROVE  Shape(ProjectSources(X), {fm})
<1> DEFINE types == {s \in X : s.kind \in NamedKinds}
           registry == _CppTypeRegistry(X)
           decls == {ProjectType(s, registry) : s \in types}
           functions == UNION {{ProjectCall(s, c, registry) : c \in s.calls} : s \in X \ types}
<1>1. ProjectSources(X).decls = decls /\ ProjectSources(X).functions = functions
  BY DEF ProjectSources
<1> HIDE DEF registry
<1>2. IsFiniteSet(decls)
  <2> DEFINE project == [s \in types |-> ProjectType(s, registry)]
  <2>1. IsFiniteSet(types)
    BY FS_Subset
  <2>2. project \in Surjection(types, decls)
    BY DEF Surjection
  <2> QED
    BY <2>1, <2>2, FS_Surjection
<1>3. ASSUME NEW s \in types PROVE DeclShape(ProjectType(s, registry), {fm})
  <2> DEFINE d == ProjectType(s, registry)
  <2>1. /\ Declaration(d) /\ d.kind = s.kind /\ d.fams = {fm} /\ d.id = s.name
        /\ d.methods = {ProjectCall(s, c, registry) : c \in s.calls}
        /\ d.ctors = {Parameters(s, p, registry) : p \in s.ctors}
        /\ d.fields = ProjectFields(s, registry)
    BY DEF ProjectType, Declaration
  <2>2. ASSUME NEW m \in d.methods
        PROVE  m.owner = d.id /\ m.scope \in {"static", "instance"} /\ m.fam = fm
    <3>1. PICK c \in s.calls : m = ProjectCall(s, c, registry)
      BY <2>1
    <3>2. s.kind = "object"
      BY DEF NamedKinds
    <3> HIDE DEF d
    <3> QED
      BY <2>1, <3>1, <3>2 DEF ProjectCall
  <2>3. d.kind # "object" => d.methods = {} /\ d.ctors = {}
    BY <2>1 DEF NamedKinds
  <2>4. d.kind = "enum" => FieldTypes(d) = {}
    <3> SUFFICES ASSUME s.kind = "enum" PROVE DOMAIN d.fields = {}
      BY <2>1 DEF FieldTypes
    <3>1. s.fields = <<>> /\ d.fields = ProjectFields(s, registry)
      BY <2>1
    <3>2. \A q : q = <<>> => DOMAIN q = {}
      OBVIOUS
    <3>3. DOMAIN ProjectFields(s, registry) = DOMAIN s.fields
      BY DEF ProjectFields
    <3> HIDE DEF d
    <3> QED
      BY <3>1, <3>2, <3>3
  <2>5. \A p, q \in d.ctors : p = q
    BY <2>1, <2>3 DEF OneConstructor
  <2>6. d.kind \in NamedKinds
    BY <2>1
  <2> HIDE DEF d
  <2>7. \A m \in d.methods : d.fams = {m.fam}
    BY <2>1, <2>2
  <2>8. DeclShape(d, {fm})
    BY <2>1, <2>2, <2>3, <2>4, <2>5, <2>6, <2>7 DEF DeclShape
  <2> QED
    BY <2>8 DEF d
<1>4. ASSUME NEW c \in functions PROVE c.owner = "" /\ c.scope = "top" /\ c.fam = fm
  <2>1. PICK s \in X \ types : c \in {ProjectCall(s, k, registry) : k \in s.calls}
    OBVIOUS
  <2>2. PICK k \in s.calls : c = ProjectCall(s, k, registry)
    BY <2>1
  <2>3. s.kind # "object"
    BY DEF NamedKinds
  <2> HIDE DEF functions, types
  <2> QED
    BY <2>2, <2>3 DEF ProjectCall
<1> HIDE DEF types, decls, functions
<1> QED
  BY <1>1, <1>2, <1>3, <1>4 DEF Shape, decls

(*--------------------------------- merge --------------------------------*)
(* The declaration m of a merged API stands for d of one family's. *)
Covers(m, d) ==
    /\ m.id = d.id /\ m.kind = d.kind /\ FieldTypes(m) = FieldTypes(d)
    /\ m.methods = d.methods /\ m.ctors = d.ctors /\ d.fams \subseteq m.fams
    /\ d.kind = "object" => m = d
Twin(x, y) == [x EXCEPT !.fams = @ \cup y.fams]

LEMMA TwinFacts ==
  ASSUME NEW x, NEW y, NEW F, NEW G, DeclShape(x, F), DeclShape(y, G),
         x.id = y.id, _merge_declarations_ok(x, y)
  PROVE  /\ DeclShape(Twin(x, y), F \cup G) /\ Twin(x, y).kind # "object"
         /\ Covers(Twin(x, y), x) /\ Covers(Twin(x, y), y)
<1> DEFINE t == Twin(x, y)
<1>1. /\ Declaration(t) /\ t.id = x.id /\ t.kind = x.kind /\ t.ctors = x.ctors
      /\ t.methods = x.methods /\ t.fields = x.fields /\ t.fams = x.fams \cup y.fams
  <2> DEFINE Rec(i, k, f, c, m, l, n) == [id |-> i, kind |-> k, fams |-> f, ctors |-> c,
                                          methods |-> m, fields |-> l, consts |-> n]
  <2>1. \A i, k, f, c, m, l, n :
            Twin(Rec(i, k, f, c, m, l, n), y) = Rec(i, k, f \cup y.fams, c, m, l, n)
    BY DEF Twin
  <2>2. x = Rec(x.id, x.kind, x.fams, x.ctors, x.methods, x.fields, x.consts)
    BY DEF DeclShape, Declaration
  <2>3. t = Rec(x.id, x.kind, x.fams \cup y.fams, x.ctors, x.methods, x.fields, x.consts)
    <3> HIDE DEF Rec
    <3> QED
      BY <2>1, <2>2
  <2> HIDE DEF t
  <2> QED
    BY <2>3 DEF Declaration
<1>2. /\ x.kind = y.kind /\ x.kind # "object" /\ y.kind # "object"
      /\ [i \in DOMAIN x.fields |-> <<x.fields[i].name, x.fields[i].type>>]
           = [i \in DOMAIN y.fields |-> <<y.fields[i].name, y.fields[i].type>>]
  BY DEF _merge_declarations_ok, _declaration_schema
<1> HIDE DEF t
<1>3. FieldTypes(x) = FieldTypes(y)
  <2> DEFINE s(d) == [i \in DOMAIN d.fields |-> <<d.fields[i].name, d.fields[i].type>>]
  <2>1. \A d : DOMAIN s(d) = DOMAIN d.fields /\ \A i \in DOMAIN d.fields : s(d)[i][2] = d.fields[i].type
    OBVIOUS
  <2>2. s(x) = s(y)
    BY <1>2
  <2> HIDE DEF s
  <2>3. /\ DOMAIN x.fields = DOMAIN y.fields
        /\ \A i \in DOMAIN x.fields : x.fields[i].type = y.fields[i].type
    BY <2>1, <2>2
  <2> QED
    BY <2>3 DEF FieldTypes
<1>4. FieldTypes(t) = FieldTypes(x)
  BY <1>1 DEF FieldTypes
<1>5. x.methods = {} /\ x.ctors = {} /\ y.methods = {} /\ y.ctors = {}
  BY <1>2 DEF DeclShape
<1>6. DeclShape(t, F \cup G)
  BY <1>1, <1>2, <1>4, <1>5 DEF DeclShape
<1>7. Covers(t, x) /\ Covers(t, y) /\ t.kind # "object"
  BY <1>1, <1>2, <1>3, <1>4, <1>5 DEF Covers
<1> QED
  BY <1>6, <1>7 DEF t

LEMMA MergeFacts ==
  ASSUME NEW a, NEW b, NEW F, NEW G, Shape(a, F), Shape(b, G),
         NEW M, M = merge_semantic_apis(a, b), MergeAccepted(a, b, M)
  PROVE  /\ Shape(M, F \cup G)
         /\ M.functions = a.functions \cup b.functions
         /\ \A d \in a.decls \cup b.decls : \E m \in M.decls : Covers(m, d)
         /\ \A m \in M.decls : m.kind = "object" => m \in a.decls \cup b.decls
<1> DEFINE twins == Twins(a, b)
           rest == {d \in a.decls \cup b.decls : \A p \in twins : d \notin {p[1], p[2]}}
           merges == {Twin(p[1], p[2]) : p \in twins}
<1>1. M.functions = a.functions \cup b.functions /\ M.decls = rest \cup merges
  BY DEF merge_semantic_apis, Twin
<1>2. ASSUME NEW p \in twins
      PROVE  /\ p[1] \in a.decls /\ p[2] \in b.decls
             /\ DeclShape(Twin(p[1], p[2]), F \cup G) /\ Twin(p[1], p[2]).kind # "object"
             /\ Covers(Twin(p[1], p[2]), p[1]) /\ Covers(Twin(p[1], p[2]), p[2])
  <2>1. p[1] \in a.decls /\ p[2] \in b.decls /\ p[1].id = p[2].id
    BY DEF Twins
  <2>2. _merge_declarations_ok(p[1], p[2])
    BY DEF MergeAccepted
  <2>3. DeclShape(p[1], F) /\ DeclShape(p[2], G)
    BY <2>1 DEF Shape
  <2> QED
    BY <2>1, <2>2, <2>3, TwinFacts
<1>3. ASSUME NEW d \in a.decls \cup b.decls
      PROVE  DeclShape(d, F \cup G) /\ Covers(d, d)
  BY DEF Shape, DeclShape, Covers
<1>4. IsFiniteSet(M.decls)
  <2> DEFINE twin == [p \in twins |-> Twin(p[1], p[2])]
  <2>1. IsFiniteSet(a.decls \cup b.decls) /\ IsFiniteSet(a.decls \X b.decls)
    BY FS_Union, FS_Product DEF Shape
  <2>2. rest \subseteq a.decls \cup b.decls /\ twins \subseteq a.decls \X b.decls
    BY DEF Twins
  <2>3. IsFiniteSet(rest) /\ IsFiniteSet(twins)
    <3> HIDE DEF rest, twins
    <3> QED
      BY <2>1, <2>2, FS_Subset
  <2>4. twin \in Surjection(twins, merges)
    BY DEF Surjection
  <2>5. IsFiniteSet(merges)
    <3> HIDE DEF twin, twins, merges
    <3> QED
      BY <2>3, <2>4, FS_Surjection
  <2> HIDE DEF rest, merges
  <2> QED
    BY <1>1, <2>3, <2>5, FS_Union
<1>5. ASSUME NEW d \in a.decls \cup b.decls PROVE \E m \in M.decls : Covers(m, d)
  <2>1. CASE d \in rest
    BY <1>1, <1>3, <2>1
  <2>2. CASE d \notin rest
    <3>1. PICK p \in twins : d = p[1] \/ d = p[2]
      BY <2>2
    <3>2. Twin(p[1], p[2]) \in merges
      OBVIOUS
    <3> QED
      BY <1>1, <1>2, <3>1, <3>2
  <2> QED
    BY <2>1, <2>2
<1>6. ASSUME NEW m \in M.decls
      PROVE  DeclShape(m, F \cup G) /\ (m.kind = "object" => m \in a.decls \cup b.decls)
  <2>1. CASE m \in rest
    BY <1>3, <2>1
  <2>2. CASE m \in merges
    <3>1. PICK p \in twins : m = Twin(p[1], p[2])
      BY <2>2
    <3> QED
      BY <1>2, <3>1
  <2> HIDE DEF rest, merges
  <2> QED
    BY <1>1, <2>1, <2>2
<1>7. Shape(M, F \cup G)
  <2> HIDE DEF rest, merges
  <2> QED
    BY <1>1, <1>4, <1>6 DEF Shape
<1> HIDE DEF rest, merges
<1> QED
  BY <1>1, <1>5, <1>6, <1>7

(* What holds of the three APIs once they are merged. *)
Agreed ==
    /\ Shape(jvm, {"jvm"}) /\ SemanticApiOk(jvm)
    /\ Shape(cpp, {"cpp"}) /\ SemanticApiOk(cpp)
    /\ Shape(merged, {"cpp", "jvm"}) /\ SemanticApiOk(merged)
    /\ merged.functions = cpp.functions \cup jvm.functions
    /\ \A d \in cpp.decls \cup jvm.decls : \E m \in merged.decls : Covers(m, d)
    /\ \A m \in merged.decls : m.kind = "object" => m \in cpp.decls \cup jvm.decls

LEMMA FamilyShape ==
  ASSUME feature \in Features, NEW fam
  PROVE  /\ (\A s \in Sources(fam) : CppShape(s)) => Shape(ProjectSources(Sources(fam)), {fam})
         /\ (\A s \in Sources(fam) : JvmShape(s)) => Shape(ProjectSources(Sources(fam)), {fam})
<1> DEFINE X == Sources(fam)
<1>1. IsFiniteSet(X)
  BY FeaturesAssumption, FS_Subset DEF Sources
<1>2. \A s \in X : /\ s.fam = fam /\ s.kind \in NamedKinds \cup {"owner", "free"}
                   /\ s.kind = "enum" => s.fields = <<>> /\ s.ctors = {} /\ s.calls = {}
  BY FeaturesAssumption DEF Sources
<1>3. \A s \in X : CppShape(s) \/ JvmShape(s) =>
          /\ s.kind = "value" => s.ctors = {} /\ s.calls = {}
          /\ s.kind = "object" => OneConstructor(s)
  BY DEF CppShape, JvmShape
<1> HIDE DEF X
<1>4. (\A s \in X : CppShape(s)) \/ (\A s \in X : JvmShape(s)) =>
          Shape(ProjectSources(X), {fam})
  BY <1>1, <1>2, <1>3, ProjectionShape
<1> QED
  BY <1>4 DEF X

LEMMA ApisAgree ==
  ASSUME feature \in Features, ApisInv, Merged
  PROVE  Agreed
<1>1. Shape(jvm, {"jvm"}) /\ SemanticApiOk(jvm)
  BY FamilyShape DEF ApisInv, Merged, CppProjected, JvmAccepted, project_jvm_owners
<1>2. Shape(cpp, {"cpp"}) /\ SemanticApiOk(cpp)
  BY FamilyShape DEF ApisInv, Merged, CppAccepted, project_cpp_api
<1>3. merged = merge_semantic_apis(cpp, jvm) /\ MergeAccepted(cpp, jvm, merged)
  BY DEF ApisInv
<1>4. {"cpp"} \cup {"jvm"} = {"cpp", "jvm"}
  OBVIOUS
<1>5. SemanticApiOk(merged)
  BY <1>3 DEF MergeAccepted
<1>6. /\ Shape(merged, {"cpp"} \cup {"jvm"})
      /\ merged.functions = cpp.functions \cup jvm.functions
      /\ \A d \in cpp.decls \cup jvm.decls : \E m \in merged.decls : Covers(m, d)
      /\ \A m \in merged.decls : m.kind = "object" => m \in cpp.decls \cup jvm.decls
  BY <1>1, <1>2, <1>3, MergeFacts
<1> QED
  BY <1>1, <1>2, <1>4, <1>5, <1>6 DEF Agreed

(* In an accepted API an identity is one declaration, and types are declared. *)
LEMMA MergedFacts ==
  ASSUME Agreed
  PROVE  /\ \A d, e \in merged.decls : d.id = e.id => d = e
         /\ \A d \in merged.decls : Decl(d.id) = d
         /\ \A x \in Refs(merged) : Decl(x.id) \in merged.decls
                                   /\ x = NamedRef(Decl(x.id).kind, Decl(x.id).id)
         /\ LeavesOf(_all_api_types(merged)) \subseteq Refs(merged)
         /\ \A d \in merged.decls : DeclShape(d, {"cpp", "jvm"})
<1>1. \A d, e \in merged.decls : d.id = e.id => d = e
  BY DEF Agreed, SemanticApiOk, DistinctBy, DeclId
<1>2. ASSUME NEW d \in merged.decls PROVE Decl(d.id) = d
  BY <1>1 DEF Decl
<1>3. ASSUME NEW x \in Refs(merged)
      PROVE  Decl(x.id) \in merged.decls /\ x = NamedRef(Decl(x.id).kind, Decl(x.id).id)
  <2>1. PICK d \in merged.decls : x = NamedRef(d.kind, d.id)
    BY RefFacts
  <2>2. x.id = d.id
    BY <2>1 DEF NamedRef, Type
  <2> QED
    BY <1>2, <2>1, <2>2
<1>4. LeavesOf(_all_api_types(merged)) \subseteq Refs(merged)
  BY DEF Agreed, SemanticApiOk, _validate_named_references
<1> QED
  BY <1>1, <1>2, <1>3, <1>4 DEF Agreed, Shape

(*--------------------------- the public surface -------------------------*)
(* The references in a set of types. *)
LEMMA LeafFacts ==
  /\ \A T, x : x \in LeavesOf(T) <=> \E t \in T : t.kind \in NamedKinds /\ x = NamedRef(t.kind, t.id)
  /\ \A T, i : i \in Ids(T) <=> \E t \in T : t.kind \in NamedKinds /\ i = t.id
  /\ \A T, U : LeavesOf(T \cup U) = LeavesOf(T) \cup LeavesOf(U)
  /\ \A T, U : Ids(T \cup U) = Ids(T) \cup Ids(U)
  /\ \A T, x : x \in LeavesOf(T) => x.id \in Ids(T)
  /\ \A k, i : NamedRef(k, i).kind = k /\ NamedRef(k, i).id = i
<1>1. \A T, x : x \in LeavesOf(T) <=> \E t \in T : t.kind \in NamedKinds /\ x = NamedRef(t.kind, t.id)
  BY DEF LeavesOf, Leaf
<1>2. \A k, i : NamedRef(k, i).kind = k /\ NamedRef(k, i).id = i
  BY DEF NamedRef, Type
<1>3. \A T, i : i \in Ids(T) <=> \E x \in LeavesOf(T) : i = x.id
  BY DEF Ids
<1>4. \A T, i : i \in Ids(T) <=> \E t \in T : t.kind \in NamedKinds /\ i = t.id
  BY <1>1, <1>2, <1>3
<1>5. \A T, U : LeavesOf(T \cup U) = LeavesOf(T) \cup LeavesOf(U)
  BY <1>1
<1>6. \A T, U : Ids(T \cup U) = Ids(T) \cup Ids(U)
  BY <1>4
<1> QED
  BY <1>1, <1>2, <1>3, <1>4, <1>5, <1>6

(* The types of the functions, members and fields are declared, and so is  *)
(* the object that a constructor returns.                                  *)
LEMMA TypesDeclared ==
  ASSUME Agreed
  PROVE  /\ LeavesOf(Entry) \subseteq Refs(merged)
         /\ \A d \in merged.decls : LeavesOf(Needs(d)) \subseteq Refs(merged)
<1> DEFINE all == _all_api_types(merged)
<1>1. ASSUME NEW d \in merged.decls PROVE LeavesOf(Needs(d)) \subseteq Refs(merged)
  <2>1. Needs(d) \subseteq TypesOfDecl(d)
    BY DEF Needs, TypesOfDecl, _queue_binding, Methods
  <2>2. Needs(d) \subseteq all
    BY <2>1, RefFacts
  <2> HIDE DEF all
  <2> QED
    BY <2>2, LeafFacts, MergedFacts DEF all
<1>2. ASSUME NEW t \in Entry, t.kind \in NamedKinds PROVE NamedRef(t.kind, t.id) \in Refs(merged)
  <2>1. ASSUME t \in all PROVE NamedRef(t.kind, t.id) \in Refs(merged)
    BY <1>2, <2>1, LeafFacts, MergedFacts
  <2>2. PICK c \in PublicFunctions(merged)
                \cup UNION {Constructor(d) \cup Methods(d, "static") : d \in Objects(merged)} :
             t \in TypesOfCall(c)
    BY DEF Entry, _queue_binding
  <2>3. CASE c \in PublicFunctions(merged)
    BY <2>1, <2>2, <2>3 DEF PublicFunctions, _all_api_types
  <2>4. ASSUME NEW d \in Objects(merged), c \in Constructor(d) \cup Methods(d, "static")
        PROVE  NamedRef(t.kind, t.id) \in Refs(merged)
    <3>1. d \in merged.decls /\ d.kind = "object"
      BY DEF Objects
    <3>2. TypesOfDecl(d) \subseteq all
      BY <3>1, RefFacts
    <3>3. CASE c \in Methods(d, "static")
      BY <2>1, <2>2, <3>2, <3>3 DEF Methods, TypesOfDecl
    <3>4. CASE c \in Constructor(d)
      <4>1. PICK p \in d.ctors : c.params = p /\ c.result = NamedRef("object", d.id)
        BY <3>4 DEF Constructor
      <4>2. CASE t = NamedRef("object", d.id)
        BY <3>1, <4>2, LeafFacts DEF Refs
      <4>3. CASE t \in ToSet(p)
        BY <2>1, <3>2, <4>3 DEF TypesOfDecl
      <4>4. t = NamedRef("object", d.id) \/ t \in ToSet(p)
        BY <2>2, <4>1 DEF TypesOfCall, ToSet
      <4> QED
        BY <4>2, <4>3, <4>4
    <3> QED
      BY <2>4, <3>3, <3>4
  <2> QED
    BY <2>2, <2>3, <2>4
<1> QED
  BY <1>1, <1>2, LeafFacts

(* The surface is the least closed set of identities. *)
LEMMA SurfaceFacts ==
  ASSUME Agreed
  PROVE  /\ LeastSurface \subseteq {d.id : d \in merged.decls}
         /\ Ids(Entry) \subseteq LeastSurface
         /\ \A id \in LeastSurface : Ids(Needs(Decl(id))) \subseteq LeastSurface
         /\ \A S : S \subseteq {d.id : d \in merged.decls} /\ Closed(S) => LeastSurface \subseteq S
<1> DEFINE all == {d.id : d \in merged.decls}
<1>1. \A T : LeavesOf(T) \subseteq Refs(merged) => Ids(T) \subseteq all
  BY RefFacts, LeafFacts DEF Ids
<1>2. Ids(Entry) \subseteq all
  BY <1>1, TypesDeclared
<1>3. \A id \in all : Ids(Needs(Decl(id))) \subseteq all
  BY <1>1, TypesDeclared, MergedFacts
<1>4. LeastSurface = {id \in all : \A S \in SUBSET all : Closed(S) => id \in S}
  BY DEF LeastSurface
<1>5. Ids(Entry) \subseteq LeastSurface
  BY <1>2, <1>4 DEF Closed
<1>6. ASSUME NEW id \in LeastSurface PROVE Ids(Needs(Decl(id))) \subseteq LeastSurface
  <2> HIDE DEF all
  <2>1. Ids(Needs(Decl(id))) \subseteq all
    BY <1>3, <1>4
  <2>2. \A S \in SUBSET all : Closed(S) => Ids(Needs(Decl(id))) \subseteq S
    BY <1>4 DEF Closed
  <2> QED
    BY <1>4, <2>1, <2>2
<1> HIDE DEF all
<1> QED
  BY <1>4, <1>5, <1>6 DEF all

(* The invariant of the walk as a predicate of the six sets it keeps.      *)
Spaces == {d.id : d \in {x \in Objects(merged) : x.ctors # {} \/ Methods(x, "static") # {}}}
Handles(x, r, i, ev) ==
    \/ x.kind = "object" /\ x.id \in i
    \/ x.kind = "value" /\ x.id \in ev
    \/ x.kind \notin {"object", "value"} /\ x.id \in r
MetBy(x, p, r, i, ev) == Handles(x, r, i, ev) \/ x \in LeavesOf(p)
SoundOf(p, r, n, i, ev) ==
    /\ LeavesOf(p) \subseteq Refs(merged)
    /\ ev \subseteq {d.id : d \in {x \in merged.decls : x.kind = "value"}}
    /\ i \subseteq {d.id : d \in Objects(merged)}
    /\ n = Spaces /\ r \subseteq LeastSurface \cup n
    /\ Ids(p) \subseteq LeastSurface /\ i \subseteq LeastSurface /\ ev \subseteq LeastSurface
CompleteOf(p, r, n, i, ev, eo) ==
    /\ \A x \in LeavesOf(Entry) : MetBy(x, p, r, i, ev)
    /\ \A id \in ev \cup eo : \A x \in LeavesOf(Needs(Decl(id))) : MetBy(x, p, r, i, ev)
    /\ \A id \in i \ eo : NamedRef("object", id) \in LeavesOf(p)
    /\ i \subseteq r /\ ev \subseteq r /\ n \subseteq r /\ eo \subseteq i
SurfaceOf(p, r, n, i, ev, eo) == SoundOf(p, r, n, i, ev) /\ CompleteOf(p, r, n, i, ev, eo)

LEMMA DeclFacts ==
  ASSUME Agreed
  PROVE  /\ \A id \in {d.id : d \in Objects(merged)} :
                Decl(id) \in merged.decls /\ Decl(id).kind = "object" /\ Decl(id).id = id
         /\ \A id \in {d.id : d \in {x \in merged.decls : x.kind = "value"}} :
                Decl(id) \in merged.decls /\ Decl(id).kind = "value" /\ Decl(id).id = id
  BY MergedFacts DEF Objects

LEMMA SurfaceNow ==
  Agreed => ((SoundInv /\ CompleteInv) <=>
                SurfaceOf(pending, reachable, namespaces, instances, expandedValues, expandedObjects))
<1> SUFFICES ASSUME Agreed
             PROVE  (SoundInv /\ CompleteInv) <=>
                        SurfaceOf(pending, reachable, namespaces, instances, expandedValues, expandedObjects)
  OBVIOUS
<1>1. SoundInv <=> SoundOf(pending, reachable, namespaces, instances, expandedValues)
  BY DEF SoundInv, SoundOf, Spaces
<1>2. ASSUME SoundInv, expandedObjects \subseteq instances, NEW id \in expandedValues \cup expandedObjects
      PROVE  LeavesOf(Needs(Decl(id))) \subseteq Refs(merged)
  <2>1. Decl(id) \in merged.decls
    BY <1>2, DeclFacts DEF SoundInv
  <2> QED
    BY <2>1, TypesDeclared
<1>3. \A x \in Refs(merged) :
          x \in Handled \cup LeavesOf(pending)
            <=> MetBy(x, pending, reachable, instances, expandedValues)
  BY DEF Handled, MetBy, Handles
<1>4. ASSUME NEW T, LeavesOf(T) \subseteq Refs(merged)
      PROVE  Known(T) <=> \A x \in LeavesOf(T) : MetBy(x, pending, reachable, instances, expandedValues)
  BY <1>3, <1>4 DEF Known
<1>5. ASSUME SoundInv
      PROVE  CompleteInv <=> CompleteOf(pending, reachable, namespaces, instances,
                                        expandedValues, expandedObjects)
  <2>1. Known(Entry) <=> \A x \in LeavesOf(Entry) :
                             MetBy(x, pending, reachable, instances, expandedValues)
    BY <1>4, TypesDeclared
  <2>2. ASSUME expandedObjects \subseteq instances
        PROVE  (\A id \in expandedValues \cup expandedObjects : Known(Needs(Decl(id))))
                 <=> \A id \in expandedValues \cup expandedObjects : \A x \in LeavesOf(Needs(Decl(id))) :
                        MetBy(x, pending, reachable, instances, expandedValues)
    BY <1>2, <1>4, <1>5, <2>2
  <2> QED
    BY <2>1, <2>2 DEF CompleteInv, CompleteOf
<1> QED
  BY <1>1, <1>5 DEF SurfaceOf

(* The steps of the walk leave the merged API alone, and with it what is   *)
(* defined from it.                                                        *)
LEMMA MergedFrozen ==
  ASSUME merged' = merged
  PROVE  /\ Entry' = Entry /\ LeastSurface' = LeastSurface /\ Spaces' = Spaces
         /\ \A id : Decl(id)' = Decl(id)
<1>1. Entry' = Entry
  BY DEF Entry
<1>2. \A id : Decl(id)' = Decl(id)
  BY DEF Decl
<1>3. Spaces' = Spaces
  BY DEF Spaces
<1>4. \A S : Closed(S)' <=> Closed(S)
  BY <1>1, <1>2 DEF Closed
<1>5. LeastSurface' = LeastSurface
  BY <1>4 DEF LeastSurface
<1> QED
  BY <1>1, <1>2, <1>3, <1>5

LEMMA SurfaceNext ==
  ASSUME Agreed, UNCHANGED apis
  PROVE  (SoundInv /\ CompleteInv)'
            <=> SurfaceOf(pending', reachable', namespaces', instances',
                          expandedValues', expandedObjects')
<1>2. Agreed' => ((SoundInv /\ CompleteInv)'
            <=> SurfaceOf(pending, reachable, namespaces, instances, expandedValues, expandedObjects)')
  BY SurfaceNow, PTL
<1>3. Agreed'
  BY DEF apis, Agreed
<1>4. SurfaceOf(pending, reachable, namespaces, instances, expandedValues, expandedObjects)'
        <=> SurfaceOf(pending', reachable', namespaces', instances', expandedValues', expandedObjects')
  <2>1. merged' = merged
    BY DEF apis
  <2> QED
    BY <2>1, MergedFrozen DEF SurfaceOf, SoundOf, CompleteOf
<1> QED
  BY <1>2, <1>3, <1>4

(* A constructor is a static call of its object, one per family and        *)
(* parameter list.                                                         *)
LEMMA ConstructorFacts ==
  ASSUME NEW d
  PROVE  /\ \A f \in d.fams, p \in d.ctors : \E c \in Constructor(d) :
                c.params = p /\ c.result = NamedRef("object", d.id)
         /\ \A c \in Constructor(d) :
                /\ c.owner = d.id /\ c.scope = "static" /\ c.name = "create" /\ c.public
                /\ c.fam \in d.fams /\ c.params \in d.ctors /\ c.result = NamedRef("object", d.id)
         /\ \A b, c \in Constructor(d) : b.fam = c.fam /\ b.params = c.params => b = c
<1> DEFINE R(g, w) == [id |-> <<g, "object", d.id, "constructor">>, fam |-> g, via |-> "object",
                       owner |-> d.id, scope |-> "static", name |-> "create", public |-> TRUE,
                       params |-> w, result |-> NamedRef("object", d.id)]
<1>1. Constructor(d) = {R(g, w) : g \in d.fams, w \in d.ctors}
  BY DEF Constructor
<1>2. \A g, w : /\ R(g, w).owner = d.id /\ R(g, w).scope = "static" /\ R(g, w).name = "create"
              /\ R(g, w).public /\ R(g, w).fam = g /\ R(g, w).params = w
              /\ R(g, w).result = NamedRef("object", d.id)
  OBVIOUS
<1> HIDE DEF R
<1>3. \A g \in d.fams, w \in d.ctors : R(g, w) \in Constructor(d)
  BY <1>1
<1>4. \A c \in Constructor(d) : \E g \in d.fams, w \in d.ctors : c = R(g, w)
  BY <1>1
<1> QED
  BY <1>2, <1>3, <1>4

(* The roots are the entry of the surface: an object that is no namespace  *)
(* has no call there; what has a constructor is produced by it.            *)
LEMMA SeedSurface ==
  ASSUME Agreed,
         NEW built, built = {d \in Objects(merged) : d.ctors # {}},
         NEW spaces, spaces = built \cup {d \in Objects(merged) : Methods(d, "static") # {}},
         NEW roots, roots = PublicFunctions(merged)
                        \cup UNION {Constructor(d) \cup Methods(d, "static") : d \in spaces}
  PROVE  LET n == {d.id : d \in spaces}
         IN SurfaceOf(_queue_binding(roots), n, n, {d.id : d \in built}, {}, {})
<1> DEFINE n == {d.id : d \in spaces}
           i == {d.id : d \in built}
           Calls(d) == Constructor(d) \cup Methods(d, "static")
<1>1. n = Spaces /\ i \subseteq n /\ i \subseteq {d.id : d \in Objects(merged)}
  BY DEF Spaces
<1>2. \A d \in Objects(merged) : d \notin spaces => Calls(d) = {}
  BY DEF Constructor
<1>3. UNION {Calls(d) : d \in spaces} = UNION {Calls(d) : d \in Objects(merged)}
  <2> HIDE DEF Calls
  <2> QED
    BY <1>2
<1>4. _queue_binding(roots) = Entry
  BY <1>3 DEF Entry
<1>5. ASSUME NEW d \in built PROVE NamedRef("object", d.id) \in Entry
  <2>1. d \in Objects(merged) /\ d \in merged.decls
    BY DEF Objects
  <2>2. PICK f \in d.fams, p \in d.ctors : TRUE
    BY <2>1, MergedFacts DEF DeclShape
  <2>3. PICK c \in Constructor(d) : c.result = NamedRef("object", d.id)
    BY <2>2, ConstructorFacts
  <2>4. NamedRef("object", d.id) \in TypesOfCall(c)
    BY <2>3 DEF TypesOfCall
  <2> QED
    BY <2>1, <2>3, <2>4 DEF Entry, _queue_binding
<1>6. i \subseteq Ids(Entry)
  BY <1>5, LeafFacts DEF NamedKinds
<1>7. \A id \in i : NamedRef("object", id) \in LeavesOf(Entry)
  BY <1>5, LeafFacts DEF NamedKinds
<1> HIDE DEF n, i
<1>8. SurfaceOf(Entry, n, n, i, {}, {})
  BY <1>1, <1>6, <1>7, TypesDeclared, SurfaceFacts DEF SurfaceOf, SoundOf, CompleteOf, MetBy
<1> QED
  BY <1>4, <1>8 DEF n, i

(* Unwrapping a type changes no reference that waits. *)
LEMMA UnwrapSurface ==
  ASSUME NEW p, NEW q, NEW r, NEW n, NEW i, NEW ev, NEW eo, SurfaceOf(p, r, n, i, ev, eo),
         NEW t \in p,
         \/ q = (p \ {t}) \cup {[Type(t.kind, t.id) EXCEPT !.wraps = Tail(t.wraps)]}
         \/ t.kind \in {"void", "scalar"} /\ q = p \ {t}
  PROVE  SurfaceOf(q, r, n, i, ev, eo)
<1>1. LeavesOf(q) = LeavesOf(p)
  <2>1. CASE q = (p \ {t}) \cup {[Type(t.kind, t.id) EXCEPT !.wraps = Tail(t.wraps)]}
    <3> DEFINE u == [Type(t.kind, t.id) EXCEPT !.wraps = Tail(t.wraps)]
    <3>1. u.kind = t.kind /\ u.id = t.id
      BY DEF Type
    <3> HIDE DEF u
    <3>2. q = (p \ {t}) \cup {u}
      BY <2>1 DEF u
    <3>3. LeavesOf({u}) = LeavesOf({t})
      BY <3>1 DEF LeavesOf, Leaf
    <3>4. LeavesOf(q) = LeavesOf(p \ {t}) \cup LeavesOf({t})
      BY <3>2, <3>3, LeafFacts
    <3>5. (p \ {t}) \cup {t} = p
      OBVIOUS
    <3> QED
      BY <3>4, <3>5, LeafFacts
  <2>2. CASE t.kind \in {"void", "scalar"} /\ q = p \ {t}
    <3>1. LeavesOf({t}) = {}
      BY <2>2, LeafFacts DEF NamedKinds
    <3>2. (p \ {t}) \cup {t} = p
      OBVIOUS
    <3>3. LeavesOf(p) = LeavesOf(q) \cup LeavesOf({t})
      BY <2>2, <3>2, LeafFacts
    <3> QED
      BY <3>1, <3>3
  <2> QED
    BY <2>1, <2>2
<1>2. Ids(q) = Ids(p)
  BY <1>1 DEF Ids
<1> QED
  BY <1>1, <1>2 DEF SurfaceOf, SoundOf, CompleteOf, MetBy

(* Visiting a named type: whatever is expanded with it, its members wait.  *)
LEMMA VisitSurface ==
  ASSUME Agreed,
         NEW p, NEW r, NEW n, NEW i, NEW ev, NEW eo, SurfaceOf(p, r, n, i, ev, eo),
         NEW t \in p, t.kind \in NamedKinds,
         NEW q, NEW i2, NEW ev2, NEW eo2,
         i \subseteq i2, i2 \subseteq i \cup {t.id},
         IF t.kind = "object" THEN t.id \in i2 ELSE i2 = i,
         ev \subseteq ev2, ev2 \subseteq ev \cup {t.id},
         IF t.kind = "value" THEN t.id \in ev2 ELSE ev2 = ev,
         eo2 \subseteq i2, LeavesOf(p \ {t}) \subseteq LeavesOf(q),
         \A x \in LeavesOf(q) : x \in LeavesOf(p) \/ \E id \in i2 \cup ev2 : x \in LeavesOf(Needs(Decl(id))),
         \A id \in (ev2 \cup eo2) \ (ev \cup eo) : LeavesOf(Needs(Decl(id))) \subseteq LeavesOf(q),
         \A id \in i2 \ eo2 : id \in i \ eo /\ t.kind # "object"
  PROVE  SurfaceOf(q, r \cup {t.id}, n, i2, ev2, eo2)
<1> DEFINE objects == {d.id : d \in Objects(merged)}
           values == {d.id : d \in {x \in merged.decls : x.kind = "value"}}
           leaf == NamedRef(t.kind, t.id)
<1>1. leaf \in LeavesOf(p) /\ leaf \in Refs(merged) /\ t.id \in LeastSurface
  BY LeafFacts DEF SurfaceOf, SoundOf
<1>2. (t.kind = "object" => t.id \in objects) /\ (t.kind = "value" => t.id \in values)
  BY <1>1, MergedFacts, LeafFacts DEF Objects
<1>3. i2 \subseteq objects /\ ev2 \subseteq values /\ i2 \subseteq LeastSurface /\ ev2 \subseteq LeastSurface
  <2>1. i \subseteq objects /\ ev \subseteq values /\ i \subseteq LeastSurface /\ ev \subseteq LeastSurface
    BY DEF SurfaceOf, SoundOf
  <2> HIDE DEF objects, values
  <2> QED
    BY <1>1, <1>2, <2>1
<1>4. \A id \in i2 \cup ev2 : Decl(id) \in merged.decls
  BY <1>3, DeclFacts
<1>5. LeavesOf(q) \subseteq Refs(merged)
  <2>1. LeavesOf(p) \subseteq Refs(merged)
    BY DEF SurfaceOf, SoundOf
  <2> QED
    BY <1>4, <2>1, TypesDeclared
<1>6. Ids(q) \subseteq LeastSurface
  <2> SUFFICES ASSUME NEW x \in LeavesOf(q) PROVE x.id \in LeastSurface
    BY DEF Ids
  <2>1. CASE x \in LeavesOf(p)
    BY <2>1, LeafFacts DEF SurfaceOf, SoundOf
  <2>2. ASSUME NEW id \in i2 \cup ev2, x \in LeavesOf(Needs(Decl(id))) PROVE x.id \in LeastSurface
    BY <1>3, <2>2, LeafFacts, SurfaceFacts
  <2> QED
    BY <2>1, <2>2
<1>7. SoundOf(q, r \cup {t.id}, n, i2, ev2)
  BY <1>1, <1>3, <1>5, <1>6 DEF SurfaceOf, SoundOf
<1>8. \A x \in LeavesOf(p) : x = leaf \/ x \in LeavesOf(q)
  BY LeafFacts
<1>9. ASSUME NEW x, MetBy(x, p, r, i, ev) PROVE MetBy(x, q, r \cup {t.id}, i2, ev2)
  <2>1. Handles(leaf, r \cup {t.id}, i2, ev2)
    BY LeafFacts DEF Handles
  <2>2. CASE Handles(x, r, i, ev)
    BY <2>2 DEF Handles, MetBy
  <2>3. CASE x \in LeavesOf(p)
    BY <1>8, <2>1, <2>3 DEF MetBy
  <2> QED
    BY <1>9, <2>2, <2>3 DEF MetBy
<1>10. ASSUME NEW id \in ev2 \cup eo2, NEW x \in LeavesOf(Needs(Decl(id)))
       PROVE  MetBy(x, q, r \cup {t.id}, i2, ev2)
  <2>1. CASE id \in ev \cup eo
    BY <1>9, <2>1 DEF SurfaceOf, CompleteOf
  <2>2. CASE id \notin ev \cup eo
    BY <2>2 DEF MetBy
  <2> QED
    BY <2>1, <2>2
<1>11. ASSUME NEW id \in i2 \ eo2 PROVE NamedRef("object", id) \in LeavesOf(q)
  <2>1. NamedRef("object", id) \in LeavesOf(p) /\ NamedRef("object", id) # leaf
    BY LeafFacts DEF SurfaceOf, CompleteOf
  <2> QED
    BY <1>8, <2>1
<1>12. CompleteOf(q, r \cup {t.id}, n, i2, ev2, eo2)
  BY <1>9, <1>10, <1>11 DEF SurfaceOf, CompleteOf
<1> QED
  BY <1>7, <1>12 DEF SurfaceOf

LEMMA MemberLeaves ==
  ASSUME NEW ids, NEW x
  PROVE  x \in LeavesOf(InstanceMembers(ids)) <=> \E id \in ids : x \in LeavesOf(Needs(Decl(id)))
<1> DEFINE Members(id) == _queue_binding(Methods(Decl(id), "instance")) \cup FieldTypes(Decl(id))
<1>1. \A id : Members(id) = Needs(Decl(id))
  BY DEF Needs
<1>2. InstanceMembers(ids) = UNION {Members(id) : id \in ids}
  BY DEF InstanceMembers
<1> HIDE DEF Members
<1>3. \A t : t \in InstanceMembers(ids) <=> \E id \in ids : t \in Needs(Decl(id))
  BY <1>1, <1>2
<1> QED
  BY <1>3, LeafFacts

LEMMA SeedStep ==
  ASSUME Agreed, Seed, expandedValues = {}, expandedObjects = {}
  PROVE  (SoundInv /\ CompleteInv)'
<1> DEFINE built == {d \in Objects(merged) : d.ctors # {}}
           spaces == built \cup {d \in Objects(merged) : Methods(d, "static") # {}}
           roots == PublicFunctions(merged)
                        \cup UNION {Constructor(d) \cup Methods(d, "static") : d \in spaces}
           n == {d.id : d \in spaces}
<1>1. /\ UNCHANGED apis /\ pending' = _queue_binding(roots) /\ namespaces' = n /\ reachable' = n
      /\ instances' = {d.id : d \in built} /\ expandedValues' = {} /\ expandedObjects' = {}
  BY DEF Seed
<1>2. SurfaceOf(_queue_binding(roots), n, n, {d.id : d \in built}, {}, {})
  BY SeedSurface
<1> HIDE DEF roots, n, built
<1> QED
  BY <1>1, <1>2, SurfaceNext

LEMMA WalkStep ==
  ASSUME Agreed, SoundInv, CompleteInv,
         NEW t \in pending, Unwrap(t) \/ VisitValue(t) \/ VisitNamed(t)
  PROVE  (SoundInv /\ CompleteInv)'
<1>1. SurfaceOf(pending, reachable, namespaces, instances, expandedValues, expandedObjects)
  BY SurfaceNow
<1>2. UNCHANGED apis
  BY DEF Unwrap, VisitValue, VisitNamed, Walking
<1>3. SUFFICES SurfaceOf(pending', reachable', namespaces', instances', expandedValues', expandedObjects')
  BY <1>2, SurfaceNext
<1>4. CASE Unwrap(t)
  BY <1>1, <1>4, UnwrapSurface DEF Unwrap, walk
<1>5. CASE VisitValue(t) /\ t.id \in expandedValues
  <2>1. /\ pending' = pending \ {t} /\ reachable' = reachable \cup {t.id}
        /\ namespaces' = namespaces /\ instances' = instances
        /\ expandedValues' = expandedValues /\ expandedObjects' = expandedObjects
        /\ t.kind = "value"
    BY <1>5 DEF VisitValue
  <2>2. /\ expandedObjects \subseteq instances
        /\ LeavesOf(pending \ {t}) \subseteq LeavesOf(pending)
    BY <1>1, LeafFacts DEF SurfaceOf, CompleteOf
  <2>3. SurfaceOf(pending \ {t}, reachable \cup {t.id}, namespaces, instances,
                  expandedValues, expandedObjects)
    BY <1>1, <1>5, <2>1, <2>2, VisitSurface DEF NamedKinds
  <2> QED
    BY <2>1, <2>3
<1>6. CASE VisitValue(t) /\ t.id \notin expandedValues
  <2> DEFINE q == (pending \ {t}) \cup FieldTypes(Decl(t.id)) \cup InstanceMembers(instances \ expandedObjects)
             ev == expandedValues \cup {t.id}
  <2>1. /\ pending' = q /\ reachable' = reachable \cup {t.id}
        /\ namespaces' = namespaces /\ instances' = instances
        /\ expandedValues' = ev /\ expandedObjects' = instances
        /\ t.kind = "value"
    BY <1>6 DEF VisitValue
  <2>2. NamedRef(t.kind, t.id) \in Refs(merged)
    BY <1>1, <2>1, LeafFacts DEF SurfaceOf, SoundOf, NamedKinds
  <2>3. Decl(t.id) \in merged.decls /\ Decl(t.id).kind = "value"
    BY <2>1, <2>2, MergedFacts, LeafFacts
  <2>4. FieldTypes(Decl(t.id)) = Needs(Decl(t.id))
    BY <2>3, MergedFacts DEF DeclShape, Needs, Methods, _queue_binding
  <2>5. \A x : x \in LeavesOf(q) <=>
                 \/ x \in LeavesOf(pending \ {t})
                 \/ \E id \in {t.id} \cup (instances \ expandedObjects) : x \in LeavesOf(Needs(Decl(id)))
    <3> DEFINE P == pending \ {t}
               N == Needs(Decl(t.id))
               I == InstanceMembers(instances \ expandedObjects)
    <3>1. q = P \cup N \cup I
      BY <2>4
    <3> HIDE DEF P, N, I, q
    <3>2. LeavesOf(q) = LeavesOf(P) \cup LeavesOf(N) \cup LeavesOf(I)
      BY <3>1, LeafFacts
    <3>3. \A x : x \in LeavesOf(I)
                  <=> \E id \in instances \ expandedObjects : x \in LeavesOf(Needs(Decl(id)))
      BY MemberLeaves DEF I
    <3> QED
      BY <3>2, <3>3 DEF P, N
  <2> HIDE DEF q
  <2>6. SurfaceOf(q, reachable \cup {t.id}, namespaces, instances, ev, instances)
    <3>1. LeavesOf(pending \ {t}) \subseteq LeavesOf(q)
      BY <2>5
    <3>2. \A x \in LeavesOf(q) : x \in LeavesOf(pending)
             \/ \E id \in instances \cup ev : x \in LeavesOf(Needs(Decl(id)))
      BY <2>5, LeafFacts
    <3>3. \A id \in (ev \cup instances) \ (expandedValues \cup expandedObjects) :
             LeavesOf(Needs(Decl(id))) \subseteq LeavesOf(q)
      BY <2>5
    <3> QED
      BY <1>1, <2>1, <3>1, <3>2, <3>3, VisitSurface DEF NamedKinds
  <2> QED
    BY <2>1, <2>6
<1>7. CASE VisitNamed(t)
  <2> DEFINE i == IF t.kind = "object" THEN instances \cup {t.id} ELSE instances
             q == (pending \ {t}) \cup InstanceMembers(i \ expandedObjects)
  <2>1. /\ pending' = q /\ reachable' = reachable \cup {t.id}
        /\ namespaces' = namespaces /\ instances' = i
        /\ expandedValues' = expandedValues /\ expandedObjects' = i
        /\ t.kind \in {"object", "enum"}
    BY <1>7 DEF VisitNamed
  <2>2. \A x : x \in LeavesOf(q) <=>
                 \/ x \in LeavesOf(pending \ {t})
                 \/ \E id \in i \ expandedObjects : x \in LeavesOf(Needs(Decl(id)))
    <3> DEFINE P == pending \ {t}
               I == InstanceMembers(i \ expandedObjects)
    <3> HIDE DEF i
    <3>1. q = P \cup I
      OBVIOUS
    <3> HIDE DEF P, I, q
    <3>2. LeavesOf(q) = LeavesOf(P) \cup LeavesOf(I)
      BY <3>1, LeafFacts
    <3>3. \A x : x \in LeavesOf(I) <=> \E id \in i \ expandedObjects : x \in LeavesOf(Needs(Decl(id)))
      BY MemberLeaves DEF I
    <3> QED
      BY <3>2, <3>3 DEF P
  <2> HIDE DEF q
  <2>3. SurfaceOf(q, reachable \cup {t.id}, namespaces, i, expandedValues, i)
    <3>1. LeavesOf(pending \ {t}) \subseteq LeavesOf(q)
      BY <2>2
    <3>2. \A x \in LeavesOf(q) : x \in LeavesOf(pending)
             \/ \E id \in i \cup expandedValues : x \in LeavesOf(Needs(Decl(id)))
      BY <2>2, LeafFacts
    <3>3. \A id \in (expandedValues \cup i) \ (expandedValues \cup expandedObjects) :
             LeavesOf(Needs(Decl(id))) \subseteq LeavesOf(q)
      BY <2>2
    <3>4. /\ instances \subseteq i /\ i \subseteq instances \cup {t.id}
          /\ IF t.kind = "object" THEN t.id \in i ELSE i = instances
      OBVIOUS
    <3> HIDE DEF i
    <3> QED
      BY <1>1, <2>1, <3>1, <3>2, <3>3, <3>4, VisitSurface DEF NamedKinds
  <2> QED
    BY <2>1, <2>3
<1> QED
  BY <1>4, <1>5, <1>6, <1>7

(* When nothing waits, what has been visited is the least surface, and the *)
(* members that are refused are the stranded ones.                         *)
LEMMA WalkEnds ==
  ASSUME Agreed, SoundInv, CompleteInv, pending = {}
  PROVE  /\ reachable = LeastSurface \cup namespaces
         /\ instances = {d.id : d \in Objects(merged)} \cap LeastSurface
         /\ _reject_unreachable_members = Stranded
<1> DEFINE H == {x.id : x \in {y \in Refs(merged) : Handles(y, reachable, instances, expandedValues)}}
<1>1. /\ SoundOf(pending, reachable, namespaces, instances, expandedValues)
      /\ CompleteOf(pending, reachable, namespaces, instances, expandedValues, expandedObjects)
  BY SurfaceNow DEF SurfaceOf
<1>2. LeavesOf(pending) = {}
  BY LeafFacts
<1>3. instances = expandedObjects
  BY <1>1, <1>2 DEF CompleteOf
<1>4. \A T : LeavesOf(T) \subseteq Refs(merged)
             /\ (\A x \in LeavesOf(T) : MetBy(x, pending, reachable, instances, expandedValues))
          => Ids(T) \subseteq H
  BY <1>2 DEF MetBy, Ids
<1>5. Ids(Entry) \subseteq H
  BY <1>1, <1>4, TypesDeclared DEF CompleteOf
<1>6. ASSUME NEW id \in H PROVE Ids(Needs(Decl(id))) \subseteq H
  <2>1. PICK x \in Refs(merged) : x.id = id /\ Handles(x, reachable, instances, expandedValues)
    OBVIOUS
  <2>2. Decl(id) \in merged.decls /\ x.kind = Decl(id).kind
    BY <2>1, MergedFacts, LeafFacts
  <2>3. CASE x.kind \in {"object", "value"}
    <3>1. id \in expandedValues \cup expandedObjects
      BY <1>3, <2>1, <2>3 DEF Handles
    <3>2. \A y \in LeavesOf(Needs(Decl(id))) : MetBy(y, pending, reachable, instances, expandedValues)
      BY <1>1, <3>1 DEF CompleteOf
    <3> HIDE DEF H
    <3> QED
      BY <1>4, <2>2, <3>2, TypesDeclared
  <2>4. CASE x.kind \notin {"object", "value"}
    <3>1. Decl(id).kind = "enum" /\ DeclShape(Decl(id), {"cpp", "jvm"})
      BY <2>2, <2>4, MergedFacts DEF DeclShape, NamedKinds
    <3>2. Needs(Decl(id)) = {}
      BY <3>1 DEF DeclShape, Needs, Methods, _queue_binding
    <3> HIDE DEF H
    <3> QED
      BY <3>2, LeafFacts
  <2> QED
    BY <2>3, <2>4
<1>7. H \subseteq {d.id : d \in merged.decls}
  <2> SUFFICES ASSUME NEW x \in Refs(merged) PROVE x.id \in {d.id : d \in merged.decls}
    OBVIOUS
  <2>1. PICK d \in merged.decls : x = NamedRef(d.kind, d.id)
    BY RefFacts
  <2> QED
    BY <2>1, LeafFacts
<1>8. LeastSurface \subseteq H
  <2> HIDE DEF H
  <2> QED
    BY <1>5, <1>6, <1>7, SurfaceFacts DEF Closed
<1>9. H \subseteq reachable
  BY <1>1 DEF CompleteOf, Handles
<1>10. reachable = LeastSurface \cup namespaces
  BY <1>1, <1>8, <1>9 DEF SoundOf, CompleteOf
<1>11. ASSUME NEW d \in Objects(merged), d.id \in LeastSurface PROVE d.id \in instances
  <2>1. PICK x \in Refs(merged) : x.id = d.id /\ Handles(x, reachable, instances, expandedValues)
    BY <1>8, <1>11
  <2>2. d \in merged.decls /\ d.kind = "object"
    BY DEF Objects
  <2>3. x.kind = "object"
    BY <2>1, <2>2, MergedFacts, LeafFacts
  <2> QED
    BY <2>1, <2>3 DEF Handles
<1>12. instances = {d.id : d \in Objects(merged)} \cap LeastSurface
  BY <1>1, <1>11 DEF SoundOf
<1>13. ASSUME NEW d \in merged.decls PROVE d \in _reject_unreachable_members <=> d \in Stranded
  <2>1. CASE d.kind = "object"
    <3>1. d.id \in instances <=> d.id \in LeastSurface
      BY <1>12, <2>1 DEF Objects
    <3> QED
      BY <2>1, <3>1 DEF _reject_unreachable_members, Stranded
  <2>2. CASE d.kind = "value"
    <3>1. d.id \notin Spaces
      BY <2>2, MergedFacts DEF Spaces, Objects
    <3>2. d.id \in reachable <=> d.id \in LeastSurface
      BY <1>1, <1>10, <3>1 DEF SoundOf
    <3>3. Methods(d, "instance") = {}
      BY <2>2, MergedFacts DEF DeclShape, Methods
    <3> QED
      BY <2>2, <3>2, <3>3 DEF _reject_unreachable_members, Stranded
  <2>3. CASE d.kind = "enum"
    BY <2>3 DEF _reject_unreachable_members, Stranded
  <2> QED
    BY <2>1, <2>2, <2>3, MergedFacts DEF DeclShape, NamedKinds
<1>14. _reject_unreachable_members \subseteq merged.decls /\ Stranded \subseteq merged.decls
  BY DEF _reject_unreachable_members, Stranded
<1> QED
  BY <1>10, <1>12, <1>13, <1>14

(*--------------------------------- routes -------------------------------*)
(* The types of a family's calls are declared in that family.              *)
LEMMA TypesOfFamily ==
  ASSUME NEW api, _validate_named_references(api)
  PROVE  /\ \A t \in _all_api_types(api) : Leaf(t) \subseteq Refs(api)
         /\ \A c \in api.functions : \A t \in TypesOfCall(c) : Leaf(t) \subseteq Refs(api)
         /\ \A d \in api.decls : \A t \in FieldTypes(d) : Leaf(t) \subseteq Refs(api)
         /\ \A d \in Objects(api) : \A c \in d.methods \cup Constructor(d) :
                \A t \in TypesOfCall(c) : Leaf(t) \subseteq Refs(api)
<1>1. ASSUME NEW t \in _all_api_types(api) PROVE Leaf(t) \subseteq Refs(api)
  BY DEF _validate_named_references, LeavesOf
<1>2. ASSUME NEW c \in api.functions, NEW t \in TypesOfCall(c) PROVE Leaf(t) \subseteq Refs(api)
  <2>1. t \in _all_api_types(api)
    BY DEF _all_api_types
  <2> QED
    BY <1>1, <2>1
<1>3. ASSUME NEW d \in api.decls, NEW t \in FieldTypes(d) PROVE Leaf(t) \subseteq Refs(api)
  BY <1>1, RefFacts
<1>4. ASSUME NEW d \in Objects(api), NEW c \in d.methods \cup Constructor(d), NEW t \in TypesOfCall(c)
      PROVE  Leaf(t) \subseteq Refs(api)
  <2>1. d \in api.decls /\ d.kind = "object"
    BY DEF Objects
  <2>2. ASSUME t \in TypesOfDecl(d) PROVE Leaf(t) \subseteq Refs(api)
    BY <1>1, <2>1, <2>2, RefFacts
  <2>3. CASE c \in d.methods
    BY <2>2, <2>3 DEF TypesOfDecl
  <2>4. CASE c \in Constructor(d)
    <3>1. c.params \in d.ctors /\ c.result = NamedRef("object", d.id)
      BY <2>4, ConstructorFacts
    <3>2. t \in ToSet(c.params) \/ t = NamedRef("object", d.id)
      BY <3>1 DEF TypesOfCall, ToSet
    <3>3. CASE t \in ToSet(c.params)
      BY <2>2, <3>1, <3>3 DEF TypesOfDecl
    <3>4. CASE t = NamedRef("object", d.id)
      BY <2>1, <3>4, LeafFacts DEF Leaf, Refs
    <3> QED
      BY <3>2, <3>3, <3>4
  <2> QED
    BY <2>3, <2>4
<1> QED
  BY <1>1, <1>2, <1>3, <1>4

LEMMA OneFamily ==
  ASSUME NEW api, NEW f, Shape(api, {f}), NEW d \in api.decls
  PROVE  d.fams = {f}
<1>1. DeclShape(d, {f})
  BY DEF Shape
<1>2. d.fams \subseteq {f} /\ d.fams # {}
  BY <1>1 DEF DeclShape
<1> QED
  BY <1>2

(* Within one family every route exists. *)
LEMMA OwnRoutes ==
  ASSUME NEW api, NEW f, Shape(api, {f})
  PROVE  PlanRoutes(api, f)
<1>1. \A d \in api.decls : d.fams = {f}
  BY OneFamily
<1>2. \A t : validate_semantic_route(api, t, f, f)
  BY <1>1 DEF validate_semantic_route
<1> QED
  BY <1>2 DEF PlanRoutes, Routes, RouteOfFields

(* A walk over the merged API that starts in a family stays in it: what a  *)
(* value of the family holds is declared there.                            *)
LEMMA FamilyWalk ==
  ASSUME Agreed, NEW api, NEW f, Shape(api, {f}), _validate_named_references(api),
         \A d \in api.decls : \E m \in merged.decls : Covers(m, d),
         NEW t, Leaf(t) \subseteq Refs(api)
  PROVE  validate_semantic_route(merged, t, f, f)
<1>0. \A d \in api.decls : d.fams = {f}
  BY OneFamily
<1>1. ASSUME NEW x \in Refs(api)
      PROVE  \E m \in merged.decls, d \in api.decls :
                 Covers(m, d) /\ x = NamedRef(d.kind, d.id) /\ x.id = m.id /\ x.kind = m.kind /\ f \in m.fams
  <2>1. PICK d \in api.decls : x = NamedRef(d.kind, d.id)
    BY RefFacts
  <2>2. PICK m \in merged.decls : Covers(m, d)
    OBVIOUS
  <2>3. f \in d.fams
    BY <1>0
  <2> QED
    BY <2>1, <2>2, <2>3, LeafFacts DEF Covers
<1>2. Refs(api) \subseteq Refs(merged)
  BY <1>1 DEF Refs, Covers
<1>3. ASSUME NEW x \in Refs(api) PROVE FieldRefs(merged, x.id) \subseteq Refs(api)
  <2>1. PICK m \in merged.decls, d \in api.decls : Covers(m, d) /\ x.id = m.id
    BY <1>1
  <2>2. {y \in merged.decls : y.id = x.id} = {m}
    BY <2>1, MergedFacts
  <2>3. FieldRefs(merged, x.id) = LeavesOf(FieldTypes(m))
    BY <2>2 DEF FieldRefs
  <2>4. FieldTypes(m) = FieldTypes(d)
    BY <2>1 DEF Covers
  <2>5. LeavesOf(FieldTypes(d)) \subseteq Refs(api)
    BY TypesOfFamily DEF LeavesOf
  <2> QED
    BY <2>3, <2>4, <2>5
<1>4. Met(merged, t) \subseteq Refs(api)
  <2> DEFINE walked == {S \in SUBSET Refs(merged) :
                      /\ Leaf(t) \subseteq S
                      /\ \A x \in S : x.kind = "value" => FieldRefs(merged, x.id) \subseteq S}
  <2>1. Refs(api) \in walked
    BY <1>2, <1>3
  <2> QED
    BY <2>1 DEF Met
<1>5. ASSUME NEW x \in Met(merged, t), NEW d \in merged.decls, d.id = x.id PROVE f \in d.fams
  <2>1. PICK m \in merged.decls : x.id = m.id /\ f \in m.fams
    BY <1>1, <1>4
  <2> QED
    BY <1>5, <2>1, MergedFacts
<1> QED
  BY <1>5 DEF validate_semantic_route

(* So no call of the merged API fails for the routes of its own family.    *)
LEMMA MergedRoutes ==
  ASSUME Agreed, NEW f \in {"cpp", "jvm"}
  PROVE  PlanRoutes(merged, f)
<1> DEFINE api == IF f = "cpp" THEN cpp ELSE jvm
           g == IF f = "cpp" THEN "jvm" ELSE "cpp"
           other == IF f = "cpp" THEN jvm ELSE cpp
<1>1. /\ Shape(api, {f}) /\ Shape(other, {g}) /\ f # g
      /\ _validate_named_references(api)
      /\ merged.functions = api.functions \cup other.functions
      /\ \A d \in api.decls : \E m \in merged.decls : Covers(m, d)
      /\ \A m \in merged.decls : m.kind = "object" => m \in api.decls \cup other.decls
  <2>1. CASE f = "cpp"
    BY <2>1 DEF Agreed, SemanticApiOk
  <2>2. CASE f = "jvm"
    BY <2>2 DEF Agreed, SemanticApiOk
  <2> QED
    BY <2>1, <2>2
<1> HIDE DEF api, g, other
<1>2. \A t : Leaf(t) \subseteq Refs(api) => validate_semantic_route(merged, t, f, f)
  BY <1>1, FamilyWalk
<1>3. \A c \in merged.functions : c.fam = f => c \in api.functions
  BY <1>1 DEF Shape
<1>4. \A d \in Objects(merged) : f \in d.fams => d \in Objects(api)
  <2>1. \A d \in other.decls : d.fams = {g}
    BY <1>1, OneFamily
  <2> QED
    BY <1>1, <2>1 DEF Objects
<1>5. ASSUME NEW d \in Objects(merged), NEW c \in d.methods \cup Constructor(d)
      PROVE  c.fam \in d.fams
  <2>1. d \in merged.decls
    BY DEF Objects
  <2> QED
    BY <2>1, MergedFacts, ConstructorFacts DEF DeclShape
<1>6. ASSUME NEW c \in merged.functions \cup MemberCalls(merged), c.fam = f, NEW t \in TypesOfCall(c)
      PROVE  validate_semantic_route(merged, t, f, f)
  <2>1. CASE c \in merged.functions
    BY <1>1, <1>2, <1>3, <1>6, <2>1, TypesOfFamily
  <2>2. CASE c \in MemberCalls(merged)
    <3>1. PICK d \in Objects(merged) : c \in d.methods \cup Constructor(d)
      BY <2>2 DEF MemberCalls
    <3>2. d \in Objects(api)
      BY <1>4, <1>5, <1>6, <3>1
    <3> QED
      BY <1>1, <1>2, <3>1, <3>2, TypesOfFamily
  <2> QED
    BY <2>1, <2>2
<1>7. Routes(merged, {c \in merged.functions \cup MemberCalls(merged) : c.fam = f}, f, f)
  BY <1>6 DEF Routes, _queue_binding
<1>8. RouteOfFields(merged, f)
  <2> SUFFICES ASSUME NEW d \in Objects(merged), f \in d.fams, NEW t \in FieldTypes(d)
               PROVE  validate_semantic_route(merged, t, f, f)
    BY DEF RouteOfFields
  <2>1. d \in api.decls
    BY <1>4 DEF Objects
  <2> QED
    BY <1>1, <1>2, <2>1, TypesOfFamily
<1> QED
  BY <1>7, <1>8 DEF PlanRoutes

(* The planner of conversions accepts the merged API. *)
LEMMA MergedPlanned ==
  ASSUME Agreed
  PROVE  plan_api_conversion(merged)
<1> DEFINE values == {d \in merged.decls : d.kind = "value"}
           id == [d \in values |-> d.id]
<1>1. IsFiniteSet(values)
  BY FS_Subset DEF Agreed, Shape
<1>2. id \in Surjection(values, ValueIds(merged))
  BY DEF Surjection, ValueIds
<1>3. IsFiniteSet(ValueIds(merged))
  <2> HIDE DEF values, id
  <2> QED
    BY <1>1, <1>2, FS_Surjection
<1> QED
  BY <1>3, PlanAccepts DEF Agreed, SemanticApiOk

(*--------------------------- the invariant ------------------------------*)
LEMMA SurfaceFrozen ==
  ASSUME UNCHANGED <<feature, apis, pending, walk>>
  PROVE  /\ (SoundInv /\ CompleteInv)' <=> (SoundInv /\ CompleteInv)
         /\ _reject_unreachable_members' = _reject_unreachable_members
         /\ _validate_public_names' <=> _validate_public_names
         /\ Stranded' = Stranded
<1>1. merged' = merged
  BY DEF apis
<1>2. Entry' = Entry /\ LeastSurface' = LeastSurface /\ \A id : Decl(id)' = Decl(id)
  BY <1>1, MergedFrozen
<1>3. /\ pending' = pending /\ reachable' = reachable /\ namespaces' = namespaces
      /\ instances' = instances /\ expandedValues' = expandedValues /\ expandedObjects' = expandedObjects
  BY DEF walk
<1>4. Handled' = Handled
  BY <1>1, <1>3 DEF Handled
<1>5. \A T : Known(T)' <=> Known(T)
  BY <1>3, <1>4 DEF Known
<1>6. SoundInv' <=> SoundInv
  BY <1>1, <1>2, <1>3 DEF SoundInv
<1>7. CompleteInv' <=> CompleteInv
  <2>1. Known(Entry)' <=> Known(Entry)
    BY <1>2, <1>3, <1>4 DEF Known
  <2>2. ASSUME NEW id PROVE Known(Needs(Decl(id)))' <=> Known(Needs(Decl(id)))
    BY <1>2, <1>3, <1>4 DEF Known
  <2> QED
    BY <1>3, <2>1, <2>2 DEF CompleteInv
<1>8. _reject_unreachable_members' = _reject_unreachable_members
  BY <1>1, <1>3 DEF _reject_unreachable_members
<1>9. _validate_public_names' <=> _validate_public_names
  BY <1>1, <1>2, <1>3 DEF _validate_public_names
<1>10. Stranded' = Stranded
  BY <1>1, <1>2 DEF Stranded
<1> QED
  BY <1>6, <1>7, <1>8, <1>9, <1>10

LEMMA ApisFrozen ==
  ASSUME ApisInv, UNCHANGED <<feature, apis>>,
         JvmProjected' => JvmProjected, CppProjected' => CppProjected, Merged' => Merged
  PROVE  ApisInv'
<1>1. \A fam : Sources(fam)' = Sources(fam)
  BY DEF Sources
<1>2. cpp' = cpp /\ jvm' = jvm /\ merged' = merged
  BY DEF apis
<1> QED
  BY <1>1, <1>2 DEF ApisInv

LEMMA CheckedFrozen ==
  ASSUME CheckedInv, UNCHANGED <<feature, apis, pending, walk>>, SurfaceClosed' => SurfaceClosed,
         phase' \in {"conversion", "cross_family"} \/ phase \notin {"conversion", "cross_family"}
  PROVE  CheckedInv'
<1>1. (HasJvm /\ feature.native)' <=> (HasJvm /\ feature.native)
  BY DEF HasJvm, Sources
<1>2. internal_jvm_bindings' = internal_jvm_bindings /\ merged' = merged /\ pending' = pending
  BY DEF internal_jvm_bindings, apis
<1> QED
  BY <1>1, <1>2, SurfaceFrozen DEF CheckedInv

LEMMA InitInvariant ==
  FrontendInit => FrontendInv
<1> SUFFICES ASSUME FrontendInit PROVE FrontendInv
  OBVIOUS
<1>1. ~JvmProjected /\ ~CppProjected /\ ~Merged /\ ~Seeded /\ ~SurfaceClosed
  BY DEF FrontendInit, JvmProjected, CppProjected, Merged, Seeded, SurfaceClosed
<1> QED
  BY <1>1 DEF FrontendInit, FrontendInv, ApisInv, CheckedInv, InstalledInv

(* The projections and the merge: each leaves an API that has passed.      *)
LEMMA ProjectStep ==
  ASSUME FrontendInv, ProjectJvm \/ ProjectCpp \/ MergeApis
  PROVE  FrontendInv'
<1> USE DEF JvmProjected, CppProjected, Merged, Seeded, SurfaceClosed
<1>1. /\ feature' = feature /\ feature \in Features
      /\ phase \in {"jvm", "cpp", "merge"} /\ phase' \in {"cpp", "merge", "seed", "rejected"}
      /\ why = "" /\ why' \in {"", "jvm_source", "cpp_source", "merge"}
      /\ phase' # "rejected" => why' = ""
      /\ expandedValues' = {} /\ expandedObjects' = {}
  BY DEF FrontendInv, ProjectJvm, ProjectCpp, MergeApis, Step, walk
<1>2. ~Seeded' /\ ~SurfaceClosed'
  BY <1>1
<1>3. CheckedInv' /\ InstalledInv'
  BY <1>1, <1>2 DEF CheckedInv, InstalledInv
<1>4. \A fam : Sources(fam)' = Sources(fam)
  BY <1>1 DEF Sources
<1>5. ApisInv'
  <2>1. CASE ProjectJvm
    BY <1>4, <2>1 DEF ProjectJvm, Step, ApisInv
  <2>2. CASE ProjectCpp
    BY <1>4, <2>2 DEF ProjectCpp, Step, ApisInv, FrontendInv
  <2>3. CASE MergeApis
    BY <1>4, <2>3 DEF MergeApis, Step, ApisInv, FrontendInv
  <2> QED
    BY <2>1, <2>2, <2>3
<1> QED
  BY <1>1, <1>2, <1>3, <1>5 DEF FrontendInv

(* The roots and the walk. *)
LEMMA SurfaceStep ==
  ASSUME FrontendInv, Seed \/ \E t \in pending : Unwrap(t) \/ VisitValue(t) \/ VisitNamed(t)
  PROVE  FrontendInv'
<1> USE DEF JvmProjected, CppProjected, Merged, Seeded, SurfaceClosed
<1>1. /\ feature' = feature /\ feature \in Features /\ UNCHANGED apis
      /\ phase \in {"seed", "walk"} /\ phase' = "walk" /\ why = "" /\ why' = ""
  BY DEF FrontendInv, Seed, Step, Unwrap, VisitValue, VisitNamed, Walking
<1>2. ApisInv'
  BY <1>1, ApisFrozen DEF FrontendInv
<1>3. Agreed
  BY <1>1, ApisAgree DEF FrontendInv
<1>4. (SoundInv /\ CompleteInv)'
  <2>1. CASE Seed
    <3>1. phase = "seed"
      BY <2>1 DEF Seed, Step
    <3> QED
      BY <1>3, <2>1, <3>1, SeedStep DEF FrontendInv
  <2>2. ASSUME NEW t \in pending, Unwrap(t) \/ VisitValue(t) \/ VisitNamed(t)
        PROVE  (SoundInv /\ CompleteInv)'
    <3>1. phase = "walk"
      BY <2>2 DEF Unwrap, VisitValue, VisitNamed, Walking
    <3> QED
      BY <1>3, <2>2, <3>1, WalkStep DEF FrontendInv
  <2> QED
    BY <2>1, <2>2
<1>5. CheckedInv' /\ InstalledInv'
  BY <1>1 DEF CheckedInv, InstalledInv
<1> QED
  BY <1>1, <1>2, <1>4, <1>5 DEF FrontendInv

(* The surface closes: it is the least one, so what is refused is stranded. *)
LEMMA CloseStep ==
  ASSUME FrontendInv, Close
  PROVE  FrontendInv'
<1> USE DEF JvmProjected, CppProjected, Merged, Seeded, SurfaceClosed
<1>1. /\ feature' = feature /\ feature \in Features /\ UNCHANGED <<feature, apis, pending, walk>>
      /\ phase = "walk" /\ phase' \in {"conversion", "rejected"} /\ why = "" /\ pending = {}
      /\ phase' = "conversion" => _reject_unreachable_members = {} /\ _validate_public_names
                                  /\ why' = ""
      /\ why' \in {"", "unreachable", "names"}
      /\ why' = "unreachable" => _reject_unreachable_members # {}
  BY DEF FrontendInv, Close, Step
<1>2. ApisInv'
  BY <1>1, ApisFrozen DEF FrontendInv
<1>3. Agreed /\ SoundInv /\ CompleteInv
  BY <1>1, ApisAgree DEF FrontendInv
<1>4. (SoundInv /\ CompleteInv)'
  BY <1>1, <1>3, SurfaceFrozen
<1>5. why' = "unreachable" => Stranded' # {}
  BY <1>1, <1>3, SurfaceFrozen, WalkEnds
<1>6. CheckedInv' /\ InstalledInv'
  BY <1>1, SurfaceFrozen DEF CheckedInv, InstalledInv
<1> QED
  BY <1>1, <1>2, <1>4, <1>5, <1>6 DEF FrontendInv

(* The renderers refuse nothing for a type that the checks of the APIs let *)
(* pass.                                                                   *)
LEMMA RenderStep ==
  ASSUME FrontendInv, PlanConversion \/ CrossFamily \/ RenderCpp \/ RenderJvm
  PROVE  FrontendInv'
<1> USE DEF JvmProjected, CppProjected, Merged, Seeded, SurfaceClosed
<1>1. /\ UNCHANGED <<feature, apis, pending, walk>> /\ feature \in Features
      /\ phase \in {"conversion", "cross_family", "render_cpp", "render_jvm"}
      /\ phase' \in {"cross_family", "render_cpp", "render_jvm", "done", "rejected"}
      /\ why = "" /\ SurfaceClosed
  BY DEF FrontendInv, PlanConversion, CrossFamily, RenderCpp, RenderJvm, Step
<1>2. ApisInv'
  BY <1>1, ApisFrozen DEF FrontendInv
<1>3. Agreed /\ SoundInv /\ CompleteInv
  BY <1>1, ApisAgree DEF FrontendInv
<1>4. (SoundInv /\ CompleteInv)'
  BY <1>1, <1>3, SurfaceFrozen
<1>5. /\ why' \in {"", "cross_family"}
      /\ phase' # "rejected" => why' = ""
  <2>1. CASE PlanConversion
    BY <1>1, <1>3, <2>1, MergedPlanned DEF PlanConversion, Step
  <2>2. CASE CrossFamily
    BY <1>1, <1>3, <2>2, MergedRoutes DEF CrossFamily, Step
  <2>3. CASE RenderCpp
    BY <1>1, <1>3, <2>3, OwnRoutes DEF RenderCpp, Step, Agreed
  <2>4. CASE RenderJvm
    BY <1>1, <1>3, <2>4, OwnRoutes DEF RenderJvm, Step, Agreed
  <2> QED
    BY <2>1, <2>2, <2>3, <2>4
<1>6. CheckedInv'
  <2>1. CASE phase' \in {"conversion", "cross_family"} \/ phase \notin {"conversion", "cross_family"}
    BY <1>1, <2>1, CheckedFrozen DEF FrontendInv
  <2>2. CASE phase' \notin {"conversion", "cross_family"} /\ phase \in {"conversion", "cross_family"}
    <3>1. phase' = "rejected" \/ (CrossFamily /\ phase' = "render_cpp")
      BY <2>2 DEF PlanConversion, CrossFamily, RenderCpp, RenderJvm, Step
    <3>2. CASE phase' = "rejected"
      BY <3>2 DEF CheckedInv
    <3>3. CASE CrossFamily /\ phase' = "render_cpp"
      <4>1. IF HasJvm /\ feature.native THEN Routes(merged, internal_jvm_bindings, "cpp", "jvm")
            ELSE \A c \in internal_jvm_bindings : ~Composite(c)
        BY <3>3 DEF CrossFamily, Step
      <4>2. (HasJvm /\ feature.native)' <=> (HasJvm /\ feature.native)
        BY <1>1 DEF HasJvm, Sources
      <4>3. internal_jvm_bindings' = internal_jvm_bindings /\ merged' = merged
        BY <1>1 DEF internal_jvm_bindings, apis
      <4> QED
        BY <1>1, <4>1, <4>2, <4>3, SurfaceFrozen DEF CheckedInv, FrontendInv
    <3> QED
      BY <3>1, <3>2, <3>3
  <2> QED
    BY <2>1, <2>2
<1>7. InstalledInv'
  <2>1. InstalledByCpp' = InstalledByCpp /\ InstalledByJvm' = InstalledByJvm
    BY <1>1 DEF InstalledByCpp, InstalledByJvm, apis
  <2>2. CASE phase' = "render_jvm"
    BY <2>1, <2>2 DEF InstalledInv, PlanConversion, CrossFamily, RenderCpp, RenderJvm, Step, InstalledByCpp
  <2>3. CASE phase' = "done"
    <3>1. phase = "render_jvm" /\ installed' = installed \cup InstalledByJvm
      BY <2>3 DEF PlanConversion, CrossFamily, RenderCpp, RenderJvm, Step, InstalledByJvm
    <3> QED
      BY <2>1, <2>3, <3>1 DEF InstalledInv, FrontendInv
  <2> QED
    BY <1>1, <2>2, <2>3 DEF InstalledInv
<1> QED
  BY <1>1, <1>2, <1>4, <1>5, <1>6, <1>7 DEF FrontendInv

LEMMA StutterStep ==
  ASSUME FrontendInv, UNCHANGED frontendVars
  PROVE  FrontendInv'
<1> USE DEF JvmProjected, CppProjected, Merged, Seeded, SurfaceClosed
<1>1. UNCHANGED <<feature, apis, pending, walk>> /\ phase' = phase /\ why' = why /\ installed' = installed
  BY DEF frontendVars
<1>2. ApisInv'
  BY <1>1, ApisFrozen DEF FrontendInv
<1>3. (Seeded => SoundInv /\ CompleteInv)' /\ (why = "unreachable" => Stranded # {})'
  BY <1>1, SurfaceFrozen DEF FrontendInv
<1>4. CheckedInv'
  <2>1. (HasJvm /\ feature.native)' <=> (HasJvm /\ feature.native)
    BY <1>1 DEF HasJvm, Sources
  <2>2. internal_jvm_bindings' = internal_jvm_bindings /\ merged' = merged /\ pending' = pending
    BY <1>1 DEF internal_jvm_bindings, apis
  <2> QED
    BY <1>1, <2>1, <2>2, SurfaceFrozen DEF CheckedInv, FrontendInv
<1>5. InstalledInv'
  <2>1. InstalledByCpp' = InstalledByCpp /\ InstalledByJvm' = InstalledByJvm
    BY <1>1 DEF InstalledByCpp, InstalledByJvm, apis
  <2> QED
    BY <1>1, <2>1 DEF InstalledInv, FrontendInv
<1>6. expandedValues' = expandedValues /\ expandedObjects' = expandedObjects
  BY <1>1 DEF walk
<1> QED
  BY <1>1, <1>2, <1>3, <1>4, <1>5, <1>6 DEF FrontendInv

(* The pipeline keeps its invariant: every API is what its sources give    *)
(* and has passed its checks, the walk is sound and complete, and what is  *)
(* installed comes from the two families' APIs (generation_service.py      *)
(* _render_package_bindings, reachability.py compute_public_api).          *)
THEOREM FrontendInvariant == FrontendSpec => []FrontendInv
<1>1. FrontendInit => FrontendInv
  BY InitInvariant
<1>2. FrontendInv /\ [FrontendNext]_frontendVars => FrontendInv'
  BY ProjectStep, SurfaceStep, CloseStep, RenderStep, StutterStep DEF FrontendNext
<1> QED
  BY <1>1, <1>2, PTL DEF FrontendSpec

(* The surface is the least closed one in whatever order the types are     *)
(* visited, and a feature is refused for a stranded member exactly when it *)
(* has one (reachability.py compute_public_api).                           *)
THEOREM SurfaceIsClosure == FrontendSpec => []PublicSurfaceIsClosure
<1>1. FrontendInv => PublicSurfaceIsClosure
  <2> SUFFICES ASSUME FrontendInv PROVE PublicSurfaceIsClosure
    OBVIOUS
  <2> USE DEF JvmProjected, CppProjected, Merged, Seeded, SurfaceClosed
  <2>1. ASSUME phase \in {"walk", "done"}, pending = {}
        PROVE  /\ reachable = LeastSurface \cup namespaces
               /\ instances = {d.id : d \in Objects(merged)} \cap LeastSurface
               /\ _reject_unreachable_members = Stranded
    <3>1. Agreed /\ SoundInv /\ CompleteInv
      BY <2>1, ApisAgree DEF FrontendInv
    <3> QED
      BY <2>1, <3>1, WalkEnds
  <2>2. phase = "done" => pending = {} /\ _reject_unreachable_members = {}
    BY DEF FrontendInv, CheckedInv
  <2> QED
    BY <2>1, <2>2 DEF PublicSurfaceIsClosure, FrontendInv
<1> QED
  BY <1>1, FrontendInvariant, PTL

(*-------------------------- what is installed ---------------------------*)
(* The calls of the declarations: functions of the feature, static calls   *)
(* of a namespace, instance methods of an object that something produces.  *)
InSpaces(c) ==
    \E d \in Objects(merged) : d.id \in namespaces /\ c \in Constructor(d) \cup Methods(d, "static")
InInstances(c) ==
    \E d \in Objects(merged) : d.id \in instances /\ c \in Methods(d, "instance")

LEMMA DeclaredCases ==
  ASSUME Agreed, SoundInv, NEW c
  PROVE  c \in Declared <=> c \in PublicFunctions(merged) \/ InSpaces(c) \/ InInstances(c)
<1> DEFINE S == UNION {Constructor(d) \cup Methods(d, "static") : d \in {Decl(id) : id \in namespaces}}
           I == UNION {Methods(d, "instance") : d \in {Decl(id) : id \in instances}}
<1>1. \A id \in namespaces \cup instances : Decl(id) \in Objects(merged) /\ Decl(id).id = id
  BY DeclFacts DEF SoundInv, Objects
<1>2. \A d \in Objects(merged) : Decl(d.id) = d
  BY MergedFacts DEF Objects
<1>3. c \in S <=> InSpaces(c)
  <2>1. c \in S <=> \E id \in namespaces : c \in Constructor(Decl(id)) \cup Methods(Decl(id), "static")
    OBVIOUS
  <2> HIDE DEF S
  <2> QED
    BY <1>1, <1>2, <2>1 DEF InSpaces
<1>4. c \in I <=> InInstances(c)
  <2>1. c \in I <=> \E id \in instances : c \in Methods(Decl(id), "instance")
    OBVIOUS
  <2> HIDE DEF I
  <2> QED
    BY <1>1, <1>2, <2>1 DEF InInstances
<1>5. c \in Declared <=> c \in PublicFunctions(merged) \/ c \in S \/ c \in I
  BY DEF Declared
<1> QED
  BY <1>3, <1>4, <1>5

(* Both renderers install declared calls only. *)
LEMMA InstalledWithin ==
  ASSUME Agreed, SoundInv, _reject_unreachable_members = {}
  PROVE  InstalledByCpp \cup InstalledByJvm \subseteq Declared
<1>1. PublicFunctions(cpp) \cup PublicFunctions(jvm) \subseteq Declared
  BY DeclaredCases DEF PublicFunctions, Agreed
<1>2. ASSUME NEW d \in Objects(cpp) \cup Objects(jvm),
             NEW c \in Constructor(d) \cup {m \in d.methods : m.public}
      PROVE  c \in Declared
  <2>1. d \in cpp.decls \cup jvm.decls /\ d.kind = "object"
    BY DEF Objects
  <2>2. d \in merged.decls
    BY <2>1 DEF Agreed, Covers
  <2>3. d \in Objects(merged)
    BY <2>1, <2>2 DEF Objects
  <2>4. CASE c \in Constructor(d)
    <3>1. d.ctors # {}
      BY <2>4, ConstructorFacts
    <3>2. d.id \in namespaces
      BY <2>3, <3>1 DEF SoundInv
    <3> QED
      BY <2>3, <2>4, <3>2, DeclaredCases DEF InSpaces
  <2>5. CASE c \in d.methods /\ c.public /\ c.scope = "static"
    <3>1. c \in Methods(d, "static")
      BY <2>5 DEF Methods
    <3>2. d.id \in namespaces
      BY <2>3, <3>1 DEF SoundInv
    <3> QED
      BY <2>3, <3>1, <3>2, DeclaredCases DEF InSpaces
  <2>6. CASE c \in d.methods /\ c.public /\ c.scope = "instance"
    <3>1. c \in Methods(d, "instance")
      BY <2>6 DEF Methods
    <3>2. d.id \in instances
      BY <2>1, <2>2, <3>1 DEF _reject_unreachable_members
    <3> QED
      BY <2>3, <3>1, <3>2, DeclaredCases DEF InInstances
  <2>7. \A m \in d.methods : m.scope \in {"static", "instance"}
    BY <2>2, MergedFacts DEF DeclShape
  <2> QED
    BY <2>4, <2>5, <2>6, <2>7
<1>3. ObjectCalls(cpp) \cup ObjectCalls(jvm) \subseteq Declared
  BY <1>2 DEF ObjectCalls
<1> QED
  BY <1>1, <1>3 DEF InstalledByCpp, InstalledByJvm, plan_cpp_routes, plan_jvm_routes, scalar_functions

(* No two declared calls take one slot: the names of functions and of the  *)
(* members of one object are distinct, and create is reserved where there  *)
(* is a constructor.                                                       *)
LEMMA DeclaredDistinct ==
  ASSUME Agreed, SoundInv, _validate_public_names
  PROVE  DistinctBy(Declared, Slot)
<1> SUFFICES ASSUME NEW x \in Declared, NEW y \in Declared,
                    x.scope = y.scope, x.owner = y.owner, x.name = y.name
             PROVE  x = y
  BY DEF DistinctBy, Slot
<1>1. \A c \in PublicFunctions(merged) : c.scope = "top"
  BY DEF PublicFunctions, Agreed, Shape
<1>2. \A d \in Objects(merged) : \A c \in Constructor(d) \cup Methods(d, "static") :
          c.scope = "static" /\ c.owner = d.id
  <2>1. ASSUME NEW d \in Objects(merged), NEW c \in Methods(d, "static")
        PROVE  c.scope = "static" /\ c.owner = d.id
    BY MergedFacts DEF Objects, Methods, DeclShape
  <2> QED
    BY <2>1, ConstructorFacts
<1>3. \A d \in Objects(merged) : \A c \in Methods(d, "instance") : c.scope = "instance" /\ c.owner = d.id
  BY MergedFacts DEF Objects, Methods, DeclShape
<1>4. \A d, e \in Objects(merged) : d.id = e.id => d = e
  BY MergedFacts DEF Objects
<1>5. ASSUME NEW d \in Objects(merged), NEW m \in d.methods, NEW k \in d.methods,
             m.scope = k.scope, m.name = k.name, m.scope \in {"static", "instance"}
      PROVE  m = k
  <2>1. SemanticDeclarationOk(d) /\ d.kind = "object"
    BY DEF Agreed, SemanticApiOk, Objects
  <2> QED
    BY <1>5, <2>1 DEF SemanticDeclarationOk, DistinctBy, CallName
<1>6. CASE x \in PublicFunctions(merged) /\ y \in PublicFunctions(merged)
  BY <1>6 DEF Agreed, SemanticApiOk, DistinctBy, CallName, PublicFunctions
<1>7. CASE InInstances(x) /\ InInstances(y)
  <2>1. PICK d \in Objects(merged) : x \in Methods(d, "instance") /\ y \in Methods(d, "instance")
    BY <1>3, <1>4, <1>7 DEF InInstances
  <2> QED
    BY <1>5, <2>1 DEF Methods
<1>8. CASE InSpaces(x) /\ InSpaces(y)
  <2>1. PICK d \in Objects(merged) : /\ d.id \in namespaces
                                     /\ x \in Constructor(d) \cup Methods(d, "static")
                                     /\ y \in Constructor(d) \cup Methods(d, "static")
    BY <1>2, <1>4, <1>8 DEF InSpaces
  <2>2. Decl(d.id) = d /\ DeclShape(d, {"cpp", "jvm"})
    BY MergedFacts DEF Objects
  <2>3. ASSUME NEW c \in Constructor(d), NEW m \in Methods(d, "static"), m.name = c.name PROVE FALSE
    <3>1. d.ctors # {} /\ m.name = "create"
      BY <2>3, ConstructorFacts
    <3>2. {k.name : k \in Methods(d, "static")}
             \cap ({"is", "check"} \cup (IF d.ctors # {} THEN {"create"} ELSE {})) = {}
      BY <2>1, <2>2 DEF _validate_public_names
    <3> QED
      BY <3>1, <3>2
  <2>4. ASSUME NEW b \in Constructor(d), NEW c \in Constructor(d) PROVE b = c
    <3>1. d.kind = "object"
      BY DEF Objects
    <3>2. (\A f, g \in d.fams : f = g) /\ (\A p, q \in d.ctors : p = q)
      BY <2>2, <3>1 DEF DeclShape
    <3> QED
      BY <3>2, ConstructorFacts
  <2>5. CASE x \in Methods(d, "static") /\ y \in Methods(d, "static")
    BY <1>5, <2>5 DEF Methods
  <2> QED
    BY <2>1, <2>3, <2>4, <2>5
<1> QED
  BY <1>1, <1>2, <1>3, <1>6, <1>7, <1>8, DeclaredCases DEF InSpaces, InInstances

(* A declared call has its route. *)
LEMMA DeclaredRouted ==
  ASSUME Agreed, SoundInv, NEW c \in Declared
  PROVE  Routes(merged, {c}, c.fam, c.fam)
<1>1. c \in merged.functions \cup MemberCalls(merged)
  <2>1. CASE c \in PublicFunctions(merged)
    BY <2>1 DEF PublicFunctions
  <2>2. CASE InSpaces(c) \/ InInstances(c)
    BY <2>2 DEF InSpaces, InInstances, Methods, MemberCalls
  <2> QED
    BY <2>1, <2>2, DeclaredCases
<1>2. c.fam \in {"cpp", "jvm"}
  <2>1. CASE c \in merged.functions
    BY <2>1 DEF Agreed, Shape
  <2>2. ASSUME NEW d \in Objects(merged), c \in d.methods \cup Constructor(d)
        PROVE  c.fam \in {"cpp", "jvm"}
    <3>1. DeclShape(d, {"cpp", "jvm"})
      BY MergedFacts DEF Objects
    <3>2. c.fam \in d.fams
      BY <2>2, <3>1, ConstructorFacts DEF DeclShape
    <3> QED
      BY <3>1, <3>2 DEF DeclShape
  <2> QED
    BY <1>1, <2>1, <2>2 DEF MemberCalls
<1>3. Routes(merged, {k \in merged.functions \cup MemberCalls(merged) : k.fam = c.fam}, c.fam, c.fam)
  BY <1>2, MergedRoutes DEF PlanRoutes
<1> QED
  BY <1>1, <1>3 DEF Routes, _queue_binding

(* Whatever the two renderers install is declared, takes its own slot and  *)
(* has its routes, and no feature fails for its types once its API has     *)
(* passed (generation_service.py _render_package_bindings).                *)
THEOREM InstalledDeclared == FrontendSpec => []InstalledIsDeclared
<1>1. FrontendInv => InstalledIsDeclared
  <2> SUFFICES ASSUME FrontendInv PROVE InstalledIsDeclared
    OBVIOUS
  <2>1. why \notin {"conversion", "routes"}
    BY DEF FrontendInv
  <2>2. ASSUME phase = "done"
        PROVE  /\ installed \subseteq Declared
               /\ DistinctBy(installed, Slot)
               /\ \A c \in installed : Routes(merged, {c}, c.fam, c.fam)
               /\ \A c \in internal_jvm_bindings : Composite(c) => Routes(merged, {c}, "cpp", "jvm")
    <3> USE DEF JvmProjected, CppProjected, Merged, Seeded, SurfaceClosed
    <3>1. Agreed /\ SoundInv /\ _reject_unreachable_members = {} /\ _validate_public_names
      BY <2>2, ApisAgree DEF FrontendInv, CheckedInv
    <3>2. installed \subseteq Declared
      BY <2>2, <3>1, InstalledWithin DEF FrontendInv, InstalledInv
    <3>3. DistinctBy(installed, Slot)
      BY <3>1, <3>2, DeclaredDistinct DEF DistinctBy
    <3>4. \A c \in installed : Routes(merged, {c}, c.fam, c.fam)
      BY <3>1, <3>2, DeclaredRouted
    <3>5. IF HasJvm /\ feature.native THEN Routes(merged, internal_jvm_bindings, "cpp", "jvm")
          ELSE \A c \in internal_jvm_bindings : ~Composite(c)
      BY <2>2 DEF FrontendInv, CheckedInv
    <3>6. \A c \in internal_jvm_bindings : Composite(c) => Routes(merged, {c}, "cpp", "jvm")
      BY <3>5 DEF Routes, _queue_binding
    <3> QED
      BY <3>2, <3>3, <3>4, <3>6
  <2> QED
    BY <2>1, <2>2 DEF InstalledIsDeclared
<1> QED
  BY <1>1, FrontendInvariant, PTL
=============================================================================
