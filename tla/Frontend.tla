------------------------------- MODULE Frontend -------------------------------
(***************************************************************************)
(* The generation of one feature's bindings, from its marked sources to    *)
(* what its two renderers install.  Three views of the API are computed    *)
(* and must agree: each family's own (what its renderer installs), the     *)
(* merged one, and the public surface of the merged one (what index.d.ts   *)
(* declares).  The public surface is a worklist over the types; the queue  *)
(* is a set here, popped in any order, since the order in which a source   *)
(* lists its declarations is no property of it.                            *)
(***************************************************************************)
EXTENDS SemanticModel

CONSTANT Features   \* [sources, native]: native is the presence of the C++ root

(* What the scanners deliver: finitely many sources of two families; an    *)
(* enum has constants only.                                                *)
ASSUME FeaturesAssumption ==
    \A f \in Features :
        /\ IsFiniteSet(f.sources)
        /\ \A s \in f.sources :
              /\ s.fam \in {"cpp", "jvm"}
              /\ s.kind \in NamedKinds \cup {"owner", "free"}
              /\ s.kind = "enum" => s.fields = <<>> /\ s.ctors = {} /\ s.calls = {}

VARIABLES
    feature,
    phase,            \* the next step of the pipeline, "done" or "rejected"
    why,              \* what refused the feature
    cpp, jvm, merged, \* the semantic APIs
    pending, reachable, namespaces, instances, expandedValues, expandedObjects,
    installed         \* the calls the generated code registers for JavaScript

apis == <<cpp, jvm, merged>>
walk == <<reachable, namespaces, instances, expandedValues, expandedObjects>>
frontendVars == <<feature, phase, why, apis, pending, walk, installed>>

Sources(fam) == {s \in feature.sources : s.fam = fam}
HasJvm == Sources("jvm") # {}

FrontendInit ==
    /\ feature \in Features
    /\ phase = "jvm" /\ why = ""
    /\ cpp = NoApi /\ jvm = NoApi /\ merged = NoApi
    /\ pending = {} /\ reachable = {} /\ namespaces = {} /\ instances = {}
    /\ expandedValues = {} /\ expandedObjects = {} /\ installed = {}

(* A step passes to the next one, or refuses the feature and says why. *)
Step(from, to, ok, reason) ==
    /\ phase = from
    /\ \/ ok /\ phase' = to /\ why' = why
       \/ ~ok /\ phase' = "rejected" /\ why' = reason
    /\ UNCHANGED feature

(*------------------------- the three semantic APIs ----------------------*)
ProjectJvm ==
    /\ jvm' = project_jvm_owners(Sources("jvm"))
    /\ Step("jvm", "cpp", JvmAccepted(Sources("jvm"), jvm'), "jvm_source")
    /\ UNCHANGED <<cpp, merged, pending, walk, installed>>

ProjectCpp ==
    /\ cpp' = project_cpp_api(Sources("cpp"))
    /\ Step("cpp", "merge", CppAccepted(Sources("cpp"), cpp'), "cpp_source")
    /\ UNCHANGED <<jvm, merged, pending, walk, installed>>

MergeApis ==
    /\ merged' = merge_semantic_apis(cpp, jvm)
    /\ Step("merge", "seed", MergeAccepted(cpp, jvm, merged'), "merge")
    /\ UNCHANGED <<cpp, jvm, pending, walk, installed>>

(*--------------------------- the public surface -------------------------*)
Objects(api) == {d \in api.decls : d.kind = "object"}
PublicFunctions(api) == {c \in api.functions : c.public}
Methods(d, scope) == {c \in d.methods : c.public /\ c.scope = scope}
Decl(id) == CHOOSE d \in merged.decls : d.id = id

(* A constructor is a call too: T.create. *)
Constructor(d) ==
    {[id |-> <<f, "object", d.id, "constructor">>, fam |-> f, via |-> "object",
      owner |-> d.id, scope |-> "static", name |-> "create", public |-> TRUE,
      params |-> p, result |-> NamedRef("object", d.id)] : f \in d.fams, p \in d.ctors}

_queue_binding(calls) == UNION {TypesOfCall(c) : c \in calls}

(* Roots: the exported functions, and the constructors and exported static *)
(* methods of the objects.  An object with static methods only is a        *)
(* namespace: its instance members wait for something that produces one.   *)
Seed ==
    LET built == {d \in Objects(merged) : d.ctors # {}}
        spaces == built \cup {d \in Objects(merged) : Methods(d, "static") # {}}
        roots == PublicFunctions(merged)
                     \cup UNION {Constructor(d) \cup Methods(d, "static") : d \in spaces}
    IN /\ Step("seed", "walk", TRUE, "")
       /\ pending' = _queue_binding(roots)
       /\ namespaces' = {d.id : d \in spaces}
       /\ reachable' = namespaces'
       /\ instances' = {d.id : d \in built}
       /\ UNCHANGED <<apis, expandedValues, expandedObjects, installed>>

(* Mutant: the fields of an object are not expanded with its methods. *)
MethodsOnly(ids) == UNION {_queue_binding(Methods(Decl(id), "instance")) : id \in ids}
InstanceMembers(ids) ==
    UNION {_queue_binding(Methods(Decl(id), "instance")) \cup FieldTypes(Decl(id)) : id \in ids}

Walking(t) == phase = "walk" /\ t \in pending /\ UNCHANGED <<feature, phase, why, apis, installed>>

(* A wrapper leads to what it wraps; void and a scalar lead nowhere. *)
Unwrap(t) ==
    /\ Walking(t)
    /\ \/ /\ t.wraps # <<>>
          /\ pending' = (pending \ {t}) \cup {[Type(t.kind, t.id) EXCEPT !.wraps = Tail(t.wraps)]}
       \/ /\ t.wraps = <<>> /\ t.kind \in {"void", "scalar"}
          /\ pending' = pending \ {t}
    /\ UNCHANGED walk

VisitValue(t) ==
    /\ Walking(t) /\ t.wraps = <<>> /\ t.kind = "value"
    /\ reachable' = reachable \cup {t.id}
    /\ expandedValues' = expandedValues \cup {t.id}
    /\ IF t.id \in expandedValues
       THEN /\ pending' = pending \ {t}
            /\ UNCHANGED expandedObjects
       ELSE /\ pending' = (pending \ {t}) \cup FieldTypes(Decl(t.id))
                              \cup InstanceMembers(instances \ expandedObjects)
            /\ expandedObjects' = instances
    /\ UNCHANGED <<namespaces, instances>>

VisitNamed(t) ==
    /\ Walking(t) /\ t.wraps = <<>> /\ t.kind \in {"object", "enum"}
    /\ reachable' = reachable \cup {t.id}
    /\ instances' = IF t.kind = "object" THEN instances \cup {t.id} ELSE instances
    /\ pending' = (pending \ {t}) \cup InstanceMembers(instances' \ expandedObjects)
    /\ expandedObjects' = instances'
    /\ UNCHANGED <<namespaces, expandedValues>>

_reject_unreachable_members ==
    {d \in merged.decls :
        \/ d.kind = "value" /\ d.id \notin reachable /\ d.fields # <<>>
        \/ /\ d.kind = "object" /\ d.id \notin instances
           /\ Methods(d, "instance") # {} \/ d.fields # <<>>}

(* Names the generated TypeScript uses for itself. *)
generated_type_names == {"SupernoteError"}

_validate_public_names ==
    /\ {c.name : c \in PublicFunctions(merged)} \cap reachable = {}
    /\ reachable \cap generated_type_names = {}
    /\ \A id \in namespaces :
           {m.name : m \in Methods(Decl(id), "static")}
             \cap ({"is", "check"} \cup (IF Decl(id).ctors # {} THEN {"create"} ELSE {})) = {}

Close ==
    /\ pending = {}
    /\ Step("walk", "conversion",
            _reject_unreachable_members = {} /\ _validate_public_names,
            IF _reject_unreachable_members # {} THEN "unreachable" ELSE "names")
    /\ UNCHANGED <<apis, pending, walk, installed>>

(*------------------------------- rendering ------------------------------*)
PlanConversion ==
    /\ Step("conversion", "cross_family", plan_api_conversion(merged), "conversion")
    /\ UNCHANGED <<apis, pending, walk, installed>>

Routes(api, calls, source, target) ==
    \A t \in _queue_binding(calls) : validate_semantic_route(api, t, source, target)
MemberCalls(api) == UNION {d.methods \cup Constructor(d) : d \in Objects(api)}
RouteOfFields(api, fam) ==
    \A d \in Objects(api) : \A t \in FieldTypes(d) :
        fam \in d.fams => validate_semantic_route(api, t, fam, fam)

(* Every call of one family, hidden ones included. *)
PlanRoutes(api, fam) ==
    /\ Routes(api, {c \in api.functions \cup MemberCalls(api) : c.fam = fam}, fam, fam)
    /\ RouteOfFields(api, fam)

Composite(c) == \E t \in TypesOfCall(c) : t.wraps # <<>> \/ t.kind \notin {"void", "scalar"}
internal_jvm_bindings == {c \in merged.functions : c.fam = "jvm" /\ ~c.public}

(* C++ calls a hidden JVM function through a facade: its types must exist   *)
(* on both sides.  Without a C++ root the facade knows scalars only.        *)
CrossFamily ==
    LET both == HasJvm /\ feature.native
        planned == both => PlanRoutes(merged, "cpp") /\ PlanRoutes(merged, "jvm")
    IN /\ Step("cross_family", "render_cpp",
               /\ planned
               /\ both => Routes(merged, internal_jvm_bindings, "cpp", "jvm")
               /\ ~both => \A c \in internal_jvm_bindings : ~Composite(c),
               IF planned THEN "cross_family" ELSE "routes")
       /\ UNCHANGED <<apis, pending, walk, installed>>

ObjectCalls(api) ==
    UNION {Constructor(d) \cup {m \in d.methods : m.public} : d \in Objects(api)}

(* The C++ renderer works from the C++ API alone.  A method of an unmarked *)
(* class has no route.                                                     *)
plan_cpp_routes(api) == {c \in PublicFunctions(api) : c.via = "free"}
RenderCpp ==
    /\ Step("render_cpp", "render_jvm", PlanRoutes(cpp, "cpp"), "routes")
    /\ installed' = plan_cpp_routes(cpp) \cup ObjectCalls(cpp)
    /\ UNCHANGED <<apis, pending, walk>>

(* The JVM one from the JVM API alone: composite calls get a route unless   *)
(* they need an owner, scalar ones are rendered one by one.                 *)
plan_jvm_routes(api) == {c \in PublicFunctions(api) : Composite(c) /\ c.via # "owner"}
scalar_functions(api) == {c \in PublicFunctions(api) : ~Composite(c)}
RenderJvm ==
    /\ Step("render_jvm", "done", PlanRoutes(jvm, "jvm"), "routes")
    /\ installed' = installed \cup plan_jvm_routes(jvm) \cup scalar_functions(jvm)
                              \cup ObjectCalls(jvm)
    /\ UNCHANGED <<apis, pending, walk>>

FrontendNext ==
    \/ ProjectJvm \/ ProjectCpp \/ MergeApis
    \/ Seed \/ Close
    \/ \E t \in pending : Unwrap(t) \/ VisitValue(t) \/ VisitNamed(t)
    \/ PlanConversion \/ CrossFamily \/ RenderCpp \/ RenderJvm

FrontendSpec == FrontendInit /\ [][FrontendNext]_frontendVars

(*------------------------------- properties -----------------------------*)
(* Ids that a set of types names. *)
Ids(types) == {t.id : t \in LeavesOf(types)}

(* What JavaScript can reach: the least set of types that holds those of    *)
(* every root and, with a type, those of its fields and, when it is an      *)
(* object, of its exported instance methods.                                *)
Entry == _queue_binding(PublicFunctions(merged)
                            \cup UNION {Constructor(d) \cup Methods(d, "static") : d \in Objects(merged)})
Needs(d) == FieldTypes(d) \cup _queue_binding(Methods(d, "instance"))
Closed(S) == Ids(Entry) \subseteq S /\ \A id \in S : Ids(Needs(Decl(id))) \subseteq S
LeastSurface ==
    LET all == {d.id : d \in merged.decls}
    IN {id \in all : \A S \in SUBSET all : Closed(S) => id \in S}

(* A declaration with members that nothing on the surface leads to. *)
Stranded == {d \in merged.decls : d.id \notin LeastSurface /\ d.kind # "enum"
                                    /\ (d.fields # <<>> \/ Methods(d, "instance") # {})}

(* Whatever the order of the declarations, the surface is the least closed *)
(* one: the types it leads to and the objects that are namespaces, with    *)
(* instances exactly for the objects that something produces.  A feature   *)
(* with a stranded member is refused, and that verdict is given for no     *)
(* other one (reachability.py compute_public_api).                         *)
PublicSurfaceIsClosure ==
    /\ (phase = "walk" /\ pending = {}) =>
         /\ reachable = LeastSurface \cup namespaces
         /\ instances = {d.id : d \in Objects(merged)} \cap LeastSurface
    /\ why = "unreachable" => Stranded # {}
    /\ phase = "done" => Stranded = {}

(* What index.d.ts declares. *)
Declared == PublicFunctions(merged)
    \cup (UNION {Constructor(d) \cup Methods(d, "static") : d \in {Decl(id) : id \in namespaces}})
    \cup (UNION {Methods(d, "instance") : d \in {Decl(id) : id \in instances}})
Slot(c) == <<c.scope, c.owner, c.name>>

(* The renderers see each family alone, the declarations the merged API:    *)
(* whatever they install is declared with the same types, no two calls take *)
(* one name, every type of it exists in the family that converts it, and no *)
(* feature that passed the checks of its API fails later for its types      *)
(* (generation_service.py _render_package_bindings).                        *)
InstalledIsDeclared ==
    /\ why \notin {"conversion", "routes"}
    /\ phase = "done" =>
         /\ installed \subseteq Declared
         /\ DistinctBy(installed, Slot)
         /\ \A c \in installed : Routes(merged, {c}, c.fam, c.fam)
         /\ \A c \in internal_jvm_bindings : Composite(c) => Routes(merged, {c}, "cpp", "jvm")

(* "The route renderer owns every public C++ function" and its JVM twin: a  *)
(* call the TypeScript declares is installed.                               *)
DeclaredIsInstalled == phase = "done" => Declared \subseteq installed

(*--------------------------- inductive invariant ------------------------*)
(* Which steps of the pipeline have passed. *)
JvmProjected == phase \notin {"jvm", "rejected"}
CppProjected == JvmProjected /\ phase # "cpp"
Merged == CppProjected /\ phase # "merge"
Seeded == Merged /\ phase # "seed"
SurfaceClosed == Seeded /\ phase # "walk"

(* Each API is what its sources give, and has passed its checks. *)
ApisInv ==
    /\ JvmProjected => /\ jvm = project_jvm_owners(Sources("jvm"))
                       /\ JvmAccepted(Sources("jvm"), jvm)
    /\ CppProjected => /\ cpp = project_cpp_api(Sources("cpp"))
                       /\ CppAccepted(Sources("cpp"), cpp)
    /\ Merged => merged = merge_semantic_apis(cpp, jvm) /\ MergeAccepted(cpp, jvm, merged)

(* What waits and what has been visited lies in every closed set. *)
SoundInv ==
    /\ LeavesOf(pending) \subseteq Refs(merged)
    /\ expandedValues \subseteq {d.id : d \in {x \in merged.decls : x.kind = "value"}}
    /\ instances \subseteq {d.id : d \in Objects(merged)}
    /\ namespaces = {d.id : d \in {x \in Objects(merged) :
                                     x.ctors # {} \/ Methods(x, "static") # {}}}
    /\ reachable \subseteq LeastSurface \cup namespaces
    /\ Ids(pending) \cup instances \cup expandedValues \subseteq LeastSurface

(* A reference that the walk has met is handled or waits. *)
Handled == {x \in Refs(merged) :
               x.id \in (CASE x.kind = "object" -> instances
                          [] x.kind = "value" -> expandedValues
                          [] OTHER -> reachable)}
Known(types) == LeavesOf(types) \subseteq Handled \cup LeavesOf(pending)
CompleteInv ==
    /\ Known(Entry)
    /\ \A id \in expandedValues \cup expandedObjects : Known(Needs(Decl(id)))
    /\ \A id \in instances \ expandedObjects : NamedRef("object", id) \in LeavesOf(pending)
    /\ instances \cup expandedValues \cup namespaces \subseteq reachable
    /\ expandedObjects \subseteq instances

(* What Close and CrossFamily have checked. *)
CheckedInv ==
    /\ SurfaceClosed => /\ pending = {} /\ _reject_unreachable_members = {}
                        /\ _validate_public_names
    /\ (SurfaceClosed /\ phase \notin {"conversion", "cross_family"}) =>
          IF HasJvm /\ feature.native THEN Routes(merged, internal_jvm_bindings, "cpp", "jvm")
          ELSE \A c \in internal_jvm_bindings : ~Composite(c)

InstalledByCpp == plan_cpp_routes(cpp) \cup ObjectCalls(cpp)
InstalledByJvm == plan_jvm_routes(jvm) \cup scalar_functions(jvm) \cup ObjectCalls(jvm)
InstalledInv ==
    /\ phase = "render_jvm" => installed = InstalledByCpp
    /\ phase = "done" => installed = InstalledByCpp \cup InstalledByJvm

FrontendInv ==
    /\ feature \in Features /\ ApisInv
    /\ phase \in {"jvm", "cpp", "merge", "seed"} => expandedValues = {} /\ expandedObjects = {}
    /\ Seeded => SoundInv /\ CompleteInv
    /\ CheckedInv /\ InstalledInv
    /\ (phase # "rejected" => why = "") /\ why \notin {"conversion", "routes"}
    /\ why = "unreachable" => Stranded # {}
==============================================================================
