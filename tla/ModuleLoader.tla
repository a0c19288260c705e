---------------------------- MODULE ModuleLoader ----------------------------
(***************************************************************************)
(* The React Native module of a plugin (SupernoteModule.kt) and the native *)
(* bootstrap that it loads.  Several module instances live in one process: *)
(* every reload of a plugin is a new instance with a class loader of its   *)
(* own.  initialize copies the native library under a new name, reserves   *)
(* one of a limited number of generations in the system properties, loads  *)
(* the copy, registers its natives, and posts the installation of the      *)
(* bindings to the JavaScript queue; invalidate may come at any time.      *)
(***************************************************************************)
EXTENDS Naturals, FiniteSets

CONSTANTS Modules,
          Binary,            \* the content (hash) of each instance's library
          MaxGenerations     \* MAX_RETAINED_GENERATIONS

ASSUME LoaderAssumption == MaxGenerations \in Nat

VARIABLES
    lifecycle,     \* lifecycleState of each module
    loading,       \* where initialize of each module is
    queued,        \* modules with an installation on the JavaScript queue
    propertyLock,  \* who is in synchronized(System.getProperties())
    generations,   \* the generation ids reserved
    resident,      \* the generations whose library is in the process
    request,       \* the load-request property
    registrar,     \* the registrar property
    published,     \* the generation cached for a binary
    session        \* the runtime session of each module

loaderVars == <<lifecycle, loading, queued, propertyLock, generations, resident, request,
                registrar, published, session>>

None == 0
Binaries == {Binary[m] : m \in Modules}

ModuleLoaderInit ==
    /\ lifecycle = [m \in Modules |-> "NEW"] /\ loading = [m \in Modules |-> "idle"]
    /\ queued = {} /\ propertyLock = {} /\ generations = {} /\ resident = {}
    /\ request = None /\ registrar = None
    /\ published = [b \in Binaries |-> None]
    /\ session = [m \in Modules |-> "none"]

GoTo(m, at) == loading' = [loading EXCEPT ![m] = at]
SetLifecycle(m, state) == lifecycle' = [lifecycle EXCEPT ![m] = state]
(* A failed load or install may be tried again, unless invalidate came. *)
Abandon(m) ==
    SetLifecycle(m, IF lifecycle[m] = "INSTALL_PENDING" THEN "NEW" ELSE lifecycle[m])
Properties == <<propertyLock, generations, resident, request, registrar, published>>

Initialize(m) ==
    /\ lifecycle[m] = "NEW" /\ loading[m] = "idle"
    /\ SetLifecycle(m, "INSTALL_PENDING") /\ GoTo(m, "copied")
    /\ UNCHANGED <<queued, session>> /\ UNCHANGED Properties

(* Finding, copying or hashing the library fails, or the limit is reached. *)
LoadRefused(m) ==
    /\ loading[m] = "copied"
    /\ GoTo(m, "idle") /\ Abandon(m)
    /\ UNCHANGED <<queued, session>> /\ UNCHANGED Properties

(* An unchanged library: the natives of its generation, registered again   *)
(* for this class loader, or not.                                          *)
LoadCached(m) ==
    /\ loading[m] = "copied" /\ propertyLock = {} /\ published[Binary[m]] # None
    /\ \/ GoTo(m, "loaded") /\ UNCHANGED lifecycle
       \/ GoTo(m, "idle") /\ Abandon(m)
    /\ UNCHANGED <<queued, session>> /\ UNCHANGED Properties

Next1 == Cardinality(generations) + 1
(* Mutant: the slot is reserved when the library has registered. *)
ReservedLate(m) ==
    /\ request' = Cardinality(resident) + 1 /\ UNCHANGED generations
(* Reserve monotonically before loading. *)
Reserved(m) ==
    /\ request' = Next1 /\ generations' = generations \cup {Next1}
Reserve(m) ==
    /\ loading[m] = "copied" /\ propertyLock = {} /\ published[Binary[m]] = None
    /\ Cardinality(generations) < MaxGenerations
    /\ Reserved(m)
    /\ propertyLock' = {m} /\ registrar' = None /\ GoTo(m, "reserved")
    /\ UNCHANGED <<lifecycle, queued, resident, published, session>>

(* SoLoader.loadLibrary: JNI_OnLoad publishes the registrar of the         *)
(* generation that is asked for, or cannot; a library whose JNI_OnLoad     *)
(* failed may stay in the process.                                         *)
OnLoad(m) ==
    /\ loading[m] = "reserved"
    /\ \/ registrar' = request /\ resident' = resident \cup {request} /\ GoTo(m, "published")
       \/ resident' \in {resident, resident \cup {request}} /\ UNCHANGED registrar /\ GoTo(m, "failed")
    /\ UNCHANGED <<lifecycle, queued, propertyLock, generations, request, published, session>>

(* The publication names the generation asked for; its natives are         *)
(* registered for the class loader and it is cached, or that fails.        *)
Register(m) ==
    /\ loading[m] = "published"
    /\ \/ /\ registrar = request
          /\ generations' = generations \cup {request}
          /\ published' = [published EXCEPT ![Binary[m]] = registrar]
          /\ GoTo(m, "loaded") /\ request' = None /\ propertyLock' = {}
       \/ GoTo(m, "failed") /\ UNCHANGED <<published, request, propertyLock, generations>>
    /\ UNCHANGED <<lifecycle, queued, resident, registrar, session>>
LoadFailed(m) ==
    /\ loading[m] = "failed"
    /\ GoTo(m, "idle") /\ Abandon(m) /\ request' = None /\ propertyLock' = {}
    /\ UNCHANGED <<queued, generations, resident, registrar, published, session>>

PostInstall(m) ==
    /\ loading[m] = "loaded" /\ GoTo(m, "idle") /\ queued' = queued \cup {m}
    /\ UNCHANGED <<lifecycle, session>> /\ UNCHANGED Properties

(* Mutant: the state is not looked at again on the JavaScript queue. *)
MayInstallUnchecked(m) == TRUE
MayInstall(m) == lifecycle[m] = "INSTALL_PENDING"
(* On the JavaScript queue: no runtime pointer, loader or call invoker;    *)
(* not pending any more; or nativeInstall, which fails or opens a session. *)
Install(m) ==
    /\ m \in queued /\ queued' = queued \ {m}
    /\ \/ Abandon(m) /\ UNCHANGED session
       \/ ~MayInstall(m) /\ UNCHANGED <<lifecycle, session>>
       \/ MayInstall(m) /\ SetLifecycle(m, "NEW") /\ UNCHANGED session
       \/ /\ MayInstall(m) /\ SetLifecycle(m, "ACTIVE")
          /\ session' = [session EXCEPT ![m] = "live"]
    /\ UNCHANGED loading /\ UNCHANGED Properties

(* invalidate takes the session id under the lock and ends it afterwards. *)
Invalidate(m) ==
    /\ lifecycle[m] # "INVALIDATED" /\ SetLifecycle(m, "INVALIDATED")
    /\ session' = [session EXCEPT ![m] = IF @ = "live" THEN "ending" ELSE @]
    /\ UNCHANGED <<loading, queued>> /\ UNCHANGED Properties
NativeInvalidate(m) ==
    /\ session[m] = "ending" /\ session' = [session EXCEPT ![m] = "none"]
    /\ UNCHANGED <<lifecycle, loading, queued>> /\ UNCHANGED Properties

ModuleLoaderNext ==
    \E m \in Modules :
        \/ Initialize(m) \/ LoadRefused(m) \/ LoadCached(m) \/ Reserve(m) \/ OnLoad(m)
        \/ Register(m) \/ LoadFailed(m) \/ PostInstall(m) \/ Install(m)
        \/ Invalidate(m) \/ NativeInvalidate(m)

ModuleLoaderSpec == ModuleLoaderInit /\ [][ModuleLoaderNext]_loaderVars

(*------------------------------ properties ------------------------------*)
(* An invalidated module has no live session, and no installation that was *)
(* queued or loading when invalidate came opens one later                  *)
(* (SupernoteModule: initialize, invalidate and the queued installation).  *)
StaysEnded ==
    \A m \in Modules : lifecycle[m] = "INVALIDATED" => session[m] # "live" /\ session'[m] # "live"
SessionEndsWithModule == [][StaysEnded]_loaderVars

(* The process never has more than MAX_RETAINED_GENERATIONS generations of *)
(* the library, failed loads included, a cached registrar belongs to a     *)
(* library that is there, and two binaries never share one                 *)
(* (loadNativeLibrary, publish_runtime_registrar).                         *)
GenerationsBounded ==
    /\ resident \subseteq generations /\ Cardinality(resident) <= MaxGenerations
    /\ \A b \in Binaries : published[b] \in resident \cup {None}
    /\ \A b, c \in Binaries : published[b] = published[c] /\ published[b] # None => b = c

(*--------------------------- inductive invariant ------------------------*)
LoaderTypes ==
    /\ lifecycle \in [Modules -> {"NEW", "INSTALL_PENDING", "ACTIVE", "INVALIDATED"}]
    /\ loading \in [Modules -> {"idle", "copied", "reserved", "published", "failed", "loaded"}]
    /\ session \in [Modules -> {"none", "live", "ending"}]
    /\ published \in [Binaries -> resident \cup {None}]

(* The generation ids are handed out without a gap; a library is in the    *)
(* process only under an id that was handed out.                           *)
GenerationsInv ==
    /\ \E n \in 0 .. MaxGenerations : generations = 1 .. n
    /\ resident \subseteq generations

(* Between Reserve and the end of the load the properties are locked, and  *)
(* the generation asked for is nobody else's.                              *)
LoadingUnderLock ==
    /\ \A m \in Modules : loading[m] \in {"reserved", "published", "failed"} <=> propertyLock = {m}
    /\ \A m \in Modules : propertyLock = {m} =>
          request \in generations /\ \A b \in Binaries : published[b] # request
    /\ \A m \in Modules : loading[m] = "published" => registrar = request /\ request \in resident

LoaderInv ==
    /\ LoaderTypes /\ GenerationsInv /\ LoadingUnderLock
    /\ \A b, c \in Binaries : published[b] = published[c] /\ published[b] # None => b = c
    /\ \A m \in Modules : lifecycle[m] = "INVALIDATED" => session[m] # "live"
=============================================================================
