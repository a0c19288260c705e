-------------------------- MODULE WindowsAuthority --------------------------
(***************************************************************************)
(* Ownership of Windows handles (windows_authority.py and the operations   *)
(* of filesystem.py that use it).  An entry is opened below handles of all *)
(* its ancestors, which must stay open as long as the entry's handle or    *)
(* the C descriptor made of it.  Windows gives the number of a closed      *)
(* handle to the next open, of this module or of other code in the         *)
(* process, and a close interrupted inside the call may or may not have    *)
(* happened.  The registry therefore binds numbers to generations.         *)
(*                                                                         *)
(* Data.  Every successful open of the system gets a fresh allocation      *)
(* number; a registry generation is named by the allocation it was claimed *)
(* for.  A reference is a handle number with a generation.  The tokens     *)
(* that group retired references are left out: every step treats the       *)
(* references one by one.  Ctrl-C arrives between any two operations: after *)
(* an open of the system and before its claim, inside a claim, after a     *)
(* close of the system and before its record.                              *)
(***************************************************************************)
EXTENDS Naturals, FiniteSets

CONSTANTS
    Numbers,      \* handle numbers the system gives out
    Descriptors,  \* C descriptor numbers
    OpenLimit,    \* bound: opens of the process
    FailLimit     \* bound: closes that fail and interrupts

(* No handle has the number zero. *)
ASSUME HandlesAssumption == Numbers \subseteq Nat \ {0}

VARIABLES
    allocated,    \* the system's handle table: number -> allocation, 0 if free
    foreign,      \* allocations made by other code in the process
    crt,          \* the C runtime: descriptor -> number it owns, or NoNumber
    handles,      \* registry: number -> generation and its ancestors
    descriptors,  \* registry: descriptor -> ancestors of its generation
    retired,      \* references whose close is owed
    ambiguous,    \* references whose close may have happened
    residual,     \* those of them that were retired (ambiguous_retired)
    pending,      \* transitions an interrupt left incomplete
    opening,      \* the open or the conversion in progress
    held,         \* numbers and descriptors the callers hold
    opened, failed,
    wronged,      \* history: a close reached an allocation it was not meant for
    torn,         \* history: the registry's record of a number is not its own
    lost          \* history: opens and conversions cut before their result was stored

registry == <<handles, descriptors, retired, ambiguous, residual, pending>>
handleVars == <<allocated, foreign, crt, registry, opening, held, opened, failed,
                wronged, torn, lost>>

NoNumber == 0
Outcomes == {"closed", "cut", "retryable", "ambiguous_closed", "ambiguous_open"}
Unregistered == [g |-> 0, anc |-> {}]
NoOpen == [pc |-> "none", anc |-> {}, hand |-> 0, made |-> {}]
OpenAt(pc) == opening.pc = pc
Ref(h) == [h |-> h, g |-> handles[h].g]

HandlesInit ==
    /\ allocated = [h \in Numbers |-> 0]
    /\ foreign = {}
    /\ crt = [d \in Descriptors |-> NoNumber]
    /\ handles = [h \in Numbers |-> Unregistered]
    /\ descriptors = [d \in Descriptors |-> Unregistered]
    /\ retired = {} /\ ambiguous = {} /\ residual = {} /\ pending = {}
    /\ opening = NoOpen
    /\ held = [numbers |-> {}, descriptors |-> {}]
    /\ opened = 0 /\ failed = 0 /\ wronged = FALSE
    /\ torn = FALSE /\ lost = [handles |-> {}, descriptors |-> {}]

(* The outcomes of closing some references; others do not matter.  A close *)
(* is cut when it returns and an interrupt precedes its record.            *)
OutcomesOf(refs) ==
    {out \in [Numbers -> Outcomes] : \A h \in Numbers \ {r.h : r \in refs} : out[h] = "closed"}
AllClosed(out) == \A h \in Numbers : out[h] = "closed"
Charge(out) == LET bad == Cardinality({h \in Numbers : out[h] # "closed"}) IN
    failed + bad <= FailLimit /\ failed' = failed + bad

(*----------------------------- the registry -----------------------------*)
(* _windows_attempt_close_raw_handle for each reference: the system frees  *)
(* the number, and a number that names something else is a wrong close.    *)
CloseAttempts(refs, out) ==
    /\ allocated' = [h \in Numbers |->
          IF \E r \in refs : r.h = h /\ out[h] \in {"closed", "cut", "ambiguous_closed"}
          THEN 0 ELSE allocated[h]]
    /\ wronged' = (wronged \/ \E r \in refs : allocated[r.h] \notin {0, r.g})

Cut(out) == \E h \in Numbers : out[h] = "cut"

(* Mutant: an ambiguous close stays due and is tried again. *)
RetireRetryingAll(hs, rt, refs, extra, out) ==
    LET tried == {r \in refs : hs[r.h].g \in {0, r.g}} \ ambiguous
        closed == {r \in tried : out[r.h] = "closed"} IN
    /\ retired' = (rt \ refs) \cup (tried \ closed)
    /\ UNCHANGED <<ambiguous, residual>>
    /\ handles' = [h \in Numbers |-> IF \E r \in closed : r.h = h /\ hs[h].g = r.g
                                     THEN Unregistered ELSE hs[h]]
    /\ CloseAttempts(tried \cup extra, out)

(* Mutant: a close that failed is forgotten. *)
RetireForgetting(hs, rt, refs, extra, out) ==
    LET tried == {r \in refs : hs[r.h].g \in {0, r.g}} \ ambiguous IN
    /\ retired' = rt \ refs
    /\ ambiguous' = ambiguous \cup {r \in tried : out[r.h] \notin {"closed", "retryable"}}
    /\ handles' = [h \in Numbers |-> IF \E r \in tried : r.h = h /\ hs[h].g = r.g
                                     THEN Unregistered ELSE hs[h]]
    /\ CloseAttempts(tried \cup extra, out)
    /\ UNCHANGED residual

(* _close_retired for references `refs' of `rt', with `hs' registered: a    *)
(* superseded reference is dropped, an ambiguous one is never tried again, *)
(* one that failed or whose close was cut before its record stays due;     *)
(* `extra' is what the caller closes before.                               *)
Retire(hs, rt, refs, extra, out) ==
    LET own == {r \in refs : hs[r.h].g \in {0, r.g}}
        tried == own \ ambiguous
        closed == {r \in tried : out[r.h] = "closed"}
        due == {r \in tried : out[r.h] \in {"retryable", "cut"}} IN
    /\ retired' = (rt \ refs) \cup due
    /\ ambiguous' = ambiguous \cup (tried \ (closed \cup due))
    /\ residual' = residual \cup (own \ (closed \cup due))
    /\ handles' = [h \in Numbers |-> IF \E r \in closed : r.h = h /\ hs[h].g = r.g
                                     THEN Unregistered ELSE hs[h]]
    /\ CloseAttempts(tried \cup extra, out)

(* _complete_transition, _remove_superseded: what a claim displaced. *)
Completed(rt, moves) ==
    (rt \cup UNION {m.due : m \in moves}) \ UNION {m.superseded : m \in moves}

(* The token of a claim, which registers `gen'; `at' orders the tokens. *)
HandleMove(h, gen) ==
    [of |-> "handle", n |-> h, at |-> failed, gen |-> gen,
     due |-> handles[h].anc, superseded |-> {r \in retired : r.h = h}]
DescriptorMove(d, gen) ==
    [of |-> "descriptor", n |-> d, at |-> failed, gen |-> gen,
     due |-> descriptors[d].anc, superseded |-> {}]

(* _current_generation: the newest pending transition of the number, else  *)
(* what is registered, else what was retired and is ambiguous (handles     *)
(* only), else a new generation.                                           *)
Newest(of, n) ==
    {m \in pending : /\ m.of = of /\ m.n = n
                     /\ \A k \in pending : k.of = of /\ k.n = n => k.at <= m.at}
Current(of, n, registered, otherwise) ==
    IF Newest(of, n) # {} THEN (CHOOSE m \in Newest(of, n) : TRUE).gen
    ELSE IF registered # Unregistered THEN registered
    ELSE [g |-> otherwise, anc |-> {}]
CurrentHandle(r) ==
    Current("handle", r.h, handles[r.h],
            IF \E s \in residual : s.h = r.h THEN (CHOOSE s \in residual : s.h = r.h).g ELSE r.g)
CurrentDescriptor(f) == Current("descriptor", f.d, descriptors[f.d], f.g)

(* claim_handle: register the new generation, then reconcile.  It raises   *)
(* if a close of the reconciliation fails.                                 *)
ClaimHandle(h, anc, ok, bad) ==
    LET gen == [g |-> allocated[h], anc |-> anc]
        rt == Completed(retired, pending \cup {HandleMove(h, gen)}) IN
    \E out \in OutcomesOf(rt) :
        /\ Charge(out)
        /\ Retire([handles EXCEPT ![h] = gen], rt, rt, {}, out)
        /\ pending' = {}
        /\ opening' = IF AllClosed(out) THEN ok ELSE bad
        /\ torn' = (torn \/ Cut(out))

(* An interrupt in _claim, which closes nothing: the transition is done    *)
(* (_retain_failed_registration too), left pending, or done with its token *)
(* left.                                                                   *)
CtrlC == failed < FailLimit /\ failed' = failed + 1
Transition(move) ==
    /\ CtrlC
    /\ \/ retired' = Completed(retired, {move}) /\ UNCHANGED pending
       \/ /\ retired' \in {retired, Completed(retired, {move})}
          /\ pending' = pending \cup {move}
    /\ UNCHANGED <<allocated, ambiguous, residual, wronged, torn>>

ClaimInterrupted(h, anc, bad) ==
    LET gen == [g |-> allocated[h], anc |-> anc] IN
    /\ Transition(HandleMove(h, gen))
    /\ handles' = [handles EXCEPT ![h] = gen]
    /\ opening' = bad

(* An interrupt before _claim has done anything.  The caller may ensure a  *)
(* generation where none is registered; an older one stays.                *)
ClaimUnmade(h, ensured, bad) ==
    /\ CtrlC
    /\ handles' = IF handles[h] = Unregistered THEN [handles EXCEPT ![h] = ensured]
                  ELSE handles
    /\ opening' = bad
    /\ torn' = (torn \/ handles[h] # Unregistered)
    /\ UNCHANGED <<allocated, retired, ambiguous, residual, pending, wronged>>

(* close_raw for the handle r: an ambiguous generation is refused; a       *)
(* closed one retires its ancestors and closes them.  The number is        *)
(* mistaken for an older generation if a token left pending or an          *)
(* ambiguity names one.                                                    *)
CloseRaw(r, doubt) ==
    LET h == r.h
        cur == CurrentHandle(r)
        ref == [h |-> h, g |-> cur.g]
        mistaken == cur.g # r.g \/ handles[h] \notin {cur, Unregistered}
                    \/ (handles[h] = Unregistered /\ cur.anc # {}) IN
    \/ /\ ref \in ambiguous
       /\ handles' = IF Newest("handle", h) = {} THEN handles ELSE [handles EXCEPT ![h] = cur]
       /\ torn' = (torn \/ doubt \/ mistaken)
       /\ UNCHANGED <<allocated, retired, ambiguous, residual, wronged, failed>>
    \/ /\ ref \notin ambiguous
       /\ \E out \in OutcomesOf({r} \cup cur.anc) :
          /\ Charge(out)
          /\ torn' = (torn \/ doubt \/ mistaken \/ Cut(out))
          /\ \/ /\ out[h] = "closed"
                /\ Retire([handles EXCEPT ![h] = Unregistered], retired \cup cur.anc,
                          cur.anc, {r}, out)
             \/ /\ out[h] # "closed"
                /\ CloseAttempts({r}, out)
                /\ handles' = [handles EXCEPT ![h] = cur]
                /\ ambiguous' = IF out[h] \in {"retryable", "cut"} THEN ambiguous
                                ELSE ambiguous \cup {ref}
                /\ \/ UNCHANGED retired
                   \/ out[h] = "cut" /\ retired' = retired \cup cur.anc
                /\ UNCHANGED residual

(*--------------------------- opening an entry ---------------------------*)
(* CreateFileW: the system picks any number that is free. *)
Create(h) ==
    /\ allocated[h] = 0 /\ opened < OpenLimit
    /\ opened' = opened + 1
    /\ allocated' = [allocated EXCEPT ![h] = opened + 1]

(* CreateFileW has returned and its result is stored, or an interrupt      *)
(* loses it.                                                               *)
Created(h, ok, bad) ==
    /\ Create(h)
    /\ \/ opening' = ok /\ UNCHANGED <<failed, lost>>
       \/ /\ CtrlC
          /\ opening' \in bad
          /\ lost' = [lost EXCEPT !.handles = @ \cup {opened + 1}]
    /\ UNCHANGED <<foreign, crt, registry, held, wronged, torn>>

CreateAncestor(h) ==
    /\ OpenAt("none")
    /\ Created(h, [NoOpen EXCEPT !.pc = "ancestor", !.hand = h], {NoOpen})

RetainAncestor ==
    /\ OpenAt("ancestor")
    /\ LET r == [h |-> opening.hand, g |-> allocated[opening.hand]]
           kept == [opening EXCEPT !.pc = "retained", !.anc = {r}]
           drop == [opening EXCEPT !.pc = "dropped"] IN
       \/ ClaimHandle(r.h, {}, kept, drop)
       \/ ClaimInterrupted(r.h, {}, drop)
       \/ ClaimUnmade(r.h, Unregistered, drop)
    /\ UNCHANGED <<foreign, crt, descriptors, held, opened, lost>>

CreateLeaf(h) ==
    /\ OpenAt("retained")
    /\ Created(h, [opening EXCEPT !.pc = "leaf", !.hand = h],
               {[opening EXCEPT !.pc = "dropped"], NoOpen})

ClaimLeaf ==
    /\ OpenAt("leaf")
    /\ LET h == opening.hand
           kept == [opening EXCEPT !.pc = "claimed"]
           drop == [opening EXCEPT !.pc = "dropped"] IN
       \/ ClaimHandle(h, opening.anc, kept, drop)
       \/ ClaimInterrupted(h, opening.anc, drop)
       \/ ClaimUnmade(h, [g |-> allocated[h], anc |-> opening.anc], drop)
    /\ UNCHANGED <<foreign, crt, descriptors, held, opened, lost>>

(* A reparse point, or an attribute that cannot be read. *)
RefuseEntry ==
    /\ opening.pc \in {"retained", "claimed"}
    /\ opening' = [opening EXCEPT !.pc = "dropped"]
    /\ UNCHANGED <<allocated, foreign, crt, registry, held, opened, failed, wronged, torn, lost>>

GiveUp ==
    /\ OpenAt("dropped")
    /\ CloseRaw([h |-> opening.hand, g |-> allocated[opening.hand]], FALSE)
    /\ opening' = NoOpen
    /\ UNCHANGED <<foreign, crt, descriptors, pending, held, opened, lost>>

(* An interrupt between two functions, or in the handler that would close. *)
Abandon ==
    /\ opening.pc \in {"retained", "claimed", "dropped"} /\ CtrlC
    /\ opening' = NoOpen
    /\ lost' = IF handles[opening.hand].g = allocated[opening.hand] THEN lost
               ELSE [lost EXCEPT !.handles = @ \cup {allocated[opening.hand]}]
    /\ UNCHANGED <<allocated, foreign, crt, registry, held, opened, wronged, torn>>

OpenReturns ==
    /\ OpenAt("claimed")
    /\ held' = [held EXCEPT !.numbers = @ \cup {Ref(opening.hand)}]
    /\ opening' = NoOpen
    /\ UNCHANGED <<allocated, foreign, crt, registry, opened, failed, wronged, torn, lost>>

(*------------------------ descriptors and callers -----------------------*)
(* _windows_handle_to_descriptor: the descriptor takes the handle over,    *)
(* which its caller has just opened.                                       *)
Own(r) == /\ allocated[r.h] = r.g /\ r.g \notin foreign \cup {0}
          /\ handles[r.h].g = r.g /\ r \notin ambiguous
Convert(r, d) ==
    /\ OpenAt("none") /\ r \in held.numbers /\ Own(r) /\ crt[d] = NoNumber
    /\ crt' = [crt EXCEPT ![d] = r.h]
    /\ opening' = [pc |-> "converted", anc |-> handles[r.h].anc, hand |-> r.h, made |-> {d}]
    /\ held' = [held EXCEPT !.numbers = @ \ {r}]
    /\ UNCHANGED <<allocated, foreign, registry, opened, failed, wronged, torn, lost>>

(* open_osfhandle fails, or an interrupt loses the descriptor it returned: *)
(* the handle is closed, and once more by the caller if it is registered   *)
(* still; the C runtime keeps the descriptor.                              *)
Unconverted(r) ==
    /\ OpenAt("none") /\ r \in held.numbers
    /\ CloseRaw(r, FALSE)
    /\ \/ UNCHANGED <<crt, lost>>
       \/ \E d \in Descriptors :
             /\ crt[d] = NoNumber
             /\ crt' = [crt EXCEPT ![d] = r.h]
             /\ lost' = [lost EXCEPT !.descriptors = @ \cup {d}]
    /\ held' = IF handles'[r.h].g = r.g /\ r \notin ambiguous' THEN held
               ELSE [held EXCEPT !.numbers = @ \ {r}]
    /\ UNCHANGED <<foreign, descriptors, pending, opening, opened>>

(* claim_descriptor returns or raises, or an interrupt cuts it. *)
ClaimDescriptor(d) ==
    /\ OpenAt("converted") /\ d \in opening.made
    /\ LET gen == [g |-> allocated[opening.hand], anc |-> opening.anc]
           move == DescriptorMove(d, gen)
           rt == Completed(retired, pending \cup {move}) IN
       \/ /\ \E out \in OutcomesOf(rt) :
                /\ Charge(out)
                /\ Retire(handles, rt, rt, {}, out)
                /\ torn' = (torn \/ Cut(out))
          /\ pending' = {}
          /\ descriptors' = [descriptors EXCEPT ![d] = gen]
       \/ /\ Transition(move)
          /\ descriptors' = [descriptors EXCEPT ![d] = gen]
          /\ UNCHANGED handles
       \/ /\ CtrlC
          /\ descriptors' = IF descriptors[d] = Unregistered
                            THEN [descriptors EXCEPT ![d] = gen] ELSE descriptors
          /\ torn' = (torn \/ descriptors[d] # Unregistered)
          /\ UNCHANGED <<allocated, handles, retired, ambiguous, residual, pending, wronged>>
    /\ opening' = [opening EXCEPT !.pc = "moved"]
    /\ UNCHANGED <<foreign, crt, held, opened, lost>>

(* release_handle_if; the caller, or the handler of an interrupt, has the  *)
(* descriptor to close.  A second interrupt in the handler leaves the      *)
(* handle to the caller, which closes it below the descriptor.             *)
ReleaseHandle(d) ==
    /\ OpenAt("moved") /\ d \in opening.made
    /\ \/ /\ handles' = [handles EXCEPT ![opening.hand] = Unregistered]
          /\ held' = [held EXCEPT !.descriptors =
                          @ \cup {[d |-> d, g |-> allocated[opening.hand]]}]
          /\ UNCHANGED <<allocated, retired, ambiguous, residual, failed, wronged, torn, lost>>
       \/ /\ CloseRaw([h |-> opening.hand, g |-> allocated[opening.hand]], TRUE)
          /\ lost' = [lost EXCEPT !.descriptors = @ \cup {d}]
          /\ UNCHANGED held
    /\ opening' = NoOpen
    /\ UNCHANGED <<foreign, crt, descriptors, pending, opened>>

CloseHeld(r) ==
    /\ OpenAt("none") /\ r \in held.numbers
    /\ CloseRaw(r, FALSE)
    /\ held' = [held EXCEPT !.numbers = @ \ {r}]
    /\ UNCHANGED <<foreign, crt, descriptors, pending, opening, opened, lost>>

(* close_descriptor: os.close returns, or fails, or an interrupt hides     *)
(* that it returned, which leaves the registration of a free descriptor.   *)
CloseDescriptor(f) ==
    /\ OpenAt("none") /\ f \in held.descriptors
    /\ LET d == f.d
           leaf == [h |-> crt[d], g |-> f.g]
           cur == CurrentDescriptor(f)
           mistaken == cur # descriptors[d] \/ cur.g # f.g IN
       \/ \E out \in OutcomesOf(cur.anc) :
             /\ Charge(out)
             /\ Retire(handles, retired \cup cur.anc, cur.anc, {leaf},
                       [out EXCEPT ![crt[d]] = "closed"])
             /\ crt' = [crt EXCEPT ![d] = NoNumber]
             /\ descriptors' = [descriptors EXCEPT ![d] = Unregistered]
             /\ torn' = (torn \/ mistaken \/ Cut(out))
       \/ /\ CtrlC
          /\ \/ /\ crt' = [crt EXCEPT ![d] = NoNumber]
                /\ CloseAttempts({leaf}, [h \in Numbers |-> "closed"])
             \/ UNCHANGED <<crt, allocated, wronged>>
          /\ descriptors' = [descriptors EXCEPT ![d] = cur]
          /\ torn' = (torn \/ mistaken)
          /\ UNCHANGED <<handles, retired, ambiguous, residual>>
    /\ held' = [held EXCEPT !.descriptors = @ \ {f}]
    /\ UNCHANGED <<foreign, pending, opening, opened, lost>>

(* reconcile, as restore_protected_directory_metadata calls it. *)
Reconcile ==
    /\ OpenAt("none") /\ (retired # {} \/ pending # {})
    /\ LET rt == Completed(retired, pending) IN
       \E out \in OutcomesOf(rt) :
          /\ Charge(out) /\ Retire(handles, rt, rt, {}, out)
          /\ torn' = (torn \/ Cut(out))
    /\ pending' = {}
    /\ UNCHANGED <<foreign, crt, descriptors, opening, held, opened, lost>>

(* Other code of the process opens and closes handles of its own. *)
ForeignOpens(h) ==
    /\ Create(h)
    /\ foreign' = foreign \cup {opened + 1}
    /\ UNCHANGED <<crt, registry, opening, held, failed, wronged, torn, lost>>

ForeignCloses(h) ==
    /\ allocated[h] \in foreign
    /\ allocated' = [allocated EXCEPT ![h] = 0]
    /\ UNCHANGED <<foreign, crt, registry, opening, held, opened, failed, wronged, torn, lost>>

HandlesNext ==
    \/ \E h \in Numbers : CreateAncestor(h) \/ CreateLeaf(h) \/ ForeignOpens(h) \/ ForeignCloses(h)
    \/ RetainAncestor \/ ClaimLeaf \/ RefuseEntry \/ GiveUp \/ Abandon \/ OpenReturns \/ Reconcile
    \/ \E r \in held.numbers : CloseHeld(r) \/ Unconverted(r) \/ \E d \in Descriptors : Convert(r, d)
    \/ \E d \in Descriptors : ClaimDescriptor(d) \/ ReleaseHandle(d)
    \/ \E f \in held.descriptors : CloseDescriptor(f)

HandlesSpec == HandlesInit /\ [][HandlesNext]_handleVars

(*------------------------------ properties ------------------------------*)
(* The references this module keeps: closes that are owed, the ancestors of *)
(* a generation, and that of the leaf being opened.                         *)
Owed == retired \cup UNION {m.due : m \in pending}
OpenAncestor == IF OpenAt("leaf") THEN opening.anc ELSE {}
Kept(r) ==
    \/ r \in Owed \cup OpenAncestor
    \/ \E n \in Numbers : r \in handles[n].anc
    \/ \E d \in Descriptors : r \in descriptors[d].anc

(* CloseHandle is never called on a number the system has given to another *)
(* open since: not by a retry of a close that may have happened, not by a  *)
(* close that was owed for a number in use again, wherever one Ctrl-C or a *)
(* failed close leaves a claim (WindowsAuthorityRegistry.close_raw,        *)
(* _close_retired_reference).  Excepted are the histories in which the     *)
(* registry itself has a number wrong: an interrupt came after a close and *)
(* before its record, or kept a claim from replacing an older token,       *)
(* registration or ambiguity of the number, or cut a handler.              *)
OnlyOwnHandlesClosed == wronged => torn

(* What the registry says of itself (windows_authority.py:53): it owns     *)
(* every generation of a number across claim, close and reuse, so that no  *)
(* close reaches another one.  One Ctrl-C between a close and its record   *)
(* breaks it: the generation stays registered or due, and is closed again  *)
(* when the number belongs to another open.                                *)
GenerationsOwned == ~wronged

(* No handle is lost: while no open is in progress, every handle this      *)
(* module opened and the system still has is registered, kept by a         *)
(* registered generation, owed a close, or known to be ambiguous, whatever *)
(* closes failed and wherever Ctrl-C arrived.  Excepted are the handles of *)
(* `lost', whose number an interrupt took from the module between the open *)
(* of the system and the claim, and the histories of `torn'.               *)
HandlesAccounted ==
    OpenAt("none") /\ ~torn =>
        \A h \in Numbers :
            \/ allocated[h] \in foreign \cup lost.handles \cup {0}
            \/ \E d \in Descriptors : crt[d] = h /\ descriptors[d].g = allocated[h]
            \/ LET r == [h |-> h, g |-> allocated[h]] IN
               Kept(r) \/ r \in {Ref(n) : n \in Numbers} \cup ambiguous

(*-------------------------- inductive invariant -------------------------*)
References == [h : Numbers, g : 0 .. opened]
Registrations == [g : 0 .. opened, anc : SUBSET References]
OpenSteps == {"none", "ancestor", "retained", "leaf", "claimed", "dropped", "converted", "moved"}

HandleTypes ==
    /\ opened \in Nat /\ foreign \subseteq 1 .. opened
    /\ allocated \in [Numbers -> 0 .. opened]
    /\ crt \in [Descriptors -> Numbers \cup {NoNumber}]
    /\ handles \in [Numbers -> Registrations]
    /\ descriptors \in [Descriptors -> Registrations]
    /\ retired \subseteq References /\ ambiguous \subseteq References
    /\ residual \subseteq ambiguous
    /\ \A m \in pending : /\ m.gen \in Registrations
                         /\ m.due \subseteq References /\ m.superseded \subseteq References
    /\ opening \in [pc : OpenSteps, anc : SUBSET References, hand : Numbers \cup {NoNumber},
                    made : SUBSET Descriptors]
    /\ ~OpenAt("none") => opening.hand \in Numbers
    /\ held \in [numbers : SUBSET References, descriptors : SUBSET [d : Descriptors, g : 0 .. opened]]
    /\ lost \in [handles : SUBSET (0 .. opened), descriptors : SUBSET Descriptors]
    /\ wronged \in BOOLEAN /\ torn \in BOOLEAN

(* The descriptors that the C runtime has not lost. *)
Live == Descriptors \ lost.descriptors

(* What is kept is an ancestor that nothing has closed, so no claim finds  *)
(* a retired reference to the number it claims.                            *)
KeptInv ==
    /\ \A r \in References : Kept(r) =>
          /\ Own(r) /\ handles[r.h].anc = {} /\ r \notin held.numbers
          /\ ~OpenAt("none") => r.h # opening.hand
    /\ \A m \in pending : m.superseded = {}

(* A reference is kept in one place only; the handle being converted hands *)
(* its ancestors over.                                                     *)
PlacesInv ==
    /\ \A n \in Numbers : handles[n].anc \cap (Owed \cup OpenAncestor) = {}
    /\ \A d \in Descriptors : descriptors[d].anc \cap (Owed \cup OpenAncestor) = {}
    /\ \A n, k \in Numbers : n # k => handles[n].anc \cap handles[k].anc = {}
    /\ \A d, e \in Descriptors : d # e => descriptors[d].anc \cap descriptors[e].anc = {}
    /\ \A n \in Numbers, d \in Descriptors :
          handles[n].anc \cap descriptors[d].anc = {} \/ (OpenAt("moved") /\ n = opening.hand)
    /\ Owed \cap OpenAncestor = {}

(* The open in progress has the handle it has just created or claimed, the *)
(* conversion the handle that its descriptor takes over.                   *)
OpeningInv ==
    /\ opening.made # {} => opening.pc \in {"converted", "moved"}
    /\ ~OpenAt("none") =>
        /\ allocated[opening.hand] \notin foreign \cup {0}
        /\ [h |-> opening.hand, g |-> allocated[opening.hand]] \notin ambiguous
        /\ \A d \in Live \ opening.made : crt[d] # opening.hand
        /\ \A r \in held.numbers : r.h # opening.hand
        /\ opening.pc \in {"retained", "claimed", "converted", "moved"} =>
              handles[opening.hand].g = allocated[opening.hand]
        /\ OpenAt("retained") => /\ opening.anc = {Ref(opening.hand)}
                                 /\ handles[opening.hand].anc = {}
        /\ opening.pc \in {"converted", "moved"} => opening.anc = handles[opening.hand].anc
        /\ \A d \in opening.made : d \in Live /\ crt[d] = opening.hand /\ opening.made = {d}
        /\ OpenAt("moved") => \A d \in opening.made :
              descriptors[d].g = allocated[opening.hand]

(* Callers hold handles and descriptors that are open.                     *)
HeldInv == /\ \A r \in held.numbers : Own(r)
           /\ \A f \in held.descriptors : /\ f.d \in Live \ opening.made
                                         /\ crt[f.d] # NoNumber /\ descriptors[f.d].g = f.g

(* A descriptor owns a handle that the registry of handles has let go.     *)
DescriptorsInv ==
    /\ \A d \in Live \ opening.made : crt[d] # NoNumber =>
          /\ allocated[crt[d]] = descriptors[d].g /\ descriptors[d].g \notin foreign \cup {0}
          /\ handles[crt[d]].g = 0
          /\ \A e \in Live : crt[e] = crt[d] => e = d
    /\ \A d \in lost.descriptors : crt[d] # NoNumber

(* Every handle of this module is known to it, the one just created apart. *)
AccountInv ==
    \A h \in Numbers :
        \/ allocated[h] \in foreign \cup lost.handles \cup {0}
        \/ handles[h].g = allocated[h]
        \/ \E d \in Live : crt[d] = h
        \/ [h |-> h, g |-> allocated[h]] \in ambiguous
        \/ opening.pc \in {"ancestor", "leaf", "dropped"} /\ opening.hand = h

Registered ==
    /\ ~wronged /\ KeptInv /\ PlacesInv /\ OpeningInv
    /\ HeldInv /\ DescriptorsInv /\ AccountInv

(* All of it holds until the registry has a number wrong.                  *)
HandlesInv == HandleTypes /\ (~torn => Registered)
=============================================================================
