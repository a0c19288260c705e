---------------------------- MODULE NativeProofs ----------------------------
(***************************************************************************)
(* Theorems about the handles of JVM objects (JvmObjects), the loading of  *)
(* the native runtime (ModuleLoader), feature services (ServiceSlots) and  *)
(* the conversion of values (Conversion).                                  *)
(*                                                                         *)
(* The first part counts references: Drop, Share and RetainGlobal keep     *)
(* Counted and every holder but the one they are about, so each step of    *)
(* JvmObjects is shown to lose only holders of its own.  wrap then works   *)
(* on a registry in which the erased entries are those of dead objects.    *)
(* SlotsInv of ServiceSlots is inductive: one lemma per step of            *)
(* service<T> and of close, one step per part of the invariant.            *)
(* The last part compares converters by Follows, and a conversion with the *)
(* conversion back by EchoBelow, each by induction on the levels.          *)
(***************************************************************************)
EXTENDS ServiceSlots, Conversion, JvmObjects, ModuleLoader, VectorTheorems, FiniteSetTheorems

(*--------------------------- global references --------------------------*)
(* The holders of rs that are not in lost are still holders in ts, of a    *)
(* reference to the same object.                                           *)
Keeps(rs, ts, lost) ==
    \A r \in RefIds : \A x : Owns(rs, r, x) /\ x \notin lost =>
        Owns(ts, r, x) /\ ts[r].object = rs[r].object

(* ts refers to no object that rs does not refer to.                       *)
NoNewObjects(rs, ts) ==
    \A r \in RefIds : ts[r].state # "none" =>
        rs[r].state # "none" /\ ts[r].object = rs[r].object

(* A reference that has a holder is live and has an object.                *)
LEMMA OwnedIsLive ==
  ASSUME NEW rs, Counted(rs), NEW r, NEW x, Owns(rs, r, x)
  PROVE  r \in RefIds /\ rs[r].state = "live" /\ rs[r].object \in Objects
<1>1. r \in RefIds /\ CountedRef(rs[r]) /\ rs[r].holders # {}
  BY DEF Counted, Owns
<1> DEFINE ref == rs[r]
<1> HIDE DEF ref
<1>2. CountedRef(ref) /\ ref.holders # {}
  BY <1>1 DEF ref
<1>3. ref.state = "live" /\ ref.object \in Objects
  BY <1>2 DEF CountedRef, NoRef
<1> QED
  BY <1>1, <1>3 DEF ref

(* Two holders are the same only if they are of one kind and one name.     *)
LEMMA HoldersDiffer ==
  ASSUME NEW a, NEW b, NEW c, NEW d, <<a, b>> = <<c, d>>
  PROVE  a = c /\ b = d
OBVIOUS

(* Drop takes one holder from every reference, and no reference away.      *)
LEMMA DropFacts ==
  ASSUME NEW rs, Counted(rs), NEW holder
  PROVE  /\ Counted(Drop(rs, holder)) /\ Keeps(rs, Drop(rs, holder), {holder})
         /\ NoNewObjects(rs, Drop(rs, holder))
<1> DEFINE ts == Drop(rs, holder)
<1>1. ASSUME NEW r \in RefIds
      PROVE  /\ CountedRef(ts[r])
             /\ ts[r].holders = rs[r].holders \ {holder} /\ ts[r].object = rs[r].object
             /\ ts[r].state # "none" => rs[r].state # "none"
  <2>1. CountedRef(rs[r])
    BY DEF Counted
  <2>2. CASE holder \notin rs[r].holders
    <3>1. ts[r] = rs[r]
      BY <2>2 DEF Drop
    <3> QED
      BY <2>1, <2>2, <3>1
  <2>3. CASE holder \in rs[r].holders
    <3> DEFINE ref == rs[r]
    <3>1. ts[r] = [ref EXCEPT !.holders = @ \ {holder},
                              !.state = IF ref.holders = {holder} THEN "queued" ELSE @]
      BY <2>3 DEF Drop
    <3> HIDE DEF ref
    <3>2. /\ ref \in [object : Objects, holders : {ref.holders}, state : {"live", "queued"}]
          /\ ref.state = "live" /\ holder \in ref.holders
      BY <2>1, <2>3 DEF CountedRef, NoRef, ref
    <3>3. /\ ts[r] \in [object : Objects, holders : {ts[r].holders}, state : {"live", "queued"}]
          /\ ts[r].holders = ref.holders \ {holder} /\ ts[r].object = ref.object
          /\ ts[r].state = IF ref.holders = {holder} THEN "queued" ELSE "live"
      BY <3>1, <3>2
    <3> QED
      BY <3>2, <3>3 DEF CountedRef, ref
  <2> QED
    BY <2>2, <2>3
<1>2. DOMAIN ts = RefIds
  BY DEF Drop
<1> HIDE DEF ts
<1>3. Counted(ts) /\ Keeps(rs, ts, {holder}) /\ NoNewObjects(rs, ts)
  BY <1>1, <1>2 DEF Counted, Keeps, NoNewObjects, Owns
<1> QED
  BY <1>3 DEF ts

(* Share adds a holder to a live reference.                                *)
LEMMA ShareFacts ==
  ASSUME NEW rs, Counted(rs), NEW r \in RefIds, rs[r].state = "live", NEW holder
  PROVE  /\ Counted(Share(rs, r, holder)) /\ Keeps(rs, Share(rs, r, holder), {})
         /\ NoNewObjects(rs, Share(rs, r, holder))
         /\ Owns(Share(rs, r, holder), r, holder)
         /\ Share(rs, r, holder)[r].object = rs[r].object
<1> DEFINE ts == Share(rs, r, holder)
           ref == rs[r]
<1>1. CountedRef(ref) /\ ref.state = "live" /\ DOMAIN rs = RefIds
  BY DEF Counted
<1>2. ts[r] = [ref EXCEPT !.holders = @ \cup {holder}] /\ DOMAIN ts = RefIds
      /\ \A q \in RefIds : q # r => ts[q] = rs[q]
  BY <1>1 DEF Share
<1> HIDE DEF ts, ref
<1>3. /\ ref \in [object : Objects, holders : {ref.holders}, state : {"live", "queued"}]
      /\ ref.state = "live"
  BY <1>1 DEF CountedRef, NoRef
<1>4. /\ ts[r] \in [object : Objects, holders : {ts[r].holders}, state : {"live", "queued"}]
      /\ ts[r].holders = ref.holders \cup {holder} /\ ts[r].object = ref.object
      /\ ts[r].state = "live"
  BY <1>2, <1>3
<1>5. CountedRef(ts[r])
  BY <1>4 DEF CountedRef
<1>6. Counted(ts)
  BY <1>2, <1>5 DEF Counted
<1>7. Keeps(rs, ts, {}) /\ NoNewObjects(rs, ts) /\ Owns(ts, r, holder)
  BY <1>1, <1>2, <1>4 DEF Keeps, NoNewObjects, Owns, ref
<1> QED
  BY <1>4, <1>6, <1>7 DEF ts, ref

(* retain_global makes a reference of its own.                             *)
LEMMA RetainFacts ==
  ASSUME NEW rs, Counted(rs), NEW g \in FreeRefs(rs), NEW o \in Objects, NEW holder
  PROVE  LET ts == RetainGlobal(rs, g, o, holder) IN
         /\ Counted(ts) /\ Keeps(rs, ts, {}) /\ Owns(ts, g, holder) /\ ts[g].object = o
         /\ \A r \in RefIds : r # g => ts[r] = rs[r]
<1> DEFINE ts == RetainGlobal(rs, g, o, holder)
<1>1. g \in RefIds /\ rs[g].state = "none" /\ DOMAIN rs = RefIds /\ CountedRef(rs[g])
  BY DEF FreeRefs, Counted
<1>2. rs[g].holders = {}
  BY <1>1 DEF CountedRef, NoRef
<1>3. ts[g] = [object |-> o, holders |-> {holder}, state |-> "live"] /\ DOMAIN ts = RefIds
      /\ \A r \in RefIds : r # g => ts[r] = rs[r]
  BY <1>1 DEF RetainGlobal
<1> HIDE DEF ts
<1>4. CountedRef(ts[g])
  BY <1>3 DEF CountedRef
<1>5. Counted(ts) /\ Keeps(rs, ts, {}) /\ Owns(ts, g, holder)
  BY <1>1, <1>2, <1>3, <1>4 DEF Counted, Keeps, Owns
<1> QED
  BY <1>3, <1>5 DEF ts

(*-------------------------------- wrap ----------------------------------*)
Entry == [object : Objects, handle : HandleIds]

(* The entries are of different objects.                                   *)
OneEntryEach(s) == IsInjective(s) /\ \A d, e \in ToSet(s) : d.object = e.object => d = e

(* Then their positions differ too.                                        *)
LEMMA OneEntry ==
  ASSUME NEW s \in Seq(Entry), OneEntryEach(s)
  PROVE  \A i, j \in DOMAIN s : s[i].object = s[j].object => i = j
  BY DEF OneEntryEach, ToSet, IsInjective

(* RegistryInv says so of the registry.                                    *)
LEMMA EntriesDiffer ==
  ASSUME JvmTypes, RegistryInv
  PROVE  entries \in Seq(Entry) /\ OneEntryEach(entries) /\ ToSet(entries) \subseteq Entry
<1>1. entries \in Seq(Entry)
  BY DEF JvmTypes, Entry
<1>2. \A i \in DOMAIN entries : entries[i] \in Entry
  BY <1>1
<1>3. \A i, j \in DOMAIN entries : entries[i].object = entries[j].object => i = j
  BY DEF RegistryInv
<1> QED
  BY <1>1, <1>2, <1>3 DEF OneEntryEach, ToSet, IsInjective

(* The scan for a living object stops at its entry, if there is one.       *)
LEMMA StopFacts ==
  ASSUME JvmTypes, RegistryInv, NEW o \in Objects, heap[o] # "collected"
  PROVE  \/ Stop(o) \in DOMAIN entries /\ entries[Stop(o)].object = o
         \/ Stop(o) = Len(entries) + 1 /\ \A e \in ToSet(entries) : e.object # o
<1> DEFINE found == {i \in DOMAIN entries : ~Dead(entries[i]) /\ Matches(entries[i], o)}
<1>1. found = {i \in DOMAIN entries : entries[i].object = o}
  BY DEF Dead, Matches
<1>2. Stop(o) = IF found = {} THEN Len(entries) + 1 ELSE CHOOSE i \in found : \A j \in found : i <= j
  BY DEF Stop
<1> HIDE DEF found
<1>3. CASE found = {}
  BY <1>1, <1>2, <1>3 DEF ToSet
<1>4. CASE found # {}
  <2>1. PICK i \in found : TRUE
    BY <1>4
  <2>2. \A j \in found : i = j
    BY <1>1, <2>1 DEF RegistryInv
  <2>3. i \in Nat
    BY <1>1, <2>1, EntriesDiffer
  <2>4. \E k \in found : \A j \in found : k <= j
    BY <2>1, <2>2, <2>3
  <2>5. Stop(o) \in found
    BY <1>2, <1>4, <2>4
  <2> QED
    BY <1>1, <2>5
<1> QED
  BY <1>3, <1>4

(* What wrap leaves of the registry when it gives back a known handle:     *)
(* all entries of living objects.                                          *)
LEMMA ScannedKnown ==
  ASSUME JvmTypes, RegistryInv, NEW o \in Objects, heap[o] # "collected", Known(o)
  PROVE  LET s == Scanned(o, TRUE) IN
         /\ s \in Seq(Entry) /\ OneEntryEach(s) /\ ToSet(s) \subseteq ToSet(entries)
         /\ \A e \in ToSet(entries) : ~Dead(e) => e \in ToSet(s)
<1>1. entries \in Seq(Entry) /\ OneEntryEach(entries) /\ ToSet(entries) \subseteq Entry
  BY EntriesDiffer
<1> DEFINE i == Stop(o)
           before == Kept(SubSeq(entries, 1, i - 1), LivingEntries)
           after == SubSeq(entries, i + 1, Len(entries))
           with == before \o <<entries[i]>> \o after
<1>2. i \in DOMAIN entries
  BY <1>1, StopFacts DEF Known
<1>3. Scanned(o, TRUE) = with
  BY DEF Scanned
<1>4. IsInjective(entries)
  BY <1>1 DEF OneEntryEach
<1>5. /\ with \in Seq(Entry) /\ IsInjective(with) /\ ToSet(with) \subseteq ToSet(entries)
      /\ \A e \in ToSet(entries) :
           (e \in ToSet(SubSeq(entries, 1, i - 1)) => e \in LivingEntries) => e \in ToSet(with)
  BY <1>1, <1>2, <1>4, SpliceFacts
<1> HIDE DEF with
<1>6. \A e \in ToSet(entries) : ~Dead(e) => e \in ToSet(with)
  BY <1>5 DEF LivingEntries
<1> QED
  BY <1>1, <1>3, <1>5, <1>6 DEF OneEntryEach

(* What it leaves otherwise: all entries of other living objects.          *)
LEMMA ScannedUnknown ==
  ASSUME JvmTypes, RegistryInv, NEW o \in Objects, heap[o] # "collected"
  PROVE  LET s == Scanned(o, FALSE) IN
         /\ s \in Seq(Entry) /\ OneEntryEach(s) /\ ToSet(s) \subseteq ToSet(entries)
         /\ \A e \in ToSet(s) : e.object # o
         /\ \A e \in ToSet(entries) : ~Dead(e) /\ e.object # o => e \in ToSet(s)
<1>1. entries \in Seq(Entry) /\ OneEntryEach(entries) /\ ToSet(entries) \subseteq Entry
  BY EntriesDiffer
<1> DEFINE i == Stop(o)
           left == SubSeq(entries, 1, i - 1)
           before == Kept(left, LivingEntries)
           after == SubSeq(entries, i + 1, Len(entries))
           s == Scanned(o, FALSE)
<1>2. IsInjective(entries)
  BY <1>1 DEF OneEntryEach
<1>3. CASE i \in DOMAIN entries /\ entries[i].object = o
  <2> DEFINE without == before \o after
  <2>1. /\ without \in Seq(Entry) /\ IsInjective(without)
        /\ ToSet(without) \subseteq ToSet(entries) \ {entries[i]}
        /\ \A e \in ToSet(entries) :
             e # entries[i] /\ (e \in ToSet(left) => e \in LivingEntries) => e \in ToSet(without)
    BY <1>1, <1>2, <1>3, SpliceFacts
  <2>2. left \in Seq(Entry)
    BY <1>1, <1>3, SubSeqFacts
  <2>3. before \in Seq(Entry)
    BY <2>2, KeptFacts
  <2>4. s = (before \o <<>>) \o after
    BY DEF Scanned
  <2> HIDE DEF before, after, s
  <2>5. s = without
    BY <2>3, <2>4
  <2>6. entries[i] \in ToSet(entries)
    BY <1>3 DEF ToSet
  <2> HIDE DEF without, left, i
  <2>7. \A e \in ToSet(entries) : ~Dead(e) /\ e.object # o => e \in ToSet(without)
    BY <1>3, <2>1 DEF LivingEntries
  <2>8. \A e \in ToSet(without) : e.object # o
    BY <1>1, <1>3, <2>1, <2>6 DEF OneEntryEach
  <2>9. OneEntryEach(without)
    BY <1>1, <2>1 DEF OneEntryEach
  <2> QED
    BY <2>1, <2>5, <2>7, <2>8, <2>9 DEF s
<1>4. CASE i = Len(entries) + 1 /\ \A e \in ToSet(entries) : e.object # o
  <2>1. left = entries /\ after = <<>>
    BY <1>1, <1>4
  <2>2. before \in Seq(Entry) /\ ToSet(before) = ToSet(entries) \cap LivingEntries /\ IsInjective(before)
    BY <1>1, <1>2, <2>1, KeptFacts
  <2>4. s = (before \o <<>>) \o after
    BY DEF Scanned
  <2> HIDE DEF before, after, s
  <2>5. s = before
    BY <2>1, <2>2, <2>4
  <2> QED
    BY <1>1, <1>4, <2>2, <2>5 DEF OneEntryEach, LivingEntries, s
<1> QED
  BY <1>3, <1>4, StopFacts

(*---------------------------- wrap of a result --------------------------*)
(* RegistryInv of entries es and handles hs.                               *)
RegistryOf(es, hs) ==
    /\ es \in Seq(Entry) /\ OneEntryEach(es)
    /\ \A e \in ToSet(es) : hs[e.handle] # NoHandle => hs[e.handle].object = e.object
    /\ \A h \in HandleIds : hs[h].js = "live" => [object |-> hs[h].object, handle |-> h] \in ToSet(es)

HandleTypes(hs) ==
    hs \in [HandleIds -> {NoHandle} \cup [ref : RefIds, object : Objects, js : {"live", "collected"}]]

(* RegistryOf states RegistryInv and the type of the entries.              *)
LEMMA RegistryOfEntries == JvmTypes /\ RegistryInv => RegistryOf(entries, handles)
  BY EntriesDiffer DEF RegistryOf, RegistryInv, Locks

(* The same after a step.                                                  *)
LEMMA RegistryPrimed ==
  ASSUME RegistryOf(entries', handles') PROVE RegistryInv'
<1>1. entries' \in Seq(Entry) /\ OneEntryEach(entries')
  BY DEF RegistryOf
<1>2. \A i, j \in DOMAIN entries' : entries'[i].object = entries'[j].object => i = j
  BY <1>1, OneEntry
<1> QED
  BY <1>2 DEF RegistryOf, RegistryInv, Locks

(* The object of a handle that JavaScript has is alive.                    *)
LEMMA LockedIsAlive ==
  ASSUME JvmInv, NEW h \in HandleIds, Locks(h)
  PROVE  /\ handles[h] # NoHandle /\ handles[h].ref \in RefIds /\ handles[h].object \in Objects
         /\ refs[handles[h].ref].state = "live" /\ heap[handles[h].object] # "collected"
<1>1. handles[h] # NoHandle
  BY DEF Locks, NoHandle
<1>2. handles[h] \in [ref : RefIds, object : Objects, js : {"live", "collected"}]
  BY <1>1 DEF JvmInv, JvmTypes
<1>3. /\ Owns(refs, handles[h].ref, <<"handle", h>>)
      /\ refs[handles[h].ref].object = handles[h].object
  BY <1>1 DEF JvmInv, HandlesOwn
<1>4. refs[handles[h].ref].state = "live"
  BY <1>3, OwnedIsLive DEF JvmInv
<1> QED
  BY <1>1, <1>2, <1>3, <1>4 DEF JvmInv, RefsKeepAlive

(* wrap delivers the right handle and leaves a right registry, whatever    *)
(* the scan erased on its way.                                             *)
LEMMA WrapFacts ==
  ASSUME JvmInv, NEW rs, Counted(rs), NEW lost, Keeps(refs, rs, lost),
         \A h \in HandleIds : <<"handle", h>> \notin lost,
         NEW r \in RefIds, NEW o \in Objects, NEW from, Owns(rs, r, from),
         \A h \in HandleIds : from # <<"handle", h>>,
         rs[r].object = o, heap[o] # "collected", Wrap(rs, r, o, from)
  PROVE  /\ HandleTypes(handles') /\ RegistryOf(entries', handles') /\ answer'
         /\ Counted(refs') /\ Keeps(rs, refs', {from}) /\ NoNewObjects(rs, refs')
         /\ HandlesOwn(refs)'
<1>0. /\ JvmTypes /\ RegistryInv /\ HandlesOwn(refs) /\ answer /\ Counted(refs)
      /\ HandleTypes(handles)
  BY DEF JvmInv, JvmTypes, HandleTypes
<1>r. RegistryOf(entries, handles) /\ ToSet(entries) \subseteq Entry
  BY <1>0, RegistryOfEntries, EntriesDiffer
<1>l. \A h \in HandleIds : handles[h].js = "live" =>
         ~Dead([object |-> handles[h].object, handle |-> h])
  BY LockedIsAlive DEF Locks, Dead
<1>own. \A h \in HandleIds : handles[h] # NoHandle =>
          /\ Owns(rs, handles[h].ref, <<"handle", h>>)
          /\ rs[handles[h].ref].object = handles[h].object
  BY <1>0 DEF HandlesOwn, Keeps, Owns
<1>live. rs[r].state = "live"
  BY OwnedIsLive
<1>1. CASE WrapKnown(rs, r, o, from)
  <2> DEFINE h == entries[Stop(o)].handle
  <2>1. /\ Known(o) /\ entries' = Scanned(o, TRUE) /\ refs' = Drop(rs, from)
        /\ answer' = (answer /\ handles[h].object = o) /\ handles' = handles
    BY <1>1 DEF WrapKnown
  <2>2. /\ entries' \in Seq(Entry) /\ OneEntryEach(entries') /\ ToSet(entries') \subseteq ToSet(entries)
        /\ \A e \in ToSet(entries) : ~Dead(e) => e \in ToSet(entries')
    BY <1>0, <2>1, ScannedKnown
  <2>3. RegistryOf(entries', handles')
    BY <1>r, <1>l, <2>1, <2>2 DEF RegistryOf
  <2>4. Counted(refs') /\ Keeps(rs, refs', {from}) /\ NoNewObjects(rs, refs')
    BY <2>1, DropFacts
  <2>5. HandlesOwn(refs)'
    BY <1>own, <2>1, <2>4 DEF HandlesOwn, Keeps, Owns
  <2>6. Stop(o) \in DOMAIN entries /\ entries[Stop(o)].object = o
    <3>1. Len(entries) \in Nat
      BY <1>0, EntriesDiffer
    <3> QED
      BY <1>0, <2>1, <3>1, StopFacts DEF Known
  <2>7. entries[Stop(o)] \in ToSet(entries) /\ handles[h] # NoHandle
    BY <2>1, <2>6 DEF ToSet, Known, Locks, NoHandle
  <2>8. handles[h].object = o
    BY <1>r, <2>6, <2>7 DEF RegistryOf
  <2> QED
    BY <1>0, <2>1, <2>3, <2>4, <2>5, <2>8
<1>2. ~Known(o) => \A k \in HandleIds : handles[k].js = "live" => handles[k].object # o
  <2> SUFFICES ASSUME ~Known(o), NEW k \in HandleIds, handles[k].js = "live", handles[k].object = o
               PROVE  FALSE
    OBVIOUS
  <2>1. [object |-> o, handle |-> k] \in ToSet(entries)
    BY <1>r DEF RegistryOf
  <2>2. Stop(o) \in DOMAIN entries /\ entries[Stop(o)].object = o
    BY <1>0, <2>1, StopFacts
  <2>3. entries[Stop(o)] = [object |-> o, handle |-> k]
    BY <1>r, <2>1, <2>2 DEF RegistryOf, OneEntryEach, ToSet
  <2>4. Len(entries) \in Nat /\ DOMAIN entries = 1 .. Len(entries)
    BY <1>0, EntriesDiffer
  <2> QED
    BY <2>2, <2>3, <2>4 DEF Known, Locks
<1>3. /\ Scanned(o, FALSE) \in Seq(Entry) /\ OneEntryEach(Scanned(o, FALSE))
      /\ ToSet(Scanned(o, FALSE)) \subseteq ToSet(entries)
      /\ \A e \in ToSet(Scanned(o, FALSE)) : e.object # o
      /\ \A e \in ToSet(entries) : ~Dead(e) /\ e.object # o => e \in ToSet(Scanned(o, FALSE))
  BY <1>0, ScannedUnknown
<1> DEFINE s == Scanned(o, FALSE)
<1> HIDE DEF s
<1>4. /\ s \in Seq(Entry) /\ OneEntryEach(s) /\ ToSet(s) \subseteq ToSet(entries)
      /\ \A e \in ToSet(s) : e.object # o
      /\ \A e \in ToSet(entries) : ~Dead(e) /\ e.object # o => e \in ToSet(s)
  BY <1>3 DEF s
<1>5. ~Known(o) => \A k \in HandleIds : handles[k].js = "live" =>
         [object |-> handles[k].object, handle |-> k] \in ToSet(s)
  BY <1>2, <1>4, <1>r, <1>l DEF RegistryOf
<1>6. CASE WrapFails(rs, r, o, from)
  <2>1. ~Known(o) /\ entries' = s /\ refs' = Drop(rs, from) /\ UNCHANGED <<handles, answer>>
    BY <1>6 DEF WrapFails, s
  <2>3. RegistryOf(entries', handles')
    BY <1>r, <1>4, <1>5, <2>1 DEF RegistryOf
  <2>4. Counted(refs') /\ Keeps(rs, refs', {from}) /\ NoNewObjects(rs, refs')
    BY <2>1, DropFacts
  <2>5. HandlesOwn(refs)'
    BY <1>own, <2>1, <2>4 DEF HandlesOwn, Keeps, Owns
  <2> QED
    BY <1>0, <2>1, <2>3, <2>4, <2>5
<1>7. CASE WrapNew(rs, r, o, from)
  <2>1. PICK h \in FreeHandles :
          /\ ~Known(o) /\ entries' = Append(s, [object |-> o, handle |-> h])
          /\ handles' = [handles EXCEPT ![h] = [ref |-> r, object |-> o, js |-> "live"]]
          /\ refs' = Drop(Share(rs, r, <<"handle", h>>), from)
          /\ UNCHANGED answer
    BY <1>7 DEF WrapNew, s
  <2>2. h \in HandleIds /\ handles[h] = NoHandle /\ \A e \in ToSet(entries) : e.handle # h
    BY DEF FreeHandles, ToSet
  <2> DEFINE new == [object |-> o, handle |-> h]
             ts == Share(rs, r, <<"handle", h>>)
  <2>3. new \in Entry /\ new \notin ToSet(s)
    BY <1>4, <2>2 DEF Entry
  <2>4. /\ entries' \in Seq(Entry) /\ ToSet(entries') = ToSet(s) \cup {new}
        /\ IsInjective(entries')
    BY <1>4, <2>1, <2>3, PushFacts DEF OneEntryEach
  <2>5. OneEntryEach(entries')
    BY <1>4, <2>4 DEF OneEntryEach
  <2>6. /\ handles'[h] = [ref |-> r, object |-> o, js |-> "live"]
        /\ \A k \in HandleIds : k # h => handles'[k] = handles[k]
        /\ HandleTypes(handles')
    BY <1>0, <2>1, <2>2 DEF HandleTypes
  <2>7. RegistryOf(entries', handles')
    <3>1. ASSUME NEW e \in ToSet(entries'), handles'[e.handle] # NoHandle
          PROVE  handles'[e.handle].object = e.object
      <4>1. CASE e = new
        BY <4>1, <2>6
      <4>2. CASE e \in ToSet(s)
        <5>1. e \in ToSet(entries) /\ e.handle # h /\ e.handle \in HandleIds
          BY <1>4, <1>r, <2>2, <4>2 DEF Entry
        <5> QED
          BY <5>1, <1>r, <2>6, <3>1 DEF RegistryOf
      <4> QED
        BY <2>4, <4>1, <4>2
    <3>2. ASSUME NEW k \in HandleIds, handles'[k].js = "live"
          PROVE  [object |-> handles'[k].object, handle |-> k] \in ToSet(entries')
      BY <1>5, <2>1, <2>4, <2>6, <3>2
    <3> QED
      BY <2>4, <2>5, <3>1, <3>2 DEF RegistryOf
  <2>8. /\ Counted(ts) /\ Keeps(rs, ts, {}) /\ NoNewObjects(rs, ts) /\ Owns(ts, r, <<"handle", h>>)
        /\ ts[r].object = o
    BY <1>live, ShareFacts
  <2>9. Counted(refs') /\ Keeps(ts, refs', {from}) /\ NoNewObjects(ts, refs')
    BY <2>1, <2>8, DropFacts
  <2> HIDE DEF ts
  <2>10. Keeps(rs, refs', {from}) /\ NoNewObjects(rs, refs')
    BY <2>8, <2>9 DEF Keeps, NoNewObjects
  <2>11. Owns(refs', r, <<"handle", h>>) /\ refs'[r].object = o
    BY <2>2, <2>8, <2>9 DEF Keeps
  <2>12. \A k \in HandleIds : handles'[k] # NoHandle =>
            Owns(refs', handles'[k].ref, <<"handle", k>>) /\ refs'[handles'[k].ref].object = handles'[k].object
    BY <1>own, <2>6, <2>10, <2>11 DEF Keeps, Owns
  <2>13. HandlesOwn(refs)'
    BY <2>12 DEF HandlesOwn, Owns
  <2> QED
    BY <1>0, <2>1, <2>6, <2>7, <2>9, <2>10, <2>13
<1> QED
  BY <1>1, <1>6, <1>7 DEF Wrap

(*------------------------------- the steps ------------------------------*)
CallType ==
    [pc : {"idle", "queued", "running", "coroutine", "completing"},
     receiver : RefIds \cup {0}, suspend : BOOLEAN, pending : BOOLEAN,
     result : RefIds \cup {0}, job : Objects \cup {"none"}]
HeapType == [Objects -> {"unborn", "held", "free", "collected"}]
(* A step of the heap that brings no object back and takes none away that  *)
(* was not collected.                                                      *)
HeapKeeps == heap' \in HeapType /\ \A o \in Objects : heap[o] # "collected" => heap'[o] # "collected"

(* JvmInv in the parts that a step touches.                                *)
LEMMA JvmParts ==
  JvmInv <=> /\ heap \in HeapType /\ HandleTypes(handles) /\ entries \in Seq(Entry)
             /\ calls \in [Calls -> CallType] /\ active \in BOOLEAN
             /\ Counted(refs) /\ RefsKeepAlive(refs) /\ HandlesOwn(refs)
             /\ \A c \in Calls : CallOwns(refs, c)
             /\ RegistryInv /\ answer
  BY DEF JvmInv, JvmTypes, HeapType, HandleTypes, Entry, CallType

(* What a step has to keep.                                                *)
LEMMA JvmPartsPrimed ==
  ASSUME heap' \in HeapType, HandleTypes(handles'), RegistryOf(entries', handles'),
         calls' \in [Calls -> CallType], active' \in BOOLEAN,
         Counted(refs'), RefsKeepAlive(refs)', HandlesOwn(refs)',
         \A c \in Calls : CallOwns(refs, c)', answer'
  PROVE  JvmInv'
<1>1. RegistryInv' /\ entries' \in Seq(Entry)
  BY RegistryPrimed DEF RegistryOf
<1>2. Counted(refs)'
  BY DEF Counted
<1> QED
  BY <1>1, <1>2 DEF JvmInv, JvmTypes, HeapType, HandleTypes, Entry, CallType

(* References to objects that were alive keep alive after a heap step.     *)
LEMMA KeepAliveStep ==
  ASSUME JvmInv, HeapKeeps, Counted(refs'),
         \A r \in RefIds : refs'[r].state # "none" => heap[refs'[r].object] # "collected"
  PROVE  RefsKeepAlive(refs)'
<1> SUFFICES ASSUME NEW r \in RefIds, refs'[r].state # "none"
             PROVE  heap'[refs'[r].object] # "collected"
  BY DEF RefsKeepAlive
<1>1. CountedRef(refs'[r])
  BY DEF Counted
<1>2. refs'[r].object \in Objects
  BY <1>1 DEF CountedRef, NoRef
<1> QED
  BY <1>2 DEF HeapKeeps

(* A call that the step does not touch keeps its references.               *)
LEMMA CallKept ==
  ASSUME JvmInv, HeapKeeps, NEW lost, Keeps(refs, refs', lost), NEW c \in Calls,
         <<"call", c>> \notin lost, <<"state", c>> \notin lost, calls'[c] = calls[c]
  PROVE  CallOwns(refs, c)'
<1>1. CallOwns(refs, c) /\ calls[c] \in CallType
  BY JvmParts
<1>2. /\ calls[c].pc \in {"queued", "running"} => Owns(refs', calls[c].receiver, <<"call", c>>)
      /\ calls[c].result # 0 => Owns(refs', calls[c].result, <<"state", c>>)
  BY <1>1 DEF CallOwns, Keeps, Owns
<1>3. calls[c].job # "none" => heap'[calls[c].job] # "collected"
  BY <1>1 DEF CallOwns, CallType, HeapKeeps
<1> QED
  BY <1>2, <1>3 DEF CallOwns, Owns

(* So do the handles that it does not touch.                               *)
LEMMA HandlesKept ==
  ASSUME JvmInv, NEW lost, Keeps(refs, refs', lost), UNCHANGED handles,
         \A h \in HandleIds : <<"handle", h>> \notin lost
  PROVE  HandlesOwn(refs)'
<1>1. \A h \in HandleIds : handles[h] # NoHandle =>
          Owns(refs', handles[h].ref, <<"handle", h>>) /\ refs'[handles[h].ref].object = handles[h].object
  BY JvmParts DEF HandlesOwn, Keeps, Owns
<1> QED
  BY <1>1 DEF HandlesOwn, Owns

(* A step that leaves the handles and the registry alone.                  *)
LEMMA QuietStep ==
  ASSUME JvmInv, HeapKeeps, NEW lost, Counted(refs'), Keeps(refs, refs', lost),
         \A h \in HandleIds : <<"handle", h>> \notin lost,
         \A r \in RefIds : refs'[r].state # "none" => heap[refs'[r].object] # "collected",
         UNCHANGED <<handles, entries, answer>>, active' \in BOOLEAN,
         calls' \in [Calls -> CallType],
         \A c \in Calls : \/ CallOwns(refs, c)'
                          \/ /\ calls'[c] = calls[c]
                             /\ <<"call", c>> \notin lost /\ <<"state", c>> \notin lost
  PROVE  JvmInv'
<1>1. RegistryOf(entries', handles') /\ HandleTypes(handles') /\ answer'
  BY JvmParts, RegistryOfEntries DEF JvmInv
<1>2. RefsKeepAlive(refs)'
  BY KeepAliveStep
<1>3. HandlesOwn(refs)'
  BY HandlesKept
<1>4. \A c \in Calls : CallOwns(refs, c)'
  BY CallKept
<1> QED
  BY <1>1, <1>2, <1>3, <1>4, JvmPartsPrimed DEF HeapKeeps

(* Nothing is lost if nothing changes.                                     *)
LEMMA SameRefs ==
  ASSUME JvmInv, UNCHANGED refs
  PROVE  /\ Counted(refs') /\ Keeps(refs, refs', {}) /\ NoNewObjects(refs, refs')
  BY JvmParts DEF Keeps, NoNewObjects, Owns

(* Nor does an untouched heap take an object away.                         *)
LEMMA SameHeap == JvmInv /\ UNCHANGED heap => HeapKeeps
  BY JvmParts DEF HeapKeeps

(* References to known objects keep only living objects.                   *)
LEMMA StillAlive ==
  ASSUME JvmInv, NEW rs, NoNewObjects(refs, rs)
  PROVE  \A r \in RefIds : rs[r].state # "none" => heap[rs[r].object] # "collected"
  BY JvmParts DEF NoNewObjects, RefsKeepAlive

(* A step in which no holder goes and only the heap or `active' changes.   *)
LEMMA IdleStep ==
  ASSUME JvmInv, HeapKeeps, Counted(refs'), Keeps(refs, refs', {}), NoNewObjects(refs, refs'),
         UNCHANGED <<handles, entries, calls, answer>>, active' \in BOOLEAN
  PROVE  JvmInv'
<1>1. \A r \in RefIds : refs'[r].state # "none" => heap[refs'[r].object] # "collected"
  BY StillAlive
<1>2. calls' \in [Calls -> CallType] /\ \A c \in Calls : calls'[c] = calls[c]
  BY JvmParts
<1> DEFINE lost == {}
<1>3. /\ \A h \in HandleIds : <<"handle", h>> \notin lost
      /\ \A c \in Calls : <<"call", c>> \notin lost /\ <<"state", c>> \notin lost
      /\ Keeps(refs, refs', lost)
  OBVIOUS
<1> HIDE DEF lost
<1> QED
  BY <1>1, <1>2, <1>3, QuietStep

(* The references of a call that ends.                                     *)
LEMMA ReleasedFacts ==
  ASSUME NEW rs, Counted(rs), NEW c
  PROVE  /\ Counted(Released(rs, c)) /\ NoNewObjects(rs, Released(rs, c))
         /\ Keeps(rs, Released(rs, c), {<<"call", c>>, <<"state", c>>})
<1> DEFINE ts == Drop(rs, <<"call", c>>)
           us == Drop(ts, <<"state", c>>)
<1>1. Counted(ts) /\ Keeps(rs, ts, {<<"call", c>>}) /\ NoNewObjects(rs, ts)
  BY DropFacts
<1>2. Counted(us) /\ Keeps(ts, us, {<<"state", c>>}) /\ NoNewObjects(ts, us)
  BY <1>1, DropFacts
<1> HIDE DEF ts, us
<1>3. Keeps(rs, us, {<<"call", c>>, <<"state", c>>}) /\ NoNewObjects(rs, us)
  BY <1>1, <1>2 DEF Keeps, NoNewObjects
<1> QED
  BY <1>2, <1>3 DEF Released, ts, us

(* The holders of a call are no handle's, and no other call's.             *)
LEMMA CallHolders ==
  ASSUME NEW c \in Calls
  PROVE  /\ \A h \in HandleIds : <<"handle", h>> \notin {<<"call", c>>, <<"state", c>>}
         /\ \A d \in Calls : d # c =>
              /\ <<"call", d>> \notin {<<"call", c>>, <<"state", c>>}
              /\ <<"state", d>> \notin {<<"call", c>>, <<"state", c>>}
  OBVIOUS

(* Steps that give up or share a reference.                                *)
LEMMA ReferenceSteps ==
  ASSUME JvmInv,
         \/ \E r \in RefIds : DeleteRef(r) \/ DropFunction(r)
         \/ \E h \in HandleIds : GetMethod(h)
  PROVE  JvmInv'
<1>0. Counted(refs) /\ calls \in [Calls -> CallType] /\ active \in BOOLEAN
  BY JvmParts
<1>1. ASSUME NEW r \in RefIds, DeleteRef(r) PROVE JvmInv'
  <2>1. /\ refs[r].state = "queued" /\ refs' = [refs EXCEPT ![r] = NoRef]
        /\ UNCHANGED <<heap, handles, entries, calls, active, answer>>
    BY <1>1 DEF DeleteRef
  <2>2. DOMAIN refs = RefIds /\ CountedRef(refs[r])
    BY <1>0 DEF Counted
  <2>3. refs[r].holders = {}
    BY <2>1, <2>2 DEF CountedRef, NoRef
  <2>4. refs'[r] = NoRef /\ DOMAIN refs' = RefIds /\ \A q \in RefIds : q # r => refs'[q] = refs[q]
    BY <2>1, <2>2
  <2>5. Counted(refs') /\ Keeps(refs, refs', {}) /\ NoNewObjects(refs, refs')
    BY <1>0, <2>3, <2>4 DEF Counted, CountedRef, Keeps, NoNewObjects, Owns, NoRef
  <2> QED
    BY <1>0, <2>1, <2>5, SameHeap, IdleStep
<1>2. ASSUME NEW r \in RefIds, DropFunction(r) PROVE JvmInv'
  <2> DEFINE lost == {<<"function", r>>}
  <2>1. refs' = Drop(refs, <<"function", r>>) /\ UNCHANGED <<heap, handles, entries, calls, active, answer>>
    BY <1>2 DEF DropFunction
  <2>2. Counted(refs') /\ Keeps(refs, refs', lost) /\ NoNewObjects(refs, refs')
    BY <1>0, <2>1, DropFacts
  <2>3. /\ \A h \in HandleIds : <<"handle", h>> \notin lost
        /\ \A c \in Calls : <<"call", c>> \notin lost /\ <<"state", c>> \notin lost
    OBVIOUS
  <2> HIDE DEF lost
  <2> QED
    BY <1>0, <2>1, <2>2, <2>3, SameHeap, StillAlive, QuietStep
<1>3. ASSUME NEW h \in HandleIds, GetMethod(h) PROVE JvmInv'
  <2>1. /\ refs' = Share(refs, handles[h].ref, <<"function", handles[h].ref>>)
        /\ Locks(h) /\ UNCHANGED <<heap, handles, entries, calls, active, answer>>
    BY <1>3 DEF GetMethod
  <2>2. Counted(refs') /\ Keeps(refs, refs', {}) /\ NoNewObjects(refs, refs')
    BY <1>0, <2>1, ShareFacts, LockedIsAlive
  <2> QED
    BY <1>0, <2>1, <2>2, SameHeap, IdleStep
<1> QED
  BY <1>1, <1>2, <1>3

(* The collectors, finalizers and the implementation's own references.     *)
LEMMA HeapSteps ==
  ASSUME JvmInv,
         \/ CloseFeature
         \/ \E o \in Objects : Forget(o) \/ CollectObject(o)
         \/ \E h, k \in HandleIds : SetField(h, k)
  PROVE  JvmInv'
<1>0. Counted(refs) /\ calls \in [Calls -> CallType] /\ active \in BOOLEAN /\ heap \in HeapType
  BY JvmParts
<1>1. CASE CloseFeature
  BY <1>0, <1>1, SameHeap, SameRefs, IdleStep DEF CloseFeature
<1>2. ASSUME NEW o \in Objects, Forget(o) PROVE JvmInv'
  <2>1. HeapKeeps /\ UNCHANGED <<refs, handles, entries, calls, active, answer>>
    BY <1>0, <1>2 DEF Forget, HeapKeeps, HeapType
  <2> QED
    BY <1>0, <2>1, SameRefs, IdleStep
<1>3. ASSUME NEW h \in HandleIds, NEW k \in HandleIds, SetField(h, k) PROVE JvmInv'
  <2>1. handles[k].object \in Objects
    BY <1>3, LockedIsAlive DEF SetField
  <2>2. HeapKeeps /\ UNCHANGED <<refs, handles, entries, calls, active, answer>>
    BY <1>0, <1>3, <2>1 DEF SetField, HeapKeeps, HeapType
  <2> QED
    BY <1>0, <2>2, SameRefs, IdleStep
<1>4. ASSUME NEW o \in Objects, CollectObject(o) PROVE JvmInv'
  <2>1. /\ \A r \in RefIds : refs[r].object # o
        /\ \A c \in Calls : calls[c].job # o
        /\ heap' \in HeapType /\ \A p \in Objects : p # o => heap'[p] = heap[p]
        /\ UNCHANGED <<refs, handles, entries, calls, active, answer>>
    BY <1>0, <1>4 DEF CollectObject, HeapType
  <2>2. RegistryOf(entries', handles') /\ HandleTypes(handles') /\ answer' /\ Counted(refs')
    BY <2>1, JvmParts, RegistryOfEntries DEF JvmInv
  <2>3. RefsKeepAlive(refs)'
    <3> SUFFICES ASSUME NEW r \in RefIds, refs[r].state # "none"
                 PROVE  heap'[refs[r].object] # "collected"
      BY <2>1 DEF RefsKeepAlive
    <3>1. CountedRef(refs[r]) /\ heap[refs[r].object] # "collected"
      BY <1>0, JvmParts DEF Counted, RefsKeepAlive
    <3>2. refs[r].object \in Objects
      BY <3>1 DEF CountedRef, NoRef
    <3> QED
      BY <2>1, <3>1, <3>2
  <2>4. HandlesOwn(refs)'
    BY <2>1, JvmParts DEF HandlesOwn, Owns
  <2>5. ASSUME NEW c \in Calls PROVE CallOwns(refs, c)'
    <3>1. CallOwns(refs, c) /\ calls[c] \in CallType
      BY JvmParts
    <3>2. calls[c].job # "none" => heap'[calls[c].job] # "collected"
      BY <2>1, <3>1 DEF CallOwns, CallType
    <3> QED
      BY <2>1, <3>1, <3>2 DEF CallOwns, Owns
  <2> QED
    BY <1>0, <2>1, <2>2, <2>3, <2>4, <2>5, JvmPartsPrimed
<1> QED
  BY <1>1, <1>2, <1>3, <1>4

(* A handle that JavaScript lost, and its destructor.                      *)
LEMMA HandleSteps ==
  ASSUME JvmInv, NEW h \in HandleIds, CollectHandle(h) \/ FinalizeHandle(h)
  PROVE  JvmInv'
<1>0. /\ Counted(refs) /\ calls \in [Calls -> CallType] /\ active \in BOOLEAN
      /\ HandleTypes(handles) /\ answer /\ HandlesOwn(refs) /\ ToSet(entries) \subseteq Entry
      /\ RegistryOf(entries, handles)
  BY JvmParts, RegistryOfEntries, EntriesDiffer DEF JvmInv
<1>1. CASE CollectHandle(h)
  <2>1. /\ handles' = [handles EXCEPT ![h].js = "collected"] /\ Locks(h)
        /\ UNCHANGED <<heap, refs, entries, calls, active, answer>>
    BY <1>1 DEF CollectHandle
  <2>2. handles[h] \in [ref : RefIds, object : Objects, js : {"live", "collected"}]
    BY <1>0, <2>1, LockedIsAlive DEF HandleTypes
  <2>3. /\ HandleTypes(handles') /\ handles'[h].ref = handles[h].ref
        /\ handles'[h].object = handles[h].object /\ handles'[h].js = "collected"
        /\ \A k \in HandleIds : k # h => handles'[k] = handles[k]
        /\ handles[h] # NoHandle
    BY <1>0, <2>1, <2>2, LockedIsAlive DEF HandleTypes
  <2>4. RegistryOf(entries', handles')
    <3>1. \A e \in ToSet(entries) : e.handle \in HandleIds
      BY <1>0 DEF Entry
    <3> QED
      BY <1>0, <2>1, <2>3, <3>1 DEF RegistryOf
  <2>5. HandlesOwn(refs)'
    BY <1>0, <2>1, <2>3 DEF HandlesOwn, Owns
  <2>6. RefsKeepAlive(refs)' /\ \A c \in Calls : CallOwns(refs, c)'
    BY <2>1, JvmParts DEF RefsKeepAlive, CallOwns, Owns
  <2> QED
    BY <1>0, <2>1, <2>3, <2>4, <2>5, <2>6, JvmParts, JvmPartsPrimed
<1>2. CASE FinalizeHandle(h)
  <2> DEFINE lost == {<<"handle", h>>}
  <2>1. /\ handles' = [handles EXCEPT ![h] = NoHandle] /\ handles[h].js = "collected"
        /\ refs' = Drop(refs, <<"handle", h>>)
        /\ UNCHANGED <<heap, entries, calls, active, answer>>
    BY <1>2 DEF FinalizeHandle
  <2>2. /\ HandleTypes(handles') /\ handles'[h] = NoHandle
        /\ \A k \in HandleIds : k # h => handles'[k] = handles[k]
    BY <1>0, <2>1 DEF HandleTypes
  <2>3. Counted(refs') /\ Keeps(refs, refs', lost) /\ NoNewObjects(refs, refs')
    BY <1>0, <2>1, DropFacts
  <2>4. /\ \A k \in HandleIds : k # h => <<"handle", k>> \notin lost
        /\ \A c \in Calls : <<"call", c>> \notin lost /\ <<"state", c>> \notin lost
    OBVIOUS
  <2> HIDE DEF lost
  <2>5. RegistryOf(entries', handles')
    <3>1. \A e \in ToSet(entries) : e.handle \in HandleIds
      BY <1>0 DEF Entry
    <3> QED
      BY <1>0, <2>1, <2>2, <3>1 DEF RegistryOf, NoHandle
  <2>6. HandlesOwn(refs)'
    <3>1. \A k \in HandleIds : handles'[k] # NoHandle =>
             Owns(refs', handles'[k].ref, <<"handle", k>>) /\ refs'[handles'[k].ref].object = handles'[k].object
      BY <1>0, <2>2, <2>3, <2>4 DEF HandlesOwn, Keeps, Owns
    <3> QED
      BY <3>1 DEF HandlesOwn, Owns
  <2>7. HeapKeeps /\ RefsKeepAlive(refs)'
    BY <2>1, <2>3, SameHeap, StillAlive, KeepAliveStep
  <2>8. \A c \in Calls : CallOwns(refs, c)'
    BY <2>1, <2>3, <2>4, <2>7, CallKept
  <2> QED
    BY <1>0, <2>1, <2>2, <2>3, <2>5, <2>6, <2>7, <2>8, JvmPartsPrimed DEF HeapKeeps
<1> QED
  BY <1>1, <1>2

(* A new reference for an object that is alive.                            *)
LEMMA RetainKeeps ==
  ASSUME JvmInv, FreeRefs(refs) # {}, NEW o \in Objects, heap[o] # "collected", NEW holder
  PROVE  LET g == CHOOSE g \in FreeRefs(refs) : TRUE
             rs == RetainGlobal(refs, g, o, holder)
         IN  /\ g \in RefIds /\ Counted(rs) /\ Keeps(refs, rs, {})
             /\ Owns(rs, g, holder) /\ rs[g].object = o
             /\ \A r \in RefIds : rs[r].state # "none" => heap[rs[r].object] # "collected"
<1> DEFINE g == CHOOSE g \in FreeRefs(refs) : TRUE
           rs == RetainGlobal(refs, g, o, holder)
<1>1. g \in FreeRefs(refs) /\ Counted(refs)
  BY JvmParts
<1> HIDE DEF g
<1>2. /\ Counted(rs) /\ Keeps(refs, rs, {}) /\ Owns(rs, g, holder) /\ rs[g].object = o
      /\ \A r \in RefIds : r # g => rs[r] = refs[r]
  BY <1>1, RetainFacts
<1> HIDE DEF rs
<1>3. \A r \in RefIds : rs[r].state # "none" => heap[rs[r].object] # "collected"
  BY <1>2, JvmParts DEF RefsKeepAlive
<1> QED
  BY <1>1, <1>2, <1>3 DEF rs, g, FreeRefs

(* Keep leaves the object alive.                                           *)
LEMMA KeepFacts == ASSUME JvmInv, NEW o \in Objects, Keep(o) PROVE HeapKeeps
  BY JvmParts DEF Keep, HeapKeeps, HeapType

(* A reference that has a holder keeps its object from being collected.    *)
LEMMA OwnedIsAlive ==
  ASSUME JvmInv, NEW r, NEW x, Owns(refs, r, x)
  PROVE  r \in RefIds /\ refs[r].object \in Objects /\ heap[refs[r].object] # "collected"
<1>1. r \in RefIds /\ refs[r].state = "live" /\ refs[r].object \in Objects
  BY OwnedIsLive, JvmParts
<1> QED
  BY <1>1, JvmParts DEF RefsKeepAlive

(* What an implementation can return has not been collected.               *)
LEMMA ReturnsAlive ==
  ASSUME JvmInv, NEW o \in Objects, NEW receiver, Returns(o, receiver),
         receiver \in Objects => heap[receiver] # "collected"
  PROVE  heap[o] # "collected"
  BY DEF Returns

(* A result that is wrapped at once.                                       *)
LEMMA WrapNow ==
  ASSUME JvmInv, HeapKeeps, NEW o \in Objects, heap[o] # "collected", FreeRefs(refs) # {},
         LET g == CHOOSE g \in FreeRefs(refs) : TRUE
         IN  Wrap(RetainGlobal(refs, g, o, <<"result", 0>>), g, o, <<"result", 0>>),
         UNCHANGED <<calls, active>>
  PROVE  JvmInv'
<1> DEFINE g == CHOOSE g \in FreeRefs(refs) : TRUE
           from == <<"result", 0>>
           rs == RetainGlobal(refs, g, o, from)
           lost == {}
<1>1. /\ g \in RefIds /\ Counted(rs) /\ Keeps(refs, rs, lost)
      /\ Owns(rs, g, from) /\ rs[g].object = o
      /\ \A r \in RefIds : rs[r].state # "none" => heap[rs[r].object] # "collected"
  BY RetainKeeps
<1>2. Wrap(rs, g, o, from)
  OBVIOUS
<1>3. /\ \A h \in HandleIds : <<"handle", h>> \notin lost /\ from # <<"handle", h>>
      /\ \A c \in Calls : <<"call", c>> \notin {from} /\ <<"state", c>> \notin {from}
      /\ \A x : x \notin lost
  OBVIOUS
<1> HIDE DEF g, from, rs, lost
<1>4. /\ HandleTypes(handles') /\ RegistryOf(entries', handles') /\ answer'
      /\ Counted(refs') /\ Keeps(rs, refs', {from}) /\ NoNewObjects(rs, refs')
      /\ HandlesOwn(refs)'
  BY <1>1, <1>2, <1>3, WrapFacts
<1>5. Keeps(refs, refs', {from})
  BY <1>1, <1>3, <1>4 DEF Keeps
<1>6. RefsKeepAlive(refs)'
  BY <1>1, <1>4, KeepAliveStep DEF NoNewObjects
<1>7. \A c \in Calls : CallOwns(refs, c)'
  BY <1>3, <1>5, CallKept
<1> QED
  BY <1>4, <1>6, <1>7, JvmParts, JvmPartsPrimed DEF HeapKeeps

(* Synchronous calls and fields.                                           *)
LEMMA SyncSteps ==
  ASSUME JvmInv, NEW o \in Objects,
         \/ \E h \in HandleIds : GetField(h, o)
         \/ \E r \in RefIds \cup {0} : CallSync(r, o)
  PROVE  JvmInv'
<1>1. ASSUME NEW h \in HandleIds, GetField(h, o) PROVE JvmInv'
  <2>1. heap[o] = "held" /\ HeapKeeps
    BY <1>1, SameHeap DEF GetField
  <2> QED
    BY <1>1, <2>1, WrapNow DEF GetField
<1>2. ASSUME NEW r \in RefIds \cup {0}, CallSync(r, o) PROVE JvmInv'
  <2>1. HeapKeeps
    BY <1>2, KeepFacts DEF CallSync
  <2>2. heap[o] # "collected"
    <3>1. CASE r = 0
      BY <1>2, <3>1, ReturnsAlive, JvmObjectsAssumption DEF CallSync
    <3>2. CASE r # 0
      <4>1. Owns(refs, r, <<"function", r>>) /\ Returns(o, refs[r].object)
        BY <1>2, <3>2 DEF CallSync, Callable, Owns
      <4> QED
        BY <4>1, OwnedIsAlive, ReturnsAlive
    <3> QED
      BY <3>1, <3>2
  <2> QED
    BY <1>2, <2>1, <2>2, WrapNow DEF CallSync
<1> QED
  BY <1>1, <1>2

(* A step of one call that leaves the handles and the registry alone.      *)
LEMMA CallStep ==
  ASSUME JvmInv, HeapKeeps, NEW c \in Calls, NEW ct \in CallType, Set(c, ct),
         Counted(refs'), Keeps(refs, refs', {<<"call", c>>, <<"state", c>>}),
         \A r \in RefIds : refs'[r].state # "none" => heap[refs'[r].object] # "collected",
         ct.pc \in {"queued", "running"} => Owns(refs', ct.receiver, <<"call", c>>),
         ct.result # 0 => Owns(refs', ct.result, <<"state", c>>),
         ct.job # "none" => heap'[ct.job] # "collected",
         UNCHANGED <<handles, entries, answer>>, active' \in BOOLEAN
  PROVE  JvmInv'
<1> DEFINE lost == {<<"call", c>>, <<"state", c>>}
<1>1. /\ \A h \in HandleIds : <<"handle", h>> \notin lost
      /\ \A d \in Calls : d # c => <<"call", d>> \notin lost /\ <<"state", d>> \notin lost
      /\ Keeps(refs, refs', lost)
  BY CallHolders
<1> HIDE DEF lost
<1>2. /\ calls' \in [Calls -> CallType] /\ calls'[c] = ct
      /\ \A d \in Calls : d # c => calls'[d] = calls[d]
  BY JvmParts DEF Set
<1>3. CallOwns(refs, c)'
  BY <1>2 DEF CallOwns, Owns
<1> QED
  BY <1>1, <1>2, <1>3, QuietStep

(* A set of lost holders may be taken larger.                              *)
LEMMA KeepsMore ==
  ASSUME NEW rs, NEW ts, NEW lost, NEW more, Keeps(rs, ts, lost), lost \subseteq more
  PROVE  Keeps(rs, ts, more)
  BY DEF Keeps

(* One call has one type and one owner of its references.                  *)
LEMMA OneCall ==
  ASSUME JvmInv, NEW c \in Calls
  PROVE  /\ calls[c] \in CallType /\ CallOwns(refs, c) /\ active \in BOOLEAN
         /\ Idle(c) \in CallType /\ Idle(c).pc = "idle" /\ Idle(c).result = 0
         /\ Idle(c).job = calls[c].job
         /\ Counted(refs)
<1>1. calls[c] \in CallType /\ CallOwns(refs, c) /\ active \in BOOLEAN /\ Counted(refs)
  BY JvmParts
<1> QED
  BY <1>1 DEF Idle, NoCall, CallType

(* The references as they are, or those of a call released.                *)
LEMMA CallRefs ==
  ASSUME JvmInv, NEW c \in Calls, refs' \in {refs, Released(refs, c)}
  PROVE  /\ Counted(refs') /\ Keeps(refs, refs', {<<"call", c>>, <<"state", c>>})
         /\ \A r \in RefIds : refs'[r].state # "none" => heap[refs'[r].object] # "collected"
<1>1. Counted(refs)
  BY JvmParts
<1>2. CASE refs' = refs
  <2>1. Keeps(refs, refs', {}) /\ NoNewObjects(refs, refs')
    BY <1>2, SameRefs
  <2>2. {} \subseteq {<<"call", c>>, <<"state", c>>}
    OBVIOUS
  <2> QED
    BY <1>1, <1>2, <2>1, <2>2, KeepsMore, StillAlive
<1>3. CASE refs' = Released(refs, c)
  <2>1. /\ Counted(refs') /\ Keeps(refs, refs', {<<"call", c>>, <<"state", c>>})
        /\ NoNewObjects(refs, refs')
    BY <1>1, <1>3, ReleasedFacts
  <2> QED
    BY <2>1, StillAlive
<1> QED
  BY <1>2, <1>3

(* A call is accepted: it holds its receiver from now on.                  *)
LEMMA AcceptStep ==
  ASSUME JvmInv, NEW c \in Calls, NEW r \in RefIds, NEW suspend \in BOOLEAN,
         NEW accepted \in BOOLEAN, CallAsync(c, r, suspend, accepted)
  PROVE  JvmInv'
<1> DEFINE ct == [NoCall EXCEPT !.pc = IF accepted THEN "queued" ELSE "completing",
                                !.receiver = r, !.suspend = suspend, !.pending = TRUE]
<1>1. /\ refs' = Share(refs, r, <<"call", c>>) /\ Set(c, ct) /\ Callable(r)
      /\ UNCHANGED <<heap, handles, entries, active, answer>>
  BY DEF CallAsync, RetainInputs
<1>2. Counted(refs) /\ active \in BOOLEAN
  BY JvmParts
<1>3. refs[r].state = "live"
  <2>1. Owns(refs, r, <<"function", r>>)
    BY <1>1 DEF Callable, Owns
  <2> QED
    BY <1>2, <2>1, OwnedIsLive
<1>4. Counted(refs') /\ Keeps(refs, refs', {}) /\ NoNewObjects(refs, refs') /\ Owns(refs', r, <<"call", c>>)
  BY <1>1, <1>2, <1>3, ShareFacts
<1>5. {} \subseteq {<<"call", c>>, <<"state", c>>}
  OBVIOUS
<1>6. Keeps(refs, refs', {<<"call", c>>, <<"state", c>>})
  BY <1>4, <1>5, KeepsMore
<1>7. ct \in CallType /\ ct.receiver = r /\ ct.result = 0 /\ ct.job = "none"
  BY DEF CallType, NoCall
<1> HIDE DEF ct
<1> QED
  BY <1>1, <1>2, <1>4, <1>6, <1>7, StillAlive, SameHeap, CallStep

(* The steps of a call that retain nothing.                                *)
LEMMA PassingSteps ==
  ASSUME JvmInv, NEW c \in Calls,
         \/ WorkerStart(c) \/ WorkerFails(c) \/ WorkerLaunch(c) \/ NativeFails(c)
         \/ JobEnds(c) \/ Cancel(c)
  PROVE  JvmInv'
<1>0. /\ calls[c] \in CallType /\ CallOwns(refs, c) /\ active \in BOOLEAN
      /\ Idle(c) \in CallType /\ Idle(c).pc = "idle" /\ Idle(c).result = 0
      /\ Idle(c).job = calls[c].job
  BY OneCall
<1>1. ASSUME UNCHANGED <<heap, handles, entries, answer>>, active' \in BOOLEAN,
             refs' \in {refs, Released(refs, c)}, NEW ct \in CallType, Set(c, ct),
             \/ /\ refs' = refs /\ ct.receiver = calls[c].receiver /\ ct.result = calls[c].result
                /\ ct.pc \in {"queued", "running"} => calls[c].pc \in {"queued", "running"}
             \/ ct.pc = "idle" /\ ct.result = 0,
             ct.job # "none" => heap[ct.job] # "collected"
      PROVE  JvmInv'
  <2>1. /\ Counted(refs') /\ Keeps(refs, refs', {<<"call", c>>, <<"state", c>>})
        /\ \A r \in RefIds : refs'[r].state # "none" => heap[refs'[r].object] # "collected"
    BY <1>1, CallRefs
  <2>2. /\ ct.pc \in {"queued", "running"} => Owns(refs', ct.receiver, <<"call", c>>)
        /\ ct.result # 0 => Owns(refs', ct.result, <<"state", c>>)
        /\ ct.job # "none" => heap'[ct.job] # "collected"
    BY <1>0, <1>1 DEF CallOwns
  <2> QED
    BY <1>1, <2>1, <2>2, SameHeap, CallStep
<1>2. CASE WorkerStart(c)
  <2> DEFINE ct == [calls[c] EXCEPT !.pc = "running"]
  <2>1. ct \in CallType /\ ct.receiver = calls[c].receiver /\ ct.result = calls[c].result /\ ct.job = calls[c].job
        /\ calls[c].pc = "queued" /\ Set(c, ct) /\ UNCHANGED <<heap, refs, handles, entries, active, answer>>
    BY <1>0, <1>2 DEF WorkerStart, CallType
  <2> HIDE DEF ct
  <2> QED
    BY <1>0, <1>1, <2>1 DEF CallOwns
<1>3. ASSUME Failure(c) PROVE JvmInv'
  <2>1. CASE calls[c].pending
    <3> DEFINE ct == [calls[c] EXCEPT !.pc = "completing", !.job = "none"]
    <3>1. /\ ct \in CallType /\ ct.receiver = calls[c].receiver /\ ct.result = calls[c].result
          /\ ct.job = "none" /\ ct.pc = "completing"
          /\ Set(c, ct) /\ UNCHANGED <<heap, refs, handles, entries, active, answer>>
      BY <1>0, <1>3, <2>1 DEF Failure, CallType
    <3> HIDE DEF ct
    <3> QED
      BY <1>0, <1>1, <3>1
  <2>2. CASE ~calls[c].pending
    <3> DEFINE ct == [Idle(c) EXCEPT !.job = "none"]
    <3>1. /\ ct \in CallType /\ ct.result = 0 /\ ct.job = "none" /\ ct.pc = "idle"
          /\ Set(c, ct) /\ refs' = Released(refs, c)
          /\ UNCHANGED <<heap, handles, entries, active, answer>>
      BY <1>0, <1>3, <2>2 DEF Failure, CallType
    <3> HIDE DEF ct
    <3> QED
      BY <1>0, <1>1, <3>1
  <2> QED
    BY <2>1, <2>2
<1>4. CASE WorkerLaunch(c)
  <2> DEFINE o == Receiver(c)
  <2>0. Owns(refs, calls[c].receiver, <<"call", c>>)
    BY <1>0, <1>4 DEF WorkerLaunch, CallOwns
  <2>1. o \in Objects /\ heap[o] # "collected"
    BY <2>0, OwnedIsAlive DEF Receiver
  <2> HIDE DEF o
  <2>2. CASE calls[c].pending
    <3> DEFINE ct == [calls[c] EXCEPT !.pc = "coroutine", !.job = o]
    <3>1. /\ ct \in CallType /\ ct.receiver = calls[c].receiver /\ ct.result = calls[c].result
          /\ ct.job = o /\ ct.pc = "coroutine"
      BY <1>0, <2>1 DEF CallType
    <3>2. Set(c, ct) /\ UNCHANGED <<heap, refs, handles, entries, active, answer>>
      BY <1>4, <2>2 DEF WorkerLaunch, o
    <3> HIDE DEF ct
    <3> QED
      BY <1>0, <1>1, <2>1, <3>1, <3>2
  <2>3. CASE ~calls[c].pending
    <3> DEFINE ct == [Idle(c) EXCEPT !.job = o]
    <3>1. ct \in CallType /\ ct.result = 0 /\ ct.job = o /\ ct.pc = "idle"
      BY <1>0, <2>1 DEF CallType
    <3>2. Set(c, ct) /\ refs' = Released(refs, c) /\ UNCHANGED <<heap, handles, entries, active, answer>>
      BY <1>4, <2>3 DEF WorkerLaunch, o
    <3> HIDE DEF ct
    <3> QED
      BY <1>0, <1>1, <2>1, <3>1, <3>2
  <2> QED
    BY <2>2, <2>3
<1>5. CASE JobEnds(c)
  <2> DEFINE ct == [calls[c] EXCEPT !.job = "none"]
  <2>1. /\ ct \in CallType /\ ct.receiver = calls[c].receiver /\ ct.result = calls[c].result
        /\ ct.job = "none" /\ ct.pc = "idle"
        /\ Set(c, ct) /\ UNCHANGED <<heap, refs, handles, entries, active, answer>>
    BY <1>0, <1>5 DEF JobEnds, CallType
  <2> HIDE DEF ct
  <2> QED
    BY <1>0, <1>1, <2>1
<1>6. CASE Cancel(c)
  <2>1. CASE calls[c].pc \in {"queued", "coroutine"}
    <3>1. Set(c, Idle(c)) /\ refs' = Released(refs, c) /\ UNCHANGED <<heap, handles, entries, active, answer>>
      BY <1>6, <2>1 DEF Cancel
    <3> QED
      BY <1>0, <1>1, <3>1 DEF CallOwns
  <2>2. CASE calls[c].pc \notin {"queued", "coroutine"}
    <3> DEFINE ct == [calls[c] EXCEPT !.pending = FALSE]
    <3>1. /\ ct \in CallType /\ ct.receiver = calls[c].receiver /\ ct.result = calls[c].result
          /\ ct.job = calls[c].job /\ ct.pc = calls[c].pc
          /\ Set(c, ct) /\ UNCHANGED <<heap, refs, handles, entries, active, answer>>
      BY <1>0, <1>6, <2>2 DEF Cancel, CallType
    <3> HIDE DEF ct
    <3> QED
      BY <1>0, <1>1, <3>1 DEF CallOwns
  <2> QED
    BY <2>1, <2>2
<1> QED
  BY <1>2, <1>3, <1>4, <1>5, <1>6 DEF WorkerFails, NativeFails

(* An implementation has returned: the result waits, or is dropped.        *)
LEMMA ResultStep ==
  ASSUME JvmInv, NEW c \in Calls, NEW o \in Objects, heap[o] # "collected", Result(c, o)
  PROVE  JvmInv'
<1> DEFINE g == CHOOSE g \in FreeRefs(refs) : TRUE
           rs == RetainGlobal(refs, g, o, <<"state", c>>)
           lost == {<<"call", c>>, <<"state", c>>}
<1>1. /\ g \in RefIds /\ Counted(rs) /\ Keeps(refs, rs, {})
      /\ Owns(rs, g, <<"state", c>>)
      /\ \A r \in RefIds : rs[r].state # "none" => heap[rs[r].object] # "collected"
  BY RetainKeeps DEF Result
<1>2. HeapKeeps /\ UNCHANGED <<handles, entries, active, answer>>
  BY KeepFacts DEF Result
<1>3. /\ calls[c] \in CallType /\ active \in BOOLEAN
      /\ Idle(c) \in CallType /\ Idle(c).pc = "idle" /\ Idle(c).result = 0
  BY OneCall
<1>4. CASE calls[c].pending
  <2> DEFINE ct == [calls[c] EXCEPT !.pc = "completing", !.result = g, !.job = "none"]
  <2>1. refs' = rs /\ Set(c, ct)
    BY <1>4 DEF Result
  <2> HIDE DEF g, rs
  <2>2. ct \in CallType /\ ct.pc = "completing" /\ ct.result = g /\ ct.job = "none"
    BY <1>1, <1>3 DEF CallType
  <2>3. {} \subseteq lost
    OBVIOUS
  <2>4. Keeps(refs, refs', lost)
    BY <1>1, <2>1, <2>3, KeepsMore
  <2> HIDE DEF ct
  <2> QED
    BY <1>1, <1>2, <1>3, <2>1, <2>2, <2>4, CallStep
<1>5. CASE ~calls[c].pending
  <2> DEFINE ct == [Idle(c) EXCEPT !.job = "none"]
  <2>1. refs' = Released(rs, c) /\ Set(c, ct)
    BY <1>5 DEF Result
  <2>2. ct \in CallType /\ ct.pc = "idle" /\ ct.result = 0 /\ ct.job = "none"
    BY <1>3 DEF CallType
  <2> HIDE DEF g, rs, ct
  <2>3. Counted(refs') /\ NoNewObjects(rs, refs') /\ Keeps(rs, refs', lost)
    BY <1>1, <2>1, ReleasedFacts
  <2>4. /\ Keeps(refs, refs', lost)
        /\ \A r \in RefIds : refs'[r].state # "none" => heap[refs'[r].object] # "collected"
    BY <1>1, <2>3 DEF Keeps, NoNewObjects
  <2> QED
    BY <1>2, <1>3, <2>1, <2>2, <2>3, <2>4, CallStep
<1> QED
  BY <1>4, <1>5

(* An implementation returns on a worker, or completes a coroutine.        *)
LEMMA ReturnSteps ==
  ASSUME JvmInv, NEW c \in Calls, NEW o \in Objects, WorkerReturn(c, o) \/ NativeComplete(c, o)
  PROVE  JvmInv'
<1>0. calls[c] \in CallType /\ CallOwns(refs, c)
  BY OneCall
<1>1. CASE WorkerReturn(c, o)
  <2>1. Owns(refs, calls[c].receiver, <<"call", c>>)
    BY <1>0, <1>1 DEF WorkerReturn, CallOwns
  <2>2. heap[o] # "collected"
    BY <1>1, <2>1, OwnedIsAlive, ReturnsAlive DEF WorkerReturn, Receiver
  <2> QED
    BY <1>1, <2>2, ResultStep DEF WorkerReturn
<1>2. CASE NativeComplete(c, o)
  <2>1. heap[o] # "collected"
    BY <1>0, <1>2, ReturnsAlive, JvmObjectsAssumption DEF NativeComplete, CallOwns
  <2> QED
    BY <1>2, <2>1, ResultStep DEF NativeComplete
<1> QED
  BY <1>1, <1>2

(* The promise is settled: its result is wrapped on the JavaScript thread. *)
LEMMA CompleteStep ==
  ASSUME JvmInv, NEW c \in Calls, Complete(c)
  PROVE  JvmInv'
<1>0. /\ calls[c] \in CallType /\ CallOwns(refs, c) /\ active \in BOOLEAN /\ Counted(refs)
      /\ Idle(c) \in CallType /\ Idle(c).pc = "idle" /\ Idle(c).result = 0
      /\ Idle(c).job = calls[c].job
  BY OneCall
<1>1. Set(c, Idle(c)) /\ UNCHANGED <<heap, active>> /\ HeapKeeps
  BY SameHeap DEF Complete
<1> DEFINE g == calls[c].result
           lost == {<<"call", c>>}
           from == <<"state", c>>
           rs == Drop(refs, <<"call", c>>)
<1>2. CASE calls[c].pending /\ g # 0
  <2>1. Wrap(rs, g, refs[g].object, from)
    BY <1>2 DEF Complete
  <2>2. /\ Owns(refs, g, from) /\ g \in RefIds
        /\ refs[g].object \in Objects /\ heap[refs[g].object] # "collected"
    BY <1>0, <1>2, OwnedIsAlive DEF CallOwns
  <2>3. Counted(rs) /\ Keeps(refs, rs, lost) /\ NoNewObjects(refs, rs)
    BY <1>0, DropFacts
  <2>4. /\ \A h \in HandleIds : <<"handle", h>> \notin lost /\ from # <<"handle", h>>
        /\ from \notin lost
        /\ \A d \in Calls : d # c =>
              /\ <<"call", d>> \notin lost /\ <<"call", d>> # from
              /\ <<"state", d>> \notin lost /\ <<"state", d>> # from
    OBVIOUS
  <2> HIDE DEF rs, lost, from
  <2>5. Owns(rs, g, from) /\ rs[g].object = refs[g].object
    BY <2>2, <2>3, <2>4 DEF Keeps
  <2>6. /\ HandleTypes(handles') /\ RegistryOf(entries', handles') /\ answer'
        /\ Counted(refs') /\ Keeps(rs, refs', {from}) /\ NoNewObjects(rs, refs')
        /\ HandlesOwn(refs)'
    BY <2>1, <2>2, <2>3, <2>4, <2>5, WrapFacts
  <2>7. Keeps(refs, refs', lost \cup {from}) /\ NoNewObjects(refs, refs')
    BY <2>3, <2>6 DEF Keeps, NoNewObjects
  <2>8. RefsKeepAlive(refs)'
    BY <1>1, <2>6, <2>7, StillAlive, KeepAliveStep
  <2>9. /\ calls' \in [Calls -> CallType] /\ calls'[c] = Idle(c)
        /\ \A d \in Calls : d # c => calls'[d] = calls[d]
    BY <1>0, <1>1, JvmParts DEF Set
  <2>10. ASSUME NEW d \in Calls PROVE CallOwns(refs, d)'
    <3>1. CASE d = c
      <4>1. calls[c].job # "none" => heap'[calls[c].job] # "collected"
        BY <1>0, <1>1 DEF CallOwns
      <4> QED
        BY <1>0, <2>9, <3>1, <4>1 DEF CallOwns
    <3>2. CASE d # c
      <4>1. <<"call", d>> \notin lost \cup {from} /\ <<"state", d>> \notin lost \cup {from}
        BY <2>4, <3>2
      <4> QED
        BY <1>1, <2>7, <2>9, <3>2, <4>1, CallKept
    <3> QED
      BY <3>1, <3>2
  <2> QED
    BY <1>0, <1>1, <2>6, <2>8, <2>9, <2>10, JvmPartsPrimed DEF HeapKeeps
<1>3. CASE ~(calls[c].pending /\ g # 0)
  <2>1. refs' = Released(refs, c) /\ UNCHANGED <<handles, entries, answer>>
    BY <1>3 DEF Complete
  <2>2. /\ Counted(refs') /\ Keeps(refs, refs', {<<"call", c>>, <<"state", c>>})
        /\ \A r \in RefIds : refs'[r].state # "none" => heap[refs'[r].object] # "collected"
    BY <2>1, CallRefs
  <2>3. Idle(c).job # "none" => heap'[Idle(c).job] # "collected"
    BY <1>0, <1>1 DEF CallOwns
  <2> QED
    BY <1>0, <1>1, <2>1, <2>2, <2>3, CallStep
<1> QED
  BY <1>2, <1>3

(* JvmInv holds of the empty heap.                                         *)
LEMMA JvmStarts == JvmObjectsInit => JvmInv
<1> SUFFICES ASSUME JvmObjectsInit PROVE JvmInv
  OBVIOUS
<1>1. Counted(refs) /\ RefsKeepAlive(refs) /\ HandlesOwn(refs)
  BY DEF JvmObjectsInit, Counted, CountedRef, RefsKeepAlive, HandlesOwn, NoRef
<1>2. calls \in [Calls -> CallType] /\ \A c \in Calls : CallOwns(refs, c)
  BY DEF JvmObjectsInit, CallType, NoCall, CallOwns
<1>3. ToSet(entries) = {} /\ DOMAIN entries = {} /\ entries \in Seq(Entry)
  BY DEF JvmObjectsInit, ToSet
<1>4. RegistryInv
  BY <1>3 DEF JvmObjectsInit, RegistryInv, Locks, NoHandle
<1> QED
  BY <1>1, <1>2, <1>3, <1>4, JvmParts DEF JvmObjectsInit, HeapType, HandleTypes

(* Every step keeps JvmInv.                                                *)
LEMMA JvmStep == JvmInv /\ [JvmObjectsNext]_objectVars => JvmInv'
<1> SUFFICES ASSUME JvmInv, [JvmObjectsNext]_objectVars PROVE JvmInv'
  OBVIOUS
<1>1. CASE UNCHANGED objectVars
  BY <1>1, SameHeap, SameRefs, JvmParts, IdleStep DEF objectVars
<1>2. CASE JvmObjectsNext
  BY <1>2, ReferenceSteps, HeapSteps, HandleSteps, SyncSteps, AcceptStep, PassingSteps,
     ReturnSteps, CompleteStep DEF JvmObjectsNext
<1> QED
  BY <1>1, <1>2

(* Global references are counted right, and the registry knows every       *)
(* handle that JavaScript has, in every state.                             *)
THEOREM JvmInvariant == JvmObjectsSpec => []JvmInv
  BY JvmStarts, JvmStep, PTL DEF JvmObjectsSpec

(* For any objects, hashes, calls and bounds: a JVM object has one handle, *)
(* every call delivered the handle of the object it returned, and the      *)
(* registry has one entry for an object (JvmObjectRegistry::wrap).         *)
THEOREM JvmIdentity == JvmObjectsSpec => []IdentityPreserved
<1>1. JvmInv => IdentityPreserved
  <2> SUFFICES ASSUME JvmInv PROVE IdentityPreserved
    OBVIOUS
  <2>1. RegistryInv /\ answer /\ OneEntryEach(entries)
    BY EntriesDiffer DEF JvmInv
  <2>2. ASSUME NEW h \in HandleIds, NEW k \in HandleIds, Locks(h), Locks(k),
               handles[h].object = handles[k].object
        PROVE  h = k
    <3> DEFINE d == [object |-> handles[h].object, handle |-> h]
               e == [object |-> handles[k].object, handle |-> k]
    <3>1. d \in ToSet(entries) /\ e \in ToSet(entries) /\ d.object = e.object
      BY <2>1, <2>2 DEF RegistryInv
    <3>2. d = e
      BY <2>1, <3>1 DEF OneEntryEach
    <3> QED
      BY <3>2
  <2> QED
    BY <2>1, <2>2 DEF IdentityPreserved, RegistryInv
<1> QED
  BY <1>1, JvmInvariant, PTL

(* A worker's receiver, a handle and a waiting result name live references *)
(* of objects that are not collected, in every state.                      *)
THEOREM JvmReceivers == JvmObjectsSpec => []ReceiverStaysValid
<1>1. JvmInv => ReceiverStaysValid
  <2> SUFFICES ASSUME JvmInv PROVE ReceiverStaysValid
    OBVIOUS
  <2>1. \A r, x : Owns(refs, r, x) => refs[r].state = "live" /\ heap[refs[r].object] # "collected"
    BY OwnedIsLive, OwnedIsAlive, JvmParts
  <2>2. \A c \in Calls : CallOwns(refs, c)
    BY JvmParts
  <2>3. \A h \in HandleIds : Locks(h) => Owns(refs, handles[h].ref, <<"handle", h>>)
    BY LockedIsAlive, JvmParts DEF HandlesOwn
  <2>4. ASSUME NEW c \in Calls, calls[c].pc \in {"queued", "running"}
        PROVE  LET r == calls[c].receiver IN
               refs[r].state = "live" /\ heap[refs[r].object] # "collected"
    BY <2>1, <2>2, <2>4 DEF CallOwns
  <2>5. ASSUME NEW h \in HandleIds, Locks(h)
        PROVE  LET r == handles[h].ref IN
               refs[r].state = "live" /\ heap[refs[r].object] # "collected"
    BY <2>1, <2>3, <2>5
  <2>6. ASSUME NEW c \in Calls, calls[c].result # 0
        PROVE  LET r == calls[c].result IN
               refs[r].state = "live" /\ heap[refs[r].object] # "collected"
    BY <2>1, <2>2, <2>6 DEF CallOwns
  <2> QED
    BY <2>4, <2>5, <2>6, Zenon DEF ReceiverStaysValid
<1> QED
  BY <1>1, JvmInvariant, PTL

(*---------------------------- the module loader -------------------------*)
(* The ids 1 .. n are n ids, and an empty slot is none of them.            *)
LEMMA Generations ==
  ASSUME GenerationsInv
  PROVE  /\ Cardinality(generations) \in 0 .. MaxGenerations
         /\ generations = 1 .. Cardinality(generations)
         /\ IsFiniteSet(generations) /\ None \notin generations
<1>1. PICK n \in 0 .. MaxGenerations : generations = 1 .. n
  BY DEF GenerationsInv
<1>2. IsFiniteSet(generations) /\ Cardinality(generations) = n
  BY <1>1, FS_Interval, LoaderAssumption
<1> QED
  BY <1>1, <1>2 DEF None

(* The next id was not handed out before, and leaves no gap (Reserve).     *)
LEMMA FreshGeneration ==
  ASSUME GenerationsInv, Cardinality(generations) < MaxGenerations
  PROVE  /\ Next1 \notin generations /\ Next1 # None
         /\ \E n \in 0 .. MaxGenerations : generations \cup {Next1} = 1 .. n
<1> DEFINE n == Cardinality(generations)
<1>1. n \in 0 .. MaxGenerations /\ generations = 1 .. n
  BY Generations
<1>2. Next1 = n + 1
  BY DEF Next1
<1> HIDE DEF n
<1>3. n \in Nat /\ n < MaxGenerations /\ MaxGenerations \in Nat
  BY <1>1, LoaderAssumption DEF n
<1>4. generations \cup {Next1} = 1 .. (n + 1) /\ n + 1 \in 0 .. MaxGenerations
  BY <1>1, <1>2, <1>3
<1> QED
  BY <1>1, <1>2, <1>3, <1>4 DEF None

(* Nothing is loaded at first.                                             *)
LEMMA LoaderStarts == ModuleLoaderInit => LoaderInv
<1> SUFFICES ASSUME ModuleLoaderInit PROVE LoaderInv
  OBVIOUS
<1> USE DEF ModuleLoaderInit
<1>1. LoaderTypes
  BY DEF LoaderTypes
<1>2. GenerationsInv
  <2>1. 0 \in 0 .. MaxGenerations /\ generations = 1 .. 0
    BY LoaderAssumption
  <2> QED
    BY <2>1 DEF GenerationsInv
<1>3. LoadingUnderLock
  BY DEF LoadingUnderLock
<1> QED
  BY <1>1, <1>2, <1>3 DEF LoaderInv

(* Every step keeps LoaderInv, and an invalidated module without a session *)
(* stays so.                                                               *)
LEMMA LoaderStep == LoaderInv /\ [ModuleLoaderNext]_loaderVars => LoaderInv' /\ StaysEnded
<1> SUFFICES ASSUME LoaderInv, [ModuleLoaderNext]_loaderVars PROVE LoaderInv' /\ StaysEnded
  OBVIOUS
<1> USE DEF LoaderInv, LoaderTypes, GoTo, SetLifecycle, Abandon, Properties
<1>1. ASSUME NEW m \in Modules, Initialize(m) PROVE LoaderInv' /\ StaysEnded
  BY <1>1 DEF Initialize, GenerationsInv, LoadingUnderLock, StaysEnded
<1>2. ASSUME NEW m \in Modules, LoadRefused(m) PROVE LoaderInv' /\ StaysEnded
  BY <1>2 DEF LoadRefused, GenerationsInv, LoadingUnderLock, StaysEnded
<1>3. ASSUME NEW m \in Modules, LoadCached(m) PROVE LoaderInv' /\ StaysEnded
  BY <1>3 DEF LoadCached, GenerationsInv, LoadingUnderLock, StaysEnded
<1>4. ASSUME NEW m \in Modules, Reserve(m) PROVE LoaderInv' /\ StaysEnded
  <2>1. /\ request' = Next1 /\ generations' = generations \cup {Next1}
        /\ propertyLock = {} /\ propertyLock' = {m} /\ loading' = [loading EXCEPT ![m] = "reserved"]
        /\ UNCHANGED <<lifecycle, resident, published, session>>
    BY <1>4 DEF Reserve, Reserved
  <2>2. Next1 \notin generations /\ Next1 # None
    BY <1>4, FreshGeneration DEF Reserve
  <2>3. GenerationsInv'
    BY <1>4, <2>1, FreshGeneration DEF Reserve, GenerationsInv
  <2>4. \A b \in Binaries : published[b] # Next1
    BY <2>2 DEF GenerationsInv
  <2>5. \A k \in Modules : loading[k] \notin {"reserved", "published", "failed"}
    BY <2>1 DEF LoadingUnderLock
  <2>6. LoadingUnderLock'
    BY <2>1, <2>4, <2>5 DEF LoadingUnderLock
  <2> QED
    BY <2>1, <2>3, <2>6 DEF StaysEnded
<1>5. ASSUME NEW m \in Modules, OnLoad(m) PROVE LoaderInv' /\ StaysEnded
  <2>1. propertyLock = {m} /\ request \in generations
    BY <1>5 DEF OnLoad, LoadingUnderLock
  <2>2. resident \subseteq resident' /\ resident' \subseteq generations
    BY <1>5, <2>1 DEF OnLoad, GenerationsInv
  <2>3. LoadingUnderLock'
    BY <1>5, <2>1 DEF OnLoad, LoadingUnderLock
  <2>4. LoaderTypes'
    BY <1>5, <2>2 DEF OnLoad
  <2> QED
    BY <1>5, <2>2, <2>3, <2>4 DEF OnLoad, GenerationsInv, StaysEnded
<1>6. ASSUME NEW m \in Modules, Register(m) PROVE LoaderInv' /\ StaysEnded
  <2>1. /\ propertyLock = {m} /\ request \in generations /\ registrar = request
        /\ request \in resident /\ \A b \in Binaries : published[b] # request
    BY <1>6 DEF Register, LoadingUnderLock
  <2>2. generations' = generations /\ UNCHANGED <<lifecycle, resident, session>>
    BY <1>6, <2>1 DEF Register
  <2>3. Binary[m] \in Binaries
    BY DEF Binaries
  <2>4. /\ LoadingUnderLock' /\ LoaderTypes'
        /\ \A b, c \in Binaries : published'[b] = published'[c] /\ published'[b] # None => b = c
    <3>1. CASE UNCHANGED <<published, request, propertyLock>> /\ GoTo(m, "failed")
      BY <1>6, <2>1, <2>2, <3>1 DEF Register, LoadingUnderLock
    <3>2. CASE /\ published' = [published EXCEPT ![Binary[m]] = request]
               /\ GoTo(m, "loaded") /\ propertyLock' = {}
      BY <1>6, <2>1, <2>2, <2>3, <3>2 DEF LoadingUnderLock
    <3> QED
      BY <1>6, <2>1, <3>1, <3>2 DEF Register
  <2> QED
    BY <2>2, <2>4 DEF GenerationsInv, StaysEnded
<1>7. ASSUME NEW m \in Modules, LoadFailed(m) PROVE LoaderInv' /\ StaysEnded
  BY <1>7 DEF LoadFailed, GenerationsInv, LoadingUnderLock, StaysEnded
<1>8. ASSUME NEW m \in Modules, PostInstall(m) PROVE LoaderInv' /\ StaysEnded
  BY <1>8 DEF PostInstall, GenerationsInv, LoadingUnderLock, StaysEnded
<1>9. ASSUME NEW m \in Modules, Install(m) PROVE LoaderInv' /\ StaysEnded
  BY <1>9 DEF Install, MayInstall, GenerationsInv, LoadingUnderLock, StaysEnded
<1>10. ASSUME NEW m \in Modules, Invalidate(m) PROVE LoaderInv' /\ StaysEnded
  BY <1>10 DEF Invalidate, GenerationsInv, LoadingUnderLock, StaysEnded
<1>11. ASSUME NEW m \in Modules, NativeInvalidate(m) PROVE LoaderInv' /\ StaysEnded
  BY <1>11 DEF NativeInvalidate, GenerationsInv, LoadingUnderLock, StaysEnded
<1>12. CASE UNCHANGED loaderVars
  BY <1>12 DEF loaderVars, GenerationsInv, LoadingUnderLock, StaysEnded
<1> QED
  BY <1>1, <1>2, <1>3, <1>4, <1>5, <1>6, <1>7, <1>8, <1>9, <1>10, <1>11, <1>12
     DEF ModuleLoaderNext

(* LoaderInv holds throughout the life of the process.                     *)
THEOREM LoaderInvariant == ModuleLoaderSpec => []LoaderInv
<1>1. LoaderInv /\ [ModuleLoaderNext]_loaderVars => LoaderInv'
  BY LoaderStep
<1> QED
  BY LoaderStarts, <1>1, PTL DEF ModuleLoaderSpec

(* However many plugins are loaded, reloaded and fail to load, the process *)
(* keeps at most MaxGenerations libraries, a cached registrar is that of a *)
(* library in the process, and no two binaries share one.                  *)
THEOREM RetainedGenerations == ModuleLoaderSpec => []GenerationsBounded
<1>1. LoaderInv => GenerationsBounded
  <2> SUFFICES ASSUME LoaderInv PROVE GenerationsBounded
    OBVIOUS
  <2>1. GenerationsInv /\ resident \subseteq generations
    BY DEF LoaderInv, GenerationsInv
  <2>2. /\ Cardinality(generations) \in 0 .. MaxGenerations /\ IsFiniteSet(generations)
        /\ None \notin generations
    BY <2>1, Generations
  <2>3. Cardinality(resident) <= MaxGenerations
    <3>1. Cardinality(resident) \in Nat /\ Cardinality(resident) <= Cardinality(generations)
      BY <2>1, <2>2, FS_Subset, FS_CardinalityType
    <3> QED
      BY <2>2, <3>1, LoaderAssumption
  <2> QED
    BY <2>1, <2>3 DEF LoaderInv, LoaderTypes, GenerationsBounded
<1> QED
  BY <1>1, LoaderInvariant, PTL

(* No installation that was loading or queued when invalidate came ever    *)
(* opens a session.                                                        *)
THEOREM SessionEnds == ModuleLoaderSpec => SessionEndsWithModule
<1>1. LoaderInv /\ [ModuleLoaderNext]_loaderVars => [StaysEnded]_loaderVars
  BY LoaderStep
<1> QED
  BY <1>1, LoaderInvariant, PTL DEF ModuleLoaderSpec, SessionEndsWithModule

(*--------------------------- feature services ---------------------------*)

(* The lookup finds the slot, or the feature is closed.                    *)
LEMMA LookupStep ==
  ASSUME SlotsInv, NEW t \in Threads, NEW d \in Declarations, Lookup(t, d)
  PROVE  SlotsInv'
<1>1. TypeOK'
  BY DEF SlotsInv, TypeOK, Lookup, slotVars, history
<1>2. OwnerInv'
  BY DEF SlotsInv, OwnerInv, TypeOK, Constructing, Lookup, slotVars
<1>3. UniqueInv'
  BY DEF SlotsInv, UniqueInv, TypeOK, Constructing, Lookup
<1>4. InitializerAlive'
  BY DEF SlotsInv, InitializerAlive, TypeOK, Constructing, Lookup, slotVars
<1>5. SlotInv'
  BY DEF SlotsInv, SlotInv, Lookup, slotVars
<1>6. HandedInv'
  BY DEF SlotsInv, HandedInv, Lookup, slotVars, history
<1>7. OneInstance'
  BY DEF SlotsInv, OneInstance, Lookup, history
<1>8. CloseInv'
  BY DEF SlotsInv, CloseInv, TypeOK, Lookup, history
<1>9. Accounted'
  BY DEF SlotsInv, Accounted, TypeOK, Lookup, slotVars, history
<1>10. OwnException'
  BY DEF SlotsInv, OwnException, TypeOK, Lookup
<1> QED
  BY <1>1, <1>2, <1>3, <1>4, <1>5, <1>6, <1>7, <1>8, <1>9, <1>10 DEF
     SlotsInv

(* A caller returns the instance of the slot.                              *)
LEMMA ReturnValueStep ==
  ASSUME SlotsInv, NEW t \in Threads, pc[t] \in {"found", "waiting"},
         value[decl[t]] # 0,
         ReturnValue(t, decl[t]),
         UNCHANGED <<feature, decl, made, closeVars, created, released>>
  PROVE  SlotsInv'
<1>1. TypeOK'
  BY DEF SlotsInv, TypeOK, ReturnValue, slotVars, closeVars
<1>2. OwnerInv'
  BY DEF SlotsInv, OwnerInv, Constructing, ReturnValue, slotVars
<1>3. UniqueInv'
  BY DEF SlotsInv, UniqueInv, Constructing, ReturnValue
<1>4. InitializerAlive'
  BY DEF SlotsInv, InitializerAlive, Constructing, ReturnValue, slotVars
<1>5. SlotInv'
  BY DEF SlotsInv, SlotInv, ReturnValue, slotVars
<1>6. HandedInv'
  BY DEF SlotsInv, HandedInv, ReturnValue, slotVars
<1>7. OneInstance'
  BY DEF SlotsInv, OneInstance, HandedInv, ReturnValue
<1>8. CloseInv'
  BY DEF SlotsInv, CloseInv, ReturnValue, closeVars
<1>9. Accounted'
  BY DEF SlotsInv, Accounted, ReturnValue, slotVars, closeVars
<1>10. OwnException'
  BY DEF SlotsInv, OwnException, OwnerInv, ReturnValue
<1> QED
  BY <1>1, <1>2, <1>3, <1>4, <1>5, <1>6, <1>7, <1>8, <1>9, <1>10 DEF
     SlotsInv

(* A caller joins an attempt under way.                                    *)
LEMMA WaitStep ==
  ASSUME SlotsInv, NEW t \in Threads, pc[t] = "found",
         Wait(t, decl[t]),
         UNCHANGED <<feature, decl, made, closeVars, created, released>>
  PROVE  SlotsInv'
<1>1. TypeOK'
  BY DEF SlotsInv, TypeOK, Wait, slotVars, closeVars
<1>2. OwnerInv'
  BY DEF SlotsInv, OwnerInv, Constructing, Wait, slotVars
<1>3. UniqueInv'
  BY DEF SlotsInv, UniqueInv, Constructing, Wait
<1>4. InitializerAlive'
  BY DEF SlotsInv, InitializerAlive, Constructing, Wait, slotVars
<1>5. SlotInv'
  BY DEF SlotsInv, SlotInv, Wait, slotVars
<1>6. HandedInv'
  BY DEF SlotsInv, HandedInv, Wait, slotVars
<1>7. OneInstance'
  BY DEF SlotsInv, OneInstance, Wait
<1>8. CloseInv'
  BY DEF SlotsInv, CloseInv, Wait, closeVars
<1>9. Accounted'
  BY DEF SlotsInv, Accounted, Wait, slotVars, closeVars
<1>10. OwnException'
  BY DEF SlotsInv, OwnException, Wait
<1> QED
  BY <1>1, <1>2, <1>3, <1>4, <1>5, <1>6, <1>7, <1>8, <1>9, <1>10 DEF
     SlotsInv

(* A caller becomes the initializer; nobody else owns the slot then.       *)
LEMMA BeginStep ==
  ASSUME SlotsInv, NEW t \in Threads, pc[t] \in {"found", "waiting"},
         value[decl[t]] = 0,
         ~initializing[decl[t]], Begin(t, decl[t]),
         UNCHANGED <<feature, decl, made, closeVars, created, released>>
  PROVE  SlotsInv'
<1>1. TypeOK'
  BY DEF SlotsInv, TypeOK, Constructing, Begin, closeVars
<1>2. OwnerInv'
  BY DEF SlotsInv, OwnerInv, TypeOK, Begin
<1>3. UniqueInv'
  BY DEF SlotsInv, UniqueInv, OwnerInv, TypeOK, Begin
<1>4. InitializerAlive'
  BY DEF SlotsInv, InitializerAlive, TypeOK, Constructing, Begin
<1>5. SlotInv'
  BY DEF SlotsInv, SlotInv, TypeOK, Begin
<1>6. HandedInv'
  BY DEF SlotsInv, HandedInv, Begin
<1>7. OneInstance'
  BY DEF SlotsInv, OneInstance, Begin
<1>8. CloseInv'
  BY DEF SlotsInv, CloseInv, Begin, closeVars
<1>9. Accounted'
  BY DEF SlotsInv, Accounted, Begin, closeVars
<1>10. OwnException'
  BY DEF SlotsInv, OwnException, Begin
<1> QED
  BY <1>1, <1>2, <1>3, <1>4, <1>5, <1>6, <1>7, <1>8, <1>9, <1>10 DEF
     SlotsInv

(* A woken caller rethrows the exception of the attempt it waited for.     *)
LEMMA RethrowStep ==
  ASSUME SlotsInv, NEW t \in Threads, pc[t] = "waiting", completed[decl[t]] = mine[t],
         failure[decl[t]] # 0, pc' = [pc EXCEPT ![t] = "idle"],
         error' = [error EXCEPT ![t] = failure[decl[t]]],
         UNCHANGED <<slotVars, mine, handed>>,
         UNCHANGED <<feature, decl, made, closeVars, created, released>>
  PROVE  SlotsInv'
<1>1. TypeOK'
  BY DEF SlotsInv, TypeOK, slotVars, closeVars
<1>2. OwnerInv'
  BY DEF SlotsInv, OwnerInv, TypeOK, Constructing, slotVars
<1>3. UniqueInv'
  BY DEF SlotsInv, UniqueInv, Constructing
<1>4. InitializerAlive'
  BY DEF SlotsInv, InitializerAlive, Constructing, slotVars
<1>5. SlotInv'
  BY DEF SlotsInv, SlotInv, slotVars
<1>6. HandedInv'
  BY DEF SlotsInv, HandedInv, slotVars
<1>7. OneInstance'
  BY DEF SlotsInv, OneInstance
<1>8. CloseInv'
  BY DEF SlotsInv, CloseInv, closeVars
<1>9. Accounted'
  BY DEF SlotsInv, Accounted, slotVars, closeVars
<1>10. OwnException'
  BY DEF SlotsInv, OwnException, SlotInv, TypeOK
<1> QED
  BY <1>1, <1>2, <1>3, <1>4, <1>5, <1>6, <1>7, <1>8, <1>9, <1>10 DEF
     SlotsInv

(* The factory ends, with an instance or an exception.                     *)
LEMMA FactoryStep ==
  ASSUME SlotsInv, NEW t \in Threads, Factory(t)
  PROVE  SlotsInv'
<1>1. TypeOK'
  <2>1. created' \in [Declarations -> SUBSET Nat]
    BY DEF SlotsInv, TypeOK, Factory
  <2>2. /\ pc' \in [Threads -> {"idle", "found", "waiting"} \cup Constructing]
        /\ \A u \in Threads : pc'[u] # "idle" => decl[u] \in Declarations
    BY DEF SlotsInv, TypeOK, Constructing, Factory
  <2> QED
    BY <2>1, <2>2 DEF SlotsInv, TypeOK, Factory, slotVars, threadVars,
       closeVars, history
<1>2. OwnerInv'
  BY DEF SlotsInv, OwnerInv, TypeOK, Factory, slotVars
<1>3. UniqueInv'
  BY DEF SlotsInv, UniqueInv, TypeOK, Factory
<1>4. InitializerAlive'
  BY DEF SlotsInv, InitializerAlive, TypeOK, Constructing, Factory,
     slotVars
<1>5. SlotInv'
  BY DEF SlotsInv, SlotInv, Factory, slotVars
<1>6. HandedInv'
  BY DEF SlotsInv, HandedInv, Factory, slotVars
<1>7. OneInstance'
  BY DEF SlotsInv, OneInstance, Factory
<1>8. CloseInv'
  BY DEF SlotsInv, CloseInv, OwnerInv, TypeOK, Factory, closeVars
<1>9. Accounted'
  <2>1. CASE created' = created
    BY <2>1 DEF SlotsInv, Accounted, TypeOK, Factory, slotVars,
       threadVars, closeVars, history
  <2>2. CASE created' # created
    <3>1. /\ pc' = [pc EXCEPT ![t] = "created"]
          /\ created' = [created EXCEPT ![decl[t]] = @ \cup {mine[t]}]
      BY <2>2 DEF Factory
    <3> QED
      BY <3>1 DEF SlotsInv, Accounted, TypeOK, Factory, slotVars,
         threadVars, closeVars, history
  <2> QED BY <2>1, <2>2
<1>10. OwnException'
  BY DEF SlotsInv, OwnException, TypeOK, Factory
<1> QED
  BY <1>1, <1>2, <1>3, <1>4, <1>5, <1>6, <1>7, <1>8, <1>9, <1>10 DEF
     SlotsInv

(* Publication while the feature is active: the slot was empty, so no      *)
(* caller holds another instance.                                          *)
LEMMA StoreStep ==
  ASSUME SlotsInv, NEW t \in Threads, pc[t] = "created", feature = "ACTIVE", Store(t, decl[t]),
         UNCHANGED <<feature, attempt, decl, mine, error, made, closeVars, created>>
  PROVE  SlotsInv'
<1>1. TypeOK'
  BY DEF SlotsInv, TypeOK, Store, EndAttempt, closeVars
<1>2. OwnerInv'
  BY DEF SlotsInv, OwnerInv, UniqueInv, TypeOK, Store, EndAttempt
<1>3. UniqueInv'
  BY DEF SlotsInv, UniqueInv, Constructing, Store, EndAttempt
<1>4. InitializerAlive'
  BY DEF SlotsInv, InitializerAlive, TypeOK, Store, EndAttempt
<1>5. SlotInv'
  BY DEF SlotsInv, SlotInv, OwnerInv, TypeOK, Store, EndAttempt
<1>6. HandedInv'
  BY DEF SlotsInv, HandedInv, SlotInv, OwnerInv, CloseInv, TypeOK, Store,
     EndAttempt
<1>7. OneInstance'
  BY DEF SlotsInv, OneInstance, HandedInv, SlotInv, OwnerInv, Store,
     EndAttempt
<1>8. CloseInv'
  BY DEF SlotsInv, CloseInv, Store, EndAttempt, closeVars
<1>9. Accounted'
  BY DEF SlotsInv, Accounted, OwnerInv, SlotInv, CloseInv, TypeOK, Store,
     EndAttempt, closeVars
<1>10. OwnException'
  BY DEF SlotsInv, OwnException, OwnerInv, Store, EndAttempt
<1> QED
  BY <1>1, <1>2, <1>3, <1>4, <1>5, <1>6, <1>7, <1>8, <1>9, <1>10 DEF
     SlotsInv

(* Publication after the feature closed.                                   *)
LEMMA RejectStep ==
  ASSUME SlotsInv, NEW t \in Threads, pc[t] = "created", feature # "ACTIVE", Reject(t, decl[t]),
         UNCHANGED <<feature, attempt, decl, mine, error, made, closeVars, created>>
  PROVE  SlotsInv'
<1>1. TypeOK'
  BY DEF SlotsInv, TypeOK, Constructing, Reject, EndAttempt, closeVars
<1>2. OwnerInv'
  BY DEF SlotsInv, OwnerInv, UniqueInv, TypeOK, Reject, EndAttempt
<1>3. UniqueInv'
  BY DEF SlotsInv, UniqueInv, Constructing, Reject, EndAttempt
<1>4. InitializerAlive'
  BY DEF SlotsInv, InitializerAlive, Constructing, Reject, EndAttempt
<1>5. SlotInv'
  BY DEF SlotsInv, SlotInv, TypeOK, Reject, EndAttempt
<1>6. HandedInv'
  BY DEF SlotsInv, HandedInv, Reject, EndAttempt
<1>7. OneInstance'
  BY DEF SlotsInv, OneInstance, Reject, EndAttempt
<1>8. CloseInv'
  BY DEF SlotsInv, CloseInv, Reject, EndAttempt
<1>9. Accounted'
  BY DEF SlotsInv, Accounted, TypeOK, Reject, EndAttempt, closeVars
<1>10. OwnException'
  BY DEF SlotsInv, OwnException, Reject, EndAttempt
<1> QED
  BY <1>1, <1>2, <1>3, <1>4, <1>5, <1>6, <1>7, <1>8, <1>9, <1>10 DEF
     SlotsInv

(* The catch block ends an attempt only if the thread owns it.             *)
LEMMA CatchStep ==
  ASSUME SlotsInv, NEW t \in Threads, Catch(t)
  PROVE  SlotsInv'
<1>1. TypeOK'
  BY DEF SlotsInv, TypeOK, Catch, EndAttempt, closeVars, history
<1>2. OwnerInv'
  BY SMTT(60) DEF SlotsInv, OwnerInv, UniqueInv, TypeOK, Catch, EndAttempt,
     closeVars, history
<1>3. UniqueInv'
  BY DEF SlotsInv, UniqueInv, Constructing, Catch, EndAttempt
<1>4. InitializerAlive'
  BY DEF SlotsInv, InitializerAlive, TypeOK, Catch, EndAttempt
<1>5. SlotInv'
  BY DEF SlotsInv, SlotInv, TypeOK, Catch, EndAttempt
<1>6. HandedInv'
  BY DEF SlotsInv, HandedInv, Catch, EndAttempt, history
<1>7. OneInstance'
  BY DEF SlotsInv, OneInstance, Catch, EndAttempt, history
<1>8. CloseInv'
  BY DEF SlotsInv, CloseInv, Catch, EndAttempt, closeVars, history
<1>9. Accounted'
  BY DEF SlotsInv, Accounted, Catch, EndAttempt, closeVars, history
<1>10. OwnException'
  BY DEF SlotsInv, OwnException, TypeOK, Catch, EndAttempt
<1> QED
  BY <1>1, <1>2, <1>3, <1>4, <1>5, <1>6, <1>7, <1>8, <1>9, <1>10 DEF
     SlotsInv

(* close leaves ACTIVE.                                                    *)
LEMMA CloseBeginStep ==
  ASSUME SlotsInv, CloseBegin
  PROVE  SlotsInv'
<1>1. TypeOK'
  BY DEF SlotsInv, TypeOK, CloseBegin, slotVars, threadVars, history
<1>2. OwnerInv'
  BY DEF SlotsInv, OwnerInv, CloseBegin, slotVars, threadVars
<1>3. UniqueInv'
  BY DEF SlotsInv, UniqueInv, CloseBegin, threadVars
<1>4. InitializerAlive'
  BY DEF SlotsInv, InitializerAlive, CloseBegin, slotVars, threadVars
<1>5. SlotInv'
  BY DEF SlotsInv, SlotInv, CloseBegin, slotVars
<1>6. HandedInv'
  BY DEF SlotsInv, HandedInv, CloseBegin, slotVars, history
<1>7. OneInstance'
  BY DEF SlotsInv, OneInstance, CloseBegin, history
<1>8. CloseInv'
  BY DEF SlotsInv, CloseInv, CloseBegin, history
<1>9. Accounted'
  BY DEF SlotsInv, Accounted, CloseInv, CloseBegin, slotVars, threadVars,
     history
<1>10. OwnException'
  BY DEF SlotsInv, OwnException, CloseBegin, threadVars
<1> QED
  BY <1>1, <1>2, <1>3, <1>4, <1>5, <1>6, <1>7, <1>8, <1>9, <1>10 DEF
     SlotsInv

(* close takes a slot out of services_.                                    *)
LEMMA CloseTakeStep ==
  ASSUME SlotsInv, NEW d \in Declarations, CloseTake(d)
  PROVE  SlotsInv'
<1>1. TypeOK'
  BY DEF SlotsInv, TypeOK, CloseTake, slotVars, threadVars, history
<1>2. OwnerInv'
  BY DEF SlotsInv, OwnerInv, CloseTake, slotVars, threadVars
<1>3. UniqueInv'
  BY DEF SlotsInv, UniqueInv, CloseTake, threadVars
<1>4. InitializerAlive'
  BY DEF SlotsInv, InitializerAlive, CloseTake, slotVars, threadVars
<1>5. SlotInv'
  BY DEF SlotsInv, SlotInv, CloseTake, slotVars
<1>6. HandedInv'
  BY DEF SlotsInv, HandedInv, CloseTake, slotVars, history
<1>7. OneInstance'
  BY DEF SlotsInv, OneInstance, CloseTake, history
<1>8. CloseInv'
  BY DEF SlotsInv, CloseInv, CloseTake, history
<1>9. Accounted'
  BY DEF SlotsInv, Accounted, CloseTake, slotVars, threadVars, history
<1>10. OwnException'
  BY DEF SlotsInv, OwnException, CloseTake, threadVars
<1> QED
  BY <1>1, <1>2, <1>3, <1>4, <1>5, <1>6, <1>7, <1>8, <1>9, <1>10 DEF
     SlotsInv

(* close moves the instance out of the slot.                               *)
LEMMA CloseMoveStep ==
  ASSUME SlotsInv, CloseMove
  PROVE  SlotsInv'
<1>1. TypeOK'
  BY DEF SlotsInv, TypeOK, CloseMove, threadVars, history
<1>2. OwnerInv'
  BY DEF SlotsInv, OwnerInv, CloseMove, threadVars
<1>3. UniqueInv'
  BY DEF SlotsInv, UniqueInv, CloseMove, threadVars
<1>4. InitializerAlive'
  BY DEF SlotsInv, InitializerAlive, CloseMove, threadVars
<1>5. SlotInv'
  BY DEF SlotsInv, SlotInv, CloseMove
<1>6. HandedInv'
  BY DEF SlotsInv, HandedInv, CloseInv, CloseMove, history
<1>7. OneInstance'
  BY DEF SlotsInv, OneInstance, CloseMove, history
<1>8. CloseInv'
  BY DEF SlotsInv, CloseInv, CloseMove, history
<1>9. Accounted'
  BY DEF SlotsInv, Accounted, CloseMove, threadVars, history
<1>10. OwnException'
  BY DEF SlotsInv, OwnException, CloseMove, threadVars
<1> QED
  BY <1>1, <1>2, <1>3, <1>4, <1>5, <1>6, <1>7, <1>8, <1>9, <1>10 DEF
     SlotsInv

(* close hands the instance to the cleanup.                                *)
LEMMA CloseReleaseStep ==
  ASSUME SlotsInv, CloseRelease
  PROVE  SlotsInv'
<1>1. TypeOK'
  BY DEF SlotsInv, TypeOK, CloseRelease, slotVars, threadVars
<1>2. OwnerInv'
  BY DEF SlotsInv, OwnerInv, CloseRelease, slotVars, threadVars
<1>3. UniqueInv'
  BY DEF SlotsInv, UniqueInv, CloseRelease, threadVars
<1>4. InitializerAlive'
  BY DEF SlotsInv, InitializerAlive, CloseRelease, slotVars, threadVars
<1>5. SlotInv'
  BY DEF SlotsInv, SlotInv, CloseRelease, slotVars
<1>6. HandedInv'
  BY DEF SlotsInv, HandedInv, CloseRelease, slotVars
<1>7. OneInstance'
  BY DEF SlotsInv, OneInstance, CloseRelease
<1>8. CloseInv'
  BY DEF SlotsInv, CloseInv, CloseRelease
<1>9. Accounted'
  BY DEF SlotsInv, Accounted, CloseInv, TypeOK, CloseRelease, slotVars,
     threadVars
<1>10. OwnException'
  BY DEF SlotsInv, OwnException, CloseRelease, threadVars
<1> QED
  BY <1>1, <1>2, <1>3, <1>4, <1>5, <1>6, <1>7, <1>8, <1>9, <1>10 DEF
     SlotsInv

(* close ends when no slot is left.                                        *)
LEMMA CloseEndStep ==
  ASSUME SlotsInv, CloseEnd
  PROVE  SlotsInv'
<1>1. TypeOK'
  BY DEF SlotsInv, TypeOK, CloseEnd, slotVars, threadVars, history
<1>2. OwnerInv'
  BY DEF SlotsInv, OwnerInv, CloseEnd, slotVars, threadVars
<1>3. UniqueInv'
  BY DEF SlotsInv, UniqueInv, CloseEnd, threadVars
<1>4. InitializerAlive'
  BY DEF SlotsInv, InitializerAlive, CloseEnd, slotVars, threadVars
<1>5. SlotInv'
  BY DEF SlotsInv, SlotInv, CloseEnd, slotVars
<1>6. HandedInv'
  BY DEF SlotsInv, HandedInv, CloseEnd, slotVars, history
<1>7. OneInstance'
  BY DEF SlotsInv, OneInstance, CloseEnd, history
<1>8. CloseInv'
  BY DEF SlotsInv, CloseInv, CloseEnd, history
<1>9. Accounted'
  BY DEF SlotsInv, Accounted, CloseEnd, threadVars, history
<1>10. OwnException'
  BY DEF SlotsInv, OwnException, CloseEnd, threadVars
<1> QED
  BY <1>1, <1>2, <1>3, <1>4, <1>5, <1>6, <1>7, <1>8, <1>9, <1>10 DEF
     SlotsInv

(* The inductive invariant of the slots: attempts have one owner, a slot's *)
(* value, exception and attempt numbers agree, and instances are accounted *)
(* for.                                                                    *)
THEOREM SlotsInvariant == Spec => []SlotsInv
<1>1. Init => SlotsInv
  BY DEF Init, SlotsInv, TypeOK, OwnerInv, UniqueInv, InitializerAlive,
     SlotInv, HandedInv, OneInstance, CloseInv, Accounted, OwnException,
     Constructing
<1>2. SlotsInv /\ [Next]_vars => SlotsInv'
  <2> SUFFICES ASSUME SlotsInv, [Next]_vars PROVE SlotsInv'
    OBVIOUS
  <2>1. ASSUME NEW t \in Threads, NEW d \in Declarations, Lookup(t, d)
        PROVE  SlotsInv'
    BY <2>1, LookupStep
  <2>2. ASSUME NEW t \in Threads, Enter(t) PROVE SlotsInv'
    BY <2>2, ReturnValueStep, WaitStep, BeginStep DEF Enter
  <2>3. ASSUME NEW t \in Threads, Wake(t) PROVE SlotsInv'
    BY <2>3, ReturnValueStep, RethrowStep, BeginStep DEF Wake
  <2>4. ASSUME NEW t \in Threads, Publish(t) PROVE SlotsInv'
    BY <2>4, StoreStep, RejectStep DEF Publish
  <2>5. ASSUME NEW t \in Threads, Step(t) PROVE SlotsInv'
    BY <2>2, <2>3, <2>4, <2>5, FactoryStep, CatchStep DEF Step
  <2>6. CASE CloseBegin \/ (\E d \in Declarations : CloseTake(d))
             \/ CloseMove \/ CloseRelease \/ CloseEnd
    BY <2>6, CloseBeginStep, CloseTakeStep, CloseMoveStep, CloseReleaseStep,
       CloseEndStep
  <2>7. CASE UNCHANGED vars
    BY <2>7 DEF vars, slotVars, threadVars, closeVars, history, SlotsInv,
       TypeOK, OwnerInv, UniqueInv, InitializerAlive, SlotInv, HandedInv,
       OneInstance, CloseInv, Accounted, OwnException
  <2> QED
    BY <2>1, <2>5, <2>6, <2>7 DEF Next
<1> QED BY <1>1, <1>2, PTL DEF Spec

(* The state of the feature, its slots and its callers is well typed.      *)
THEOREM TypeCorrect == Spec => []TypeOK
<1>1. SlotsInv => TypeOK BY DEF SlotsInv
<1> QED BY <1>1, SlotsInvariant, PTL

(* No two threads construct one declaration at the same time.              *)
THEOREM OneConstruction == Spec => []SingleFlight
<1>1. SlotsInv => SingleFlight
  BY DEF SlotsInv, SingleFlight, OwnerInv, UniqueInv, Constructing
<1> QED BY <1>1, SlotsInvariant, PTL

(* A slot under construction has a thread that constructs.                 *)
THEOREM NoAbandonedSlot == Spec => []InitializerAlive
<1>1. SlotsInv => InitializerAlive BY DEF SlotsInv
<1> QED BY <1>1, SlotsInvariant, PTL

(* All callers of service<T> get the same instance of a declaration.       *)
THEOREM SameInstance == Spec => []OneInstance
<1>1. SlotsInv => OneInstance BY DEF SlotsInv
<1> QED BY <1>1, SlotsInvariant, PTL

(* Close and late construction between them leak no instance.              *)
THEOREM NoLeak == Spec => []Accounted
<1>1. SlotsInv => Accounted BY DEF SlotsInv
<1> QED BY <1>1, SlotsInvariant, PTL

(* A caller sees the exception of its own attempt only.                    *)
THEOREM ExceptionIsOwn == Spec => []OwnException
<1>1. SlotsInv => OwnException BY DEF SlotsInv
<1> QED BY <1>1, SlotsInvariant, PTL

(*------------- conversions of values: recursion unfolded ---------------*)
(* The limits are numbers.                                                 *)
LEMMA LimitsAreNumbers ==
  /\ MaxDepth \in Nat /\ MaxArray \in Nat /\ MaxVisits \in Nat /\ MaxString \in Nat
  /\ MaxBytes \in Nat /\ MaxTemporary \in Nat /\ MaxVisits <= MaxTemporary
  /\ MaxDepth + 1 \in Nat
BY ConversionAssumption

EachUpTo(e, below, types, values, start, f, N) ==
    [i \in 0 .. N |-> IF i = 0 THEN start ELSE Item(e, below, types[i], values[i], f[i - 1])]

(* The recursive functions exist up to every N, and unfold.                *)
LEMMA EachExists ==
  ASSUME NEW e, NEW below, NEW types, NEW values, NEW start, NEW N \in Nat
  PROVE  \E f : f = EachUpTo(e, below, types, values, start, f, N)
<1> DEFINE Bad == {n \in Nat : ~\E f : f = EachUpTo(e, below, types, values, start, f, n)}
<1>1. SUFFICES ASSUME Bad # {} PROVE FALSE
  OBVIOUS
<1>2. PICK n \in Bad : \A m \in Bad : n <= m
  <2>1. Bad \in SUBSET Nat
    OBVIOUS
  <2> QED
    BY <1>1, <2>1, Least
<1>3. n # 0
  <2>1. [i \in 0 .. 0 |-> start] = EachUpTo(e, below, types, values, start, [i \in 0 .. 0 |-> start], 0)
    BY DEF EachUpTo
  <2> QED
    BY <2>1
<1>4. PICK f : f = EachUpTo(e, below, types, values, start, f, n - 1)
  BY <1>2, <1>3
<1> DEFINE g == [i \in 0 .. n |-> IF i = n THEN Item(e, below, types[n], values[n], f[n - 1]) ELSE f[i]]
<1>5. g = EachUpTo(e, below, types, values, start, g, n)
  <2>1. n \in Nat
    OBVIOUS
  <2>2. \A i \in 0 .. n - 1 : f[i] = IF i = 0 THEN start ELSE Item(e, below, types[i], values[i], f[i - 1])
    BY <1>4, Zenon DEF EachUpTo
  <2>3. \A i \in 0 .. n : i # n => i \in 0 .. n - 1
    BY <2>1
  <2>4. \A i \in 1 .. n : i - 1 \in 0 .. n /\ i - 1 # n
    BY <2>1
  <2>5. \A i \in 0 .. n : g[i] = IF i = 0 THEN start ELSE Item(e, below, types[i], values[i], g[i - 1])
    BY <1>3, <2>1, <2>2, <2>3, <2>4
  <2> QED
    BY <2>5 DEF EachUpTo
<1> HIDE DEF g
<1> QED
  BY <1>2, <1>5

FromUpTo(e, f, N) ==
    [i \in 0 .. N |-> IF i = 0 THEN TooDeep(Values) ELSE FromLevel(e, f[i - 1])]

LEMMA FromExists ==
  ASSUME NEW e, NEW N \in Nat
  PROVE  \E f : f = FromUpTo(e, f, N)
<1> DEFINE Bad == {n \in Nat : ~\E f : f = FromUpTo(e, f, n)}
<1>1. SUFFICES ASSUME Bad # {} PROVE FALSE
  OBVIOUS
<1>2. PICK n \in Bad : \A m \in Bad : n <= m
  <2>1. Bad \in SUBSET Nat
    OBVIOUS
  <2> QED
    BY <1>1, <2>1, Least
<1>3. n # 0
  <2>1. [i \in 0 .. 0 |-> TooDeep(Values)] = FromUpTo(e, [i \in 0 .. 0 |-> TooDeep(Values)], 0)
    BY DEF FromUpTo
  <2> QED
    BY <2>1
<1>4. PICK f : f = FromUpTo(e, f, n - 1)
  BY <1>2, <1>3
<1> DEFINE last == FromLevel(e, f[n - 1])
           g == [i \in 0 .. n |-> IF i = n THEN last ELSE f[i]]
<1>5. g = FromUpTo(e, g, n)
  <2>1. n \in Nat
    OBVIOUS
  <2>2. \A i \in 0 .. n - 1 : f[i] = IF i = 0 THEN TooDeep(Values) ELSE FromLevel(e, f[i - 1])
    BY <1>4, Zenon DEF FromUpTo
  <2>3. \A i \in 0 .. n : i # n => i \in 0 .. n - 1
    BY <2>1
  <2>4. \A i \in 1 .. n : i - 1 \in 0 .. n /\ i - 1 # n
    BY <2>1
  <2>5. \A i \in 0 .. n : g[i] = IF i = 0 THEN TooDeep(Values) ELSE FromLevel(e, g[i - 1])
    BY <1>3, <2>1, <2>2, <2>3, <2>4
  <2> QED
    BY <2>5 DEF FromUpTo
<1> HIDE DEF g
<1> QED
  BY <1>2, <1>5

(* The levels of a conversion from JavaScript.                             *)
LEMMA FromUnfolds ==
  ASSUME NEW e
  PROVE  /\ From(e)[0] = TooDeep(Values)
         /\ \A n \in 1 .. MaxDepth + 1 : From(e)[n] = FromLevel(e, From(e)[n - 1])
<1> DEFINE f == CHOOSE f : f = FromUpTo(e, f, MaxDepth + 1)
<1>1. f = FromUpTo(e, f, MaxDepth + 1)
  BY FromExists, LimitsAreNumbers
<1>2. From(e) = f
  BY Zenon DEF From, FromUpTo, Levels
<1> HIDE DEF f
<1>3. \A n \in 1 .. MaxDepth + 1 : n \in 0 .. MaxDepth + 1 /\ n # 0
  BY LimitsAreNumbers
<1>4. 0 \in 0 .. MaxDepth + 1
  BY LimitsAreNumbers
<1>5. \A n \in 0 .. MaxDepth + 1 : f[n] = IF n = 0 THEN TooDeep(Values) ELSE FromLevel(e, f[n - 1])
  BY <1>1, Zenon DEF FromUpTo
<1> QED
  BY <1>2, <1>3, <1>4, <1>5

ToUpTo(e, f, N) ==
    [i \in 0 .. N |-> IF i = 0 THEN TooDeep(Natives) ELSE ToLevel(e, f[i - 1])]

LEMMA ToExists ==
  ASSUME NEW e, NEW N \in Nat
  PROVE  \E f : f = ToUpTo(e, f, N)
<1> DEFINE Bad == {n \in Nat : ~\E f : f = ToUpTo(e, f, n)}
<1>1. SUFFICES ASSUME Bad # {} PROVE FALSE
  OBVIOUS
<1>2. PICK n \in Bad : \A m \in Bad : n <= m
  <2>1. Bad \in SUBSET Nat
    OBVIOUS
  <2> QED
    BY <1>1, <2>1, Least
<1>3. n # 0
  <2>1. [i \in 0 .. 0 |-> TooDeep(Natives)] = ToUpTo(e, [i \in 0 .. 0 |-> TooDeep(Natives)], 0)
    BY DEF ToUpTo
  <2> QED
    BY <2>1
<1>4. PICK f : f = ToUpTo(e, f, n - 1)
  BY <1>2, <1>3
<1> DEFINE last == ToLevel(e, f[n - 1])
           g == [i \in 0 .. n |-> IF i = n THEN last ELSE f[i]]
<1>5. g = ToUpTo(e, g, n)
  <2>1. n \in Nat
    OBVIOUS
  <2>2. \A i \in 0 .. n - 1 : f[i] = IF i = 0 THEN TooDeep(Natives) ELSE ToLevel(e, f[i - 1])
    BY <1>4, Zenon DEF ToUpTo
  <2>3. \A i \in 0 .. n : i # n => i \in 0 .. n - 1
    BY <2>1
  <2>4. \A i \in 1 .. n : i - 1 \in 0 .. n /\ i - 1 # n
    BY <2>1
  <2>5. \A i \in 0 .. n : g[i] = IF i = 0 THEN TooDeep(Natives) ELSE ToLevel(e, g[i - 1])
    BY <1>3, <2>1, <2>2, <2>3, <2>4
  <2> QED
    BY <2>5 DEF ToUpTo
<1> HIDE DEF g
<1> QED
  BY <1>2, <1>5

(* The levels of a conversion to JavaScript.                               *)
LEMMA ToUnfolds ==
  ASSUME NEW e
  PROVE  /\ To(e)[0] = TooDeep(Natives)
         /\ \A n \in 1 .. MaxDepth + 1 : To(e)[n] = ToLevel(e, To(e)[n - 1])
<1> DEFINE f == CHOOSE f : f = ToUpTo(e, f, MaxDepth + 1)
<1>1. f = ToUpTo(e, f, MaxDepth + 1)
  BY ToExists, LimitsAreNumbers
<1>2. To(e) = f
  BY Zenon DEF To, ToUpTo, Levels
<1> HIDE DEF f
<1>3. \A n \in 1 .. MaxDepth + 1 : n \in 0 .. MaxDepth + 1 /\ n # 0
  BY LimitsAreNumbers
<1>4. 0 \in 0 .. MaxDepth + 1
  BY LimitsAreNumbers
<1>5. \A n \in 0 .. MaxDepth + 1 : f[n] = IF n = 0 THEN TooDeep(Natives) ELSE ToLevel(e, f[n - 1])
  BY <1>1, Zenon DEF ToUpTo
<1> QED
  BY <1>2, <1>3, <1>4, <1>5

PlainUpTo(f, N) ==
    [i \in 0 .. N |-> IF i = 0 THEN Unread ELSE PlainLevel(f[i - 1])]

LEMMA PlainExists ==
  ASSUME NEW N \in Nat
  PROVE  \E f : f = PlainUpTo(f, N)
<1> DEFINE Bad == {n \in Nat : ~\E f : f = PlainUpTo(f, n)}
<1>1. SUFFICES ASSUME Bad # {} PROVE FALSE
  OBVIOUS
<1>2. PICK n \in Bad : \A m \in Bad : n <= m
  <2>1. Bad \in SUBSET Nat
    OBVIOUS
  <2> QED
    BY <1>1, <2>1, Least
<1>3. n # 0
  <2>1. [i \in 0 .. 0 |-> Unread] = PlainUpTo([i \in 0 .. 0 |-> Unread], 0)
    BY DEF PlainUpTo
  <2> QED
    BY <2>1
<1>4. PICK f : f = PlainUpTo(f, n - 1)
  BY <1>2, <1>3
<1> DEFINE last == PlainLevel(f[n - 1])
           g == [i \in 0 .. n |-> IF i = n THEN last ELSE f[i]]
<1>5. g = PlainUpTo(g, n)
  <2>1. n \in Nat
    OBVIOUS
  <2>2. \A i \in 0 .. n - 1 : f[i] = IF i = 0 THEN Unread ELSE PlainLevel(f[i - 1])
    BY <1>4, Zenon DEF PlainUpTo
  <2>3. \A i \in 0 .. n : i # n => i \in 0 .. n - 1
    BY <2>1
  <2>4. \A i \in 1 .. n : i - 1 \in 0 .. n /\ i - 1 # n
    BY <2>1
  <2>5. \A i \in 0 .. n : g[i] = IF i = 0 THEN Unread ELSE PlainLevel(g[i - 1])
    BY <1>3, <2>1, <2>2, <2>3, <2>4
  <2> QED
    BY <2>5 DEF PlainUpTo
<1> HIDE DEF g
<1> QED
  BY <1>2, <1>5

(* The levels of the value an echo returns.                                *)
LEMMA PlainUnfolds ==
  /\ Plain[0] = Unread
  /\ \A n \in 1 .. MaxDepth + 1 : Plain[n] = PlainLevel(Plain[n - 1])
<1> DEFINE f == CHOOSE f : f = PlainUpTo(f, MaxDepth + 1)
<1>1. f = PlainUpTo(f, MaxDepth + 1)
  BY PlainExists, LimitsAreNumbers
<1>2. Plain = f
  BY Zenon DEF Plain, PlainUpTo, Levels
<1> HIDE DEF f
<1>3. \A n \in 1 .. MaxDepth + 1 : n \in 0 .. MaxDepth + 1 /\ n # 0
  BY LimitsAreNumbers
<1>4. 0 \in 0 .. MaxDepth + 1
  BY LimitsAreNumbers
<1>5. \A n \in 0 .. MaxDepth + 1 : f[n] = IF n = 0 THEN Unread ELSE PlainLevel(f[n - 1])
  BY <1>1, Zenon DEF PlainUpTo
<1> QED
  BY <1>2, <1>3, <1>4, <1>5

NestedUpTo(f, N) ==
    [i \in 0 .. N |-> IF i = 0 THEN {} ELSE Holding(f[i - 1])]

LEMMA NestedExists ==
  ASSUME NEW N \in Nat
  PROVE  \E f : f = NestedUpTo(f, N)
<1> DEFINE Bad == {n \in Nat : ~\E f : f = NestedUpTo(f, n)}
<1>1. SUFFICES ASSUME Bad # {} PROVE FALSE
  OBVIOUS
<1>2. PICK n \in Bad : \A m \in Bad : n <= m
  <2>1. Bad \in SUBSET Nat
    OBVIOUS
  <2> QED
    BY <1>1, <2>1, Least
<1>3. n # 0
  <2>1. [i \in 0 .. 0 |-> {}] = NestedUpTo([i \in 0 .. 0 |-> {}], 0)
    BY DEF NestedUpTo
  <2> QED
    BY <2>1
<1>4. PICK f : f = NestedUpTo(f, n - 1)
  BY <1>2, <1>3
<1> DEFINE last == Holding(f[n - 1])
           g == [i \in 0 .. n |-> IF i = n THEN last ELSE f[i]]
<1>5. g = NestedUpTo(g, n)
  <2>1. n \in Nat
    OBVIOUS
  <2>2. \A i \in 0 .. n - 1 : f[i] = IF i = 0 THEN {} ELSE Holding(f[i - 1])
    BY <1>4, Zenon DEF NestedUpTo
  <2>3. \A i \in 0 .. n : i # n => i \in 0 .. n - 1
    BY <2>1
  <2>4. \A i \in 1 .. n : i - 1 \in 0 .. n /\ i - 1 # n
    BY <2>1
  <2>5. \A i \in 0 .. n : g[i] = IF i = 0 THEN {} ELSE Holding(g[i - 1])
    BY <1>3, <2>1, <2>2, <2>3, <2>4
  <2> QED
    BY <2>5 DEF NestedUpTo
<1> HIDE DEF g
<1> QED
  BY <1>2, <1>5

(* The values of at most n levels.                                         *)
LEMMA NestedUnfolds ==
  /\ Nested[0] = {}
  /\ \A n \in 1 .. MaxDepth + 1 : Nested[n] = Holding(Nested[n - 1])
<1> DEFINE f == CHOOSE f : f = NestedUpTo(f, MaxDepth + 1)
<1>1. f = NestedUpTo(f, MaxDepth + 1)
  BY NestedExists, LimitsAreNumbers
<1>2. Nested = f
  BY Zenon DEF Nested, NestedUpTo, Levels
<1> HIDE DEF f
<1>3. \A n \in 1 .. MaxDepth + 1 : n \in 0 .. MaxDepth + 1 /\ n # 0
  BY LimitsAreNumbers
<1>4. 0 \in 0 .. MaxDepth + 1
  BY LimitsAreNumbers
<1>5. \A n \in 0 .. MaxDepth + 1 : f[n] = IF n = 0 THEN {} ELSE Holding(f[n - 1])
  BY <1>1, Zenon DEF NestedUpTo
<1> QED
  BY <1>2, <1>3, <1>4, <1>5

(* f is what Each has after each item.                                     *)
Runs(f, e, below, types, values, start) ==
    /\ Each(e, below, types, values, start) = f[Len(values)]
    /\ f[0] = start
    /\ \A i \in 1 .. Len(values) : f[i] = Item(e, below, types[i], values[i], f[i - 1])

(* The items are converted one after the other.                            *)
LEMMA EachUnfolds ==
  ASSUME NEW e, NEW below, NEW types, NEW values, NEW start, Len(values) \in Nat
  PROVE  \E f : Runs(f, e, below, types, values, start)
<1> DEFINE f == CHOOSE f : f = EachUpTo(e, below, types, values, start, f, Len(values))
<1>1. f = EachUpTo(e, below, types, values, start, f, Len(values))
  BY EachExists
<1>2. Each(e, below, types, values, start) = f[Len(values)]
  BY Zenon DEF Each, EachUpTo
<1> HIDE DEF f
<1>3. \A i \in 1 .. Len(values) : i \in 0 .. Len(values) /\ i # 0
  OBVIOUS
<1>4. 0 \in 0 .. Len(values)
  OBVIOUS
<1>5. \A i \in 0 .. Len(values) :
          f[i] = IF i = 0 THEN start ELSE Item(e, below, types[i], values[i], f[i - 1])
  BY <1>1, Zenon DEF EachUpTo
<1>6. Runs(f, e, below, types, values, start)
  BY <1>2, <1>3, <1>4, <1>5 DEF Runs
<1> QED
  BY <1>6

(*------------------------------ conversions -----------------------------*)
(* A value that is read, and a field of it, are values.                    *)
LEMMA ReadValue ==
  ASSUME NEW v \in Values
  PROVE  Read(v) \in Values /\ \A i : Read(FieldOf(v, i)) \in Values
<1>1. \A u \in Values : Read(u) \in Values
  <2> SUFFICES ASSUME NEW u \in Values PROVE Read(u) \in Values
    OBVIOUS
  <2>1. u.kids \in Seq(Values) /\ (u.j = "inherited" => Len(u.kids) = 1) /\ Undefined \in Values
    BY ConversionAssumption DEF ValueShape, Holding
  <2>2. u.j = "inherited" => u.kids[1] \in Values
    BY <2>1
  <2> QED
    BY <2>1, <2>2 DEF Read
<1>2. ASSUME NEW i PROVE Read(FieldOf(v, i)) \in Values
  <2>1. v.kids \in Seq(Values) /\ Undefined \in Values
    BY ConversionAssumption DEF ValueShape, Holding
  <2>2. CASE i \in DOMAIN v.kids
    <3>1. v.kids[i] \in Values
      BY <2>1, <2>2
    <3> QED
      BY <3>1, <2>2, <1>1 DEF FieldOf
  <2>3. CASE i \notin DOMAIN v.kids
    BY <2>1, <2>3 DEF FieldOf, Read, V
  <2> QED
    BY <2>2, <2>3
<1> QED
  BY <1>1, <1>2

(* The parts of a failure and of a success.                                *)
LEMMA ResultFacts ==
  ASSUME NEW verdict, NEW out, NEW retained, NEW b
  PROVE  /\ Fail(verdict, b).verdict = verdict /\ Fail(verdict, b).budget = b
         /\ Ok(out, retained, b).verdict = "ok" /\ Ok(out, retained, b).budget = b
         /\ Ok(out, retained, b).out = out /\ Ok(out, retained, b).retained = retained
BY DEF Fail, Ok

(* A charge is added to what the converter reserves, and nowhere else.     *)
LEMMA ChargeFacts ==
  ASSUME NEW e, NEW kind, NEW amount \in Nat, NEW b \in Budgets
  PROVE  /\ Charge(e, kind, amount, b) \in Budgets
         /\ Charge(e, kind, amount, b).visits = b.visits
         /\ Charge(e, kind, amount, b).temporary =
               IF kind \in e.reserves THEN b.temporary + amount ELSE b.temporary
BY DEF Charge, Budgets

(* Charged succeeds or fails, with what is charged in its budget.          *)
LEMMA ChargedFacts ==
  ASSUME NEW e, NEW kind, NEW amount \in Nat, NEW b \in Budgets, NEW out, NEW retained, NEW r,
         r = Charged(e, kind, amount, b, Ok(out, retained, b))
  PROVE  /\ r.budget = Charge(e, kind, amount, b) /\ r.budget \in Budgets
         /\ r.verdict = "ok" => /\ r = Ok(out, retained, r.budget)
                                /\ r.budget.temporary <= MaxTemporary
         /\ r.verdict # "ok" => /\ r = Fail("limit", r.budget)
                                /\ r.budget.temporary > MaxTemporary
<1> DEFINE after == Charge(e, kind, amount, b)
<1>1. after \in Budgets
  BY ChargeFacts
<1>2. after.temporary \in Nat
  BY <1>1 DEF Budgets
<1>3. r = IF after.temporary > MaxTemporary THEN Fail("limit", after) ELSE Ok(out, retained, after)
  BY DEF Charged, Ok, after
<1> HIDE DEF after
<1>4. CASE after.temporary > MaxTemporary
  <2>1. r = Fail("limit", after)
    BY <1>3, <1>4
  <2>2. r.budget = after /\ r.verdict = "limit"
    BY <2>1, ResultFacts
  <2> QED
    BY <2>1, <2>2, <1>1, <1>4 DEF after
<1>5. CASE ~(after.temporary > MaxTemporary)
  <2>1. r = Ok(out, retained, after)
    BY <1>3, <1>5
  <2>2. r.budget = after /\ r.verdict = "ok"
    BY <2>1, ResultFacts
  <2>3. after.temporary <= MaxTemporary
    BY <1>2, <1>5, LimitsAreNumbers
  <2> QED
    BY <2>1, <2>2, <2>3, <1>1 DEF after
<1> QED
  BY <1>4, <1>5

(* What fails when it is charged fails with the budget after the charge.   *)
FailedCharge(e, kind, amount, b, verdict, r) ==
    LET after == Charge(e, kind, amount, b) IN
    r = IF after.temporary > MaxTemporary THEN Fail("limit", after) ELSE Fail(verdict, after)
LEMMA ChargedFails ==
  ASSUME NEW e, NEW kind, NEW amount \in Nat, NEW b \in Budgets, NEW verdict, NEW r,
         r = Charged(e, kind, amount, b, Fail(verdict, b))
  PROVE  FailedCharge(e, kind, amount, b, verdict, r) /\ r.budget \in Budgets
<1> DEFINE after == Charge(e, kind, amount, b)
<1>1. after \in Budgets
  BY ChargeFacts
<1>2. r = IF after.temporary > MaxTemporary THEN Fail("limit", after) ELSE Fail(verdict, after)
  BY DEF Charged, Fail, after
<1> HIDE DEF after
<1>3. r.budget = after
  BY <1>2, ResultFacts
<1> QED
  BY <1>1, <1>2, <1>3 DEF FailedCharge, after

(* A visit counts one more visit.                                          *)
LEMMA VisitFacts ==
  ASSUME NEW b \in Budgets
  PROVE  Visit(b) \in Budgets /\ Visit(b).visits = b.visits + 1 /\ Visit(b).temporary = b.temporary
BY DEF Visit, Budgets

(* A level of a conversion from or to S counts in budgets.                 *)
Counts(below, S) == \A t \in Types, v \in S, b \in Budgets : below[<<t, v, b>>].budget \in Budgets

(* The types and values of a sequence that is converted. *)
Fits(types, values, S) ==
    /\ Len(values) \in Nat
    /\ \A i \in 1 .. Len(values) : types[i] \in Types /\ Read(values[i]) \in S

(* Such an f whose budgets are numbers.                                    *)
Unfolds(f, e, below, types, values, start) ==
    /\ Runs(f, e, below, types, values, start)
    /\ \A i \in 0 .. Len(values) : f[i].budget \in Budgets

(* The items are converted with budgets that are numbers.                  *)
LEMMA EachFacts ==
  ASSUME NEW e, NEW below, NEW types, NEW values, NEW start, NEW S,
         Counts(below, S), Fits(types, values, S), start.budget \in Budgets
  PROVE  \E f : Unfolds(f, e, below, types, values, start)
<1>0. Len(values) \in Nat
  BY DEF Fits
<1>1. PICK f : Runs(f, e, below, types, values, start)
  BY <1>0, EachUnfolds
<1> DEFINE Bad == {i \in 0 .. Len(values) : f[i].budget \notin Budgets}
<1>2. Bad = {}
  <2>1. SUFFICES ASSUME Bad # {} PROVE FALSE
    OBVIOUS
  <2>2. PICK n \in Bad : \A m \in Bad : n <= m
    <3>1. Bad \in SUBSET Nat
      BY <1>0
    <3> HIDE DEF Bad
    <3> QED
      BY <2>1, <3>1, Least
  <2>3. n \in 1 .. Len(values) /\ f[n - 1].budget \in Budgets
    BY <1>0, <1>1, <2>2 DEF Runs
  <2>4. f[n] = Item(e, below, types[n], values[n], f[n - 1])
    BY <1>1, <2>3 DEF Runs
  <2>5. below[<<types[n], Read(values[n]), f[n - 1].budget>>].budget \in Budgets
    BY <2>3 DEF Counts, Fits
  <2>6. Item(e, below, types[n], values[n], f[n - 1]).budget \in Budgets
    BY <2>3, <2>5 DEF Item, Join, Fail, Ok
  <2> QED
    BY <2>4, <2>6
<1> HIDE DEF Bad
<1>3. \A i \in 0 .. Len(values) : f[i].budget \in Budgets
  BY <1>2 DEF Bad
<1> QED
  BY <1>1, <1>3 DEF Unfolds

(* So is the budget after the last of them.                                *)
LEMMA EachBudget ==
  ASSUME NEW e, NEW below, NEW types, NEW values, NEW start, NEW S,
         Counts(below, S), Fits(types, values, S), start.budget \in Budgets
  PROVE  Each(e, below, types, values, start).budget \in Budgets
<1>1. Len(values) \in Nat
  BY DEF Fits
<1>2. PICK f : Unfolds(f, e, below, types, values, start)
  BY EachFacts
<1> QED
  BY <1>1, <1>2 DEF Unfolds, Runs

(* The elements of an array and the fields of a value.                     *)
LEMMA TypeFacts ==
  ASSUME NEW t \in Types
  PROVE  /\ t.k \in ScalarTypes \cup {"enum", "object", "nullable", "array", "value"}
         /\ t.kids \in Seq(Types)
         /\ t.k \in {"nullable", "array"} => t.kids[1] \in Types
         /\ t.k = "value" => t.kids # <<>>
<1>1. TypeShape(t)
  BY ConversionAssumption
<1>2. t.kids \in Seq(Types) /\ (t.k \in {"nullable", "array"} => Len(t.kids) = 1)
  BY <1>1 DEF TypeShape
<1> QED
  BY <1>1, <1>2 DEF TypeShape

LEMMA PartsFit ==
  ASSUME NEW t \in Types, NEW v \in Values
  PROVE  /\ t.k = "array" => Fits([i \in 1 .. Len(v.kids) |-> t.kids[1]], v.kids, Values)
         /\ t.k = "value" => Fits(t.kids, [i \in 1 .. Len(t.kids) |-> FieldOf(v, i)], Values)
         /\ Len(v.kids) \in Nat /\ Len(t.kids) \in Nat
<1>1. v.kids \in Seq(Values)
  BY ConversionAssumption DEF ValueShape, Holding
<1>2. t.kids \in Seq(Types)
  BY TypeFacts
<1>3. CASE t.k = "array"
  <2>1. \A i \in 1 .. Len(v.kids) : v.kids[i] \in Values
    BY <1>1
  <2> QED
    BY <2>1, <1>1, <1>3, TypeFacts, ReadValue DEF Fits
<1>4. ASSUME t.k = "value"
      PROVE  Fits(t.kids, [i \in 1 .. Len(t.kids) |-> FieldOf(v, i)], Values)
  <2> DEFINE fields == [i \in 1 .. Len(t.kids) |-> FieldOf(v, i)]
  <2>1. Len(fields) = Len(t.kids) /\ Len(t.kids) \in Nat /\ \A i \in 1 .. Len(t.kids) : t.kids[i] \in Types
    BY <1>2
  <2>2. \A i \in 1 .. Len(t.kids) : fields[i] = FieldOf(v, i)
    OBVIOUS
  <2> HIDE DEF fields
  <2>3. Fits(t.kids, fields, Values)
    BY <2>1, <2>2, ReadValue DEF Fits
  <2> QED
    BY <2>3 DEF fields
<1> QED
  BY <1>1, <1>2, <1>3, <1>4

(* A constructor spends nothing.                                           *)
LEMMA BuiltBudget ==
  ASSUME NEW e, NEW t, NEW r
  PROVE  Built(e, t, r).budget = r.budget
BY DEF Built, Fail, Ok

(* One level of a conversion counts.                                       *)
LEMMA FromNodeBudget ==
  ASSUME NEW e, NEW below, Counts(below, Values), NEW t \in Types, NEW v \in Values, NEW before \in Budgets
  PROVE  FromNode(e, below, t, v, before).budget \in Budgets
<1> DEFINE b == Visit(before)
<1>1. b \in Budgets
  BY VisitFacts
<1>2. v.size \in Nat
  BY ConversionAssumption DEF ValueShape, Holding
<1> HIDE DEF b
<1>3. \A verdict : Fail(verdict, b).budget \in Budgets
  BY <1>1 DEF Fail
<1>4. \A out, retained : Ok(out, retained, b).budget \in Budgets
  BY <1>1 DEF Ok
<1>5. ASSUME NEW kind, NEW out, NEW retained, NEW amount \in Nat
      PROVE  Charged(e, kind, amount, b, Ok(out, retained, b)).budget \in Budgets
  BY <1>1, ChargedFacts
<1>6. FromScalar(e, t.k, v, b).budget \in Budgets
  BY <1>2, <1>3, <1>5 DEF FromScalar
<1>7. FromEnum(e, v, b).budget \in Budgets
  <2>1. \A verdict : Charged(e, "enum", v.size, b, Fail(verdict, b)).budget \in Budgets
    BY <1>1, <1>2, ChargedFails
  <2>2. CASE v.n = "constant"
    BY <1>2, <1>3, <1>5, <2>2 DEF FromEnum
  <2>3. CASE v.n # "constant"
    BY <1>3, <2>1, <2>3 DEF FromEnum
  <2> QED
    BY <2>2, <2>3
<1>8. FromHandle(e, v, b).budget \in Budgets
  BY <1>3, <1>5 DEF FromHandle
<1>9. t.k = "array" => FromArray(e, below, t, v, b).budget \in Budgets
  <2> SUFFICES ASSUME t.k = "array" PROVE FromArray(e, below, t, v, b).budget \in Budgets
    OBVIOUS
  <2> DEFINE types == [i \in 1 .. Len(v.kids) |-> t.kids[1]]
             start == Charged(e, "array", 3 + Len(v.kids), b, Ok(V("list", "none", 0, <<>>), <<>>, b))
  <2>0. Fits(types, v.kids, Values) /\ Len(v.kids) \in Nat
    BY PartsFit, Zenon
  <2>1. Fits(types, v.kids, Values) /\ 3 + Len(v.kids) \in Nat
    <3> HIDE DEF types
    <3> QED
      BY <2>0
  <2>2. start.budget \in Budgets
    BY <2>1, <1>5
  <2> HIDE DEF types, start
  <2>3. Each(e, below, types, v.kids, start).budget \in Budgets
    BY <2>1, <2>2, EachBudget
  <2> QED
    BY <2>3, <1>3 DEF FromArray, types, start
<1>10. t.k = "value" => FromValue(e, below, t, v, b).budget \in Budgets
  <2> SUFFICES ASSUME t.k = "value" PROVE FromValue(e, below, t, v, b).budget \in Budgets
    OBVIOUS
  <2> DEFINE values == [i \in 1 .. Len(t.kids) |-> FieldOf(v, i)]
             start == Charged(e, "value", 4 + 2 * Len(t.kids), b, Ok(V("struct", "none", 0, <<>>), <<>>, b))
  <2>0. Fits(t.kids, values, Values) /\ Len(t.kids) \in Nat
    BY PartsFit, Zenon
  <2>1. Fits(t.kids, values, Values) /\ 4 + 2 * Len(t.kids) \in Nat
    <3> HIDE DEF values
    <3> QED
      BY <2>0
  <2>2. start.budget \in Budgets
    BY <2>1, <1>5
  <2> HIDE DEF values, start
  <2>3. Each(e, below, t.kids, values, start).budget \in Budgets
    BY <2>1, <2>2, EachBudget
  <2>4. Built(e, t, Each(e, below, t.kids, values, start)).budget \in Budgets
    BY <2>3, BuiltBudget
  <2> QED
    BY <2>4, <1>3 DEF FromValue, values, start
<1>11. t.k = "nullable" => below[<<t.kids[1], v, b>>].budget \in Budgets
  BY <1>1, TypeFacts DEF Counts
<1> QED
  BY <1>3, <1>4, <1>6, <1>7, <1>8, <1>9, <1>10, <1>11 DEF FromNode, b

(* One level applied: what is in its domain. *)
LEMMA FromApplied ==
  ASSUME NEW e, NEW t \in Types, NEW v \in Values, NEW b \in Budgets
  PROVE  /\ From(e)[0][<<t, v, b>>] = Fail("limit", Visit(b))
         /\ \A n \in 1 .. MaxDepth + 1 :
               From(e)[n][<<t, v, b>>] = FromNode(e, From(e)[n - 1], t, v, b)
<1>1. <<t, v, b>> \in Types \X Values \X Budgets
  OBVIOUS
<1>2. TooDeep(Values)[<<t, v, b>>] = Fail("limit", Visit(b))
  BY <1>1 DEF TooDeep
<1>3. \A below : FromLevel(e, below)[<<t, v, b>>] = FromNode(e, below, t, v, b)
  BY <1>1 DEF FromLevel
<1> QED
  BY <1>2, <1>3, FromUnfolds

(* Every level of a conversion counts.                                     *)
LEMMA FromCounts ==
  ASSUME NEW e
  PROVE  \A n \in Levels : Counts(From(e)[n], Values)
<1> DEFINE Bad == {n \in Levels : ~Counts(From(e)[n], Values)}
<1>1. SUFFICES ASSUME Bad # {} PROVE FALSE
  OBVIOUS
<1>2. PICK n \in Bad : \A m \in Bad : n <= m
  <2>1. Bad \in SUBSET Nat
    BY LimitsAreNumbers DEF Levels
  <2> HIDE DEF Bad
  <2> QED
    BY <1>1, <2>1, Least
<1>3. n # 0
  <2>1. Counts(From(e)[0], Values)
    <3> SUFFICES ASSUME NEW t \in Types, NEW v \in Values, NEW b \in Budgets
                 PROVE  From(e)[0][<<t, v, b>>].budget \in Budgets
      BY DEF Counts
    <3>1. From(e)[0][<<t, v, b>>] = Fail("limit", Visit(b))
      BY FromApplied
    <3>2. Visit(b) \in Budgets
      BY VisitFacts
    <3> QED
      BY <3>1, <3>2, ResultFacts
  <2> QED
    BY <1>2, <2>1
<1>4. n \in 1 .. MaxDepth + 1 /\ n - 1 \in Levels
  BY <1>2, <1>3, LimitsAreNumbers DEF Levels
<1>5. Counts(From(e)[n - 1], Values)
  BY <1>2, <1>4, LimitsAreNumbers DEF Levels
<1>6. Counts(From(e)[n], Values)
  <2> SUFFICES ASSUME NEW t \in Types, NEW v \in Values, NEW b \in Budgets
               PROVE  From(e)[n][<<t, v, b>>].budget \in Budgets
    BY DEF Counts
  <2>1. From(e)[n][<<t, v, b>>] = FromNode(e, From(e)[n - 1], t, v, b)
    BY <1>4, FromApplied
  <2> QED
    BY <1>5, <2>1, FromNodeBudget
<1> QED
  BY <1>2, <1>6

(*------------------- one converter against another ----------------------*)
(* d accepts what e accepts.  "all": with the same output and a budget     *)
(* that is no higher, and what the author refuses to e is refused to d.    *)
(* "made": with the same budget.  "fit": unless d's temporary storage runs *)
(* out.  "type": unless some limit of d is exceeded.  In these three an    *)
(* author who does not keep every field can refuse.                        *)
Modes == {"type", "fit", "made", "all"}
Looser(mode, e, d) ==
    /\ mode \in Modes
    /\ d.own => e.own
    /\ e.native => d.native
    /\ mode = "all" => d.reserves \subseteq e.reserves /\ d.native = e.native /\ d.author = e.author
    /\ mode = "made" => d.reserves = e.reserves
Spends(mode, b, c) ==
    /\ mode # "type" => c.visits <= b.visits
    /\ mode = "all" => c.temporary <= b.temporary
    /\ mode = "made" => c = b
Refusing(d) == d.author \notin {"none", "keeps"}
Excused(mode, d, s) ==
    \/ s.verdict = "limit" /\ (mode = "type" \/ (mode = "fit" /\ s.budget.temporary > MaxTemporary))
    \/ s.verdict = "thrown" /\ mode # "all" /\ Refusing(d)
Follows(mode, d, r, s) ==
    /\ r.verdict = "ok" =>
        \/ Excused(mode, d, s)
        \/ /\ s.verdict = "ok" /\ (mode = "all" => s.out = r.out) /\ s.retained = r.retained
           /\ Spends(mode, r.budget, s.budget)
    /\ (mode = "all" /\ r.verdict = "thrown") => s.verdict = "thrown" /\ s.out = r.out
FollowsBelow(mode, d, g, h) ==
    \A t \in Types, v \in Values, b, c \in Budgets :
        Spends(mode, b, c) => Follows(mode, d, g[<<t, v, b>>], h[<<t, v, c>>])

(* Nothing is asked of what follows another failure.                       *)
LEMMA FailFollows ==
  ASSUME NEW mode, NEW d, NEW verdict, verdict # "ok", verdict # "thrown", NEW b, NEW s
  PROVE  Follows(mode, d, Fail(verdict, b), s)
BY ResultFacts DEF Follows

(* The same output follows, with less spent.                               *)
LEMMA OkFollows ==
  ASSUME NEW mode, NEW d, NEW out, NEW result, mode = "all" => result = out,
         NEW retained, NEW b, NEW c, Spends(mode, b, c)
  PROVE  Follows(mode, d, Ok(out, retained, b), Ok(result, retained, c))
BY ResultFacts DEF Follows

(* The same refusal follows.                                               *)
LEMMA ThrownFollows ==
  ASSUME NEW mode, NEW d, NEW b, NEW c
  PROVE  Follows(mode, d, Fail("thrown", b), Fail("thrown", c))
BY DEF Follows, Fail

(* A limit excuses from following when only the type is compared.          *)
LEMMA LimitFollows ==
  ASSUME NEW d, NEW b, NEW r
  PROVE  Follows("type", d, r, Fail("limit", b))
<1> DEFINE s == Fail("limit", b)
<1>1. s.verdict = "limit"
  BY ResultFacts
<1> HIDE DEF s
<1>2. Excused("type", d, s)
  BY <1>1 DEF Excused
<1>3. Follows("type", d, r, s)
  BY <1>2, Zenon DEF Follows
<1> QED
  BY <1>3 DEF s

(* What is charged to the looser converter follows.                        *)
LEMMA ChargedFollows ==
  ASSUME NEW mode, NEW e, NEW d, Looser(mode, e, d),
         NEW b \in Budgets, NEW c \in Budgets, Spends(mode, b, c),
         NEW kind, NEW amount \in Nat, NEW out, NEW result, mode = "all" => result = out, NEW retained
  PROVE  Follows(mode, d, Charged(e, kind, amount, b, Ok(out, retained, b)),
                       Charged(d, kind, amount, c, Ok(result, retained, c)))
<1> DEFINE r == Charged(e, kind, amount, b, Ok(out, retained, b))
           s == Charged(d, kind, amount, c, Ok(result, retained, c))
<1>1. /\ r.budget = Charge(e, kind, amount, b) /\ r.budget \in Budgets
      /\ r.verdict = "ok" => r = Ok(out, retained, r.budget) /\ r.budget.temporary <= MaxTemporary
      /\ r.verdict # "ok" => r = Fail("limit", r.budget)
  BY ChargedFacts
<1>2. /\ s.budget = Charge(d, kind, amount, c) /\ s.budget \in Budgets
      /\ s.verdict = "ok" => s = Ok(result, retained, s.budget)
      /\ s.verdict # "ok" => s = Fail("limit", s.budget) /\ s.budget.temporary > MaxTemporary
  BY ChargedFacts
<1>3. /\ r.budget.visits = b.visits
      /\ r.budget.temporary = IF kind \in e.reserves THEN b.temporary + amount ELSE b.temporary
  BY <1>1, ChargeFacts
<1>4. /\ s.budget.visits = c.visits
      /\ s.budget.temporary = IF kind \in d.reserves THEN c.temporary + amount ELSE c.temporary
  BY <1>2, ChargeFacts
<1> HIDE DEF r, s
<1>5. /\ b.visits \in Nat /\ c.visits \in Nat /\ b.temporary \in Nat /\ c.temporary \in Nat
      /\ r.budget.temporary \in Nat /\ s.budget.temporary \in Nat
  BY <1>1, <1>2 DEF Budgets
<1>6. Spends(mode, r.budget, s.budget)
  <2>1. mode = "made" => s.budget = r.budget
    <3> SUFFICES ASSUME mode = "made" PROVE s.budget = r.budget
      OBVIOUS
    <3>1. b = c /\ d.reserves = e.reserves
      BY DEF Spends, Looser
    <3> QED
      BY <1>1, <1>2, <3>1 DEF Charge
  <2> QED
    BY <1>3, <1>4, <1>5, <2>1 DEF Spends, Looser
<1>7. ASSUME r.verdict = "ok" PROVE Follows(mode, d, r, s)
  <2>1. r.out = out /\ r.retained = retained
    BY <1>1, <1>7, ResultFacts
  <2>2. CASE s.verdict = "ok"
    <3>1. s.out = result /\ s.retained = retained
      BY <1>2, <2>2, ResultFacts
    <3> QED
      BY <1>6, <1>7, <2>1, <2>2, <3>1 DEF Follows
  <2>3. CASE s.verdict # "ok"
    <3>1. s.verdict = "limit"
      BY <1>2, <2>3, ResultFacts
    <3>2. mode # "all" /\ mode # "made"
      BY <1>1, <1>2, <1>5, <1>6, <1>7, <2>3, LimitsAreNumbers DEF Spends
    <3>3. mode \in {"type", "fit"}
      BY <3>2 DEF Looser, Modes
    <3> QED
      BY <1>2, <2>3, <3>1, <3>3 DEF Follows, Excused
  <2> QED
    BY <2>2, <2>3
<1>8. r.verdict # "thrown"
  BY <1>1, ResultFacts
<1>9. Follows(mode, d, r, s)
  BY <1>7, <1>8 DEF Follows
<1> QED
  BY <1>9 DEF r, s

(* What is refused only after it was charged is refused to the looser      *)
(* converter, too, which charges no more.                                  *)
LEMMA RefusedFollows ==
  ASSUME NEW mode, NEW e, NEW d, Looser(mode, e, d),
         NEW b \in Budgets, NEW c \in Budgets, Spends(mode, b, c),
         NEW kind, NEW amount \in Nat, NEW verdict \in {"TypeError", "thrown"}, NEW r, NEW s,
         r = Charged(e, kind, amount, b, Fail(verdict, b)),
         mode = "all" => s = Charged(d, kind, amount, c, Fail(verdict, c))
  PROVE  Follows(mode, d, r, s)
<1> DEFINE before == Charge(e, kind, amount, b)
           after == Charge(d, kind, amount, c)
<1>1. r = IF before.temporary > MaxTemporary THEN Fail("limit", before) ELSE Fail(verdict, before)
  BY ChargedFails DEF FailedCharge
<1>2. mode = "all" =>
        s = IF after.temporary > MaxTemporary THEN Fail("limit", after) ELSE Fail(verdict, after)
  BY ChargedFails DEF FailedCharge
<1>3. mode = "all" => after.temporary <= before.temporary
  <2>1. /\ before.temporary = IF kind \in e.reserves THEN b.temporary + amount ELSE b.temporary
        /\ after.temporary = IF kind \in d.reserves THEN c.temporary + amount ELSE c.temporary
        /\ b.temporary \in Nat /\ c.temporary \in Nat
    <3>1. b.temporary \in Nat /\ c.temporary \in Nat
      BY DEF Budgets
    <3>2. before.temporary = IF kind \in e.reserves THEN b.temporary + amount ELSE b.temporary
      BY DEF Charge, Budgets
    <3>3. after.temporary = IF kind \in d.reserves THEN c.temporary + amount ELSE c.temporary
      BY DEF Charge, Budgets
    <3> QED
      BY <3>1, <3>2, <3>3
  <2> HIDE DEF before, after
  <2>2. mode = "all" => c.temporary <= b.temporary /\ (kind \in d.reserves => kind \in e.reserves)
    BY DEF Looser, Spends
  <2>3. CASE kind \in e.reserves
    BY <2>1, <2>2, <2>3
  <2>4. CASE kind \notin e.reserves
    BY <2>1, <2>2, <2>4
  <2> QED
    BY <2>3, <2>4
<1>4. before.temporary \in Nat /\ after.temporary \in Nat
  BY ChargeFacts DEF Budgets
<1> HIDE DEF before, after
<1>5. CASE before.temporary > MaxTemporary
  BY <1>1, <1>5, FailFollows
<1>6. CASE ~(before.temporary > MaxTemporary) /\ verdict = "TypeError"
  BY <1>1, <1>6, FailFollows
<1>7. CASE ~(before.temporary > MaxTemporary) /\ verdict = "thrown"
  <2>1. r = Fail("thrown", before)
    BY <1>1, <1>7
  <2>2. CASE mode = "all"
    <3>1. ~(after.temporary > MaxTemporary)
      BY <1>3, <1>4, <1>7, <2>2, LimitsAreNumbers
    <3>2. s = Fail("thrown", after)
      BY <1>2, <1>7, <2>2, <3>1
    <3> QED
      BY <2>1, <3>2, ThrownFollows
  <2>3. CASE mode # "all"
    BY <2>1, <2>3, ResultFacts DEF Follows
  <2> QED
    BY <2>2, <2>3
<1> QED
  BY <1>5, <1>6, <1>7

(* One item follows.                                                       *)
LEMMA ItemFollows ==
  ASSUME NEW mode, NEW e, NEW d, Looser(mode, e, d),
         NEW g, NEW h, FollowsBelow(mode, d, g, h),
         NEW type \in Types, NEW one, Read(one) \in Values,
         NEW r, NEW s, r.budget \in Budgets, s.budget \in Budgets, Follows(mode, d, r, s)
  PROVE  Follows(mode, d, Item(e, g, type, one, r), Item(d, h, type, one, s))
<1> DEFINE r2 == Item(e, g, type, one, r)
           s2 == Item(d, h, type, one, s)
           p == g[<<type, Read(one), r.budget>>]
           q == h[<<type, Read(one), s.budget>>]
<1> SUFFICES Follows(mode, d, r2, s2)
  OBVIOUS
<1>1. CASE r.verdict # "ok"
  <2>1. r2 = r
    BY <1>1 DEF Item
  <2>2. mode = "all" /\ r.verdict = "thrown" => s.verdict = "thrown" /\ s.out = r.out
    BY DEF Follows
  <2>3. s.verdict = "thrown" => s2 = s
    BY DEF Item
  <2> HIDE DEF r2, s2
  <2> QED
    BY <1>1, <2>1, <2>2, <2>3 DEF Follows
<1>2. CASE r.verdict = "ok" /\ Excused(mode, d, s)
  <2>1. s.verdict # "ok" /\ mode # "all"
    BY <1>2 DEF Excused
  <2>2. s2 = s
    BY <2>1 DEF Item
  <2> HIDE DEF r2, s2
  <2> QED
    BY <1>2, <2>1, <2>2 DEF Follows
<1>3. CASE r.verdict = "ok" /\ ~Excused(mode, d, s) /\ Absent(e, one)
  <2>1. r2 = Fail("TypeError", r.budget)
    BY <1>3 DEF Item
  <2> HIDE DEF r2, s2
  <2> QED
    BY <2>1, FailFollows
<1>4. CASE r.verdict = "ok" /\ ~Excused(mode, d, s) /\ ~Absent(e, one)
  <2>1. /\ s.verdict = "ok" /\ (mode = "all" => s.out = r.out) /\ s.retained = r.retained
        /\ Spends(mode, r.budget, s.budget)
    BY <1>4 DEF Follows
  <2>2. ~Absent(d, one)
    BY <1>4 DEF Absent, Looser
  <2>3. Follows(mode, d, p, q)
    BY <2>1 DEF FollowsBelow
  <2>4. r2 = Join(r, p) /\ s2 = Join(s, q)
    BY <1>4, <2>1, <2>2 DEF Item
  <2> HIDE DEF p, q, r2, s2
  <2>5. CASE p.verdict = "ok" /\ q.verdict = "ok"
    <3> DEFINE out == [r.out EXCEPT !.kids = Append(@, p.out)]
               result == [s.out EXCEPT !.kids = Append(@, q.out)]
    <3>1. /\ (mode = "all" => q.out = p.out) /\ q.retained = p.retained
          /\ Spends(mode, p.budget, q.budget)
      BY <2>3, <2>5 DEF Follows, Excused
    <3>2. mode = "all" => result = out
      BY <2>1, <3>1
    <3>3. /\ r2 = Ok(out, r.retained \o p.retained, p.budget)
          /\ s2 = Ok(result, r.retained \o p.retained, q.budget)
      BY <2>1, <2>4, <2>5, <3>1, Zenon DEF Join
    <3> HIDE DEF out, result
    <3> QED
      BY <3>1, <3>2, <3>3, OkFollows
  <2>6. CASE p.verdict = "ok" /\ q.verdict # "ok"
    <3>1. s2 = q /\ Excused(mode, d, q)
      BY <2>3, <2>4, <2>6 DEF Join, Follows
    <3>2. mode # "all"
      BY <3>1 DEF Excused
    <3> QED
      BY <3>1, <3>2 DEF Follows
  <2>7. CASE p.verdict # "ok"
    <3>1. r2 = p
      BY <2>4, <2>7 DEF Join
    <3>2. q.verdict = "thrown" => s2 = q
      BY <2>4 DEF Join
    <3> QED
      BY <2>3, <2>7, <3>1, <3>2 DEF Follows
  <2> QED
    BY <2>5, <2>6, <2>7
<1> QED
  BY <1>1, <1>2, <1>3, <1>4

(* All items follow.                                                       *)
LEMMA EachFollows ==
  ASSUME NEW mode, NEW e, NEW d, Looser(mode, e, d),
         NEW g, NEW h, FollowsBelow(mode, d, g, h), Counts(g, Values), Counts(h, Values),
         NEW types, NEW values, Fits(types, values, Values),
         NEW r, NEW s, r.budget \in Budgets, s.budget \in Budgets, Follows(mode, d, r, s)
  PROVE  Follows(mode, d, Each(e, g, types, values, r), Each(d, h, types, values, s))
<1>0. Len(values) \in Nat
  BY DEF Fits
<1>1. PICK f : Unfolds(f, e, g, types, values, r)
  BY EachFacts
<1>2. PICK k : Unfolds(k, d, h, types, values, s)
  BY EachFacts
<1> DEFINE Bad == {i \in 0 .. Len(values) : ~Follows(mode, d, f[i], k[i])}
<1>3. Bad = {}
  <2>1. SUFFICES ASSUME Bad # {} PROVE FALSE
    OBVIOUS
  <2>2. PICK n \in Bad : \A m \in Bad : n <= m
    <3>1. Bad \in SUBSET Nat
      BY <1>0
    <3> HIDE DEF Bad
    <3> QED
      BY <2>1, <3>1, Least
  <2>3. n \in 1 .. Len(values) /\ n - 1 \in 0 .. Len(values) /\ Follows(mode, d, f[n - 1], k[n - 1])
    BY <1>0, <1>1, <1>2, <2>2 DEF Unfolds, Runs
  <2>4. types[n] \in Types /\ Read(values[n]) \in Values
    BY <2>3 DEF Fits
  <2>5. f[n - 1].budget \in Budgets /\ k[n - 1].budget \in Budgets
    BY <1>1, <1>2, <2>3 DEF Unfolds, Runs
  <2>6. Follows(mode, d, Item(e, g, types[n], values[n], f[n - 1]), Item(d, h, types[n], values[n], k[n - 1]))
    BY <2>3, <2>4, <2>5, ItemFollows
  <2> QED
    BY <1>1, <1>2, <2>2, <2>3, <2>6 DEF Unfolds, Runs
<1> HIDE DEF Bad
<1>4. \A i \in 0 .. Len(values) : Follows(mode, d, f[i], k[i])
  BY <1>3 DEF Bad
<1>5. Follows(mode, d, f[Len(values)], k[Len(values)])
  BY <1>0, <1>4
<1> QED
  BY <1>1, <1>2, <1>5 DEF Unfolds, Runs

(* What the author makes of fields that follow.                            *)
LEMMA BuiltFollows ==
  ASSUME NEW mode, NEW e, NEW d, Looser(mode, e, d), NEW t,
         NEW r, NEW s, Follows(mode, d, r, s)
  PROVE  Follows(mode, d, Built(e, t, r), Built(d, t, s))
<1> DEFINE r2 == Built(e, t, r)
           s2 == Built(d, t, s)
           first == Build(e.author, t, r.out.kids)
           other == Build(d.author, t, s.out.kids)
<1> SUFFICES Follows(mode, d, r2, s2)
  OBVIOUS
<1>1. CASE r.verdict # "ok"
  <2>1. r2 = r
    BY <1>1 DEF Built
  <2>2. s.verdict = "thrown" => s2 = s
    BY DEF Built
  <2> HIDE DEF r2, s2
  <2> QED
    BY <1>1, <2>1, <2>2 DEF Follows
<1>2. CASE r.verdict = "ok" /\ Excused(mode, d, s)
  <2>1. s.verdict # "ok" /\ mode # "all"
    BY <1>2 DEF Excused
  <2>2. s2 = s
    BY <2>1 DEF Built
  <2> HIDE DEF r2, s2
  <2> QED
    BY <1>2, <2>1, <2>2 DEF Follows
<1>3. CASE r.verdict = "ok" /\ ~Excused(mode, d, s)
  <2>1. /\ s.verdict = "ok" /\ (mode = "all" => s.out = r.out) /\ s.retained = r.retained
        /\ Spends(mode, r.budget, s.budget)
    BY <1>3 DEF Follows
  <2>2. mode = "all" => d.author = e.author
    BY DEF Looser
  <2>3. mode = "all" => other = first
    BY <2>1, <2>2
  <2>4. r2 = IF ~Refusing(e) THEN r
             ELSE IF first = <<>> THEN Fail("thrown", r.budget)
             ELSE Ok(V("struct", "none", 0, first), r.retained, r.budget)
    BY <1>3, Zenon DEF Built, Refusing
  <2>5. s2 = IF ~Refusing(d) THEN s
             ELSE IF other = <<>> THEN Fail("thrown", s.budget)
             ELSE Ok(V("struct", "none", 0, other), s.retained, s.budget)
    BY <2>1, Zenon DEF Built, Refusing
  <2>6. mode = "all" => (Refusing(d) <=> Refusing(e))
    BY <2>2 DEF Refusing
  <2> HIDE DEF r2, s2, first, other
  <2>7. CASE mode = "all"
    <3>1. CASE ~Refusing(e)
      BY <2>1, <2>4, <2>5, <2>6, <2>7, <3>1, <1>3 DEF Follows
    <3>2. CASE Refusing(e) /\ first = <<>>
      BY <2>3, <2>4, <2>5, <2>6, <2>7, <3>2, ThrownFollows
    <3>3. CASE Refusing(e) /\ first # <<>>
      BY <2>1, <2>3, <2>4, <2>5, <2>6, <2>7, <3>3, OkFollows
    <3> QED
      BY <3>1, <3>2, <3>3
  <2>8. CASE mode # "all"
    <3>1. r2.verdict = "ok" => r2.retained = r.retained /\ r2.budget = r.budget
      BY <2>4, ResultFacts
    <3>2. \/ s2.verdict = "ok" /\ s2.retained = s.retained /\ s2.budget = s.budget
          \/ s2.verdict = "thrown" /\ Refusing(d)
      BY <2>1, <2>5, ResultFacts
    <3> QED
      BY <2>1, <2>8, <3>1, <3>2 DEF Follows, Excused
  <2> QED
    BY <2>7, <2>8
<1> QED
  BY <1>1, <1>2, <1>3

(* One level follows when the levels below it do.                          *)
LEMMA FromNodeFollows ==
  ASSUME NEW mode, NEW e, NEW d, Looser(mode, e, d),
         NEW g, NEW h, FollowsBelow(mode, d, g, h), Counts(g, Values), Counts(h, Values),
         NEW t \in Types, NEW v \in Values, NEW b0 \in Budgets, NEW c0 \in Budgets,
         Spends(mode, b0, c0)
  PROVE  Follows(mode, d, FromNode(e, g, t, v, b0), FromNode(d, h, t, v, c0))
<1> DEFINE b == Visit(b0)
           c == Visit(c0)
           r == FromNode(e, g, t, v, b0)
           s == FromNode(d, h, t, v, c0)
<1> SUFFICES Follows(mode, d, r, s)
  OBVIOUS
<1>1. b \in Budgets /\ c \in Budgets /\ b.visits \in Nat /\ c.visits \in Nat
  BY VisitFacts DEF Budgets
<1>2. Spends(mode, b, c)
  <2>1. /\ b.visits = b0.visits + 1 /\ c.visits = c0.visits + 1
        /\ b.temporary = b0.temporary /\ c.temporary = c0.temporary
    BY VisitFacts
  <2>2. b0.visits \in Nat /\ c0.visits \in Nat
    BY DEF Budgets
  <2>3. mode = "made" => c = b
    BY DEF Spends
  <2> HIDE DEF b, c
  <2> QED
    BY <2>1, <2>2, <2>3 DEF Spends
<1>3. v.size \in Nat /\ Len(v.kids) \in Nat /\ Len(t.kids) \in Nat
  BY PartsFit, ConversionAssumption DEF ValueShape, Holding
<1>4. CASE b.visits > MaxVisits
  <2>1. r = Fail("limit", b)
    BY <1>4 DEF FromNode
  <2> QED
    BY <2>1, FailFollows
<1>5. CASE ~(b.visits > MaxVisits) /\ c.visits > MaxVisits
  <2>1. s = Fail("limit", c)
    BY <1>5 DEF FromNode
  <2>2. mode = "type"
    <3> HIDE DEF b, c
    <3> QED
      BY <1>1, <1>2, <1>5, LimitsAreNumbers DEF Spends
  <2> HIDE DEF b, c, r, s
  <2> QED
    BY <2>1, <2>2, LimitFollows
<1>6. CASE ~(b.visits > MaxVisits) /\ ~(c.visits > MaxVisits)
  <2>1. CASE v.j = "undefined"
    <3>1. r = Fail("TypeError", b)
      BY <1>6, <2>1 DEF FromNode
    <3> QED
      BY <3>1, FailFollows
  <2>2. CASE v.j = "null" /\ t.k = "nullable"
    <3>1. r = Ok(V("null", "none", 0, <<>>), <<>>, b) /\ s = Ok(V("null", "none", 0, <<>>), <<>>, c)
      BY <1>6, <2>2 DEF FromNode
    <3> QED
      BY <1>2, <3>1, OkFollows
  <2>3. CASE v.j = "null" /\ t.k # "nullable"
    <3>1. r = Fail("TypeError", b)
      BY <1>6, <2>3 DEF FromNode
    <3> QED
      BY <3>1, FailFollows
  <2>4. CASE v.j \notin {"undefined", "null"}
    <3>1. CASE t.k = "nullable"
      <4>1. r = g[<<t.kids[1], v, b>>] /\ s = h[<<t.kids[1], v, c>>]
        BY <1>6, <2>4, <3>1 DEF FromNode
      <4>2. t.kids[1] \in Types
        BY <3>1, TypeFacts
      <4> HIDE DEF b, c, r, s
      <4> QED
        BY <1>1, <1>2, <4>1, <4>2 DEF FollowsBelow
    <3>2. CASE t.k = "array"
      <4>1. r = FromArray(e, g, t, v, b) /\ s = FromArray(d, h, t, v, c)
        BY <1>6, <2>4, <3>2 DEF FromNode
      <4> HIDE DEF b, c, r, s
      <4>2. CASE v.j # "array" \/ Len(v.kids) > MaxArray
        <5>1. r = Fail("TypeError", b) \/ r = Fail("limit", b)
          BY <4>1, <4>2 DEF FromArray
        <5> QED
          BY <5>1, FailFollows
      <4>3. CASE ~(v.j # "array" \/ Len(v.kids) > MaxArray)
        <5> DEFINE types == [i \in 1 .. Len(v.kids) |-> t.kids[1]]
                   out == V("list", "none", 0, <<>>)
                   amount == 3 + Len(v.kids)
                   p == Charged(e, "array", amount, b, Ok(out, <<>>, b))
                   q == Charged(d, "array", amount, c, Ok(out, <<>>, c))
        <5>1. r = Each(e, g, types, v.kids, p) /\ s = Each(d, h, types, v.kids, q)
          BY <4>1, <4>3 DEF FromArray
        <5>2. Fits(types, v.kids, Values)
          BY <3>2, PartsFit
        <5>3. amount \in Nat
          BY <1>3
        <5> HIDE DEF types, out, amount
        <5>4. p.budget \in Budgets /\ q.budget \in Budgets /\ Follows(mode, d, p, q)
          BY <1>1, <1>2, <5>3, ChargedFacts, ChargedFollows
        <5> HIDE DEF p, q
        <5> QED
          BY <5>1, <5>2, <5>4, EachFollows
      <4> QED
        BY <4>2, <4>3
    <3>3. CASE t.k = "value"
      <4>1. r = FromValue(e, g, t, v, b) /\ s = FromValue(d, h, t, v, c)
        BY <1>6, <2>4, <3>3 DEF FromNode
      <4> HIDE DEF b, c, r, s
      <4>2. CASE v.j # "object" /\ ~(e.native /\ v.j \in {"handle", "bytes"})
        <5>1. r = Fail("TypeError", b)
          BY <4>1, <4>2 DEF FromValue
        <5> QED
          BY <5>1, FailFollows
      <4>3. CASE ~(v.j # "object" /\ ~(e.native /\ v.j \in {"handle", "bytes"}))
        <5> DEFINE values == [i \in 1 .. Len(t.kids) |-> FieldOf(v, i)]
                   out == V("struct", "none", 0, <<>>)
                   amount == 4 + 2 * Len(t.kids)
                   p == Charged(e, "value", amount, b, Ok(out, <<>>, b))
                   q == Charged(d, "value", amount, c, Ok(out, <<>>, c))
                   fields == Each(e, g, t.kids, values, p)
                   others == Each(d, h, t.kids, values, q)
        <5>0. ~(v.j # "object" /\ ~(d.native /\ v.j \in {"handle", "bytes"}))
          BY <4>3 DEF Looser
        <5>1. r = Built(e, t, fields) /\ s = Built(d, t, others)
          BY <4>1, <4>3, <5>0 DEF FromValue
        <5>2. Fits(t.kids, values, Values)
          BY <3>3, PartsFit
        <5>3. amount \in Nat
          BY <1>3
        <5> HIDE DEF values, out, amount
        <5>4. p.budget \in Budgets /\ q.budget \in Budgets /\ Follows(mode, d, p, q)
          BY <1>1, <1>2, <5>3, ChargedFacts, ChargedFollows
        <5> HIDE DEF p, q
        <5>5. Follows(mode, d, fields, others)
          BY <5>2, <5>4, EachFollows
        <5> HIDE DEF fields, others
        <5> QED
          BY <5>1, <5>5, BuiltFollows
      <4> QED
        BY <4>2, <4>3
    <3>4. CASE t.k = "enum"
      <4>1. r = FromEnum(e, v, b) /\ s = FromEnum(d, v, c)
        BY <1>6, <2>4, <3>4 DEF FromNode
      <4> HIDE DEF b, c, r, s
      <4>2. CASE v.j # "string" \/ (v.n # "constant" /\ ~e.native) \/ v.size > MaxString
        <5>1. r = Fail("TypeError", b) \/ r = Fail("limit", b)
          BY <4>1, <4>2 DEF FromEnum
        <5> QED
          BY <5>1, FailFollows
      <4>3. CASE /\ ~(v.j # "string" \/ (v.n # "constant" /\ ~e.native) \/ v.size > MaxString)
                 /\ v.n = "constant"
        <5>1. /\ r = Charged(e, "enum", v.size, b, Ok(V("constant", v.n, v.size, <<>>), <<>>, b))
              /\ s = Charged(d, "enum", v.size, c, Ok(V("constant", v.n, v.size, <<>>), <<>>, c))
          BY <4>1, <4>3 DEF FromEnum
        <5> QED
          BY <1>1, <1>2, <1>3, <5>1, ChargedFollows
      <4>4. CASE /\ ~(v.j # "string" \/ (v.n # "constant" /\ ~e.native) \/ v.size > MaxString)
                 /\ v.n # "constant"
        <5> DEFINE x(f) == IF f.author = "none" THEN "TypeError" ELSE "thrown"
        <5>0. x(e) # "ok" /\ x(e) \in {"TypeError", "thrown"}
          OBVIOUS
        <5>1. r = Charged(e, "enum", v.size, b, Fail(x(e), b))
          BY <4>1, <4>4 DEF FromEnum
        <5>2. mode = "all" => s = Charged(d, "enum", v.size, c, Fail(x(d), c))
          BY <4>1, <4>4 DEF FromEnum, Looser
        <5>3. mode = "all" => x(d) = x(e)
          BY DEF Looser
        <5> HIDE DEF x
        <5> QED
          BY <1>1, <1>2, <1>3, <5>0, <5>1, <5>2, <5>3, RefusedFollows
      <4> QED
        BY <4>2, <4>3, <4>4
    <3>5. CASE t.k = "object"
      <4>1. r = FromHandle(e, v, b) /\ s = FromHandle(d, v, c)
        BY <1>6, <2>4, <3>5 DEF FromNode
      <4> HIDE DEF b, c, r, s
      <4>2. CASE v.j # "handle" \/ v.n # "mine"
        <5>1. r = Fail("TypeError", b)
          BY <4>1, <4>2 DEF FromHandle
        <5> QED
          BY <5>1, FailFollows
      <4>3. CASE ~(v.j # "handle" \/ v.n # "mine")
        <5>1. /\ r = Charged(e, "object", 1, b, Ok(V("ref", v.n, 0, <<>>), <<v>>, b))
              /\ s = Charged(d, "object", 1, c, Ok(V("ref", v.n, 0, <<>>), <<v>>, c))
          BY <4>1, <4>3 DEF FromHandle
        <5> QED
          BY <1>1, <1>2, <5>1, ChargedFollows
      <4> QED
        BY <4>2, <4>3
    <3>6. CASE t.k \in ScalarTypes
      <4>1. t.k \notin {"nullable", "array", "value", "enum", "object"}
        BY <3>6 DEF ScalarTypes
      <4>2. r = FromScalar(e, t.k, v, b) /\ s = FromScalar(d, t.k, v, c)
        BY <1>6, <2>4, <4>1 DEF FromNode
      <4> HIDE DEF b, c, r, s
      <4> DEFINE Refused == \/ ~Accepts(t.k, v) \/ ~InRange(t.k, v)
                            \/ t.k = "string" /\ v.size > MaxString
                            \/ t.k = "bytes" /\ v.size > MaxBytes
                            \/ t.k = "string" /\ v.n = "surrogate" /\ ~e.native
      <4>3. CASE Refused
        <5>1. r \in {Fail("TypeError", b), Fail("RangeError", b), Fail("limit", b), Fail("encoding", b)}
          BY <4>2, <4>3 DEF FromScalar
        <5> QED
          BY <5>1, FailFollows
      <4>4. CASE ~Refused
        <5> DEFINE out == V(t.k, Stored(e, t.k, v.n), v.size, <<>>)
                   result == V(t.k, Stored(d, t.k, v.n), v.size, <<>>)
        <5>1. /\ r = Charged(e, t.k, v.size, b, Ok(out, <<>>, b))
              /\ s = Charged(d, t.k, v.size, c, Ok(result, <<>>, c))
          BY <4>2, <4>4 DEF FromScalar, Looser
        <5>2. mode = "all" => result = out
          BY DEF Looser, Stored
        <5> HIDE DEF out, result
        <5> QED
          BY <1>1, <1>2, <1>3, <5>1, <5>2, ChargedFollows
      <4> QED
        BY <4>3, <4>4
    <3> QED
      BY <3>1, <3>2, <3>3, <3>4, <3>5, <3>6, TypeFacts
  <2> QED
    BY <2>1, <2>2, <2>3, <2>4
<1> QED
  BY <1>4, <1>5, <1>6

(* With as many levels as e has left, d follows e.                         *)
LEMMA FromFollows ==
  ASSUME NEW mode, NEW e, NEW d, Looser(mode, e, d)
  PROVE  \A n, m \in Levels :
             (mode # "type" => n <= m) => FollowsBelow(mode, d, From(e)[n], From(d)[m])
<1> DEFINE Holds(n) == \A m \in Levels :
               (mode # "type" => n <= m) => FollowsBelow(mode, d, From(e)[n], From(d)[m])
           Bad == {n \in Levels : ~Holds(n)}
<1>1. SUFFICES ASSUME Bad # {} PROVE FALSE
  OBVIOUS
<1>2. PICK n \in Bad : \A m \in Bad : n <= m
  <2>1. Bad \in SUBSET Nat
    BY LimitsAreNumbers DEF Levels
  <2> HIDE DEF Bad
  <2> QED
    BY <1>1, <2>1, Least
<1>3. PICK m \in Levels : /\ mode # "type" => n <= m
                          /\ ~FollowsBelow(mode, d, From(e)[n], From(d)[m])
  BY <1>2
<1>4. PICK t \in Types, v \in Values, b \in Budgets, c \in Budgets :
          Spends(mode, b, c) /\ ~Follows(mode, d, From(e)[n][<<t, v, b>>], From(d)[m][<<t, v, c>>])
  BY <1>3 DEF FollowsBelow
<1>5. n # 0
  <2>1. From(e)[0][<<t, v, b>>] = Fail("limit", Visit(b))
    BY FromApplied
  <2> QED
    BY <1>4, <2>1, FailFollows
<1>6. n \in 1 .. MaxDepth + 1 /\ n \in Nat /\ m \in Nat /\ n - 1 \in Levels
  BY <1>2, <1>3, <1>5, LimitsAreNumbers DEF Levels
<1>7. m # 0
  <2> SUFFICES ASSUME m = 0 PROVE FALSE
    OBVIOUS
  <2>1. From(d)[m][<<t, v, c>>] = Fail("limit", Visit(c))
    BY FromApplied
  <2>2. mode = "type"
    BY <1>3, <1>6
  <2> QED
    BY <1>4, <2>1, <2>2, LimitFollows
<1>8. m \in 1 .. MaxDepth + 1 /\ m - 1 \in Levels /\ (mode # "type" => n - 1 <= m - 1)
  BY <1>3, <1>6, <1>7, LimitsAreNumbers DEF Levels
<1>9. FollowsBelow(mode, d, From(e)[n - 1], From(d)[m - 1])
  <2>1. n - 1 \notin Bad
    <3> HIDE DEF Bad
    <3> QED
      BY <1>2, <1>6
  <2>2. Holds(n - 1)
    BY <1>6, <2>1
  <2> QED
    BY <1>8, <2>2
<1>10. /\ From(e)[n][<<t, v, b>>] = FromNode(e, From(e)[n - 1], t, v, b)
       /\ From(d)[m][<<t, v, c>>] = FromNode(d, From(d)[m - 1], t, v, c)
  BY <1>6, <1>8, FromApplied
<1>11. Counts(From(e)[n - 1], Values) /\ Counts(From(d)[m - 1], Values)
  BY <1>6, <1>8, FromCounts
<1> HIDE DEF Bad
<1>12. Follows(mode, d, FromNode(e, From(e)[n - 1], t, v, b), FromNode(d, From(d)[m - 1], t, v, c))
  BY <1>4, <1>9, <1>11, FromNodeFollows
<1> QED
  BY <1>4, <1>10, <1>12

(*--------------------------------- calls --------------------------------*)
(* The reference engine with what native code and the classes do.          *)
Generated == Converter(1, Sized, TRUE, TRUE, FromJs.author)
Keeping == JvmBuilding("keeps")
Converters == {ReferenceInput, Generated, CppFromJs, CppValidateJs, CppToJs,
               JvmFrom, Keeping, JvmValidate, JvmTo}

(* A converter starts at one of the levels.                                *)
LEMMA LeftIsLevel ==
  ASSUME NEW e \in Converters
  PROVE  Left(e) \in Levels /\ Left(e) = MaxDepth + 1 - e.depth /\ e.depth \in {0, 1}
<1>1. e.depth \in {0, 1}
  <2>1. Generated.depth = 1 /\ Keeping.depth = 0
    BY DEF Generated, Keeping, JvmBuilding, Converter
  <2> QED
    BY <2>1 DEF Converters, Converter, ReferenceInput, CppFromJs, CppValidateJs, CppToJs, JvmFrom,
                JvmBuilding, JvmValidate, JvmTo
<1>2. MaxDepth \in Nat
  BY LimitsAreNumbers
<1>3. Left(e) = MaxDepth + 1 - e.depth
  BY DEF Left
<1>4. CASE e.depth = 0
  BY <1>2, <1>3, <1>4 DEF Levels
<1>5. CASE e.depth = 1
  BY <1>2, <1>3, <1>5 DEF Levels
<1> QED
  BY <1>1, <1>3, <1>4, <1>5

(* The arguments have the declared types.                                  *)
LEMMA ArgumentsFit ==
  ASSUME sig \in Seq(Types), arguments \in Seq(Values), Len(arguments) = Len(sig)
  PROVE  Fits(sig, arguments, Values)
<1>1. \A i \in 1 .. Len(arguments) : sig[i] \in Types /\ arguments[i] \in Values
  OBVIOUS
<1> QED
  BY <1>1, ReadValue DEF Fits

(* A whole argument list follows.                                          *)
LEMMA PrepareFollows ==
  ASSUME NEW mode, NEW e \in Converters, NEW d \in Converters, Looser(mode, e, d),
         mode # "type" => d.depth <= e.depth,
         sig \in Seq(Types), arguments \in Seq(Values), Len(arguments) = Len(sig)
  PROVE  Follows(mode, d, Prepare(e), Prepare(d))
<1> DEFINE start == Ok(V("arguments", "none", 0, <<>>), <<>>, NoBudget)
<1>1. Fits(sig, arguments, Values)
  BY ArgumentsFit
<1>2. Left(e) \in Levels /\ Left(d) \in Levels /\ (mode # "type" => Left(e) <= Left(d))
  <2>1. Left(e) \in Levels /\ Left(d) \in Levels
    BY LeftIsLevel
  <2>2. /\ Left(e) = MaxDepth + 1 - e.depth /\ e.depth \in {0, 1}
        /\ Left(d) = MaxDepth + 1 - d.depth /\ d.depth \in {0, 1}
    BY LeftIsLevel
  <2>3. e.depth \in Nat /\ d.depth \in Nat /\ MaxDepth \in Nat
    BY <2>2, LimitsAreNumbers
  <2> QED
    BY <2>1, <2>2, <2>3
<1>3. FollowsBelow(mode, d, From(e)[Left(e)], From(d)[Left(d)])
  BY <1>2, FromFollows
<1>4. Counts(From(e)[Left(e)], Values) /\ Counts(From(d)[Left(d)], Values)
  BY <1>2, FromCounts
<1>5. NoBudget \in Budgets /\ Spends(mode, NoBudget, NoBudget)
  BY DEF NoBudget, Budgets, Spends
<1>6. start.budget \in Budgets /\ Follows(mode, d, start, start)
  <2>1. start.budget = NoBudget
    BY Zenon DEF Ok
  <2>2. Follows(mode, d, start, start)
    BY <1>5, OkFollows
  <2> HIDE DEF start
  <2> QED
    BY <1>5, <2>1, <2>2
<1> HIDE DEF start
<1>7. Follows(mode, d, Each(e, From(e)[Left(e)], sig, arguments, start),
                    Each(d, From(d)[Left(d)], sig, arguments, start))
  BY <1>1, <1>3, <1>4, <1>6, EachFollows
<1> QED
  BY <1>7 DEF Prepare, start

(* The converters of the code against the reference and each other.        *)
LEMMA LooserConverters ==
  /\ Looser("made", ReferenceInput, Generated) /\ Generated.depth <= ReferenceInput.depth
  /\ lowering = "cpp" => CppFromJs = Generated
  /\ lowering # "cpp" => Looser("all", Generated, JvmFrom) /\ JvmFrom.depth <= Generated.depth
  /\ Looser("all", CppFromJs, CppValidateJs) /\ CppValidateJs.depth <= CppFromJs.depth
  /\ Looser("type", JvmFrom, JvmValidate)
  /\ Looser("fit", CppValidateJs, CppFromJs) /\ CppFromJs.depth <= CppValidateJs.depth
  /\ Looser("fit", JvmValidate, JvmFrom) /\ JvmFrom.depth <= JvmValidate.depth
<1> DEFINE classes == FromJs.author
<1>1. Generated = [depth |-> 1, reserves |-> Sized, own |-> TRUE, native |-> TRUE, author |-> classes]
  BY DEF Generated, Converter
<1>2. lowering = "cpp" => classes = "none"
  BY DEF FromJs, CppFromJs, Converter
<1>3. lowering # "cpp" => classes = author
  BY DEF FromJs, JvmFrom, JvmBuilding, Converter
<1> HIDE DEF classes
<1>4. Looser("made", ReferenceInput, Generated) /\ Generated.depth <= ReferenceInput.depth
  BY <1>1 DEF Looser, Modes, Converter, ReferenceInput
<1>5. lowering = "cpp" => CppFromJs = Generated
  BY <1>1, <1>2 DEF Converter, CppFromJs
<1>6. lowering # "cpp" => Looser("all", Generated, JvmFrom) /\ JvmFrom.depth <= Generated.depth
  BY <1>1, <1>3 DEF Looser, Modes, Converter, JvmFrom, JvmBuilding, Sized
<1>7. /\ Looser("all", CppFromJs, CppValidateJs) /\ CppValidateJs.depth <= CppFromJs.depth
      /\ Looser("fit", CppValidateJs, CppFromJs) /\ CppFromJs.depth <= CppValidateJs.depth
  BY DEF Looser, Modes, Converter, CppFromJs, CppValidateJs, Sized
<1>8. /\ Looser("type", JvmFrom, JvmValidate)
      /\ Looser("fit", JvmValidate, JvmFrom) /\ JvmFrom.depth <= JvmValidate.depth
  BY DEF Looser, Modes, Converter, JvmFrom, JvmBuilding, JvmValidate
<1> QED
  BY <1>4, <1>5, <1>6, <1>7, <1>8

(* There is no author in the C++ lowering and in a preflight.              *)
LEMMA NoAuthors == ~Refusing(CppFromJs) /\ ~Refusing(CppValidateJs) /\ ~Refusing(JvmValidate)
BY DEF Refusing, Converter, CppFromJs, CppValidateJs, JvmValidate

(* What the converter of the call has.                                     *)
LEMMA CallConverted ==
  ASSUME CallInv, Converted
  PROVE  Len(arguments) = Len(sig) /\ call.prepared = Prepare(FromJs)
<1>1. ASSUME call.prepared = Fail("none", NoBudget) PROVE call.prepared.verdict = "none"
  BY <1>1, ResultFacts
<1> QED
  BY <1>1 DEF CallInv, Converted, At

(* What the reference accepts, the lowering accepts, unless the author     *)
(* refuses it; the C++ one accepts nothing else.                           *)
LEMMA CallFollows ==
  ASSUME CallInv
  PROVE  LoweringsFollowReference
<1> DEFINE p == call.prepared
<1> SUFFICES ASSUME Converted
             PROVE  /\ IsOk(Expected) =>
                          \/ /\ IsOk(p)
                             /\ lowering = "cpp" => /\ p.budget = Expected.budget
                                                    /\ p.retained = Expected.retained
                          \/ lowering = "jvm" /\ p.verdict = "thrown"
                    /\ Made.verdict \in {"ok", "thrown"} =>
                          p.verdict = Made.verdict /\ p.out = Made.out
                    /\ (lowering = "cpp" /\ (IsOk(Made) \/ IsOk(p))) => p = Made
  BY Zenon DEF LoweringsFollowReference
<1>1. Len(arguments) = Len(sig) /\ p = Prepare(FromJs)
  BY CallConverted
<1>2. sig \in Seq(Types) /\ arguments \in Seq(Values) /\ lowering \in {"cpp", "jvm"}
  BY DEF CallInv
<1>3. Made = Prepare(Generated)
  BY Zenon DEF Made, Generated
<1>4. Follows("made", Generated, Expected, Made)
  BY <1>1, <1>2, <1>3, LooserConverters, PrepareFollows DEF Converters, Expected
<1>5. CASE lowering = "cpp"
  <2>1. p = Made
    BY <1>1, <1>3, <1>5, LooserConverters DEF FromJs
  <2>2. ~Refusing(Generated)
    BY <1>5, LooserConverters, NoAuthors
  <2>3. IsOk(Expected) => /\ IsOk(Made) /\ Made.budget = Expected.budget
                          /\ Made.retained = Expected.retained
    BY <1>4, <2>2 DEF Follows, Excused, IsOk, Spends
  <2> HIDE DEF p
  <2> QED
    BY <1>5, <2>1, <2>3
<1>6. CASE lowering # "cpp"
  <2>1. FromJs = JvmFrom
    BY <1>6 DEF FromJs
  <2>2. Follows("all", JvmFrom, Made, p)
    BY <1>1, <1>2, <1>3, <1>6, <2>1, LooserConverters, PrepareFollows DEF Converters
  <2> HIDE DEF p
  <2>3. Made.verdict \in {"ok", "thrown"} => p.verdict = Made.verdict /\ p.out = Made.out
    BY <2>2 DEF Follows, Excused
  <2>4. IsOk(Expected) => Made.verdict \in {"ok", "thrown"}
    BY <1>4 DEF Follows, Excused, IsOk
  <2> QED
    BY <1>2, <1>6, <2>3, <2>4 DEF IsOk
<1> QED
  BY <1>5, <1>6

(* What the preflight accepted, the conversion accepts unless storage      *)
(* runs out or the author refuses it.                                      *)
LEMMA CallAgrees ==
  ASSUME CallInv, PreflightInv
  PROVE  PreflightAgrees
<1> DEFINE p == call.prepared
           Short == p.budget.temporary > MaxTemporary
           Refused == lowering = "jvm" /\ author # "keeps" /\ p.verdict = "thrown"
<1> SUFFICES ASSUME preflight # "none", Converted
             PROVE  /\ preflight = "TypeError" => ~IsOk(p)
                    /\ (preflight # "ok" /\ lowering = "cpp") => ~IsOk(p)
                    /\ preflight = "ok" => IsOk(p) \/ Short \/ Refused
  BY Zenon DEF PreflightAgrees
<1>1. Len(arguments) = Len(sig) /\ p = Prepare(FromJs)
  BY CallConverted
<1>2. /\ preflight = "TypeError" => Prepare(ValidateJs).verdict = "TypeError"
      /\ preflight = "ok" <=> Prepare(ValidateJs).verdict = "ok"
  BY <1>1 DEF PreflightInv, CheckArguments
<1>3. sig \in Seq(Types) /\ arguments \in Seq(Values) /\ lowering \in {"cpp", "jvm"}
  BY DEF CallInv
<1> HIDE DEF p
<1>4. CASE lowering = "cpp"
  <2>1. FromJs = CppFromJs /\ ValidateJs = CppValidateJs
    BY <1>4 DEF FromJs, ValidateJs
  <2>2. /\ Follows("all", CppValidateJs, Prepare(CppFromJs), Prepare(CppValidateJs))
        /\ Follows("fit", CppFromJs, Prepare(CppValidateJs), Prepare(CppFromJs))
    BY <1>1, <1>3, LooserConverters, PrepareFollows DEF Converters
  <2>3. IsOk(p) => Prepare(ValidateJs).verdict = "ok"
    BY <1>1, <2>1, <2>2 DEF Follows, Excused, IsOk
  <2>4. Prepare(ValidateJs).verdict = "ok" => IsOk(p) \/ Short
    BY <1>1, <2>1, <2>2, NoAuthors DEF Follows, Excused, IsOk
  <2> QED
    BY <1>2, <2>3, <2>4
<1>5. CASE lowering # "cpp"
  <2>1. FromJs = JvmFrom /\ ValidateJs = JvmValidate
    BY <1>5 DEF FromJs, ValidateJs
  <2>2. /\ Follows("type", JvmValidate, Prepare(JvmFrom), Prepare(JvmValidate))
        /\ Follows("fit", JvmFrom, Prepare(JvmValidate), Prepare(JvmFrom))
    BY <1>1, <1>3, LooserConverters, PrepareFollows DEF Converters
  <2>3. IsOk(p) => Prepare(ValidateJs).verdict \in {"ok", "limit"}
    BY <1>1, <2>1, <2>2, NoAuthors DEF Follows, Excused, IsOk
  <2>4. Refusing(JvmFrom) => author # "keeps"
    BY DEF Refusing, JvmFrom, JvmBuilding, Converter
  <2>5. Prepare(ValidateJs).verdict = "ok" => IsOk(p) \/ Short \/ Refused
    BY <1>1, <1>3, <1>5, <2>1, <2>2, <2>4 DEF Follows, Excused, IsOk
  <2> QED
    BY <1>2, <1>5, <2>3, <2>5
<1> QED
  BY <1>4, <1>5

(*------------------------- back to JavaScript ---------------------------*)
(* A native value of fewer levels is one of more levels.                   *)
LEMMA NestedGrows == \A n, m \in Levels : n <= m => Nested[n] \subseteq Nested[m]
<1> DEFINE Holds(n) == \A m \in Levels : n <= m => Nested[n] \subseteq Nested[m]
           Bad == {n \in Levels : ~Holds(n)}
<1>1. SUFFICES ASSUME Bad # {} PROVE FALSE
  OBVIOUS
<1>2. PICK n \in Bad : \A m \in Bad : n <= m
  <2>1. Bad \in SUBSET Nat
    BY LimitsAreNumbers DEF Levels
  <2> HIDE DEF Bad
  <2> QED
    BY <1>1, <2>1, Least
<1>3. PICK m \in Levels : n <= m /\ ~(Nested[n] \subseteq Nested[m])
  BY <1>2
<1>4. n \in Levels /\ n \in Nat /\ m \in Nat
  BY <1>2, LimitsAreNumbers DEF Levels
<1>5. n # 0
  BY <1>3, NestedUnfolds
<1>6. n \in 1 .. MaxDepth + 1 /\ m \in 1 .. MaxDepth + 1 /\ n - 1 \in Levels /\ m - 1 \in Levels /\ n - 1 <= m - 1
  BY <1>3, <1>4, <1>5, LimitsAreNumbers DEF Levels
<1>7. Nested[n - 1] \subseteq Nested[m - 1]
  <2>1. n - 1 \notin Bad
    <3> HIDE DEF Bad
    <3> QED
      BY <1>2, <1>4
  <2>2. Holds(n - 1)
    BY <1>6, <2>1
  <2> QED
    BY <1>6, <2>2
<1>8. Nested[n] = Holding(Nested[n - 1]) /\ Nested[m] = Holding(Nested[m - 1])
  BY <1>6, NestedUnfolds
<1> HIDE DEF Bad, Holds
<1>9. \A S, T : S \subseteq T => Holding(S) \subseteq Holding(T)
  <2> SUFFICES ASSUME NEW S, NEW T, S \subseteq T, NEW x \in Holding(S) PROVE x \in Holding(T)
    OBVIOUS
  <2>1. x.kids \in Seq(S)
    BY DEF Holding
  <2>2. x.kids \in Seq(T)
    BY <2>1
  <2> QED
    BY <2>2 DEF Holding
<1> QED
  BY <1>3, <1>7, <1>8, <1>9

(* A value of n levels holds values of n - 1 levels.                       *)
LEMMA NestedFacts ==
  ASSUME NEW n \in 1 .. MaxDepth + 1
  PROVE  /\ n \in Levels /\ n - 1 \in Levels
         /\ Nested[n] = Holding(Nested[n - 1])
         /\ Nested[n - 1] \subseteq Nested[n] /\ Nested[n] \subseteq Natives
<1>1. n \in Levels /\ n - 1 \in Levels /\ MaxDepth + 1 \in Levels /\ n - 1 <= n /\ n <= MaxDepth + 1
  BY LimitsAreNumbers DEF Levels
<1>2. Nested[n - 1] \subseteq Nested[n] /\ Nested[n] \subseteq Nested[MaxDepth + 1]
  BY <1>1, NestedGrows
<1> QED
  BY <1>1, <1>2, NestedUnfolds DEF Natives

(* One level of a conversion to JavaScript applied to what is in its       *)
(* domain.                                                                 *)
LEMMA ToApplied ==
  ASSUME NEW e, NEW n \in 1 .. MaxDepth + 1, NEW t \in Types, NEW x \in Natives, NEW b \in Budgets
  PROVE  To(e)[n][<<t, x, b>>] = ToNode(e, To(e)[n - 1], t, x, b)
<1>1. <<t, x, b>> \in Types \X Natives \X Budgets
  OBVIOUS
<1>2. \A below : ToLevel(e, below)[<<t, x, b>>] = ToNode(e, below, t, x, b)
  BY <1>1 DEF ToLevel
<1> QED
  BY <1>2, ToUnfolds

(* One level of the value an echo returns.                                 *)
LEMMA PlainApplied ==
  ASSUME NEW n \in 1 .. MaxDepth + 1, NEW t \in Types, NEW v \in Values
  PROVE  Plain[n][<<t, v>>] = PlainNode(Plain[n - 1], t, v)
<1>1. <<t, v>> \in Types \X Values
  OBVIOUS
<1>2. \A below : PlainLevel(below)[<<t, v>>] = PlainNode(below, t, v)
  BY <1>1 DEF PlainLevel
<1> QED
  BY <1>2, PlainUnfolds

(* d converts back what e converted, generated code whose constructors     *)
(* keep what they are given.  It reserves what e reserves, or only the     *)
(* pointers of objects: one at a visit.                                    *)
Returner(e, d) ==
    /\ e.native /\ ~Refusing(e)
    /\ \/ d.reserves = e.reserves /\ "string" \in d.reserves
       \/ d.reserves = {"object"}
Room(d, b, c) ==
    /\ c.visits <= b.visits
    /\ c.temporary <= IF "string" \in d.reserves THEN b.temporary ELSE c.visits

(* What an accepted value is in native code, n levels at most.             *)
Native(n, v, out) ==
    /\ v.j # "undefined"
    /\ out \in Nested[n] /\ out.j \notin {"hole", "missing", "inherited", "thrown", "broken"}
    /\ out.j = "null" <=> v.j = "null"
Back(d, r, s, plain) ==
    s.verdict = "ok" /\ s.out = plain /\ s.budget \in Budgets /\ Room(d, r.budget, s.budget)
EchoBelow(d, n, g, h, p) ==
    \A t \in Types, v \in Values, b \in Budgets :
        g[<<t, v, b>>].verdict = "ok" =>
            /\ Native(n, v, g[<<t, v, b>>].out)
            /\ \A c \in Budgets :
                  Room(d, b, c) =>
                      Back(d, g[<<t, v, b>>], h[<<t, g[<<t, v, b>>].out, c>>], p[<<t, v>>])

(* A visit on either side keeps the room between the budgets.              *)
LEMMA RoomVisited ==
  ASSUME NEW d, NEW b \in Budgets, NEW c \in Budgets, Room(d, b, c)
  PROVE  Room(d, Visit(b), Visit(c)) /\ Visit(b) \in Budgets /\ Visit(c) \in Budgets
<1>1. /\ b.visits \in Nat /\ c.visits \in Nat /\ b.temporary \in Nat /\ c.temporary \in Nat
  BY DEF Budgets
<1>2. /\ Visit(b).visits = b.visits + 1 /\ Visit(c).visits = c.visits + 1
      /\ Visit(b).temporary = b.temporary /\ Visit(c).temporary = c.temporary
      /\ Visit(b) \in Budgets /\ Visit(c) \in Budgets
  BY VisitFacts
<1>3. CASE "string" \in d.reserves
  BY <1>1, <1>2, <1>3 DEF Room
<1>4. CASE "string" \notin d.reserves
  BY <1>1, <1>2, <1>4 DEF Room
<1> QED
  BY <1>3, <1>4

(* What a node of either conversion does when it is visited in time.       *)
InTime(e, d, b, c) == Returner(e, d) /\ Room(d, b, c) /\ Visit(b).visits <= MaxVisits
Amount(kind, amount) == amount \in Nat /\ (kind = "object" => amount = 1)
Charges(e, kind, amount, b, out, retained, r) ==
    r = Charged(e, kind, amount, Visit(b), Ok(out, retained, Visit(b)))
HasCharged(e, kind, amount, b, out, r) ==
    /\ r.budget \in Budgets /\ r.budget.visits = b.visits + 1
    /\ r.budget.temporary = IF kind \in e.reserves THEN b.temporary + amount ELSE b.temporary
    /\ r.verdict = "ok" => r.out = out /\ r.budget.temporary <= MaxTemporary
    /\ r.verdict # "ok" => r.budget.temporary > MaxTemporary

(* What a charge did, when it was within the limit and when not.           *)
LEMMA ChargesFacts ==
  ASSUME NEW e, NEW b0 \in Budgets, NEW kind, NEW amount \in Nat, NEW out, NEW retained, NEW r,
         Charges(e, kind, amount, b0, out, retained, r)
  PROVE  HasCharged(e, kind, amount, b0, out, r)
<1>1. Visit(b0) \in Budgets
  BY VisitFacts
<1>2. Visit(b0).visits = b0.visits + 1 /\ Visit(b0).temporary = b0.temporary
  BY VisitFacts
<1>3. /\ r.budget = Charge(e, kind, amount, Visit(b0)) /\ r.budget \in Budgets
      /\ r.verdict = "ok" => r.budget.temporary <= MaxTemporary /\ \E a : r = Ok(out, retained, a)
      /\ r.verdict # "ok" => r.budget.temporary > MaxTemporary
  BY <1>1, ChargedFacts DEF Charges
<1>4. r.verdict = "ok" => r.out = out
  BY <1>3, ResultFacts
<1>5. r.budget.visits = b0.visits + 1
  <2>1. Charge(e, kind, amount, Visit(b0)).visits = Visit(b0).visits
    <3> DEFINE b == Visit(b0)
    <3>1. b \in Budgets
      BY <1>1
    <3> HIDE DEF b
    <3>2. Charge(e, kind, amount, b).visits = b.visits
      BY <3>1 DEF Charge, Budgets
    <3> QED
      BY <3>2 DEF b
  <2> QED
    BY <1>2, <1>3, <2>1
<1>6. r.budget.temporary = IF kind \in e.reserves THEN b0.temporary + amount ELSE b0.temporary
  <2>1. Charge(e, kind, amount, Visit(b0)).temporary =
            IF kind \in e.reserves THEN Visit(b0).temporary + amount ELSE Visit(b0).temporary
    <3> DEFINE b == Visit(b0)
    <3>1. b \in Budgets
      BY <1>1
    <3> HIDE DEF b
    <3>2. Charge(e, kind, amount, b).temporary =
              IF kind \in e.reserves THEN b.temporary + amount ELSE b.temporary
      BY <3>1 DEF Charge, Budgets
    <3> QED
      BY <3>2 DEF b
  <2>2. Charge(e, kind, amount, Visit(b0)).temporary =
            IF kind \in e.reserves THEN b0.temporary + amount ELSE b0.temporary
    BY <1>2, <2>1
  <2> QED
    BY <1>3, <2>2
<1> QED
  BY <1>3, <1>4, <1>5, <1>6 DEF HasCharged

(* There is room for what the node that was just visited reserves.         *)
LEMMA ChargedBack ==
  ASSUME NEW e, NEW d, NEW b0 \in Budgets, NEW c0 \in Budgets, InTime(e, d, b0, c0),
         NEW kind, NEW amount \in Nat, Amount(kind, amount),
         NEW out, NEW retained, NEW x, NEW r, NEW s,
         Charges(e, kind, amount, b0, out, retained, r), r.verdict = "ok",
         Charges(d, kind, amount, c0, x, <<>>, s)
  PROVE  /\ r.out = out /\ r.budget \in Budgets
         /\ s.verdict = "ok" /\ s.out = x /\ s.budget \in Budgets
         /\ Room(d, r.budget, s.budget)
<1>1. /\ Visit(b0).visits = b0.visits + 1
      /\ b0.visits \in Nat /\ c0.visits \in Nat /\ b0.temporary \in Nat /\ c0.temporary \in Nat
  BY VisitFacts DEF Budgets
<1>2. b0.visits + 1 <= MaxVisits /\ Returner(e, d) /\ Room(d, b0, c0)
  BY <1>1 DEF InTime
<1>3. /\ r.out = out /\ r.budget \in Budgets /\ r.budget.visits = b0.visits + 1
      /\ r.budget.temporary = IF kind \in e.reserves THEN b0.temporary + amount ELSE b0.temporary
      /\ r.budget.temporary <= MaxTemporary
  <2>1. HasCharged(e, kind, amount, b0, out, r)
    BY ChargesFacts
  <2> QED
    BY <2>1 DEF HasCharged
<1>4. /\ s.budget \in Budgets /\ s.budget.visits = c0.visits + 1
      /\ s.budget.temporary = IF kind \in d.reserves THEN c0.temporary + amount ELSE c0.temporary
      /\ s.verdict = "ok" => s.out = x
      /\ s.verdict # "ok" => s.budget.temporary > MaxTemporary
  <2>1. HasCharged(d, kind, amount, c0, x, s)
    BY ChargesFacts
  <2> QED
    BY <2>1 DEF HasCharged
<1>5. r.budget.temporary \in Nat /\ s.budget.temporary \in Nat
  BY <1>3, <1>4 DEF Budgets
<1>6. Room(d, r.budget, s.budget) /\ s.budget.temporary <= MaxTemporary
  <2>1. CASE "string" \in d.reserves
    <3>1. d.reserves = e.reserves
      BY <1>2, <2>1 DEF Returner
    <3>2. c0.visits <= b0.visits /\ c0.temporary <= b0.temporary
      BY <1>2, <2>1 DEF Room
    <3>3. s.budget.temporary <= r.budget.temporary /\ s.budget.visits <= r.budget.visits
      BY <1>1, <1>3, <1>4, <3>1, <3>2
    <3> QED
      BY <1>3, <1>5, <2>1, <3>3, LimitsAreNumbers DEF Room
  <2>2. CASE "string" \notin d.reserves
    <3>1. d.reserves = {"object"}
      BY <1>2, <2>2 DEF Returner
    <3>2. c0.visits <= b0.visits /\ c0.temporary <= c0.visits
      BY <1>2, <2>2 DEF Room
    <3>3. s.budget.temporary <= c0.temporary + 1
      BY <1>1, <1>4, <3>1 DEF Amount
    <3>4. /\ s.budget.temporary <= s.budget.visits /\ s.budget.visits <= r.budget.visits
          /\ s.budget.temporary <= MaxTemporary
      <4>1. /\ s.budget.visits = c0.visits + 1 /\ r.budget.visits = b0.visits + 1
            /\ b0.visits + 1 <= MaxVisits
        BY <1>2, <1>3, <1>4
      <4>2. s.budget.temporary <= c0.visits + 1
        BY <1>1, <1>5, <3>2, <3>3
      <4>3. s.budget.visits <= r.budget.visits
        BY <1>1, <3>2, <4>1
      <4>4. c0.visits + 1 <= MaxTemporary
        BY <1>1, <3>2, <4>1, LimitsAreNumbers
      <4>5. s.budget.temporary <= MaxTemporary
        BY <1>1, <1>5, <4>2, <4>4, LimitsAreNumbers
      <4> QED
        BY <4>1, <4>2, <4>3, <4>5
    <3> QED
      BY <2>2, <3>4 DEF Room
  <2> QED
    BY <2>1, <2>2
<1>7. s.verdict = "ok"
  BY <1>4, <1>5, <1>6, LimitsAreNumbers
<1> QED
  BY <1>3, <1>4, <1>6, <1>7

(* A scalar, a constant or a handle. *)
SameLeaf(d, n, v, r, s, k, m) ==
    /\ Native(n, v, r.out) /\ Back(d, r, s, V(v.j, m, v.size, <<>>))
    /\ r.out = V(k, m, v.size, <<>>)

(* A leaf that was charged on the way in comes back as it was stored.      *)
LEMMA LeafEcho ==
  ASSUME NEW e, NEW d, NEW n \in 1 .. MaxDepth + 1,
         NEW b0 \in Budgets, NEW c0 \in Budgets, InTime(e, d, b0, c0),
         NEW v \in Values, v.j \notin {"undefined", "null"},
         NEW kind, NEW amount \in Nat, Amount(kind, amount),
         NEW k \in Kinds, k \notin {"hole", "missing", "inherited", "thrown", "broken", "null"},
         NEW m \in Classes, NEW retained, NEW r, NEW s,
         Charges(e, kind, amount, b0, V(k, m, v.size, <<>>), retained, r), r.verdict = "ok",
         Charges(d, kind, amount, c0, V(v.j, m, v.size, <<>>), <<>>, s)
  PROVE  SameLeaf(d, n, v, r, s, k, m)
<1> DEFINE out == V(k, m, v.size, <<>>)
           x == V(v.j, m, v.size, <<>>)
<1>1. v \in Holding(Values)
  BY ConversionAssumption DEF ValueShape
<1>3. out.j = k
  BY DEF V
<1>4. out \in Holding(Nested[n - 1])
  <2>1. v.size \in Nat /\ <<>> \in Seq(Nested[n - 1])
    BY <1>1 DEF Holding
  <2> QED
    BY <2>1 DEF V, Holding
<1>5. s.budget \in Budgets /\ Room(d, r.budget, s.budget)
  BY ChargedBack
<1>6. r.out = out /\ s.out = x /\ s.verdict = "ok"
  BY ChargedBack
<1> HIDE DEF out, x
<1>7. Native(n, v, r.out)
  BY <1>3, <1>4, <1>6, NestedFacts DEF Native
<1>8. Back(d, r, s, x)
  BY <1>5, <1>6 DEF Back
<1> QED
  BY <1>6, <1>7, <1>8 DEF out, x, SameLeaf

(* A sequence that was converted, element by element. *)
ItemOf(f, g, types, values, m) == g[<<types[m], Read(values[m]), f[m - 1].budget>>]
Outs(f, g, types, values) == [m \in 1 .. Len(values) |-> ItemOf(f, g, types, values, m).out]
First(a, i) == [m \in 1 .. i |-> a[m]]
Shell(j, kids) == V(j, "none", 0, kids)
Joined(q, j, kids, p) == q.verdict = "ok" /\ q.out = Shell(j, Append(kids, p.out)) /\ q.budget = p.budget

(* The first i items are the first i - 1 and one more.                     *)
LEMMA AppendFirst ==
  ASSUME NEW a, NEW i \in Nat, i # 0
  PROVE  Append(First(a, i - 1), a[i]) = First(a, i)
<1> DEFINE s == First(a, i - 1)
           T == {a[m] : m \in 1 .. i}
<1>1. i - 1 \in Nat /\ s = [m \in 1 .. i - 1 |-> a[m]]
  BY DEF First
<1>2. s \in [1 .. i - 1 -> T]
  BY <1>1
<1>3. s \in Seq(T) /\ Len(s) = i - 1
  BY <1>1, <1>2
<1>4. a[i] \in T
  OBVIOUS
<1>5. \A m \in 1 .. i - 1 : s[m] = a[m]
  BY <1>1
<1> HIDE DEF s, T
<1>6. /\ Append(s, a[i]) \in Seq(T) /\ Len(Append(s, a[i])) = i
      /\ \A m \in 1 .. i : Append(s, a[i])[m] = IF m = i THEN a[i] ELSE s[m]
  BY <1>3, <1>4
<1>7. \A m \in 1 .. i : Append(s, a[i])[m] = a[m]
  BY <1>5, <1>6
<1>8. Append(s, a[i]) = [m \in 1 .. i |-> a[m]]
  BY <1>6, <1>7
<1> QED
  BY <1>8 DEF s, First

(* No item.                                                                *)
LEMMA FirstNone ==
  ASSUME NEW a
  PROVE  First(a, 0) = <<>>
BY DEF First

(* Join appends to the parts of the output.                                *)
LEMMA OneMoreKid ==
  ASSUME NEW j, NEW kids, NEW x
  PROVE  [Shell(j, kids) EXCEPT !.kids = Append(@, x)] = Shell(j, Append(kids, x))
BY SMTT(60) DEF Shell, V

(* An item that is accepted is joined to what was converted before.        *)
LEMMA ItemOk ==
  ASSUME NEW e, NEW g, NEW type, NEW one, NEW r, NEW p, NEW j, NEW kids,
         r.verdict = "ok", ~Absent(e, one), r.out = Shell(j, kids),
         p = g[<<type, Read(one), r.budget>>], p.verdict = "ok"
  PROVE  Joined(Item(e, g, type, one, r), j, kids, p)
<1> DEFINE q == Item(e, g, type, one, r)
           out == Shell(j, Append(kids, p.out))
<1>1. q = Join(r, p)
  BY DEF Item
<1>2. [r.out EXCEPT !.kids = Append(@, p.out)] = out
  BY OneMoreKid
<1> HIDE DEF q, out
<1>3. q = Ok(out, r.retained \o p.retained, p.budget)
  BY <1>1, <1>2 DEF Join
<1>4. q.verdict = "ok" /\ q.out = out /\ q.budget = p.budget
  BY <1>3, ResultFacts
<1> USE DEF out
<1>5. Joined(q, j, kids, p)
  BY <1>4 DEF Joined
<1> HIDE DEF out
<1> QED
  BY <1>5 DEF q

WasOk(e, g, type, one, r) ==
    /\ r.verdict = "ok" /\ ~Absent(e, one)
    /\ g[<<type, Read(one), r.budget>>].verdict = "ok"

(* When an item leaves the result ok, it was read and accepted.            *)
LEMMA ItemWasOk ==
  ASSUME NEW e, NEW g, NEW type, NEW one, NEW r, Item(e, g, type, one, r).verdict = "ok"
  PROVE  WasOk(e, g, type, one, r)
<1> DEFINE q == Item(e, g, type, one, r)
           p == g[<<type, Read(one), r.budget>>]
<1>1. r.verdict = "ok"
  BY DEF Item
<1>2. ~Absent(e, one)
  <2>1. Absent(e, one) => q = Fail("TypeError", r.budget)
    BY <1>1 DEF Item
  <2>2. q.verdict = "ok"
    OBVIOUS
  <2> HIDE DEF q
  <2> QED
    BY <2>1, <2>2, ResultFacts
<1>3. q = Join(r, p) /\ q.verdict = "ok"
  BY <1>1, <1>2 DEF Item
<1> HIDE DEF q, p
<1>4. p.verdict = "ok"
  BY <1>3 DEF Join
<1> QED
  BY <1>1, <1>2, <1>4 DEF p, WasOk

(* When the result is ok, every item was.                                  *)
LEMMA EachOk ==
  ASSUME NEW f, NEW e, NEW g, NEW types, NEW values, NEW start,
         Unfolds(f, e, g, types, values, start), Len(values) \in Nat,
         Each(e, g, types, values, start).verdict = "ok"
  PROVE  /\ \A i \in 0 .. Len(values) : f[i].verdict = "ok"
         /\ \A i \in 1 .. Len(values) :
               ~Absent(e, values[i]) /\ ItemOf(f, g, types, values, i).verdict = "ok"
<1> DEFINE N == Len(values)
           Bad == {i \in 0 .. N : f[N - i].verdict # "ok"}
<1>1. \A i \in 1 .. N : f[i] = Item(e, g, types[i], values[i], f[i - 1])
  BY DEF Unfolds, Runs
<1>2. f[N].verdict = "ok" /\ N \in Nat
  BY DEF Unfolds, Runs
<1> HIDE DEF N
<1>6. ASSUME NEW i \in 1 .. N, f[i].verdict = "ok"
      PROVE  f[i - 1].verdict = "ok"
  <2>1. Item(e, g, types[i], values[i], f[i - 1]).verdict = "ok"
    BY <1>1, <1>6
  <2>2. WasOk(e, g, types[i], values[i], f[i - 1])
    BY <2>1, ItemWasOk
  <2> QED
    BY <2>2 DEF WasOk
<1>3. Bad = {}
  <2>1. SUFFICES ASSUME Bad # {} PROVE FALSE
    OBVIOUS
  <2>2. PICK n \in Bad : \A m \in Bad : n <= m
    <3>1. Bad \in SUBSET Nat
      BY <1>2
    <3> HIDE DEF Bad
    <3> QED
      BY <2>1, <3>1, Least
  <2>3. n \in 1 .. N
    BY <1>2, <2>2
  <2>4. n - 1 \in 0 .. N /\ n - 1 \notin Bad
    <3> HIDE DEF Bad
    <3> QED
      BY <1>2, <2>2, <2>3
  <2> DEFINE k == N - (n - 1)
  <2>5. f[k].verdict = "ok"
    BY <2>4
  <2>6. k \in 1 .. N /\ k - 1 = N - n
    BY <1>2, <2>3
  <2> HIDE DEF k, Bad
  <2>8. f[k - 1].verdict = "ok"
    BY <1>6, <2>5, <2>6
  <2>9. f[N - n].verdict # "ok"
    BY <2>2 DEF Bad
  <2> QED
    BY <2>6, <2>8, <2>9
<1>4. \A i \in 0 .. N : f[i].verdict = "ok"
  <2> SUFFICES ASSUME NEW i \in 0 .. N PROVE f[i].verdict = "ok"
    OBVIOUS
  <2>1. N - i \in 0 .. N /\ N - (N - i) = i
    BY <1>2
  <2>2. f[N - (N - i)].verdict = "ok"
    BY <1>3, <2>1
  <2> QED
    BY <2>1, <2>2
<1> HIDE DEF Bad
<1>5. ASSUME NEW i \in 1 .. N
      PROVE  ~Absent(e, values[i]) /\ ItemOf(f, g, types, values, i).verdict = "ok"
  <2>0. i \in 0 .. N
    BY <1>2
  <2>1. Item(e, g, types[i], values[i], f[i - 1]).verdict = "ok"
    BY <1>1, <1>4, <2>0, Zenon
  <2>2. WasOk(e, g, types[i], values[i], f[i - 1])
    BY <2>1, ItemWasOk
  <2> QED
    BY <2>2 DEF ItemOf, WasOk
<1> QED
  BY <1>4, <1>5 DEF N

Shaped(f, e, g, types, values, start, j) ==
    /\ Each(e, g, types, values, start).out = Shell(j, Outs(f, g, types, values))
    /\ \A i \in 1 .. Len(values) : f[i].budget = ItemOf(f, g, types, values, i).budget

(* The output holds what the items were converted to.                      *)
LEMMA EachShape ==
  ASSUME NEW f, NEW e, NEW g, NEW types, NEW values, NEW start, NEW j,
         Unfolds(f, e, g, types, values, start), Len(values) \in Nat,
         Each(e, g, types, values, start).verdict = "ok", start.out = Shell(j, <<>>)
  PROVE  Shaped(f, e, g, types, values, start, j)
<1> DEFINE N == Len(values)
           a == Outs(f, g, types, values)
           Bad == {i \in 0 .. N : f[i].out # Shell(j, First(a, i))}
<1>0. N \in Nat
  OBVIOUS
<1>1. f[0] = start /\ Each(e, g, types, values, start) = f[N]
  BY DEF Unfolds, Runs
<1>2. \A i \in 1 .. N : f[i] = Item(e, g, types[i], values[i], f[i - 1])
  BY DEF Unfolds, Runs
<1>3. /\ \A i \in 0 .. N : f[i].verdict = "ok"
      /\ \A i \in 1 .. N : ~Absent(e, values[i]) /\ ItemOf(f, g, types, values, i).verdict = "ok"
  BY EachOk
<1>4. \A i \in 1 .. N : a[i] = ItemOf(f, g, types, values, i).out
  BY DEF Outs
<1>5. First(a, N) = a
  BY DEF First, Outs
<1> HIDE DEF N, a
<1>6. ASSUME NEW i \in 1 .. N, NEW kids, f[i - 1].out = Shell(j, kids)
      PROVE  Joined(f[i], j, kids, ItemOf(f, g, types, values, i))
  <2>0. i - 1 \in 0 .. N
    BY <1>0
  <2>1. i - 1 \in 0 .. N /\ f[i] = Item(e, g, types[i], values[i], f[i - 1])
    BY <1>2, <2>0, Zenon
  <2>2. f[i - 1].verdict = "ok" /\ ~Absent(e, values[i]) /\ ItemOf(f, g, types, values, i).verdict = "ok"
    BY <1>3, <2>1
  <2>3. ItemOf(f, g, types, values, i) = g[<<types[i], Read(values[i]), f[i - 1].budget>>]
    BY DEF ItemOf
  <2>4. Joined(Item(e, g, types[i], values[i], f[i - 1]), j, kids, ItemOf(f, g, types, values, i))
    BY <1>6, <2>2, <2>3, ItemOk
  <2> QED
    BY <2>1, <2>4
<1>7. Bad = {}
  <2>1. SUFFICES ASSUME Bad # {} PROVE FALSE
    OBVIOUS
  <2>2. PICK n \in Bad : \A m \in Bad : n <= m
    <3>1. Bad \in SUBSET Nat
      BY <1>0
    <3> HIDE DEF Bad
    <3> QED
      BY <2>1, <3>1, Least
  <2>3. n \in 0 .. N /\ n # 0 /\ f[n].out # Shell(j, First(a, n))
    BY <1>1, <2>2, FirstNone
  <2>4. n \in 1 .. N /\ n - 1 \in 0 .. N /\ ~(n <= n - 1)
    BY <1>0, <2>3
  <2>5. f[n - 1].out = Shell(j, First(a, n - 1))
    <3>1. n - 1 \notin Bad
      <4> HIDE DEF Bad
      <4> QED
        BY <2>2, <2>4
    <3> QED
      BY <2>4, <3>1
  <2> HIDE DEF Bad
  <2>6. f[n].out = Shell(j, Append(First(a, n - 1), a[n]))
    BY <1>4, <1>6, <2>4, <2>5 DEF Joined
  <2>7. Append(First(a, n - 1), a[n]) = First(a, n)
    BY <2>3, AppendFirst, <1>0
  <2> QED
    BY <2>3, <2>6, <2>7
<1>8. f[N].out = Shell(j, a)
  <2>1. N \in 0 .. N
    BY <1>0
  <2>2. f[N].out = Shell(j, First(a, N))
    BY <1>7, <2>1
  <2> QED
    BY <1>5, <2>2
<1>9. ASSUME NEW i \in 1 .. N
      PROVE  f[i].budget = ItemOf(f, g, types, values, i).budget
  <2>1. i - 1 \in 0 .. N
    BY <1>0
  <2>2. f[i - 1].out = Shell(j, First(a, i - 1))
    BY <1>7, <2>1
  <2> QED
    BY <1>6, <2>2 DEF Joined
<1> QED
  BY <1>1, <1>8, <1>9 DEF N, a, Shaped

(* The parts of a composite.                                               *)
LEMMA ShellFacts ==
  ASSUME NEW j, NEW kids
  PROVE  Shell(j, kids).j = j /\ Shell(j, kids).kids = kids
BY DEF Shell, V

PlainKids(p, types, values) == [i \in 1 .. Len(values) |-> p[<<types[i], Read(values[i])>>]]
Returned(d, n, types, values, p, r, s, j, back) ==
    /\ r.out = Shell(j, r.out.kids) /\ r.out.kids \in Seq(Nested[n]) /\ Len(r.out.kids) = Len(values)
    /\ \A i \in 1 .. Len(values) : Read(values[i]).j # "undefined"
    /\ Back(d, r, s, Shell(back, PlainKids(p, types, values)))

(* An element that was converted converts back. *)
LEMMA ItemEcho ==
  ASSUME NEW d, NEW n, NEW g, NEW h, NEW p, EchoBelow(d, n, g, h, p),
         NEW type \in Types, NEW one, Read(one) \in Values, NEW b \in Budgets,
         NEW r, r = g[<<type, Read(one), b>>], r.verdict = "ok"
  PROVE  /\ Native(n, Read(one), r.out)
         /\ \A c \in Budgets : Room(d, b, c) => Back(d, r, h[<<type, r.out, c>>], p[<<type, Read(one)>>])
BY DEF EchoBelow

(* All items come back, in their order.                                    *)
LEMMA EachEcho ==
  ASSUME NEW e, NEW d, NEW n, NEW g, NEW h, NEW p, EchoBelow(d, n, g, h, p), Counts(g, Values),
         NEW types, NEW values, Fits(types, values, Values),
         NEW r0, r0.budget \in Budgets, NEW j, r0.out = Shell(j, <<>>),
         NEW s0, s0.budget \in Budgets, NEW back, s0.out = Shell(back, <<>>), s0.verdict = "ok",
         Room(d, r0.budget, s0.budget),
         NEW r, r = Each(e, g, types, values, r0), r.verdict = "ok",
         NEW s, s = Each(d, h, types, r.out.kids, s0)
  PROVE  Returned(d, n, types, values, p, r, s, j, back)
<1> DEFINE N == Len(values)
<1>0. N \in Nat
  BY DEF Fits
<1>1. PICK f : Unfolds(f, e, g, types, values, r0)
  BY EachFacts
<1> DEFINE item(i) == ItemOf(f, g, types, values, i)
           a == Outs(f, g, types, values)
           plains == PlainKids(p, types, values)
<1>2. \A i \in 1 .. N : item(i).verdict = "ok"
  BY <1>0, <1>1, EachOk
<1>3. r.out = Shell(j, a) /\ \A i \in 1 .. N : f[i].budget = item(i).budget
  <2>1. Shaped(f, e, g, types, values, r0, j)
    BY <1>0, <1>1, EachShape
  <2> QED
    BY <2>1 DEF Shaped
<1>4. r.out.kids = a
  BY <1>3, ShellFacts
<1>5. f[0] = r0 /\ r = f[N]
  BY <1>1 DEF Unfolds, Runs
<1>6. \A i \in 0 .. N : f[i].budget \in Budgets
  BY <1>1 DEF Unfolds, Runs
<1>7. a = [i \in 1 .. N |-> item(i).out]
  BY DEF Outs
<1>8. plains = [i \in 1 .. N |-> p[<<types[i], Read(values[i])>>]]
  BY DEF PlainKids
<1>9. \A i \in 1 .. N : item(i) = g[<<types[i], Read(values[i]), f[i - 1].budget>>]
  BY DEF ItemOf
<1>10. \A i \in 1 .. N : types[i] \in Types /\ Read(values[i]) \in Values
  BY DEF Fits
<1> HIDE DEF N, item, a, plains
<1>11. ASSUME NEW i \in 1 .. N
       PROVE  /\ Native(n, Read(values[i]), a[i])
              /\ \A c \in Budgets : Room(d, f[i - 1].budget, c) =>
                     Back(d, item(i), h[<<types[i], a[i], c>>], plains[i])
  <2>1. i - 1 \in 0 .. N
    BY <1>0
  <2> DEFINE before == f[i - 1].budget
             it == item(i)
             v == Read(values[i])
  <2>2. before \in Budgets
    BY <1>6, <2>1
  <2>3. a[i] = it.out /\ plains[i] = p[<<types[i], v>>]
    BY <1>7, <1>8
  <2>4. it = g[<<types[i], v, before>>] /\ it.verdict = "ok"
    BY <1>2, <1>9
  <2>5. types[i] \in Types /\ v \in Values
    BY <1>10
  <2>6. \A c \in Budgets :
            Room(d, before, c) => Back(d, it, h[<<types[i], it.out, c>>], p[<<types[i], v>>])
    BY <2>2, <2>4, <2>5, ItemEcho
  <2>7. Native(n, v, it.out)
    BY <2>2, <2>4, <2>5, ItemEcho
  <2> QED
    BY <2>3, <2>6, <2>7
<1>12. Len(a) = N /\ a \in Seq(Nested[n]) /\ a = [i \in 1 .. N |-> a[i]]
  <2>1. \A i \in 1 .. N : a[i] \in Nested[n]
    BY <1>11 DEF Native
  <2>2. a \in [1 .. N -> Nested[n]]
    BY <1>7, <2>1
  <2> QED
    BY <1>0, <2>2
<1>13. PICK k : /\ s = k[N] /\ k[0] = s0
                /\ \A i \in 1 .. N : k[i] = Item(d, h, types[i], a[i], k[i - 1])
  <2>1. s = Each(d, h, types, a, s0)
    BY <1>4
  <2>2. PICK k : Runs(k, d, h, types, a, s0)
    BY <1>0, <1>12, EachUnfolds
  <2> QED
    BY <1>12, <2>1, <2>2, Zenon DEF Runs
<1> DEFINE Holds(i) == /\ k[i].verdict = "ok" /\ k[i].out = Shell(back, First(plains, i))
                       /\ k[i].budget \in Budgets /\ Room(d, f[i].budget, k[i].budget)
<1>14. Holds(0)
  BY <1>5, <1>13, FirstNone
<1>15. ASSUME NEW i \in 1 .. N, Holds(i - 1)
       PROVE  Holds(i)
  <2> DEFINE q == h[<<types[i], a[i], k[i - 1].budget>>]
  <2>1. Native(n, Read(values[i]), a[i]) /\ Back(d, item(i), q, plains[i])
    BY <1>11, <1>15
  <2>2. ~Absent(d, a[i]) /\ Read(a[i]) = a[i]
    BY <2>1 DEF Native, Absent, Read
  <2>3. q = h[<<types[i], Read(a[i]), k[i - 1].budget>>] /\ q.verdict = "ok"
    BY <2>1, <2>2 DEF Back
  <2>4. k[i - 1].verdict = "ok" /\ k[i - 1].out = Shell(back, First(plains, i - 1))
    BY <1>15
  <2>5. k[i] = Item(d, h, types[i], a[i], k[i - 1])
    BY <1>13
  <2>6. q.out = plains[i] /\ q.budget \in Budgets /\ Room(d, item(i).budget, q.budget)
    BY <2>1 DEF Back
  <2> HIDE DEF q, Holds
  <2>7. Joined(Item(d, h, types[i], a[i], k[i - 1]), back, First(plains, i - 1), q)
    BY <2>2, <2>3, <2>4, ItemOk
  <2>8. k[i].verdict = "ok" /\ k[i].out = Shell(back, Append(First(plains, i - 1), plains[i]))
        /\ k[i].budget = q.budget
    BY <2>5, <2>6, <2>7 DEF Joined
  <2>9. Append(First(plains, i - 1), plains[i]) = First(plains, i)
    <3>1. i \in Nat /\ i # 0
      BY <1>0
    <3> QED
      BY <3>1, AppendFirst
  <2>10. f[i].budget = item(i).budget
    BY <1>3
  <2> QED
    BY <2>6, <2>8, <2>9, <2>10 DEF Holds
<1>16. Holds(N)
  <2> DEFINE Bad == {i \in 0 .. N : ~Holds(i)}
  <2> HIDE DEF Holds
  <2>1. SUFFICES Bad = {}
    BY <1>0
  <2>2. SUFFICES ASSUME Bad # {} PROVE FALSE
    OBVIOUS
  <2>3. Bad \in SUBSET Nat
    BY <1>0
  <2>4. PICK m \in Bad : \A l \in Bad : m <= l
    <3> HIDE DEF Bad
    <3> QED
      BY <2>2, <2>3, Least
  <2>5. m \in 0 .. N /\ ~Holds(m)
    OBVIOUS
  <2>6. m # 0
    BY <1>14, <2>5
  <2>7. m \in 1 .. N /\ m - 1 \in 0 .. N /\ ~(m <= m - 1)
    BY <1>0, <2>5, <2>6
  <2>8. m - 1 \notin Bad
    <3> HIDE DEF Bad
    <3> QED
      BY <2>4, <2>7
  <2>9. Holds(m - 1)
    BY <2>7, <2>8
  <2> QED
    BY <1>15, <2>5, <2>7, <2>9
<1>17. First(plains, N) = plains
  BY <1>8 DEF First
<1>18. Back(d, r, s, Shell(back, plains))
  BY <1>5, <1>13, <1>16, <1>17 DEF Back
<1>19. \A i \in 1 .. N : Read(values[i]).j # "undefined"
  BY <1>11 DEF Native
<1> QED
  BY <1>3, <1>4, <1>12, <1>18, <1>19 DEF Returned, N, plains

(* Values of one kind, and what is left of them. *)
LEMMA ShellValue ==
  ASSUME NEW v \in Values
  PROVE  /\ v.j \in {"array", "object", "null"} => v = Shell(v.j, v.kids)
         /\ v.j \notin {"array", "object", "handle", "bytes", "inherited"} => v.kids = <<>>
         /\ v.j \notin {"string", "bytes"} => v.size = 0
         /\ v.kids \in Seq(Values)
<1>1. ValueShape(v) /\ v \in Holding(Values)
  BY ConversionAssumption DEF ValueShape
<1>2. /\ v.n # "none" => v.j \in {"number", "bigint", "string", "handle"}
      /\ v.size # 0 => v.j \in {"string", "bytes"}
      /\ v.kids # <<>> => v.j \in {"array", "object", "handle", "bytes", "inherited"}
  BY <1>1 DEF ValueShape
<1>3. v.kids \in Seq(Values) /\ v = V(v.j, v.n, v.size, v.kids)
  BY <1>1 DEF Holding, V
<1>4. v.j \in {"array", "object", "null"} => v.n = "none" /\ v.size = 0
  BY <1>2
<1> QED
  BY <1>2, <1>3, <1>4 DEF Shell

(* The parts of a composite replaced.                                      *)
LEMMA ShellKids ==
  ASSUME NEW j, NEW kids, NEW new
  PROVE  [Shell(j, kids) EXCEPT !.kids = new] = Shell(j, new)
BY DEF Shell, V

(* A composite of values that are in S.                                    *)
LEMMA ShellNested ==
  ASSUME NEW j \in Kinds, NEW S, NEW kids \in Seq(S)
  PROVE  Shell(j, kids) \in Holding(S)
BY DEF Shell, V, Holding, Classes, Strings

(* An array echoed is the array of what its elements echo.                 *)
LEMMA ArrayPlain ==
  ASSUME NEW p, NEW t, NEW v \in Values, t.k = "array", v.j = "array"
  PROVE  PlainNode(p, t, v) =
             Shell("array", PlainKids(p, [i \in 1 .. Len(v.kids) |-> t.kids[1]], v.kids))
<1> DEFINE types == [i \in 1 .. Len(v.kids) |-> t.kids[1]]
           kids == v.kids
           new == [i \in DOMAIN kids |-> p[<<t.kids[1], Read(kids[i])>>]]
<1>1. v = Shell("array", kids) /\ kids \in Seq(Values)
  BY ShellValue
<1>2. PlainNode(p, t, v) = [v EXCEPT !.kids = new]
  BY DEF PlainNode
<1>3. new = PlainKids(p, types, kids)
  <2>1. DOMAIN kids = 1 .. Len(kids)
    BY <1>1
  <2>2. \A i \in 1 .. Len(kids) : types[i] = t.kids[1]
    OBVIOUS
  <2> HIDE DEF types, kids
  <2> QED
    BY <2>1, <2>2 DEF PlainKids
<1> HIDE DEF types, new, kids
<1>4. [v EXCEPT !.kids = new] = Shell("array", new)
  BY <1>1, ShellKids
<1> QED
  BY <1>2, <1>3, <1>4 DEF types, kids

(* An object echoed is the object of what its declared fields echo.        *)
LEMMA ObjectPlain ==
  ASSUME NEW p, NEW t \in Types, NEW v \in Values, t.k = "value", v.j # "null"
  PROVE  PlainNode(p, t, v) =
             Shell("object", PlainKids(p, t.kids, [i \in 1 .. Len(t.kids) |-> FieldOf(v, i)]))
<1> DEFINE values == [i \in 1 .. Len(t.kids) |-> FieldOf(v, i)]
           new == [i \in DOMAIN t.kids |-> p[<<t.kids[i], Read(FieldOf(v, i))>>]]
<1>2. PlainNode(p, t, v) = Shell("object", new)
  BY Zenon DEF PlainNode, Shell
<1>3. new = PlainKids(p, t.kids, values)
  <2>1. DOMAIN t.kids = 1 .. Len(t.kids) /\ Len(t.kids) \in Nat
    BY TypeFacts
  <2>2. Len(values) = Len(t.kids) /\ \A i \in 1 .. Len(t.kids) : values[i] = FieldOf(v, i)
    BY <2>1
  <2> HIDE DEF values
  <2> QED
    BY <2>1, <2>2 DEF PlainKids
<1> HIDE DEF values, new
<1> QED
  BY <1>2, <1>3 DEF values

(* Items are converted only after their composite was charged.             *)
LEMMA EachStarted ==
  ASSUME NEW e, NEW g, NEW types, NEW values, Counts(g, Values), Fits(types, values, Values),
         NEW r0, r0.budget \in Budgets, Each(e, g, types, values, r0).verdict = "ok"
  PROVE  r0.verdict = "ok"
<1>1. PICK f : Unfolds(f, e, g, types, values, r0)
  BY EachFacts
<1>2. Len(values) \in Nat
  BY DEF Fits
<1>3. f[0].verdict = "ok"
  BY <1>1, <1>2, EachOk
<1> QED
  BY <1>1, <1>3 DEF Unfolds, Runs

(* A composite: its parts go back as they came.                            *)
LEMMA CompositeEcho ==
  ASSUME NEW e, NEW d, NEW n \in 1 .. MaxDepth + 1, NEW g, NEW h, NEW p,
         EchoBelow(d, n - 1, g, h, p), Counts(g, Values),
         NEW types, NEW values, Fits(types, values, Values),
         NEW b0 \in Budgets, NEW c0 \in Budgets, InTime(e, d, b0, c0),
         NEW kind, NEW amount \in Nat, Amount(kind, amount), NEW j, NEW back,
         NEW r0, Charges(e, kind, amount, b0, Shell(j, <<>>), <<>>, r0),
         NEW s0, Charges(d, kind, amount, c0, Shell(back, <<>>), <<>>, s0),
         NEW r, r = Each(e, g, types, values, r0), r.verdict = "ok",
         NEW s, s = Each(d, h, types, r.out.kids, s0)
  PROVE  Returned(d, n - 1, types, values, p, r, s, j, back)
<1>1. r0.budget \in Budgets
  <2>1. HasCharged(e, kind, amount, b0, Shell(j, <<>>), r0)
    BY ChargesFacts
  <2> QED
    BY <2>1 DEF HasCharged
<1>2. r0.verdict = "ok"
  BY <1>1, EachStarted
<1>3. /\ r0.out = Shell(j, <<>>) /\ s0.verdict = "ok" /\ s0.out = Shell(back, <<>>)
      /\ s0.budget \in Budgets /\ Room(d, r0.budget, s0.budget)
  BY <1>2, ChargedBack
<1> QED
  BY <1>1, <1>3, EachEcho

(* One node of both conversions. *)
Echoed(d, n, h, p, t, v, r, c) ==
    Native(n, v, r.out) /\ Back(d, r, ToNode(d, h, t, r.out, c), PlainNode(p, t, v))

(* null comes back.                                                        *)
LEMMA NullEcho ==
  ASSUME NEW e, NEW d, NEW n \in 1 .. MaxDepth + 1, NEW g, NEW h, NEW p,
         NEW t \in Types, NEW v \in Values, t.k = "nullable", v.j = "null",
         NEW b0 \in Budgets, NEW c0 \in Budgets, Room(d, b0, c0), InTime(e, d, b0, c0),
         Visit(c0).visits <= MaxVisits,
         NEW r, r = FromNode(e, g, t, v, b0), r.verdict = "ok"
  PROVE  Echoed(d, n, h, p, t, v, r, c0)
<1> DEFINE b == Visit(b0)
           c == Visit(c0)
           null == Shell("null", <<>>)
           s == ToNode(d, h, t, r.out, c0)
<1>1. b \in Budgets /\ c \in Budgets /\ b.visits \in Nat /\ c.visits \in Nat /\ Room(d, b, c)
  BY RoomVisited DEF Budgets
<1>2. ~(b.visits > MaxVisits) /\ ~(c.visits > MaxVisits)
  BY <1>1, LimitsAreNumbers DEF InTime
<1>3. r = Ok(null, <<>>, b)
  BY <1>2, Zenon DEF FromNode, Shell
<1>4. null \in Holding(Nested[n - 1]) /\ null.j = "null"
  <2>1. <<>> \in Seq(Nested[n - 1]) /\ "null" \in Kinds
    BY DEF Kinds
  <2>2. null \in Holding(Nested[n - 1])
    BY <2>1, ShellNested
  <2> QED
    BY <2>2, ShellFacts
<1>5. v = null
  BY ShellValue
<1>6. r.out.j = "null" => s = Ok(null, <<>>, c)
  <2>1. r.out.j = "null" => r.out.j \notin {"thrown", "broken"}
    OBVIOUS
  <2> QED
    BY <1>2, <2>1, Zenon DEF ToNode, Shell
<1>7. PlainNode(p, t, v) = v
  BY DEF PlainNode
<1> HIDE DEF b, c, s, null
<1>8. r.out = null /\ r.budget = b
  BY <1>3, ResultFacts
<1>9. s.verdict = "ok" /\ s.out = null /\ s.budget = c
  BY <1>4, <1>6, <1>8, ResultFacts
<1>10. Native(n, v, r.out)
  BY <1>4, <1>5, <1>8, NestedFacts DEF Native
<1>11. Back(d, r, s, PlainNode(p, t, v))
  BY <1>1, <1>5, <1>7, <1>8, <1>9 DEF Back
<1> QED
  BY <1>10, <1>11 DEF Echoed, s

(* A value of a nullable type comes back.                                  *)
LEMMA NullableEcho ==
  ASSUME NEW e, NEW d, NEW n \in 1 .. MaxDepth + 1, NEW g, NEW h, NEW p,
         EchoBelow(d, n - 1, g, h, p),
         NEW t \in Types, NEW v \in Values, t.k = "nullable", v.j \notin {"null", "undefined"},
         NEW b0 \in Budgets, NEW c0 \in Budgets, Room(d, b0, c0), InTime(e, d, b0, c0),
         Visit(c0).visits <= MaxVisits,
         NEW r, r = FromNode(e, g, t, v, b0), r.verdict = "ok"
  PROVE  Echoed(d, n, h, p, t, v, r, c0)
<1> DEFINE b == Visit(b0)
           c == Visit(c0)
           u == t.kids[1]
           s == ToNode(d, h, t, r.out, c0)
<1>1. b \in Budgets /\ c \in Budgets /\ b.visits \in Nat /\ c.visits \in Nat /\ Room(d, b, c)
  BY RoomVisited DEF Budgets
<1>2. ~(b.visits > MaxVisits) /\ ~(c.visits > MaxVisits)
  BY <1>1, LimitsAreNumbers DEF InTime
<1>3. r = g[<<u, v, b>>]
  BY <1>2 DEF FromNode
<1>4. r.out.j \notin {"null", "thrown", "broken"} => s = h[<<u, r.out, c>>]
  BY <1>2 DEF ToNode
<1>5. PlainNode(p, t, v) = p[<<u, v>>]
  BY DEF PlainNode
<1>6. u \in Types
  BY TypeFacts
<1> HIDE DEF b, c, s, u
<1>7. Native(n - 1, v, r.out) /\ Back(d, r, h[<<u, r.out, c>>], p[<<u, v>>])
  BY <1>1, <1>3, <1>6 DEF EchoBelow
<1>8. Native(n, v, r.out)
  BY <1>7, NestedFacts DEF Native
<1>9. r.out.j \notin {"null", "thrown", "broken"}
  BY <1>7 DEF Native
<1> QED
  BY <1>4, <1>5, <1>7, <1>8, <1>9 DEF Echoed, s

(* An array comes back.                                                    *)
LEMMA ArrayEcho ==
  ASSUME NEW e, NEW d, NEW n \in 1 .. MaxDepth + 1, NEW g, NEW h, NEW p,
         EchoBelow(d, n - 1, g, h, p), Counts(g, Values),
         NEW t \in Types, NEW v \in Values, t.k = "array", v.j \notin {"null", "undefined"},
         NEW b0 \in Budgets, NEW c0 \in Budgets, Room(d, b0, c0), InTime(e, d, b0, c0),
         Visit(c0).visits <= MaxVisits,
         NEW r, r = FromNode(e, g, t, v, b0), r.verdict = "ok"
  PROVE  Echoed(d, n, h, p, t, v, r, c0)
<1> DEFINE b == Visit(b0)
           c == Visit(c0)
           types == [i \in 1 .. Len(v.kids) |-> t.kids[1]]
           amount == 3 + Len(v.kids)
           r0 == Charged(e, "array", amount, b, Ok(Shell("list", <<>>), <<>>, b))
           s0 == Charged(d, "array", amount, c, Ok(Shell("array", <<>>), <<>>, c))
           s1 == Each(d, h, types, r.out.kids, s0)
           s == ToNode(d, h, t, r.out, c0)
<1>1. b.visits \in Nat /\ c.visits \in Nat
  BY RoomVisited DEF Budgets
<1>2. ~(b.visits > MaxVisits) /\ ~(c.visits > MaxVisits)
  BY <1>1, LimitsAreNumbers DEF InTime
<1>3. r = FromArray(e, g, t, v, b)
  BY <1>2 DEF FromNode
<1>4. v.j = "array" /\ ~(Len(v.kids) > MaxArray)
  <2>1. \A verdict : Fail(verdict, b).verdict = verdict
    BY ResultFacts
  <2> HIDE DEF b
  <2>2. r.verdict = "ok"
    OBVIOUS
  <2>3. CASE v.j # "array"
    <3>1. r = Fail("TypeError", b)
      BY <1>3, <2>3 DEF FromArray
    <3> QED
      BY <2>1, <2>2, <3>1
  <2>4. CASE Len(v.kids) > MaxArray /\ v.j = "array"
    <3>1. r = Fail("limit", b)
      BY <1>3, <2>4 DEF FromArray
    <3> QED
      BY <2>1, <2>2, <3>1
  <2> QED
    BY <2>3, <2>4
<1>5. r = Each(e, g, types, v.kids, r0)
  BY <1>3, <1>4, Zenon DEF FromArray, Shell
<1>6. Fits(types, v.kids, Values) /\ Len(v.kids) \in Nat
  BY PartsFit
<1>7. amount \in Nat /\ Amount("array", amount)
  BY <1>6 DEF Amount
<1>8. /\ Charges(e, "array", amount, b0, Shell("list", <<>>), <<>>, r0)
      /\ Charges(d, "array", amount, c0, Shell("array", <<>>), <<>>, s0)
  BY DEF Charges
<1>9. PlainNode(p, t, v) = Shell("array", PlainKids(p, types, v.kids))
  BY <1>4, ArrayPlain
<1>10. Len(r.out.kids) = Len(v.kids) /\ r.out.j = "list" => s = s1
  <2> SUFFICES ASSUME Len(r.out.kids) = Len(v.kids), r.out.j = "list" PROVE s = s1
    OBVIOUS
  <2>1. s = ToArray(d, h, t, r.out, c)
    BY <1>2 DEF ToNode
  <2>2. ~(Len(r.out.kids) > MaxArray)
    BY <1>4
  <2> QED
    BY <2>1, <2>2, Zenon DEF ToArray, Shell
<1> HIDE DEF b, c, types, amount, r0, s0, s, s1
<1>11. Returned(d, n - 1, types, v.kids, p, r, s1, "list", "array")
  BY <1>5, <1>6, <1>7, <1>8, CompositeEcho DEF s1
<1>12. /\ r.out = Shell("list", r.out.kids) /\ r.out.kids \in Seq(Nested[n - 1])
       /\ Len(r.out.kids) = Len(v.kids)
       /\ Back(d, r, s1, Shell("array", PlainKids(p, types, v.kids)))
  BY <1>11 DEF Returned
<1>13. Shell("list", r.out.kids) \in Holding(Nested[n - 1]) /\ Shell("list", r.out.kids).j = "list"
  <2>1. r.out.kids \in Seq(Nested[n - 1]) /\ "list" \in Kinds
    BY <1>12 DEF Kinds
  <2>2. Shell("list", r.out.kids) \in Holding(Nested[n - 1])
    BY <2>1, ShellNested
  <2> QED
    BY <2>2, ShellFacts
<1>14. r.out \in Nested[n] /\ r.out.j = "list"
  BY <1>12, <1>13, NestedFacts
<1>15. Native(n, v, r.out)
  BY <1>14 DEF Native
<1> QED
  BY <1>9, <1>10, <1>12, <1>14, <1>15 DEF Echoed, s

(* An object comes back, without the fields that are not declared.         *)
LEMMA ValueEcho ==
  ASSUME NEW e, NEW d, NEW n \in 1 .. MaxDepth + 1, NEW g, NEW h, NEW p,
         EchoBelow(d, n - 1, g, h, p), Counts(g, Values),
         NEW t \in Types, NEW v \in Values, t.k = "value", v.j \notin {"null", "undefined"},
         NEW b0 \in Budgets, NEW c0 \in Budgets, Room(d, b0, c0), InTime(e, d, b0, c0),
         Visit(c0).visits <= MaxVisits,
         NEW r, r = FromNode(e, g, t, v, b0), r.verdict = "ok"
  PROVE  Echoed(d, n, h, p, t, v, r, c0)
<1> DEFINE b == Visit(b0)
           c == Visit(c0)
           values == [i \in 1 .. Len(t.kids) |-> FieldOf(v, i)]
           amount == 4 + 2 * Len(t.kids)
           r0 == Charged(e, "value", amount, b, Ok(Shell("struct", <<>>), <<>>, b))
           s0 == Charged(d, "value", amount, c, Ok(Shell("object", <<>>), <<>>, c))
           s1 == Each(d, h, t.kids, r.out.kids, s0)
           s == ToNode(d, h, t, r.out, c0)
           fields == Each(e, g, t.kids, values, r0)
<1>1. b.visits \in Nat /\ c.visits \in Nat
  BY RoomVisited DEF Budgets
<1>2. ~(b.visits > MaxVisits) /\ ~(c.visits > MaxVisits)
  BY <1>1, LimitsAreNumbers DEF InTime
<1>3. r = FromValue(e, g, t, v, b)
  BY <1>2 DEF FromNode
<1>4. v.j = "object" \/ (e.native /\ v.j \in {"handle", "bytes"})
  <2>1. \A verdict : Fail(verdict, b).verdict = verdict
    BY ResultFacts
  <2> HIDE DEF b
  <2>2. r.verdict = "ok"
    OBVIOUS
  <2> SUFFICES ASSUME ~(v.j = "object" \/ (e.native /\ v.j \in {"handle", "bytes"})) PROVE FALSE
    OBVIOUS
  <2>3. r = Fail("TypeError", b)
    BY <1>3 DEF FromValue
  <2> QED
    BY <2>1, <2>2, <2>3
<1>5. r = fields
  <2>1. r = Built(e, t, fields)
    BY <1>3, <1>4, Zenon DEF FromValue, Shell
  <2>2. e.author \in {"none", "keeps"}
    BY DEF InTime, Returner, Refusing
  <2> HIDE DEF fields
  <2> QED
    BY <2>1, <2>2 DEF Built
<1>6. Fits(t.kids, values, Values) /\ Len(t.kids) \in Nat
  BY PartsFit
<1>7. amount \in Nat /\ Amount("value", amount)
  BY <1>6 DEF Amount
<1>8. /\ Charges(e, "value", amount, b0, Shell("struct", <<>>), <<>>, r0)
      /\ Charges(d, "value", amount, c0, Shell("object", <<>>), <<>>, s0)
  BY DEF Charges
<1>9. PlainNode(p, t, v) = Shell("object", PlainKids(p, t.kids, values))
  BY ObjectPlain
<1>10. Len(r.out.kids) = Len(t.kids) /\ r.out.j = "struct" => s = s1
  <2> SUFFICES ASSUME Len(r.out.kids) = Len(t.kids), r.out.j = "struct" PROVE s = s1
    OBVIOUS
  <2>1. s = ToValue(d, h, t, r.out, c)
    BY <1>2 DEF ToNode
  <2> QED
    BY <2>1, Zenon DEF ToValue, Shell
<1>11. Len(values) = Len(t.kids) /\ \A i \in 1 .. Len(t.kids) : values[i] = FieldOf(v, i)
  BY <1>6
<1> HIDE DEF b, c, values, amount, r0, s0, s, s1
<1>14. r = Each(e, g, t.kids, values, r0)
  BY <1>5
<1> HIDE DEF fields
<1>12. Returned(d, n - 1, t.kids, values, p, r, s1, "struct", "object")
  BY <1>6, <1>7, <1>8, <1>14, CompositeEcho DEF s1
<1>13. /\ r.out = Shell("struct", r.out.kids) /\ r.out.kids \in Seq(Nested[n - 1])
       /\ Len(r.out.kids) = Len(t.kids)
       /\ Back(d, r, s1, Shell("object", PlainKids(p, t.kids, values)))
  BY <1>11, <1>12 DEF Returned
<1>15. r.out \in Nested[n] /\ r.out.j = "struct"
  <2>1. r.out.kids \in Seq(Nested[n - 1]) /\ "struct" \in Kinds
    BY <1>13 DEF Kinds
  <2>2. Shell("struct", r.out.kids) \in Holding(Nested[n - 1])
    BY <2>1, ShellNested
  <2>3. Shell("struct", r.out.kids).j = "struct"
    BY ShellFacts
  <2> QED
    BY <1>13, <2>2, <2>3, NestedFacts
<1>16. Native(n, v, r.out)
  BY <1>15 DEF Native
<1> QED
  BY <1>9, <1>10, <1>13, <1>15, <1>16 DEF Echoed, s

(* What a type is converted back to. *)
KindOf(k) ==
    CASE k = "bool" -> "boolean" [] k = "int64" -> "bigint"
      [] k \in {"int32", "float32", "float64"} -> "number"
      [] k \in {"string", "enum"} -> "string"
      [] k = "bytes" -> "bytes" [] k = "object" -> "handle"

(* A scalar, an enumerator or an object handle comes back.                 *)
LEMMA LeafNodeEcho ==
  ASSUME NEW e, NEW d, NEW n \in 1 .. MaxDepth + 1, NEW g, NEW h, NEW p,
         NEW t \in Types, NEW v \in Values, t.k \in ScalarTypes \cup {"enum", "object"},
         v.j \notin {"null", "undefined"},
         NEW b0 \in Budgets, NEW c0 \in Budgets, Room(d, b0, c0), InTime(e, d, b0, c0),
         Visit(c0).visits <= MaxVisits,
         NEW r, r = FromNode(e, g, t, v, b0), r.verdict = "ok"
  PROVE  Echoed(d, n, h, p, t, v, r, c0)
<1> DEFINE b == Visit(b0)
           c == Visit(c0)
           s == ToNode(d, h, t, r.out, c0)
           k == IF t.k = "enum" THEN "constant" ELSE IF t.k = "object" THEN "ref" ELSE t.k
           retained == IF t.k = "object" THEN <<v>> ELSE <<>>
           amount == IF t.k = "object" THEN 1 ELSE v.size
           m == Narrow(t.k, v.n)
           out == V(k, m, v.size, <<>>)
           s1 == Charged(d, t.k, amount, c, Ok(V(v.j, m, v.size, <<>>), <<>>, c))
<1>1. b.visits \in Nat /\ c.visits \in Nat
  BY RoomVisited DEF Budgets
<1>2. ~(b.visits > MaxVisits) /\ ~(c.visits > MaxVisits)
  BY <1>1, LimitsAreNumbers DEF InTime
<1>3. /\ v.j \notin {"string", "bytes"} => v.size = 0
      /\ v.size \in Nat /\ v.n \in Classes
  BY ShellValue, ConversionAssumption DEF ValueShape, Holding
<1>4. k \in Kinds /\ k \notin {"hole", "missing", "inherited", "thrown", "broken", "null"} /\ amount \in Nat
      /\ Amount(t.k, amount) /\ m \in Classes
  BY <1>3 DEF Kinds, ScalarTypes, Amount, Narrow, Classes, Numbers, Strings
<1>5. r.out.j \notin {"thrown", "broken"} => s = ToLeaf(d, t.k, r.out, c)
  BY <1>2 DEF ToNode, ScalarTypes
<1>6. PlainNode(p, t, v) = V(v.j, m, v.size, <<>>)
  <2>1. t.k \notin {"nullable", "array", "value"}
    BY DEF ScalarTypes
  <2> QED
    BY <2>1, Zenon DEF PlainNode
<1>7. \A x : ToLeaf(d, t.k, x, c) =
        IF (t.k \in {"string", "enum"} /\ x.size > MaxString) \/ (t.k = "bytes" /\ x.size > MaxBytes)
        THEN Fail("limit", c)
        ELSE Charged(d, t.k, IF t.k = "object" THEN 1 ELSE x.size, c,
                     Ok(V(KindOf(t.k), x.n, x.size, <<>>), <<>>, c))
  BY Zenon DEF ToLeaf, KindOf
<1>8. /\ r = Charged(e, t.k, amount, b, Ok(out, retained, b))
      /\ v.j = KindOf(t.k)
      /\ ~(t.k \in {"string", "enum"} /\ v.size > MaxString) /\ ~(t.k = "bytes" /\ v.size > MaxBytes)
  <2>0. e.native
    BY DEF InTime, Returner
  <2>1. \A verdict : Fail(verdict, b).verdict = verdict
    BY ResultFacts
  <2>2. CASE t.k = "enum"
    <3>1. r = FromEnum(e, v, b)
      BY <1>2, <2>2 DEF FromNode
    <3>2. v.j = "string"
      <4> HIDE DEF b
      <4> QED
        BY <2>1, <3>1 DEF FromEnum
    <3>3. ~(v.size > MaxString)
      <4> HIDE DEF b
      <4> QED
        BY <2>0, <2>1, <3>1, <3>2 DEF FromEnum
    <3>4. v.n = "constant"
      <4> DEFINE verdict == IF e.author = "none" THEN "TypeError" ELSE "thrown"
                 after == Charge(e, "enum", v.size, b)
      <4>1. verdict # "ok"
        OBVIOUS
      <4>2. v.n # "constant" => r = Charged(e, "enum", v.size, b, Fail(verdict, b))
        BY <2>0, <3>1, <3>2, <3>3 DEF FromEnum
      <4>3. b \in Budgets
        BY VisitFacts
      <4> HIDE DEF b, verdict
      <4>4. v.n # "constant" => r = Fail("limit", after) \/ r = Fail(verdict, after)
        BY <1>3, <4>2, <4>3, ChargedFails DEF FailedCharge
      <4> HIDE DEF after
      <4> QED
        BY <4>1, <4>4, ResultFacts
    <3>5. r = Charged(e, "enum", v.size, b, Ok(V("constant", v.n, v.size, <<>>), <<>>, b))
      BY <2>0, <3>1, <3>2, <3>3, <3>4, Zenon DEF FromEnum
    <3>6. m = v.n
      BY <2>2, <3>4 DEF Narrow
    <3> QED
      BY <2>2, <3>2, <3>3, <3>5, <3>6 DEF KindOf
  <2>3. CASE t.k = "object"
    <3>1. r = FromHandle(e, v, b)
      BY <1>2, <2>3 DEF FromNode
    <3>2. v.j = "handle" /\ v.n = "mine"
      <4> HIDE DEF b
      <4> QED
        BY <2>1, <3>1 DEF FromHandle
    <3>3. v.size = 0
      BY <1>3, <3>2
    <3>4. r = Charged(e, "object", 1, b, Ok(V("ref", v.n, v.size, <<>>), <<v>>, b))
      BY <3>1, <3>2, <3>3, Zenon DEF FromHandle
    <3>5. m = v.n
      BY <2>3, <3>2 DEF Narrow
    <3> QED
      BY <2>3, <3>2, <3>4, <3>5 DEF KindOf
  <2>4. CASE t.k \in ScalarTypes
    <3>0. t.k \notin {"nullable", "array", "value", "enum", "object"}
      BY <2>4 DEF ScalarTypes
    <3>1. r = FromScalar(e, t.k, v, b)
      BY <1>2, <3>0 DEF FromNode
    <3>2. /\ Accepts(t.k, v) /\ InRange(t.k, v)
          /\ ~(t.k = "string" /\ v.size > MaxString) /\ ~(t.k = "bytes" /\ v.size > MaxBytes)
      <4> HIDE DEF b
      <4> QED
        BY <2>0, <2>1, <3>1 DEF FromScalar
    <3>3. r = Charged(e, t.k, v.size, b, Ok(V(t.k, Stored(e, t.k, v.n), v.size, <<>>), <<>>, b))
      BY <2>0, <3>1, <3>2, Zenon DEF FromScalar
    <3>4. v.j = KindOf(t.k)
      BY <2>4, <3>2 DEF ScalarTypes, Accepts, KindOf
    <3>5. Stored(e, t.k, v.n) = m
      BY <2>0 DEF Stored
    <3> QED
      BY <3>0, <3>2, <3>3, <3>4, <3>5
  <2> QED
    BY <2>2, <2>3, <2>4
<1>10. r.out = out => s = s1
  <2>1. r.out = out => r.out.n = m /\ r.out.size = v.size /\ r.out.j = k
    BY DEF V
  <2>2. t.k = "object" => amount = 1
    OBVIOUS
  <2>3. t.k # "object" => amount = v.size
    OBVIOUS
  <2>4. r.out = out => s = ToLeaf(d, t.k, r.out, c)
    BY <1>4, <1>5, <2>1
  <2> HIDE DEF s, b, c, out, k, m, amount
  <2> QED
    BY <1>7, <1>8, <2>1, <2>2, <2>3, <2>4 DEF s1
<1>11. /\ Charges(e, t.k, amount, b0, out, retained, r)
       /\ Charges(d, t.k, amount, c0, V(v.j, m, v.size, <<>>), <<>>, s1)
  BY <1>8 DEF Charges
<1> HIDE DEF b, c, s, s1, amount, retained, k, m
<1>12. Native(n, v, r.out) /\ Back(d, r, s1, V(v.j, m, v.size, <<>>)) /\ r.out = out
  <2>1. SameLeaf(d, n, v, r, s1, k, m)
    BY <1>4, <1>11, LeafEcho
  <2> QED
    BY <2>1 DEF SameLeaf
<1> QED
  BY <1>6, <1>10, <1>12 DEF Echoed, s

(* One level comes back when the levels below it do.                       *)
LEMMA NodeEcho ==
  ASSUME NEW e, NEW d, Returner(e, d), NEW n \in 1 .. MaxDepth + 1, NEW g, NEW h, NEW p,
         EchoBelow(d, n - 1, g, h, p), Counts(g, Values),
         NEW t \in Types, NEW v \in Values, NEW b \in Budgets, NEW c \in Budgets, Room(d, b, c),
         NEW r, r = FromNode(e, g, t, v, b), r.verdict = "ok"
  PROVE  Echoed(d, n, h, p, t, v, r, c)
<1>1. \A verdict : Fail(verdict, Visit(b)).verdict = verdict
  BY ResultFacts
<1>2. Visit(b).visits = b.visits + 1 /\ Visit(c).visits = c.visits + 1
  BY VisitFacts
<1>3. b.visits \in Nat /\ c.visits \in Nat
  BY DEF Budgets
<1>4. ~(Visit(b).visits > MaxVisits)
  <2> SUFFICES ASSUME Visit(b).visits > MaxVisits PROVE FALSE
    OBVIOUS
  <2>1. r = Fail("limit", Visit(b))
    BY DEF FromNode
  <2> QED
    BY <1>1, <2>1
<1>5. v.j # "undefined"
  <2> SUFFICES ASSUME v.j = "undefined" PROVE FALSE
    OBVIOUS
  <2>1. r = Fail("TypeError", Visit(b))
    BY <1>4 DEF FromNode
  <2> QED
    BY <1>1, <2>1
<1>6. v.j = "null" => t.k = "nullable"
  <2> SUFFICES ASSUME v.j = "null", t.k # "nullable" PROVE FALSE
    OBVIOUS
  <2>1. r = Fail("TypeError", Visit(b))
    BY <1>4 DEF FromNode
  <2> QED
    BY <1>1, <2>1
<1>7. InTime(e, d, b, c)
  BY <1>2, <1>3, <1>4, LimitsAreNumbers DEF InTime
<1>8. Visit(c).visits <= MaxVisits
  BY <1>2, <1>3, <1>4, LimitsAreNumbers DEF Room
<1>9. CASE v.j = "null"
  BY <1>6, <1>7, <1>8, <1>9, NullEcho
<1>10. CASE v.j # "null" /\ t.k = "nullable"
  BY <1>5, <1>7, <1>8, <1>10, NullableEcho
<1>11. CASE v.j # "null" /\ t.k = "array"
  BY <1>5, <1>7, <1>8, <1>11, ArrayEcho
<1>12. CASE v.j # "null" /\ t.k = "value"
  BY <1>5, <1>7, <1>8, <1>12, ValueEcho
<1>13. CASE v.j # "null" /\ t.k \in ScalarTypes \cup {"enum", "object"}
  BY <1>5, <1>7, <1>8, <1>13, LeafNodeEcho
<1> QED
  BY <1>9, <1>10, <1>11, <1>12, <1>13, TypeFacts

(* What e accepts, d converts back, at every level.                        *)
LEMMA FromEcho ==
  ASSUME NEW e, NEW d, Returner(e, d)
  PROVE  \A n \in Levels : EchoBelow(d, n, From(e)[n], To(d)[n], Plain[n])
<1> DEFINE Holds(n) == EchoBelow(d, n, From(e)[n], To(d)[n], Plain[n])
           Bad == {n \in Levels : ~Holds(n)}
<1>1. SUFFICES ASSUME Bad # {} PROVE FALSE
  OBVIOUS
<1>2. PICK n \in Bad : \A m \in Bad : n <= m
  <2>1. Bad \in SUBSET Nat
    BY LimitsAreNumbers DEF Levels
  <2> HIDE DEF Bad
  <2> QED
    BY <1>1, <2>1, Least
<1>3. n \in Levels /\ ~Holds(n) /\ n \in Nat
  BY LimitsAreNumbers DEF Levels
<1>4. n # 0
  <2> SUFFICES ASSUME n = 0 PROVE Holds(0)
    BY <1>3
  <2> SUFFICES ASSUME NEW t \in Types, NEW v \in Values, NEW b \in Budgets,
                      From(e)[0][<<t, v, b>>].verdict = "ok"
               PROVE  FALSE
    BY DEF EchoBelow
  <2>1. From(e)[0][<<t, v, b>>] = Fail("limit", Visit(b))
    BY FromApplied
  <2> QED
    BY <2>1, ResultFacts
<1>5. n \in 1 .. MaxDepth + 1 /\ n - 1 \in Levels /\ ~(n <= n - 1)
  BY <1>3, <1>4, LimitsAreNumbers DEF Levels
<1>6. EchoBelow(d, n - 1, From(e)[n - 1], To(d)[n - 1], Plain[n - 1])
  <2>1. n - 1 \notin Bad
    <3> HIDE DEF Bad
    <3> QED
      BY <1>2, <1>5
  <2> QED
    BY <1>5, <2>1
<1>7. Counts(From(e)[n - 1], Values)
  BY <1>5, FromCounts
<1> HIDE DEF Bad
<1>8. ASSUME NEW t \in Types, NEW v \in Values, NEW b \in Budgets,
             From(e)[n][<<t, v, b>>].verdict = "ok"
      PROVE  /\ Native(n, v, From(e)[n][<<t, v, b>>].out)
             /\ \A c \in Budgets : Room(d, b, c) =>
                    Back(d, From(e)[n][<<t, v, b>>], To(d)[n][<<t, From(e)[n][<<t, v, b>>].out, c>>],
                         Plain[n][<<t, v>>])
  <2> DEFINE r == From(e)[n][<<t, v, b>>]
  <2>1. r = FromNode(e, From(e)[n - 1], t, v, b) /\ r.verdict = "ok"
    BY <1>5, <1>8, FromApplied
  <2> HIDE DEF r
  <2>2. ASSUME NEW c \in Budgets, Room(d, b, c)
        PROVE  Echoed(d, n, To(d)[n - 1], Plain[n - 1], t, v, r, c)
    BY <1>5, <1>6, <1>7, <2>1, <2>2, NodeEcho
  <2>3. NoBudget \in Budgets /\ Room(d, b, NoBudget)
    BY DEF NoBudget, Budgets, Room
  <2>4. Native(n, v, r.out)
    BY <2>2, <2>3 DEF Echoed
  <2>5. r.out \in Natives
    BY <1>5, <2>4, NestedFacts DEF Native
  <2>6. ASSUME NEW c \in Budgets, Room(d, b, c)
        PROVE  Back(d, r, To(d)[n][<<t, r.out, c>>], Plain[n][<<t, v>>])
    <3>1. To(d)[n][<<t, r.out, c>>] = ToNode(d, To(d)[n - 1], t, r.out, c)
      BY <1>5, <2>5, ToApplied
    <3>2. Plain[n][<<t, v>>] = PlainNode(Plain[n - 1], t, v)
      BY <1>5, PlainApplied
    <3>3. Echoed(d, n, To(d)[n - 1], Plain[n - 1], t, v, r, c)
      BY <2>2, <2>6
    <3> QED
      BY <3>1, <3>2, <3>3 DEF Echoed
  <2> QED
    BY <2>4, <2>6 DEF r
<1>9. Holds(n)
  BY <1>8 DEF EchoBelow
<1> QED
  BY <1>3, <1>9

(* The last argument of an accepted call, returned. *)
LEMMA LastReturned ==
  ASSUME NEW e \in Converters, NEW d \in Converters, Returner(e, d), Left(d) = Left(e),
         sig \in Seq(Types), sig # <<>>, arguments \in Seq(Values), Len(arguments) = Len(sig),
         Prepare(e).verdict = "ok",
         NEW r, r = To(d)[Left(d)][<<sig[Len(sig)], Prepare(e).out.kids[Len(sig)], NoBudget>>]
  PROVE  /\ r.verdict = "ok"
         /\ r.out = Plain[Left(e)][<<sig[Len(sig)], Read(arguments[Len(sig)])>>]
<1> DEFINE N == Len(arguments)
           g == From(e)[Left(e)]
           start == Ok(Shell("arguments", <<>>), <<>>, NoBudget)
<1>1. Prepare(e) = Each(e, g, sig, arguments, start)
  BY Zenon DEF Prepare, Shell
<1>2. Fits(sig, arguments, Values) /\ N \in Nat
  BY ArgumentsFit
<1>3. Left(e) \in Levels
  BY LeftIsLevel
<1>4. Counts(g, Values) /\ EchoBelow(d, Left(e), g, To(d)[Left(e)], Plain[Left(e)])
  BY <1>3, FromCounts, FromEcho
<1>5. start.out = Shell("arguments", <<>>) /\ start.budget = NoBudget
  BY DEF Ok
<1>6. NoBudget \in Budgets
  BY DEF NoBudget, Budgets
<1>7. N \in 1 .. N /\ N = Len(sig)
  BY <1>2
<1> HIDE DEF g, start
<1>8. PICK f : Unfolds(f, e, g, sig, arguments, start)
  BY <1>2, <1>4, <1>5, <1>6, EachFacts
<1> DEFINE item == ItemOf(f, g, sig, arguments, N)
<1>9. item.verdict = "ok"
  BY <1>1, <1>2, <1>7, <1>8, EachOk
<1>10. Prepare(e).out = Shell("arguments", Outs(f, g, sig, arguments))
  <2>1. Shaped(f, e, g, sig, arguments, start, "arguments")
    BY <1>1, <1>2, <1>5, <1>8, EachShape
  <2> QED
    BY <1>1, <2>1 DEF Shaped
<1>11. Prepare(e).out.kids[N] = item.out
  <2>1. Prepare(e).out.kids = Outs(f, g, sig, arguments)
    BY <1>10, ShellFacts
  <2>2. Outs(f, g, sig, arguments)[N] = item.out
    BY <1>7 DEF Outs
  <2> QED
    BY <2>1, <2>2
<1>12. f[N - 1].budget \in Budgets
  <2>1. N - 1 \in 0 .. N
    BY <1>2, <1>7
  <2> QED
    BY <1>8, <2>1 DEF Unfolds
<1>13. item = g[<<sig[N], Read(arguments[N]), f[N - 1].budget>>]
  BY DEF ItemOf
<1>14. sig[N] \in Types /\ Read(arguments[N]) \in Values
  BY <1>2, <1>7 DEF Fits
<1>15. Room(d, f[N - 1].budget, NoBudget)
  BY <1>12 DEF Room, NoBudget, Budgets
<1> HIDE DEF item
<1>16. Back(d, item, To(d)[Left(e)][<<sig[N], item.out, NoBudget>>],
            Plain[Left(e)][<<sig[N], Read(arguments[N])>>])
  BY <1>4, <1>6, <1>9, <1>12, <1>13, <1>14, <1>15, ItemEcho
<1> HIDE DEF N
<1>17. r = To(d)[Left(e)][<<sig[N], item.out, NoBudget>>]
  BY <1>7, <1>11
<1> QED
  BY <1>7, <1>16, <1>17 DEF Back

(* Prepared arguments depend on the declaration, the arguments and the     *)
(* classes only.                                                           *)
SameCall == /\ lowering' = lowering /\ author' = author
            /\ sig' = sig /\ arguments' = arguments
LEMMA PrepareUnchanged ==
  ASSUME SameCall
  PROVE  /\ Prepare(FromJs)' = Prepare(FromJs)
         /\ Prepare(Keeping)' = Prepare(Keeping)
         /\ CheckArguments' = CheckArguments
         /\ Left(FromJs)' = Left(FromJs)
<1>1. FromJs' = FromJs /\ ValidateJs' = ValidateJs
  BY DEF SameCall, FromJs, ValidateJs, JvmFrom, JvmBuilding
<1>2. /\ Prepare(FromJs)' = Prepare(FromJs) /\ Prepare(ValidateJs)' = Prepare(ValidateJs)
      /\ Prepare(Keeping)' = Prepare(Keeping)
  BY <1>1 DEF SameCall, Prepare
<1>3. Left(FromJs)' = Left(FromJs)
  BY <1>1 DEF Left
<1> QED
  BY <1>2, <1>3 DEF SameCall, CheckArguments

(* No call has run and nothing is converted in the beginning.              *)
LEMMA InitConversion ==
  ASSUME ConversionInit
  PROVE  ConversionInv
<1>1. PICK input \in Inputs : sig = input.sig /\ arguments = input.arguments
  BY DEF ConversionInit
<1>2. sig \in Seq(Types) /\ sig # <<>> /\ arguments \in Seq(Values)
  BY <1>1, ConversionAssumption
<1>3. /\ call = [pc |-> "idle", prepared |-> Fail("none", NoBudget), outcome |-> "none",
                 result |-> Undefined, ran |-> FALSE]
      /\ lowering \in {"cpp", "jvm"} /\ author \in Authors /\ preflight = "none"
  BY DEF ConversionInit
<1>4. CallInv
  BY <1>2, <1>3 DEF CallInv, At
<1> QED
  BY <1>3, <1>4 DEF ConversionInv, PreflightInv, EchoReturnsArgument, At

(* The invariant is about the variables only.                              *)
LEMMA StutterConversion ==
  ASSUME ConversionInv, UNCHANGED conversionVars
  PROVE  ConversionInv'
<1>1. SameCall /\ preflight' = preflight /\ call' = call
  BY DEF conversionVars, SameCall
<1>2. /\ Prepare(FromJs)' = Prepare(FromJs) /\ CheckArguments' = CheckArguments
      /\ Left(FromJs)' = Left(FromJs) /\ Prepare(Keeping)' = Prepare(Keeping)
  BY <1>1, PrepareUnchanged
<1>3. CallInv'
  BY <1>1, <1>2 DEF ConversionInv, CallInv, At, IsOk, SameCall
<1>4. PreflightInv'
  BY <1>1, <1>2 DEF ConversionInv, PreflightInv, SameCall
<1>5. EchoReturnsArgument'
  BY <1>1, <1>2 DEF ConversionInv, EchoReturnsArgument, At, SameCall, Intact, Keeping
<1> QED
  BY <1>3, <1>4, <1>5 DEF ConversionInv

(* The outcome of the preflight is that of its converters.                 *)
LEMMA PreflightStep ==
  ASSUME ConversionInv, Preflight
  PROVE  ConversionInv'
<1>1. /\ SameCall /\ call' = call /\ preflight' = CheckArguments
  BY DEF Preflight, Unchanged, SameCall
<1>2. /\ Prepare(FromJs)' = Prepare(FromJs) /\ CheckArguments' = CheckArguments
      /\ Left(FromJs)' = Left(FromJs) /\ Prepare(Keeping)' = Prepare(Keeping)
  BY <1>1, PrepareUnchanged
<1>3. CallInv'
  BY <1>1, <1>2 DEF ConversionInv, CallInv, At, IsOk, SameCall
<1>4. PreflightInv'
  BY <1>1, <1>2 DEF PreflightInv
<1>5. EchoReturnsArgument'
  BY <1>1, <1>2 DEF ConversionInv, EchoReturnsArgument, At, SameCall, Intact, Keeping
<1> QED
  BY <1>3, <1>4, <1>5 DEF ConversionInv

(* The call enters.                                                        *)
LEMMA EnterCallStep ==
  ASSUME ConversionInv, EnterCall
  PROVE  ConversionInv'
<1>1. /\ SameCall /\ preflight' = preflight /\ call.pc = "idle"
      /\ \/ call' = [call EXCEPT !.pc = "done", !.outcome = "TypeError"]
         \/ call' = [call EXCEPT !.pc = "done", !.outcome = "FEATURE_CLOSED"]
         \/ call' = [call EXCEPT !.pc = "prepare"] /\ Len(arguments) = Len(sig)
  BY DEF EnterCall, Unchanged, SameCall, At, Done, Goto
<1>2. /\ Prepare(FromJs)' = Prepare(FromJs) /\ CheckArguments' = CheckArguments
  BY <1>1, PrepareUnchanged
<1>3. /\ call = [pc |-> call.pc, prepared |-> call.prepared, outcome |-> call.outcome,
                 result |-> call.result, ran |-> call.ran]
      /\ call.prepared = Fail("none", NoBudget) /\ call.ran = FALSE
  BY <1>1 DEF ConversionInv, CallInv, At
<1>4. /\ call'.prepared = Fail("none", NoBudget) /\ call'.ran = FALSE
      /\ call'.pc \in {"prepare", "done"} /\ (call'.pc = "prepare" => Len(arguments) = Len(sig))
      /\ call' = [pc |-> call'.pc, prepared |-> call'.prepared, outcome |-> call'.outcome,
                  result |-> call'.result, ran |-> call'.ran]
  BY <1>1, <1>3
<1>5. CallInv'
  BY <1>1, <1>4 DEF ConversionInv, CallInv, At, SameCall
<1>6. PreflightInv'
  BY <1>1, <1>2 DEF ConversionInv, PreflightInv
<1>7. EchoReturnsArgument'
  BY <1>4 DEF EchoReturnsArgument, At
<1> QED
  BY <1>5, <1>6, <1>7 DEF ConversionInv

(* The arguments are prepared by the converter of the lowering.            *)
LEMMA PrepareStep ==
  ASSUME ConversionInv, PrepareArguments
  PROVE  ConversionInv'
<1>1. /\ SameCall /\ preflight' = preflight /\ call.pc = "prepare"
  BY DEF PrepareArguments, Unchanged, SameCall, At
<1>2. /\ Prepare(FromJs)' = Prepare(FromJs) /\ CheckArguments' = CheckArguments
  BY <1>1, PrepareUnchanged
<1> DEFINE r == Prepare(FromJs)
           outcome == CASE r.verdict = "ok" -> "none"
                        [] r.verdict \in {"limit", "thrown"} ->
                             IF lowering = "jvm" /\ async THEN "INTERNAL"
                             ELSE IF r.verdict = "limit" THEN "RangeError"
                             ELSE "IMPLEMENTATION_ERROR"
                        [] OTHER -> r.verdict
<1>3. call' = [call EXCEPT !.prepared = r, !.pc = IF r.verdict = "ok" THEN "check" ELSE "done",
                           !.outcome = outcome]
  BY DEF PrepareArguments
<1>4. /\ call = [pc |-> call.pc, prepared |-> call.prepared, outcome |-> call.outcome,
                 result |-> call.result, ran |-> call.ran]
      /\ call.ran = FALSE /\ Len(arguments) = Len(sig)
  BY <1>1 DEF ConversionInv, CallInv, At
<1> HIDE DEF outcome, r
<1>5. /\ call'.prepared = r /\ call'.ran = FALSE
      /\ call'.pc = IF r.verdict = "ok" THEN "check" ELSE "done"
      /\ call' = [pc |-> call'.pc, prepared |-> call'.prepared, outcome |-> call'.outcome,
                  result |-> call'.result, ran |-> call'.ran]
  BY <1>3, <1>4
<1>6. CallInv'
  <2>1. /\ call'.pc \in {"check", "run", "result", "done"} /\ call'.ran \in BOOLEAN
        /\ call'.pc # "prepare"
        /\ (call'.pc # "done" \/ call'.ran) => call'.prepared.verdict = "ok"
        /\ call'.ran => call'.pc \in {"result", "done"}
    BY <1>5
  <2>2. call'.prepared = Prepare(FromJs)'
    BY <1>2, <1>5 DEF r
  <2> QED
    BY <1>1, <1>4, <1>5, <2>1, <2>2 DEF ConversionInv, CallInv, At, IsOk, SameCall
<1>7. PreflightInv'
  BY <1>1, <1>2 DEF ConversionInv, PreflightInv
<1>8. EchoReturnsArgument'
  BY <1>5 DEF EchoReturnsArgument, At
<1> QED
  BY <1>6, <1>7, <1>8 DEF ConversionInv

(* Past the arguments: they stay converted, and were accepted. *)
LEMMA Accepted ==
  ASSUME CallInv, call.pc \in {"check", "run", "result"}
  PROVE  /\ call = [pc |-> call.pc, prepared |-> call.prepared, outcome |-> call.outcome,
                    result |-> call.result, ran |-> call.ran]
         /\ call.ran \in BOOLEAN /\ (call.ran => call.pc = "result") /\ Len(arguments) = Len(sig)
         /\ call.prepared = Prepare(FromJs) /\ call.prepared.verdict = "ok"
BY DEF CallInv, At, IsOk

(* A step after preparation leaves what was prepared.                      *)
LEMMA AcceptedStep ==
  ASSUME CallInv, call.pc \in {"check", "run", "result"},
         SameCall, call'.pc \in {"check", "run", "result", "done"}, call'.ran \in BOOLEAN,
         call'.ran => call'.pc \in {"result", "done"},
         call'.prepared = call.prepared,
         call' = [pc |-> call'.pc, prepared |-> call'.prepared, outcome |-> call'.outcome,
                  result |-> call'.result, ran |-> call'.ran]
  PROVE  CallInv'
<1>1. /\ Len(arguments) = Len(sig)
      /\ call.prepared = Prepare(FromJs) /\ call.prepared.verdict = "ok"
  BY Accepted
<1>2. Prepare(FromJs)' = Prepare(FromJs)
  BY PrepareUnchanged
<1>3. call'.prepared = Prepare(FromJs)' /\ call'.prepared.verdict = "ok" /\ call'.pc # "prepare"
  BY <1>1, <1>2
<1> QED
  BY <1>1, <1>3 DEF CallInv, At, IsOk, SameCall

(* The feature is checked after preparation.                               *)
LEMMA CheckFeatureStep ==
  ASSUME ConversionInv, CheckFeature
  PROVE  ConversionInv'
<1>1. /\ SameCall /\ preflight' = preflight /\ call.pc = "check"
      /\ \/ call' = [call EXCEPT !.pc = "done", !.outcome = "FEATURE_CLOSED"]
         \/ call' = [call EXCEPT !.pc = "run"]
  BY DEF CheckFeature, Unchanged, SameCall, At, Done, Goto
<1>2. CheckArguments' = CheckArguments
  BY <1>1, PrepareUnchanged
<1>3. /\ call = [pc |-> call.pc, prepared |-> call.prepared, outcome |-> call.outcome,
                 result |-> call.result, ran |-> call.ran]
      /\ call.ran = FALSE
  BY <1>1, Accepted DEF ConversionInv
<1>4. /\ call'.prepared = call.prepared /\ call'.ran = FALSE /\ call'.pc \in {"run", "done"}
      /\ call' = [pc |-> call'.pc, prepared |-> call'.prepared, outcome |-> call'.outcome,
                  result |-> call'.result, ran |-> call'.ran]
  BY <1>1, <1>3
<1>5. CallInv'
  BY <1>1, <1>4, AcceptedStep DEF ConversionInv
<1>6. PreflightInv'
  BY <1>1, <1>2 DEF ConversionInv, PreflightInv
<1>7. EchoReturnsArgument'
  BY <1>4 DEF EchoReturnsArgument
<1> QED
  BY <1>5, <1>6, <1>7 DEF ConversionInv

(* The implementation runs or throws.                                      *)
LEMMA ImplementationStep ==
  ASSUME ConversionInv, NEW throws \in BOOLEAN, Implementation(throws)
  PROVE  ConversionInv'
<1>1. /\ SameCall /\ preflight' = preflight /\ call.pc = "run"
      /\ call' = [call EXCEPT !.ran = TRUE,
                              !.pc = IF throws THEN "done" ELSE "result",
                              !.outcome = IF throws THEN "IMPLEMENTATION_ERROR" ELSE @]
  BY DEF Implementation, Unchanged, SameCall, At
<1>2. CheckArguments' = CheckArguments
  BY <1>1, PrepareUnchanged
<1>3. call = [pc |-> call.pc, prepared |-> call.prepared, outcome |-> call.outcome,
              result |-> call.result, ran |-> call.ran]
  BY <1>1, Accepted DEF ConversionInv
<1>4. /\ call'.prepared = call.prepared /\ call'.ran = TRUE /\ call'.pc \in {"result", "done"}
      /\ call' = [pc |-> call'.pc, prepared |-> call'.prepared, outcome |-> call'.outcome,
                  result |-> call'.result, ran |-> call'.ran]
      /\ call'.pc = "done" => call'.outcome = "IMPLEMENTATION_ERROR"
  BY <1>1, <1>3
<1>5. CallInv'
  BY <1>1, <1>4, AcceptedStep DEF ConversionInv
<1>6. PreflightInv'
  BY <1>1, <1>2 DEF ConversionInv, PreflightInv
<1>7. EchoReturnsArgument'
  BY <1>4 DEF EchoReturnsArgument, At
<1> QED
  BY <1>5, <1>6, <1>7 DEF ConversionInv

(* The converters back, of C++ and of the JVM.                             *)
LEMMA Returners ==
  /\ Returner(CppFromJs, CppToJs) /\ Left(CppToJs) = Left(CppFromJs)
  /\ Returner(Keeping, JvmTo) /\ Left(JvmTo) = Left(Keeping) /\ Left(JvmFrom) = Left(Keeping)
<1>1. /\ CppFromJs = CppToJs /\ CppToJs.reserves = Sized /\ CppToJs.native
      /\ CppToJs.author = "none"
  BY DEF CppFromJs, CppToJs, Converter
<1>2. /\ Keeping.native /\ Keeping.author = "keeps" /\ Keeping.depth = 0 /\ JvmFrom.depth = 0
      /\ JvmTo.depth = 0 /\ JvmTo.reserves = {"object"}
  BY DEF Keeping, JvmFrom, JvmTo, JvmBuilding, Converter
<1>3. Returner(CppFromJs, CppToJs) /\ Left(CppToJs) = Left(CppFromJs)
  BY <1>1 DEF Returner, Refusing, Sized
<1> QED
  BY <1>2, <1>3 DEF Returner, Refusing, Left

(* The result is converted back: this is where an echo must return the     *)
(* argument.                                                               *)
LEMMA ConvertResultStep ==
  ASSUME ConversionInv, ConvertResult
  PROVE  ConversionInv'
<1>1. /\ SameCall /\ preflight' = preflight /\ call.pc = "result"
  BY DEF ConvertResult, Unchanged, SameCall, At
<1> DEFINE r == To(ToJs)[Left(ToJs)][<<sig[Len(sig)], call.prepared.out.kids[Len(sig)], NoBudget>>]
           outcome == IF r.verdict = "ok" THEN "ok"
                      ELSE IF async \/ r.verdict = "broken" THEN "INTERNAL"
                      ELSE IF r.verdict = "thrown" THEN "IMPLEMENTATION_ERROR"
                      ELSE "RangeError"
           echo == Plain[Left(FromJs)][<<sig[Len(sig)], Read(arguments[Len(sig)])>>]
<1>2. call' = [call EXCEPT
           !.pc = "done", !.result = IF r.verdict = "ok" THEN r.out ELSE Undefined,
           !.outcome = outcome]
  BY DEF ConvertResult
<1>3. /\ CheckArguments' = CheckArguments /\ Left(FromJs)' = Left(FromJs)
      /\ Prepare(Keeping)' = Prepare(Keeping)
  BY <1>1, PrepareUnchanged
<1>4. /\ call = [pc |-> call.pc, prepared |-> call.prepared, outcome |-> call.outcome,
                 result |-> call.result, ran |-> call.ran]
      /\ call.ran \in BOOLEAN /\ Len(arguments) = Len(sig)
      /\ call.prepared = Prepare(FromJs) /\ call.prepared.verdict = "ok"
  BY <1>1, Accepted DEF ConversionInv
<1>6. sig \in Seq(Types) /\ sig # <<>> /\ arguments \in Seq(Values)
  BY DEF ConversionInv, CallInv
<1>8. Intact => r.verdict = "ok" /\ r.out = echo
  <2>1. CASE lowering = "cpp"
    <3>1. FromJs = CppFromJs /\ ToJs = CppToJs
      BY <2>1 DEF FromJs, ToJs
    <3>2. CppFromJs \in Converters /\ CppToJs \in Converters
      BY DEF Converters
    <3>3. r = To(CppToJs)[Left(CppToJs)][<<sig[Len(sig)], Prepare(CppFromJs).out.kids[Len(sig)], NoBudget>>]
      BY <1>4, <3>1
    <3> HIDE DEF r
    <3>4. r.verdict = "ok" /\ r.out = Plain[Left(CppFromJs)][<<sig[Len(sig)], Read(arguments[Len(sig)])>>]
      BY <1>4, <1>6, <3>1, <3>2, <3>3, Returners, LastReturned
    <3> QED
      BY <3>1, <3>4
  <2>2. CASE lowering # "cpp" /\ Intact
    <3>1. FromJs = JvmFrom /\ ToJs = JvmTo
      BY <2>2 DEF FromJs, ToJs
    <3>2. Keeping \in Converters /\ JvmTo \in Converters
      BY DEF Converters
    <3>3. call.prepared = Prepare(Keeping)
      BY <2>2 DEF Intact, Keeping
    <3>4. r = To(JvmTo)[Left(JvmTo)][<<sig[Len(sig)], Prepare(Keeping).out.kids[Len(sig)], NoBudget>>]
      BY <3>1, <3>3
    <3> HIDE DEF r
    <3>5. r.verdict = "ok" /\ r.out = Plain[Left(Keeping)][<<sig[Len(sig)], Read(arguments[Len(sig)])>>]
      BY <1>4, <1>6, <3>2, <3>3, <3>4, Returners, LastReturned
    <3> QED
      BY <3>1, <3>5, Returners
  <2> QED
    BY <2>1, <2>2
<1> HIDE DEF r, outcome, echo
<1>9. /\ call'.prepared = call.prepared /\ call'.ran = call.ran /\ call'.pc = "done"
      /\ call' = [pc |-> call'.pc, prepared |-> call'.prepared, outcome |-> call'.outcome,
                  result |-> call'.result, ran |-> call'.ran]
      /\ call'.outcome = outcome /\ (r.verdict = "ok" => call'.result = r.out)
  BY <1>2, <1>4
<1>10. CallInv'
  BY <1>1, <1>4, <1>9, AcceptedStep DEF ConversionInv
<1>11. PreflightInv'
  BY <1>1, <1>3 DEF ConversionInv, PreflightInv
<1>12. EchoReturnsArgument'
  <2>1. Intact' => Intact
    BY <1>1, <1>3, <1>9 DEF Intact, SameCall, Keeping
  <2>2. Intact => call'.outcome = "ok" /\ call'.result = echo
    BY <1>8, <1>9 DEF outcome
  <2>3. echo = Plain[Left(FromJs)'][<<sig'[Len(sig')], Read(arguments'[Len(sig')])>>]
    BY <1>1, <1>3 DEF SameCall, echo
  <2> QED
    BY <2>1, <2>2, <2>3 DEF EchoReturnsArgument
<1> QED
  BY <1>10, <1>11, <1>12 DEF ConversionInv

(* What a call has converted is what its arguments convert to, and a       *)
(* preflight's verdict stays true of them (_callable_body,                 *)
(* _preflight_host_function).                                              *)
THEOREM ConversionInvariant == ConversionSpec => []ConversionInv
<1>1. ConversionInit => ConversionInv
  BY InitConversion
<1>2. ConversionInv /\ [ConversionNext]_conversionVars => ConversionInv'
  BY StutterConversion, PreflightStep, EnterCallStep, PrepareStep, CheckFeatureStep,
     ImplementationStep, ConvertResultStep
  DEF ConversionNext
<1> QED
  BY <1>1, <1>2, PTL DEF ConversionSpec

(* The lowerings accept what the reference engine accepts unless a         *)
(* constructor of the author's refuses it; with floats, strings, host      *)
(* objects and classes as the code has them they accept just what the      *)
(* engine would, or fail in the same constructor, C++ at the same cost     *)
(* (_from_js_definition, _from_definition against _convert).               *)
THEOREM LoweringsAgree == ConversionSpec => []LoweringsFollowReference
<1>1. ConversionInv => LoweringsFollowReference
  BY CallFollows DEF ConversionInv
<1> QED
  BY <1>1, ConversionInvariant, PTL

(* A preflight refuses no argument for its type that the call converts,    *)
(* and the call converts what it lets pass unless temporary storage runs   *)
(* out or a constructor of the author's throws (_preflight_host_function   *)
(* against _callable_body).                                                *)
THEOREM PreflightIsRight == ConversionSpec => []PreflightAgrees
<1>1. ConversionInv => PreflightAgrees
  BY CallAgrees DEF ConversionInv
<1> QED
  BY <1>1, ConversionInvariant, PTL

(* An argument that was accepted, and that no constructor changed,         *)
(* converts back within the limits when it is returned, to what native     *)
(* code stores of the value with the fields of its type (_to_js_definition,*)
(* _to_definition).                                                        *)
THEOREM EchoIsArgument == ConversionSpec => []EchoReturnsArgument
<1>1. ConversionInv => EchoReturnsArgument
  BY DEF ConversionInv
<1> QED
  BY <1>1, ConversionInvariant, PTL
=============================================================================
