----------------------- MODULE NFReconcilerQuietUpdating -----------------------
(***************************************************************************)
(* When the upf's or the smf's reconciler has come to rest it has done its  *)
(* work, for every value of the constants, as long as nobody touches what  *)
(* it made.                                                                *)
(*                                                                         *)
(* The first update of a Deployment takes its controller reference, and    *)
(* with it the events that wake the worker: from then on the cache and the  *)
(* pass may be behind the server for good. That does no harm, because      *)
(* there is only one ConfigMap (OneConfigMap), and a Deployment without     *)
(* controller already carries its version (Steady): the update, which is   *)
(* made without a resource version, is all that is left to do. The smf      *)
(* comes to it by way of the Configs, which it fetches one by one           *)
(* (FetchedInv), and of the Service (ServiceLag).                          *)
(***************************************************************************)
EXTENDS NFReconcilerWatching

OnlyUpf == Providers \subseteq {"upf"}
OnlySmf == Providers \subseteq {"smf"}

(* Only one of the two reconcilers is at work, no call fails, what is slow  *)
(* waits for events and passes, and users edit and delete nothing that the *)
(* reconciler made (upf_roll_lost and upf_left_behind show why). Specs,     *)
(* NetworkAttachmentDefinitions and conditions change at will, and crashes *)
(* may happen at any time. The Configs are there before the smf asks for    *)
(* them, for nothing wakes it when they come (smf_missing_reference.cfg).  *)
Undisturbed ==
  /\ OnlyUpf \/ (OnlySmf /\ NoneHalfBuilt /\ "SetConfig" \notin UserOps)
  /\ PromptWatch /\ MaxFaults = 0
  /\ UserOps \subseteq {"CreateNF", "EditSpec", "AddNAD", "RemoveNAD", "SetConfig", "Report"}

(* The kinds whose events wake the worker. *)
Watched == {"nf", "cm", "dep"}

Free(c) == c # None /\ c.owner = 0

(* Of a Deployment that has no controller any more events wake nobody. *)
Awake ==
  \/ queued \/ timer
  \/ watch["nf"] # <<>> \/ watch["cm"] # <<>>
  \/ watch["dep"] # <<>> /\ ~ Free(cache["dep"])

-----------------------------------------------------------------------------
(* What was created stays *)

LEMMA Stays ==
  ASSUME Undisturbed, TypeInv, OneLife, [Next]_vars, NEW k \in Kinds, store[k] # None,
         k = "dep" => ~ store["dep"].deleting
  PROVE  store'[k] # None
BY Lasting, ObjectKinds DEF Undisturbed, DeleteOp

(* There is one ConfigMap, and it never changes. *)
OneConfigMap ==
  /\ \A c \in Copies("cm") : c # None => c = store["cm"]
  /\ w.version # 0 => store["cm"] # None /\ w.version = store["cm"].rv

LEMMA ConfigMapStep ==
  ASSUME Undisturbed, TypeInv, OneLife, [Next]_vars
  PROVE  \/ UNCHANGED <<store["cm"], issued["cm"]>>
         \/ /\ store["cm"] = None /\ store'["cm"] # None
            /\ store'["cm"].rv = NextRV("cm") /\ issued'["cm"] = NextRV("cm")
<1> USE DEF TypeInv
<1>1. ASSUME NEW k \in Kinds \ {"cm"}, NEW object, Put(k, object)
      PROVE  UNCHANGED <<store["cm"], issued["cm"]>>
  BY <1>1, ObjectKinds DEF Put, ServerOK
<1>2. CASE NFWritten \/ ServiceWritten \/ DeploymentWritten
  <2>1. \E k \in Kinds \ {"cm"} : \E object : Put(k, object)
    BY <1>2, ObjectKinds DEF NFWritten, ServiceWritten, DeploymentWritten
  <2> QED BY <1>1, <2>1
<1>3. CASE ConfigMapWritten /\ Updated
  <2>1. store["cm"] = None
    BY <1>3 DEF ConfigMapWritten, Undisturbed
  <2>2. PICK k \in Kinds : \E object \in Object(k) : object.rv = NextRV(k) /\ Put(k, object)
    BY <1>3, UpdatedObject
  <2>3. CASE k = "cm"
    BY <2>1, <2>2, <2>3, NoneAssumption DEF Put, ServerOK
  <2> QED BY <1>1, <2>2, <2>3
<1>4. ASSUME NEW k \in Kinds, Erase(k) PROVE UNCHANGED <<store["cm"], issued["cm"]>>
  <2>1. k # "cm"
    BY <1>4, Stays, ObjectKinds DEF Erase, ServerOK
  <2> QED BY <1>4, <2>1, ObjectKinds DEF Erase, ServerOK
<1> QED BY <1>2, <1>3, <1>4, ServerStep DEF ServerUnchanged, Written, Updated

LEMMA StepOneConfigMap ==
  ASSUME Undisturbed, TypeInv, OneLife, OneConfigMap, [Next]_vars PROVE OneConfigMap'
<1>1. store["cm"] # None => UNCHANGED store["cm"]
  BY ConfigMapStep
<1>2. ASSUME NEW c \in Copies("cm")', c # None PROVE c = store'["cm"]
  BY <1>1, <1>2, CopiesStep, ObjectKinds DEF OneConfigMap
<1>3. ASSUME w'.version # 0 PROVE store'["cm"] # None /\ w'.version = store'["cm"].rv
  <2>1. CASE w'.version = w.version
    BY <1>1, <1>3, <2>1 DEF OneConfigMap
  <2>2. CASE w'.version = Version(cache["cm"])
    <3>1. cache["cm"] # None /\ cache["cm"] \in Copies("cm")
      BY <1>3, <2>2 DEF Version, Copies, Shown
    <3> QED BY <1>1, <2>2, <3>1 DEF Version, OneConfigMap
  <2>3. CASE w'.version = issued'["cm"] /\ issued'["cm"] = NextRV("cm")
    <3>1. issued'["cm"] # issued["cm"]
      BY <2>3, ObjectKinds DEF NextRV, TypeInv, ServerOK
    <3> QED BY <2>3, <3>1, ConfigMapStep
  <2>4. CASE Reconcile
    BY <1>3, <2>1, <2>2, <2>3, <2>4, ReconcileVersionStep DEF VersionStep
  <2>5. CASE ~ Reconcile
    <3>1. Restart => w'.version = 0
      BY DEF Restart, NoPass
    <3> QED BY <1>3, <2>1, <2>5, <3>1, OutsideStep
  <2> QED BY <2>4, <2>5
<1> QED BY <1>2, <1>3 DEF OneConfigMap

(* No event reports an absence, and the first of a Deployment shows its     *)
(* controller.                                                             *)
Present == \A k \in Watched : \A i \in DOMAIN watch[k] : watch[k][i] # None
FirstOwned ==
  \A i \in DOMAIN watch["dep"] :
    ShownBefore("dep", i) = None => watch["dep"][i].owner # 0

(* A Deployment stays, and comes after the ConfigMap; one without           *)
(* controller carries its version, and only a pass that knows the ConfigMap *)
(* meets one.                                                              *)
Steady ==
  /\ \A c \in Copies("dep") : c # None =>
       /\ ~ c.deleting /\ store["cm"] # None /\ store["dep"] # None
       /\ Free(c) => cache["cm"] # None /\ c.ann = store["cm"].rv
  /\ Free(w.dep) => w.version = store["cm"].rv
  /\ w.version # 0 /\ w.dep # None => cache["cm"] # None

LEMMA StepPresent ==
  ASSUME Undisturbed, TypeInv, OneLife, Steady, Present, [Next]_vars PROVE Present'
<1> SUFFICES ASSUME NEW k \in Watched PROVE \A i \in DOMAIN watch'[k] : watch'[k][i] # None
  BY DEF Present
<1>1. k \in Kinds /\ watch[k] \in Seq(Object(k) \cup {None})
  BY ObjectKinds DEF Watched, TypeInv, ServerOK
<1>2. \A i \in DOMAIN watch[k] : watch[k][i] # None
  BY DEF Present
<1>3. CASE Untouched(k)
  BY <1>2, <1>3 DEF Untouched
<1>4. CASE Announced(k)
  <2>1. store["dep"] # None => ~ store["dep"].deleting
    BY DEF Steady, Copies
  <2>2. store'[k] # None
    BY <1>1, <1>4, <2>1, Stays DEF Announced
  <2> QED BY <1>1, <1>2, <1>4, <2>2 DEF Announced
<1>5. CASE Told(k)
  BY <1>1, <1>2, <1>5 DEF Told
<1>6. CASE Restart
  BY <1>1, <1>6 DEF Restart
<1> QED BY <1>1, <1>3, <1>4, <1>5, <1>6, ChannelStep

(* How the passes that are under way may change the Deployment, when nobody *)
(* else edits or deletes it.                                               *)
DeploymentCreated ==
  /\ pc = "create" /\ store["dep"] = None
  /\ ~ store'["dep"].deleting /\ store'["dep"].owner = ControlledBy(w.nf)
DeploymentRolled ==
  /\ pc = "roll" /\ w.dep # None
  /\ store'["dep"].deleting = w.dep.deleting
  /\ store'["dep"].owner = w.dep.owner /\ store'["dep"].ann = w.version
DeploymentUpdated ==
  /\ pc = "update" /\ store["dep"] # None
  /\ store'["dep"].deleting = store["dep"].deleting
  /\ store'["dep"].owner = 0 /\ store'["dep"].ann = w.version
DeploymentKept ==
  /\ store["dep"] # None
  /\ store'["dep"].deleting = store["dep"].deleting
  /\ store'["dep"].owner = store["dep"].owner
  /\ store'["dep"].ann = store["dep"].ann /\ store'["dep"].tmpl = store["dep"].tmpl

LEMMA DeploymentStep ==
  ASSUME Undisturbed, TypeInv, [Next]_vars, store'["dep"] # None
  PROVE  DeploymentCreated \/ DeploymentRolled \/ DeploymentUpdated \/ DeploymentKept
<1> USE DEF TypeInv
<1>1. CASE UNCHANGED store["dep"]
  BY <1>1 DEF DeploymentKept
<1>2. ASSUME NEW k \in Kinds \ {"dep"}, NEW object, Put(k, object) PROVE UNCHANGED store["dep"]
  BY <1>2, ObjectKinds DEF Put, ServerOK
<1>3. CASE NFWritten \/ ConfigMapWritten \/ ServiceWritten
  <2>1. \E k \in Kinds \ {"dep"} : \E object : Put(k, object)
    BY <1>3, ObjectKinds DEF NFWritten, ConfigMapWritten, ServiceWritten
  <2> QED BY <1>1, <1>2, <2>1
<1>4. ASSUME NEW k \in Kinds, Erase(k) PROVE UNCHANGED store["dep"]
  BY <1>4 DEF Erase, ServerOK
<1>5. CASE DeploymentWritten
  <2>1. ASSUME NEW object, Put("dep", object) PROVE store'["dep"] = object
    BY <2>1, ObjectKinds DEF Put, ServerOK
  <2>2. CASE pc = "create" /\ store["dep"] = None /\ \E ann, tmpl :
               Put("dep", [rv |-> NextRV("dep"), owner |-> ControlledBy(w.nf), ann |-> ann,
                           tmpl |-> tmpl, conds |-> <<>>, deleting |-> FALSE])
    BY <2>1, <2>2 DEF DeploymentCreated
  <2>3. CASE pc = "roll" /\ Put("dep", [w.dep EXCEPT !.rv = NextRV("dep"), !.ann = w.version])
    <3>1. w.dep \in Deployment /\ w.dep # None
      BY <2>3 DEF WorkerOK, Pass
    <3>2. store'["dep"] = [w.dep EXCEPT !.rv = NextRV("dep"), !.ann = w.version]
      BY <2>1, <2>3
    <3> QED BY <2>3, <3>1, <3>2 DEF DeploymentRolled, Deployment
  <2>4. CASE /\ pc = "update" /\ store["dep"] # None
             /\ \E object \in Deployment :
                  /\ object.owner = 0 /\ object.ann = w.version
                  /\ object.deleting = store["dep"].deleting
                  /\ Put("dep", object)
    BY <2>1, <2>4 DEF DeploymentUpdated
  <2>5. CASE /\ store["dep"] # None
             /\ \E conds : Put("dep", [store["dep"] EXCEPT !.rv = NextRV("dep"), !.conds = conds])
    <3>1. PICK conds : store'["dep"] = [store["dep"] EXCEPT !.rv = NextRV("dep"), !.conds = conds]
      BY <2>1, <2>5
    <3>2. store["dep"] \in Deployment
      BY <2>5, ObjectKinds DEF ServerOK
    <3> QED BY <2>5, <3>1, <3>2 DEF DeploymentKept, Deployment
  <2> QED BY <1>5, <2>2, <2>3, <2>4, <2>5 DEF DeploymentWritten, Undisturbed
<1> QED BY <1>1, <1>3, <1>4, <1>5, ServerStep DEF ServerUnchanged, Written, Updated

LEMMA StepFirstOwned ==
  ASSUME Undisturbed, TypeInv, UidsInv, LatestInv, Steady, FirstOwned, [Next]_vars
  PROVE  FirstOwned'
<1> SUFFICES ASSUME NEW i \in DOMAIN watch'["dep"], ShownBefore("dep", i)' = None
             PROVE  watch'["dep"][i].owner # 0
  BY DEF FirstOwned
<1>1. watch["dep"] \in Seq(Object("dep") \cup {None}) /\ Latest("dep") = store["dep"]
  BY ObjectKinds DEF LatestInv, TypeInv, ServerOK
<1>2. \A j \in DOMAIN watch["dep"] : ShownBefore("dep", j) = None => watch["dep"][j].owner # 0
  BY DEF FirstOwned
<1>3. CASE Untouched("dep")
  BY <1>2, <1>3 DEF Untouched, ShownBefore
<1>4. CASE Announced("dep")
  <2>1. CASE i = Len(watch["dep"]) + 1
    <3>1. watch'["dep"][i] = store'["dep"] /\ cache'["dep"] = cache["dep"]
      BY <1>1, <1>4, <2>1 DEF Announced
    <3>2. ShownBefore("dep", i)' = store["dep"]
      BY <1>1, <1>4, <2>1, <3>1 DEF Announced, ShownBefore, Latest, Last
    <3>3. store["dep"] = None /\ store'["dep"] # None
      BY <1>4, <3>2 DEF Announced
    <3>4. \A c \in Copies("dep") : c = None
      BY <3>3 DEF Steady
    <3>5. DeploymentCreated
      BY <3>3, <3>4, DeploymentStep
      DEF DeploymentRolled, DeploymentUpdated, DeploymentKept, Copies
    <3> QED BY <3>1, <3>5, OwnerKnown DEF DeploymentCreated
  <2>2. CASE i # Len(watch["dep"]) + 1
    <3>1. i \in DOMAIN watch["dep"] /\ watch'["dep"][i] = watch["dep"][i]
      BY <1>1, <1>4, <2>2 DEF Announced
    <3>2. ShownBefore("dep", i)' = ShownBefore("dep", i)
      BY <1>1, <1>4, <3>1 DEF Announced, ShownBefore
    <3> QED BY <1>2, <3>1, <3>2
  <2> QED BY <2>1, <2>2
<1>5. CASE Told("dep")
  <2>1. /\ i + 1 \in DOMAIN watch["dep"] /\ i \in Nat /\ i >= 1
        /\ watch'["dep"][i] = watch["dep"][i + 1]
    BY <1>1, <1>5 DEF Told
  <2>2. ShownBefore("dep", i)' = watch["dep"][i]
    BY <1>1, <1>5, <2>1 DEF Told, ShownBefore
  <2>3. ShownBefore("dep", i + 1) = watch["dep"][i]
    BY <2>1 DEF ShownBefore
  <2> QED BY <1>2, <2>1, <2>2, <2>3
<1>6. CASE Restart
  BY <1>6, ObjectKinds DEF Restart
<1> QED BY <1>3, <1>4, <1>5, <1>6, ChannelStep, ObjectKinds

-----------------------------------------------------------------------------
(* The passes of the two reconcilers *)

LEMMA KeepsService == ASSUME Undisturbed, ~ OnlyUpf PROVE ServiceKept
BY DEF Undisturbed, OnlySmf, ServiceKept, HasService

(* The spec that a pass works on is one for its reconciler, or for none. *)
LEMMA OneProvider ==
  ASSUME Undisturbed, TypeInv, PassOK, pc # "idle"
  PROVE  /\ w.provider \in {"upf", "smf"}
         /\ w.provider = "smf" => ~ OnlyUpf
         /\ \A spec \in Specs : spec.provider \in NFs => spec.provider = w.provider
<1>1. w.provider \in Providers
  BY ProviderKnown
<1> QED BY <1>1 DEF Undisturbed, OnlyUpf, OnlySmf, Providers

(* The ConfigMap is built from the Configs that the spec refers to. *)
LEMMA FetchedAlike ==
  ASSUME NEW nf \in NFs, NEW spec \in Specs, NEW fetched, NEW known,
         nf = "smf" => \A ref \in ToSet(spec.refs) : fetched[ref] = known[ref]
  PROVE  CreateConfigMap(nf, spec, fetched) = CreateConfigMap(nf, spec, known)
<1> DEFINE refs == DistinctRefs(spec.refs)
<1>1. CASE nf = "smf"
  <2>1. refs \in Seq(ConfigNames \cup {None}) /\ ToSet(refs) = ToSet(spec.refs)
    BY SpecsAssumption, DistinctRefsKept
  <2> HIDE DEF refs
  <2>2. \A r \in DOMAIN refs : fetched[refs[r]] = known[refs[r]]
    BY <1>1, <2>1 DEF ToSet
  <2>3. [r \in DOMAIN refs |-> fetched[refs[r]]] = [r \in DOMAIN refs |-> known[refs[r]]]
    BY <2>2
  <2> QED BY <1>1, <2>3 DEF CreateConfigMap, refs
<1>2. CASE nf # "smf"
  BY <1>2 DEF CreateConfigMap, NFs
<1> QED BY <1>1, <1>2

LEMMA ConfigsStay ==
  ASSUME "SetConfig" \notin UserOps, [Next]_vars PROVE UNCHANGED configs
<1>1. CASE Reconcile
  BY <1>1 DEF Reconcile, Dequeue, ReadState, SyncStatus, RollDeployment, FetchConfigRef,
     EnsureConfigMap, EnsureService, PlanDeployment, CheckNAD, CreateNewDeployment,
     UpdateDeployment, Panic, Restart, cluster
<1>2. CASE Crash
  BY <1>2 DEF Crash, Restart, cluster
<1>3. CASE User
  BY <1>3 DEF User, CreateNF, EditSpec, EditConfigMap, EditDeployment, MarkDeploymentDeleted,
     DeleteObject, ChangeNADs, SetConfig, ReportCondition, Operate, cluster
<1>4. CASE \/ \E k \in Kinds : Deliver(k) \/ GarbageCollect(k)
          \/ TimerFires \/ Resync \/ RemoveDeployment \/ UNCHANGED vars
  BY <1>4 DEF Deliver, GarbageCollect, TimerFires, Resync, RemoveDeployment, Unused, vars, cluster
<1> QED BY <1>1, <1>2, <1>3, <1>4 DEF Next

(* So what can be built stays so, as long as the spec does. *)
LEMMA BuildableStays ==
  ASSUME Undisturbed, TypeInv, [Next]_vars, UNCHANGED store["nf"],
         store["nf"] # None, Buildable(store["nf"])'
  PROVE  Buildable(store["nf"])
<1> DEFINE spec == store["nf"].spec
<1>1. spec \in Specs
  <2>1. store["nf"] \in NFObject
    BY ObjectKinds DEF TypeInv, ServerOK
  <2> QED BY <2>1 DEF NFObject
<1>2. CASE UNCHANGED configs
  BY <1>2 DEF Buildable
<1>3. CASE OnlyUpf
  <2>1. spec.provider = "upf"
    BY <1>1, <1>3 DEF Buildable, OnlyUpf, Providers
  <2>2. configs \in Sufficient("upf", spec)
    BY DEF TypeInv, ClusterOK, Sufficient
  <2> QED BY <2>1, <2>2 DEF Buildable, CreateConfigMap
<1> QED BY <1>2, <1>3, ConfigsStay DEF Undisturbed

(* The smf goes through its references in order, and what it fetched is     *)
(* what there is.                                                          *)
FetchedInv ==
  /\ pc \in {"read", "status", "roll"} => w.next = 1
  /\ pc \in {"read", "status", "roll", "refs"} =>
       \A c \in ConfigNames : w.fetched[c] \in {None, configs[c]}
  /\ pc = "refs" =>
       /\ w.next >= 1
       /\ \A i \in 1 .. Len(w.nf.spec.refs) : i < w.next =>
            LET ref == w.nf.spec.refs[i]
            IN  ref \in ConfigNames /\ w.fetched[ref] = configs[ref]
  /\ pc = "configmap" /\ w.provider = "smf" =>
       \A ref \in ToSet(w.nf.spec.refs) : w.fetched[ref] = configs[ref]

LEMMA FetchedBuilds ==
  ASSUME TypeInv, PassOK, pc = "configmap", w.provider = "smf" => FetchedInv
  PROVE  CreateConfigMap(w.provider, w.nf.spec, w.fetched)
           = CreateConfigMap(w.provider, w.nf.spec, configs)
<1>1. w.provider \in NFs /\ w.nf.spec \in Specs
  BY ProviderKnown DEF TypeInv, WorkerOK, Pass, NFObject
<1>2. w.provider = "smf" => \A ref \in ToSet(w.nf.spec.refs) : w.fetched[ref] = configs[ref]
  BY DEF FetchedInv
<1>3. \A nf \in NFs, spec \in Specs :
       (nf = "smf" => \A ref \in ToSet(spec.refs) : w.fetched[ref] = configs[ref])
       => CreateConfigMap(nf, spec, w.fetched) = CreateConfigMap(nf, spec, configs)
  BY FetchedAlike, ZenonT(40)
<1> QED BY <1>1, <1>2, <1>3, Zenon

LEMMA ReferencesListed ==
  ASSUME TypeInv, pc \notin {"idle", "read"}
  PROVE  w.nf.spec.refs \in Seq(ConfigNames \cup {None})
<1>1. w.nf.spec \in Specs
  BY DEF TypeInv, WorkerOK, Pass, NFObject
<1> QED BY <1>1, SpecsAssumption

LEMMA FetchedStep ==
  ASSUME UNCHANGED configs, TypeInv, FetchedInv, Advances("refs", "refs"), Fetches
  PROVE  FetchedInv'
<1> DEFINE refs == w.nf.spec.refs
<1>1. /\ pc = "refs" /\ pc' = "refs" /\ w'.nf = w.nf
      /\ w'.next = w.next + 1 /\ w'.fetched = Fetching
  BY DEF Advances, Carries, Fetches
<1>2. refs \in Seq(ConfigNames \cup {None}) /\ w.next \in Nat /\ w.next >= 1
  BY <1>1, ReferencesListed DEF TypeInv, WorkerOK, Pass, FetchedInv
<1>3. w.next \in 1 .. Len(refs) /\ NextRef = refs[w.next] /\ NextRef \in ConfigNames
  BY <1>2 DEF Fetches, NextRef
<1>4. \A c \in ConfigNames :
        Fetching[c] = IF c = NextRef THEN (IF w.fetched[c] = None THEN configs[c] ELSE w.fetched[c])
                      ELSE w.fetched[c]
  BY <1>1, <1>3 DEF Fetching, TypeInv, WorkerOK, Pass, FetchedConfigs
<1>5. \A c \in ConfigNames : w.fetched[c] \in {None, configs[c]}
  BY <1>1 DEF FetchedInv
<1>6. \A c \in ConfigNames : Fetching[c] \in {None, configs[c]}
  BY <1>4, <1>5
<1>7. ASSUME NEW i \in 1 .. Len(refs), i < w.next + 1
      PROVE  refs[i] \in ConfigNames /\ Fetching[refs[i]] = configs[refs[i]]
  <2>1. CASE i = w.next
    BY <1>3, <1>4, <1>5, <2>1
  <2>2. CASE i < w.next
    BY <1>1, <1>4, <1>5, <2>2 DEF FetchedInv
  <2> QED BY <1>2, <1>7, <2>1, <2>2
<1> HIDE DEF refs
<1>8. refs' = refs
  BY <1>1 DEF refs
<1> QED BY <1>1, <1>2, <1>6, <1>7, <1>8 DEF FetchedInv, refs

LEMMA StepFetchedInv ==
  ASSUME UNCHANGED configs, TypeInv, FetchedInv, [Next]_vars PROVE FetchedInv'
<1>1. CASE UNCHANGED <<pc, w>>
  BY <1>1 DEF FetchedInv
<1>2. CASE Restart \/ Ends
  BY <1>2 DEF Restart, Ends, FetchedInv
<1>3. CASE Starts
  <2>1. w'.next = 1 /\ w'.fetched = NothingFetched /\ pc' = "read"
    BY <1>3 DEF Starts, NoPass
  <2> QED BY <2>1 DEF NothingFetched, FetchedInv
<1>4. CASE Begins \/ Advances("roll", AfterDeployment(w.provider))
  <2>1. /\ pc \in {"read", "roll"} /\ pc' \in {"status", AfterDeployment(w'.provider)}
        /\ w'.next = w.next /\ w'.fetched = w.fetched
    BY <1>4 DEF Begins, Advances, Carries
  <2>2. w'.provider = "smf" => pc' \in {"status", "refs"}
    BY <2>1 DEF AfterDeployment
  <2>3. pc' \in {"status", "refs", "configmap"}
    BY <2>1, AfterDeploymentOK
  <2> QED BY <2>1, <2>2, <2>3 DEF FetchedInv
<1>5. CASE Advances("status", "roll")
  BY <1>5 DEF Advances, FetchedInv
<1>6. CASE Advances("refs", "refs") /\ Fetches
  BY <1>6, FetchedStep
<1>7. CASE Advances("refs", "configmap") /\ FetchedAll
  <2>1. \A i \in 1 .. Len(w.nf.spec.refs) :
          w.fetched[w.nf.spec.refs[i]] = configs[w.nf.spec.refs[i]]
    <3>1. w.nf.spec.refs \in Seq(ConfigNames \cup {None}) /\ w.next \in Nat
      BY <1>7, ReferencesListed DEF Advances, TypeInv, WorkerOK, Pass
    <3>2. pc = "refs" /\ w.next > Len(w.nf.spec.refs)
      BY <1>7 DEF Advances, FetchedAll
    <3> QED BY <3>1, <3>2 DEF FetchedInv
  <2>2. \A ref \in ToSet(w.nf.spec.refs) : w.fetched[ref] = configs[ref]
    <3>1. w.nf.spec.refs \in Seq(ConfigNames \cup {None})
      BY <1>7, ReferencesListed DEF Advances
    <3> TAKE ref \in ToSet(w.nf.spec.refs)
    <3>2. PICK i \in 1 .. Len(w.nf.spec.refs) : w.nf.spec.refs[i] = ref
      BY <3>1 DEF ToSet
    <3> QED BY <2>1, <3>2
  <2> QED BY <1>7, <2>2 DEF Advances, Carries, FetchedAll, FetchedInv
<1>8. CASE pc' \notin {"read", "status", "roll", "refs", "configmap"}
  BY <1>8 DEF FetchedInv
<1>9. CASE Configures
  BY <1>8, <1>9, AfterConfigMapOK DEF Configures
<1> QED BY <1>1, <1>2, <1>3, <1>4, <1>5, <1>6, <1>7, <1>8, <1>9, PassStep
        DEF Progress, Plans, Advances

LEMMA StepSteady ==
  ASSUME Undisturbed, TypeInv, UidsInv, OneLife, VersionsInv, OneConfigMap, Present, PassOK,
         Steady, [Next]_vars
  PROVE  Steady'
<1>1. store["cm"] # None => UNCHANGED store["cm"]
  BY ConfigMapStep
<1>2. store["dep"] # None => store'["dep"] # None
  BY Stays, ObjectKinds DEF Steady, Copies
<1>3. cache["cm"] # None => cache'["cm"] # None
  <2>1. CASE Told("cm")
    <3>1. watch["cm"] \in Seq(Object("cm") \cup {None}) /\ watch["cm"] # <<>>
      BY <2>1, ObjectKinds DEF Told, TypeInv, ServerOK
    <3>2. 1 \in DOMAIN watch["cm"] /\ Head(watch["cm"]) = watch["cm"][1]
      BY <3>1
    <3> QED BY <2>1, <3>2 DEF Told, Present, Watched
  <2>2. CASE Restart /\ UNCHANGED store
    BY <2>2 DEF Restart, OneConfigMap, Copies, Shown
  <2> QED BY <2>1, <2>2, ChannelStep, ObjectKinds DEF Untouched, Announced
<1>4. ASSUME store'["dep"] # None
      PROVE  /\ ~ store'["dep"].deleting /\ store'["cm"] # None
             /\ Free(store'["dep"]) => cache'["cm"] # None /\ store'["dep"].ann = store'["cm"].rv
  <2>1. CASE DeploymentCreated
    <3>1. w.version # 0
      BY <2>1 DEF DeploymentCreated, VersionsInv, AfterConfigMapSteps
    <3> QED BY <1>1, <2>1, <3>1, OwnerKnown DEF DeploymentCreated, OneConfigMap, Free
  <2>2. CASE DeploymentRolled
    BY <1>1, <1>3, <2>2 DEF DeploymentRolled, Steady, Copies, Free
  <2>3. CASE DeploymentUpdated
    <3>1. w.version # 0 /\ w.dep # None
      BY <2>3 DEF DeploymentUpdated, VersionsInv, AfterConfigMapSteps, TypeInv, WorkerOK
    <3> QED BY <1>1, <1>3, <2>3, <3>1 DEF DeploymentUpdated, Steady, Copies, OneConfigMap
  <2>4. CASE DeploymentKept
    BY <1>1, <1>3, <2>4 DEF DeploymentKept, Steady, Copies, Free
  <2> QED BY <1>4, <2>1, <2>2, <2>3, <2>4, DeploymentStep
<1>5. ASSUME NEW c \in Copies("dep")', c # None
      PROVE  /\ ~ c.deleting /\ store'["cm"] # None /\ store'["dep"] # None
             /\ Free(c) => cache'["cm"] # None /\ c.ann = store'["cm"].rv
  <2>1. c \in Copies("dep") \/ c = store'["dep"]
    BY <1>5, CopiesStep, ObjectKinds
  <2> QED BY <1>1, <1>2, <1>3, <1>4, <1>5, <2>1 DEF Steady
<1>6. /\ Free(w'.dep) => w'.version = store'["cm"].rv
      /\ w'.version # 0 /\ w'.dep # None => cache'["cm"] # None
  <2>1. cache["dep"] \in Copies("dep") /\ w.dep \in Copies("dep") /\ cache["cm"] \in Copies("cm")
    BY DEF Copies, Shown
  <2>2. CASE w'.dep = w.dep /\ w'.version = w.version
    BY <1>1, <1>3, <2>1, <2>2 DEF Steady, Free
  <2>3. CASE w'.dep = None
    BY <2>3 DEF Free
  <2>4. CASE Begins
    BY <1>1, <1>3, <2>1, <2>4 DEF Begins, Steady, OneConfigMap, Version, Free
  <2>5. CASE Configures
    <3>1. w'.version = w.version \/ w.dep = None
      BY <2>1, <2>5 DEF Configures, Steady
    <3> QED BY <2>2, <2>3, <2>5, <3>1 DEF Configures, Carries
  <2>6. Restart \/ Ends \/ Starts => w'.dep = None
    BY DEF Restart, Ends, Starts, NoPass
  <2> QED BY <2>2, <2>3, <2>4, <2>5, <2>6, PassStep DEF Progress, Plans, Advances, Carries
<1> QED BY <1>5, <1>6 DEF Steady

-----------------------------------------------------------------------------
(* A pass that nothing wakes up again has seen everything *)

AlikeDeployments(c, d) == c = d \/ (Free(c) /\ Free(d))

(* The worker falls asleep only by looking, or in a new process. While it   *)
(* sleeps nothing happens but to a Deployment without controller.          *)
LEMMA Asleep ==
  ASSUME TypeInv, ConfigAndServiceCopiesOwned, Present, FirstOwned, [Next]_vars,
         ~ Awake', ~ Dequeue, ~ Restart
  PROVE  /\ ~ Awake /\ Untouched("nf") /\ Untouched("cm")
         /\ Untouched("dep") \/ (Free(cache["dep"]) /\ Free(cache'["dep"]))
<1>1. ~ queued /\ ~ timer
  BY QueueStep DEF Awake, TimerFires
<1>2. ASSUME NEW k \in {"nf", "cm", "dep"}, Told(k)
      PROVE  /\ ~ Relevant(k, cache[k], Head(watch[k]))
             /\ Head(watch[k]) # None /\ Head(watch[k]) \in Copies(k)
             /\ k = "dep" /\ cache["dep"] = None => Head(watch["dep"]).owner # 0
  <2>1. watch[k] \in Seq(Object(k) \cup {None}) /\ watch[k] # <<>>
    BY <1>2, ObjectKinds DEF TypeInv, ServerOK, Told
  <2>2. 1 \in DOMAIN watch[k] /\ Head(watch[k]) = watch[k][1]
    BY <2>1
  <2> QED BY <1>2, <2>2 DEF Told, Deliver, Awake, Present, FirstOwned, ShownBefore, Watched,
             Copies, Shown
<1>3. ASSUME NEW k \in {"nf", "cm"} PROVE watch[k] = <<>> /\ Untouched(k)
  <2>1. watch'[k] = <<>>
    BY DEF Awake
  <2>2. ~ Announced(k)
    <3>1. watch[k] \in Seq(Object(k) \cup {None})
      BY ObjectKinds DEF TypeInv, ServerOK
    <3> QED BY <2>1, <3>1 DEF Announced
  <2>3. ~ Told(k)
    BY <1>2, ObjectKinds DEF Relevant, OwnedKinds, ConfigAndServiceCopiesOwned
  <2> QED BY <2>1, <2>2, <2>3, ChannelStep, ObjectKinds DEF Untouched
<1>4. CASE Untouched("dep")
  BY <1>1, <1>3, <1>4 DEF Awake, Untouched
<1>5. CASE Announced("dep")
  <2>1. watch'["dep"] # <<>>
    <3>1. watch["dep"] \in Seq(Object("dep") \cup {None})
      BY ObjectKinds DEF TypeInv, ServerOK
    <3> QED BY <1>5, <3>1 DEF Announced
  <2> QED BY <1>1, <1>3, <1>5, <2>1 DEF Awake, Announced
<1>6. CASE Told("dep")
  <2>1. Free(cache["dep"]) /\ Free(cache'["dep"])
    BY <1>2, <1>6 DEF Relevant, OwnedKinds, Told, Free
  <2> QED BY <1>1, <1>3, <2>1 DEF Awake
<1> QED BY <1>3, <1>4, <1>5, <1>6, ChannelStep, ObjectKinds

(* What a pass has seen by the time it comes to a step. *)
Fresh ==
  ~ Awake =>
    /\ pc = "read" => cache["nf"] # None
    /\ pc \notin {"idle", "read"} =>
         w.nf = cache["nf"] /\ AlikeDeployments(w.dep, cache["dep"])
    /\ pc \in {"status", "roll", "refs", "configmap", "service", "plan", "update"} =>
         w.version = Version(cache["cm"])

(* What the last pass leaves behind, unless the spec cannot be built. *)
InPlace ==
  LET spec == store["nf"].spec
  IN  /\ store["cm"] # None /\ store["dep"] # None
      /\ store["dep"].ann = store["cm"].rv
      /\ store["dep"].tmpl = CreateDeployment(spec.provider, spec).val
Settled ==
  ~ Awake /\ pc = "idle" /\ store["nf"] # None /\ Buildable(store["nf"]) => InPlace

QuietInv ==
  /\ TypeInv /\ CopiesInv /\ UidsInv /\ VersionsInv /\ ConfigAndServiceCopiesOwned
  /\ LatestInv /\ OneLife /\ Positive /\ OneConfigMap /\ Present /\ FirstOwned /\ Steady
  /\ PassOK /\ Fresh /\ Settled
  /\ ~ OnlyUpf => FetchedInv /\ PlanOK /\ Served /\ ServiceLag

(* What can be built from the spec that is stored, a pass would have seen. *)
LEMMA BuildableSeen ==
  ASSUME Undisturbed, QuietInv, ~ Awake, pc \notin {"idle", "read"}, Buildable(store["nf"])
  PROVE  /\ configs \in Sufficient(w.provider, w.nf.spec)
         /\ CreateConfigMap(w.provider, w.nf.spec, configs).out = "ok"
         /\ Planned.out = "ok"
<1>1. w.nf = store["nf"] /\ w.nf.spec \in Specs
  BY ObjectKinds
  DEF QuietInv, Fresh, Awake, LatestInv, Latest, TypeInv, WorkerOK, Pass, NFObject
<1>2. w.provider = w.nf.spec.provider
  BY <1>1, OneProvider DEF QuietInv, Buildable
<1> QED BY <1>1, <1>2 DEF Buildable, Planned

LEMMA SleepingPass ==
  ASSUME Undisturbed, QuietInv, Reconcile, ~ Restart, ~ Dequeue, ~ Awake, ~ Awake',
         Untouched("nf"), Untouched("cm"),
         Untouched("dep") \/ (Free(cache["dep"]) /\ Free(cache'["dep"]))
  PROVE  Fresh' /\ Settled'
<1> USE DEF QuietInv
<1>1. ~ queued' /\ ~ timer'
  BY DEF Awake
<1>2. /\ cache["nf"] = store["nf"] /\ cache["cm"] = store["cm"]
      /\ ~ Free(cache["dep"]) => cache["dep"] = store["dep"]
      /\ UNCHANGED <<store["nf"], store["cm"], cache["nf"], cache["cm"]>>
  BY ObjectKinds DEF Awake, Untouched, LatestInv, Latest
<1>3. w \in Pass
  BY DEF TypeInv, WorkerOK
<1>4. pc # "idle" => ~ LeavesExisting(w.provider)
  BY OneProvider DEF LeavesExisting
<1>5. ~ ReturnRequeue /\ ~ ReturnRequeueAfter /\ ~ Panic
  BY <1>1 DEF ReturnRequeue, ReturnRequeueAfter, Panic
<1>6. ASSUME NEW k \in {"nf", "cm"}, NEW accepted, NEW object, NEW ACTION Done, NEW ACTION Fail,
             Write(k, accepted, object, Done, Fail)
      PROVE  ~ accepted /\ Fail
  BY <1>6, Refused, ObjectKinds DEF Undisturbed
<1>7. AlikeDeployments(cache["dep"], cache'["dep"])
  BY DEF Untouched, AlikeDeployments
<1>8. CASE ReadState
  <2>1. /\ w'.nf = cache["nf"] /\ w'.dep = cache["dep"] /\ w'.version = Version(cache["cm"])
        /\ pc' \in {"status", "refs", "configmap"}
    BY <1>3, <1>8, AfterDeploymentOK DEF ReadState, Fresh, Pass, Goto
  <2> QED BY <1>2, <1>7, <2>1 DEF Fresh, Settled
<1>9. ASSUME pc \notin {"idle", "read"}, NEW to, Advances(pc, to), to # "idle", to # "read",
             to \in {"nad", "create"} \/ pc \notin {"nad", "create"}
      PROVE  Fresh' /\ Settled'
  <2>1. pc \in Steps
    BY DEF TypeInv, WorkerOK
  <2> QED BY <1>2, <1>7, <1>9, <2>1 DEF Advances, Carries, Fresh, Settled, AlikeDeployments, Steps
<1>10. ASSUME NEW step, Proceed(step) PROVE Advances(pc, step)
  BY <1>10 DEF Proceed, Goto, Advances, Carries
<1>11. ASSUME pc \notin {"idle", "read"}, Return, UNCHANGED configs, ~ Buildable(store["nf"])
       PROVE  Fresh' /\ Settled'
  <2>1. ~ Buildable(store["nf"])'
    BY <1>2, <1>11 DEF Buildable
  <2> QED BY <1>11, <2>1 DEF Return, Fresh, Settled
<1>12. CASE SyncStatus
  <2>1. SameVersion("nf", w.nf)
    BY <1>2, <1>12 DEF SyncStatus, Fresh, SameVersion, TypeInv, WorkerOK
  <2>2. Proceed("roll")
    BY <1>6, <1>12, <2>1 DEF SyncStatus
  <2> QED BY <1>9, <1>10, <1>12, <2>2 DEF SyncStatus
<1>13. CASE RollDeployment
  <2>1. CASE Free(w.dep)
    <3>1. Annotation(w.dep) = w.version
      <4>1. w.dep.ann = store["cm"].rv /\ store["cm"] # None /\ w.version = store["cm"].rv
        BY <2>1 DEF Steady, Copies, Free
      <4>2. store["cm"].rv \in Nat
        BY <4>1, ObjectKinds, ObjectVersions DEF TypeInv, ServerOK
      <4> QED BY <4>1, <4>2, NoneAssumption DEF Annotation
    <3> QED BY <1>9, <1>10, <1>13, <3>1, AfterDeploymentOK DEF RollDeployment
  <2>2. CASE ~ Free(w.dep)
    <3>1. w.dep = store["dep"] /\ SameVersion("dep", w.dep)
      BY <1>2, <1>13, <2>2
      DEF RollDeployment, Fresh, AlikeDeployments, SameVersion, TypeInv, WorkerOK
    <3>2. Annotation(w.dep) = w.version
      BY <1>5, <1>13, <3>1, NoFault DEF RollDeployment, Write, Undisturbed
    <3> QED BY <1>9, <1>10, <1>13, <3>2, AfterDeploymentOK DEF RollDeployment
  <2> QED BY <2>1, <2>2
<1>14. CASE FetchConfigRef
  <2>1. pc = "refs" /\ UNCHANGED configs
    BY <1>5, <1>14 DEF FetchConfigRef, cluster
  <2>2. CASE Return
    <3> DEFINE refs == w.nf.spec.refs
    <3>1. ~ (w.next > Len(refs)) /\ configs[NextRef] = None
      BY <1>5, <1>14, <2>2 DEF FetchConfigRef, Return, Goto, NextRef
    <3>2. refs \in Seq(ConfigNames \cup {None}) /\ w.next \in Nat /\ w.next >= 1
      <4>1. w.provider = "smf"
        BY <2>1 DEF PassOK
      <4> QED BY <1>3, <2>1, <4>1, OneProvider, ReferencesListed DEF FetchedInv, Pass
    <3>3. NextRef \in ToSet(refs)
      BY <3>1, <3>2 DEF NextRef, ToSet
    <3>4. ~ Buildable(store["nf"])
      BY <2>1, <3>1, <3>3, BuildableSeen DEF PassOK, Sufficient
    <3> QED BY <1>11, <2>1, <2>2, <3>4
  <2> QED BY <1>5, <1>9, <1>14, <2>1, <2>2, FetchStep
<1>15. CASE EnsureConfigMap
  <2>1. pc = "configmap" /\ w.version = Version(cache["cm"])
    BY <1>15 DEF EnsureConfigMap, Fresh
  <2>2. store["cm"] # None => w.version # 0
    BY <1>2, <2>1 DEF Version, Positive, Copies
  <2>3. CASE Proceed(AfterConfigMap(w.provider))
    BY <1>9, <1>10, <2>1, <2>3, AfterConfigMapOK
  <2>4. CASE /\ CreateConfigMap(w.provider, w.nf.spec, w.fetched).out = "error"
             /\ Return /\ UNCHANGED cluster
    <3>1. CreateConfigMap(w.provider, w.nf.spec, w.fetched)
            = CreateConfigMap(w.provider, w.nf.spec, configs)
      BY <2>1, OneProvider, FetchedBuilds
    <3>2. ~ Buildable(store["nf"])
      BY <2>1, <2>4, <3>1, BuildableSeen
    <3> QED BY <1>11, <2>1, <2>4, <3>2 DEF cluster
  <2> QED BY <1>5, <1>6, <1>15, <2>2, <2>3, <2>4 DEF EnsureConfigMap
<1>16. CASE EnsureService
  <2>1. pc = "service" /\ ~ OnlyUpf
    BY <1>16, OneProvider DEF EnsureService, PassOK, HasService
  <2>2. ~ w.svcFound => store["svc"] = None
    BY <2>1 DEF ServiceLag, Awake
  <2>3. Proceed("plan")
    BY <1>16, <2>2, NoFault DEF EnsureService, Write, Undisturbed
  <2> QED BY <1>9, <1>10, <2>1, <2>3
<1>17. CASE PlanDeployment
  <2>1. pc = "plan" /\ UNCHANGED configs
    BY <1>5, <1>17 DEF PlanDeployment, cluster
  <2>2. CASE Return /\ Planned.out = "error"
    <3>1. ~ Buildable(store["nf"])
      BY <2>1, <2>2, BuildableSeen
    <3> QED BY <1>11, <2>1, <2>2, <3>1
  <2>3. CASE Proceed("nad") \/ Proceed("update")
    BY <1>9, <1>10, <2>1, <2>3
  <2> QED BY <1>4, <1>5, <1>17, <2>1, <2>2, <2>3 DEF PlanDeployment
<1>18. CASE CheckNAD
  <2>1. w' = [w EXCEPT !.next = @ + 1] /\ Goto("nad") => Advances("nad", "nad") /\ pc = "nad"
    BY <1>3, <1>18 DEF CheckNAD, Goto, Advances, Carries, Pass
  <2> QED BY <1>5, <1>9, <1>10, <1>18, <2>1 DEF CheckNAD
<1>19. ~ CreateNewDeployment
  BY <1>5 DEF CreateNewDeployment, Write
<1>20. CASE UpdateDeployment
  <2> DEFINE object == [store["dep"] EXCEPT !.owner = 0, !.ann = w.version, !.tmpl = Planned.val]
             new    == [object EXCEPT !.rv = NextRV("dep")]
  <2>1. /\ pc' = "idle"
        /\ \/ UNCHANGED store /\ (store["dep"] = None \/ store["dep"] = object)
           \/ Put("dep", new)
    BY <1>20, NoFault DEF UpdateDeployment, Write, Return, server, Undisturbed
  <2>2. w.dep # None /\ w.version = Version(store["cm"]) /\ w.version # 0 /\ w.nf = store["nf"]
    BY <1>2, <1>20
    DEF UpdateDeployment, Fresh, TypeInv, WorkerOK, VersionsInv, AfterConfigMapSteps
  <2>3. store["cm"] # None /\ store["cm"].rv = w.version
    BY <2>2 DEF Version
  <2>4. store["dep"] # None /\ store["dep"] \in Deployment
    BY <2>2, ObjectKinds DEF Steady, Copies, TypeInv, ServerOK
  <2>5. store'["dep"] \in {object, new}
    BY <2>1, <2>4, ObjectKinds DEF Put, TypeInv, ServerOK
  <2>6. /\ object.ann = w.version /\ object.tmpl = Planned.val
        /\ new.ann = w.version /\ new.tmpl = Planned.val
    BY <2>4 DEF Deployment
  <2>7. store'["dep"] # None
    BY <2>4, Stays, ObjectKinds DEF Steady, Copies, Next
  <2> HIDE DEF object, new
  <2>8. Buildable(store["nf"])' => InPlace'
    <3>1. Buildable(store["nf"])' => w.provider = store'["nf"].spec.provider
      BY <1>2, <1>20, <2>2, OneProvider
      DEF Buildable, UpdateDeployment, TypeInv, WorkerOK, Pass, NFObject
    <3> QED BY <1>2, <1>20, <2>2, <2>3, <2>5, <2>6, <2>7, <3>1 DEF InPlace, Planned
  <2> QED BY <2>1, <2>8 DEF Fresh, Settled
<1> QED BY <1>8, <1>12, <1>13, <1>14, <1>15, <1>16, <1>17, <1>18, <1>19, <1>20 DEF Reconcile

LEMMA StepFreshSettled ==
  ASSUME Undisturbed, QuietInv, [Next]_vars PROVE Fresh' /\ Settled'
<1> USE DEF QuietInv
<1> SUFFICES ASSUME ~ Awake' PROVE Fresh' /\ Settled'
  BY DEF Fresh, Settled
<1>1. CASE Restart
  <2>1. ~ Listed /\ UNCHANGED store
    BY <1>1 DEF Restart, Awake
  <2>2. store["nf"] = None
    BY <2>1, ObjectKinds DEF Listed, Relevant
  <2> QED BY <1>1, <2>1, <2>2 DEF Restart, Fresh, Settled
<1>2. CASE Dequeue
  <2>1. store'["nf"] = cache["nf"]
    <3>1. watch["nf"] = <<>> /\ UNCHANGED store
      BY <1>2 DEF Dequeue, server, Awake
    <3> QED BY <3>1, ObjectKinds DEF LatestInv, Latest
  <2>2. Buildable(store["nf"])' => cache["nf"].spec.provider \in NFs
    BY <2>1 DEF Buildable
  <2> QED BY <1>2, <2>1, <2>2 DEF Dequeue, Fresh, Settled
<1>3. CASE ~ Restart /\ ~ Dequeue
  <2>1. /\ ~ Awake /\ Untouched("nf") /\ Untouched("cm")
        /\ Untouched("dep") \/ (Free(cache["dep"]) /\ Free(cache'["dep"]))
    BY <1>3, Asleep
  <2>2. CASE Reconcile
    BY <1>3, <2>1, <2>2, SleepingPass
  <2>3. CASE UNCHANGED <<pc, w>>
    <3>1. Fresh'
      BY <2>1, <2>3 DEF Untouched, Fresh, AlikeDeployments
    <3>2. ASSUME pc = "idle", store["dep"] # None
          PROVE  /\ store'["dep"] # None
                 /\ store'["dep"].ann = store["dep"].ann /\ store'["dep"].tmpl = store["dep"].tmpl
      <4>1. store'["dep"] # None
        BY <3>2, Stays, ObjectKinds DEF Steady, Copies
      <4> QED BY <3>2, <4>1, DeploymentStep
              DEF DeploymentCreated, DeploymentRolled, DeploymentUpdated, DeploymentKept
    <3>3. Settled'
      BY <2>1, <2>3, <3>2, BuildableStays DEF Untouched, Settled, InPlace
    <3> QED BY <3>1, <3>3
  <2> QED BY <1>3, <2>2, <2>3, OutsideStep
<1> QED BY <1>1, <1>2, <1>3

-----------------------------------------------------------------------------
(* At rest everything is in place *)

LEMMA InitQuietInv == Init => QuietInv
<1> SUFFICES ASSUME Init PROVE QuietInv
  OBVIOUS
<1>1. \A k \in Kinds : \A c \in Copies(k) : c = None
  BY InitCopies
<1>2. /\ CopiesInv /\ UidsInv /\ ConfigAndServiceCopiesOwned /\ OneLife /\ Positive
  BY <1>1, ObjectKinds
  DEF CopiesInv, NoNewer, UidsInv, ConfigAndServiceCopiesOwned, OneLife, Positive
<1>3. w.version = 0 /\ w.dep = None /\ pc = "idle"
  BY DEF Init, NoPass
<1>4. VersionsInv /\ OneConfigMap /\ Steady
  BY <1>1, <1>3, ObjectKinds
  DEF VersionsInv, AfterConfigMapSteps, Init, OneConfigMap, Steady, Free
<1>5. LatestInv /\ Present /\ FirstOwned
  BY ObjectKinds DEF Init, LatestInv, Latest, Present, FirstOwned, Watched
<1>6. PassOK /\ Fresh /\ Settled
  BY NoneAssumption, ObjectKinds DEF Init, PassOK, NoPass, Fresh, Settled
<1>7. FetchedInv /\ PlanOK /\ Served /\ ServiceLag
  BY <1>1, ObjectKinds DEF Init, FetchedInv, PlanOK, Served, ServiceLag, NoPass
<1> QED BY <1>2, <1>4, <1>5, <1>6, <1>7, InitTypeInv DEF QuietInv

(* The inductive invariant: whenever nothing is on its way that would wake  *)
(* the worker, only the update of the Deployment is left to do (Fresh), or *)
(* that is done (Settled); the other parts say why a Deployment read long  *)
(* ago does no harm (Reconcile of the upf package).                        *)
THEOREM QuietInvInvariant == ASSUME Undisturbed PROVE Spec => []QuietInv
<1>1. Init => QuietInv
  BY InitQuietInv
<1>2. QuietInv /\ [Next]_vars => QuietInv'
  <2> SUFFICES ASSUME QuietInv, [Next]_vars PROVE QuietInv'
    OBVIOUS
  <2>1. TypeInv' /\ CopiesInv' /\ UidsInv' /\ VersionsInv' /\ ConfigAndServiceCopiesOwned'
    BY StepTypeInv, StepCopiesInv, StepUidsInv, StepVersionsInv, OwnedStep DEF QuietInv
  <2>2. LatestInv' /\ OneLife' /\ Positive'
    BY StepLatestInv, StepOneLife, StepPositive DEF QuietInv, Undisturbed
  <2>3. OneConfigMap' /\ Present' /\ FirstOwned' /\ Steady'
    BY StepOneConfigMap, StepPresent, StepFirstOwned, StepSteady DEF QuietInv
  <2>4. PassOK' /\ Fresh' /\ Settled'
    BY StepPassOK, StepFreshSettled DEF QuietInv
  <2>5. ASSUME ~ OnlyUpf PROVE FetchedInv' /\ PlanOK' /\ Served' /\ ServiceLag'
    <3>1. ServiceKept /\ NoneHalfBuilt /\ UNCHANGED configs
      BY <2>5, KeepsService, ConfigsStay DEF Undisturbed
    <3> QED BY <2>5, <3>1, StepFetchedInv, StepPlanOK, StepServed, StepServiceLag DEF QuietInv
  <2> QED BY <2>1, <2>2, <2>3, <2>4, <2>5 DEF QuietInv
<1> QED BY <1>1, <1>2, PTL DEF Spec

LEMMA AtRest ==
  ASSUME QuietInv, Quiet, store["nf"] # None, Buildable(store["nf"]) PROVE InPlace
<1>1. ~ Awake
  BY ObjectKinds DEF Quiet, Awake, AllDelivered
<1> QED BY <1>1 DEF QuietInv, Settled, Quiet

(* At rest the ConfigMap exists, and a Deployment annotated with its        *)
(* version, although every pass may work on a Deployment that it read long *)
(* ago (Reconcile of the upf and of the smf package).                      *)
THEOREM UpdatingRestsConfigured == ASSUME Undisturbed PROVE Spec => []QuietConfigured
<1>1. QuietInv => QuietConfigured
  BY AtRest DEF QuietConfigured, QuietWith, InPlace
<1> QED BY <1>1, QuietInvInvariant, PTL

(* ... and the Deployment is the one that the present spec asks for, though *)
(* no event of it wakes the worker any more.                               *)
THEOREM UpdatingRestsBuilt == ASSUME Undisturbed PROVE Spec => []QuietBuilt
<1>1. QuietInv => QuietBuilt
  BY AtRest DEF QuietBuilt, QuietWith, InPlace
<1> QED BY <1>1, QuietInvInvariant, PTL

(* ... and the Service of an smf exists, though Services are not watched.   *)
THEOREM UpdatingRestsServed == ASSUME Undisturbed PROVE Spec => []QuietServed
<1>1. ASSUME QuietInv PROVE QuietServed
  <2> SUFFICES ASSUME Quiet, store["nf"] # None, Buildable(store["nf"]),
                      store["nf"].spec.provider \in HasService
               PROVE  store["svc"] # None
    BY DEF QuietServed, QuietWith
  <2>1. store["dep"] # None
    BY <1>1, AtRest DEF InPlace
  <2>2. ~ OnlyUpf
    <3>1. store["nf"].spec \in Specs
      <4>1. store["nf"] \in NFObject
        BY <1>1, ObjectKinds DEF QuietInv, TypeInv, ServerOK
      <4> QED BY <4>1 DEF NFObject
    <3> QED BY <3>1 DEF OnlyUpf, Providers, HasService, NFs
  <2> QED BY <1>1, <2>1, <2>2 DEF QuietInv, Served, Copies
<1> QED BY <1>1, QuietInvInvariant, PTL

===============================================================================
