---------------------------- MODULE NFReconciler ----------------------------
(***************************************************************************)
(* One NFDeployment under the free5gc operator: the controller with its    *)
(* work queue, its informer caches and its one worker, the reconcilers of  *)
(* the amf, smf and upf packages, and the API server they talk to.         *)
(*                                                                         *)
(* The API server holds at most one object per kind under the NFDeployment *)
(* name. Every write appends an event to the watch of its kind; the caches *)
(* follow the watches independently of one another. The reconcilers read   *)
(* the caches and write the server, one call per step, so that anything    *)
(* may happen between a read and the write it leads to.                    *)
(***************************************************************************)
EXTENDS NFStatus, NFResources, FiniteSets

CONSTANTS
  Specs,         \* the specs users give the NFDeployment
  ConfigNames,   \* the names of ref.nephio.org Configs
  ConfigValues,  \* what a Config may hold
  NADs,          \* NetworkAttachmentDefinitions, by the interface they serve
  Reports,       \* the conditions the Deployment controller reports
  Edited,        \* a ConfigMap's content or a pod template that somebody edited
  UserOps,       \* the operations users and the cluster may perform
  MaxOps,        \* bound on the operations of users and of the cluster
  MaxFaults,     \* bound on the API calls that fail
  MaxCrashes,    \* bound on the crashes that no panic causes
  MaxConditions, \* bound on the length of the reported status
  PromptWatch    \* whether events arrive and passes end before what takes longer
                 \* happens: the timers of 10 s and 30 s, the garbage
                 \* collector, the resync of 10 h

ASSUME BoundsAssumption ==
  /\ {MaxOps, MaxFaults, MaxCrashes, MaxConditions} \subseteq Nat
  /\ PromptWatch \in BOOLEAN
ASSUME ConditionsAssumption == Reports \subseteq DeploymentConditions

VARIABLES
  store,    \* the API server: kind -> object or None
  issued,   \* the last resource version issued per kind
  watch,    \* events on their way to the caches, per kind
  cache,    \* the informer caches
  nads,     \* the NetworkAttachmentDefinitions that exist, read live
  configs,  \* the Configs as the operator's cache shows them
  queued,   \* whether the work queue holds the NFDeployment's key
  timer,    \* whether the key is waiting out a RequeueAfter
  pc,       \* what the worker does next
  w,        \* the local variables of Reconcile
  spent     \* operations, faults and crashes so far

server  == <<store, issued, watch>>
cluster == <<nads, configs>>
vars    == <<server, cache, cluster, queued, timer, pc, w, spent>>

Kinds == {"nf", "cm", "svc", "dep"}

(* SetupWithManager: For(NFDeployment), Owns(Deployment), Owns(ConfigMap). *)
OwnedKinds == {"dep", "cm"}

FetchedConfigs == [ConfigNames -> ConfigValues \cup {None}]

(* The smf builds only after it fetched every Config its spec refers to. *)
Sufficient(nf, spec) ==
  {fetched \in FetchedConfigs :
     nf = "smf" => \A ref \in ToSet(spec.refs) : ref # None /\ fetched[ref] # None}

NFObject  == [rv : Nat, uid : Nat, spec : Specs, conds : Seq(NFConditionTypes)]
Content   == [nf : NFs, spec : Specs, fetched : FetchedConfigs]
ConfigMap == [rv : Nat, owner : Nat, data : Content \cup {Edited}]
Service   == [rv : Nat, owner : Nat]
Templates == {CreateDeployment(nf, spec).val : nf \in NFs, spec \in Specs}
Deployment == [rv : Nat, owner : Nat, ann : Nat \cup {None}, tmpl : Templates \cup {Edited},
               conds : Seq(DeploymentConditions), deleting : BOOLEAN]

(* owner is the uid of the controlling NFDeployment, 0 without controller *)
(* reference; ann is the configMapVersion annotation of the pod template,  *)
(* 0 for the empty string, None if the template has no annotations at all. *)
Object(k) == CASE k = "nf" -> NFObject [] k = "cm" -> ConfigMap
               [] k = "svc" -> Service [] k = "dep" -> Deployment

ASSUME NoneAssumption == None \notin NFs \cup Nat /\ \A k \in Kinds : None \notin Object(k)

(* The interfaces of a spec and its references are slices, Go's sequences. *)
ASSUME SpecsAssumption ==
  \A spec \in Specs :
    /\ spec.interfaces \in Seq(ToSet(spec.interfaces))
    /\ spec.refs \in Seq(ConfigNames \cup {None})

NothingFetched == [c \in ConfigNames |-> None]
NoPass == [provider |-> None, nf |-> None, version |-> 0, svcFound |-> FALSE,
           dep |-> None, fetched |-> NothingFetched, next |-> 1]

Steps == {"idle", "read", "status", "roll", "refs", "configmap", "service",
          "plan", "nad", "create", "update"}

TypeOK ==
  /\ DOMAIN store = Kinds /\ \A k \in Kinds : store[k] \in Object(k) \cup {None}
  /\ issued \in [Kinds -> Nat]
  /\ DOMAIN watch = Kinds /\ \A k \in Kinds : watch[k] \in Seq(Object(k) \cup {None})
  /\ DOMAIN cache = Kinds /\ \A k \in Kinds : cache[k] \in Object(k) \cup {None}
  /\ nads \subseteq NADs
  /\ configs \in FetchedConfigs
  /\ queued \in BOOLEAN
  /\ timer \in BOOLEAN
  /\ pc \in Steps
  /\ w \in [provider : NFs \cup {None}, nf : NFObject \cup {None}, version : Nat,
            svcFound : BOOLEAN, dep : Deployment \cup {None},
            fetched : FetchedConfigs, next : Nat]
  /\ spent \in [ops : Nat, faults : Nat, crashes : Nat]

-----------------------------------------------------------------------------
(* The API server *)

NextRV(k) == issued[k] + 1

(* Every write of an object carries a new resource version and is watched. *)
Put(k, object) ==
  /\ store'  = [store EXCEPT ![k] = object]
  /\ issued' = [issued EXCEPT ![k] = NextRV(k)]
  /\ watch'  = [watch EXCEPT ![k] = Append(@, object)]

Erase(k) ==
  /\ store[k] # None
  /\ store' = [store EXCEPT ![k] = None]
  /\ watch' = [watch EXCEPT ![k] = Append(@, None)]
  /\ UNCHANGED issued

(* The optimistic lock of an update that carries a resource version. *)
SameVersion(k, read) == store[k] # None /\ store[k].rv = read.rv

SpendFault == /\ spent.faults < MaxFaults
              /\ spent' = [spent EXCEPT !.faults = @ + 1]

(* A write of the operator: the server takes it or rejects it, or the call *)
(* fails on the way, before or after the server applied it.                *)
Write(k, accepted, object, Done, Fail) ==
  \/ accepted /\ Put(k, object) /\ Done /\ UNCHANGED spent
  \/ ~ accepted /\ UNCHANGED server /\ Fail /\ UNCHANGED spent
  \/ UNCHANGED server /\ Fail /\ SpendFault
  \/ accepted /\ Put(k, object) /\ Fail /\ SpendFault

-----------------------------------------------------------------------------
(* The controller: queue, caches and the wrapper around each pass *)

(* Return from a pass. The errors of the sub-reconcilers do not reach the  *)
(* controller, so an error is a zero Result: the key is forgotten.         *)
Return ==
  /\ pc' = "idle" /\ w' = NoPass
  /\ UNCHANGED <<queued, timer>>

ReturnRequeue == pc' = "idle" /\ w' = NoPass /\ queued' = TRUE /\ UNCHANGED timer
ReturnRequeueAfter == pc' = "idle" /\ w' = NoPass /\ timer' = TRUE /\ UNCHANGED queued

Goto(step) == pc' = step /\ UNCHANGED <<queued, timer>>
Proceed(step) == Goto(step) /\ UNCHANGED w

(* Mutant: the event handlers look at the new object only. *)
RelevantByNew(k, old, new) == k = "nf" \/ (k \in OwnedKinds /\ new # None /\ new.owner # 0)

(* The event handlers look at the old and at the new object. *)
Relevant(k, old, new) ==
  \/ k = "nf"
  \/ /\ k \in OwnedKinds
     /\ \E object \in {old, new} \ {None} : object.owner # 0

Listed == \E k \in Kinds : store[k] # None /\ Relevant(k, None, store[k])

(* A new process: empty queue, no timers, caches filled by a list whose    *)
(* objects all count as created.                                           *)
Restart ==
  /\ cache' = store
  /\ watch' = [k \in Kinds |-> <<>>]
  /\ queued' = Listed
  /\ timer' = FALSE
  /\ pc' = "idle" /\ w' = NoPass
  /\ UNCHANGED <<store, issued, cluster>>

(* A nil dereference is not recovered from: it ends the process. *)
Panic == Restart /\ UNCHANGED spent

Deliver(k) ==
  /\ watch[k] # <<>>
  /\ cache' = [cache EXCEPT ![k] = Head(watch[k])]
  /\ watch' = [watch EXCEPT ![k] = Tail(@)]
  /\ queued' = (queued \/ Relevant(k, cache[k], Head(watch[k])))
  /\ UNCHANGED <<store, issued, cluster, timer, pc, w, spent>>

AllDelivered == \A k \in Kinds : watch[k] = <<>>

TimerFires ==
  /\ timer
  /\ PromptWatch => AllDelivered
  /\ timer' = FALSE
  /\ queued' = TRUE
  /\ UNCHANGED <<server, cache, cluster, pc, w, spent>>

(* The periodic resync hands every cached object to its handler again. *)
Resync ==
  /\ ~ queued
  /\ PromptWatch => pc = "idle" /\ AllDelivered
  /\ \E k \in Kinds : cache[k] # None /\ Relevant(k, None, cache[k])
  /\ queued' = TRUE
  /\ UNCHANGED <<server, cache, cluster, timer, pc, w, spent>>

Crash ==
  /\ spent.crashes < MaxCrashes
  /\ spent' = [spent EXCEPT !.crashes = @ + 1]
  /\ Restart

-----------------------------------------------------------------------------
(* One pass of Reconcile *)

(* NFDeploymentReconciler.Reconcile: get the NFDeployment and dispatch on   *)
(* its provider; absent objects and other providers end the pass.          *)
Dequeue ==
  /\ pc = "idle" /\ queued
  /\ queued' = FALSE
  /\ IF cache["nf"] # None /\ cache["nf"].spec.provider \in NFs
     THEN pc' = "read" /\ w' = [NoPass EXCEPT !.provider = cache["nf"].spec.provider]
     ELSE UNCHANGED <<pc, w>>
  /\ UNCHANGED <<server, cache, cluster, timer, spent>>

(* Mutant: a ConfigMap that was not found has no version at all. *)
VersionOrNil(cm) == IF cm = None THEN None ELSE cm.rv

Version(cm) == IF cm = None THEN 0 ELSE cm.rv

(* Only the smf fetches Configs; the others go straight to the ConfigMap. *)
AfterDeployment(nf) == IF nf = "smf" THEN "refs" ELSE "configmap"

(* The sub-reconciler reads everything again from the caches. *)
ReadState ==
  /\ pc = "read"
  /\ IF cache["nf"] = None
     THEN Return
     ELSE /\ w' = [w EXCEPT !.nf       = cache["nf"],
                            !.version  = Version(cache["cm"]),
                            !.svcFound = cache["svc"] # None,
                            !.dep      = cache["dep"]]
          /\ Goto(IF cache["dep"] # None THEN "status" ELSE AfterDeployment(w.provider))
  /\ UNCHANGED <<server, cache, cluster, spent>>

(* Mutant: the status is written without the version that was read. *)
SyncStatusUnversioned ==
  /\ pc = "status"
  /\ IF ~ w.dep.deleting /\ StatusUpdateNeeded(w.dep.conds, w.nf.conds)
     THEN /\ Len(w.nf.conds) < MaxConditions
          /\ Write("nf", store["nf"] # None,
                   [store["nf"] EXCEPT !.rv = NextRV("nf"),
                                !.conds = CreateNfDeploymentStatus(w.dep.conds, w.nf.conds)],
                   Proceed("roll"), Return)
     ELSE Proceed("roll") /\ UNCHANGED <<server, spent>>
  /\ UNCHANGED <<cache, cluster>>

(* Status().Update with the resource version that was read. *)
SyncStatus ==
  /\ pc = "status"
  /\ IF ~ w.dep.deleting /\ StatusUpdateNeeded(w.dep.conds, w.nf.conds)
     THEN /\ Len(w.nf.conds) < MaxConditions
          /\ Write("nf", SameVersion("nf", w.nf),
                   [w.nf EXCEPT !.rv = NextRV("nf"),
                                !.conds = CreateNfDeploymentStatus(w.dep.conds, w.nf.conds)],
                   Proceed("roll"), Return)
     ELSE Proceed("roll") /\ UNCHANGED <<server, spent>>
  /\ UNCHANGED <<cache, cluster>>

(* A nil map of annotations reads as if every annotation were empty. *)
Annotation(dep) == IF dep.ann = None THEN 0 ELSE dep.ann

(* Mutant: only a Deployment without a version is rolled. *)
RollUnversioned ==
  /\ pc = "roll"
  /\ IF w.dep.ann = 0 /\ w.version # 0
     THEN Write("dep", SameVersion("dep", w.dep),
                [w.dep EXCEPT !.rv = NextRV("dep"), !.ann = w.version],
                ReturnRequeue, Return)
     ELSE Proceed(AfterDeployment(w.provider)) /\ UNCHANGED <<server, spent>>
  /\ UNCHANGED <<cache, cluster>>

(* Mutant: the update does not carry the version that was read. *)
RollUnlocked ==
  /\ pc = "roll"
  /\ IF w.dep.ann # w.version
     THEN Write("dep", store["dep"] # None,
                [w.dep EXCEPT !.rv = NextRV("dep"), !.ann = w.version],
                ReturnRequeue, Return)
     ELSE Proceed(AfterDeployment(w.provider)) /\ UNCHANGED <<server, spent>>
  /\ UNCHANGED <<cache, cluster>>

(* Update of the Deployment that was read, with its resource version.      *)
(* Writing to a nil map of annotations panics.                             *)
RollDeployment ==
  /\ pc = "roll"
  /\ IF Annotation(w.dep) = w.version
     THEN /\ Proceed(AfterDeployment(w.provider))
          /\ UNCHANGED <<server, cache, cluster, spent>>
     ELSE \/ w.dep.ann = None /\ Panic
          \/ /\ w.dep.ann # None
             /\ Write("dep", SameVersion("dep", w.dep),
                      [w.dep EXCEPT !.rv = NextRV("dep"), !.ann = w.version],
                      ReturnRequeue, Return)
             /\ UNCHANGED <<cache, cluster>>

(* Mutant: the controller reference is not set. *)
NotControlled(nf) == 0

(* ctrl.SetControllerReference: the NFDeployment that was read. *)
ControlledBy(nf) == nf.uid

(* Mutant: a name that comes again ends the pass. *)
FetchConfigRefOnce ==
  /\ pc = "refs"
  /\ LET refs == w.nf.spec.refs
         ref  == refs[w.next]
     IN  IF w.next > Len(refs)
         THEN /\ w' = [w EXCEPT !.next = 1]
              /\ Goto("configmap") /\ UNCHANGED <<server, cache, cluster, spent>>
         ELSE IF ref = None
         THEN Panic
         ELSE /\ IF configs[ref] = None \/ w.fetched[ref] # None
                 THEN Return
                 ELSE /\ w' = [w EXCEPT !.next = @ + 1, !.fetched[ref] = configs[ref]]
                      /\ Goto("refs")
              /\ UNCHANGED <<server, cache, cluster, spent>>

(* GetAllConfigRefs, one Get per step; a name that comes again is fetched *)
(* again and the result dropped. A nil name panics, a missing Config ends  *)
(* the pass.                                                               *)
FetchConfigRef ==
  /\ pc = "refs"
  /\ LET refs == w.nf.spec.refs
         ref  == refs[w.next]
     IN  IF w.next > Len(refs)
         THEN /\ w' = [w EXCEPT !.next = 1]
              /\ Goto("configmap") /\ UNCHANGED <<server, cache, cluster, spent>>
         ELSE IF ref = None
         THEN Panic
         ELSE /\ IF configs[ref] = None
                 THEN Return
                 ELSE /\ w' = [w EXCEPT !.next = @ + 1,
                                !.fetched[ref] = IF @ = None THEN configs[ref] ELSE @]
                      /\ Goto("refs")
              /\ UNCHANGED <<server, cache, cluster, spent>>

HasService == {"amf", "smf"}

(* Mutant: the Service is forgotten. *)
AfterConfigMapNoService(nf) == "plan"

AfterConfigMap(nf) == IF nf \in HasService THEN "service" ELSE "plan"

(* Mutant: the version of the new ConfigMap is not kept for the Deployment. *)
EnsureConfigMapUnversioned ==
  /\ pc = "configmap"
  /\ LET data == [nf |-> w.provider, spec |-> w.nf.spec, fetched |-> w.fetched]
         next == AfterConfigMap(w.provider)
     IN  IF w.version # 0
         THEN Proceed(next) /\ UNCHANGED <<server, spent>>
         ELSE Write("cm", store["cm"] = None,
                    [rv |-> NextRV("cm"), owner |-> ControlledBy(w.nf), data |-> data],
                    Proceed(next), Return)
  /\ UNCHANGED <<cache, cluster>>

(* The ConfigMap is built on every pass and created when none was read;    *)
(* one that exists is never written.                                       *)
EnsureConfigMap ==
  /\ pc = "configmap"
  /\ LET built == CreateConfigMap(w.provider, w.nf.spec, w.fetched)
         data  == [nf |-> w.provider, spec |-> w.nf.spec, fetched |-> w.fetched]
         next  == AfterConfigMap(w.provider)
     IN  \/ built.out = "panic" /\ Panic
         \/ /\ built.out = "error"
            /\ Return /\ UNCHANGED <<server, cache, cluster, spent>>
         \/ /\ built.out = "ok"
            /\ IF w.version # 0
               THEN Proceed(next) /\ UNCHANGED <<server, spent>>
               ELSE Write("cm", store["cm"] = None,
                          [rv |-> NextRV("cm"), owner |-> ControlledBy(w.nf), data |-> data],
                          w' = [w EXCEPT !.version = NextRV("cm")] /\ Goto(next),
                          Return)
            /\ UNCHANGED <<cache, cluster>>

(* Mutant: the Service is created without a controller reference. *)
EnsureFreeService ==
  /\ pc = "service"
  /\ IF w.svcFound
     THEN Proceed("plan") /\ UNCHANGED <<server, spent>>
     ELSE Write("svc", store["svc"] = None, [rv |-> NextRV("svc"), owner |-> 0],
                Proceed("plan"), Return)
  /\ UNCHANGED <<cache, cluster>>

EnsureService ==
  /\ pc = "service"
  /\ IF w.svcFound
     THEN Proceed("plan") /\ UNCHANGED <<server, spent>>
     ELSE Write("svc", store["svc"] = None,
                [rv |-> NextRV("svc"), owner |-> ControlledBy(w.nf)],
                Proceed("plan"), Return)
  /\ UNCHANGED <<cache, cluster>>

Planned == CreateDeployment(w.provider, w.nf.spec)

(* Mutants: every existing Deployment is updated; the upf's is left alone. *)
LeavesNone(nf) == FALSE
LeavesAmfAndUpf(nf) == nf # "smf"

(* The amf leaves an existing Deployment as it is; smf and upf update it. *)
LeavesExisting(nf) == nf = "amf"

(* The Deployment is built on every pass. *)
PlanDeployment ==
  /\ pc = "plan"
  /\ \/ Planned.out = "panic" /\ Panic
     \/ /\ Planned.out = "error"
        /\ Return /\ UNCHANGED <<server, cache, cluster, spent>>
     \/ /\ Planned.out = "ok"
        /\ IF w.dep = None THEN Proceed("nad")
           ELSE IF LeavesExisting(w.provider) THEN Return
           ELSE Proceed("update")
        /\ UNCHANGED <<server, cache, cluster, spent>>

(* Mutant: the check ends with the first network. *)
CheckFirstNAD ==
  /\ pc = "nad"
  /\ IF w.next > 1
     THEN Proceed("create") /\ UNCHANGED spent
     ELSE /\ IF Planned.val.networks[1].name \in nads
             THEN w' = [w EXCEPT !.next = @ + 1] /\ Goto("nad")
             ELSE ReturnRequeueAfter
          /\ UNCHANGED spent
  /\ UNCHANGED <<server, cache, cluster>>

(* ValidateNetworkAttachmentDefinitions, one Get per step. *)
CheckNAD ==
  /\ pc = "nad"
  /\ IF w.next > Len(Planned.val.networks)
     THEN Proceed("create") /\ UNCHANGED spent
     ELSE \/ /\ Planned.val.networks[w.next].name \in nads
             /\ w' = [w EXCEPT !.next = @ + 1]
             /\ Goto("nad") /\ UNCHANGED spent
          \/ /\ Planned.val.networks[w.next].name \notin nads
             /\ ReturnRequeueAfter /\ UNCHANGED spent
          \/ ReturnRequeueAfter /\ SpendFault
  /\ UNCHANGED <<server, cache, cluster>>

(* A failed create is only logged; the key is requeued after 30 s anyway. *)
CreateNewDeployment ==
  /\ pc = "create"
  /\ Write("dep", store["dep"] = None,
           [rv |-> NextRV("dep"), owner |-> ControlledBy(w.nf), ann |-> w.version,
            tmpl |-> Planned.val, conds |-> <<>>, deleting |-> FALSE],
           ReturnRequeueAfter, ReturnRequeueAfter)
  /\ UNCHANGED <<cache, cluster>>

(* Mutant: the update loses the annotation of the pod template. *)
UpdateUnversioned ==
  /\ pc = "update"
  /\ LET object == [store["dep"] EXCEPT !.owner = 0, !.ann = 0, !.tmpl = Planned.val]
     IN  IF store["dep"] = None \/ store["dep"] = object
         THEN Return /\ UNCHANGED <<server, spent>>
         ELSE Write("dep", TRUE, [object EXCEPT !.rv = NextRV("dep")], Return, Return)
  /\ UNCHANGED <<cache, cluster>>

(* Mutant: the pass asks for another one after every update. *)
UpdateAndRequeue ==
  /\ pc = "update"
  /\ LET object == [store["dep"] EXCEPT !.owner = 0, !.ann = w.version, !.tmpl = Planned.val]
     IN  IF store["dep"] = None \/ store["dep"] = object
         THEN ReturnRequeue /\ UNCHANGED <<server, spent>>
         ELSE Write("dep", TRUE, [object EXCEPT !.rv = NextRV("dep")], ReturnRequeue, Return)
  /\ UNCHANGED <<cache, cluster>>

(* smf and upf put the freshly built Deployment over the existing one: no  *)
(* resource version, so unconditionally, and no owner references, so the   *)
(* controller reference goes. An update that changes nothing is no write.  *)
UpdateDeployment ==
  /\ pc = "update"
  /\ LET object == [store["dep"] EXCEPT !.owner = 0, !.ann = w.version, !.tmpl = Planned.val]
     IN  IF store["dep"] = None \/ store["dep"] = object
         THEN Return /\ UNCHANGED <<server, spent>>
         ELSE Write("dep", TRUE, [object EXCEPT !.rv = NextRV("dep")], Return, Return)
  /\ UNCHANGED <<cache, cluster>>

Reconcile ==
  \/ Dequeue \/ ReadState \/ SyncStatus \/ RollDeployment \/ FetchConfigRef
  \/ EnsureConfigMap \/ EnsureService \/ PlanDeployment \/ CheckNAD
  \/ CreateNewDeployment \/ UpdateDeployment

-----------------------------------------------------------------------------
(* Users and the rest of the cluster *)

Operate(op) ==
  /\ op \in UserOps /\ spent.ops < MaxOps
  /\ spent' = [spent EXCEPT !.ops = @ + 1]
  /\ UNCHANGED <<cache, queued, timer, pc, w>>

CreateNF ==
  /\ Operate("CreateNF") /\ store["nf"] = None
  /\ \E spec \in Specs :
       Put("nf", [rv |-> NextRV("nf"), uid |-> NextRV("nf"), spec |-> spec, conds |-> <<>>])
  /\ UNCHANGED cluster

EditSpec ==
  /\ Operate("EditSpec") /\ store["nf"] # None
  /\ \E spec \in Specs \ {store["nf"].spec} :
       Put("nf", [store["nf"] EXCEPT !.rv = NextRV("nf"), !.spec = spec])
  /\ UNCHANGED cluster

EditConfigMap ==
  /\ Operate("EditConfigMap") /\ store["cm"] # None
  /\ Put("cm", [store["cm"] EXCEPT !.rv = NextRV("cm"), !.data = Edited])
  /\ UNCHANGED cluster

DeleteObject(op, k) == Operate(op) /\ Erase(k) /\ UNCHANGED cluster

(* A foreground deletion: the Deployment stays until its pods are gone. *)
MarkDeploymentDeleted ==
  /\ Operate("MarkDeploymentDeleted") /\ store["dep"] # None
  /\ ~ store["dep"].deleting
  /\ Put("dep", [store["dep"] EXCEPT !.rv = NextRV("dep"), !.deleting = TRUE])
  /\ UNCHANGED cluster

(* Somebody edits the pod template, or takes all its annotations away. *)
EditDeployment ==
  /\ store["dep"] # None
  /\ \E ann \in {store["dep"].ann, None} :
       /\ Operate(IF ann = None THEN "StripDeployment" ELSE "EditDeployment")
       /\ Put("dep", [store["dep"] EXCEPT !.rv = NextRV("dep"), !.ann = ann, !.tmpl = Edited])
  /\ UNCHANGED cluster

ChangeNADs ==
  /\ \E nad \in NADs :
       \/ Operate("AddNAD") /\ nad \notin nads /\ nads' = nads \cup {nad}
       \/ Operate("RemoveNAD") /\ nad \in nads /\ nads' = nads \ {nad}
  /\ UNCHANGED <<server, configs>>

SetConfig ==
  /\ Operate("SetConfig")
  /\ \E c \in ConfigNames, v \in ConfigValues \cup {None} :
       configs[c] # v /\ configs' = [configs EXCEPT ![c] = v]
  /\ UNCHANGED <<server, nads>>

(* SetDeploymentCondition: the condition of that type moves to the end;    *)
(* the same condition is reported again when its reason changes.           *)
Without(conds, type) ==
  LET at == {i \in DOMAIN conds : conds[i].type = type}
  IN  IF at = {} THEN conds ELSE RemoveAt(conds, CHOOSE i \in at : TRUE)

ReportCondition ==
  /\ Operate("Report") /\ store["dep"] # None
  /\ \E c \in Reports :
       /\ ~ (store["dep"].conds # <<>> /\ Last(store["dep"].conds) = c)
       /\ Put("dep", [store["dep"] EXCEPT
             !.rv = NextRV("dep"), !.conds = Append(Without(@, c.type), c)])
  /\ UNCHANGED cluster

User ==
  \/ CreateNF \/ EditSpec \/ EditConfigMap \/ EditDeployment \/ MarkDeploymentDeleted
  \/ DeleteObject("DeleteNF", "nf") \/ DeleteObject("DeleteConfigMap", "cm")
  \/ DeleteObject("DeleteService", "svc") \/ DeleteObject("DeleteDeployment", "dep")
  \/ ChangeNADs \/ SetConfig \/ ReportCondition

(* The garbage collector removes what a vanished NFDeployment controls. *)
Orphaned(k) ==
  /\ k # "nf" /\ store[k] # None /\ store[k].owner # 0
  /\ ~ (store["nf"] # None /\ store["nf"].uid = store[k].owner)

Unused == <<cache, cluster, queued, timer, pc, w, spent>>

GarbageCollect(k) ==
  /\ Orphaned(k)
  /\ PromptWatch => watch["nf"] = <<>>
  /\ Erase(k) /\ UNCHANGED Unused

(* The end of a foreground deletion. *)
RemoveDeployment ==
  /\ store["dep"] # None /\ store["dep"].deleting
  /\ Erase("dep") /\ UNCHANGED Unused

-----------------------------------------------------------------------------
Init ==
  /\ store  = [k \in Kinds |-> None]
  /\ issued = [k \in Kinds |-> 0]
  /\ watch  = [k \in Kinds |-> <<>>]
  /\ cache  = [k \in Kinds |-> None]
  /\ nads \in SUBSET NADs
  /\ configs \in FetchedConfigs
  /\ queued = FALSE
  /\ timer = FALSE
  /\ pc = "idle"
  /\ w = NoPass
  /\ spent = [ops |-> 0, faults |-> 0, crashes |-> 0]

Next ==
  \/ Reconcile
  \/ \E k \in Kinds : Deliver(k)
  \/ TimerFires \/ Resync \/ Crash
  \/ User
  \/ \E k \in Kinds : GarbageCollect(k)
  \/ RemoveDeployment

Spec == Init /\ [][Next]_vars

-----------------------------------------------------------------------------
(* Nothing will happen any more unless somebody acts or a resync is due. *)
Quiet ==
  /\ pc = "idle" /\ ~ queued /\ ~ timer
  /\ AllDelivered /\ \A k \in Kinds : ~ Orphaned(k)
  /\ store["dep"] # None => ~ store["dep"].deleting

(* Whether the spec can be built from, with the Configs as they are. *)
Buildable(nf) ==
  LET provider == nf.spec.provider
  IN  /\ provider \in NFs
      /\ configs \in Sufficient(provider, nf.spec)
      /\ CreateConfigMap(provider, nf.spec, configs).out = "ok"
      /\ CreateDeployment(provider, nf.spec).out = "ok"

QuietWith(condition) == Quiet /\ store["nf"] # None /\ condition

(* When no API call failed and the operator has come to rest, an           *)
(* NFDeployment whose spec can be built has its ConfigMap, and a Deployment *)
(* annotated with the version of that ConfigMap which exists now: no event *)
(* that mattered was dropped, no stale read was left uncorrected.          *)
QuietConfigured ==
  QuietWith(Buildable(store["nf"])) =>
    /\ store["cm"] # None /\ store["dep"] # None
    /\ store["dep"].ann = store["cm"].rv

(* ... the Deployment of an smf or upf is the one its present spec asks for *)
QuietBuilt ==
  QuietWith(Buildable(store["nf"])) /\ store["nf"].spec.provider # "amf"
    => store["dep"] # None
         /\ store["dep"].tmpl = CreateDeployment(store["nf"].spec.provider, store["nf"].spec).val

(* ... and, for the network functions that have one, its Service, although *)
(* a pass may not see yet the one it created before, and Services are not   *)
(* watched (SetupWithManager). Nobody deletes a Service here: the operator *)
(* would not notice.                                                       *)
QuietServed ==
  QuietWith(Buildable(store["nf"])) /\ store["nf"].spec.provider \in HasService
    => store["svc"] # None

(* ... and the last reported condition is the one that the code decides by, *)
(* the Deployment's first, in spite of conflicting status updates           *)
(* (syncStatus, createNfDeploymentStatus). The comments of the code decide *)
(* by the Deployment's last one: LastConditionReported, below.             *)
QuietReported ==
  QuietWith(Buildable(store["nf"])) /\ store["dep"] # None =>
    /\ store["nf"].conds # <<>>
    /\ store["dep"].conds # <<>> =>
         Last(store["nf"].conds) = ReportedAs[Head(store["dep"].conds).type]

(* When the operator has come to rest after the NFDeployment is gone, so    *)
(* is everything it created, whatever was in flight at the time.           *)
NothingLeftBehind ==
  Quiet /\ store["nf"] = None => \A k \in Kinds : store[k] = None

(* A Deployment keeps the controller reference it was created with, though  *)
(* a roll writes all of it back from a cached copy. True only under the amf *)
(* reconciler.                                                             *)
DeploymentOwned == store["dep"] # None => store["dep"].owner # 0

(* The status is a history that only grows, though every update replaces    *)
(* the whole list with one computed from a cached copy (syncStatus).       *)
StatusOnlyGrows ==
  [][ store["nf"] # None /\ store'["nf"] # None /\ store'["nf"].uid = store["nf"].uid
        => IsPrefix(store["nf"].conds, store'["nf"].conds) ]_store

(* The history does not repeat itself, except that a failing Deployment is  *)
(* reported as Stalled over and over: the early returns of                 *)
(* createNfDeploymentStatus do not know that pair of names.                *)
OnlyStalledRepeats ==
  store["nf"] # None =>
    LET conds == store["nf"].conds
    IN  \A i \in 1 .. Len(conds) - 1 : conds[i] = conds[i + 1] => conds[i] = "Stalled"

(* A Deployment is created with the version of a ConfigMap that was written, *)
(* never with the empty version (Reconcile creates the ConfigMap first), and *)
(* only while its NetworkAttachmentDefinitions exist. (Nobody removes one    *)
(* here: check and create are separate calls, so one can vanish between.)  *)
CreatedComplete ==
  [][ store["dep"] = None /\ store'["dep"] # None =>
        /\ store'["dep"].ann \in 1 .. issued["cm"]
        /\ \A n \in ToSet(store'["dep"].tmpl.networks) : n.name \in nads ]_store

(* Rolling the pods changes nothing else about the Deployment, although the *)
(* whole of it is written from a cached copy: what somebody edited meanwhile *)
(* is not undone (Reconcile of the three packages).                        *)
RollKeepsEdits ==
  [][ pc = "roll" /\ pc' # "roll" /\ store' # store =>
        store' = [store EXCEPT !["dep"].rv = issued'["dep"], !["dep"].ann = w.version] ]_vars

-----------------------------------------------------------------------------
(* What a client sees *)

Lives == [uid : Nat, history : Seq(NFConditionTypes)]
ASSUME LivesAssumption == None \notin Lives

Life == IF store["nf"] = None THEN None
        ELSE [uid |-> store["nf"].uid, history |-> store["nf"].conds]
Owners == [k \in Kinds \ {"nf"} |-> IF store[k] = None THEN None ELSE store[k].owner]
PodVersion == IF store["dep"] = None THEN None ELSE Annotation(store["dep"])

(* The reconcilers that the specs can reach leave an existing Deployment alone. *)
OnlyLeaving == \A spec \in Specs : spec.provider \in NFs => LeavesExisting(spec.provider)

Lifecycle ==
  INSTANCE NFLifecycle WITH
    Keeps <- OnlyLeaving, life <- Life, owner <- Owners, version <- PodVersion,
    clock <- issued["nf"], revision <- issued["cm"]

(* In spite of stale caches, conflicting writes, calls that fail after they *)
(* took effect and crashes between two calls of a pass, the objects on the  *)
(* server change only as NFLifecycle allows.                               *)
ImplementsLifecycle == Lifecycle!Spec

-----------------------------------------------------------------------------
(* What comments and messages of the code say *)

(* "ConfigMap has been updated, rolling Deployment pods". *)
RollsFollowUpdates ==
  [][ store["dep"] # None /\ store'["dep"] # None /\ store'["dep"].ann # store["dep"].ann
        => store["cm"] = None \/ store["cm"].rv # store["dep"].ann ]_store

(* "Check the last underlying Deployment status and deduce condition from   *)
(* it" (createNfDeploymentStatus), "use the last one to decide if status   *)
(* has to be updated" (Reconcile): what is reported of a Deployment at rest *)
(* is its last condition.                                                  *)
LastConditionReported ==
  QuietWith(Buildable(store["nf"])) /\ store["dep"] # None /\ store["dep"].conds # <<>> =>
    /\ store["nf"].conds # <<>>
    /\ Last(store["nf"].conds) = ReportedAs[Last(store["dep"].conds).type]

(* "Not all config references found... rerun reconcile". *)
MissingReferenceRerun ==
  [][ pc = "refs" /\ pc' = "idle" /\ UNCHANGED spent => queued' \/ timer' ]_vars

-----------------------------------------------------------------------------
(* Progress *)

(* The goroutines of the process run, the API server delivers what it       *)
(* recorded, timers and resyncs come due; users and faults are not fair.   *)
(* The first conjunct is weak fairness of Reconcile with ENABLED spelled   *)
(* out: the worker can step unless it idles on an empty queue or the        *)
(* reported status has reached its bound.                                  *)
AtBound ==
  /\ pc = "status" /\ ~ w.dep.deleting /\ StatusUpdateNeeded(w.dep.conds, w.nf.conds)
  /\ Len(w.nf.conds) >= MaxConditions

Fairness ==
  /\ []<>((pc = "idle" /\ ~ queued) \/ AtBound) \/ []<><<Reconcile>>_vars
  /\ \A k \in Kinds : WF_vars(Deliver(k)) /\ WF_vars(GarbageCollect(k))
  /\ WF_vars(TimerFires) /\ WF_vars(Resync) /\ WF_vars(RemoveDeployment)

FairSpec == Spec /\ Fairness

NADsPresent ==
  LET provider == store["nf"].spec.provider
      built == CreateDeployment(provider, store["nf"].spec)
  IN  provider \in NFs /\ built.out = "ok" => \A n \in ToSet(built.val.networks) : n.name \in nads

Stripped == store["dep"] # None /\ store["dep"].ann = None

(* However many calls failed, crashes interrupted a pass or objects were    *)
(* edited or deleted: once that ends, the timers and the resync bring       *)
(* everything that can be built into place, for good. Only a Deployment     *)
(* without any annotations is beyond repair: every pass panics.            *)
Recovers ==
  <>[](store["nf"] # None /\ Buildable(store["nf"]) /\ NADsPresent /\ ~ Stripped =>
         /\ store["cm"] # None /\ store["dep"] # None
         /\ store["dep"].ann = store["cm"].rv)

(* The status catches up with the Deployment's first condition, the one the *)
(* code decides by (against its comments: LastConditionReported), whatever *)
(* was reported while a pass was under way or a status update in conflict. *)
StatusFollows ==
  <>[](/\ store["nf"] # None /\ store["nf"].spec.provider \in NFs
       /\ store["dep"] # None /\ ~ store["dep"].deleting /\ store["dep"].conds # <<>>
       => /\ store["nf"].conds # <<>>
          /\ Last(store["nf"].conds) = ReportedAs[Head(store["dep"].conds).type])

(* A Deployment whose first condition is ReplicaFailure. *)
ReplicasFail == store["dep"] # None /\ store["dep"].conds # <<>>
                  /\ Head(store["dep"].conds).type = "ReplicaFailure"

(* The operator does not chase its own writes: it comes to rest again and   *)
(* again, with two exceptions. It polls for missing                        *)
(* NetworkAttachmentDefinitions, and while a Deployment is failing each pass *)
(* writes one more Stalled (createNfDeploymentStatus), whose event leads to *)
(* the next pass.                                                          *)
ComesToRest == []<>(Quiet \/ (store["nf"] # None /\ (~ NADsPresent \/ ReplicasFail)))
=============================================================================
