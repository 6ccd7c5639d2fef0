------------------------ MODULE NFReconcilerRefinement ------------------------
(***************************************************************************)
(* NFReconciler implements NFLifecycle, for every value of its constants.  *)
(*                                                                         *)
(* Every write of ServerStep is a step of NFLifecycle. Where a write puts  *)
(* what the pass read before, CopiesInv makes it a change of what is       *)
(* stored; VersionsInv says that the versions a pass carries along were    *)
(* issued, and that there is one once the ConfigMap is in place; uids are  *)
(* versions too (IssuedUids).                                              *)
(***************************************************************************)
EXTENDS NFReconcilerSafety

-----------------------------------------------------------------------------
(* The versions and uids that a pass carries along *)

AfterConfigMapSteps == {"service", "plan", "nad", "create", "update"}

VersionsInv ==
  /\ w.version <= issued["cm"]
  /\ pc \in AfterConfigMapSteps => w.version # 0

LEMMA IssuedGrows ==
  ASSUME TypeInv, [Next]_vars, NEW k \in Kinds
  PROVE  issued[k] \in Nat /\ issued'[k] \in Nat /\ issued[k] <= issued'[k]
BY StoreStep, StepTypeInv DEF Kept, Erased, Renewed, NextRV, TypeInv, ServerOK

(* How the version that a pass carries along changes. *)
VersionStep ==
  \/ w'.version = w.version /\ (pc' \in AfterConfigMapSteps => pc \in AfterConfigMapSteps)
  \/ w'.version = w.version /\ w.version # 0
  \/ w'.version = 0 /\ pc' \notin AfterConfigMapSteps
  \/ w'.version = Version(cache["cm"]) /\ pc' \notin AfterConfigMapSteps
  \/ w'.version = issued'["cm"] /\ issued'["cm"] = NextRV("cm")

LEMMA NoPassVersion == ASSUME w' = NoPass, pc' = "idle" PROVE VersionStep
BY DEF NoPass, VersionStep, AfterConfigMapSteps

LEMMA ReconcileVersionStep == ASSUME TypeInv, Reconcile PROVE VersionStep
<1>1. w \in Pass
  BY DEF TypeInv, WorkerOK
<1>2. Return \/ ReturnRequeue \/ ReturnRequeueAfter \/ Panic => VersionStep
  BY NoPassVersion DEF Return, ReturnRequeue, ReturnRequeueAfter, Panic, Restart
<1>3. ASSUME NEW step, Goto(step), w'.version = w.version,
             step \in AfterConfigMapSteps => pc \in AfterConfigMapSteps
      PROVE  VersionStep
  BY <1>3 DEF Goto, VersionStep
<1>4. ASSUME NEW step, Proceed(step), step \in AfterConfigMapSteps => pc \in AfterConfigMapSteps
      PROVE  VersionStep
  BY <1>3, <1>4 DEF Proceed
<1> USE DEF AfterConfigMapSteps
<1>5. CASE Dequeue
  BY <1>5 DEF Dequeue, VersionStep, NoPass
<1>6. CASE ReadState
  <2>1. CASE cache["nf"] = None
    BY <1>2, <1>6, <2>1 DEF ReadState
  <2>2. CASE cache["nf"] # None
    <3>1. w'.version = Version(cache["cm"])
      BY <1>1, <1>6, <2>2 DEF ReadState, Pass
    <3>2. pc' \in {"status", "refs", "configmap"}
      BY <1>6, <2>2, AfterDeploymentOK DEF ReadState, Goto
    <3> QED BY <3>1, <3>2 DEF VersionStep
  <2> QED BY <2>1, <2>2
<1>7. CASE SyncStatus
  BY <1>2, <1>4, <1>7 DEF SyncStatus, Write
<1>8. CASE RollDeployment
  BY <1>2, <1>4, <1>8, AfterDeploymentOK DEF RollDeployment, Write
<1>9. CASE FetchConfigRef
  <2>1. CASE w' = [w EXCEPT !.next = 1] /\ Goto("configmap")
    BY <1>1, <1>3, <2>1 DEF Pass
  <2>2. ASSUME NEW fetched, w' = [w EXCEPT !.next = w.next + 1, !.fetched = fetched], Goto("refs")
        PROVE  VersionStep
    BY <1>1, <1>3, <2>2 DEF Pass
  <2>3. \/ w' = [w EXCEPT !.next = 1] /\ Goto("configmap")
        \/ Panic \/ Return
        \/ Goto("refs") /\ \E ref : w' = [w EXCEPT !.next = w.next + 1,
                                          !.fetched = [w.fetched EXCEPT ![ref] =
                                             IF @ = None THEN configs[ref] ELSE @]]
    BY <1>1, <1>9 DEF FetchConfigRef, Pass
  <2> QED BY <1>2, <2>1, <2>2, <2>3
<1>10. CASE EnsureConfigMap
  <2> DEFINE next == AfterConfigMap(w.provider)
             new  == [rv |-> NextRV("cm"), owner |-> ControlledBy(w.nf),
                      data |-> [nf |-> w.provider, spec |-> w.nf.spec, fetched |-> w.fetched]]
  <2>1. CASE Proceed(next) /\ w.version # 0
    BY <2>1 DEF Proceed, VersionStep
  <2>2. CASE w' = [w EXCEPT !.version = NextRV("cm")] /\ Put("cm", new)
    <3>1. w'.version = NextRV("cm")
      BY <1>1, <2>2 DEF Pass
    <3>2. issued'["cm"] = NextRV("cm")
      BY <2>2, ObjectKinds DEF Put, TypeInv, ServerOK
    <3> QED BY <3>1, <3>2 DEF VersionStep
  <2>3. \/ Panic \/ Return
        \/ Proceed(next) /\ w.version # 0
        \/ w' = [w EXCEPT !.version = NextRV("cm")] /\ Put("cm", new)
    BY <1>10 DEF EnsureConfigMap, Write
  <2> QED BY <1>2, <2>1, <2>2, <2>3
<1>11. CASE EnsureService
  BY <1>2, <1>4, <1>11 DEF EnsureService, Write
<1>12. CASE PlanDeployment
  BY <1>2, <1>4, <1>12 DEF PlanDeployment
<1>13. CASE CheckNAD
  <2>1. CASE w' = [w EXCEPT !.next = @ + 1] /\ Goto("nad")
    BY <1>1, <1>3, <1>13, <2>1 DEF CheckNAD, Pass
  <2> QED BY <1>2, <1>4, <1>13, <2>1 DEF CheckNAD
<1>14. CASE CreateNewDeployment \/ UpdateDeployment
  BY <1>2, <1>14 DEF CreateNewDeployment, UpdateDeployment, Write
<1> QED BY <1>5, <1>6, <1>7, <1>8, <1>9, <1>10, <1>11, <1>12, <1>13, <1>14 DEF Reconcile

(* What is not a step of a pass leaves it alone or ends it. *)
LEMMA OutsideStep ==
  ASSUME [Next]_vars, ~ Reconcile PROVE UNCHANGED <<pc, w>> \/ (Restart /\ UNCHANGED store)
<1>1. CASE Crash
  BY <1>1 DEF Crash, Restart
<1>2. CASE User
  BY <1>2 DEF User, CreateNF, EditSpec, EditConfigMap, EditDeployment, MarkDeploymentDeleted,
     DeleteObject, ChangeNADs, SetConfig, ReportCondition, Operate
<1>3. CASE \/ \E k \in Kinds : Deliver(k) \/ GarbageCollect(k)
          \/ TimerFires \/ Resync \/ RemoveDeployment \/ UNCHANGED vars
  BY <1>3 DEF Deliver, GarbageCollect, TimerFires, Resync, RemoveDeployment, Unused, vars
<1> QED BY <1>1, <1>2, <1>3 DEF Next

LEMMA StepVersionsInv ==
  ASSUME TypeInv, CopiesInv, VersionsInv, [Next]_vars PROVE VersionsInv'
<1>1. /\ issued["cm"] \in Nat /\ issued'["cm"] \in Nat /\ issued["cm"] <= issued'["cm"]
      /\ w.version \in Nat
  BY IssuedGrows, ObjectKinds DEF TypeInv, WorkerOK, Pass
<1>2. Version(cache["cm"]) \in Nat /\ Version(cache["cm"]) <= issued["cm"]
  <2>1. cache["cm"] \in Copies("cm") /\ cache["cm"] \in ConfigMap \cup {None}
    BY ObjectKinds DEF Copies, Shown, TypeInv, CacheOK
  <2>2. cache["cm"] # None => cache["cm"].rv \in Nat /\ cache["cm"].rv <= issued["cm"]
    BY <2>1, ObjectKinds DEF CopiesInv, NoNewer, ConfigMap
  <2> QED BY <1>1, <2>2 DEF Version
<1>3. CASE Reconcile
  <2>1. NextRV("cm") > 0
    BY <1>1 DEF NextRV
  <2> QED BY <1>1, <1>2, <1>3, <2>1, ReconcileVersionStep DEF VersionStep, VersionsInv
<1>4. CASE Restart
  BY <1>1, <1>4 DEF Restart, NoPass, VersionsInv, AfterConfigMapSteps
<1>5. CASE UNCHANGED <<pc, w>>
  BY <1>1, <1>5 DEF VersionsInv
<1> QED BY <1>3, <1>4, <1>5, OutsideStep

(* No NFDeployment anybody knows has a uid that was not issued. *)
IssuedUids == \A c \in Copies("nf") : c # None => c.uid \in 1 .. issued["nf"]

(* A write of the NFDeployment keeps its uid; a new one takes a new uid.   *)
LEMMA UidStep ==
  ASSUME TypeInv, [Next]_vars, store'["nf"] # None
  PROVE  \/ \E c \in Copies("nf") : c # None /\ store'["nf"].uid = c.uid
         \/ /\ store["nf"] = None
            /\ store'["nf"].uid = NextRV("nf") /\ issued'["nf"] = NextRV("nf")
<1> USE DEF TypeInv
<1>1. CASE store'["nf"] = store["nf"]
  BY <1>1 DEF Copies
<1>2. ASSUME NEW k \in Kinds, NEW object, Put(k, object)
      PROVE  /\ store'["nf"] = IF k = "nf" THEN object ELSE store["nf"]
             /\ k = "nf" => issued'["nf"] = NextRV("nf")
  BY <1>2, ObjectKinds DEF Put, ServerOK
<1>3. CASE ConfigMapWritten \/ ServiceWritten \/ DeploymentWritten
  <2>1. \E k \in Kinds \ {"nf"} : \E object : Put(k, object)
    BY <1>3, ObjectKinds DEF ConfigMapWritten, ServiceWritten, DeploymentWritten
  <2> QED BY <1>1, <1>2, <2>1
<1>4. CASE \E k \in Kinds : Erase(k)
  BY <1>1, <1>4, ObjectKinds DEF Erase, ServerOK
<1>5. CASE NFWritten
  <2>1. ASSUME NEW spec,
          Put("nf", [rv |-> NextRV("nf"), uid |-> NextRV("nf"), spec |-> spec, conds |-> <<>>])
        PROVE store'["nf"].uid = NextRV("nf") /\ issued'["nf"] = NextRV("nf")
    BY <1>2, <2>1, ObjectKinds
  <2>2. ASSUME NEW nf \in {store["nf"], w.nf}, nf \in NFObject, nf # None, NEW x,
          \/ Put("nf", [nf EXCEPT !.rv = NextRV("nf"), !.spec = x])
          \/ Put("nf", [nf EXCEPT !.rv = NextRV("nf"), !.conds = x])
        PROVE \E c \in Copies("nf") : c # None /\ store'["nf"].uid = c.uid
    <3>1. /\ [nf EXCEPT !.rv = NextRV("nf"), !.spec = x].uid = nf.uid
          /\ [nf EXCEPT !.rv = NextRV("nf"), !.conds = x].uid = nf.uid
      BY <2>2 DEF NFObject
    <3>2. nf \in Copies("nf")
      BY <2>2 DEF Copies
    <3> QED BY <1>2, <2>2, <3>1, <3>2, ObjectKinds
  <2>3. store["nf"] # None => store["nf"] \in NFObject
    BY ObjectKinds DEF ServerOK
  <2>4. pc = "status" => w.nf \in NFObject /\ w.nf # None
    BY DEF WorkerOK, Pass
  <2> QED BY <1>5, <2>1, <2>2, <2>3, <2>4 DEF NFWritten
<1> QED BY <1>1, <1>3, <1>4, <1>5, ServerStep DEF ServerUnchanged, Written, Updated

LEMMA StepIssuedUids == ASSUME TypeInv, IssuedUids, [Next]_vars PROVE IssuedUids'
<1> SUFFICES ASSUME NEW c \in Copies("nf")', c # None PROVE c.uid \in 1 .. issued'["nf"]
  BY DEF IssuedUids
<1>1. issued["nf"] \in Nat /\ issued'["nf"] \in Nat /\ issued["nf"] <= issued'["nf"]
  BY IssuedGrows, ObjectKinds
<1>2. ASSUME NEW d \in Copies("nf"), d # None, c.uid = d.uid PROVE c.uid \in 1 .. issued'["nf"]
  BY <1>1, <1>2 DEF IssuedUids
<1>3. CASE c = store'["nf"]
  BY <1>1, <1>2, <1>3, UidStep DEF NextRV
<1>4. CASE c # store'["nf"]
  BY <1>2, <1>4, CopiesStep, ObjectKinds
<1> QED BY <1>3, <1>4

-----------------------------------------------------------------------------
(* The effect of a write on what NFLifecycle shows *)

LEMMA PutNFShows ==
  ASSUME TypeInv, NEW object \in NFObject, Put("nf", object)
  PROVE  /\ Life' = [uid |-> object.uid, history |-> object.conds]
         /\ issued'["nf"] = issued["nf"] + 1 /\ issued'["cm"] = issued["cm"]
         /\ UNCHANGED <<Owners, PodVersion>>
<1>1. object # None
  BY NoneAssumption, ObjectKinds
<1>2. /\ store'["nf"] = object
      /\ \A k \in Kinds \ {"nf"} : store'[k] = store[k]
      /\ issued'["nf"] = issued["nf"] + 1 /\ issued'["cm"] = issued["cm"]
  BY ObjectKinds DEF Put, NextRV, TypeInv, ServerOK
<1> QED BY <1>1, <1>2, ObjectKinds DEF Life, Owners, PodVersion, Annotation

LEMMA PutPartShows ==
  ASSUME TypeInv, NEW k \in Kinds \ {"nf"}, NEW object \in Object(k), Put(k, object)
  PROVE  /\ UNCHANGED Life /\ issued'["nf"] = issued["nf"]
         /\ issued'["cm"] = IF k = "cm" THEN issued["cm"] + 1 ELSE issued["cm"]
         /\ Owners' = [Owners EXCEPT ![k] = object.owner]
         /\ PodVersion' = IF k = "dep" THEN Annotation(object) ELSE PodVersion
<1>1. object # None
  BY NoneAssumption
<1>2. /\ store'[k] = object
      /\ \A j \in Kinds \ {k} : store'[j] = store[j]
      /\ issued'["nf"] = issued["nf"]
      /\ issued'["cm"] = IF k = "cm" THEN issued["cm"] + 1 ELSE issued["cm"]
  BY ObjectKinds DEF Put, NextRV, TypeInv, ServerOK
<1>3. Owners' = [Owners EXCEPT ![k] = object.owner]
  BY <1>1, <1>2 DEF Owners
<1> QED BY <1>1, <1>2, <1>3, ObjectKinds DEF Life, PodVersion, Annotation

(* An object that is put with the owner of the one before. *)
LEMMA OwnersKept ==
  ASSUME NEW k \in Kinds \ {"nf"}, store[k] # None
  PROVE  Owners[k] = store[k].owner /\ [Owners EXCEPT ![k] = store[k].owner] = Owners
BY DEF Owners

LEMMA EraseShows ==
  ASSUME TypeInv, NEW k \in Kinds, Erase(k)
  PROVE  /\ issued' = issued
         /\ k = "nf" => Life # None /\ Life' = None /\ UNCHANGED <<Owners, PodVersion>>
         /\ k # "nf" => /\ UNCHANGED Life /\ Owners[k] # None
                        /\ Owners' = [Owners EXCEPT ![k] = None]
                        /\ PodVersion' = IF k = "dep" THEN None ELSE PodVersion
<1>1. /\ store[k] # None /\ store'[k] = None
      /\ \A j \in Kinds \ {k} : store'[j] = store[j]
  BY DEF Erase, TypeInv, ServerOK
<1>2. issued' = issued
  BY DEF Erase
<1>3. store[k] \in Object(k)
  BY <1>1 DEF TypeInv, ServerOK
<1>4. CASE k = "nf"
  <2>1. Life # None
    <3>1. store["nf"] \in NFObject /\ store["nf"] # None
      BY <1>1, <1>3, <1>4, ObjectKinds
    <3>2. Life = [uid |-> store["nf"].uid, history |-> store["nf"].conds]
      BY <3>1 DEF Life
    <3>3. Life \in Lives
      BY <3>1, <3>2 DEF Lives, NFObject
    <3> QED BY <3>3, LivesAssumption
  <2> QED BY <1>1, <1>2, <1>4, <2>1, ObjectKinds DEF Life, Owners, PodVersion, Annotation
<1>5. CASE k # "nf"
  <2>0. k \in Kinds \ {"nf"}
    BY <1>5
  <2>1. Owners[k] # None
    <3>1. store[k].owner \in Nat
      <4>1. CASE k = "cm"
        BY <1>3, <4>1, ObjectKinds DEF ConfigMap
      <4>2. CASE k = "svc"
        BY <1>3, <4>2, ObjectKinds DEF Service
      <4>3. CASE k = "dep"
        <5>1. store["dep"] \in Deployment
          BY <1>3, <4>3, ObjectKinds
        <5> QED BY <4>3, <5>1 DEF Deployment
      <4> QED BY <1>5, <4>1, <4>2, <4>3, ObjectKinds
    <3> QED BY <1>1, <2>0, <3>1, NoneAssumption DEF Owners
  <2>2. Owners' = [Owners EXCEPT ![k] = None]
    <3>1. \A j \in Kinds \ {"nf"} :
            Owners'[j] = IF j = k THEN None ELSE Owners[j]
      BY <1>1, <2>0 DEF Owners
    <3> QED BY <2>0, <3>1 DEF Owners
  <2> QED BY <1>1, <1>2, <1>5, <2>1, <2>2, ObjectKinds DEF Life, PodVersion, Annotation
<1> QED BY <1>4, <1>5

-----------------------------------------------------------------------------
(* Each write is a step of NFLifecycle *)

Abstractly == [Lifecycle!Next]_(Lifecycle!variables)

LEMMA Stutters ==
  ASSUME UNCHANGED <<Life, Owners, PodVersion>>, UNCHANGED <<issued["nf"], issued["cm"]>>
  PROVE  Abstractly
BY DEF Abstractly, Lifecycle!variables

LEMMA NFWrittenAbstractly == ASSUME TypeInv, CopiesInv, NFWritten PROVE Abstractly
<1> USE DEF TypeInv, Abstractly, Lifecycle!Next
<1>1. issued["nf"] \in Nat
  BY ObjectKinds DEF ServerOK
<1>2. ASSUME store["nf"] = None, NEW spec \in Specs,
        Put("nf", [rv |-> NextRV("nf"), uid |-> NextRV("nf"), spec |-> spec, conds |-> <<>>])
      PROVE Lifecycle!Create
  <2> DEFINE object == [rv |-> NextRV("nf"), uid |-> NextRV("nf"), spec |-> spec, conds |-> <<>>]
  <2>1. object \in NFObject
    <3>1. <<>> \in Seq(NFConditionTypes)
      OBVIOUS
    <3> QED BY <3>1, NextRVOK, ObjectKinds DEF NFObject
  <2>2. Life = None /\ object.uid = issued["nf"] + 1 /\ object.conds = <<>>
    BY <1>2 DEF Life, NextRV
  <2>3. Put("nf", object)
    BY <1>2
  <2> HIDE DEF object
  <2> QED BY <2>1, <2>2, <2>3, PutNFShows DEF Lifecycle!Create
<1>3. ASSUME store["nf"] # None, NEW spec \in Specs,
        Put("nf", [store["nf"] EXCEPT !.rv = NextRV("nf"), !.spec = spec])
      PROVE Lifecycle!Edit
  <2> DEFINE object == [store["nf"] EXCEPT !.rv = NextRV("nf"), !.spec = spec]
  <2>1. store["nf"] \in NFObject
    BY <1>3, ObjectKinds DEF ServerOK
  <2>2. object \in NFObject /\ object.uid = store["nf"].uid /\ object.conds = store["nf"].conds
    BY <2>1, NextRVOK, ObjectKinds DEF NFObject
  <2>3. Life = [uid |-> store["nf"].uid, history |-> store["nf"].conds] /\ Life \in Lives
    BY <1>3, <2>1 DEF Life, Lives, NFObject
  <2>4. Put("nf", object)
    BY <1>3
  <2> HIDE DEF object
  <2> QED BY <2>2, <2>3, <2>4, PutNFShows, LivesAssumption DEF Lifecycle!Edit
<1>4. ASSUME pc = "status", SameVersion("nf", w.nf),
        StatusUpdateNeeded(w.dep.conds, w.nf.conds),
        Put("nf", [w.nf EXCEPT !.rv = NextRV("nf"),
                               !.conds = CreateNfDeploymentStatus(w.dep.conds, w.nf.conds)])
      PROVE Lifecycle!Report
  <2> DEFINE old == w.nf.conds
             new == CreateNfDeploymentStatus(w.dep.conds, w.nf.conds)
             object == [w.nf EXCEPT !.rv = NextRV("nf"), !.conds = new]
  <2>1. w.nf \in NFObject /\ w.nf # None /\ w.dep \in Deployment /\ w.nf \in Copies("nf")
    BY <1>4 DEF WorkerOK, Pass, Copies
  <2>2. store["nf"] = w.nf
    BY <1>4, <2>1, ObjectKinds DEF CopiesInv, NoNewer, SameVersion
  <2>3. Life = [uid |-> w.nf.uid, history |-> old] /\ Life \in Lives
    BY <2>1, <2>2 DEF Life, Lives, NFObject
  <2>4. old \in Seq(NFConditionTypes) /\ w.dep.conds \in Seq(DeploymentConditions)
    BY <2>1 DEF NFObject, Deployment
  <2>5. PICK type \in NFConditionTypes :
          new = Append(old, type) /\ Lifecycle!MayFollow(type, old)
    <3>1. CASE old = <<>>
      BY <2>4, <3>1 DEF CreateNfDeploymentStatus, NFConditionTypes, Lifecycle!MayFollow
    <3>2. CASE old # <<>>
      <4> DEFINE first == Head(w.dep.conds).type
      <4>1. w.dep.conds # <<>> /\ new = Append(old, ReportedAs[first])
        BY <1>4, <3>2 DEF StatusUpdateNeeded, CreateNfDeploymentStatus
      <4>2. first \in DeploymentConditionTypes
        <5>1. Head(w.dep.conds) \in DeploymentConditions
          BY <2>4, <4>1
        <5> QED BY <5>1 DEF DeploymentConditions
      <4>3. first # Last(old) /\ ~ (first = "Progressing" /\ Last(old) = "Reconciling")
        BY <1>4, <3>2 DEF StatusUpdateNeeded
      <4>4. ReportedAs[first] = Last(old) => ReportedAs[first] = "Stalled"
        BY <4>2, <4>3 DEF ReportedAs, DeploymentConditionTypes
      <4>5. ReportedAs[first] \in NFConditionTypes
        BY <4>2 DEF ReportedAs, DeploymentConditionTypes, NFConditionTypes
      <4> QED BY <3>2, <4>1, <4>4, <4>5 DEF Last, Lifecycle!MayFollow
    <3> QED BY <3>1, <3>2
  <2>6. new \in Seq(NFConditionTypes)
    BY <2>4, <2>5
  <2> HIDE DEF new
  <2>7. object \in NFObject /\ object.uid = w.nf.uid /\ object.conds = new
    BY <2>1, <2>6, NextRVOK, ObjectKinds DEF NFObject
  <2>8. Put("nf", object)
    BY <1>4 DEF new
  <2> HIDE DEF object
  <2>9. Life' = [Life EXCEPT !.history = Append(@, type)]
    BY <2>3, <2>5, <2>7, <2>8, PutNFShows
  <2> QED BY <2>3, <2>5, <2>7, <2>8, <2>9, PutNFShows, LivesAssumption
          DEF Lifecycle!Report, Lifecycle!Conditions, NFConditionTypes
<1> QED BY <1>2, <1>3, <1>4 DEF NFWritten

(* A pass that creates something names an NFDeployment that existed. *)
LEMMA OwnerIssued ==
  ASSUME TypeInv, IssuedUids, pc \notin {"idle", "read"}
  PROVE  ControlledBy(w.nf) \in 1 .. issued["nf"] /\ ControlledBy(w.nf) \in Nat
<1>1. w.nf \in NFObject /\ w.nf \in Copies("nf") /\ w.nf # None
  BY DEF TypeInv, WorkerOK, Pass, Copies
<1> QED BY <1>1 DEF IssuedUids, ControlledBy, NFObject

LEMMA ConfigMapWrittenAbstractly ==
  ASSUME TypeInv, IssuedUids, ConfigMapWritten PROVE Abstractly
<1> USE DEF Abstractly, Lifecycle!Next
<1>1. ASSUME pc = "configmap", store["cm"] = None, NEW data \in Content,
        Put("cm", [rv |-> NextRV("cm"), owner |-> ControlledBy(w.nf), data |-> data])
      PROVE Lifecycle!Build("cm")
  <2> DEFINE object == [rv |-> NextRV("cm"), owner |-> ControlledBy(w.nf), data |-> data]
  <2>1. object.owner \in 1 .. issued["nf"]
    BY <1>1, OwnerIssued
  <2>2. object \in Object("cm")
    BY <1>1, OwnerIssued, NextRVOK, ObjectKinds DEF ConfigMap, TypeInv
  <2>3. Owners["cm"] = None
    BY <1>1, ObjectKinds DEF Owners
  <2>4. Put("cm", object)
    BY <1>1
  <2> HIDE DEF object
  <2> QED BY <2>1, <2>2, <2>3, <2>4, PutPartShows, ObjectKinds DEF Lifecycle!Build
<1>2. ASSUME store["cm"] # None,
        Put("cm", [store["cm"] EXCEPT !.rv = NextRV("cm"), !.data = Edited])
      PROVE Lifecycle!Configure
  <2> DEFINE object == [store["cm"] EXCEPT !.rv = NextRV("cm"), !.data = Edited]
  <2>1. store["cm"] \in ConfigMap
    BY <1>2, ObjectKinds DEF TypeInv, ServerOK
  <2>2. object \in Object("cm") /\ object.owner = store["cm"].owner
    BY <2>1, NextRVOK, ObjectKinds DEF ConfigMap, TypeInv
  <2>3. Owners["cm"] # None
    BY <1>2, <2>1, OwnersKept, NoneAssumption, ObjectKinds DEF ConfigMap
  <2>4. Put("cm", object)
    BY <1>2
  <2> HIDE DEF object
  <2> QED BY <1>2, <2>2, <2>3, <2>4, PutPartShows, OwnersKept, ObjectKinds DEF Lifecycle!Configure
<1>3. Lifecycle!Build("cm") => Lifecycle!Next
  BY DEF Lifecycle!Parts
<1> QED BY <1>1, <1>2, <1>3 DEF ConfigMapWritten

LEMMA ServiceWrittenAbstractly ==
  ASSUME TypeInv, IssuedUids, ServiceWritten PROVE Abstractly
<1> DEFINE object == [rv |-> NextRV("svc"), owner |-> ControlledBy(w.nf)]
<1>1. object.owner \in 1 .. issued["nf"]
  BY OwnerIssued DEF ServiceWritten
<1>2. object \in Object("svc")
  BY OwnerIssued, NextRVOK, ObjectKinds DEF Service, ServiceWritten, TypeInv
<1>3. Owners["svc"] = None
  BY ObjectKinds DEF Owners, ServiceWritten
<1>4. Put("svc", object)
  BY DEF ServiceWritten
<1> HIDE DEF object
<1>5. Lifecycle!Build("svc")
  BY <1>1, <1>2, <1>3, <1>4, PutPartShows, ObjectKinds DEF Lifecycle!Build
<1> QED BY <1>5 DEF Abstractly, Lifecycle!Next, Lifecycle!Parts

(* A write of an existing Deployment that keeps its controller. *)
LEMMA KeepingController ==
  ASSUME TypeInv, store["dep"] # None, NEW object \in Deployment, Put("dep", object),
         object.owner = store["dep"].owner,
         Annotation(object) \in {Annotation(store["dep"])} \cup 0 .. issued["cm"]
  PROVE  Abstractly
<1>1. store["dep"] \in Deployment
  BY ObjectKinds DEF TypeInv, ServerOK
<1>2. Owners["dep"] # None /\ Owners["dep"] = store["dep"].owner
  BY <1>1, OwnersKept, NoneAssumption, ObjectKinds DEF Deployment
<1>3. /\ UNCHANGED <<Life, Owners>> /\ PodVersion' = Annotation(object)
      /\ UNCHANGED <<issued["nf"], issued["cm"]>>
  BY OwnersKept, PutPartShows, ObjectKinds
<1>4. CASE Annotation(object) = Annotation(store["dep"])
  BY <1>3, <1>4, Stutters DEF PodVersion
<1>5. CASE Annotation(object) \in 0 .. issued["cm"]
  BY <1>2, <1>3, <1>5 DEF Abstractly, Lifecycle!Next, Lifecycle!Roll
<1> QED BY <1>4, <1>5

LEMMA DeploymentWrittenAbstractly ==
  ASSUME TypeInv, CopiesInv, VersionsInv, IssuedUids, OnlyLeaving => NeverUpdates,
         DeploymentWritten
  PROVE  Abstractly
<1> DEFINE dep == store["dep"]
<1>1. dep # None => dep \in Deployment
  BY ObjectKinds DEF TypeInv, ServerOK
<1>2. /\ w \in Pass /\ w.version \in Nat /\ w.version \in 0 .. issued["cm"]
      /\ issued["cm"] \in Nat /\ NextRV("dep") \in Nat
  BY NextRVOK, ObjectKinds DEF TypeInv, WorkerOK, Pass, VersionsInv, ServerOK
<1>3. CASE /\ pc = "create" /\ dep = None
           /\ Put("dep", [rv |-> NextRV("dep"), owner |-> ControlledBy(w.nf), ann |-> w.version,
                          tmpl |-> Planned.val, conds |-> <<>>, deleting |-> FALSE])
  <2> DEFINE object == [rv |-> NextRV("dep"), owner |-> ControlledBy(w.nf), ann |-> w.version,
                        tmpl |-> Planned.val, conds |-> <<>>, deleting |-> FALSE]
  <2>1. object.owner \in 1 .. issued["nf"] /\ ControlledBy(w.nf) \in Nat
    BY <1>3, OwnerIssued
  <2>2. object \in Object("dep")
    <3>1. <<>> \in Seq(DeploymentConditions)
      OBVIOUS
    <3>2. Planned.val \in Templates
      BY <1>3, PlannedOK DEF TypeInv
    <3> QED BY <1>2, <2>1, <3>1, <3>2, ObjectKinds DEF Deployment
  <2>3. Annotation(object) \in 1 .. issued["cm"]
    BY <1>2, <1>3, NoneAssumption DEF Annotation, VersionsInv, AfterConfigMapSteps
  <2>4. Owners["dep"] = None
    BY <1>3, ObjectKinds DEF Owners
  <2>5. Put("dep", object)
    BY <1>3
  <2> HIDE DEF object
  <2>6. Lifecycle!Build("dep")
    BY <2>1, <2>2, <2>3, <2>4, <2>5, PutPartShows, ObjectKinds DEF Lifecycle!Build
  <2> QED BY <2>6 DEF Abstractly, Lifecycle!Next, Lifecycle!Parts
<1>4. CASE /\ pc = "roll" /\ SameVersion("dep", w.dep)
           /\ Put("dep", [w.dep EXCEPT !.rv = NextRV("dep"), !.ann = w.version])
  <2> DEFINE object == [w.dep EXCEPT !.rv = NextRV("dep"), !.ann = w.version]
  <2>1. w.dep \in Deployment /\ w.dep # None /\ w.dep \in Copies("dep")
    BY <1>4, ObjectKinds DEF TypeInv, WorkerOK, Pass, Copies
  <2>2. dep = w.dep
    BY <1>4, <2>1, ObjectKinds DEF CopiesInv, NoNewer, SameVersion
  <2>3. object \in Deployment /\ object.owner = dep.owner /\ object.ann = w.version
    BY <1>2, <2>1, <2>2 DEF Deployment
  <2>4. Annotation(object) \in 0 .. issued["cm"]
    BY <1>2, <2>3, NoneAssumption DEF Annotation
  <2>5. Put("dep", object)
    BY <1>4
  <2> HIDE DEF object
  <2> QED BY <2>1, <2>2, <2>3, <2>4, <2>5, KeepingController
<1>5. CASE /\ pc = "update" /\ dep # None
           /\ \E object \in Deployment :
                /\ object.rv = NextRV("dep") /\ object.owner = 0 /\ object.ann = w.version
                /\ Put("dep", object)
  <2>1. PICK object \in Deployment :
          object.owner = 0 /\ object.ann = w.version /\ Put("dep", object)
    BY <1>5
  <2>2. Annotation(object) \in 0 .. issued["cm"]
    BY <1>2, <2>1, NoneAssumption DEF Annotation
  <2>3. Owners["dep"] # None
    BY <1>1, <1>5, OwnersKept, NoneAssumption, ObjectKinds DEF Deployment
  <2>4. ~ OnlyLeaving
    BY <1>5 DEF NeverUpdates
  <2>5. Lifecycle!Release
    BY <2>1, <2>2, <2>3, <2>4, PutPartShows, ObjectKinds DEF Lifecycle!Release
  <2> QED BY <2>5 DEF Abstractly, Lifecycle!Next
<1>6. ASSUME dep # None, NEW conds \in Seq(DeploymentConditions),
             Put("dep", [dep EXCEPT !.rv = NextRV("dep"), !.conds = conds])
      PROVE  Abstractly
  <2> DEFINE object == [dep EXCEPT !.rv = NextRV("dep"), !.conds = conds]
  <2>1. object \in Deployment /\ object.owner = dep.owner /\ object.ann = dep.ann
    BY <1>1, <1>2, <1>6 DEF Deployment
  <2>2. Put("dep", object)
    BY <1>6
  <2> HIDE DEF object
  <2> QED BY <1>6, <2>1, <2>2, KeepingController DEF Annotation
<1>7. CASE dep # None /\ Put("dep", [dep EXCEPT !.rv = NextRV("dep"), !.deleting = TRUE])
  <2> DEFINE object == [dep EXCEPT !.rv = NextRV("dep"), !.deleting = TRUE]
  <2>1. object \in Deployment /\ object.owner = dep.owner /\ object.ann = dep.ann
    BY <1>1, <1>2, <1>7 DEF Deployment
  <2>2. Put("dep", object)
    BY <1>7
  <2> HIDE DEF object
  <2> QED BY <1>7, <2>1, <2>2, KeepingController DEF Annotation
<1>8. ASSUME dep # None, NEW ann \in {dep.ann, None},
             Put("dep", [dep EXCEPT !.rv = NextRV("dep"), !.ann = ann, !.tmpl = Edited])
      PROVE  Abstractly
  <2> DEFINE object == [dep EXCEPT !.rv = NextRV("dep"), !.ann = ann, !.tmpl = Edited]
  <2>1. object \in Deployment /\ object.owner = dep.owner /\ object.ann = ann
    BY <1>1, <1>2, <1>8 DEF Deployment
  <2>2. Annotation(object) = Annotation(dep) \/ Annotation(object) = 0
    BY <1>8, <2>1 DEF Annotation
  <2>3. Put("dep", object)
    BY <1>8
  <2> HIDE DEF object
  <2> QED BY <1>2, <1>8, <2>1, <2>2, <2>3, KeepingController
<1> QED BY <1>3, <1>4, <1>5, <1>6, <1>7, <1>8 DEF DeploymentWritten

LEMMA EraseAbstractly == ASSUME TypeInv, NEW k \in Kinds, Erase(k) PROVE Abstractly
<1>1. CASE k = "nf"
  BY <1>1, EraseShows DEF Abstractly, Lifecycle!Next, Lifecycle!Delete
<1>2. CASE k # "nf"
  <2>1. Lifecycle!Remove(k)
    BY <1>2, EraseShows DEF Lifecycle!Remove
  <2> QED BY <1>2, <2>1, ObjectKinds DEF Abstractly, Lifecycle!Next, Lifecycle!Parts
<1> QED BY <1>1, <1>2

LEMMA StepAbstractly ==
  ASSUME TypeInv, CopiesInv, VersionsInv, IssuedUids, OnlyLeaving => NeverUpdates, [Next]_vars
  PROVE  Abstractly
<1>1. CASE ServerUnchanged
  <2>1. UNCHANGED <<Life, Owners, PodVersion>> /\ UNCHANGED <<issued["nf"], issued["cm"]>>
    BY <1>1 DEF ServerUnchanged, Life, Owners, PodVersion, Annotation
  <2> QED BY <2>1, Stutters
<1> QED
  BY <1>1, ServerStep, NFWrittenAbstractly, ConfigMapWrittenAbstractly, ServiceWrittenAbstractly,
     DeploymentWrittenAbstractly, EraseAbstractly
  DEF Written, Updated

LEMMA InitAbstractly == Init => Lifecycle!Init
BY ObjectKinds
DEF Init, Life, Owners, PodVersion, Lifecycle!Init, Lifecycle!Parts

-----------------------------------------------------------------------------
(* The theorems *)

RefinementInv ==
  TypeInv /\ CopiesInv /\ VersionsInv /\ IssuedUids /\ (OnlyLeaving => NeverUpdates)

(* What the refinement needs of every state: versions and uids that the     *)
(* operator holds were issued by the server, and copies are of its objects. *)
THEOREM RefinementInvInvariant == Spec => []RefinementInv
<1>1. Init => RefinementInv
  <2>1. Init => VersionsInv
    BY ObjectKinds DEF Init, VersionsInv, NoPass, AfterConfigMapSteps
  <2>2. Init => IssuedUids
    BY InitCopies, ObjectKinds DEF IssuedUids
  <2>3. Init => NeverUpdates
    BY NoneAssumption DEF Init, NeverUpdates, NoPass
  <2> QED BY <2>1, <2>2, <2>3, InitTypeInv, InitCopiesInv DEF RefinementInv
<1>2. RefinementInv /\ [Next]_vars => RefinementInv'
  <2> SUFFICES ASSUME RefinementInv, [Next]_vars PROVE RefinementInv'
    OBVIOUS
  <2>1. (OnlyLeaving => NeverUpdates)'
    BY StepNeverUpdates DEF RefinementInv, OnlyLeaving
  <2> QED BY <2>1, StepTypeInv, StepCopiesInv, StepVersionsInv, StepIssuedUids DEF RefinementInv
<1> QED BY <1>1, <1>2, PTL DEF Spec

(* To a client of the API server the operator, with its caches, passes,     *)
(* retries and crashes, is the machine of NFLifecycle: whatever it writes is *)
(* a history that goes on, a part built once under an owner that existed, a *)
(* Deployment made from a ConfigMap that was written.                      *)
THEOREM LifecycleImplemented == Spec => ImplementsLifecycle
<1>1. Init => Lifecycle!Init
  BY InitAbstractly
<1>2. RefinementInv /\ [Next]_vars => [Lifecycle!Next]_(Lifecycle!variables)
  BY StepAbstractly DEF RefinementInv, Abstractly
<1> QED BY <1>1, <1>2, RefinementInvInvariant, PTL DEF Spec, ImplementsLifecycle, Lifecycle!Spec

RollKeeps ==
  pc = "roll" /\ pc' # "roll" /\ store' # store =>
    store' = [store EXCEPT !["dep"].rv = issued'["dep"], !["dep"].ann = w.version]

LEMMA RollStep == ASSUME TypeInv, CopiesInv, [Next]_vars PROVE RollKeeps
<1> SUFFICES ASSUME pc = "roll", pc' # "roll", store' # store PROVE RollKeeps
  BY DEF RollKeeps
<1>1. RollDeployment
  <2>1. Reconcile
    BY OutsideStep
  <2> QED BY <2>1 DEF Reconcile, Dequeue, ReadState, SyncStatus, FetchConfigRef, EnsureConfigMap,
             EnsureService, PlanDeployment, CheckNAD, CreateNewDeployment, UpdateDeployment
<1> DEFINE object == [w.dep EXCEPT !.rv = NextRV("dep"), !.ann = w.version]
<1>2. SameVersion("dep", w.dep) /\ Put("dep", object)
  BY <1>1 DEF RollDeployment, Panic, Restart, Write, server
<1>3. w.dep \in Deployment /\ w.dep # None /\ w.dep \in Copies("dep")
  BY ObjectKinds DEF TypeInv, WorkerOK, Pass, Copies
<1>4. store["dep"] = w.dep
  BY <1>2, <1>3, ObjectKinds DEF CopiesInv, NoNewer, SameVersion
<1>5. issued'["dep"] = NextRV("dep") /\ store' = [store EXCEPT !["dep"] = object]
  BY <1>2, ObjectKinds DEF Put, TypeInv, ServerOK
<1>6. [store EXCEPT !["dep"].rv = issued'["dep"], !["dep"].ann = w.version]
        = [store EXCEPT !["dep"] = [store["dep"] EXCEPT !.rv = issued'["dep"], !.ann = w.version]]
  BY ObjectKinds DEF TypeInv, ServerOK
<1> QED BY <1>4, <1>5, <1>6 DEF RollKeeps

(* Rolling the pods never undoes what somebody else changed about the       *)
(* Deployment after the pass read it (the resource version of the update). *)
THEOREM RollsKeepEdits == Spec => RollKeepsEdits
<1>1. Inv /\ [Next]_vars => [RollKeeps]_vars
  BY RollStep DEF Inv
<1> QED BY <1>1, InvInvariant, PTL DEF Spec, RollKeepsEdits, RollKeeps

(* What is true of all three reconcilers of what is left behind. *)
ConfigAndServiceGone ==
  Quiet /\ store["nf"] = None => store["cm"] = None /\ store["svc"] = None

(* ConfigMap and Service, of which every copy has a controller, go with the *)
(* NFDeployment under all three reconcilers, those included that let go of *)
(* their Deployment (UpdateDeployment), and in spite of passes that still   *)
(* create parts after the deletion.                                        *)
THEOREM ConfigAndServiceCollected == Spec => []ConfigAndServiceGone
<1>1. OwnedInv => ConfigAndServiceGone
  BY ObjectKinds
     DEF OwnedInv, ConfigAndServiceCopiesOwned, Copies, ConfigAndServiceGone, Quiet, Orphaned
<1> QED BY <1>1, OwnedInvInvariant, PTL

(* Under reconcilers that leave an existing Deployment alone, the garbage   *)
(* collector finds everything that an NFDeployment leaves behind.          *)
THEOREM OwnedIsCollected == ASSUME OnlyLeaving PROVE Spec => []NothingLeftBehind
<1>1. ConfigAndServiceGone /\ DeploymentOwned => NothingLeftBehind
  BY ObjectKinds DEF Kinds, ConfigAndServiceGone, DeploymentOwned, NothingLeftBehind, Quiet, Orphaned
<1> QED BY <1>1, ConfigAndServiceCollected, DeploymentIsOwned, PTL

===============================================================================
