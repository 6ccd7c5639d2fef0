-------------------------- MODULE NFReconcilerProofs --------------------------
(***************************************************************************)
(* Theorems about NFReconciler, for every value of its constants.          *)
(***************************************************************************)
EXTENDS NFReconciler, TLAPS

Pass == [provider : NFs \cup {None}, nf : NFObject \cup {None}, version : Nat,
         svcFound : BOOLEAN, dep : Deployment \cup {None},
         fetched : FetchedConfigs, next : Nat]

ServerOK ==
  /\ DOMAIN store = Kinds /\ \A k \in Kinds : store[k] \in Object(k) \cup {None}
  /\ issued \in [Kinds -> Nat]
  /\ DOMAIN watch = Kinds /\ \A k \in Kinds : watch[k] \in Seq(Object(k) \cup {None})

CacheOK ==
  DOMAIN cache = Kinds /\ \A k \in Kinds : cache[k] \in Object(k) \cup {None}

ClusterOK == nads \subseteq NADs /\ configs \in FetchedConfigs

QueueOK == queued \in BOOLEAN /\ timer \in BOOLEAN

SpentOK == spent \in [ops : Nat, faults : Nat, crashes : Nat]

WorkerOK ==
  /\ pc \in Steps /\ w \in Pass
  /\ pc # "idle" => w.provider \in NFs
  /\ pc \notin {"idle", "read"} => w.nf # None
  /\ pc \in {"status", "roll", "update"} => w.dep # None

TypeInv == ServerOK /\ CacheOK /\ ClusterOK /\ QueueOK /\ SpentOK /\ WorkerOK

LEMMA TypeInvImpliesTypeOK == TypeInv => TypeOK
BY DEF TypeInv, TypeOK, ServerOK, CacheOK, ClusterOK, QueueOK, SpentOK, WorkerOK, Pass

LEMMA PutOK ==
  ASSUME ServerOK, NEW k \in Kinds, NEW object \in Object(k), Put(k, object)
  PROVE  ServerOK'
<1>1. DOMAIN store' = Kinds /\ \A j \in Kinds : store'[j] \in Object(j) \cup {None}
  BY DEF ServerOK, Put
<1>2. issued' \in [Kinds -> Nat]
  BY DEF ServerOK, Put, NextRV
<1>3. DOMAIN watch' = Kinds
  BY DEF ServerOK, Put
<1>4. ASSUME NEW j \in Kinds PROVE watch'[j] \in Seq(Object(j) \cup {None})
  <2>1. CASE j = k
    <3>1. watch'[j] = Append(watch[j], object)
      BY <2>1 DEF ServerOK, Put
    <3>2. watch[j] \in Seq(Object(j) \cup {None}) /\ object \in Object(j) \cup {None}
      BY <2>1 DEF ServerOK
    <3> QED BY <3>1, <3>2
  <2>2. CASE j # k
    BY <2>2 DEF ServerOK, Put
  <2> QED BY <2>1, <2>2
<1> QED BY <1>1, <1>2, <1>3, <1>4 DEF ServerOK

LEMMA EraseOK == ASSUME ServerOK, NEW k \in Kinds, Erase(k) PROVE ServerOK'
BY DEF ServerOK, Erase

LEMMA NoPassOK == NoPass \in Pass
BY DEF NoPass, Pass, NothingFetched, FetchedConfigs

LEMMA InitTypeInv == Init => TypeInv
<1> SUFFICES ASSUME Init PROVE TypeInv
  OBVIOUS
<1>1. ServerOK
  BY DEF Init, ServerOK
<1>2. CacheOK /\ ClusterOK /\ QueueOK /\ SpentOK
  BY DEF Init, CacheOK, ClusterOK, QueueOK, SpentOK
<1>3. WorkerOK
  BY NoPassOK DEF Init, WorkerOK, Steps
<1> QED BY <1>1, <1>2, <1>3 DEF TypeInv

LEMMA SpendFaultOK == ASSUME SpentOK, SpendFault PROVE SpentOK'
BY DEF SpentOK, SpendFault

LEMMA WriteOK ==
  ASSUME ServerOK, SpentOK, NEW k \in Kinds, NEW accepted, NEW object,
         accepted => object \in Object(k), NEW ACTION Done, NEW ACTION Fail,
         Write(k, accepted, object, Done, Fail)
  PROVE  ServerOK' /\ SpentOK'
<1>1. ServerOK'
  <2>1. CASE UNCHANGED server
    BY <2>1 DEF server, ServerOK
  <2>2. CASE accepted /\ Put(k, object)
    BY <2>2, PutOK
  <2> QED BY <2>1, <2>2 DEF Write
<1>2. SpentOK'
  BY SpendFaultOK DEF Write, SpentOK
<1> QED BY <1>1, <1>2

LEMMA ObjectKinds ==
  /\ Kinds = {"nf", "cm", "svc", "dep"}
  /\ Object("nf") = NFObject /\ Object("cm") = ConfigMap
  /\ Object("svc") = Service /\ Object("dep") = Deployment
BY DEF Kinds, Object

(* What the server issues next is a version and a uid. *)
LEMMA NextRVOK == ASSUME ServerOK, NEW k \in Kinds PROVE NextRV(k) \in Nat /\ NextRV(k) > 0
BY DEF ServerOK, NextRV

-----------------------------------------------------------------------------
(* The controller *)

LEMMA ReturnOK == ASSUME QueueOK, Return PROVE QueueOK' /\ WorkerOK'
BY NoPassOK DEF Return, QueueOK, WorkerOK, Steps

LEMMA ReturnRequeueOK == ASSUME QueueOK, ReturnRequeue PROVE QueueOK' /\ WorkerOK'
BY NoPassOK DEF ReturnRequeue, QueueOK, WorkerOK, Steps

LEMMA ReturnRequeueAfterOK ==
  ASSUME QueueOK, ReturnRequeueAfter PROVE QueueOK' /\ WorkerOK'
BY NoPassOK DEF ReturnRequeueAfter, QueueOK, WorkerOK, Steps

LEMMA GotoOK == ASSUME QueueOK, NEW step, Goto(step) PROVE QueueOK'
BY DEF QueueOK, Goto

LEMMA RestartOK ==
  ASSUME ServerOK, ClusterOK, Restart
  PROVE  ServerOK' /\ CacheOK' /\ ClusterOK' /\ QueueOK' /\ WorkerOK'
<1>1. ServerOK' /\ CacheOK'
  BY DEF Restart, ServerOK, CacheOK
<1>2. ClusterOK'
  BY DEF Restart, ClusterOK, cluster
<1>3. QueueOK'
  BY DEF Restart, QueueOK, Listed
<1>4. WorkerOK'
  BY NoPassOK DEF Restart, WorkerOK, Steps
<1> QED BY <1>1, <1>2, <1>3, <1>4

LEMMA PanicTypeInv == ASSUME TypeInv, Panic PROVE TypeInv'
BY RestartOK DEF TypeInv, Panic, SpentOK

LEMMA CrashTypeInv == ASSUME TypeInv, Crash PROVE TypeInv'
<1>1. SpentOK'
  BY DEF Crash, TypeInv, SpentOK
<1> QED BY <1>1, RestartOK DEF TypeInv, Crash

LEMMA DeliverTypeInv == ASSUME TypeInv, NEW k \in Kinds, Deliver(k) PROVE TypeInv'
<1> USE DEF TypeInv
<1>1. watch[k] \in Seq(Object(k) \cup {None}) /\ watch[k] # <<>>
  BY DEF Deliver, ServerOK
<1>2. Head(watch[k]) \in Object(k) \cup {None} /\ Tail(watch[k]) \in Seq(Object(k) \cup {None})
  BY <1>1
<1>3. ServerOK' /\ CacheOK'
  BY <1>2 DEF Deliver, ServerOK, CacheOK
<1>4. QueueOK'
  BY DEF Deliver, QueueOK, Relevant
<1>5. ClusterOK' /\ SpentOK' /\ WorkerOK'
  BY DEF Deliver, cluster, ClusterOK, SpentOK, WorkerOK
<1> QED BY <1>3, <1>4, <1>5

LEMMA WakeTypeInv == ASSUME TypeInv, TimerFires \/ Resync PROVE TypeInv'
BY DEF TypeInv, TimerFires, Resync, server, cluster, ServerOK, CacheOK, ClusterOK, QueueOK,
       SpentOK, WorkerOK

-----------------------------------------------------------------------------
(* One pass *)

LEMMA DequeueTypeInv == ASSUME TypeInv, Dequeue PROVE TypeInv'
<1> USE DEF TypeInv
<1>1. ServerOK' /\ CacheOK' /\ ClusterOK' /\ SpentOK'
  BY DEF Dequeue, server, cluster, ServerOK, CacheOK, ClusterOK, SpentOK
<1>2. QueueOK'
  BY DEF Dequeue, QueueOK
<1>3. WorkerOK'
  BY NoPassOK DEF Dequeue, WorkerOK, Steps, Pass
<1> QED BY <1>1, <1>2, <1>3

LEMMA AfterDeploymentOK == ASSUME NEW nf PROVE AfterDeployment(nf) \in {"refs", "configmap"}
BY DEF AfterDeployment

LEMMA AfterConfigMapOK == ASSUME NEW nf PROVE AfterConfigMap(nf) \in {"service", "plan"}
BY DEF AfterConfigMap

LEMMA ReadStateTypeInv == ASSUME TypeInv, ReadState PROVE TypeInv'
<1> USE DEF TypeInv
<1>1. ServerOK' /\ CacheOK' /\ ClusterOK' /\ SpentOK'
  BY DEF ReadState, server, cluster, ServerOK, CacheOK, ClusterOK, SpentOK
<1>2. CASE cache["nf"] = None
  BY <1>1, <1>2, ReturnOK DEF ReadState
<1>3. CASE cache["nf"] # None
  <2>1. /\ cache["nf"] \in NFObject
        /\ cache["cm"] \in ConfigMap \cup {None}
        /\ cache["dep"] \in Deployment \cup {None}
    BY <1>3, ObjectKinds DEF CacheOK
  <2>2. Version(cache["cm"]) \in Nat
    BY <2>1 DEF Version, ConfigMap
  <2>3. w \in Pass /\ w.provider \in NFs
    BY DEF ReadState, WorkerOK
  <2>4. w' \in Pass /\ w'.provider = w.provider /\ w'.nf = cache["nf"] /\ w'.dep = cache["dep"]
    BY <1>3, <2>1, <2>2, <2>3 DEF ReadState, Pass
  <2>5. pc' = IF cache["dep"] # None THEN "status" ELSE AfterDeployment(w.provider)
    BY <1>3 DEF ReadState, Goto
  <2>6. WorkerOK'
    BY <1>3, <2>3, <2>4, <2>5, AfterDeploymentOK DEF WorkerOK, Steps
  <2> QED BY <1>1, <1>3, <2>6, GotoOK DEF ReadState
<1> QED BY <1>2, <1>3

(* What a step of a pass leaves to show when it goes on with w as it is. *)
LEMMA ProceedOK ==
  ASSUME QueueOK, WorkerOK, pc \notin {"idle", "read"}, NEW step, Proceed(step),
         step \in Steps, step \in {"status", "roll", "update"} => w.dep # None
  PROVE  QueueOK' /\ WorkerOK'
BY DEF Proceed, Goto, QueueOK, WorkerOK

(* The status that is written, when one has to be. *)
LEMMA NewStatusOK ==
  ASSUME NEW depConds \in Seq(DeploymentConditions), NEW nfConds \in Seq(NFConditionTypes),
         StatusUpdateNeeded(depConds, nfConds)
  PROVE  CreateNfDeploymentStatus(depConds, nfConds) \in Seq(NFConditionTypes)
<1>1. CASE nfConds = <<>>
  BY <1>1 DEF CreateNfDeploymentStatus, NFConditionTypes
<1>2. CASE nfConds # <<>>
  <2>1. depConds # <<>>
    BY <1>2 DEF StatusUpdateNeeded
  <2>2. Head(depConds) \in DeploymentConditions
    BY <2>1
  <2>3. ReportedAs[Head(depConds).type] \in NFConditionTypes
    BY <2>2 DEF DeploymentConditions, ReportedAs, NFConditionTypes, DeploymentConditionTypes
  <2> QED BY <1>2, <2>3 DEF CreateNfDeploymentStatus
<1> QED BY <1>1, <1>2

LEMMA SyncStatusTypeInv == ASSUME TypeInv, SyncStatus PROVE TypeInv'
<1> USE DEF TypeInv
<1>1. CacheOK' /\ ClusterOK'
  BY DEF SyncStatus, cluster, CacheOK, ClusterOK
<1>2. w.nf \in NFObject /\ w.dep \in Deployment
  BY DEF SyncStatus, WorkerOK, Pass
<1>3. Proceed("roll") => QueueOK' /\ WorkerOK'
  BY ProceedOK DEF SyncStatus, WorkerOK, Steps
<1> DEFINE new == [w.nf EXCEPT !.rv = NextRV("nf"),
                               !.conds = CreateNfDeploymentStatus(w.dep.conds, w.nf.conds)]
<1>4. CASE ~ w.dep.deleting /\ StatusUpdateNeeded(w.dep.conds, w.nf.conds)
  <2>1. CreateNfDeploymentStatus(w.dep.conds, w.nf.conds) \in Seq(NFConditionTypes)
    BY <1>2, <1>4, NewStatusOK DEF NFObject, Deployment
  <2>2. new \in Object("nf")
    BY <1>2, <2>1, NextRVOK, ObjectKinds DEF NFObject
  <2>3. Write("nf", SameVersion("nf", w.nf), new, Proceed("roll"), Return)
    BY <1>4 DEF SyncStatus
  <2> HIDE DEF new
  <2>4. ServerOK' /\ SpentOK'
    BY <2>2, <2>3, WriteOK, ObjectKinds
  <2>5. Proceed("roll") \/ Return
    BY <2>3 DEF Write
  <2> QED BY <1>1, <1>3, <2>4, <2>5, ReturnOK
<1>5. CASE ~ (~ w.dep.deleting /\ StatusUpdateNeeded(w.dep.conds, w.nf.conds))
  <2>1. ServerOK' /\ SpentOK' /\ Proceed("roll")
    BY <1>5 DEF SyncStatus, server, ServerOK, SpentOK
  <2> QED BY <1>1, <1>3, <2>1
<1> QED BY <1>4, <1>5

LEMMA RollDeploymentTypeInv == ASSUME TypeInv, RollDeployment PROVE TypeInv'
<1> USE DEF TypeInv
<1>1. w \in Pass /\ w.dep \in Deployment
  BY DEF RollDeployment, WorkerOK, Pass
<1> DEFINE new == [w.dep EXCEPT !.rv = NextRV("dep"), !.ann = w.version]
<1>2. CASE Panic
  BY <1>2, PanicTypeInv
<1>3. CASE Proceed(AfterDeployment(w.provider)) /\ UNCHANGED <<server, cache, cluster, spent>>
  <2>1. QueueOK' /\ WorkerOK'
    BY <1>3, ProceedOK, AfterDeploymentOK DEF RollDeployment, Steps
  <2> QED BY <1>3, <2>1 DEF server, cluster, ServerOK, CacheOK, ClusterOK, SpentOK
<1>4. CASE /\ Write("dep", SameVersion("dep", w.dep), new, ReturnRequeue, Return)
           /\ UNCHANGED <<cache, cluster>>
  <2>1. new \in Object("dep")
    BY <1>1, NextRVOK, ObjectKinds DEF Deployment, Pass
  <2> HIDE DEF new
  <2>2. ServerOK' /\ SpentOK'
    BY <1>4, <2>1, WriteOK, ObjectKinds
  <2>3. ReturnRequeue \/ Return
    BY <1>4 DEF Write
  <2> QED BY <1>4, <2>2, <2>3, ReturnOK, ReturnRequeueOK DEF cluster, CacheOK, ClusterOK
<1> QED BY <1>2, <1>3, <1>4 DEF RollDeployment

LEMMA FetchConfigRefTypeInv == ASSUME TypeInv, FetchConfigRef PROVE TypeInv'
<1> USE DEF TypeInv
<1> DEFINE refs == w.nf.spec.refs
           ref  == refs[w.next]
<1>1. w \in Pass /\ w.provider \in NFs /\ w.nf # None /\ pc = "refs"
  BY DEF FetchConfigRef, WorkerOK
<1>2. UNCHANGED <<server, cache, cluster, spent>> =>
        ServerOK' /\ CacheOK' /\ ClusterOK' /\ SpentOK'
  BY DEF server, cluster, ServerOK, CacheOK, ClusterOK, SpentOK
<1>3. CASE w.next > Len(refs)
  <2>1. w' \in Pass /\ w'.provider = w.provider /\ w'.nf = w.nf
    BY <1>1, <1>3 DEF FetchConfigRef, Pass
  <2>2. WorkerOK' /\ Goto("configmap") /\ UNCHANGED <<server, cache, cluster, spent>>
    BY <1>1, <1>3, <2>1 DEF FetchConfigRef, Goto, WorkerOK, Steps
  <2> QED BY <1>2, <2>2, GotoOK
<1>4. CASE ~ (w.next > Len(refs)) /\ ref = None
  BY <1>4, PanicTypeInv DEF FetchConfigRef
<1>5. CASE ~ (w.next > Len(refs)) /\ ref # None
  <2>1. UNCHANGED <<server, cache, cluster, spent>>
    BY <1>5 DEF FetchConfigRef
  <2>2. CASE configs[ref] = None
    BY <1>2, <1>5, <2>1, <2>2, ReturnOK DEF FetchConfigRef
  <2>3. CASE configs[ref] # None
    <3> DEFINE fetched == [w.fetched EXCEPT ![ref] = IF @ = None THEN configs[ref] ELSE @]
    <3>1. w' = [w EXCEPT !.next = @ + 1, !.fetched = fetched] /\ Goto("refs")
      BY <1>1, <1>5, <2>3 DEF FetchConfigRef, Pass
    <3>2. fetched \in FetchedConfigs
      BY <1>1 DEF Pass, FetchedConfigs, ClusterOK
    <3> HIDE DEF fetched
    <3>3. w' \in Pass /\ w'.provider = w.provider /\ w'.nf = w.nf
      <4>1. w.next + 1 \in Nat
        BY <1>1 DEF Pass
      <4> QED BY <1>1, <3>1, <3>2, <4>1 DEF Pass
    <3>4. WorkerOK'
      BY <1>1, <3>1, <3>3 DEF Goto, WorkerOK, Steps
    <3> QED BY <1>2, <2>1, <3>1, <3>4, GotoOK
  <2> QED BY <2>2, <2>3
<1> QED BY <1>3, <1>4, <1>5

LEMMA EnsureConfigMapTypeInv == ASSUME TypeInv, EnsureConfigMap PROVE TypeInv'
<1> USE DEF TypeInv
<1> DEFINE data == [nf |-> w.provider, spec |-> w.nf.spec, fetched |-> w.fetched]
           next == AfterConfigMap(w.provider)
           new  == [rv |-> NextRV("cm"), owner |-> ControlledBy(w.nf), data |-> data]
           keep == w' = [w EXCEPT !.version = NextRV("cm")] /\ Goto(next)
<1>1. w \in Pass /\ w.provider \in NFs /\ w.nf \in NFObject /\ pc = "configmap"
  BY DEF EnsureConfigMap, WorkerOK, Pass
<1>2. next \in {"service", "plan"}
  BY AfterConfigMapOK
<1>3. CASE Panic
  BY <1>3, PanicTypeInv
<1>4. CASE Return /\ UNCHANGED <<server, cache, cluster, spent>>
  BY <1>4, ReturnOK DEF server, cluster, ServerOK, CacheOK, ClusterOK, SpentOK
<1>5. CASE Proceed(next) /\ UNCHANGED <<server, cache, cluster, spent>>
  <2>1. QueueOK' /\ WorkerOK'
    BY <1>1, <1>2, <1>5, ProceedOK DEF Steps
  <2> QED BY <1>5, <2>1 DEF server, cluster, ServerOK, CacheOK, ClusterOK, SpentOK
<1>6. CASE Write("cm", store["cm"] = None, new, keep, Return) /\ UNCHANGED <<cache, cluster>>
  <2>1. data \in Content
    BY <1>1 DEF Content, Pass, NFObject
  <2>2. new \in Object("cm")
    BY <1>1, <2>1, NextRVOK, ObjectKinds DEF ConfigMap, ControlledBy, NFObject
  <2>3. keep => QueueOK' /\ WorkerOK'
    <3>1. ASSUME keep PROVE w' \in Pass /\ w'.provider = w.provider /\ w'.nf = w.nf
      BY <1>1, <3>1, NextRVOK, ObjectKinds DEF Pass
    <3> QED BY <1>1, <1>2, <3>1, GotoOK DEF Goto, WorkerOK, Steps
  <2>4. keep \/ Return
    BY <1>6 DEF Write
  <2> HIDE DEF new, keep
  <2>5. ServerOK' /\ SpentOK'
    BY <1>6, <2>2, WriteOK, ObjectKinds
  <2> QED BY <1>6, <2>3, <2>4, <2>5, ReturnOK DEF cluster, CacheOK, ClusterOK
<1> QED BY <1>3, <1>4, <1>5, <1>6 DEF EnsureConfigMap

LEMMA EnsureServiceTypeInv == ASSUME TypeInv, EnsureService PROVE TypeInv'
<1> USE DEF TypeInv
<1> DEFINE new == [rv |-> NextRV("svc"), owner |-> ControlledBy(w.nf)]
<1>1. CacheOK' /\ ClusterOK'
  BY DEF EnsureService, cluster, CacheOK, ClusterOK
<1>2. Proceed("plan") => QueueOK' /\ WorkerOK'
  BY ProceedOK DEF EnsureService, WorkerOK, Steps
<1>3. CASE w.svcFound
  BY <1>1, <1>2, <1>3 DEF EnsureService, server, ServerOK, SpentOK
<1>4. CASE ~ w.svcFound
  <2>1. w.nf \in NFObject
    BY DEF EnsureService, WorkerOK, Pass
  <2>2. new \in Object("svc")
    BY <2>1, NextRVOK, ObjectKinds DEF Service, ControlledBy, NFObject
  <2>3. Write("svc", store["svc"] = None, new, Proceed("plan"), Return)
    BY <1>4 DEF EnsureService
  <2>4. Proceed("plan") \/ Return
    BY <2>3 DEF Write
  <2> HIDE DEF new
  <2>5. ServerOK' /\ SpentOK'
    BY <2>2, <2>3, WriteOK, ObjectKinds
  <2> QED BY <1>1, <1>2, <2>4, <2>5, ReturnOK
<1> QED BY <1>3, <1>4

LEMMA PlanDeploymentTypeInv == ASSUME TypeInv, PlanDeployment PROVE TypeInv'
<1> USE DEF TypeInv
<1>1. CASE Panic
  BY <1>1, PanicTypeInv
<1>2. CASE UNCHANGED <<server, cache, cluster, spent>> /\ QueueOK' /\ WorkerOK'
  BY <1>2 DEF server, cluster, ServerOK, CacheOK, ClusterOK, SpentOK
<1>3. CASE UNCHANGED <<server, cache, cluster, spent>> /\ Return
  BY <1>2, <1>3, ReturnOK
<1>4. CASE UNCHANGED <<server, cache, cluster, spent>> /\ Proceed("nad")
  BY <1>2, <1>4, ProceedOK DEF PlanDeployment, Steps
<1>5. CASE UNCHANGED <<server, cache, cluster, spent>> /\ Proceed("update") /\ w.dep # None
  BY <1>2, <1>5, ProceedOK DEF PlanDeployment, Steps
<1> QED BY <1>1, <1>3, <1>4, <1>5 DEF PlanDeployment

LEMMA CheckNADTypeInv == ASSUME TypeInv, CheckNAD PROVE TypeInv'
<1> USE DEF TypeInv
<1>1. ServerOK' /\ CacheOK' /\ ClusterOK'
  BY DEF CheckNAD, server, cluster, ServerOK, CacheOK, ClusterOK
<1>2. SpentOK'
  BY SpendFaultOK DEF CheckNAD, SpentOK
<1>3. CASE Proceed("create")
  BY <1>1, <1>2, <1>3, ProceedOK DEF CheckNAD, Steps
<1>4. CASE w' = [w EXCEPT !.next = @ + 1] /\ Goto("nad")
  <2>1. w \in Pass /\ pc = "nad" /\ w.provider \in NFs /\ w.nf # None
    BY DEF CheckNAD, WorkerOK
  <2>2. w' \in Pass /\ w'.provider = w.provider /\ w'.nf = w.nf
    BY <1>4, <2>1 DEF Pass
  <2>3. WorkerOK'
    BY <1>4, <2>1, <2>2 DEF Goto, WorkerOK, Steps
  <2> QED BY <1>1, <1>2, <1>4, <2>3, GotoOK
<1>5. CASE ReturnRequeueAfter
  BY <1>1, <1>2, <1>5, ReturnRequeueAfterOK
<1> QED BY <1>3, <1>4, <1>5 DEF CheckNAD

LEMMA PlannedOK == ASSUME WorkerOK, pc \notin {"idle", "read"} PROVE Planned.val \in Templates
<1>1. w.provider \in NFs /\ w.nf.spec \in Specs
  BY DEF WorkerOK, Pass, NFObject
<1> QED BY <1>1 DEF Planned, Templates

LEMMA CreateNewDeploymentTypeInv == ASSUME TypeInv, CreateNewDeployment PROVE TypeInv'
<1> USE DEF TypeInv
<1> DEFINE new == [rv |-> NextRV("dep"), owner |-> ControlledBy(w.nf), ann |-> w.version,
                   tmpl |-> Planned.val, conds |-> <<>>, deleting |-> FALSE]
<1>1. CacheOK' /\ ClusterOK'
  BY DEF CreateNewDeployment, cluster, CacheOK, ClusterOK
<1>2. w.nf \in NFObject /\ w.version \in Nat /\ Planned.val \in Templates
  BY PlannedOK DEF CreateNewDeployment, WorkerOK, Pass
<1>3. new \in Object("dep")
  <2>1. ControlledBy(w.nf) \in Nat
    BY <1>2 DEF ControlledBy, NFObject
  <2>2. <<>> \in Seq(DeploymentConditions)
    OBVIOUS
  <2> QED BY <1>2, <2>1, <2>2, NextRVOK, ObjectKinds DEF Deployment
<1>4. Write("dep", store["dep"] = None, new, ReturnRequeueAfter, ReturnRequeueAfter)
  BY DEF CreateNewDeployment
<1>5. ReturnRequeueAfter
  BY <1>4 DEF Write
<1> HIDE DEF new
<1>6. ServerOK' /\ SpentOK'
  BY <1>3, <1>4, WriteOK, ObjectKinds
<1> QED BY <1>1, <1>5, <1>6, ReturnRequeueAfterOK

LEMMA UpdateDeploymentTypeInv == ASSUME TypeInv, UpdateDeployment PROVE TypeInv'
<1> USE DEF TypeInv
<1> DEFINE object == [store["dep"] EXCEPT !.owner = 0, !.ann = w.version, !.tmpl = Planned.val]
           new == [object EXCEPT !.rv = NextRV("dep")]
<1>1. CacheOK' /\ ClusterOK'
  BY DEF UpdateDeployment, cluster, CacheOK, ClusterOK
<1>2. CASE Return /\ UNCHANGED <<server, spent>>
  BY <1>1, <1>2, ReturnOK DEF server, ServerOK, SpentOK
<1>3. CASE store["dep"] # None /\ Write("dep", TRUE, new, Return, Return)
  <2>1. w.version \in Nat /\ Planned.val \in Templates
    BY PlannedOK DEF UpdateDeployment, WorkerOK, Pass
  <2>2. store["dep"] \in Deployment
    BY <1>3, ObjectKinds DEF ServerOK
  <2>3. object \in Deployment
    BY <2>1, <2>2 DEF Deployment
  <2> HIDE DEF object
  <2>4. new \in Object("dep")
    BY <2>3, NextRVOK, ObjectKinds DEF Deployment
  <2>5. Return
    BY <1>3 DEF Write
  <2> HIDE DEF new
  <2>6. ServerOK' /\ SpentOK'
    BY <1>3, <2>4, WriteOK, ObjectKinds
  <2> QED BY <1>1, <2>5, <2>6, ReturnOK
<1> QED BY <1>2, <1>3 DEF UpdateDeployment

LEMMA ReconcileTypeInv == ASSUME TypeInv, Reconcile PROVE TypeInv'
BY DequeueTypeInv, ReadStateTypeInv, SyncStatusTypeInv, RollDeploymentTypeInv,
   FetchConfigRefTypeInv, EnsureConfigMapTypeInv, EnsureServiceTypeInv, PlanDeploymentTypeInv,
   CheckNADTypeInv, CreateNewDeploymentTypeInv, UpdateDeploymentTypeInv
DEF Reconcile

-----------------------------------------------------------------------------
(* Users and the rest of the cluster *)

LEMMA OperateOK ==
  ASSUME TypeInv, NEW op, Operate(op)
  PROVE  CacheOK' /\ QueueOK' /\ SpentOK' /\ WorkerOK'
BY DEF TypeInv, Operate, CacheOK, QueueOK, SpentOK, WorkerOK

(* An operation on one object of the server. *)
LEMMA OperatePutTypeInv ==
  ASSUME TypeInv, NEW op, Operate(op), UNCHANGED cluster,
         NEW k \in Kinds, NEW object \in Object(k), Put(k, object)
  PROVE  TypeInv'
<1>1. ServerOK'
  BY PutOK DEF TypeInv
<1>2. ClusterOK'
  BY DEF TypeInv, cluster, ClusterOK
<1> QED BY <1>1, <1>2, OperateOK DEF TypeInv

LEMMA CreateNFTypeInv == ASSUME TypeInv, CreateNF PROVE TypeInv'
<1>1. PICK spec \in Specs :
        Put("nf", [rv |-> NextRV("nf"), uid |-> NextRV("nf"), spec |-> spec, conds |-> <<>>])
  BY DEF CreateNF
<1>2. [rv |-> NextRV("nf"), uid |-> NextRV("nf"), spec |-> spec, conds |-> <<>>] \in Object("nf")
  <2>1. <<>> \in Seq(NFConditionTypes)
    OBVIOUS
  <2> QED BY <2>1, NextRVOK, ObjectKinds DEF NFObject, TypeInv
<1> QED BY <1>1, <1>2, OperatePutTypeInv, ObjectKinds DEF CreateNF

LEMMA EditSpecTypeInv == ASSUME TypeInv, EditSpec PROVE TypeInv'
<1>1. PICK spec \in Specs : Put("nf", [store["nf"] EXCEPT !.rv = NextRV("nf"), !.spec = spec])
  BY DEF EditSpec
<1> DEFINE new == [store["nf"] EXCEPT !.rv = NextRV("nf"), !.spec = spec]
<1>2. store["nf"] \in NFObject
  BY ObjectKinds DEF EditSpec, TypeInv, ServerOK
<1>3. new \in Object("nf")
  BY <1>2, NextRVOK, ObjectKinds DEF NFObject, TypeInv
<1>4. Put("nf", new)
  BY <1>1
<1> HIDE DEF new
<1> QED BY <1>3, <1>4, OperatePutTypeInv, ObjectKinds DEF EditSpec

LEMMA EditConfigMapTypeInv == ASSUME TypeInv, EditConfigMap PROVE TypeInv'
<1> DEFINE new == [store["cm"] EXCEPT !.rv = NextRV("cm"), !.data = Edited]
<1>1. store["cm"] \in ConfigMap
  BY ObjectKinds DEF EditConfigMap, TypeInv, ServerOK
<1>2. new \in Object("cm")
  BY <1>1, NextRVOK, ObjectKinds DEF ConfigMap, TypeInv
<1>3. Put("cm", new)
  BY DEF EditConfigMap
<1> HIDE DEF new
<1> QED BY <1>2, <1>3, OperatePutTypeInv, ObjectKinds DEF EditConfigMap

LEMMA MarkDeploymentDeletedTypeInv == ASSUME TypeInv, MarkDeploymentDeleted PROVE TypeInv'
<1> DEFINE new == [store["dep"] EXCEPT !.rv = NextRV("dep"), !.deleting = TRUE]
<1>1. store["dep"] \in Deployment
  BY ObjectKinds DEF MarkDeploymentDeleted, TypeInv, ServerOK
<1>2. new \in Object("dep")
  BY <1>1, NextRVOK, ObjectKinds DEF Deployment, TypeInv
<1>3. Put("dep", new)
  BY DEF MarkDeploymentDeleted
<1> HIDE DEF new
<1> QED BY <1>2, <1>3, OperatePutTypeInv, ObjectKinds DEF MarkDeploymentDeleted

LEMMA EditDeploymentTypeInv == ASSUME TypeInv, EditDeployment PROVE TypeInv'
<1>1. PICK ann \in {store["dep"].ann, None} :
        /\ Operate(IF ann = None THEN "StripDeployment" ELSE "EditDeployment")
        /\ Put("dep", [store["dep"] EXCEPT !.rv = NextRV("dep"), !.ann = ann, !.tmpl = Edited])
  BY DEF EditDeployment
<1> DEFINE new == [store["dep"] EXCEPT !.rv = NextRV("dep"), !.ann = ann, !.tmpl = Edited]
<1>2. store["dep"] \in Deployment
  BY ObjectKinds DEF EditDeployment, TypeInv, ServerOK
<1>3. new \in Object("dep")
  BY <1>2, NextRVOK, ObjectKinds DEF Deployment, TypeInv
<1>4. Put("dep", new)
  BY <1>1
<1> HIDE DEF new
<1> QED BY <1>1, <1>3, <1>4, OperatePutTypeInv, ObjectKinds DEF EditDeployment

(* A condition of the reported type, wherever it is, gives way to the new one. *)
LEMMA WithoutOK ==
  ASSUME NEW conds \in Seq(DeploymentConditions), NEW type
  PROVE  Without(conds, type) \in Seq(DeploymentConditions)
<1> DEFINE at == {i \in DOMAIN conds : conds[i].type = type}
<1>1. CASE at = {}
  BY <1>1 DEF Without
<1>2. CASE at # {}
  <2> DEFINE i == CHOOSE j \in at : TRUE
  <2>0. i \in 1 .. Len(conds)
    BY <1>2
  <2>1. Without(conds, type) = RemoveAt(conds, i)
    BY <1>2 DEF Without
  <2> HIDE DEF i
  <2>2. SubSeq(conds, 1, i - 1) \in Seq(DeploymentConditions)
    BY <2>0
  <2>3. SubSeq(conds, i + 1, Len(conds)) \in Seq(DeploymentConditions)
    BY <2>0
  <2> QED BY <2>1, <2>2, <2>3 DEF RemoveAt
<1> QED BY <1>1, <1>2

LEMMA ReportConditionTypeInv == ASSUME TypeInv, ReportCondition PROVE TypeInv'
<1>1. PICK c \in Reports : Put("dep", [store["dep"] EXCEPT
          !.rv = NextRV("dep"), !.conds = Append(Without(@, c.type), c)])
  BY DEF ReportCondition
<1> DEFINE conds == Append(Without(store["dep"].conds, c.type), c)
           new == [store["dep"] EXCEPT !.rv = NextRV("dep"), !.conds = conds]
<1>2. store["dep"] \in Deployment
  BY ObjectKinds DEF ReportCondition, TypeInv, ServerOK
<1>3. conds \in Seq(DeploymentConditions)
  <2>1. Without(store["dep"].conds, c.type) \in Seq(DeploymentConditions)
    BY <1>2, WithoutOK DEF Deployment
  <2>2. c \in DeploymentConditions
    BY ConditionsAssumption
  <2> QED BY <2>1, <2>2
<1>4. Put("dep", new)
  BY <1>1, <1>2 DEF Deployment
<1> HIDE DEF conds
<1>5. new \in Object("dep")
  BY <1>2, <1>3, NextRVOK, ObjectKinds DEF Deployment, TypeInv
<1> HIDE DEF new
<1> QED BY <1>4, <1>5, OperatePutTypeInv, ObjectKinds DEF ReportCondition

LEMMA EraseTypeInv ==
  ASSUME TypeInv, NEW k \in Kinds, Erase(k), UNCHANGED cluster,
         CacheOK', QueueOK', SpentOK', WorkerOK'
  PROVE  TypeInv'
BY EraseOK DEF TypeInv, cluster, ClusterOK

LEMMA DeleteObjectTypeInv ==
  ASSUME TypeInv, NEW op, NEW k \in Kinds, DeleteObject(op, k) PROVE TypeInv'
BY OperateOK, EraseTypeInv DEF DeleteObject

LEMMA ClusterTypeInv == ASSUME TypeInv, ChangeNADs \/ SetConfig PROVE TypeInv'
<1>1. ServerOK'
  BY DEF ChangeNADs, SetConfig, server, TypeInv, ServerOK
<1>2. ClusterOK'
  BY DEF ChangeNADs, SetConfig, TypeInv, ClusterOK, FetchedConfigs
<1> QED BY <1>1, <1>2, OperateOK DEF ChangeNADs, SetConfig, TypeInv

LEMMA UserTypeInv == ASSUME TypeInv, User PROVE TypeInv'
BY CreateNFTypeInv, EditSpecTypeInv, EditConfigMapTypeInv, MarkDeploymentDeletedTypeInv,
   EditDeploymentTypeInv, ReportConditionTypeInv, DeleteObjectTypeInv, ClusterTypeInv, ObjectKinds
DEF User

LEMMA CollectTypeInv ==
  ASSUME TypeInv, RemoveDeployment \/ \E k \in Kinds : GarbageCollect(k) PROVE TypeInv'
<1>1. Erase("dep") \/ \E k \in Kinds : Erase(k)
  BY DEF RemoveDeployment, GarbageCollect
<1>2. UNCHANGED Unused
  BY DEF RemoveDeployment, GarbageCollect
<1>3. UNCHANGED cluster /\ CacheOK' /\ QueueOK' /\ SpentOK' /\ WorkerOK'
  BY <1>2 DEF Unused, cluster, TypeInv, CacheOK, QueueOK, SpentOK, WorkerOK
<1> QED BY <1>1, <1>3, EraseTypeInv, ObjectKinds

-----------------------------------------------------------------------------
LEMMA StepTypeInv == TypeInv /\ [Next]_vars => TypeInv'
<1> SUFFICES ASSUME TypeInv, [Next]_vars PROVE TypeInv'
  OBVIOUS
<1>1. CASE UNCHANGED vars
  BY <1>1 DEF vars, server, cluster, TypeInv, ServerOK, CacheOK, ClusterOK, QueueOK, SpentOK,
              WorkerOK
<1>2. CASE Next
  BY <1>2, ReconcileTypeInv, DeliverTypeInv, WakeTypeInv, CrashTypeInv, UserTypeInv,
     CollectTypeInv
  DEF Next
<1> QED BY <1>1, <1>2

(* Every state is of its type, and a pass carries what its next step reads  *)
(* (the variables of Reconcile in the three reconcilers).                  *)
THEOREM TypeInvariant == Spec => []TypeInv
BY InitTypeInv, StepTypeInv, PTL DEF Spec

(* Whatever specs, Configs and reports there are and however many faults   *)
(* and crashes, every object on the server, under way or cached, and every *)
(* local variable of the pass holds a value of its kind.                   *)
THEOREM TypeCorrect == Spec => []TypeOK
BY TypeInvariant, TypeInvImpliesTypeOK, PTL

===============================================================================
