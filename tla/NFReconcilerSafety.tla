-------------------------- MODULE NFReconcilerSafety --------------------------
(***************************************************************************)
(* The safety properties of NFReconciler that hold for every value of its  *)
(* constants: what the operator creates is owned, and the reported status  *)
(* is a history.                                                           *)
(*                                                                         *)
(* All of them rest on two facts. What a step writes to the server is one  *)
(* of a few objects (ServerStep), and what the operator has read is what   *)
(* the server held at some time: no copy is newer than the last version    *)
(* issued, and a copy with the version of the stored NFDeployment is that  *)
(* NFDeployment (CopiesInv). So an update that passes the optimistic lock  *)
(* extends the status it replaces.                                         *)
(***************************************************************************)
EXTENDS NFReconcilerProofs

-----------------------------------------------------------------------------
(* What a step writes *)

NFWritten ==
  \/ /\ store["nf"] = None
     /\ \E spec \in Specs :
          Put("nf", [rv |-> NextRV("nf"), uid |-> NextRV("nf"), spec |-> spec, conds |-> <<>>])
  \/ /\ store["nf"] # None
     /\ \E spec \in Specs : Put("nf", [store["nf"] EXCEPT !.rv = NextRV("nf"), !.spec = spec])
  \/ /\ pc = "status" /\ SameVersion("nf", w.nf)
     /\ StatusUpdateNeeded(w.dep.conds, w.nf.conds)
     /\ Put("nf", [w.nf EXCEPT !.rv = NextRV("nf"),
                               !.conds = CreateNfDeploymentStatus(w.dep.conds, w.nf.conds)])

ConfigMapWritten ==
  \/ /\ pc = "configmap" /\ store["cm"] = None
     /\ \E data \in Content :
          Put("cm", [rv |-> NextRV("cm"), owner |-> ControlledBy(w.nf), data |-> data])
  \/ /\ store["cm"] # None /\ "EditConfigMap" \in UserOps
     /\ Put("cm", [store["cm"] EXCEPT !.rv = NextRV("cm"), !.data = Edited])

ServiceWritten ==
  /\ pc = "service" /\ pc' # pc /\ store["svc"] = None
  /\ Put("svc", [rv |-> NextRV("svc"), owner |-> ControlledBy(w.nf)])

DeploymentWritten ==
  \/ /\ pc = "create" /\ store["dep"] = None
     /\ Put("dep", [rv |-> NextRV("dep"), owner |-> ControlledBy(w.nf), ann |-> w.version,
                    tmpl |-> Planned.val, conds |-> <<>>, deleting |-> FALSE])
  \/ /\ pc = "roll" /\ SameVersion("dep", w.dep)
     /\ Put("dep", [w.dep EXCEPT !.rv = NextRV("dep"), !.ann = w.version])
  \/ /\ pc = "update" /\ store["dep"] # None
     /\ \E object \in Deployment :
          /\ object.rv = NextRV("dep") /\ object.owner = 0 /\ object.ann = w.version
          /\ object.deleting = store["dep"].deleting
          /\ Put("dep", object)
  \/ /\ store["dep"] # None
     /\ \E conds \in Seq(DeploymentConditions) :
          Put("dep", [store["dep"] EXCEPT !.rv = NextRV("dep"), !.conds = conds])
  \/ /\ store["dep"] # None /\ "MarkDeploymentDeleted" \in UserOps
     /\ Put("dep", [store["dep"] EXCEPT !.rv = NextRV("dep"), !.deleting = TRUE])
  \/ /\ store["dep"] # None /\ {"EditDeployment", "StripDeployment"} \cap UserOps # {}
     /\ \E ann \in {store["dep"].ann, None} :
          Put("dep", [store["dep"] EXCEPT !.rv = NextRV("dep"), !.ann = ann, !.tmpl = Edited])

Updated ==
  UNCHANGED cache /\ (NFWritten \/ ConfigMapWritten \/ ServiceWritten \/ DeploymentWritten)

Written == Updated \/ (UNCHANGED cache /\ \E k \in Kinds : Erase(k))

(* Every step leaves the server as it is, and the caches too unless it      *)
(* delivers an event or restarts the process, or it makes one of these      *)
(* writes.                                                                 *)
ServerUnchanged ==
  /\ UNCHANGED <<store, issued>>
  /\ UNCHANGED <<watch, cache>> \/ Restart \/ \E k \in Kinds : Deliver(k)

LEMMA ReconcileServerStep == ASSUME TypeInv, Reconcile PROVE ServerUnchanged \/ Updated
<1> USE DEF ServerUnchanged
<1>1. CASE Dequeue
  BY <1>1 DEF Dequeue, server
<1>2. CASE ReadState
  BY <1>2 DEF ReadState, server
<1>3. CASE SyncStatus
  BY <1>3 DEF SyncStatus, Write, server, Updated, NFWritten
<1>4. CASE RollDeployment
  BY <1>4 DEF RollDeployment, Panic, Restart, Write, server, Updated, DeploymentWritten
<1>5. CASE FetchConfigRef
  BY <1>5 DEF FetchConfigRef, Panic, Restart, server
<1>6. CASE EnsureConfigMap
  <2>1. CASE UNCHANGED server
    BY <1>6, <2>1 DEF EnsureConfigMap, Panic, Restart, Write, server, Put, TypeInv, ServerOK
  <2>2. CASE ~ UNCHANGED server
    <3>1. [nf |-> w.provider, spec |-> w.nf.spec, fetched |-> w.fetched] \in Content
      BY <1>6 DEF EnsureConfigMap, TypeInv, WorkerOK, Pass, Content, NFObject
    <3> QED BY <1>6, <2>2, <3>1
            DEF EnsureConfigMap, Panic, Restart, Write, server, Updated, ConfigMapWritten
  <2> QED BY <2>1, <2>2
<1>7. CASE EnsureService
  BY <1>7 DEF EnsureService, Write, server, Updated, ServiceWritten, Proceed, Goto, Return
<1>8. CASE PlanDeployment
  BY <1>8 DEF PlanDeployment, Panic, Restart, server
<1>9. CASE CheckNAD
  BY <1>9 DEF CheckNAD, server
<1>10. CASE CreateNewDeployment
  BY <1>10 DEF CreateNewDeployment, Write, server, Updated, DeploymentWritten
<1>11. CASE UpdateDeployment
  <2>1. CASE UNCHANGED <<server, cache>>
    BY <2>1 DEF server
  <2>2. CASE store["dep"] # None /\ ~ UNCHANGED <<server, cache>>
    <3> DEFINE object == [store["dep"] EXCEPT !.owner = 0, !.ann = w.version, !.tmpl = Planned.val]
               new    == [object EXCEPT !.rv = NextRV("dep")]
    <3>1. UNCHANGED cache /\ pc = "update" /\ Put("dep", new)
      BY <1>11, <2>2 DEF UpdateDeployment, Write, server
    <3>2. store["dep"] \in Deployment /\ w.version \in Nat
      BY <1>11, <2>2, ObjectKinds DEF TypeInv, ServerOK, UpdateDeployment, WorkerOK, Pass
    <3>3. Planned.val \in Templates
      BY <3>1, PlannedOK DEF TypeInv
    <3>4. object \in Deployment
      BY <3>2, <3>3 DEF Deployment
    <3>5. /\ object.owner = 0 /\ object.ann = w.version
          /\ object.deleting = store["dep"].deleting
      BY <3>2 DEF object, Deployment
    <3> HIDE DEF object
    <3>6. /\ new \in Deployment /\ new.rv = NextRV("dep")
          /\ new.owner = 0 /\ new.ann = w.version /\ new.deleting = store["dep"].deleting
      BY <3>4, <3>5, NextRVOK, ObjectKinds DEF Deployment, TypeInv
    <3> HIDE DEF new
    <3> QED BY <2>2, <3>1, <3>6 DEF Updated, DeploymentWritten
  <2> QED BY <1>11, <2>1, <2>2 DEF UpdateDeployment, server
<1> QED BY <1>1, <1>2, <1>3, <1>4, <1>5, <1>6, <1>7, <1>8, <1>9, <1>10, <1>11 DEF Reconcile

Deleted ==
  \/ DeleteObject("DeleteNF", "nf") \/ DeleteObject("DeleteConfigMap", "cm")
  \/ DeleteObject("DeleteService", "svc") \/ DeleteObject("DeleteDeployment", "dep")

LEMMA UserServerStep == ASSUME TypeInv, User PROVE ServerUnchanged \/ Updated \/ Deleted
<1>1. CASE CreateNF
  BY <1>1 DEF CreateNF, Operate, Updated, NFWritten
<1>2. CASE EditSpec
  BY <1>2 DEF EditSpec, Operate, Updated, NFWritten
<1>3. CASE EditConfigMap
  BY <1>3 DEF EditConfigMap, Operate, Updated, ConfigMapWritten
<1>4. CASE MarkDeploymentDeleted
  BY <1>4 DEF MarkDeploymentDeleted, Operate, Updated, DeploymentWritten
<1>5. CASE ChangeNADs \/ SetConfig
  BY <1>5 DEF ChangeNADs, SetConfig, Operate, server, ServerUnchanged
<1>6. CASE ReportCondition
  <2>1. PICK c \in Reports : Put("dep", [store["dep"] EXCEPT
            !.rv = NextRV("dep"), !.conds = Append(Without(@, c.type), c)])
    BY <1>6 DEF ReportCondition
  <2>2. store["dep"] # None /\ store["dep"] \in Deployment /\ UNCHANGED cache
    BY <1>6, ObjectKinds DEF ReportCondition, Operate, TypeInv, ServerOK
  <2> DEFINE conds == Append(Without(store["dep"].conds, c.type), c)
  <2>3. conds \in Seq(DeploymentConditions)
    <3>1. Without(store["dep"].conds, c.type) \in Seq(DeploymentConditions)
      BY <2>2, WithoutOK DEF Deployment
    <3> QED BY <3>1, ConditionsAssumption
  <2>4. Put("dep", [store["dep"] EXCEPT !.rv = NextRV("dep"), !.conds = conds])
    BY <2>1, <2>2 DEF Deployment
  <2> HIDE DEF conds
  <2> QED BY <2>2, <2>3, <2>4 DEF Updated, DeploymentWritten
<1>7. CASE EditDeployment
  BY <1>7 DEF EditDeployment, Operate, Updated, DeploymentWritten
<1> QED BY <1>1, <1>2, <1>3, <1>4, <1>5, <1>6, <1>7 DEF User, Deleted

LEMMA ServerStep == ASSUME TypeInv, [Next]_vars PROVE ServerUnchanged \/ Written
<1>1. CASE UNCHANGED vars
  BY <1>1 DEF vars, server, ServerUnchanged
<1>2. CASE \E k \in Kinds : Deliver(k)
  BY <1>2 DEF Deliver, ServerUnchanged
<1>3. CASE TimerFires \/ Resync
  BY <1>3 DEF TimerFires, Resync, server, ServerUnchanged
<1>4. CASE Crash
  BY <1>4 DEF Crash, Restart, ServerUnchanged
<1>5. CASE RemoveDeployment \/ \E k \in Kinds : GarbageCollect(k)
  BY <1>5, ObjectKinds DEF RemoveDeployment, GarbageCollect, Unused, Written, Updated
<1>6. CASE Deleted
  BY <1>6, ObjectKinds DEF Deleted, DeleteObject, Operate, Written
<1> QED
  BY <1>1, <1>2, <1>3, <1>4, <1>5, <1>6, ReconcileServerStep, UserServerStep DEF Next, Written

(* What happens to one kind: it stays, it is erased, or a new version of it *)
(* is put.                                                                 *)
Kept(k)    == store'[k] = store[k] /\ issued'[k] = issued[k]
Erased(k)  == store[k] # None /\ store'[k] = None /\ issued'[k] = issued[k]
Renewed(k) == issued'[k] = NextRV(k) /\ store'[k].rv = NextRV(k)

LEMMA PutRenews ==
  ASSUME TypeInv, NEW k \in Kinds, NEW object, object.rv = NextRV(k), Put(k, object)
  PROVE  \A j \in Kinds : Kept(j) \/ Renewed(j)
BY DEF Put, Kept, Renewed, TypeInv, ServerOK

LEMMA EraseErases ==
  ASSUME TypeInv, NEW k \in Kinds, Erase(k)
  PROVE  \A j \in Kinds : Kept(j) \/ Erased(j)
BY DEF Erase, Kept, Erased, TypeInv, ServerOK

LEMMA UpdatedObject ==
  ASSUME TypeInv, Updated
  PROVE  \E k \in Kinds : \E object \in Object(k) : object.rv = NextRV(k) /\ Put(k, object)
<1> USE DEF TypeInv
<1> DEFINE Puts(k) == \E object \in Object(k) : object.rv = NextRV(k) /\ Put(k, object)
<1>0. \A k \in Kinds : NextRV(k) \in Nat
  BY NextRVOK
<1>1. CASE NFWritten
  <2>1. ASSUME NEW spec \in Specs,
          Put("nf", [rv |-> NextRV("nf"), uid |-> NextRV("nf"), spec |-> spec, conds |-> <<>>])
        PROVE Puts("nf")
    <3>1. [rv |-> NextRV("nf"), uid |-> NextRV("nf"), spec |-> spec, conds |-> <<>>] \in NFObject
      <4>1. <<>> \in Seq(NFConditionTypes)
        OBVIOUS
      <4> QED BY <1>0, <4>1, ObjectKinds DEF NFObject
    <3> QED BY <2>1, <3>1, ObjectKinds
  <2>2. ASSUME NEW spec \in Specs, store["nf"] # None,
          Put("nf", [store["nf"] EXCEPT !.rv = NextRV("nf"), !.spec = spec])
        PROVE Puts("nf")
    <3>1. store["nf"] \in NFObject
      BY <2>2, ObjectKinds DEF ServerOK
    <3> DEFINE object == [store["nf"] EXCEPT !.rv = NextRV("nf"), !.spec = spec]
    <3>2. object \in NFObject /\ object.rv = NextRV("nf")
      BY <1>0, <3>1, ObjectKinds DEF NFObject
    <3>3. Put("nf", object)
      BY <2>2
    <3> HIDE DEF object
    <3> QED BY <3>2, <3>3, ObjectKinds
  <2>3. ASSUME pc = "status", StatusUpdateNeeded(w.dep.conds, w.nf.conds),
          Put("nf", [w.nf EXCEPT !.rv = NextRV("nf"),
                                 !.conds = CreateNfDeploymentStatus(w.dep.conds, w.nf.conds)])
        PROVE Puts("nf")
    <3> DEFINE conds  == CreateNfDeploymentStatus(w.dep.conds, w.nf.conds)
               object == [w.nf EXCEPT !.rv = NextRV("nf"), !.conds = conds]
    <3>1. w.nf \in NFObject /\ w.dep \in Deployment
      BY <2>3 DEF WorkerOK, Pass
    <3>2. w.nf.conds \in Seq(NFConditionTypes) /\ w.dep.conds \in Seq(DeploymentConditions)
      BY <3>1 DEF NFObject, Deployment
    <3>3. conds \in Seq(NFConditionTypes)
      BY <2>3, <3>2, NewStatusOK
    <3>4. Put("nf", object)
      BY <2>3
    <3> HIDE DEF conds
    <3>5. object \in NFObject /\ object.rv = NextRV("nf")
      BY <1>0, <3>1, <3>3, ObjectKinds DEF NFObject
    <3> HIDE DEF object
    <3> QED BY <3>4, <3>5, ObjectKinds
  <2> QED BY <1>1, <2>1, <2>2, <2>3, ObjectKinds DEF NFWritten
<1>2. CASE ConfigMapWritten
  <2>1. ASSUME store["cm"] # None,
          Put("cm", [store["cm"] EXCEPT !.rv = NextRV("cm"), !.data = Edited])
        PROVE Puts("cm")
    <3> DEFINE object == [store["cm"] EXCEPT !.rv = NextRV("cm"), !.data = Edited]
    <3>1. store["cm"] \in ConfigMap
      BY <2>1, ObjectKinds DEF ServerOK
    <3>2. object \in ConfigMap /\ object.rv = NextRV("cm")
      BY <1>0, <3>1, ObjectKinds DEF ConfigMap
    <3>3. Put("cm", object)
      BY <2>1
    <3> HIDE DEF object
    <3> QED BY <3>2, <3>3, ObjectKinds
  <2>2. ASSUME pc = "configmap", NEW data \in Content,
          Put("cm", [rv |-> NextRV("cm"), owner |-> ControlledBy(w.nf), data |-> data])
        PROVE Puts("cm")
    <3>1. ControlledBy(w.nf) \in Nat
      BY <2>2 DEF WorkerOK, Pass, ControlledBy, NFObject
    <3>2. [rv |-> NextRV("cm"), owner |-> ControlledBy(w.nf), data |-> data] \in ConfigMap
      BY <1>0, <3>1, ObjectKinds DEF ConfigMap
    <3> QED BY <2>2, <3>2, ObjectKinds
  <2> QED BY <1>2, <2>1, <2>2, ObjectKinds DEF ConfigMapWritten
<1>3. CASE ServiceWritten
  <2>1. ControlledBy(w.nf) \in Nat
    BY <1>3 DEF ServiceWritten, WorkerOK, Pass, ControlledBy, NFObject
  <2>2. [rv |-> NextRV("svc"), owner |-> ControlledBy(w.nf)] \in Service
    BY <1>0, <2>1, ObjectKinds DEF Service
  <2> QED BY <1>3, <2>2, ObjectKinds DEF ServiceWritten
<1>4. CASE DeploymentWritten
  <2>1. ASSUME pc = "create",
          Put("dep", [rv |-> NextRV("dep"), owner |-> ControlledBy(w.nf), ann |-> w.version,
                      tmpl |-> Planned.val, conds |-> <<>>, deleting |-> FALSE])
        PROVE Puts("dep")
    <3> DEFINE object == [rv |-> NextRV("dep"), owner |-> ControlledBy(w.nf), ann |-> w.version,
                          tmpl |-> Planned.val, conds |-> <<>>, deleting |-> FALSE]
    <3>1. w.version \in Nat /\ ControlledBy(w.nf) \in Nat /\ Planned.val \in Templates
      BY <2>1, PlannedOK DEF WorkerOK, Pass, ControlledBy, NFObject
    <3>2. <<>> \in Seq(DeploymentConditions)
      OBVIOUS
    <3>3. object \in Deployment /\ object.rv = NextRV("dep")
      BY <1>0, <3>1, <3>2, ObjectKinds DEF Deployment
    <3>4. Put("dep", object)
      BY <2>1
    <3> HIDE DEF object
    <3> QED BY <3>3, <3>4, ObjectKinds
  <2>2. \A object \in Deployment : object.rv = NextRV("dep") /\ Put("dep", object) => Puts("dep")
    BY ObjectKinds
  <2>3. store["dep"] # None => store["dep"] \in Deployment /\ store["dep"].ann \in Nat \cup {None}
    <3>1. store["dep"] # None => store["dep"] \in Deployment
      BY ObjectKinds DEF ServerOK
    <3> QED BY <3>1 DEF Deployment
  <2>4. pc = "roll" => w.dep \in Deployment /\ w.version \in Nat
    BY DEF WorkerOK, Pass
  <2> HIDE DEF Puts
  <2>5. ASSUME NEW dep \in Deployment, NEW ann \in Nat \cup {None},
               Put("dep", [dep EXCEPT !.rv = NextRV("dep"), !.ann = ann])
        PROVE  Puts("dep")
    <3> DEFINE object == [dep EXCEPT !.rv = NextRV("dep"), !.ann = ann]
    <3>1. object \in Deployment /\ object.rv = NextRV("dep")
      BY <1>0, ObjectKinds DEF Deployment
    <3> HIDE DEF object
    <3> QED BY <2>2, <2>5, <3>1 DEF object
  <2>6. ASSUME NEW dep \in Deployment, NEW conds \in Seq(DeploymentConditions),
               Put("dep", [dep EXCEPT !.rv = NextRV("dep"), !.conds = conds])
        PROVE  Puts("dep")
    <3> DEFINE object == [dep EXCEPT !.rv = NextRV("dep"), !.conds = conds]
    <3>1. object \in Deployment /\ object.rv = NextRV("dep")
      BY <1>0, ObjectKinds DEF Deployment
    <3> HIDE DEF object
    <3> QED BY <2>2, <2>6, <3>1 DEF object
  <2>7. ASSUME NEW dep \in Deployment,
               Put("dep", [dep EXCEPT !.rv = NextRV("dep"), !.deleting = TRUE])
        PROVE  Puts("dep")
    <3> DEFINE object == [dep EXCEPT !.rv = NextRV("dep"), !.deleting = TRUE]
    <3>1. object \in Deployment /\ object.rv = NextRV("dep")
      BY <1>0, ObjectKinds DEF Deployment
    <3> HIDE DEF object
    <3> QED BY <2>2, <2>7, <3>1 DEF object
  <2>8. ASSUME NEW dep \in Deployment, NEW ann \in Nat \cup {None},
               Put("dep", [dep EXCEPT !.rv = NextRV("dep"), !.ann = ann, !.tmpl = Edited])
        PROVE  Puts("dep")
    <3> DEFINE object == [dep EXCEPT !.rv = NextRV("dep"), !.ann = ann, !.tmpl = Edited]
    <3>1. object \in Deployment /\ object.rv = NextRV("dep")
      BY <1>0, ObjectKinds DEF Deployment
    <3> HIDE DEF object
    <3> QED BY <2>2, <2>8, <3>1 DEF object
  <2>9. Puts("dep")
    BY <1>4, <2>1, <2>2, <2>3, <2>4, <2>5, <2>6, <2>7, <2>8 DEF DeploymentWritten
  <2> QED BY <2>9, ObjectKinds DEF Puts
<1> QED BY <1>1, <1>2, <1>3, <1>4 DEF Updated

LEMMA StoreStep ==
  ASSUME TypeInv, [Next]_vars, NEW k \in Kinds PROVE Kept(k) \/ Erased(k) \/ Renewed(k)
<1>1. CASE ServerUnchanged
  BY <1>1 DEF ServerUnchanged, Kept
<1>2. CASE Written
  BY <1>2, UpdatedObject, PutRenews, EraseErases DEF Written
<1> QED BY <1>1, <1>2, ServerStep

-----------------------------------------------------------------------------
(* What the caches show and will show was on the server *)

Shown(k) == {cache[k]} \cup {watch[k][i] : i \in DOMAIN watch[k]}

LEMMA ShownStep ==
  ASSUME TypeInv, [Next]_vars, NEW k \in Kinds
  PROVE  Shown(k)' \subseteq Shown(k) \cup {store[k], store'[k], None}
<1> USE DEF TypeInv
<1>1. watch[k] \in Seq(Object(k) \cup {None}) /\ DOMAIN watch = Kinds /\ DOMAIN cache = Kinds
  BY DEF ServerOK, CacheOK
<1>2. CASE UNCHANGED <<watch, cache>>
  BY <1>2 DEF Shown
<1>3. CASE Restart
  BY <1>3 DEF Restart, Shown
<1>4. ASSUME NEW j \in Kinds, Deliver(j) PROVE Shown(k)' \subseteq Shown(k)
  <2>1. CASE j = k
    <3>1. cache'[k] = Head(watch[k]) /\ watch'[k] = Tail(watch[k]) /\ watch[k] # <<>>
      BY <1>1, <1>4, <2>1 DEF Deliver
    <3>2. Head(watch[k]) \in {watch[k][i] : i \in DOMAIN watch[k]}
      BY <1>1, <3>1
    <3>3. \A i \in DOMAIN Tail(watch[k]) :
            i + 1 \in DOMAIN watch[k] /\ Tail(watch[k])[i] = watch[k][i + 1]
      BY <1>1, <3>1
    <3> QED BY <3>1, <3>2, <3>3 DEF Shown
  <2>2. CASE j # k
    BY <1>1, <1>4, <2>2 DEF Deliver, Shown
  <2> QED BY <2>1, <2>2
<1>5. ASSUME UNCHANGED cache, NEW j \in Kinds, NEW object, Put(j, object)
      PROVE  Shown(k)' \subseteq Shown(k) \cup {store'[k]}
  <2>1. CASE j = k
    <3>1. watch'[k] = Append(watch[k], object) /\ store'[k] = object
      BY <1>1, <1>5, <2>1 DEF Put, ServerOK
    <3> QED BY <1>1, <1>5, <3>1 DEF Shown
  <2>2. CASE j # k
    BY <1>1, <1>5, <2>2 DEF Put, Shown
  <2> QED BY <2>1, <2>2
<1>6. ASSUME UNCHANGED cache, NEW j \in Kinds, Erase(j)
      PROVE  Shown(k)' \subseteq Shown(k) \cup {None}
  <2>1. CASE j = k
    <3>1. watch'[k] = Append(watch[k], None)
      BY <1>1, <1>6, <2>1 DEF Erase
    <3> QED BY <1>1, <1>6, <3>1 DEF Shown
  <2>2. CASE j # k
    BY <1>1, <1>6, <2>2 DEF Erase, Shown
  <2> QED BY <2>1, <2>2
<1>7. CASE Written
  BY <1>5, <1>6, <1>7, UpdatedObject DEF Written, Updated
<1> QED BY <1>2, <1>3, <1>4, <1>7, ServerStep DEF ServerUnchanged

-----------------------------------------------------------------------------
(* What the worker knows comes from the caches *)

Remembered == w'.nf = w.nf /\ w'.dep = w.dep /\ w'.provider = w.provider
Forgotten  == w'.nf = None /\ w'.dep = None /\ w'.provider = None
Dispatched == /\ w'.nf = None /\ w'.dep = None
              /\ cache["nf"] # None /\ w'.provider = cache["nf"].spec.provider
ReadAnew   == w'.nf = cache["nf"] /\ w'.dep = cache["dep"] /\ w'.provider = w.provider

WorkerKnows == Remembered \/ Forgotten \/ Dispatched \/ ReadAnew

LEMMA NoPassForgotten == ASSUME w' = NoPass PROVE Forgotten
BY DEF NoPass, Forgotten

LEMMA RememberedOK ==
  ASSUME w \in Pass, NEW v, NEW x, NEW fetched,
         \/ w' = w
         \/ w' = [w EXCEPT !.version = v]
         \/ w' = [w EXCEPT !.next = x]
         \/ w' = [w EXCEPT !.next = x, !.fetched = fetched]
  PROVE  Remembered
BY DEF Pass, Remembered

LEMMA ReconcileWorkerStep == ASSUME TypeInv, Reconcile PROVE WorkerKnows
<1>1. w \in Pass
  BY DEF TypeInv, WorkerOK
<1> USE DEF WorkerKnows
<1>2. CASE Dequeue
  BY <1>1, <1>2, RememberedOK DEF Dequeue, NoPass, Dispatched
<1>3. CASE ReadState
  <2>1. CASE cache["nf"] = None
    BY <1>3, <2>1, NoPassForgotten DEF ReadState, Return
  <2>2. CASE cache["nf"] # None
    BY <1>1, <1>3, <2>2 DEF ReadState, ReadAnew, Pass
  <2> QED BY <2>1, <2>2
<1>4. CASE SyncStatus
  BY <1>1, <1>4, NoPassForgotten, RememberedOK DEF SyncStatus, Write, Proceed, Return
<1>5. CASE RollDeployment
  BY <1>1, <1>5, NoPassForgotten, RememberedOK DEF RollDeployment, Panic, Restart, Write,
     Proceed, Return, ReturnRequeue
<1>6. CASE FetchConfigRef
  <2>1. \/ w' = [w EXCEPT !.next = 1]
        \/ w' = NoPass
        \/ \E ref : w' = [w EXCEPT !.next = w.next + 1,
                          !.fetched = [w.fetched EXCEPT ![ref] =
                             IF @ = None THEN configs[ref] ELSE @]]
    BY <1>1, <1>6 DEF FetchConfigRef, Panic, Restart, Return, Pass
  <2> QED BY <1>1, <2>1, NoPassForgotten, RememberedOK
<1>7. CASE EnsureConfigMap
  BY <1>1, <1>7, NoPassForgotten, RememberedOK DEF EnsureConfigMap, Write, Panic, Restart,
     Proceed, Return
<1>8. CASE EnsureService
  BY <1>1, <1>8, NoPassForgotten, RememberedOK DEF EnsureService, Write, Proceed, Return
<1>9. CASE PlanDeployment
  BY <1>1, <1>9, NoPassForgotten, RememberedOK DEF PlanDeployment, Panic, Restart, Proceed,
     Return
<1>10. CASE CheckNAD
  BY <1>1, <1>10, NoPassForgotten, RememberedOK DEF CheckNAD, Proceed, ReturnRequeueAfter
<1>11. CASE CreateNewDeployment
  BY <1>11, NoPassForgotten DEF CreateNewDeployment, Write, ReturnRequeueAfter
<1>12. CASE UpdateDeployment
  BY <1>12, NoPassForgotten DEF UpdateDeployment, Write, Return
<1> QED
  BY <1>2, <1>3, <1>4, <1>5, <1>6, <1>7, <1>8, <1>9, <1>10, <1>11, <1>12 DEF Reconcile

LEMMA WorkerStep == ASSUME TypeInv, [Next]_vars PROVE WorkerKnows
<1>1. CASE UNCHANGED w
  BY <1>1 DEF WorkerKnows, Remembered
<1>2. CASE Reconcile
  BY <1>2, ReconcileWorkerStep
<1>3. CASE Crash
  BY <1>3, NoPassForgotten DEF Crash, Restart, WorkerKnows
<1>4. CASE User
  BY <1>1, <1>4 DEF User, CreateNF, EditSpec, EditConfigMap, EditDeployment, MarkDeploymentDeleted,
     DeleteObject, ChangeNADs, SetConfig, ReportCondition, Operate
<1>5. CASE \/ \E k \in Kinds : Deliver(k) \/ GarbageCollect(k)
          \/ TimerFires \/ Resync \/ RemoveDeployment \/ UNCHANGED vars
  BY <1>1, <1>5 DEF Deliver, GarbageCollect, TimerFires, Resync, RemoveDeployment, Unused, vars
<1> QED BY <1>2, <1>3, <1>4, <1>5 DEF Next

-----------------------------------------------------------------------------
(* Copies are old versions *)

(* Everything that is or was the object of kind k, as far as anybody knows. *)
Copies(k) ==
  Shown(k) \cup {store[k]} \cup (CASE k = "nf"  -> {w.nf}
                                  [] k = "dep" -> {w.dep}
                                  [] OTHER     -> {})

NoNewer(k, c) ==
  c # None =>
    /\ c.rv <= issued[k]
    /\ store[k] # None /\ c.rv = store[k].rv => c = store[k]

CopiesInv == \A k \in Kinds : \A c \in Copies(k) : NoNewer(k, c)

LEMMA CopiesStep ==
  ASSUME TypeInv, [Next]_vars, NEW k \in Kinds
  PROVE  Copies(k)' \subseteq Copies(k) \cup {store'[k], None}
<1>1. Shown(k)' \subseteq Shown(k) \cup {store[k], store'[k], None}
  BY ShownStep
<1>2. w'.nf \in {w.nf, cache["nf"], None} /\ w'.dep \in {w.dep, cache["dep"], None}
  BY WorkerStep DEF WorkerKnows, Remembered, Forgotten, Dispatched, ReadAnew
<1>3. cache[k] \in Shown(k)
  BY DEF Shown
<1>4. CASE k = "nf"
  <2>1. Copies(k) = Shown(k) \cup {store[k]} \cup {w.nf}
    BY <1>4 DEF Copies
  <2>2. Copies(k)' = Shown(k)' \cup {store'[k]} \cup {w'.nf}
    BY <1>4 DEF Copies
  <2> QED BY <1>1, <1>2, <1>3, <1>4, <2>1, <2>2
<1>5. CASE k = "dep"
  <2>1. Copies(k) = Shown(k) \cup {store[k]} \cup {w.dep}
    BY <1>5 DEF Copies
  <2>2. Copies(k)' = Shown(k)' \cup {store'[k]} \cup {w'.dep}
    BY <1>5 DEF Copies
  <2> QED BY <1>1, <1>2, <1>3, <1>5, <2>1, <2>2
<1>6. CASE k \notin {"nf", "dep"}
  <2>1. Copies(k) = Shown(k) \cup {store[k]}
    BY <1>6 DEF Copies
  <2>2. Copies(k)' = Shown(k)' \cup {store'[k]}
    BY <1>6 DEF Copies
  <2> QED BY <1>1, <2>1, <2>2
<1> QED BY <1>4, <1>5, <1>6

LEMMA CopiesTyped ==
  ASSUME TypeInv, NEW k \in Kinds, NEW c \in Copies(k) PROVE c \in Object(k) \cup {None}
<1> USE DEF TypeInv
<1>1. cache[k] \in Object(k) \cup {None} /\ store[k] \in Object(k) \cup {None}
  BY DEF CacheOK, ServerOK
<1>2. \A i \in DOMAIN watch[k] : watch[k][i] \in Object(k) \cup {None}
  <2>1. watch[k] \in Seq(Object(k) \cup {None})
    BY DEF ServerOK
  <2> QED BY <2>1
<1>3. w.nf \in NFObject \cup {None} /\ w.dep \in Deployment \cup {None}
  BY DEF WorkerOK, Pass
<1> QED BY <1>1, <1>2, <1>3, ObjectKinds DEF Copies, Shown

LEMMA ObjectVersions == ASSUME NEW k \in Kinds, NEW c \in Object(k) PROVE c.rv \in Nat
<1>1. CASE k = "nf"
  BY <1>1, ObjectKinds DEF NFObject
<1>2. CASE k = "cm"
  BY <1>2, ObjectKinds DEF ConfigMap
<1>3. CASE k = "svc"
  BY <1>3, ObjectKinds DEF Service
<1>4. CASE k = "dep"
  <2>1. c \in Deployment
    BY <1>4, ObjectKinds
  <2> QED BY <2>1 DEF Deployment
<1> QED BY <1>1, <1>2, <1>3, <1>4, ObjectKinds

LEMMA InitCopies == Init => \A k \in Kinds : \A c \in Copies(k) : c = None
BY ObjectKinds DEF Init, Copies, Shown, NoPass

LEMMA StepCopiesInv == ASSUME TypeInv, CopiesInv, [Next]_vars PROVE CopiesInv'
<1> SUFFICES ASSUME NEW k \in Kinds, NEW c \in Copies(k)', c # None PROVE NoNewer(k, c)'
  BY DEF CopiesInv, NoNewer
<1>1. issued[k] \in Nat /\ issued'[k] \in Nat
  BY StepTypeInv DEF TypeInv, ServerOK
<1>2. CASE c = store'[k]
  <2>1. store[k] # None => store[k].rv <= issued[k]
    BY DEF CopiesInv, NoNewer, Copies
  <2> QED BY <1>1, <1>2, <2>1, StoreStep DEF Kept, Erased, Renewed, NextRV, NoNewer
<1>3. CASE c # store'[k]
  <2>1. c \in Copies(k)
    BY <1>3, CopiesStep
  <2>2. c.rv \in Nat
    BY <2>1, CopiesTyped, ObjectVersions
  <2>3. NoNewer(k, c)
    BY <2>1 DEF CopiesInv
  <2> QED BY <1>1, <2>2, <2>3, StoreStep DEF Kept, Erased, Renewed, NextRV, NoNewer
<1> QED BY <1>2, <1>3

-----------------------------------------------------------------------------
(* The reported status is a history *)

(* What a write of the NFDeployment does, given that its optimistic lock    *)
(* compares versions of one and the same object.                           *)
NFCreated == store["nf"] = None /\ store'["nf"].conds = <<>>
NFEdited  == store'["nf"].conds = store["nf"].conds
NFReported ==
  \E depConds \in Seq(DeploymentConditions) :
    /\ StatusUpdateNeeded(depConds, store["nf"].conds)
    /\ store'["nf"].conds = CreateNfDeploymentStatus(depConds, store["nf"].conds)

LEMMA NFStep ==
  ASSUME TypeInv, CopiesInv, [Next]_vars, store'["nf"] # None
  PROVE  store'["nf"] = store["nf"] \/ NFCreated \/ (store["nf"] # None /\ (NFEdited \/ NFReported))
<1> USE DEF TypeInv
<1>1. CASE ServerUnchanged
  BY <1>1 DEF ServerUnchanged
<1>2. ASSUME NEW k \in Kinds, NEW object, Put(k, object)
      PROVE  store'["nf"] = IF k = "nf" THEN object ELSE store["nf"]
  BY <1>2, ObjectKinds DEF Put, ServerOK
<1>3. CASE ConfigMapWritten \/ ServiceWritten \/ DeploymentWritten
  <2>1. \E k \in Kinds \ {"nf"} : \E object : Put(k, object)
    BY <1>3, ObjectKinds DEF ConfigMapWritten, ServiceWritten, DeploymentWritten
  <2> QED BY <1>2, <2>1
<1>4. CASE \E k \in Kinds : Erase(k)
  BY <1>4, ObjectKinds DEF Erase, ServerOK
<1>5. CASE NFWritten
  <2>1. ASSUME store["nf"] = None, NEW spec,
          Put("nf", [rv |-> NextRV("nf"), uid |-> NextRV("nf"), spec |-> spec, conds |-> <<>>])
        PROVE NFCreated
    BY <1>2, <2>1, ObjectKinds DEF NFCreated
  <2>2. ASSUME store["nf"] # None, NEW spec,
          Put("nf", [store["nf"] EXCEPT !.rv = NextRV("nf"), !.spec = spec])
        PROVE NFEdited
    <3>1. store["nf"] \in NFObject
      BY <2>2, ObjectKinds DEF ServerOK
    <3>2. [store["nf"] EXCEPT !.rv = NextRV("nf"), !.spec = spec].conds = store["nf"].conds
      BY <3>1 DEF NFObject
    <3> QED BY <1>2, <2>2, <3>2, ObjectKinds DEF NFEdited
  <2>3. ASSUME pc = "status", SameVersion("nf", w.nf),
          StatusUpdateNeeded(w.dep.conds, w.nf.conds),
          Put("nf", [w.nf EXCEPT !.rv = NextRV("nf"),
                                 !.conds = CreateNfDeploymentStatus(w.dep.conds, w.nf.conds)])
        PROVE store["nf"] # None /\ NFReported
    <3>1. w.nf \in NFObject /\ w.nf # None /\ w.dep \in Deployment
      BY <2>3 DEF WorkerOK, Pass
    <3>2. w.nf \in Copies("nf")
      BY DEF Copies
    <3>3. store["nf"] = w.nf
      BY <2>3, <3>1, <3>2, ObjectKinds DEF CopiesInv, NoNewer, SameVersion
    <3> DEFINE conds == CreateNfDeploymentStatus(w.dep.conds, w.nf.conds)
    <3>4. [w.nf EXCEPT !.rv = NextRV("nf"), !.conds = conds].conds = conds
      BY <3>1 DEF NFObject
    <3>5. store'["nf"].conds = conds
      BY <1>2, <2>3, <3>4, ObjectKinds
    <3>6. w.dep.conds \in Seq(DeploymentConditions)
      BY <3>1 DEF Deployment
    <3> QED BY <2>3, <3>1, <3>3, <3>5, <3>6 DEF NFReported
  <2> QED BY <1>5, <2>1, <2>2, <2>3 DEF NFWritten
<1> QED BY <1>1, <1>3, <1>4, <1>5, ServerStep DEF Written, Updated

StatusGrows ==
  store["nf"] # None /\ store'["nf"] # None /\ store'["nf"].uid = store["nf"].uid
    => IsPrefix(store["nf"].conds, store'["nf"].conds)

LEMMA StatusStep ==
  ASSUME TypeInv, CopiesInv, [Next]_vars PROVE [StatusGrows]_store
<1> SUFFICES ASSUME store["nf"] # None, store'["nf"] # None
             PROVE  IsPrefix(store["nf"].conds, store'["nf"].conds)
  BY DEF StatusGrows
<1>1. store["nf"].conds \in Seq(NFConditionTypes)
  <2>1. store["nf"] \in NFObject
    BY ObjectKinds DEF TypeInv, ServerOK
  <2> QED BY <2>1 DEF NFObject
<1>2. CASE store'["nf"] = store["nf"] \/ NFEdited
  BY <1>1, <1>2 DEF NFEdited, IsPrefix
<1>3. CASE NFReported
  <2>1. store["nf"].conds = <<>> \/ \E type : store'["nf"].conds = Append(store["nf"].conds, type)
    BY <1>3 DEF NFReported, CreateNfDeploymentStatus
  <2>2. store'["nf"].conds \in Seq(NFConditionTypes)
    <3>1. store'["nf"] \in NFObject
      BY StepTypeInv, ObjectKinds DEF TypeInv, ServerOK
    <3> QED BY <3>1 DEF NFObject
  <2> QED BY <1>1, <2>1, <2>2 DEF IsPrefix
<1> QED BY <1>2, <1>3, NFStep DEF NFCreated

Inv == TypeInv /\ CopiesInv

LEMMA InitCopiesInv == Init => CopiesInv
BY InitCopies DEF CopiesInv, NoNewer

(* Every copy of an object, wherever the operator keeps it, is the stored   *)
(* object or an older one.                                                 *)
THEOREM InvInvariant == Spec => []Inv
<1>1. Init => Inv
  BY InitTypeInv, InitCopiesInv DEF Inv
<1>2. Inv /\ [Next]_vars => Inv'
  BY StepTypeInv, StepCopiesInv DEF Inv
<1> QED BY <1>1, <1>2, PTL DEF Spec

(* The status of an NFDeployment only ever grows (syncStatus,              *)
(* createNfDeploymentStatus), although the list that is written is computed *)
(* from a cached copy: the optimistic lock refuses every copy but the last. *)
THEOREM StatusHistory == Spec => StatusOnlyGrows
<1>1. Inv /\ [Next]_vars => [StatusGrows]_store
  BY StatusStep DEF Inv
<1> QED BY <1>1, InvInvariant, PTL DEF Spec, StatusOnlyGrows, StatusGrows

(* The history does not repeat itself but for Stalled.                     *)
LEMMA RepeatsStep ==
  ASSUME TypeInv, CopiesInv, OnlyStalledRepeats, [Next]_vars PROVE OnlyStalledRepeats'
<1> DEFINE old == store["nf"].conds
           new == store'["nf"].conds
<1> SUFFICES ASSUME store'["nf"] # None, NEW i \in 1 .. Len(new) - 1, new[i] = new[i + 1]
             PROVE  new[i] = "Stalled"
  BY DEF OnlyStalledRepeats
<1>1. CASE NFCreated
  BY <1>1 DEF NFCreated
<1>2. CASE store'["nf"] = store["nf"]
  BY <1>2 DEF OnlyStalledRepeats
<1>3. CASE store["nf"] # None /\ NFEdited
  BY <1>3 DEF OnlyStalledRepeats, NFEdited
<1>4. CASE store["nf"] # None /\ NFReported
  <2>1. old \in Seq(NFConditionTypes)
    <3>1. store["nf"] \in NFObject
      BY <1>4, ObjectKinds DEF TypeInv, ServerOK
    <3> QED BY <3>1 DEF NFObject
  <2>2. PICK depConds \in Seq(DeploymentConditions) :
          /\ StatusUpdateNeeded(depConds, old)
          /\ new = CreateNfDeploymentStatus(depConds, old)
    BY <1>4 DEF NFReported
  <2>3. CASE old = <<>>
    <3>1. new = <<"Reconciling">>
      BY <2>2, <2>3 DEF CreateNfDeploymentStatus
    <3> QED BY <3>1
  <2>4. CASE old # <<>>
    <3> DEFINE type == Head(depConds).type
    <3>1. depConds # <<>> /\ new = Append(old, ReportedAs[type])
      BY <2>2, <2>4 DEF StatusUpdateNeeded, CreateNfDeploymentStatus
    <3>2. type \in DeploymentConditionTypes
      <4>1. Head(depConds) \in DeploymentConditions
        BY <3>1
      <4> QED BY <4>1 DEF DeploymentConditions
    <3>3. type # Last(old) /\ ~ (type = "Progressing" /\ Last(old) = "Reconciling")
      BY <2>2, <2>4 DEF StatusUpdateNeeded
    <3>4. ReportedAs[type] = Last(old) => ReportedAs[type] = "Stalled"
      BY <3>2, <3>3 DEF ReportedAs, DeploymentConditionTypes
    <3>5. CASE i = Len(old)
      <4>1. new[i] = Last(old) /\ new[i + 1] = ReportedAs[type]
        BY <2>1, <2>4, <3>1, <3>5 DEF Last
      <4> QED BY <3>4, <4>1
    <3>6. CASE i # Len(old)
      <4>1. i \in 1 .. Len(old) - 1 /\ new[i] = old[i] /\ new[i + 1] = old[i + 1]
        BY <2>1, <3>1, <3>6
      <4> QED BY <1>4, <4>1 DEF OnlyStalledRepeats
    <3> QED BY <3>5, <3>6
  <2> QED BY <2>3, <2>4
<1> QED BY <1>1, <1>2, <1>3, <1>4, NFStep

(* ... and it does not repeat itself, whatever the Deployment goes through, *)
(* but for "Stalled" (the early returns of createNfDeploymentStatus).      *)
THEOREM HistoryWithoutRepeats == Spec => []OnlyStalledRepeats
<1>1. Init => OnlyStalledRepeats
  BY ObjectKinds DEF Init, OnlyStalledRepeats
<1>2. Inv /\ OnlyStalledRepeats /\ [Next]_vars => OnlyStalledRepeats'
  BY RepeatsStep DEF Inv
<1> QED BY <1>1, <1>2, InvInvariant, PTL DEF Spec

-----------------------------------------------------------------------------
(* What the operator creates is owned *)

(* uids are versions, so no NFDeployment anybody knows has the uid 0 that   *)
(* stands for the absent controller.                                       *)
UidsInv == \A c \in Copies("nf") : c # None => c.uid > 0

LEMMA StepUidsInv ==
  ASSUME TypeInv, UidsInv, [Next]_vars PROVE UidsInv'
<1> SUFFICES ASSUME store'["nf"] # None PROVE store'["nf"].uid > 0
  BY CopiesStep, ObjectKinds DEF UidsInv
<1>1. CASE store'["nf"] = store["nf"]
  BY <1>1 DEF UidsInv, Copies
<1>2. CASE NFWritten
  <2>1. ASSUME NEW object, Put("nf", object) PROVE store'["nf"] = object
    BY <2>1, ObjectKinds DEF Put, TypeInv, ServerOK
  <2>2. ASSUME NEW spec,
          Put("nf", [rv |-> NextRV("nf"), uid |-> NextRV("nf"), spec |-> spec, conds |-> <<>>])
        PROVE store'["nf"].uid > 0
    BY <2>1, <2>2, NextRVOK, ObjectKinds DEF TypeInv
  <2>3. ASSUME NEW nf \in {store["nf"], w.nf}, nf \in NFObject, nf # None, NEW spec, NEW conds,
          \/ Put("nf", [nf EXCEPT !.rv = NextRV("nf"), !.spec = spec])
          \/ Put("nf", [nf EXCEPT !.rv = NextRV("nf"), !.conds = conds])
        PROVE store'["nf"].uid > 0
    <3>1. nf.uid > 0
      BY <2>3 DEF UidsInv, Copies
    <3>2. /\ [nf EXCEPT !.rv = NextRV("nf"), !.spec = spec].uid = nf.uid
          /\ [nf EXCEPT !.rv = NextRV("nf"), !.conds = conds].uid = nf.uid
      BY <2>3 DEF NFObject
    <3> QED BY <2>1, <2>3, <3>1, <3>2
  <2>4. store["nf"] # None => store["nf"] \in NFObject
    BY ObjectKinds DEF TypeInv, ServerOK
  <2>5. pc = "status" => w.nf \in NFObject /\ w.nf # None
    BY DEF TypeInv, WorkerOK, Pass
  <2> QED BY <1>2, <2>2, <2>3, <2>4, <2>5 DEF NFWritten
<1>3. CASE ConfigMapWritten \/ ServiceWritten \/ DeploymentWritten
  <2>1. \E k \in Kinds \ {"nf"} : \E object : Put(k, object)
    BY <1>3, ObjectKinds DEF ConfigMapWritten, ServiceWritten, DeploymentWritten
  <2> QED BY <1>1, <2>1, ObjectKinds DEF Put, TypeInv, ServerOK
<1>4. CASE \E k \in Kinds : Erase(k)
  BY <1>1, <1>4, ObjectKinds DEF Erase, TypeInv, ServerOK
<1> QED BY <1>1, <1>2, <1>3, <1>4, ServerStep DEF ServerUnchanged, Written, Updated

(* A pass that creates something knows whom to name as its owner. *)
LEMMA OwnerKnown ==
  ASSUME TypeInv, UidsInv, pc \notin {"idle", "read"} PROVE ControlledBy(w.nf) > 0
BY DEF TypeInv, WorkerOK, UidsInv, Copies, ControlledBy

ConfigAndServiceCopiesOwned ==
  \A k \in {"cm", "svc"} : \A c \in Copies(k) : c # None => c.owner # 0

(* A write keeps the owner of a copy, or names the NFDeployment that the   *)
(* pass read; only the update of an existing Deployment does neither.      *)
LEMMA OwnerStep ==
  ASSUME TypeInv, [Next]_vars, NEW k \in Kinds \ {"nf"}, store'[k] # None
  PROVE  \/ \E c \in Copies(k) : c # None /\ store'[k].owner = c.owner
         \/ pc \notin {"idle", "read"} /\ store'[k].owner = ControlledBy(w.nf)
         \/ k = "dep" /\ pc = "update" /\ store'[k].owner = 0
<1> DEFINE Inherited == \E c \in Copies(k) : c # None /\ store'[k].owner = c.owner
           Named     == pc \notin {"idle", "read"} /\ store'[k].owner = ControlledBy(w.nf)
<1>1. CASE store'[k] = store[k]
  BY <1>1 DEF Copies
<1>2. ASSUME NEW j \in Kinds, NEW object, Put(j, object)
      PROVE  store'[k] = IF k = j THEN object ELSE store[k]
  BY <1>2 DEF Put, TypeInv, ServerOK
<1>3. CASE NFWritten
  <2>1. \E object : Put("nf", object)
    BY <1>3 DEF NFWritten
  <2> QED BY <1>1, <1>2, <2>1, ObjectKinds
<1>4. CASE ConfigMapWritten
  <2>1. ASSUME pc = "configmap", NEW data,
          Put("cm", [rv |-> NextRV("cm"), owner |-> ControlledBy(w.nf), data |-> data])
        PROVE Named \/ store'[k] = store[k]
    BY <1>2, <2>1, ObjectKinds
  <2>2. ASSUME store["cm"] # None,
          Put("cm", [store["cm"] EXCEPT !.rv = NextRV("cm"), !.data = Edited])
        PROVE Inherited \/ store'[k] = store[k]
    <3>1. store["cm"] \in ConfigMap /\ store["cm"] \in Copies("cm")
      BY <2>2, ObjectKinds DEF TypeInv, ServerOK, Copies
    <3>2. [store["cm"] EXCEPT !.rv = NextRV("cm"), !.data = Edited].owner = store["cm"].owner
      BY <3>1 DEF ConfigMap
    <3>3. \E object : Put("cm", object) /\ object.owner = store["cm"].owner
      BY <2>2, <3>2
    <3>4. k = "cm" => store'[k].owner = store["cm"].owner
      BY <1>2, <3>3, ObjectKinds
    <3>5. k # "cm" => store'[k] = store[k]
      BY <1>2, <3>3, ObjectKinds
    <3> QED BY <2>2, <3>1, <3>4, <3>5
  <2> QED BY <1>1, <1>4, <2>1, <2>2 DEF ConfigMapWritten
<1>5. CASE ServiceWritten
  BY <1>1, <1>2, <1>5, ObjectKinds DEF ServiceWritten
<1>6. CASE DeploymentWritten
  <2>1. ASSUME pc = "create", NEW tmpl,
          Put("dep", [rv |-> NextRV("dep"), owner |-> ControlledBy(w.nf), ann |-> w.version,
                      tmpl |-> tmpl, conds |-> <<>>, deleting |-> FALSE])
        PROVE Named \/ store'[k] = store[k]
    BY <1>2, <2>1, ObjectKinds
  <2>2. ASSUME NEW dep \in {store["dep"], w.dep}, dep \in Deployment, dep # None, NEW x,
          \/ Put("dep", [dep EXCEPT !.rv = NextRV("dep"), !.ann = x])
          \/ Put("dep", [dep EXCEPT !.rv = NextRV("dep"), !.conds = x])
          \/ Put("dep", [dep EXCEPT !.rv = NextRV("dep"), !.deleting = x])
          \/ Put("dep", [dep EXCEPT !.rv = NextRV("dep"), !.ann = x, !.tmpl = Edited])
        PROVE Inherited \/ store'[k] = store[k]
    <3>1. dep \in Copies("dep")
      BY <2>2 DEF Copies
    <3>2. /\ [dep EXCEPT !.rv = NextRV("dep"), !.ann = x].owner = dep.owner
          /\ [dep EXCEPT !.rv = NextRV("dep"), !.conds = x].owner = dep.owner
          /\ [dep EXCEPT !.rv = NextRV("dep"), !.deleting = x].owner = dep.owner
          /\ [dep EXCEPT !.rv = NextRV("dep"), !.ann = x, !.tmpl = Edited].owner = dep.owner
      BY <2>2 DEF Deployment
    <3>3. \E object : Put("dep", object) /\ object.owner = dep.owner
      BY <2>2, <3>2
    <3>4. k = "dep" => store'[k].owner = dep.owner
      BY <1>2, <3>3, ObjectKinds
    <3>5. k # "dep" => store'[k] = store[k]
      BY <1>2, <3>3, ObjectKinds
    <3> QED BY <2>2, <3>1, <3>4, <3>5
  <2>3. store["dep"] # None => store["dep"] \in Deployment
    BY ObjectKinds DEF TypeInv, ServerOK
  <2>4. pc = "roll" => w.dep \in Deployment /\ w.dep # None
    BY DEF TypeInv, WorkerOK, Pass
  <2>5. ASSUME NEW object, object.owner = 0, Put("dep", object)
        PROVE  store'[k] = store[k] \/ (k = "dep" /\ store'[k].owner = 0)
    BY <1>2, <2>5, ObjectKinds
  <2>6. \/ Named \/ Inherited \/ store'[k] = store[k]
        \/ k = "dep" /\ pc = "update" /\ store'[k].owner = 0
    BY <1>6, <2>1, <2>2, <2>3, <2>4, <2>5 DEF DeploymentWritten
  <2> QED BY <1>1, <2>6
<1>7. CASE \E j \in Kinds : Erase(j)
  BY <1>1, <1>7 DEF Erase, TypeInv, ServerOK
<1> QED BY <1>1, <1>3, <1>4, <1>5, <1>6, <1>7, ServerStep DEF ServerUnchanged, Written, Updated

LEMMA OwnedStep ==
  ASSUME TypeInv, UidsInv, ConfigAndServiceCopiesOwned, [Next]_vars
  PROVE  ConfigAndServiceCopiesOwned'
<1> SUFFICES ASSUME NEW k \in {"cm", "svc"}, store'[k] # None PROVE store'[k].owner # 0
  BY CopiesStep, ObjectKinds DEF ConfigAndServiceCopiesOwned
<1> QED BY OwnerStep, OwnerKnown, ObjectKinds DEF ConfigAndServiceCopiesOwned

(* Only the reconcilers that update an existing Deployment reach the step   *)
(* that takes its controller reference away.                               *)
NeverUpdates ==
  /\ w.provider \in NFs => LeavesExisting(w.provider)
  /\ pc # "update"

LEMMA UpdateStep ==
  ASSUME TypeInv, NeverUpdates, Reconcile PROVE pc' # "update"
<1> USE DEF Return, ReturnRequeue, ReturnRequeueAfter, Proceed, Goto
<1>1. CASE Dequeue \/ ReadState
  BY <1>1, AfterDeploymentOK DEF Dequeue, ReadState, NeverUpdates
<1>2. CASE SyncStatus
  BY <1>2 DEF SyncStatus, Write
<1>3. CASE RollDeployment
  BY <1>3, AfterDeploymentOK DEF RollDeployment, Panic, Restart, Write
<1>4. CASE FetchConfigRef
  BY <1>4 DEF FetchConfigRef, Panic, Restart
<1>5. CASE EnsureConfigMap
  BY <1>5, AfterConfigMapOK DEF EnsureConfigMap, Panic, Restart, Write
<1>6. CASE EnsureService
  BY <1>6 DEF EnsureService, Write
<1>7. CASE PlanDeployment
  <2>1. LeavesExisting(w.provider)
    BY <1>7 DEF PlanDeployment, NeverUpdates, TypeInv, WorkerOK
  <2> QED BY <1>7, <2>1 DEF PlanDeployment, Panic, Restart
<1>8. CASE CheckNAD
  BY <1>8 DEF CheckNAD
<1>9. CASE CreateNewDeployment \/ UpdateDeployment
  BY <1>9 DEF CreateNewDeployment, UpdateDeployment, Write
<1> QED BY <1>1, <1>2, <1>3, <1>4, <1>5, <1>6, <1>7, <1>8, <1>9 DEF Reconcile

LEMMA StepNeverUpdates ==
  ASSUME OnlyLeaving, TypeInv, NeverUpdates, [Next]_vars PROVE NeverUpdates'
<1>1. cache["nf"] # None => cache["nf"].spec \in Specs
  <2>1. cache["nf"] # None => cache["nf"] \in NFObject
    BY ObjectKinds DEF TypeInv, CacheOK
  <2> QED BY <2>1 DEF NFObject
<1>2. w'.provider \in NFs => LeavesExisting(w'.provider)
  BY <1>1, WorkerStep, NoneAssumption
  DEF WorkerKnows, Remembered, Forgotten, Dispatched, ReadAnew, NeverUpdates, OnlyLeaving
<1>3. CASE UNCHANGED pc
  BY <1>2, <1>3 DEF NeverUpdates
<1>4. CASE Reconcile
  BY <1>2, <1>4, UpdateStep DEF NeverUpdates
<1>5. CASE Crash
  BY <1>2, <1>5 DEF Crash, Restart, NeverUpdates
<1>6. CASE User
  BY <1>3, <1>6 DEF User, CreateNF, EditSpec, EditConfigMap, EditDeployment, MarkDeploymentDeleted,
     DeleteObject, ChangeNADs, SetConfig, ReportCondition, Operate
<1>7. CASE \/ \E k \in Kinds : Deliver(k) \/ GarbageCollect(k)
          \/ TimerFires \/ Resync \/ RemoveDeployment \/ UNCHANGED vars
  BY <1>3, <1>7 DEF Deliver, GarbageCollect, TimerFires, Resync, RemoveDeployment, Unused, vars
<1> QED BY <1>4, <1>5, <1>6, <1>7 DEF Next

DeploymentCopiesOwned == \A c \in Copies("dep") : c # None => c.owner # 0

LEMMA StepDeploymentCopiesOwned ==
  ASSUME TypeInv, UidsInv, NeverUpdates, DeploymentCopiesOwned, [Next]_vars
  PROVE  DeploymentCopiesOwned'
<1> SUFFICES ASSUME store'["dep"] # None PROVE store'["dep"].owner # 0
  BY CopiesStep, ObjectKinds DEF DeploymentCopiesOwned
<1> QED BY OwnerStep, OwnerKnown, ObjectKinds DEF DeploymentCopiesOwned, NeverUpdates

OwnedInv == TypeInv /\ UidsInv /\ ConfigAndServiceCopiesOwned

(* No copy of a ConfigMap or a Service is without controller reference      *)
(* (SetControllerReference before each Create).                            *)
THEOREM OwnedInvInvariant == Spec => []OwnedInv
<1>1. Init => OwnedInv
  BY InitTypeInv, InitCopies, ObjectKinds DEF OwnedInv, UidsInv, ConfigAndServiceCopiesOwned
<1>2. OwnedInv /\ [Next]_vars => OwnedInv'
  BY StepTypeInv, StepUidsInv, OwnedStep DEF OwnedInv
<1> QED BY <1>1, <1>2, PTL DEF Spec

(* Every Deployment keeps its controller, when only the amf reconciler, or  *)
(* another that leaves existing Deployments alone, is at work.             *)
THEOREM DeploymentIsOwned ==
  ASSUME OnlyLeaving PROVE Spec => []DeploymentOwned
<1> DEFINE I == OwnedInv /\ NeverUpdates /\ DeploymentCopiesOwned
<1>1. Init => I
  <2>1. Init => NeverUpdates
    BY NoneAssumption DEF Init, NeverUpdates, NoPass
  <2> QED BY <2>1, InitTypeInv, InitCopies, ObjectKinds
          DEF OwnedInv, UidsInv, ConfigAndServiceCopiesOwned, DeploymentCopiesOwned
<1>2. I /\ [Next]_vars => I'
  BY StepTypeInv, StepUidsInv, OwnedStep, StepNeverUpdates, StepDeploymentCopiesOwned DEF OwnedInv
<1>3. I => DeploymentOwned
  BY DEF DeploymentCopiesOwned, DeploymentOwned, Copies
<1> QED BY <1>1, <1>2, <1>3, PTL DEF Spec

===============================================================================
