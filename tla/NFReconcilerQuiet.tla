--------------------------- MODULE NFReconcilerQuiet ---------------------------
(***************************************************************************)
(* When the amf's reconciler has come to rest it has done all its work, for *)
(* every value of the constants.                                           *)
(*                                                                         *)
(* The argument follows what the worker knows. Every event of an           *)
(* NFDeployment, ConfigMap or Deployment wakes it (EventsInv, OneLife); so *)
(* while nothing is queued, pending or on its way, the caches show what is *)
(* stored (LatestInv) and a pass works on just that (Fresh). Such a pass    *)
(* has its conflicts with nobody, and ends with everything in place, with  *)
(* a timer, or at a spec that cannot be built (Settled). The Service alone *)
(* is not watched: the pass that creates it sets a timer instead           *)
(* (ServiceLag).                                                           *)
(***************************************************************************)
EXTENDS NFReconcilerWatching

-----------------------------------------------------------------------------
(* Where the operator comes to rest only with its work done *)

(* Only the amf's reconciler is at work, no call fails, what is slow waits  *)
(* for events and passes, and neither the NFDeployment nor its Service is   *)
(* deleted (amf_recreated shows why). Crashes may happen at any time.      *)
Undisturbed ==
  /\ OnlyLeaving /\ PromptWatch /\ MaxFaults = 0
  /\ "DeleteNF" \notin UserOps /\ "DeleteService" \notin UserOps
  /\ NoneHalfBuilt

(* The kinds whose events wake the worker. *)
Watched == {"nf", "cm", "dep"}

Awake == queued \/ timer \/ \E k \in Watched : watch[k] # <<>>

-----------------------------------------------------------------------------
(* The worker wakes, and stays awake until it has looked *)

(* Every event of a watched kind queues the key. *)
LEMMA Wakes ==
  ASSUME TypeInv, ConfigAndServiceCopiesOwned, DeploymentCopiesOwned, EventsInv,
         NEW k \in Watched, Told(k)
  PROVE  queued'
<1>1. k \in Kinds /\ queued' = (queued \/ Relevant(k, cache[k], Head(watch[k])))
  BY ObjectKinds DEF Told, Deliver, Watched
<1>2. CASE k = "nf"
  BY <1>1, <1>2 DEF Relevant
<1>3. CASE k # "nf"
  <2>1. watch[k] \in Seq(Object(k) \cup {None}) /\ watch[k] # <<>>
    BY <1>1 DEF TypeInv, ServerOK, Told
  <2>2. 1 \in DOMAIN watch[k] /\ Head(watch[k]) = watch[k][1]
    BY <2>1
  <2>3. cache[k] # None \/ Head(watch[k]) # None
    BY <1>1, <2>2 DEF EventsInv, ShownBefore
  <2>4. cache[k] \in Copies(k) /\ Head(watch[k]) \in Copies(k)
    BY <2>2 DEF Copies, Shown
  <2>5. \A c \in Copies(k) : c # None => c.owner # 0
    BY <1>1, <1>3 DEF Watched, ConfigAndServiceCopiesOwned, DeploymentCopiesOwned
  <2> QED BY <1>1, <1>3, <2>3, <2>4, <2>5 DEF Relevant, OwnedKinds, Watched
<1> QED BY <1>2, <1>3

(* So the worker falls asleep only by looking, or in a new process, and     *)
(* nothing happens to the watched kinds while it sleeps.                   *)
LEMMA Asleep ==
  ASSUME TypeInv, ConfigAndServiceCopiesOwned, DeploymentCopiesOwned, EventsInv,
         [Next]_vars, ~ Awake'
  PROVE  \/ Dequeue \/ (Restart /\ UNCHANGED store)
         \/ ~ Awake /\ \A k \in Watched : Untouched(k)
<1> SUFFICES ASSUME ~ Dequeue, ~ (Restart /\ UNCHANGED store)
             PROVE  ~ Awake /\ \A k \in Watched : Untouched(k)
  OBVIOUS
<1>1. ~ Restart
  BY DEF Restart
<1>2. ~ queued /\ ~ timer
  BY <1>1, QueueStep DEF Awake, TimerFires
<1>3. ASSUME NEW k \in Watched PROVE watch[k] = <<>> /\ Untouched(k)
  <2>1. watch'[k] = <<>> /\ ~ queued' /\ k \in Kinds
    BY ObjectKinds DEF Awake, Watched
  <2>2. ~ Announced(k)
    <3>1. watch[k] \in Seq(Object(k) \cup {None})
      BY <2>1 DEF TypeInv, ServerOK
    <3> QED BY <2>1, <3>1 DEF Announced
  <2> QED BY <2>1, <2>2, ChannelStep, Wakes DEF Untouched
<1> QED BY <1>2, <1>3 DEF Awake

-----------------------------------------------------------------------------
(* The passes of the amf's reconciler *)

LEMMA AmfOnly == ASSUME OnlyLeaving, NEW spec \in Specs, spec.provider \in NFs
                 PROVE  spec.provider = "amf"
BY DEF OnlyLeaving, LeavesExisting

LEMMA KeepsService == ASSUME Undisturbed PROVE ServiceKept
BY AmfOnly DEF Undisturbed, ServiceKept, Providers, HasService

LEMMA AmfBuilds ==
  ASSUME OnlyLeaving, TypeInv, PassOK, pc # "idle"
  PROVE  /\ w.provider = "amf" /\ pc # "refs"
         /\ CreateConfigMap(w.provider, w.nf.spec, w.fetched) = AmfConfigMap(w.nf.spec)
<1>1. w.provider = "amf"
  BY AmfOnly, ProviderKnown DEF Providers
<1> QED BY <1>1 DEF CreateConfigMap, PassOK

-----------------------------------------------------------------------------
(* A pass that nothing wakes up again has seen everything *)

StatusDone(dep, nf) == dep.deleting \/ ~ StatusUpdateNeeded(dep.conds, nf.conds)

(* What a pass has seen and done by the time it comes to a step. *)
Fresh ==
  ~ Awake =>
    /\ pc = "read" => cache["nf"] # None
    /\ pc \notin {"idle", "read"} =>
         w.nf = cache["nf"] /\ w.dep = cache["dep"]
    /\ pc \in {"status", "roll", "configmap"} => w.version = Version(cache["cm"])
    /\ pc \in {"service", "plan"} => cache["cm"] # None /\ w.version = cache["cm"].rv
    /\ pc \in {"roll", "configmap", "service", "plan"} /\ w.dep # None => StatusDone(w.dep, w.nf)
    /\ pc \in {"configmap", "service", "plan"} /\ w.dep # None => Annotation(w.dep) = w.version

(* What the last pass leaves behind, unless the spec cannot be built. *)
InPlace ==
  /\ store["cm"] # None /\ store["dep"] # None
  /\ store["dep"].ann = store["cm"].rv
  /\ StatusDone(store["dep"], store["nf"])
Settled ==
  /\ ~ Awake /\ pc = "idle"
  /\ store["nf"] # None /\ store["nf"].spec.provider \in NFs
  /\ AmfConfigMap(store["nf"].spec).out = "ok"
  => InPlace

QuietInv ==
  /\ TypeInv /\ UidsInv /\ ConfigAndServiceCopiesOwned /\ DeploymentCopiesOwned
  /\ LatestInv /\ EventsInv
  /\ OneLife /\ Positive /\ NeverUpdates /\ PassOK /\ PlanOK /\ Served /\ ServiceLag
  /\ Fresh /\ Settled

LEMMA SleepingPass ==
  ASSUME Undisturbed, QuietInv, Reconcile, ~ Restart, ~ Dequeue, ~ Awake, ~ Awake',
         \A k \in Watched : Untouched(k)
  PROVE  Fresh' /\ Settled'
<1> USE DEF QuietInv
<1>1. ~ queued /\ ~ timer /\ ~ queued' /\ ~ timer'
  BY DEF Awake
<1>2. /\ cache["nf"] = store["nf"] /\ cache["cm"] = store["cm"] /\ cache["dep"] = store["dep"]
      /\ UNCHANGED <<store["nf"], store["cm"], store["dep"]>>
      /\ UNCHANGED <<cache["nf"], cache["cm"], cache["dep"]>>
  BY ObjectKinds DEF Awake, Watched, Untouched, LatestInv, Latest
<1>3. w \in Pass /\ OnlyLeaving
  BY DEF TypeInv, WorkerOK, Undisturbed
<1>4. pc # "idle" => /\ AfterDeployment(w.provider) = "configmap"
                     /\ AfterConfigMap(w.provider) = "service" /\ LeavesExisting(w.provider)
  BY <1>3, AmfBuilds DEF AfterDeployment, AfterConfigMap, HasService, LeavesExisting
<1>5. ~ ReturnRequeue /\ ~ ReturnRequeueAfter /\ ~ Panic
  BY <1>1 DEF ReturnRequeue, ReturnRequeueAfter, Panic
<1>6. ASSUME NEW k \in Watched, NEW accepted, NEW object, NEW ACTION Done, NEW ACTION Fail,
             Write(k, accepted, object, Done, Fail)
      PROVE  ~ accepted /\ Fail
  BY <1>6, Refused, ObjectKinds DEF Watched, Undisturbed
<1>7. CASE ReadState
  <2>1. /\ w'.nf = cache["nf"] /\ w'.dep = cache["dep"] /\ w'.version = Version(cache["cm"])
        /\ pc' = IF cache["dep"] # None THEN "status" ELSE "configmap"
    BY <1>3, <1>4, <1>7 DEF ReadState, Fresh, Pass, Goto
  <2> QED BY <1>2, <2>1 DEF Fresh, Settled
<1>8. CASE SyncStatus
  <2>1. SameVersion("nf", w.nf)
    BY <1>2, <1>8 DEF SyncStatus, Fresh, SameVersion, TypeInv, WorkerOK
  <2>2. StatusDone(w.dep, w.nf) /\ Proceed("roll")
    BY <1>6, <1>8, <2>1 DEF SyncStatus, StatusDone, Watched
  <2> QED BY <1>2, <1>8, <2>2 DEF SyncStatus, Proceed, Goto, Fresh, Settled
<1>9. CASE RollDeployment
  <2>1. SameVersion("dep", w.dep)
    BY <1>2, <1>9 DEF RollDeployment, Fresh, SameVersion, TypeInv, WorkerOK
  <2>2. Annotation(w.dep) = w.version /\ Proceed("configmap")
    BY <1>4, <1>5, <1>6, <1>9, <2>1 DEF RollDeployment, Watched
  <2> QED BY <1>2, <1>9, <2>2 DEF RollDeployment, Proceed, Goto, Fresh, Settled
<1>10. CASE EnsureConfigMap
  <2>1. w.version = Version(cache["cm"]) /\ w.nf = store["nf"]
    BY <1>2, <1>10 DEF EnsureConfigMap, Fresh
  <2>2. CASE Return /\ AmfConfigMap(w.nf.spec).out # "ok"
    BY <1>2, <2>1, <2>2 DEF Return, Fresh, Settled
  <2>3. CASE Proceed("service") /\ w.version # 0
    <3>1. cache["cm"] # None /\ w.version = cache["cm"].rv
      BY <2>1, <2>3 DEF Version
    <3> QED BY <1>2, <1>10, <2>3, <3>1 DEF EnsureConfigMap, Proceed, Goto, Fresh, Settled
  <2>4. store["cm"] # None => w.version # 0
    BY <1>2, <2>1 DEF Version, Positive, Copies
  <2> QED BY <1>3, <1>4, <1>5, <1>6, <1>10, <2>2, <2>3, <2>4, AmfBuilds
          DEF EnsureConfigMap, Watched
<1>11. CASE EnsureService
  <2>1. Proceed("plan")
    <3>1. ~ w.svcFound => store["svc"] = None
      BY <1>1, <1>11 DEF EnsureService, ServiceLag
    <3> QED BY <1>11, <3>1, NoFault DEF EnsureService, Write, Undisturbed
  <2> QED BY <1>2, <1>11, <2>1 DEF EnsureService, Proceed, Goto, Fresh, Settled
<1>12. CASE PlanDeployment
  <2>1. Planned.out # "error"
    BY <1>12 DEF PlanDeployment, PlanOK
  <2>2. CASE Proceed("nad")
    BY <1>2, <1>12, <2>2 DEF PlanDeployment, Proceed, Goto, Fresh, Settled
  <2>3. CASE w.dep # None /\ Return
    <3>1. /\ w.dep = store["dep"] /\ w.nf = store["nf"] /\ StatusDone(w.dep, w.nf)
          /\ store["cm"] # None /\ Annotation(w.dep) = store["cm"].rv
      BY <1>2, <1>12, <2>3 DEF PlanDeployment, Fresh
    <3>2. w.dep.ann = store["cm"].rv
      <4>1. store["cm"].rv > 0
        BY <3>1 DEF Positive, Copies
      <4> QED BY <3>1, <4>1 DEF Annotation
    <3> QED BY <1>2, <2>3, <3>1, <3>2 DEF Return, Fresh, Settled, InPlace
  <2> QED BY <1>4, <1>5, <1>12, <2>1, <2>2, <2>3 DEF PlanDeployment
<1>13. CASE CheckNAD
  <2>1. pc' \in {"nad", "create"} /\ w'.nf = w.nf /\ w'.dep = w.dep
    BY <1>3, <1>5, <1>13 DEF CheckNAD, Proceed, Goto, Pass
  <2> QED BY <1>2, <1>13, <2>1 DEF CheckNAD, Fresh, Settled
<1>14. ~ CreateNewDeployment
  BY <1>5 DEF CreateNewDeployment, Write
<1>15. ~ FetchConfigRef
  BY <1>3, AmfBuilds DEF FetchConfigRef
<1> QED BY <1>7, <1>8, <1>9, <1>10, <1>11, <1>12, <1>13, <1>14, <1>15
        DEF Reconcile, UpdateDeployment, NeverUpdates

LEMMA StepFreshSettled ==
  ASSUME Undisturbed, QuietInv, [Next]_vars PROVE Fresh' /\ Settled'
<1> USE DEF QuietInv
<1> SUFFICES ASSUME ~ Awake' PROVE Fresh' /\ Settled'
  BY DEF Fresh, Settled
<1>1. CASE Restart
  <2>1. ~ Listed /\ UNCHANGED store
    BY <1>1 DEF Restart, Awake
  <2>2. store["nf"] = None
    BY <2>1, ObjectKinds DEF Listed, Relevant
  <2> QED BY <1>1, <2>1, <2>2 DEF Restart, Fresh, Settled
<1>2. CASE Dequeue
  <2>1. store'["nf"] = cache["nf"]
    <3>1. watch["nf"] = <<>> /\ UNCHANGED store
      BY <1>2 DEF Dequeue, server, Awake, Watched
    <3> QED BY <3>1, ObjectKinds DEF LatestInv, Latest
  <2> QED BY <1>2, <2>1 DEF Dequeue, Fresh, Settled
<1>3. CASE ~ Restart /\ ~ Dequeue
  <2>1. ~ Awake /\ \A k \in Watched : Untouched(k)
    BY <1>3, Asleep
  <2>2. CASE Reconcile
    BY <1>3, <2>1, <2>2, SleepingPass
  <2>3. CASE UNCHANGED <<pc, w>>
    BY <2>1, <2>3 DEF Watched, Untouched, Fresh, Settled, InPlace
  <2> QED BY <1>3, <2>2, <2>3, OutsideStep
<1> QED BY <1>1, <1>2, <1>3

-----------------------------------------------------------------------------
(* At rest everything is in place *)

LEMMA InitQuietInv == Init => QuietInv
<1> SUFFICES ASSUME Init PROVE QuietInv
  OBVIOUS
<1>1. \A k \in Kinds : \A c \in Copies(k) : c = None
  BY InitCopies
<1>2. /\ UidsInv /\ ConfigAndServiceCopiesOwned /\ DeploymentCopiesOwned
      /\ OneLife /\ Positive
  BY <1>1, ObjectKinds
  DEF UidsInv, ConfigAndServiceCopiesOwned, DeploymentCopiesOwned, OneLife, Positive
<1>3. LatestInv /\ EventsInv
  BY DEF Init, LatestInv, Latest, EventsInv
<1>4. NeverUpdates /\ PassOK /\ PlanOK
  BY NoneAssumption DEF Init, NeverUpdates, PassOK, PlanOK, NoPass
<1>5. Served
  BY <1>1, ObjectKinds DEF Served, Init, NoPass
<1>6. ServiceLag /\ Fresh /\ Settled
  BY ObjectKinds DEF Init, ServiceLag, Fresh, Settled
<1> QED BY <1>2, <1>3, <1>4, <1>5, <1>6, InitTypeInv DEF QuietInv

(* The inductive invariant: whenever nothing is on its way that would wake  *)
(* the worker, it has read what is stored (Fresh) or has finished with it  *)
(* (Settled); the other parts say why (Reconcile of the amf package).      *)
THEOREM QuietInvInvariant == ASSUME Undisturbed PROVE Spec => []QuietInv
<1>1. Init => QuietInv
  BY InitQuietInv
<1>2. QuietInv /\ [Next]_vars => QuietInv'
  <2> SUFFICES ASSUME QuietInv, [Next]_vars PROVE QuietInv'
    OBVIOUS
  <2>1. TypeInv' /\ UidsInv' /\ LatestInv' /\ EventsInv'
    BY StepTypeInv, StepUidsInv, StepLatestInv, StepEventsInv DEF QuietInv
  <2>2. ConfigAndServiceCopiesOwned' /\ DeploymentCopiesOwned'
    BY OwnedStep, StepDeploymentCopiesOwned DEF QuietInv
  <2>3. OneLife' /\ Positive' /\ NeverUpdates' /\ PassOK' /\ PlanOK'
    BY StepOneLife, StepPositive, StepNeverUpdates, StepPassOK, StepPlanOK
    DEF QuietInv, Undisturbed
  <2>4. Served' /\ ServiceLag' /\ Fresh' /\ Settled'
    BY KeepsService, StepServed, StepServiceLag, StepFreshSettled DEF QuietInv
  <2> QED BY <2>1, <2>2, <2>3, <2>4 DEF QuietInv
<1> QED BY <1>1, <1>2, PTL DEF Spec

LEMMA AtRest ==
  ASSUME Undisturbed, QuietInv, Quiet, store["nf"] # None, Buildable(store["nf"])
  PROVE  InPlace /\ store["nf"].spec.provider = "amf"
<1>1. store["nf"].spec \in Specs
  <2>1. store["nf"] \in NFObject
    BY ObjectKinds DEF QuietInv, TypeInv, ServerOK
  <2> QED BY <2>1 DEF NFObject
<1>2. store["nf"].spec.provider = "amf"
  BY <1>1, AmfOnly DEF Undisturbed, Buildable
<1>3. AmfConfigMap(store["nf"].spec).out = "ok"
  BY <1>2 DEF Buildable, CreateConfigMap
<1>4. ~ Awake
  BY ObjectKinds DEF Quiet, Awake, AllDelivered, Watched
<1> QED BY <1>2, <1>3, <1>4 DEF QuietInv, Settled, Quiet, NFs

(* At rest the ConfigMap exists, and a Deployment annotated with its        *)
(* version, whatever was edited or deleted, wherever the process crashed,   *)
(* and however late the events came (Reconcile of the amf package).        *)
THEOREM AmfRestsConfigured == ASSUME Undisturbed PROVE Spec => []QuietConfigured
<1>1. QuietInv => QuietConfigured
  BY AtRest DEF QuietConfigured, QuietWith, InPlace
<1> QED BY <1>1, QuietInvInvariant, PTL

(* ... and so does the Service, though Services are not watched            *)
(* (SetupWithManager): the timer of the Deployment's creation makes up.    *)
THEOREM AmfRestsServed == ASSUME Undisturbed PROVE Spec => []QuietServed
<1>1. QuietInv => QuietServed
  <2>1. QuietInv /\ store["dep"] # None => store["svc"] # None
    BY DEF QuietInv, Served, Copies
  <2> QED BY <2>1, AtRest DEF QuietServed, QuietWith, InPlace
<1> QED BY <1>1, QuietInvInvariant, PTL

(* ... and the condition reported last is the Deployment's first one,      *)
(* though a status update may lose against an edit (syncStatus).           *)
THEOREM AmfRestsReported == ASSUME Undisturbed PROVE Spec => []QuietReported
<1>1. QuietInv => QuietReported
  <2> SUFFICES ASSUME QuietInv, Quiet, store["nf"] # None, Buildable(store["nf"])
               PROVE  /\ store["nf"].conds # <<>>
                      /\ store["dep"].conds # <<>> =>
                           Last(store["nf"].conds) = ReportedAs[Head(store["dep"].conds).type]
    BY DEF QuietReported, QuietWith
  <2> DEFINE type == Head(store["dep"].conds).type
             last == Last(store["nf"].conds)
  <2>1. ~ StatusUpdateNeeded(store["dep"].conds, store["nf"].conds)
    BY AtRest DEF InPlace, StatusDone, Quiet
  <2>2. store["nf"].conds # <<>> /\ store["nf"].conds \in Seq(NFConditionTypes)
    <3>1. store["nf"] \in NFObject
      BY ObjectKinds DEF QuietInv, TypeInv, ServerOK
    <3> QED BY <2>1, <3>1 DEF StatusUpdateNeeded, NFObject
  <2>3. last \in NFConditionTypes
    BY <2>2 DEF Last
  <2>4. ASSUME store["dep"].conds # <<>> PROVE type \in DeploymentConditionTypes
    <3>1. store["dep"] \in Deployment
      BY AtRest, ObjectKinds DEF InPlace, QuietInv, TypeInv, ServerOK
    <3>2. Head(store["dep"].conds) \in DeploymentConditions
      BY <2>4, <3>1 DEF Deployment
    <3> QED BY <3>2 DEF DeploymentConditions
  <2>5. ASSUME store["dep"].conds # <<>> PROVE last = ReportedAs[type]
    <3>1. (type = "Progressing" /\ last = "Reconciling") \/ type = last
      BY <2>1, <2>5 DEF StatusUpdateNeeded
    <3> QED BY <2>3, <2>4, <2>5, <3>1
            DEF ReportedAs, NFConditionTypes, DeploymentConditionTypes
  <2> QED BY <2>2, <2>5
<1> QED BY <1>1, QuietInvInvariant, PTL

=============================================================================
