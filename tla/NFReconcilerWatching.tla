------------------------- MODULE NFReconcilerWatching -------------------------
(***************************************************************************)
(* What the operator learns of the server, and when it wakes: lemmas about  *)
(* the watches, the queue and the writes of NFReconciler on which the       *)
(* theorems about its coming to rest are built. And that a Deployment is    *)
(* created only when what it depends on is there.                          *)
(***************************************************************************)
EXTENDS NFReconcilerRefinement, NFResourcesLemmas

-----------------------------------------------------------------------------
(* A watch delivers what was written, in order *)

(* What the cache will show in the end. *)
Latest(k) == IF watch[k] = <<>> THEN cache[k] ELSE Last(watch[k])
LatestInv == \A k \in Kinds : Latest(k) = store[k]

(* No event follows an absence with an absence, so each of an owned object *)
(* carries an owner.                                                       *)
ShownBefore(k, i) == IF i = 1 THEN cache[k] ELSE watch[k][i - 1]
EventsInv ==
  \A k \in Kinds : \A i \in DOMAIN watch[k] : ShownBefore(k, i) # None \/ watch[k][i] # None

Untouched(k) == UNCHANGED <<store[k], watch[k], cache[k]>>
Announced(k) ==
  /\ UNCHANGED cache[k] /\ (store[k] # None \/ store'[k] # None)
  /\ watch'[k] = Append(watch[k], store'[k])
Told(k) ==
  /\ watch[k] # <<>> /\ Deliver(k) /\ UNCHANGED store[k]
  /\ cache'[k] = Head(watch[k]) /\ watch'[k] = Tail(watch[k])

LEMMA ChannelStep ==
  ASSUME TypeInv, [Next]_vars, NEW k \in Kinds
  PROVE  Untouched(k) \/ Announced(k) \/ Told(k) \/ (Restart /\ UNCHANGED store)
<1> USE DEF TypeInv
<1>1. DOMAIN store = Kinds /\ DOMAIN watch = Kinds /\ DOMAIN cache = Kinds
  BY DEF ServerOK, CacheOK
<1>2. CASE ServerUnchanged
  <2>1. CASE UNCHANGED <<watch, cache>>
    BY <1>2, <2>1 DEF ServerUnchanged, Untouched
  <2>2. CASE Restart
    BY <2>2 DEF Restart
  <2>3. ASSUME NEW j \in Kinds, Deliver(j) PROVE Untouched(k) \/ Told(k)
    BY <1>1, <2>3 DEF Deliver, Untouched, Told
  <2> QED BY <1>2, <2>1, <2>2, <2>3 DEF ServerUnchanged
<1>3. ASSUME UNCHANGED cache, NEW j \in Kinds, NEW object \in Object(j), Put(j, object)
      PROVE  Untouched(k) \/ Announced(k)
  BY <1>1, <1>3, NoneAssumption DEF Put, Untouched, Announced
<1>4. ASSUME UNCHANGED cache, NEW j \in Kinds, Erase(j) PROVE Untouched(k) \/ Announced(k)
  BY <1>1, <1>4 DEF Erase, Untouched, Announced
<1> QED BY <1>2, <1>3, <1>4, ServerStep, UpdatedObject DEF Written, Updated

LEMMA StepLatestInv == ASSUME TypeInv, LatestInv, [Next]_vars PROVE LatestInv'
<1> SUFFICES ASSUME NEW k \in Kinds PROVE Latest(k)' = store'[k]
  BY DEF LatestInv
<1>1. Latest(k) = store[k] /\ watch[k] \in Seq(Object(k) \cup {None})
  BY DEF LatestInv, TypeInv, ServerOK
<1>2. CASE Untouched(k)
  BY <1>1, <1>2 DEF Untouched, Latest
<1>3. CASE Announced(k)
  <2>1. watch'[k] # <<>> /\ Last(watch'[k]) = store'[k]
    BY <1>1, <1>3 DEF Announced, Last
  <2> QED BY <2>1 DEF Latest
<1>4. CASE Told(k)
  <2> DEFINE events == watch[k]
             S == Object(k) \cup {None}
  <2>1. events \in Seq(S) /\ events # <<>> /\ cache'[k] = Head(events) /\ watch'[k] = Tail(events)
    BY <1>1, <1>4 DEF Told
  <2>2. /\ Tail(events) \in Seq(S) /\ Len(Tail(events)) = Len(events) - 1
        /\ \A i \in 1 .. Len(Tail(events)) : Tail(events)[i] = events[i + 1]
        /\ Len(events) \in Nat /\ Head(events) = events[1]
    <3> HIDE DEF S, events
    <3> QED BY <2>1, HeadTailProperties, LenProperties
  <2>3. Tail(events) = <<>> => Len(Tail(events)) = 0
    <3> HIDE DEF events
    <3> QED BY EmptySeq
  <2>4. Tail(events) # <<>> => Len(Tail(events)) > 0
    <3> HIDE DEF S, events
    <3> QED BY <2>2, EmptySeq
  <2>5. Latest(k) = events[Len(events)] /\ UNCHANGED store[k]
    BY <1>4, <2>1 DEF Told, Latest, Last
  <2>6. Latest(k)' = events[Len(events)]
    <3> HIDE DEF events
    <3> QED BY <2>1, <2>2, <2>3, <2>4 DEF Latest, Last
  <2> QED BY <1>1, <2>5, <2>6
<1>5. CASE Restart /\ UNCHANGED store
  BY <1>5 DEF Restart, Latest
<1> QED BY <1>2, <1>3, <1>4, <1>5, ChannelStep

LEMMA StepEventsInv == ASSUME TypeInv, LatestInv, EventsInv, [Next]_vars PROVE EventsInv'
<1> SUFFICES ASSUME NEW k \in Kinds, NEW i \in DOMAIN watch'[k]
             PROVE  ShownBefore(k, i)' # None \/ watch'[k][i] # None
  BY DEF EventsInv
<1>1. watch[k] \in Seq(Object(k) \cup {None}) /\ Latest(k) = store[k]
  BY DEF LatestInv, TypeInv, ServerOK
<1>2. \A j \in DOMAIN watch[k] : ShownBefore(k, j) # None \/ watch[k][j] # None
  BY DEF EventsInv
<1>3. CASE Untouched(k)
  BY <1>2, <1>3 DEF Untouched, ShownBefore
<1>4. CASE Announced(k)
  <2>1. CASE i = Len(watch[k]) + 1
    <3>1. watch'[k][i] = store'[k] /\ cache'[k] = cache[k]
      BY <1>1, <1>4, <2>1 DEF Announced
    <3>2. ShownBefore(k, i)' = store[k]
      BY <1>1, <1>4, <2>1, <3>1 DEF Announced, ShownBefore, Latest, Last
    <3> QED BY <1>4, <3>1, <3>2 DEF Announced
  <2>2. CASE i # Len(watch[k]) + 1
    <3>1. i \in DOMAIN watch[k] /\ watch'[k][i] = watch[k][i]
      BY <1>1, <1>4, <2>2 DEF Announced
    <3>2. ShownBefore(k, i)' = ShownBefore(k, i)
      BY <1>1, <1>4, <3>1 DEF Announced, ShownBefore
    <3> QED BY <1>2, <3>1, <3>2
  <2> QED BY <2>1, <2>2
<1>5. CASE Told(k)
  <2>1. i + 1 \in DOMAIN watch[k] /\ i \in Nat /\ i >= 1 /\ watch'[k][i] = watch[k][i + 1]
    BY <1>1, <1>5 DEF Told
  <2>2. ShownBefore(k, i)' = watch[k][i]
    BY <1>1, <1>5, <2>1 DEF Told, ShownBefore
  <2>3. ShownBefore(k, i + 1) = watch[k][i]
    BY <2>1 DEF ShownBefore
  <2> QED BY <1>2, <2>1, <2>2, <2>3
<1>6. CASE Restart /\ UNCHANGED store
  BY <1>6 DEF Restart
<1> QED BY <1>3, <1>4, <1>5, <1>6, ChannelStep

-----------------------------------------------------------------------------
(* One life: what there is belongs to the one NFDeployment *)

(* While nobody deletes it, the NFDeployment stays the same, and nothing     *)
(* that anybody knows of has ever belonged to another one.                 *)
OneLife ==
  /\ \A c \in Copies("nf") : c # None => store["nf"] # None /\ c.uid = store["nf"].uid
  /\ \A k \in Kinds \ {"nf"} : \A c \in Copies(k) :
       c # None => store["nf"] # None /\ c.owner \in {0, store["nf"].uid}

DeleteOp == [nf |-> "DeleteNF", cm |-> "DeleteConfigMap", svc |-> "DeleteService",
             dep |-> "DeleteDeployment"]

(* So nothing is orphaned, and what users do not delete stays. *)
LEMMA Lasting ==
  ASSUME TypeInv, OneLife, [Next]_vars, NEW k \in Kinds, store[k] # None,
         DeleteOp[k] \notin UserOps, k = "dep" => ~ store["dep"].deleting
  PROVE  store'[k] # None
<1> USE DEF TypeInv
<1>1. CASE UNCHANGED store
  BY <1>1
<1>2. ASSUME NEW j \in Kinds, NEW object \in Object(j), Put(j, object) PROVE store'[k] # None
  BY <1>2, NoneAssumption DEF Put, ServerOK
<1>3. ASSUME NEW j \in Kinds \ {k}, Erase(j) PROVE store'[k] # None
  BY <1>3 DEF Erase, ServerOK
<1>4. CASE Reconcile
  BY <1>1, <1>2, <1>4, ReconcileServerStep, UpdatedObject DEF ServerUnchanged
<1>5. CASE Deleted
  <2>1. ASSUME NEW j \in Kinds, DeleteObject(DeleteOp[j], j) PROVE store'[k] # None
    BY <1>3, <2>1 DEF DeleteObject, Operate
  <2> QED BY <1>5, <2>1, ObjectKinds DEF Deleted, DeleteOp
<1>6. CASE User
  BY <1>1, <1>2, <1>5, <1>6, UserServerStep, UpdatedObject DEF ServerUnchanged
<1>7. ASSUME NEW j \in Kinds PROVE ~ Orphaned(j)
  BY ObjectKinds DEF Orphaned, OneLife, Copies
<1>8. CASE RemoveDeployment
  BY <1>3, <1>8, ObjectKinds DEF RemoveDeployment
<1>9. CASE TimerFires \/ Resync \/ Crash \/ UNCHANGED vars \/ \E j \in Kinds : Deliver(j)
  BY <1>1, <1>9 DEF TimerFires, Resync, Crash, Restart, Deliver, server, vars
<1> QED BY <1>4, <1>6, <1>7, <1>8, <1>9 DEF Next, GarbageCollect

LEMMA StepOneLife ==
  ASSUME "DeleteNF" \notin UserOps, TypeInv, OneLife, [Next]_vars PROVE OneLife'
<1>1. ASSUME store["nf"] # None PROVE store'["nf"] # None /\ store'["nf"].uid = store["nf"].uid
  BY <1>1, Lasting, UidStep, ObjectKinds DEF OneLife, DeleteOp
<1>2. ASSUME NEW c \in Copies("nf")', c # None
      PROVE  store'["nf"] # None /\ c.uid = store'["nf"].uid
  <2>1. CASE c \in Copies("nf")
    BY <1>1, <1>2, <2>1 DEF OneLife
  <2>2. CASE c = store'["nf"]
    BY <1>2, <2>2
  <2> QED BY <1>2, <2>1, <2>2, CopiesStep, ObjectKinds
<1>3. ASSUME NEW k \in Kinds \ {"nf"}, NEW c \in Copies(k)', c # None
      PROVE  store'["nf"] # None /\ c.owner \in {0, store'["nf"].uid}
  <2>1. ASSUME NEW d \in Copies(k), d # None, c.owner \in {0, d.owner}
        PROVE  store'["nf"] # None /\ c.owner \in {0, store'["nf"].uid}
    <3>1. store["nf"] # None /\ d.owner \in {0, store["nf"].uid}
      BY <2>1 DEF OneLife
    <3> QED BY <1>1, <2>1, <3>1
  <2>2. CASE pc \notin {"idle", "read"} /\ c.owner \in {0, ControlledBy(w.nf)}
    <3>1. w.nf # None /\ w.nf \in Copies("nf")
      BY <2>2 DEF TypeInv, WorkerOK, Copies
    <3> QED BY <1>1, <2>2, <3>1 DEF OneLife, ControlledBy
  <2>3. CASE c = store'[k]
    BY <1>3, <2>1, <2>2, <2>3, OwnerStep
  <2> QED BY <1>3, <2>1, <2>3, CopiesStep
<1> QED BY <1>2, <1>3 DEF OneLife

(* Versions of ConfigMaps are told from the absence of one. *)
Positive == \A c \in Copies("cm") : c # None => c.rv > 0

LEMMA StepPositive == ASSUME TypeInv, Positive, [Next]_vars PROVE Positive'
<1> SUFFICES ASSUME store'["cm"] # None PROVE store'["cm"].rv > 0
  BY CopiesStep, ObjectKinds DEF Positive
<1>1. store["cm"] # None => store["cm"].rv > 0
  BY DEF Positive, Copies
<1> QED BY <1>1, StoreStep, NextRVOK, ObjectKinds DEF Kept, Erased, Renewed, TypeInv

-----------------------------------------------------------------------------
(* Queue, timer and writes *)

(* What steps do to the queue and to the timer. *)
LEMMA QueueStep ==
  ASSUME TypeInv, [Next]_vars
  PROVE  \/ Restart \/ (Dequeue /\ UNCHANGED timer) \/ TimerFires
         \/ (queued => queued') /\ (timer => timer')
<1>1. CASE Reconcile
  BY <1>1 DEF Reconcile, Dequeue, ReadState, SyncStatus, RollDeployment, FetchConfigRef,
     EnsureConfigMap, EnsureService, PlanDeployment, CheckNAD, CreateNewDeployment,
     UpdateDeployment, Write, Panic, Proceed, Goto, Return, ReturnRequeue, ReturnRequeueAfter
<1>2. CASE Crash
  BY <1>2 DEF Crash
<1>3. CASE User
  BY <1>3 DEF User, CreateNF, EditSpec, EditConfigMap, EditDeployment, MarkDeploymentDeleted,
     DeleteObject, ChangeNADs, SetConfig, ReportCondition, Operate
<1>4. CASE \/ \E k \in Kinds : Deliver(k) \/ GarbageCollect(k)
          \/ TimerFires \/ Resync \/ RemoveDeployment \/ UNCHANGED vars
  BY <1>4 DEF Deliver, GarbageCollect, Resync, RemoveDeployment, Unused, vars
<1> QED BY <1>1, <1>2, <1>3, <1>4 DEF Next

LEMMA NoFault == ASSUME MaxFaults = 0, TypeInv PROVE ~ SpendFault
BY DEF TypeInv, SpentOK, SpendFault

(* While nothing happens to a kind, a write of it can only be refused. *)
LEMMA Refused ==
  ASSUME MaxFaults = 0, TypeInv, NEW k \in Kinds, Untouched(k), NEW accepted, NEW object,
         NEW ACTION Done, NEW ACTION Fail, Write(k, accepted, object, Done, Fail)
  PROVE  ~ accepted /\ Fail
<1>1. ~ Put(k, object)
  <2>1. watch[k] \in Seq(Object(k) \cup {None}) /\ DOMAIN watch = Kinds
    BY DEF TypeInv, ServerOK
  <2>2. Append(watch[k], object) # watch[k]
    BY <2>1
  <2> QED BY <2>1, <2>2 DEF Put, Untouched
<1> QED BY <1>1, NoFault DEF Write

(* Only a pass that planned one creates a Deployment. *)
LEMMA DeploymentAppears ==
  ASSUME TypeInv, [Next]_vars, store["dep"] = None, store'["dep"] # None
  PROVE  /\ pc = "create"
         /\ store'["dep"].ann = w.version /\ store'["dep"].tmpl = Planned.val
<1> DEFINE created == [rv |-> NextRV("dep"), owner |-> ControlledBy(w.nf), ann |-> w.version,
                       tmpl |-> Planned.val, conds |-> <<>>, deleting |-> FALSE]
<1>1. ASSUME NEW k \in Kinds \ {"dep"}, NEW object, Put(k, object) PROVE FALSE
  BY <1>1, ObjectKinds DEF Put, TypeInv, ServerOK
<1>2. CASE NFWritten \/ ConfigMapWritten \/ ServiceWritten
  <2>1. \E k \in Kinds \ {"dep"} : \E object : Put(k, object)
    BY <1>2, ObjectKinds DEF NFWritten, ConfigMapWritten, ServiceWritten
  <2> QED BY <1>1, <2>1
<1>3. CASE \E k \in Kinds : Erase(k)
  BY <1>3, ObjectKinds DEF Erase, TypeInv, ServerOK
<1>4. CASE DeploymentWritten
  <2>1. pc = "create" /\ Put("dep", created)
    BY <1>4 DEF DeploymentWritten, SameVersion
  <2>2. store'["dep"] = created
    BY <2>1, ObjectKinds DEF Put, TypeInv, ServerOK
  <2> QED BY <2>1, <2>2
<1> QED BY <1>2, <1>3, <1>4, ServerStep DEF ServerUnchanged, Written, Updated

LEMMA ServicePut ==
  ASSUME TypeInv, pc = "service",
         Put("svc", [rv |-> NextRV("svc"), owner |-> ControlledBy(w.nf)])
  PROVE  store'["svc"] # None
<1>1. ControlledBy(w.nf) \in Nat
  BY DEF TypeInv, WorkerOK, Pass, ControlledBy, NFObject
<1>2. [rv |-> NextRV("svc"), owner |-> ControlledBy(w.nf)] \in Service
  BY <1>1, NextRVOK, ObjectKinds DEF Service, TypeInv
<1> QED BY <1>2, NoneAssumption, ObjectKinds DEF Put, TypeInv, ServerOK

-----------------------------------------------------------------------------
(* The passes of the three reconcilers, step by step *)

Providers == {spec.provider : spec \in Specs} \cap NFs

(* A pass runs a reconciler that some spec asks for; only the smf has        *)
(* references, and only some network functions have a Service.             *)
PassOK ==
  /\ w.provider \in NFs => w.provider \in Providers
  /\ pc = "refs" => w.provider = "smf"
  /\ pc = "service" => w.provider \in HasService

Carries ==
  w'.provider = w.provider /\ w'.nf = w.nf /\ w'.dep = w.dep /\ w'.svcFound = w.svcFound

Advances(from, to) ==
  /\ pc = from /\ pc' = to /\ Carries /\ w'.version = w.version
  /\ from \notin {"refs", "nad"} => w' = w

Starts ==
  /\ pc = "idle" /\ pc' = "read" /\ w' = [NoPass EXCEPT !.provider = cache["nf"].spec.provider]

Begins ==
  /\ pc = "read"
  /\ pc' = IF cache["dep"] # None THEN "status" ELSE AfterDeployment(w.provider)
  /\ w'.provider = w.provider /\ w'.nf = cache["nf"] /\ w'.dep = cache["dep"]
  /\ w'.version = Version(cache["cm"]) /\ w'.svcFound = (cache["svc"] # None)
  /\ w'.fetched = w.fetched /\ w'.next = w.next

(* One Config is fetched; or all of them have been. *)
NextRef  == w.nf.spec.refs[w.next]
Fetching == [w.fetched EXCEPT ![NextRef] = IF @ = None THEN configs[NextRef] ELSE @]

Fetches ==
  /\ ~ (w.next > Len(w.nf.spec.refs)) /\ NextRef # None /\ configs[NextRef] # None
  /\ w'.next = w.next + 1 /\ w'.fetched = Fetching
FetchedAll ==
  w.next > Len(w.nf.spec.refs) /\ w'.next = 1 /\ w'.fetched = w.fetched

(* The pass has a ConfigMap, or has just created it. *)
Configures ==
  /\ pc = "configmap" /\ pc' = AfterConfigMap(w.provider) /\ Carries
  /\ CreateConfigMap(w.provider, w.nf.spec, w.fetched).out = "ok"
  /\ w'.version # 0 /\ (w'.version = w.version \/ store["cm"] = None)

(* A pass that came as far as the plan for a new Deployment ends with a     *)
(* timer, or with an error of the plan.                                    *)
Ends ==
  /\ pc' = "idle" /\ w' = NoPass
  /\ pc \in {"plan", "nad", "create"} /\ w.dep = None =>
       timer' \/ (pc = "plan" /\ Planned.out = "error")

Plans ==
  /\ Planned.out = "ok"
  /\ \/ Advances("plan", "nad") /\ w.dep = None
     \/ Advances("plan", "update") /\ w.dep # None /\ ~ LeavesExisting(w.provider)

Progress ==
  \/ Restart \/ Ends \/ Starts \/ Begins
  \/ Advances("status", "roll") \/ Advances("roll", AfterDeployment(w.provider))
  \/ Advances("refs", "refs") /\ Fetches
  \/ Advances("refs", "configmap") /\ FetchedAll
  \/ Configures
  \/ Advances("service", "plan") /\ (w.svcFound \/ store'["svc"] # None)
  \/ Plans
  \/ Advances("nad", "nad") \/ Advances("nad", "create")

LEMMA FetchStep ==
  ASSUME TypeInv, FetchConfigRef
  PROVE  \/ Panic \/ Return
         \/ Advances("refs", "refs") /\ Fetches
         \/ Advances("refs", "configmap") /\ FetchedAll
<1> DEFINE refs == w.nf.spec.refs
<1>1. w \in Pass /\ pc = "refs"
  BY DEF TypeInv, WorkerOK, FetchConfigRef
<1>2. CASE w.next > Len(refs)
  <2>1. w' = [w EXCEPT !.next = 1] /\ Goto("configmap")
    BY <1>2 DEF FetchConfigRef
  <2> QED BY <1>1, <1>2, <2>1 DEF Goto, Advances, Carries, FetchedAll, Pass
<1>3. CASE ~ (w.next > Len(refs)) /\ NextRef # None /\ configs[NextRef] # None
  <2>1. w' = [w EXCEPT !.next = @ + 1, !.fetched = Fetching] /\ Goto("refs")
    BY <1>1, <1>3 DEF FetchConfigRef, Pass, NextRef, Fetching
  <2> DEFINE fetched == Fetching
  <2> HIDE DEF fetched
  <2>2. w' = [w EXCEPT !.next = w.next + 1, !.fetched = fetched]
    BY <2>1 DEF fetched
  <2>3. Carries /\ w'.version = w.version /\ w'.next = w.next + 1 /\ w'.fetched = fetched
    BY <1>1, <2>2 DEF Carries, Pass
  <2>4. Fetches
    BY <1>3, <2>3 DEF Fetches, fetched
  <2>5. Advances("refs", "refs")
    BY <1>1, <2>1, <2>3 DEF Goto, Advances
  <2> QED BY <2>4, <2>5, Zenon
<1>4. CASE ~ (w.next > Len(refs)) /\ (NextRef = None \/ configs[NextRef] = None)
  BY <1>4 DEF FetchConfigRef, NextRef
<1> QED BY <1>2, <1>3, <1>4

LEMMA Progresses == ASSUME TypeInv, Reconcile PROVE Progress \/ UNCHANGED <<pc, w>>
<1>1. w \in Pass
  BY DEF TypeInv, WorkerOK
<1>2. ASSUME NEW step, Proceed(step) PROVE Advances(pc, step)
  BY <1>2 DEF Proceed, Goto, Advances, Carries
<1>3. Return \/ ReturnRequeue => pc' = "idle" /\ w' = NoPass
  BY DEF Return, ReturnRequeue
<1>4. ReturnRequeueAfter => Ends
  BY DEF ReturnRequeueAfter, Ends
<1>5. Panic => Restart
  BY DEF Panic
<1>6. CASE Dequeue
  BY <1>6 DEF Dequeue, Starts, Progress
<1>7. CASE ReadState
  <2>1. CASE cache["nf"] = None
    BY <1>3, <1>7, <2>1 DEF ReadState, Progress, Ends
  <2>2. CASE cache["nf"] # None
    BY <1>1, <1>7, <2>2 DEF ReadState, Progress, Begins, Pass, Goto
  <2> QED BY <2>1, <2>2
<1>8. CASE SyncStatus
  BY <1>2, <1>3, <1>8 DEF SyncStatus, Write, Progress, Ends
<1>9. CASE RollDeployment
  BY <1>2, <1>3, <1>5, <1>9 DEF RollDeployment, Write, Progress, Ends
<1>10. CASE FetchConfigRef
  <2>1. pc = "refs"
    BY <1>10 DEF FetchConfigRef
  <2> QED BY <1>3, <1>5, <1>10, <2>1, FetchStep DEF Progress, Ends
<1>11. CASE EnsureConfigMap
  <2> DEFINE next == AfterConfigMap(w.provider)
  <2>1. NextRV("cm") # 0
    BY ObjectKinds, NextRVOK DEF TypeInv
  <2>2. \/ Panic
        \/ Return
        \/ /\ CreateConfigMap(w.provider, w.nf.spec, w.fetched).out = "ok"
           /\ \/ Proceed(next) /\ w.version # 0
              \/ store["cm"] = None /\ Goto(next) /\ w' = [w EXCEPT !.version = NextRV("cm")]
    BY <1>11 DEF EnsureConfigMap, Write
  <2>3. w' = [w EXCEPT !.version = NextRV("cm")] => Carries /\ w'.version = NextRV("cm")
    BY <1>1 DEF Carries, Pass
  <2>4. Proceed(next) => Carries /\ w'.version = w.version /\ pc' = next
    BY DEF Carries, Proceed, Goto
  <2> QED BY <1>3, <1>5, <1>11, <2>1, <2>2, <2>3, <2>4
          DEF EnsureConfigMap, Goto, Configures, Progress, Ends
<1>12. CASE EnsureService
  BY <1>2, <1>3, <1>12, ServicePut DEF EnsureService, Write, Progress, Ends
<1>13. CASE PlanDeployment
  BY <1>2, <1>3, <1>5, <1>13 DEF PlanDeployment, Plans, Progress, Ends
<1>14. CASE CheckNAD
  <2>1. w' = [w EXCEPT !.next = @ + 1] /\ Goto("nad") => Advances("nad", "nad")
    BY <1>1, <1>14 DEF CheckNAD, Goto, Advances, Carries, Pass
  <2> QED BY <1>2, <1>4, <1>14, <2>1 DEF CheckNAD, Progress
<1>15. CASE CreateNewDeployment
  BY <1>4, <1>15 DEF CreateNewDeployment, Write, Progress
<1>16. CASE UpdateDeployment
  BY <1>3, <1>16 DEF UpdateDeployment, Write, Progress, Ends
<1> QED BY <1>6, <1>7, <1>8, <1>9, <1>10, <1>11, <1>12, <1>13, <1>14, <1>15, <1>16
        DEF Reconcile

LEMMA PassStep ==
  ASSUME TypeInv, [Next]_vars PROVE UNCHANGED <<pc, w>> \/ (Progress /\ Reconcile) \/ Restart
BY Progresses, OutsideStep

LEMMA ProviderKnown ==
  ASSUME TypeInv, PassOK, pc # "idle"
  PROVE  w.provider \in NFs /\ w.provider \in Providers
BY DEF TypeInv, WorkerOK, PassOK

LEMMA StepPassOK == ASSUME TypeInv, PassOK, [Next]_vars PROVE PassOK'
<1>1. w'.provider \in NFs => w'.provider \in Providers
  <2>1. cache["nf"] # None => cache["nf"].spec \in Specs
    <3>1. cache["nf"] # None => cache["nf"] \in NFObject
      BY ObjectKinds DEF TypeInv, CacheOK
    <3> QED BY <3>1 DEF NFObject
  <2> QED BY <2>1, WorkerStep, NoneAssumption
          DEF WorkerKnows, Remembered, Forgotten, Dispatched, ReadAnew, PassOK, Providers
<1>2. /\ pc' = "refs" => w'.provider = "smf"
      /\ pc' = "service" => w'.provider \in HasService
  <2>1. CASE UNCHANGED <<pc, w>> \/ Restart
    BY <2>1 DEF PassOK, Restart
  <2>2. CASE Progress
    BY <2>2, ProviderKnown
    DEF PassOK, Progress, Ends, Starts, Begins, Configures, Plans, Advances, Carries,
        AfterDeployment, AfterConfigMap, HasService, NFs, Restart
  <2> QED BY <2>1, <2>2, PassStep
<1> QED BY <1>1, <1>2 DEF PassOK

-----------------------------------------------------------------------------
(* Services are not watched: they come before the Deployments, and stay *)

(* No spec gets a ConfigMap and a Service and then an error for its          *)
(* Deployment. An amf's whose n2 has an address but no gateway does: its    *)
(* pass creates the Service and ends without a timer, and when the gateway *)
(* is added before the Service is in the cache, the next pass ends at the   *)
(* Service and nothing wakes the worker again.                             *)
NoneHalfBuilt ==
  \A nf \in Providers, spec \in Specs, fetched \in FetchedConfigs :
    CreateConfigMap(nf, spec, fetched).out = "ok" => CreateDeployment(nf, spec).out # "error"

(* Only reconcilers with a Service are at work, no call fails, the timers   *)
(* wait for events, and nobody deletes the Service.                        *)
ServiceKept ==
  /\ Providers \subseteq HasService /\ NoneHalfBuilt
  /\ PromptWatch /\ MaxFaults = 0 /\ "DeleteService" \notin UserOps

(* Beyond the ConfigMap a pass works on a spec that is not half built. *)
PlanOK == pc \in {"service", "plan"} => Planned.out # "error"

LEMMA StepPlanOK ==
  ASSUME NoneHalfBuilt, TypeInv, PassOK, PlanOK, [Next]_vars PROVE PlanOK'
<1>1. CASE Configures
  <2>1. /\ w.provider \in Providers /\ w.nf.spec \in Specs /\ w.fetched \in FetchedConfigs
    BY <1>1, ProviderKnown DEF Configures, TypeInv, WorkerOK, Pass, NFObject
  <2>2. CreateDeployment(w.provider, w.nf.spec).out # "error"
    BY <1>1, <2>1 DEF Configures, NoneHalfBuilt
  <2> QED BY <1>1, <2>2 DEF Configures, Carries, Planned, PlanOK
<1>2. ASSUME NEW from, NEW to, Advances(from, to), from = "service" \/ to \notin {"service", "plan"}
      PROVE  PlanOK'
  BY <1>2 DEF Advances, Carries, Planned, PlanOK
<1>3. CASE UNCHANGED <<pc, w>> \/ Restart \/ Ends \/ Starts \/ Begins
  BY <1>3, AfterDeploymentOK DEF Restart, Ends, Starts, Begins, Planned, PlanOK
<1>4. AfterDeployment(w.provider) \notin {"service", "plan"}
  BY AfterDeploymentOK
<1> QED BY <1>1, <1>2, <1>3, <1>4, PassStep DEF Progress, Plans

Served ==
  /\ \A c \in Copies("dep") \cup Copies("svc") : c # None => store["svc"] # None
  /\ w.svcFound \/ pc \in {"plan", "nad", "create"} => store["svc"] # None

LEMMA StepServed ==
  ASSUME ServiceKept, TypeInv, OneLife, PassOK, Served, [Next]_vars PROVE Served'
<1>1. store["svc"] # None => store'["svc"] # None
  BY Lasting, ObjectKinds DEF DeleteOp, ServiceKept
<1>2. ASSUME NEW c \in Copies("dep")' \cup Copies("svc")', c # None PROVE store'["svc"] # None
  <2>1. CASE c \in Copies("dep") \cup Copies("svc")
    BY <1>1, <1>2, <2>1 DEF Served
  <2>2. CASE c = store'["svc"]
    BY <1>2, <2>2
  <2>3. CASE c = store'["dep"]
    <3>1. CASE store["dep"] # None
      BY <1>1, <3>1 DEF Served, Copies
    <3>2. CASE store["dep"] = None
      BY <1>1, <1>2, <2>3, <3>2, DeploymentAppears DEF Served
    <3> QED BY <3>1, <3>2
  <2> QED BY <1>2, <2>1, <2>2, <2>3, CopiesStep, ObjectKinds
<1>3. ASSUME w'.svcFound \/ pc' \in {"plan", "nad", "create"} PROVE store'["svc"] # None
  <2>1. CASE UNCHANGED <<pc, w>>
    BY <1>1, <1>3, <2>1 DEF Served
  <2>2. ~ Restart /\ ~ Ends /\ ~ Starts
    BY <1>3 DEF Restart, Ends, Starts, NoPass
  <2>3. CASE Begins
    <3>1. cache["svc"] # None => store["svc"] # None
      BY DEF Served, Copies, Shown
    <3>2. pc' \notin {"plan", "nad", "create"}
      BY <2>3, AfterDeploymentOK DEF Begins
    <3> QED BY <1>1, <1>3, <2>3, <3>1, <3>2 DEF Begins
  <2>4. CASE Configures
    <3>1. w.provider \in HasService
      BY <2>4, ProviderKnown DEF Configures, ServiceKept
    <3> QED BY <1>1, <1>3, <2>4, <3>1 DEF Configures, AfterConfigMap, Carries, Served
  <2>5. ASSUME NEW from, NEW to, Advances(from, to),
               to \in {"plan", "nad", "create"} =>
                 from \in {"plan", "nad"} \/ w.svcFound \/ store'["svc"] # None
        PROVE  store'["svc"] # None
    BY <1>1, <1>3, <2>5 DEF Advances, Carries, Served
  <2>6. AfterDeployment(w.provider) \notin {"plan", "nad", "create"}
    BY AfterDeploymentOK
  <2> QED BY <2>1, <2>2, <2>3, <2>4, <2>5, <2>6, PassStep DEF Progress, Plans
<1> QED BY <1>2, <1>3 DEF Served

(* While the cache does not show the Service yet, a timer is running or     *)
(* will be set by the pass that created it; and a pass that missed it is    *)
(* not the last one.                                                       *)
ServiceLag ==
  /\ watch["svc"] # <<>> => timer \/ (pc \in {"plan", "nad", "create"} /\ w.dep = None)
  /\ pc \in {"status", "roll", "refs", "configmap", "service"}
       /\ ~ w.svcFound /\ store["svc"] # None => timer \/ queued

(* Only a pass that found none creates a Service, and goes on to the plan. *)
LEMMA ServiceChanges ==
  ASSUME ServiceKept, TypeInv, OneLife, [Next]_vars
  PROVE  \/ UNCHANGED store["svc"] /\ (watch["svc"] = <<>> => watch'["svc"] = <<>>)
         \/ store["svc"] = None /\ pc = "service" /\ Proceed("plan")
<1> USE DEF TypeInv
<1>1. CASE ServerUnchanged
  <2>1. CASE UNCHANGED watch \/ Restart
    BY <1>1, <2>1, ObjectKinds DEF ServerUnchanged, Restart
  <2>2. ASSUME NEW k \in Kinds, Deliver(k)
        PROVE  watch["svc"] = <<>> => watch'["svc"] = <<>>
    BY <2>2, ObjectKinds DEF Deliver, ServerOK
  <2> QED BY <1>1, <2>1, <2>2 DEF ServerUnchanged
<1>2. ASSUME NEW k \in Kinds \ {"svc"}, NEW object, Put(k, object)
      PROVE  UNCHANGED <<store["svc"], watch["svc"]>>
  BY <1>2, ObjectKinds DEF Put, ServerOK
<1>3. CASE NFWritten \/ ConfigMapWritten \/ DeploymentWritten
  <2>1. NFWritten => \E object : Put("nf", object)
    BY Zenon DEF NFWritten
  <2>2. ConfigMapWritten => \E object : Put("cm", object)
    BY DEF ConfigMapWritten
  <2>3. DeploymentWritten => \E object : Put("dep", object)
    BY Zenon DEF DeploymentWritten
  <2> QED BY <1>2, <1>3, <2>1, <2>2, <2>3, ObjectKinds
<1>4. CASE ServiceWritten
  <2>1. Reconcile
    <3>1. store'["svc"] # store["svc"]
      BY <1>4, ServicePut DEF ServiceWritten
    <3> QED BY <1>4, <3>1, OutsideStep DEF ServiceWritten
  <2>2. EnsureService
    BY <1>4, <2>1 DEF ServiceWritten, Reconcile, Dequeue, ReadState, SyncStatus, RollDeployment,
       FetchConfigRef, EnsureConfigMap, PlanDeployment, CheckNAD, CreateNewDeployment,
       UpdateDeployment
  <2> QED BY <1>4, <2>2, NoFault DEF EnsureService, Write, ServiceWritten, Put, server, ServiceKept
<1>5. ASSUME NEW k \in Kinds, Erase(k)
      PROVE  UNCHANGED <<store["svc"], watch["svc"]>>
  <2>1. k # "svc"
    BY <1>5, Lasting, ObjectKinds DEF Erase, ServerOK, DeleteOp, ServiceKept
  <2> QED BY <1>5, <2>1, ObjectKinds DEF Erase, ServerOK
<1> QED BY <1>1, <1>3, <1>4, <1>5, ServerStep DEF Written, Updated

LEMMA StepServiceLag ==
  ASSUME ServiceKept, TypeInv, LatestInv, OneLife, PassOK, PlanOK, Served, ServiceLag,
         [Next]_vars
  PROVE  ServiceLag'
<1> DEFINE Planning == pc \in {"plan", "nad", "create"} /\ w.dep = None
           Early    == /\ pc \in {"status", "roll", "refs", "configmap", "service"}
                       /\ ~ w.svcFound
<1>1. CASE Restart
  BY <1>1, ObjectKinds DEF Restart, ServiceLag
<1>2. CASE store["svc"] = None /\ pc = "service" /\ Proceed("plan")
  <2>1. w.dep = None
    BY <1>2 DEF Served, Copies
  <2> QED BY <1>2, <2>1 DEF Proceed, Goto, ServiceLag
<1>3. CASE /\ ~ Restart
           /\ UNCHANGED store["svc"] /\ (watch["svc"] = <<>> => watch'["svc"] = <<>>)
  <2>1. UNCHANGED <<pc, w>> \/ (Progress /\ Reconcile)
    BY <1>3, PassStep
  <2>2. TimerFires => UNCHANGED <<pc, w>> /\ queued' /\ watch["svc"] = <<>>
    BY ObjectKinds DEF TimerFires, ServiceKept, AllDelivered
  <2>3. watch["svc"] # <<>> /\ timer => timer'
    BY <1>3, <2>2, QueueStep
  <2>4. ASSUME watch["svc"] # <<>>, Planning PROVE timer' \/ Planning'
    <3>1. CASE UNCHANGED <<pc, w>>
      BY <2>4, <3>1
    <3>2. CASE Progress
      <4>1. ~ (pc = "plan" /\ Planned.out = "error")
        BY DEF PlanOK
      <4> QED BY <1>3, <2>4, <3>2, <4>1
              DEF Progress, Ends, Starts, Begins, Configures, Plans, Advances, Carries
    <3> QED BY <2>1, <3>1, <3>2
  <2>5. watch'["svc"] # <<>> => timer' \/ Planning'
    BY <1>3, <2>3, <2>4 DEF ServiceLag
  <2>6. ASSUME Early', store'["svc"] # None PROVE timer' \/ queued'
    <3>1. CASE Early
      <4>1. timer \/ queued
        BY <1>3, <2>6, <3>1 DEF ServiceLag
      <4> QED BY <1>3, <2>2, <3>1, <4>1, QueueStep DEF Dequeue
    <3>2. CASE Begins
      <4>1. watch["svc"] # <<>>
        BY <1>3, <2>6, <3>2, ObjectKinds DEF Begins, LatestInv, Latest
      <4> QED BY <2>3, <3>2, <4>1 DEF Begins, ServiceLag
    <3>3. Early \/ Begins
      BY <1>3, <2>1, <2>6 DEF Progress, Ends, Starts, Configures, Plans, Advances, Carries
    <3> QED BY <3>1, <3>2, <3>3
  <2> QED BY <2>5, <2>6 DEF ServiceLag
<1> QED BY <1>1, <1>2, <1>3, ServiceChanges

-----------------------------------------------------------------------------
(* A Deployment is created complete: the worker asks for its attachments    *)
(* one by one, and others change them meanwhile; what it found stays, as    *)
(* long as nobody removes attachments.                                     *)

Networks == Planned.val.networks

(* The attachments that the worker has found, and where the count starts. *)
FoundInv ==
  /\ pc \notin {"refs", "nad", "create"} => w.next = 1
  /\ pc \in {"nad", "create"} => Planned.out = "ok"
  /\ pc = "nad" => \A i \in DOMAIN Networks : i < w.next => Networks[i].name \in nads
  /\ pc = "create" => \A i \in DOMAIN Networks : Networks[i].name \in nads

LEMMA NetworksAreListed ==
  ASSUME TypeInv, pc \notin {"idle", "read"}, Planned.out = "ok"
  PROVE  /\ Len(Networks) \in Nat /\ DOMAIN Networks = 1 .. Len(Networks)
         /\ \A n \in ToSet(Networks) : \E i \in DOMAIN Networks : n = Networks[i]
<1>1. w.provider \in NFs /\ w.nf.spec \in Specs
  BY DEF TypeInv, WorkerOK, Pass, NFObject
<1>2. IsDeploymentOf(Planned, w.provider, w.nf.spec)
  BY <1>1, SpecsAssumption, DeploymentBuilt DEF Planned
<1>3. Len(Networks) \in Nat /\ DOMAIN Networks = 1 .. Len(Networks)
  BY <1>2 DEF IsDeploymentOf, Networks
<1> QED BY <1>3 DEF ToSet

LEMMA NoPassFound == ASSUME w' = NoPass, pc' = "idle" PROVE FoundInv'
BY DEF NoPass, FoundInv

LEMMA ReconcileFoundInv == ASSUME TypeInv, FoundInv, Reconcile PROVE FoundInv'
<1>1. w \in Pass
  BY DEF TypeInv, WorkerOK
<1>2. Return \/ ReturnRequeue \/ ReturnRequeueAfter \/ Panic => FoundInv'
  BY NoPassFound DEF Return, ReturnRequeue, ReturnRequeueAfter, Panic, Restart
<1>3. ASSUME NEW step, Goto(step), step \notin {"nad", "create"}, w'.next = 1 \/ step = "refs"
      PROVE  FoundInv'
  BY <1>3 DEF Goto, FoundInv
<1>4. ASSUME NEW step, Proceed(step), step \notin {"nad", "create"},
             pc \notin {"refs", "nad", "create"}
      PROVE  FoundInv'
  BY <1>3, <1>4 DEF Proceed, FoundInv
<1>5. CASE Dequeue
  BY <1>5 DEF Dequeue, FoundInv, NoPass
<1>6. CASE ReadState
  <2>1. CASE cache["nf"] = None
    BY <1>2, <1>6, <2>1 DEF ReadState
  <2>2. CASE cache["nf"] # None
    <3>1. w'.next = 1
      BY <1>1, <1>6, <2>2 DEF ReadState, Pass, FoundInv
    <3>2. pc' \in {"status", "refs", "configmap"}
      BY <1>6, <2>2, AfterDeploymentOK DEF ReadState, Goto
    <3> QED BY <3>1, <3>2 DEF FoundInv
  <2> QED BY <2>1, <2>2
<1>7. CASE SyncStatus
  BY <1>2, <1>4, <1>7 DEF SyncStatus, Write
<1>8. CASE RollDeployment
  BY <1>2, <1>4, <1>8, AfterDeploymentOK DEF RollDeployment, Write
<1>9. CASE FetchConfigRef
  <2>1. CASE w' = [w EXCEPT !.next = 1] /\ Goto("configmap")
    BY <1>1, <1>3, <2>1 DEF Pass
  <2>2. \/ w' = [w EXCEPT !.next = 1] /\ Goto("configmap")
        \/ Panic \/ Return \/ Goto("refs")
    BY <1>9 DEF FetchConfigRef
  <2> QED BY <1>2, <1>3, <2>1, <2>2
<1>10. CASE EnsureConfigMap
  <2> DEFINE next == AfterConfigMap(w.provider)
  <2>1. next \notin {"refs", "nad", "create"} /\ w.next = 1 /\ pc = "configmap"
    BY <1>10, AfterConfigMapOK DEF EnsureConfigMap, FoundInv
  <2>2. CASE w' = [w EXCEPT !.version = NextRV("cm")] /\ Goto(next)
    <3>1. w'.next = 1
      BY <1>1, <2>1, <2>2 DEF Pass
    <3> QED BY <1>3, <2>1, <2>2, <3>1
  <2>3. \/ Panic \/ Return \/ Proceed(next)
        \/ w' = [w EXCEPT !.version = NextRV("cm")] /\ Goto(next)
    BY <1>10 DEF EnsureConfigMap, Write
  <2> HIDE DEF next
  <2> QED BY <1>2, <1>4, <2>1, <2>2, <2>3
<1>11. CASE EnsureService
  BY <1>2, <1>4, <1>11 DEF EnsureService, Write
<1>12. CASE PlanDeployment
  <2>1. CASE Proceed("nad") /\ Planned.out = "ok"
    <3>1. pc' = "nad" /\ w' = w /\ w.next = 1 /\ UNCHANGED nads
      BY <1>12, <2>1 DEF PlanDeployment, FoundInv, Proceed, Goto, cluster
    <3>2. Planned' = Planned /\ Networks' = Networks
      BY <3>1 DEF Planned, Networks
    <3>3. \A i \in DOMAIN Networks : ~ (i < 1)
      BY <1>12, <2>1, NetworksAreListed DEF PlanDeployment
    <3> QED BY <2>1, <3>1, <3>2, <3>3 DEF FoundInv
  <2>2. CASE Proceed("update")
    <3>1. pc = "plan"
      BY <1>12 DEF PlanDeployment
    <3> QED BY <1>4, <2>2, <3>1
  <2>3. \/ Panic \/ Return \/ Proceed("update")
        \/ Proceed("nad") /\ Planned.out = "ok"
    BY <1>12 DEF PlanDeployment
  <2> QED BY <1>2, <2>1, <2>2, <2>3
<1>13. CASE CheckNAD
  <2>1. pc = "nad" /\ Planned.out = "ok" /\ UNCHANGED nads
    BY <1>13 DEF CheckNAD, FoundInv, cluster
  <2>2. w.next \in Nat /\ Len(Networks) \in Nat /\ DOMAIN Networks = 1 .. Len(Networks)
    BY <1>1, <2>1, NetworksAreListed DEF Pass
  <2>3. \A i \in DOMAIN Networks : i < w.next => Networks[i].name \in nads
    BY <2>1 DEF FoundInv
  <2>4. CASE w.next > Len(Networks) /\ Proceed("create")
    <3>1. pc' = "create" /\ w' = w
      BY <2>4 DEF Proceed, Goto
    <3>2. Planned' = Planned /\ Networks' = Networks
      BY <3>1 DEF Planned, Networks
    <3>3. \A i \in DOMAIN Networks : Networks[i].name \in nads
      BY <2>2, <2>3, <2>4
    <3> QED BY <2>1, <3>1, <3>2, <3>3 DEF FoundInv
  <2>5. CASE Networks[w.next].name \in nads /\ w' = [w EXCEPT !.next = @ + 1] /\ Goto("nad")
    <3>1. pc' = "nad" /\ w'.next = w.next + 1 /\ w'.nf = w.nf /\ w'.provider = w.provider
      BY <1>1, <2>5 DEF Goto, Pass
    <3>2. Planned' = Planned /\ Networks' = Networks
      BY <3>1 DEF Planned, Networks
    <3>3. \A i \in DOMAIN Networks : i < w.next + 1 => Networks[i].name \in nads
      BY <2>2, <2>3, <2>5
    <3> QED BY <2>1, <3>1, <3>2, <3>3 DEF FoundInv
  <2> QED BY <1>2, <1>13, <2>4, <2>5 DEF CheckNAD, Networks
<1>14. CASE CreateNewDeployment \/ UpdateDeployment
  BY <1>2, <1>14 DEF CreateNewDeployment, UpdateDeployment, Write
<1> QED BY <1>5, <1>6, <1>7, <1>8, <1>9, <1>10, <1>11, <1>12, <1>13, <1>14 DEF Reconcile

LEMMA AttachmentsStay ==
  ASSUME "RemoveNAD" \notin UserOps, [Next]_vars, ~ Reconcile PROVE nads \subseteq nads'
<1>1. CASE Crash
  BY <1>1 DEF Crash, Restart, cluster
<1>2. CASE User
  BY <1>2 DEF User, CreateNF, EditSpec, EditConfigMap, EditDeployment, MarkDeploymentDeleted,
     DeleteObject, ChangeNADs, SetConfig, ReportCondition, Operate, cluster
<1>3. CASE \/ \E k \in Kinds : Deliver(k) \/ GarbageCollect(k)
          \/ TimerFires \/ Resync \/ RemoveDeployment \/ UNCHANGED vars
  BY <1>3 DEF Deliver, GarbageCollect, TimerFires, Resync, RemoveDeployment, Unused, vars, cluster
<1> QED BY <1>1, <1>2, <1>3 DEF Next

LEMMA StepFoundInv ==
  ASSUME "RemoveNAD" \notin UserOps, TypeInv, FoundInv, [Next]_vars PROVE FoundInv'
<1>1. CASE Reconcile
  BY <1>1, ReconcileFoundInv
<1>2. CASE ~ Reconcile /\ UNCHANGED <<pc, w>>
  <2>1. nads \subseteq nads' /\ Planned' = Planned /\ Networks' = Networks
    BY <1>2, AttachmentsStay DEF Planned, Networks
  <2> QED BY <1>2, <2>1 DEF FoundInv
<1>3. CASE Restart
  BY <1>3, NoPassFound DEF Restart
<1> QED BY <1>1, <1>2, <1>3, OutsideStep

-----------------------------------------------------------------------------
CreationInv == RefinementInv /\ FoundInv

(* The conditions that CreatedComplete puts on a step. *)
Complete ==
  store["dep"] = None /\ store'["dep"] # None =>
    /\ store'["dep"].ann \in 1 .. issued["cm"]
    /\ \A n \in ToSet(store'["dep"].tmpl.networks) : n.name \in nads

LEMMA CreationStep == ASSUME CreationInv, [Next]_vars PROVE Complete
<1> SUFFICES ASSUME store["dep"] = None, store'["dep"] # None PROVE Complete
  BY DEF Complete
<1> USE DEF CreationInv, RefinementInv
<1>1. /\ pc = "create"
      /\ store'["dep"].ann = w.version /\ store'["dep"].tmpl = Planned.val
  BY DeploymentAppears
<1>2. w.version \in 1 .. issued["cm"]
  <2>1. w.version \in Nat /\ issued["cm"] \in Nat
    BY ObjectKinds DEF TypeInv, WorkerOK, ServerOK, Pass
  <2> QED BY <1>1, <2>1 DEF VersionsInv, AfterConfigMapSteps
<1>3. \A n \in ToSet(Networks) : n.name \in nads
  BY <1>1, NetworksAreListed DEF FoundInv
<1> QED BY <1>1, <1>2, <1>3 DEF Complete, Networks

(* Whenever the operator creates the Deployment, however old its caches and *)
(* whichever of its calls fail, the ConfigMap its annotation names has been *)
(* written, and every network attachment its annotation asks for exists at *)
(* that moment (ValidateNetworkAttachmentDefinitions before Create).       *)
THEOREM DeploymentsAreComplete ==
  ASSUME "RemoveNAD" \notin UserOps PROVE Spec => CreatedComplete
<1>1. Init => FoundInv
  BY DEF Init, FoundInv, NoPass
<1>2. CreationInv /\ [Next]_vars => FoundInv'
  BY StepFoundInv DEF CreationInv, RefinementInv
<1>3. CreationInv /\ [Next]_vars => [Complete]_store
  BY CreationStep
<1> QED BY <1>1, <1>2, <1>3, RefinementInvInvariant, PTL
        DEF Spec, CreationInv, CreatedComplete, Complete

===============================================================================
