# The free5gc operator in TLA+

The operator turns a Nephio `NFDeployment` whose provider is
`amf.free5gc.io`, `smf.free5gc.io` or `upf.free5gc.io` into a ConfigMap, a
Service (amf and smf) and a Deployment, and reports the Deployment's condition
back in the status of the `NFDeployment`. These modules model one
`NFDeployment` and everything that happens to it: the controller and its queue,
the informer caches, the three reconcilers, the API server, and the users,
garbage collector and Deployment controller around them.

## Inventory

| Component | Source | State | Operations | What makes it correct |
|---|---|---|---|---|
| Manager process | `free5gc-operator/main.go` | none of its own | start, stop, restart after a crash or a panic | a restart loses nothing that the cluster does not hold |
| NFDeployment controller | `controllers/nf/reconciler.go` | work queue, timers, caches | event handlers, dequeue, dispatch on the provider, requeue | no event that matters is lost; it comes to rest |
| AMF, SMF, UPF reconcilers | `controllers/nf/{amf,smf,upf}/reconciler.go` | local variables of one pass | read, sync status, roll, fetch references, create or update | ConfigMap, Service and Deployment exist, fit together, are owned, and vanish with their owner |
| Status | `controllers/nf/*/status.go` | the conditions of the `NFDeployment` | compute the next list | the list is a history without losses and repetitions, and it ends with the condition of the Deployment that decides |
| Resources and templates | `controllers/nf/*/resources.go`, `templates.go` | none (pure) | build ConfigMap, Service, Deployment from the spec | what is configured is what is attached; incomplete specs end in errors |
| Interface configurations | `controllers/interface_configs.go` | none (pure) | select by interface name | as above |
| Network attachments | `controllers/network_attachment_definitions.go` | none; reads the cluster live | build the annotation, check that the attachments exist | a Deployment is created only when they exist |
| Manifests, images, build | `config/`, `free5gc-images/`, `hack/`, `Makefile` | - | - | not modelled |

The components interact through the API server only. The reconcilers read
ConfigMap, Service, Deployment, NFDeployment and Config from informer caches
that follow the server's watches independently of one another, and write the
server directly. The controller is woken by events of NFDeployments, and of
Deployments and ConfigMaps with a controller reference; Services, Configs and
NetworkAttachmentDefinitions are not watched (the last are read live, because
the client does not cache unstructured objects).

Hard behaviours, each listed with its line under `hazards` in `PROJECT.json`:
stale and mutually inconsistent caches; conflicting updates whose error is
discarded by the wrapper (`nf/reconciler.go:99-106`), so that nothing retries
them; status updates computed from a cached copy; deletion and recreation in the
middle of a pass; the Update of smf and upf that overwrites the whole
Deployment; polling timers; crashes, lost answers and panics between any two
calls.

## Modules

| Module | Models |
|---|---|
| `InterfaceConfigs` | `interface_configs.go`, and the network list of `network_attachment_definitions.go`. Go results are outcomes `ok`, `error`, `panic`. |
| `NFStatus` | `createNfDeploymentStatus`. The three copies of the function are the same but for wording and log text, so there is one operator. |
| `NFTemplates` | `templates.go` of the three packages, as functions from the values substituted to what a network function reads in the rendered file: addresses, ports, slices, data networks, pools, routes, and the indexes that fail. |
| `NFResources` | `resources.go` of the three packages: ConfigMap with its files, Deployment, Service, every error and every nil dereference. |
| `NFLifecycle` | The promise to a client: how NFDeployment, ConfigMap, Service and Deployment may change, each in one step, without caches and passes. `NFReconciler` implements it. |
| `NFReconciler` | The controller, the reconcilers, the API server and the cluster. The core. |
| `MCNFReconciler` | The specs, Configs and reports the runs choose from. |
| `NFResourcesCheck`, `MCNFResources` | A spec that a user completes entry by entry, to check `NFResources` and `NFTemplates` over bounded specs: five entries complete any of the three and leave room for a duplicate or a mistake. |
| `NFReconcilerProofs` | Type correctness, proved. |
| `NFReconcilerSafety` | The safety properties that hold for every instance, proved. |
| `NFReconcilerRefinement` | The refinement of `NFLifecycle`, what rolls keep, and that nothing is left behind, proved. |
| `NFReconcilerWatching` | What the operator learns of the server: watches, queue, refused writes; what a pass does step by step; how Services come before Deployments and stay. A Deployment is created complete, proved. |
| `NFReconcilerQuiet` | The amf comes to rest only with its work done, proved. |
| `NFReconcilerQuietUpdating` | The same of the upf and of the smf, which update the Deployment on every pass. |
| `NFResourcesLemmas` | What the operators on lists select and join, and when each ConfigMap and Deployment is built and what it holds, for specs of any length, proved. |
| `NFResourcesCheckProofs` | The properties of `NFResourcesCheck`, proved. |

`NFReconciler` extends `NFStatus` and `NFResources`, which extends
`NFTemplates`, which extends `InterfaceConfigs`.

### NFLifecycle and the refinement

`NFLifecycle` has five variables: the NFDeployment with the history of its
status (`life`), the controller of each part (`owner`), the version of the
ConfigMap the pods run with (`version`), and two clocks. Its actions say what may
ever be seen: an NFDeployment is created under a new uid, edited, deleted, and
its history grows by one condition that starts with `Reconciling` and repeats
nothing but `Stalled`; a part is built only where there is none and for an
NFDeployment that existed, a Deployment only with the version of a ConfigMap
that was written; the ConfigMap is edited, the Deployment rolled to a version
issued before, its controller lost (`Release`, unless `Keeps`), parts removed.

The mapping is in the section "What a client sees" of `NFReconciler`: `Life`,
`Owners` and `PodVersion` are read off `store`, the clocks are `issued["nf"]` and
`issued["cm"]`, and `Keeps` is `OnlyLeaving`: no spec asks for a network function
whose Deployment is updated on every pass. Everything else of `NFReconciler`
(caches, watches, queue, worker) is hidden, and most of its steps stutter.

### State and actions of NFReconciler

`store` is the API server: at most one object per kind (`nf`, `cm`, `svc`,
`dep`), all under the one name that the operator uses for everything it makes
for an NFDeployment. `issued` is the last resource version per kind, `watch` the
events not delivered yet, `cache` what the informers hold. An object is its
resource version, the uid of its controlling owner and what the operator reads
or writes of it. `queued` and `timer` are the work queue: the key, and whether
it waits out a `RequeueAfter` (10 s and 30 s are not told apart, nor are several
pending timers). `pc` and `w` are the one worker: its next step and the local
variables of `Reconcile`.

A pass is cut at every API call that can see or make a change, so anything can
happen between two of them:

| Action | Code |
|---|---|
| `Dequeue` | `NFDeploymentReconciler.Reconcile`, get and switch |
| `ReadState` | the four `Get`s from the caches at the start of a sub-reconciler |
| `SyncStatus` | `syncStatus` with `createNfDeploymentStatus` and `Status().Update` |
| `RollDeployment` | the annotation comparison, `Update`, `Requeue: true` |
| `FetchConfigRef` | one iteration of `GetAllConfigRefs` (smf) |
| `EnsureConfigMap` | `createConfigMap`, built on every pass, created when not found |
| `EnsureService` | `createService` (amf, smf) |
| `PlanDeployment` | `createDeployment`, built on every pass, and the branch on `deploymentFound` |
| `CheckNAD` | one iteration of `ValidateNetworkAttachmentDefinitions` |
| `CreateNewDeployment` | `Create`, `RequeueAfter: 30s` whatever its result |
| `UpdateDeployment` | the unconditional `Update` of smf and upf |

The four cached reads are one step: the caches change between them in the
program, but any mixture of ages they can see is also a state of `cache`, since
the kinds are delivered independently. `Write` is every write of the operator:
accepted, rejected, or failed on the way before or after the server applied it
(`MaxFaults`). Errors end the pass with an empty result, because the wrapper
drops them (`Return`). A nil dereference ends the process (`Panic`):
controller-runtime 0.18 does not recover panics unless told to. `Restart` fills
the caches with a list, and every listed object counts as created.

Outside the operator (`external` in the map): `Deliver`, `TimerFires`, `Resync`
(controller-runtime, 10 h), `GarbageCollect`, `RemoveDeployment`, and the
operations of users and of the Deployment controller under `User`.
`EditDeployment` is somebody changing the pod template, or taking all its
annotations away: the map is then nil, reads as empty, and panics when written.

Conventions, where the model is coarser than the program:

- Reads from caches do not fail, other than by absence.
- The Deployment's revision annotation, which an unconditional update drops and
  the Deployment controller restores, is left out; it raises no event that
  queues the key, once the owner is gone.
- There is one active worker: `MaxConcurrentReconciles` is 1, and the manifest
  deploys one replica with `--leader-elect` (`config/operator/operator.yaml`).
- The Deployment controller reports conditions and replaces them; that it takes
  `ReplicaFailure` out again once pods can be created is left out, so a
  Deployment that fails first goes on failing.
- A foreground deletion of the Deployment is modelled for the amf only; an
  Update of smf or upf would also drop the finalizer.

## Runs

All runs but `spec_entry` instantiate `MCNFReconciler`.

| Run | Question | Bounds |
|---|---|---|
| `amf_settles` | Has the amf all it needs when nothing is left to do, and does a roll keep what others edited? `TypeOK`, `QuietConfigured`, `QuietServed`, `RollKeepsEdits` | 2 specs, 3 operations |
| `amf_status` | Is the reported status a faithful history? `QuietReported`, `OnlyStalledRepeats`, `StatusOnlyGrows` | 2 specs, 4 operations, status of at most 4 conditions |
| `amf_deleted` | Does deletion leave nothing behind? `NothingLeftBehind`, `DeploymentOwned`; `ImplementsLifecycle` with `Keeps` | 2 operations, 1 fault, 1 crash |
| `amf_recovers` | Is everything repaired in the end, and is a Deployment created complete? `Recovers`, `CreatedComplete` | 3 operations, a stripped pod template among them, 1 fault, 1 crash, caches that lag without limit |
| `smf_recovers` | `Recovers` for the smf with its references, and for specs that fail at each place where building can fail | 8 specs, 2 Configs of two values each, 2 operations |
| `upf_settles` | `QuietConfigured`, `QuietBuilt`, `CreatedComplete` for the Deployment that is updated on every pass; `ComesToRest`, `StatusFollows`; `ImplementsLifecycle` without `Keeps` | 2 specs, 3 networks, 3 operations, reports of a failing Deployment among them, status of at most 4 conditions |
| `spec_entry` | Do ConfigMap, Deployment and Service built from one spec, and the smf's view of its upfs, agree? `ConfiguredIsAttached`, `PeersAgree`, `OneNodePerReference`, `CompleteSpecBuilds`, `SmfBuildsFromUpf` | all specs within 5 entries, data networks of no, two and three pools, two other upfs, all lists of three references to two of them |
| `upf_left_behind` | `NothingLeftBehind` for a upf - violated | |
| `upf_roll_lost` | `QuietConfigured` for a upf whose ConfigMap is edited - violated | |
| `amf_recreated` | `QuietConfigured` for an amf deleted and created again - violated | |
| `amf_last_condition` | "Check the last underlying Deployment status" - violated | |
| `amf_spurious_roll` | "ConfigMap has been updated, rolling Deployment pods" - violated | |

**Bounds.** One fault, one crash and two or three operations, at every point of
a pass, give every pair and triple of disturbances; a pass that follows an
undisturbed one finds everything in place, so longer histories repeat these.
Two specs tell an old from a new one. One kind of each object is all the
operator uses. `MaxConditions` caps the status where a failing Deployment would
grow it without end; the worker stops at the cap, which is why `amf_status`,
`amf_last_condition` and `upf_settles` do not check deadlock. The other runs without deadlock check are those in
which the bounded users can delete the NFDeployment, or never create it, or use
up their operations on attachments and Configs, after which nothing is left to
do. The passing runs between them take every action.

`CreatedComplete` is checked where nobody removes network attachments: the
check and the create are separate calls, and an attachment can vanish between
them. `amf_settles` has such removals. `amf_deleted` has two operations, so that
a deletion of the NFDeployment is not combined with a third one; with three, the
fault and the crash, the state space is beyond a few minutes. The theorem
`OwnedIsCollected` has no such bound.

**PromptWatch.** Events take milliseconds, the timers 10 s and more, the resync
10 h. With `PromptWatch` these slow things wait until the fast ones are done.
The quiescence properties use it, since a resync between any two events would
hide lost ones. `amf_recovers` does without: there caches may lag behind
everything.

**Quiescence.** `Quiet` says that nothing is queued, pending or on its way, and
no garbage is left: only users or the resync can move the system. Each `Quiet...`
property says that the operator has then finished its work, that is that no
lost event and no stale read is left uncorrected. They are checked without
faults: a failed call is dropped by the wrapper and is repaired by the resync
only, which is `Recovers`. `NFReconcilerQuiet` and `NFReconcilerQuietUpdating`
prove them for every instance of that kind. They do not hold for an amf that is
deleted and created again (`amf_recreated`), for a upf with an edited ConfigMap
(`upf_roll_lost`), which are findings, nor for an smf whose Configs arrive after
it. `QuietReported` takes the Deployment's first condition for the one to report,
as the code does; that its comments say the last one is `amf_last_condition`.

**Beside the runs** there are two configurations for the smf.
`smf_missing_reference.cfg` checks "Not all config references found... rerun
reconcile" (`MissingReferenceRerun`), which TLC finds violated at the first
missing Config. `smf_settles.cfg` asks the question of
`amf_settles` and `upf_settles` once more: `QuietConfigured`, `QuietBuilt` and
`QuietServed` for two specs that differ in their references and in what the
Deployment asks for, with two Configs that are there or not from the start, three
operations and a crash. TLC finds no error in it (993007 states).

**Fairness.** The goroutines of the process run, watches deliver, timers and
resyncs come due, the garbage collector works: weak fairness of each. Users,
faults and crashes are not fair, and are bounded. Fairness of the worker is
written with ENABLED spelled out (the worker idles on an empty queue, or steps),
which says the same and is much cheaper to check. `Recovers`, `StatusFollows` and
`ComesToRest` are the liveness properties. `ComesToRest` has two exceptions, and
both occur in `upf_settles`: the operator polls while attachments are missing, and
while `ReplicaFailure` is the first condition of the Deployment each pass adds a
`Stalled` entry, whose event leads to the next pass. That loop has no end in the
program. In the model it ends at `MaxConditions`, where the worker is stuck
(`AtBound`), and fairness, which is that of an action that is not enabled there,
lets it be; without the second exception TLC reports that behaviour. `Recovers` excepts a Deployment whose
pod template stays without annotations: every pass panics on it, and the process
restarts into the next panic until somebody replaces the Deployment. The resync
is what `StatusFollows` rests on for a upf, see below.

## Findings

Each is a `violation` run; TLC prints the behaviour.

1. `upf_left_behind` - the second pass of smf and upf replaces the Deployment by
   a freshly built one without owner references (`upf/reconciler.go:151`,
   `smf/reconciler.go:206`); when the NFDeployment is deleted its pods run on.
2. `upf_roll_lost` - after that, Deployment events no longer queue the key. A
   roll that conflicts with a stale copy is dropped and never repeated.
3. `amf_recreated` - an NFDeployment is deleted and created again. A pass for the
   new one finds the old Deployment in its cache, and no Service. The old parts
   are collected while it runs, so it creates a Service of its own and ends
   without a timer, since a Deployment was found. The next passes see no
   Deployment, and the new Service not yet: its `Create` meets `AlreadyExists`,
   which ends the pass and is dropped. When the Service reaches the cache nobody
   is woken. No Deployment until the resync.
4. `amf_last_condition` - the status follows `Conditions[0]` (`amf/status.go:53`)
   where the comments say that the last condition decides (`amf/status.go:52`,
   `amf/reconciler.go:95`, and the same in smf and upf). New conditions come
   last, so a Deployment that was once available is reported as available while
   it fails. `QuietReported` and `StatusFollows` are about the condition the code
   does decide by: whichever is meant, it must not be lost to a conflict.
5. `amf_spurious_roll` - right after creation the Deployment may be seen before
   the ConfigMap; the annotation is set to the empty version and back again, two
   rollouts for an unchanged ConfigMap.

Met while modelling, without a run of their own: an existing ConfigMap is never
rewritten and the amf's Deployment never updated, so an edited spec has no
effect on them; an smf that finds a Config missing logs "rerun reconcile" and
returns an error, which the wrapper drops, so that nothing reruns until the
resync (`smf_missing_reference.cfg`); the status looks at the type of a condition
only, so that `Available=False` is reported as available; a failing
Deployment, once `ReplicaFailure` is its first condition, adds a `Stalled` entry
on every pass, for ever (`OnlyStalledRepeats` says that nothing else repeats,
`ComesToRest` that nothing else keeps the operator busy); the smf
template needs three pools per data network (`SmfBuildsFromUpf`) while
`test/upf1-config-ref.yaml` gives one, so the smf of "Deploy Test CRs" gets no
ConfigMap; where there are three, the upf configures, masquerades and routes only
the first, so that `PeersAgree` can be stated for the first slice alone; the
routing file of the smf names `BranchingUPF`, `AnchorUPF1` and `AnchorUPF2`, which
are nodes only if upfs happen to have these names; a pod template without
annotations makes every pass panic; and `QuietReported` does not hold for a upf:
once the second pass has removed the controller reference, reports of its
Deployment wake nobody and the status stays behind until the resync, which is
why `upf_settles` checks `StatusFollows` in its place. And one from a proof: for
a spec of an amf or smf that builds a ConfigMap but no Deployment (an n2 or n4
with an address and no gateway), `QuietConfigured` is false. Its pass creates the Service and ends
without a timer; if the gateway is added before the Service is in the cache, the
next pass meets `AlreadyExists` (`amf/reconciler.go:147`, `smf/reconciler.go:178`), and no event follows.
The proofs fail there without the hypothesis `NoneHalfBuilt`, and TLC shows the
behaviour when `amf_settles` is given such a spec.

## Proofs

Of `NFReconciler`, for all values of the constants that satisfy

- `BoundsAssumption`: the bounds are numbers;
- `ConditionsAssumption`: reports are Deployment conditions;
- `NoneAssumption` and `LivesAssumption`: `None` is no network function, number,
  object or life;
- `SpecsAssumption`: the interfaces of every spec and its references (names of
  Configs, or nil) are lists, as the slices of the Go type are. Used by
  `DeploymentsAreComplete` and by `NFReconcilerQuietUpdating`.

Of `NFResourcesCheck`, for any number of entries and any interface configs and
capacity, provided that

- `ListsAssumption`: what a network instance that can be entered holds are lists;
- `ReferencesAssumption`: what an smf gives as references are lists of names of
  the Configs there are;
- `NoneAssumption`: `None` is not the address of the smf's own interface.

TLC evaluates all of them in the runs.

| Theorem | States |
|---|---|
| `TypeCorrect` | `Spec => []TypeOK` |
| `StatusHistory` | `Spec => StatusOnlyGrows` |
| `HistoryWithoutRepeats` | `Spec => []OnlyStalledRepeats` |
| `DeploymentIsOwned` | `Spec => []DeploymentOwned`, if `OnlyLeaving` |
| `LifecycleImplemented` | `Spec => ImplementsLifecycle` |
| `RollsKeepEdits` | `Spec => RollKeepsEdits` |
| `ConfigAndServiceCollected` | no ConfigMap and no Service is left at rest without NFDeployment, under all three reconcilers |
| `OwnedIsCollected` | `Spec => []NothingLeftBehind`, if `OnlyLeaving` |
| `DeploymentsAreComplete` | `Spec => CreatedComplete`, if nobody removes network attachments |
| `AmfRestsConfigured` | `Spec => []QuietConfigured`, if `Undisturbed` (of `NFReconcilerQuiet`) |
| `AmfRestsServed` | `Spec => []QuietServed`, likewise |
| `AmfRestsReported` | `Spec => []QuietReported`, likewise |
| `UpdatingRestsConfigured` | `Spec => []QuietConfigured`, if `Undisturbed` (of `NFReconcilerQuietUpdating`) |
| `UpdatingRestsBuilt` | `Spec => []QuietBuilt`, likewise |
| `UpdatingRestsServed` | `Spec => []QuietServed`, likewise |
| `PodsFindTheirAddresses` | `Spec => []ConfiguredIsAttached` (of `NFResourcesCheck`, as the following) |
| `SmfAndUpfAgree` | `Spec => []PeersAgree` |
| `CompleteSpecsBuild` | `Spec => []CompleteSpecBuilds` |
| `SmfBuildsExactly` | `Spec => []SmfBuildsFromUpf` |
| `OneNodeForEach` | `Spec => []OneNodePerReference` |

`OnlyLeaving` holds of the amf; of the others the two conclusions are false
(`upf_left_behind`), so the hypothesis cannot be dropped.

Both `Undisturbed` ask for `PromptWatch` and no faults, as the runs do, and for
specs of the one provider (or of none that the operator knows). They bound
neither operations nor crashes. For the amf, users may do everything but delete
the NFDeployment (`amf_recreated`) or its Service, and no spec is half built: one
that makes a ConfigMap does not end in an error at the Deployment (see the
findings). For the upf and the smf, users may create and edit the NFDeployment,
add and remove attachments, and reports may come; they leave ConfigMap, Service
and Deployment alone (`upf_roll_lost`, `upf_left_behind`). The smf's specs must
not be half built either, and its Configs are there or not from the start,
because nothing wakes it when one comes or changes (`smf_missing_reference.cfg`); a
upf reads none. `amf_settles`, `amf_status`, `upf_settles` and `smf_settles` are
instances.

*Type correctness.* `TypeOK` is not inductive: a pass uses `w.nf` and `w.dep`
as objects. `WorkerOK` adds what the step says of them: past `idle` there is a
provider, past `read` an NFDeployment, and at `status`, `roll` and `update` a
Deployment. One lemma per action, over lemmas for the helpers (`Put`, `Write`,
`Return`, `Restart`).

*Status.* The status update replaces the whole list, so it keeps the history
only because the optimistic lock compares versions, and because equal versions
mean equal objects. `CopiesInv` says so: every copy of an object, in a cache, on
a watch or in the worker's hands, is at most as new as the last version issued,
and one that has the version of the stored NFDeployment is equal to it.
`ServerStep` lists the writes a step can make and `WorkerStep` what it can do to
the worker's copies; both are proved once and all later lemmas argue from them.

*Ownership.* `UidsInv`: no copy of an NFDeployment has uid 0; so what is created
for one has an owner. For the Deployment, `NeverUpdates` says that the update
step is not reached, and `DeploymentCopiesOwned` that the copy which a roll
writes back is owned.

*Refinement.* A step of `NFReconciler` changes `store` in one of few ways
(`ServerStep` of the safety proofs), so there is one lemma for each: a write of
the NFDeployment shows as `Create`, `Edit` or `Report` (`PutNFShows`), one of a
part as `Build`, `Configure`, `Roll` or `Release` (`PutPartShows`), an erasure as
`Delete` or `Remove` (`EraseShows`); all others stutter. What these need beyond
the safety invariants is `RefinementInv`: `VersionsInv`, that every version the
worker read and every annotation of every copy was issued, and that the worker
reaches the creation of a Deployment only with a version other than 0; and
`IssuedUids`, that the uid of every copy of an NFDeployment was issued. For
`Keeps` the copy that a roll writes back must be owned, which is
`DeploymentCopiesOwned` again (`KeepingController`).

*Rolls.* The version lock makes the copy the stored object (`CopiesInv`), so
writing it back changes the annotation only.

*Deletion.* At rest no object is orphaned, and with every part owned by an
NFDeployment and none there, none is left. Of ConfigMap and Service this is true
under all three reconcilers (`OwnedInv`), of the Deployment under the amf's
(`DeploymentIsOwned`).

*Creation.* `FoundInv`: at `nad` the worker has found the attachments before
`w.next`, at `create` all of them, and it starts counting at 1 (the same counter
runs over the references of an smf before). With `RemoveNAD` excluded, what was
found is still there. That the version is one of a written ConfigMap is
`VersionsInv`.

*Rest, amf.* `Quiet...` is about states in which nothing is queued, pending or on
its way, so the invariant has to say what is known once the worker is not
`Awake`. `LatestInv`: the cache shows what is stored once the watch is empty.
`EventsInv` and the ownership invariants: every event of NFDeployment, ConfigMap
and Deployment queues the key (`Wakes`). So the worker falls asleep only by taking
the key or by a restart (`Asleep`), and a pass with no event after its start reads
what is stored: `Fresh` says that the copies of such a pass are the stored
objects. Its updates cannot conflict, and its creates are refused only if the
object is there, so it ends with everything in place, with a timer, or at a spec
that cannot be built: `Settled`.

*Passes.* What a pass does at rest is the same for the three reconcilers up to
the branch on the Deployment. `Progress` lists what a step of the worker can
come to when no call fails (go on, end the pass, panic, write), `Progresses`
proves it once, and `PassOK` says which reconciler can be at which step.

*Services.* They are not watched. `Served` says that a Deployment exists only
after the Service, and `ServiceLag` that an undelivered Service has a timer or a
pass behind it, so that a second `Create` of it, which is refused and ends its
pass, is not the last of it. For that the pass that creates it must go on to a timer, and that is where a half built spec
breaks the argument (`PlanOK`).

*Rest, upf and smf.* The first update of the Deployment takes its controller
reference. From then on (`Free`) its events wake nobody, a pass may work on a
Deployment that is long gone, and `Fresh` cannot say of it what it says for the
amf. What saves the two is that there is only one ConfigMap, whose version every
pass that read it knows (`OneConfigMap`), and that a Deployment without controller
already carries that version (`Steady`), so it is never rolled. All that is left
to do is the update, which carries no resource version and cannot conflict. Both
facts need that users leave the ConfigMap alone; otherwise the conclusion is
false. The smf fetches its Configs one by one before that: `FetchedInv` says that
what was fetched is what is there, and that a pass past the last reference has
all of them. The ConfigMap depends on the referenced ones only (`FetchedAlike`),
so `Buildable`, which speaks of all Configs, tells whether the pass succeeds.

*Lists.* What is built of a spec is selected from lists, joined and counted, by
recursive functions and folds. The library's induction takes an operator as
parameter, which no prover here instantiates; `ListInduction` and `ListRecursion`
replace it by sets of numbers and by functions, and follow from the library's
theorem that numbers have no infinite descent. With them `ThoseSelects`,
`FlattenSeqJoins` and `DistinctRefsKept` say of lists of any length which members
they hold, and `ThoseAll`, `MinIsLeast` and `CountedOnce` what is first, least and
how many there are.

*What is built.* One lemma for each of the three ConfigMaps and one for the
Deployments says exactly when it is built and what it holds
(`AmfConfigMapBuilt`, `UpfConfigMapBuilt`, `SmfConfigMapBuilt`,
`DeploymentBuilt`). `SpecOK`, that the spec's lists are lists, is the only
invariant; the properties follow from it in every state. `ConfiguredIsAttached`
is about two selections of the same list: the ConfigMap takes the first interface
of a name, the Deployment asks for all, in the order of the names, so the first
is among them (`AttachedAt`). `PeersAgree` is about two copies of the same
selection in two packages: the pools of an smf's first slice and the pools of the
upf are the first pools of the same data networks. `OneNodePerReference` follows
from `NodeForEach`, which says it of every list of references of any length over
any set of Configs: the theorem holds for all values of the constants `Peers` and
`References`, of which the run has a small one.

Model-checked only are the liveness properties `Recovers`, `StatusFollows` and
`ComesToRest`, which are out of the prover's reach. `QuietReported` is false for
upf and smf (see the findings).

## Not modelled

Settings of configuration files that nothing else has to agree with; images,
commands, probes and other fixed parts of the objects; the namespaces; flags,
scheme registration, health probes and leader election of the manager, and two
operators at once, which the manifest excludes and a local `make run` does not;
objects of other owners under the NFDeployment's name; Configs whose objects are
not NFDeployments, other than in `NFResources`; manifests, images and build
files.

Several NFDeployments are not modelled. Their objects have different names, the
one worker hands nothing from one pass to the next, and the queue keeps no order
that the code relies on, so a neighbour's pass is a delay, which the
interleavings have already. What remains is its panic, which is a `Crash` at any
point. That a neighbour which panics in every pass can starve all others is
plain without a model: it ends the process, and after each restart it may be
handled first.

## Plan

The order was: the reconcilers of one NFDeployment with the cluster around them
(`NFReconciler`, with `NFStatus` and `NFResources`), its runs and `NFLifecycle`;
the templates and `NFResourcesCheck`; then the proofs, from types and ownership
to the refinement, to quiescence, and to what is built of a spec. Left are the
removal of Deployment conditions and a second NFDeployment whose pass panics.
