----------------------------- MODULE NFLifecycle -----------------------------
(***************************************************************************)
(* What the operator promises about one NFDeployment, as a client of the   *)
(* API server sees it: no caches, no passes, no reads before writes, every *)
(* change in one step.                                                     *)
(*                                                                         *)
(* A status is a history that begins with Reconciling and repeats nothing  *)
(* but Stalled. Parts are built only where there is none, under the name   *)
(* of an NFDeployment that existed, and a Deployment only from a ConfigMap *)
(* that was written. Afterwards nothing but the version that the pods run  *)
(* with and the controller of the Deployment changes, and the controller   *)
(* only by being lost, which a promise to keep it rules out.               *)
(***************************************************************************)
EXTENDS Integers, Sequences

CONSTANTS
  None,
  Keeps  \* whether the Deployment keeps its controller

VARIABLES
  life,      \* the NFDeployment, [uid, history], or None
  owner,     \* part -> the uid of its controller, 0 without one; or None
  version,   \* the version of the ConfigMap that the pods run with, or None
  clock,     \* the number of writes to NFDeployments so far, also the last uid
  revision   \* the number of writes to ConfigMaps so far

variables == <<life, owner, version, clock, revision>>

Parts      == {"cm", "svc", "dep"}
Conditions == {"Reconciling", "Available", "Stalled"}

Init ==
  /\ life = None
  /\ owner = [part \in Parts |-> None]
  /\ version = None
  /\ clock = 0 /\ revision = 0

-----------------------------------------------------------------------------
(* The NFDeployment *)

Create ==
  /\ life = None
  /\ life' = [uid |-> clock + 1, history |-> <<>>]
  /\ clock' = clock + 1
  /\ UNCHANGED <<owner, version, revision>>

Edit ==
  /\ life # None
  /\ clock' = clock + 1
  /\ UNCHANGED <<life, owner, version, revision>>

MayFollow(condition, history) ==
  IF history = <<>> THEN condition = "Reconciling"
  ELSE condition = history[Len(history)] => condition = "Stalled"

Report ==
  /\ life # None
  /\ \E condition \in Conditions :
       /\ MayFollow(condition, life.history)
       /\ life' = [life EXCEPT !.history = Append(@, condition)]
  /\ clock' = clock + 1
  /\ UNCHANGED <<owner, version, revision>>

Delete ==
  /\ life # None
  /\ life' = None
  /\ UNCHANGED <<owner, version, clock, revision>>

-----------------------------------------------------------------------------
(* Its parts *)

Build(part) ==
  /\ owner[part] = None
  /\ \E uid \in 1 .. clock : owner' = [owner EXCEPT ![part] = uid]
  /\ IF part = "dep" THEN version' \in 1 .. revision ELSE UNCHANGED version
  /\ revision' = IF part = "cm" THEN revision + 1 ELSE revision
  /\ UNCHANGED <<life, clock>>

Configure ==
  /\ owner["cm"] # None
  /\ revision' = revision + 1
  /\ UNCHANGED <<life, owner, version, clock>>

(* Version 0 is that of no ConfigMap. *)
Roll ==
  /\ owner["dep"] # None
  /\ version' \in 0 .. revision
  /\ UNCHANGED <<life, owner, clock, revision>>

Release ==
  /\ ~ Keeps /\ owner["dep"] # None
  /\ owner' = [owner EXCEPT !["dep"] = 0]
  /\ version' \in 0 .. revision
  /\ UNCHANGED <<life, clock, revision>>

Remove(part) ==
  /\ owner[part] # None
  /\ owner' = [owner EXCEPT ![part] = None]
  /\ version' = IF part = "dep" THEN None ELSE version
  /\ UNCHANGED <<life, clock, revision>>

Next ==
  \/ Create \/ Edit \/ Report \/ Delete
  \/ \E part \in Parts : Build(part) \/ Remove(part)
  \/ Configure \/ Roll \/ Release

Spec == Init /\ [][Next]_variables

=============================================================================
