------------------------------ MODULE NFStatus ------------------------------
(***************************************************************************)
(* The status a reconciler reports for an NFDeployment, computed from the  *)
(* conditions of the Deployment it controls (createNfDeploymentStatus,     *)
(* which the amf, smf and upf packages each hold a copy of).               *)
(*                                                                         *)
(* A Deployment condition is its [type, status]; an NFDeployment condition *)
(* is abstracted to its type, which determines its status, reason and      *)
(* message. observedGeneration is left out: nothing reads it.              *)
(***************************************************************************)
EXTENDS Naturals, Sequences, SequencesExt

DeploymentConditionTypes == {"Available", "Progressing", "ReplicaFailure"}
DeploymentConditions == [type : DeploymentConditionTypes, status : BOOLEAN]
Reported(type, status) == [type |-> type, status |-> status]
NFConditionTypes == {"Reconciling", "Available", "Stalled"}

(* The switch that names the state of the NFDeployment after the Deployment's. *)
ReportedAs ==
  [Available |-> "Available", Progressing |-> "Reconciling", ReplicaFailure |-> "Stalled"]

(* Mutant: the first NFDeployment condition taken for the last. *)
StatusUpdateNeededByFirst(depConds, nfConds) ==
  \/ nfConds = <<>>
  \/ /\ depConds # <<>>
     /\ ~ (Head(depConds).type = "Progressing" /\ Head(nfConds) = "Reconciling")
     /\ Head(depConds).type # Head(nfConds)

(* Mutant: no update if either side is processing, where both are asked for. *)
StatusUpdateNeededByNeither(depConds, nfConds) ==
  \/ nfConds = <<>>
  \/ /\ depConds # <<>>
     /\ ~ (Head(depConds).type = "Progressing" \/ Last(nfConds) = "Reconciling")
     /\ Head(depConds).type # Last(nfConds)

(* Mutant: the two names of the processing state not told to be one. *)
StatusUpdateNeededByName(depConds, nfConds) ==
  nfConds = <<>> \/ (depConds # <<>> /\ Head(depConds).type # Last(nfConds))

(* The early returns: whether the status has to be written at all. The code *)
(* looks at the FIRST Deployment condition, which it calls the last, and at *)
(* the last NFDeployment one, and compares the types only.                 *)
StatusUpdateNeeded(depConds, nfConds) ==
  \/ nfConds = <<>>
  \/ /\ depConds # <<>>
     /\ ~ (Head(depConds).type = "Progressing" /\ Last(nfConds) = "Reconciling")
     /\ Head(depConds).type # Last(nfConds)

(* The conditions of the new status: the old list, grown by one. *)
CreateNfDeploymentStatus(depConds, nfConds) ==
  IF nfConds = <<>>
  THEN <<"Reconciling">>
  ELSE Append(nfConds, ReportedAs[Head(depConds).type])

=============================================================================
