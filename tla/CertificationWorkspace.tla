----------------------------- MODULE CertificationWorkspace -----------------------------
(***************************************************************************)
(* The workspace of a certification and the paper it is prepared with.            *)
(* initializeCertification fills a staging directory next to the workspace and    *)
(* renames it into place; two operators may do so at once.  preflightCertification   *)
(* reads the four kinds of input one after the other while they may be edited;    *)
(* sealCertificationReadiness files what it read as a candidate, and              *)
(* signCertificationReadinessArtifact reads it all again, shows the candidate to  *)
(* a human and signs.                                                            *)
(*                                                                         *)
(* A configuration stands for its commitment, a runner manifest or an endpoint manifest   *)
(* for its digest; a test manifest is the runner it binds, a plan the three       *)
(* manifests it binds.  One scenario is selected.                                 *)
(***************************************************************************)
EXTENDS Integers, Sequences, FiniteSets

CONSTANTS
    Preparers,          \* processes that initialize the workspace
    OperatorConfigs,    \* the configurations they may be given
    FilledConfigs,      \* the ones with resources, cleanup, credentials and a desired state
    TrustHistories,     \* the trust event files a signer may be given
    AuthorizationTimes, \* the instants it may be given
    MaxInputEdits,      \* bound: edits of the inputs and of the workspace's configuration
    MaxStageMishaps,    \* bound: failing writes and deaths of an initialization
    MaxSigned           \* bound: signatures

Absent == "absent"

ASSUME WorkspaceAssumption ==
    FilledConfigs \subseteq OperatorConfigs /\ Absent \notin OperatorConfigs
    /\ MaxInputEdits \in Nat /\ MaxStageMishaps \in Nat
    /\ MaxSigned \in Nat

VARIABLES
    workspace,      \* the published directory: its config.json, the commitment of its
                    \* initialization.json, and whose .stage-owner is in it
    preparing,      \* preparer -> where its initialization stands
    stages,         \* preparer -> its staging directory: "none", "bare", "owned" or "filled"
    inputFiles,     \* runner, test, endpoint and plan on disk
    preflight,      \* the one reading of the inputs under way, for the candidate to sign if any
    candidates,     \* the readiness directory
    signedReadiness, \* the authorizations directory
    inputEdits, stageMishaps,
    tornEndpoints   \* history: candidates whose endpoint file was edited between its two readings

workspaceVars == <<workspace, preparing, stages, inputFiles, preflight, candidates, signedReadiness,
                   inputEdits, stageMishaps, tornEndpoints>>

Unpublished == [config |-> Absent, commitment |-> Absent, owner |-> Absent]
NoPlan == <<>>
NoReading == [at |-> "idle", for |-> {}, config |-> Absent, runner |-> 0, test |-> 0, endpoint |-> 0, plan |-> NoPlan,
              torn |-> FALSE]
Manifests == 1..2
Plans == Manifests \X Manifests \X Manifests
InputSets == [runner : {0} \cup Manifests, test : {0} \cup Manifests, endpoint : Manifests,
              plan : {NoPlan} \cup Plans]

(* A behaviour starts with nothing, and then the inputs stay as they are, or with a         *)
(* workspace that a preparer published before, and then they may be edited: edits and       *)
(* initializations do not meet but in the workspace.                                       *)
WorkspaceInit ==
    /\ \/ /\ workspace = Unpublished /\ inputEdits = MaxInputEdits
          /\ preparing = [o \in Preparers |-> [at |-> "rest", config |-> Absent]]
       \/ \E c \in OperatorConfigs :
             /\ workspace = [config |-> c, commitment |-> c, owner |-> Absent] /\ inputEdits = 0
             /\ preparing = [o \in Preparers |-> [at |-> "initialized", config |-> c]]
    /\ stages = [o \in Preparers |-> "none"]
    /\ inputFiles = [runner |-> 1, test |-> 1, endpoint |-> 1, plan |-> <<1, 1, 1>>]
    /\ preflight = NoReading
    /\ candidates = {} /\ signedReadiness = {} /\ tornEndpoints = {}
    /\ stageMishaps = 0
-----------------------------------------------------------------------------
Preparing(o, at) == preparing[o].at = at
MoveTo(o, at) == preparing' = [preparing EXCEPT ![o].at = at]
papers == <<inputFiles, preflight, candidates, signedReadiness, inputEdits, tornEndpoints>>
Slip == stageMishaps < MaxStageMishaps /\ stageMishaps' = stageMishaps + 1

BeginInitialization(o) ==
    /\ Preparing(o, "rest")
    /\ \E c \in OperatorConfigs :
          preparing' = [preparing EXCEPT ![o] =
             [at |-> IF workspace = Unpublished THEN "stage" ELSE "resume", config |-> c]]
    /\ UNCHANGED <<workspace, stages, stageMishaps, papers>>

(* mkdtemp, the owner's file, then the configuration, the initialization and the scaffold. *)
FillStage(o) ==
    /\ Preparing(o, "stage")
    /\ stages' = [stages EXCEPT ![o] = CASE stages[o] = "none" -> "bare"
                                         [] stages[o] = "bare" -> "owned"
                                         [] OTHER -> "filled"]
    /\ IF stages[o] = "owned" THEN MoveTo(o, "publish") ELSE UNCHANGED preparing
    /\ UNCHANGED <<workspace, stageMishaps, papers>>

StageFails(o) ==
    /\ Preparing(o, "stage") /\ stages[o] # "none"
    /\ Slip /\ MoveTo(o, "clear")
    /\ UNCHANGED <<workspace, stages, papers>>

(* rename refuses a directory that is there and not empty. *)
PublishStage(o) ==
    /\ Preparing(o, "publish")
    /\ IF workspace = Unpublished
       THEN /\ workspace' = [config |-> preparing[o].config, commitment |-> preparing[o].config,
                             owner |-> o]
            /\ stages' = [stages EXCEPT ![o] = "none"]
            /\ MoveTo(o, "disown")
       ELSE MoveTo(o, "clear") /\ UNCHANGED <<workspace, stages>>
    /\ UNCHANGED <<stageMishaps, papers>>

RemoveOwnerFile(o) ==
    /\ Preparing(o, "disown")
    /\ \/ /\ workspace' = [workspace EXCEPT !.owner = Absent] /\ MoveTo(o, "initialized")
          /\ UNCHANGED stageMishaps
       \/ Slip /\ MoveTo(o, "clear") /\ UNCHANGED workspace
    /\ UNCHANGED <<stages, papers>>

(* removeOwnedStage leaves a stage that its owner file does not name; then the winner, if  *)
(* there is one, may be resumed.                                                          *)
ClearStage(o) ==
    /\ Preparing(o, "clear")
    /\ stages' = [stages EXCEPT ![o] = IF @ \in {"owned", "filled"} THEN "none" ELSE @]
    /\ MoveTo(o, IF workspace = Unpublished THEN "refused" ELSE "resume")
    /\ UNCHANGED <<workspace, stageMishaps, papers>>

(* validateCertificationInitialization and validateCellScaffold: the initialization is     *)
(* recomputed from the workspace's own configuration.                                     *)
WholeWorkspace == workspace # Unpublished /\ workspace.config = workspace.commitment

ResumeInitialization(o) ==
    /\ Preparing(o, "resume")
    /\ MoveTo(o, IF WholeWorkspace /\ workspace.commitment = preparing[o].config
                 THEN "resumed" ELSE "refused")
    /\ UNCHANGED <<workspace, stages, stageMishaps, papers>>

PreparerDies(o) ==
    /\ preparing[o].at \in {"stage", "publish", "disown", "clear", "resume"}
    /\ Slip
    /\ MoveTo(o, "dead")
    /\ UNCHANGED <<workspace, stages, papers>>
-----------------------------------------------------------------------------
(* preflightCertification: the scenario's runner, test, endpoint and plan in this order,   *)
(* each with an await; the plan is compared with the runner and the test as they were read *)
(* and with the endpoint manifest read once more.                                         *)
BeginPreflight ==
    /\ preflight.at = "idle" /\ WholeWorkspace
    /\ \E purpose \in {{}} \cup {{c} : c \in candidates} :
          preflight' = [NoReading EXCEPT !.at = "runner", !.for = purpose,
                                            !.config = workspace.config]
    /\ UNCHANGED <<workspace, preparing, stages, inputFiles, candidates, signedReadiness, inputEdits,
                   stageMishaps, tornEndpoints>>

PlanFits(r) == r.plan # NoPlan /\ r.plan[1] = r.runner /\ r.plan[2] = r.test

InspectInput ==
    /\ preflight.at \in {"runner", "test", "endpoint", "plan"}
    /\ LET next == CASE preflight.at = "runner" -> [preflight EXCEPT !.at = "test",
                                                     !.runner = inputFiles.runner]
                     [] preflight.at = "test" -> [preflight EXCEPT !.at = "endpoint",
                           !.test = IF preflight.runner \in {0, inputFiles.test} THEN inputFiles.test
                                    ELSE 0]
                     [] preflight.at = "endpoint" -> [preflight EXCEPT !.at = "plan",
                                                       !.endpoint = inputFiles.endpoint]
                     [] OTHER -> [preflight EXCEPT !.at = "read", !.plan = inputFiles.plan,
                                                    !.torn = inputFiles.endpoint # preflight.endpoint]
       IN preflight' = IF next.at = "read"
                          /\ ~(PlanFits(next) /\ next.plan[3] = inputFiles.endpoint)
                       THEN [next EXCEPT !.plan = NoPlan] ELSE next
    /\ UNCHANGED <<workspace, preparing, stages, inputFiles, candidates, signedReadiness, inputEdits,
                   stageMishaps, tornEndpoints>>

PreparationReady ==
    /\ preflight.config \in FilledConfigs
    /\ preflight.runner # 0 /\ preflight.test # 0 /\ preflight.plan # NoPlan
Candidate == [config |-> preflight.config, runner |-> preflight.runner, test |-> preflight.test,
              endpoint |-> preflight.endpoint, plan |-> preflight.plan]

(* The candidate's file is named by its digest: one that is there holds the same bytes.    *)
SealReadiness ==
    /\ preflight.at = "read" /\ preflight.for = {}
    /\ candidates' = IF PreparationReady THEN candidates \cup {Candidate} ELSE candidates
    /\ tornEndpoints' = IF PreparationReady /\ preflight.torn THEN tornEndpoints \cup {Candidate}
                        ELSE tornEndpoints
    /\ preflight' = NoReading
    /\ UNCHANGED <<workspace, preparing, stages, inputFiles, signedReadiness, inputEdits, stageMishaps>>

(* parseTrustEvents: times do not go back, a key is activated once and revoked once, after  *)
(* it; assertActiveAtAuthorization: and a signer's key is never revoked.                  *)
ValidTrust(history) ==
    /\ history # <<>>
    /\ \A i \in DOMAIN history :
          /\ \A j \in 1..(i - 1) : history[j].time <= history[i].time
          /\ LET earlier == {j \in 1..(i - 1) : history[j].key = history[i].key}
             IN IF history[i].action = "activate" THEN earlier = {}
                ELSE /\ Cardinality(earlier) = 1
                     /\ \A j \in earlier : history[j].action = "activate"

ActiveAtAuthorization(history, time) ==
    \A key \in {"human", "cell"} :
       /\ \E i \in DOMAIN history : /\ history[i].key = key /\ history[i].action = "activate"
                                    /\ history[i].time <= time
       /\ ~\E i \in DOMAIN history : history[i].key = key /\ history[i].action = "revoke"

(* The candidate must be what the inputs still say; the files of keys and trust events are *)
(* the signer's own.                                                                      *)
ReviewCandidate ==
    /\ preflight.at = "read" /\ preflight.for # {}
    /\ preflight' = IF PreparationReady /\ preflight.for = {Candidate}
                    THEN [preflight EXCEPT !.at = "confirm"] ELSE NoReading
    /\ UNCHANGED <<workspace, preparing, stages, inputFiles, candidates, signedReadiness, inputEdits,
                   stageMishaps, tornEndpoints>>

(* The human is shown the candidate and says yes or no; only then is the private key read. *)
SignReadiness ==
    /\ preflight.at = "confirm"
    /\ \/ \E history \in TrustHistories, time \in AuthorizationTimes :
             /\ Cardinality(signedReadiness) < MaxSigned
             /\ ValidTrust(history) /\ ActiveAtAuthorization(history, time)
             /\ signedReadiness' = signedReadiness \cup
                   {[candidate |-> c, history |-> history, time |-> time] : c \in preflight.for}
       \/ UNCHANGED signedReadiness
    /\ preflight' = NoReading
    /\ UNCHANGED <<workspace, preparing, stages, inputFiles, candidates, inputEdits, stageMishaps,
                   tornEndpoints>>

(* Somebody edits an input, writes the plan for what is there now, or edits the             *)
(* workspace's configuration, at any moment.                                             *)
EditInputs ==
    /\ inputEdits < MaxInputEdits /\ inputEdits' = inputEdits + 1
    /\ \/ \E v \in Manifests \cup {0} : inputFiles' = [inputFiles EXCEPT !.runner = v]
       \/ \E v \in Manifests : inputFiles' = [inputFiles EXCEPT !.test = v]
       \/ \E v \in Manifests : inputFiles' = [inputFiles EXCEPT !.endpoint = v]
       \/ /\ inputFiles.runner # 0
          /\ inputFiles' = [inputFiles EXCEPT !.plan = <<inputFiles.runner, inputFiles.test,
                                                         inputFiles.endpoint>>]
    /\ UNCHANGED <<workspace, preparing, stages, preflight, candidates, signedReadiness, stageMishaps,
                   tornEndpoints>>

EditWorkspaceConfig ==
    /\ inputEdits < MaxInputEdits /\ inputEdits' = inputEdits + 1
    /\ workspace # Unpublished
    /\ \E c \in OperatorConfigs : workspace' = [workspace EXCEPT !.config = c]
    /\ UNCHANGED <<preparing, stages, inputFiles, preflight, candidates, signedReadiness, stageMishaps,
                   tornEndpoints>>

WorkspaceNext ==
    \/ \E o \in Preparers :
         \/ BeginInitialization(o) \/ FillStage(o) \/ StageFails(o) \/ PublishStage(o)
         \/ RemoveOwnerFile(o) \/ ClearStage(o) \/ ResumeInitialization(o) \/ PreparerDies(o)
    \/ BeginPreflight \/ InspectInput \/ SealReadiness \/ ReviewCandidate \/ SignReadiness
    \/ EditInputs \/ EditWorkspaceConfig

WorkspaceSpec == WorkspaceInit /\ [][WorkspaceNext]_workspaceVars
-----------------------------------------------------------------------------
WorkspaceTypeOK ==
    /\ workspace.config \in OperatorConfigs \cup {Absent}
    /\ stages \in [Preparers -> {"none", "bare", "owned", "filled"}]
    /\ inputFiles \in InputSets
    /\ preflight.at \in {"idle", "runner", "test", "endpoint", "plan", "read", "confirm"}
    /\ \A s \in signedReadiness : s.candidate \in candidates

(* An initialization that was answered "initialized" or "resumed" is the workspace's own:   *)
(* whoever raced it, failed or died, the commitment published first is the one that stands *)
(* and every answer names it; a stage outlives an answered initialization only without its *)
(* owner file.                                                                            *)
WorkspaceStands ==
    \A o \in Preparers :
       /\ preparing[o].at \in {"initialized", "resumed"} =>
             workspace.commitment = preparing[o].config
       /\ preparing[o].at \in {"initialized", "resumed", "refused"} => stages[o] \in {"none", "bare"}

(* What a human signed hangs together, however the files were edited while they were read:  *)
(* the test binds the runner and the plan binds both, under a filled configuration that is *)
(* the workspace's; the plan binds the endpoint manifest too unless that file was edited   *)
(* between its two readings.                                                              *)
SignedIsCoherent ==
    \A s \in signedReadiness :
       LET c == s.candidate
       IN /\ c.test = c.runner /\ c.plan[1] = c.runner /\ c.plan[2] = c.test
          /\ c.plan[3] = c.endpoint \/ c \in tornEndpoints
          /\ c.config \in FilledConfigs /\ c.config = workspace.commitment
=============================================================================
