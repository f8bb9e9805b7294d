----------------------------- MODULE DispatchPermits -----------------------------
(***************************************************************************)
(* The certification cell: a host is made once with the lifecycle authority of a   *)
(* ceremony, activates the root task of a signed job card, and hands out dispatch  *)
(* permits.  A permit is a reading of everything it depends on, dispatchSnapshot,   *)
(* and is good for one revalidation, which reads everything again and compares.     *)
(* The operator's trust pin lies outside the workspace and may be replaced between *)
(* any two reads; current-trust-observation.json remembers how far its history     *)
(* was seen.                                                                      *)
(*                                                                         *)
(* A trust history is a sequence whose first event stands for the readiness the     *)
(* human signed; the inputs are a version, of which 1 is the signed one.            *)
(***************************************************************************)
EXTENDS CertificationWorkspace, SequencesExt

CONSTANTS
    Checkers,           \* calls that take a snapshot
    RootEffects,        \* effects of the root's allocation
    Modes,              \* what snapshots are for: "ordinary" or "hermetic" permits, "observe"
    MaxWorldChanges,    \* bound: changes from outside
    MaxHistory,         \* bound: events of a trust history
    MaxActivations,     \* bound: attempts at the activation
    MaxSnapshots        \* bound: snapshots begun

ASSUME PermitAssumption ==
    RootEffects \in Nat /\ MaxWorldChanges \in Nat /\ MaxHistory \in Nat \ {0} /\ MaxActivations \in Nat
    /\ MaxSnapshots \in Nat

VARIABLES
    lifecycle,      \* the ceremony's handle: "made", "bound" or "consumed"; the host is there then
    world,          \* what others change: the pin, the task, the session, the inputs, the allocation
    cell,           \* what the activation registers and publishes; each NoAttempt or its attempt
    activating,     \* where the activation stands, and its attempt
    observation,    \* the history of the observation file; <<>> when there is none
    checks,         \* checker -> its snapshot under way
    permit,         \* the snapshot a permit holds, or nothing
    worldChanges, snapshots,
    revalidated,       \* history: what the last successful revalidation read
    seen,           \* history: the longest history an observer wrote
    crossed         \* history: two observers overlapped

permitVars == <<lifecycle, world, cell, activating, observation, checks, permit, worldChanges, snapshots, revalidated,
                seen, crossed>>

NoAttempt == 0
SignedEvent == "signed"      \* the first event, which stands for the readiness's own history
Events == {"other", "delegation-revoked", "card-revoked"}
Pin0 == [readiness |-> 1, history |-> <<SignedEvent>>]
Clear == [at |-> "idle", mode |-> "hermetic", held |-> <<>>, pin |-> Pin0, used |-> 0,
          before |-> <<>>]

(* A behaviour starts before the activation, and then takes no snapshot, or with a root     *)
(* that was activated before, and then does not activate it again: the two meet in the      *)
(* published files only, which an activation does not change once they are there.  The pin's *)
(* history may have grown since.                                                          *)
PermitInit ==
    /\ \/ /\ lifecycle = "made" /\ snapshots = MaxSnapshots
          /\ cell = [root |-> NoAttempt, child |-> NoAttempt, card |-> NoAttempt, pin |-> <<>>,
                     activation |-> NoAttempt]
          /\ activating = [at |-> "rest", attempt |-> NoAttempt, history |-> <<>>]
       \/ /\ lifecycle = "consumed" /\ snapshots = 0
          /\ cell = [root |-> 1, child |-> 1, card |-> 1, pin |-> <<SignedEvent>>, activation |-> 1]
          /\ activating = [at |-> "done", attempt |-> 1, history |-> <<SignedEvent>>]
    /\ \E history \in {Pin0.history, Append(Pin0.history, "other")} :
          world = [pin |-> [Pin0 EXCEPT !.history = history], task |-> "active",
                   session |-> lifecycle = "consumed", inputs |-> 1, used |-> 0]
    /\ observation = <<>>
    /\ checks = [c \in Checkers |-> Clear]
    /\ permit = <<>> /\ worldChanges = 0
    /\ revalidated = {} /\ seen = <<>> /\ crossed = FALSE
-----------------------------------------------------------------------------
Revoked(history, event) == event \in ToSet(history)
Extends(history, earlier) == IsPrefix(earlier, history)
(* jobCardTrustMaterialFromPin: the current history extends the signed readiness's and the *)
(* card's signer is active at its head.                                                   *)
CardTrusted(pin) == Extends(pin.history, <<SignedEvent>>) /\ ~Revoked(pin.history, "card-revoked")
DelegationActive(pin) == ~Revoked(pin.history, "delegation-revoked")

(* createCertificationArtifactKeyBinding binds a handle once. *)
BindArtifactKeys ==
    /\ lifecycle = "made" /\ lifecycle' = "bound"
    /\ UNCHANGED <<world, cell, activating, observation, checks, permit, worldChanges, snapshots, revalidated, seen,
                   crossed>>

(* createCertificationCellHost: the descriptors must be active in the pin's current history *)
(* before the handle is consumed; no second host is made with it.                          *)
CreateCellHost ==
    /\ lifecycle = "bound" /\ world.pin.readiness = 1
    /\ Extends(world.pin.history, <<SignedEvent>>) /\ DelegationActive(world.pin)
    /\ lifecycle' = "consumed"
    /\ UNCHANGED <<world, cell, activating, observation, checks, permit, worldChanges, snapshots, revalidated, seen,
                   crossed>>
-----------------------------------------------------------------------------
(* activateCertificationRootTask: the caller's pin is the one on disk, the root is          *)
(* registered, then its child, and the job card, the pin and the activation are published, *)
(* each exactly: another file of the same name is a conflict.  An attempt has an issuing   *)
(* time of its own, or repeats an earlier one.                                            *)
activationRest == <<lifecycle, world, observation, checks, permit, worldChanges, snapshots, revalidated, seen, crossed>>

BeginActivation ==
    /\ lifecycle = "consumed" /\ activating.at \in {"rest", "failed"}
    /\ world.pin.readiness = 1 /\ CardTrusted(world.pin) /\ DelegationActive(world.pin)
    /\ \E k \in 1..MaxActivations :
          /\ k <= activating.attempt + 1
          /\ activating' = [at |-> "root", attempt |-> k, history |-> world.pin.history]
    /\ UNCHANGED <<cell, activationRest>>

(* Where an attempt may find what another one left: the same is passed over, anything else *)
(* ends it.                                                                               *)
PublishedAs(field, value, nothing, next) ==
    IF cell[field] \in {nothing, value}
    THEN /\ cell' = [cell EXCEPT ![field] = value]
         /\ activating' = [activating EXCEPT !.at = next]
    ELSE /\ activating' = [activating EXCEPT !.at = "failed"]
         /\ UNCHANGED cell

ActivateStep ==
    /\ \/ activating.at = "root" /\ world.task = "active"
          /\ PublishedAs("root", activating.attempt, NoAttempt, "child")
       \/ activating.at = "child" /\ world.task = "active"
          /\ PublishedAs("child", activating.attempt, NoAttempt, "card")
       \/ activating.at = "card" /\ PublishedAs("card", 1, NoAttempt, "pin")
       \/ activating.at = "pin" /\ PublishedAs("pin", activating.history, <<>>, "activation")
       \/ activating.at = "activation"
          /\ PublishedAs("activation", activating.attempt, NoAttempt, "rest")
    /\ UNCHANGED activationRest

(* A refusal of the registry, a failing write, or a death. *)
ActivationFails ==
    /\ activating.at \notin {"rest", "failed"}
    /\ activating' = [activating EXCEPT !.at = "failed"]
    /\ UNCHANGED <<cell, activationRest>>

(* activatePrincipalSession resolves the binding of the activation and issues a credential. *)
ActivatePrincipalSession ==
    /\ cell.activation # NoAttempt /\ world.task = "active" /\ ~world.session
    /\ world' = [world EXCEPT !.session = TRUE]
    /\ UNCHANGED <<lifecycle, cell, activating, observation, checks, permit, worldChanges, snapshots, revalidated, seen,
                   crossed>>
-----------------------------------------------------------------------------
(* What others do between two reads: the operator appends to the trust history, puts an     *)
(* earlier pin or one of another readiness back; the task or the session is revoked, or    *)
(* its grant expires, the inputs are edited, an effect is spent or refunded.                                 *)
ChangeWorld ==
    /\ worldChanges < MaxWorldChanges /\ worldChanges' = worldChanges + 1
    /\ \/ \E e \in Events : /\ Len(world.pin.history) < MaxHistory
                            /\ ~Revoked(world.pin.history, e)
                            /\ world' = [world EXCEPT !.pin.history = Append(@, e)]
       \/ \E k \in 1..(Len(world.pin.history) - 1) :
             world' = [world EXCEPT !.pin.history = SubSeq(@, 1, k)]
       \/ world' = [world EXCEPT !.pin.readiness = 2]
       \/ world' = [world EXCEPT !.task = "revoked"]
       \/ world' = [world EXCEPT !.session = FALSE]
       \/ world' = [world EXCEPT !.inputs = 3 - @]
       \/ world.used < RootEffects /\ world' = [world EXCEPT !.used = @ + 1]
       \/ world.used > 0 /\ world' = [world EXCEPT !.used = @ - 1]
    /\ UNCHANGED <<lifecycle, cell, activating, observation, checks, permit, snapshots, revalidated, seen, crossed>>
-----------------------------------------------------------------------------
(* dispatchSnapshot, of a request for a permit, of an observation of the state, which does  *)
(* not ask for an effect, or of a permit's one revalidation.                              *)
Checking(c, at) == checks[c].at = at
snapshotRest == <<lifecycle, world, cell, activating, worldChanges>>
Refuses(c) == checks' = [checks EXCEPT ![c] = Clear]
Turn(c, step) == checks' = [checks EXCEPT ![c] = step]

BeginSnapshot(c) ==
    /\ Checking(c, "idle") /\ cell.activation # NoAttempt
    /\ snapshots < MaxSnapshots /\ snapshots' = snapshots + 1
    /\ \/ \E mode \in Modes :
             Turn(c, [Clear EXCEPT !.at = "pin", !.mode = mode, !.before = seen]) /\ UNCHANGED permit
       \/ /\ permit # <<>> /\ permit' = <<>>
          /\ Turn(c, [Clear EXCEPT !.at = "pin", !.mode = "revalidate", !.held = permit, !.before = seen])
    /\ UNCHANGED <<snapshotRest, observation, revalidated, seen, crossed>>

(* The immutable parts of the pin are the ones published with the activation, and its       *)
(* history extends the activation's.                                                      *)
ReadPin(c) ==
    /\ Checking(c, "pin")
    /\ IF world.pin.readiness = 1 /\ Extends(world.pin.history, cell.pin)
       THEN Turn(c, [checks[c] EXCEPT !.at = "prior", !.pin = world.pin])
       ELSE Refuses(c)
    /\ UNCHANGED <<snapshotRest, snapshots, observation, permit, revalidated, seen, crossed>>

(* A slip: a prior observation is compared only as far as the history goes. *)
NotRolledBackAsFar(history, prior) ==
    Extends(history, SubSeq(prior, 1, IF Len(prior) > Len(history) THEN Len(history) ELSE Len(prior)))
NotRolledBack(history, prior) == Extends(history, prior)

ReadPriorObservation(c) ==
    /\ Checking(c, "prior")
    /\ IF NotRolledBack(checks[c].pin.history, observation)
       THEN Turn(c, [checks[c] EXCEPT
                     !.at = IF observation = checks[c].pin.history THEN "authority" ELSE "observe"])
       ELSE Refuses(c)
    /\ crossed' = (crossed \/ \E d \in Checkers \ {c} : Checking(d, "observe"))
    /\ UNCHANGED <<snapshotRest, snapshots, observation, permit, revalidated, seen>>

(* A file of its own, renamed over the observation: no lock, no second look. *)
WriteObservation(c) ==
    /\ Checking(c, "observe")
    /\ observation' = checks[c].pin.history
    /\ seen' = IF Len(observation') > Len(seen) THEN observation' ELSE seen
    /\ Turn(c, [checks[c] EXCEPT !.at = "authority"])
    /\ UNCHANGED <<snapshotRest, snapshots, permit, revalidated, crossed>>

(* verifyCurrentJobCardTrust and the delegation signer; no registered runner is ready for   *)
(* an ordinary permit.  Then the task, the binding of the session and the bearer's          *)
(* principal, and the allocation, which an observation does not ask for an effect.         *)
ReadAuthority(c) ==
    /\ Checking(c, "authority")
    /\ IF /\ CardTrusted(checks[c].pin) /\ DelegationActive(checks[c].pin)
          /\ checks[c].mode # "ordinary"
          /\ world.task = "active" /\ world.session
          /\ world.used < RootEffects \/ checks[c].mode = "observe"
       THEN Turn(c, [checks[c] EXCEPT !.at = "inputs", !.used = world.used]) ELSE Refuses(c)
    /\ UNCHANGED <<snapshotRest, snapshots, observation, permit, revalidated, seen, crossed>>

(* preflight and the manifests: they must be what the readiness committed to. *)
ReadInputs(c) ==
    /\ Checking(c, "inputs")
    /\ IF world.inputs = 1
       THEN Turn(c, [checks[c] EXCEPT !.at = "answer"]) ELSE Refuses(c)
    /\ UNCHANGED <<snapshotRest, snapshots, observation, permit, revalidated, seen, crossed>>

Snapshot(c) == <<checks[c].pin.history, checks[c].used>>

AnswerSnapshot(c) ==
    /\ Checking(c, "answer")
    /\ permit' = IF checks[c].mode = "hermetic" THEN Snapshot(c) ELSE permit
    /\ revalidated' = IF checks[c].mode = "revalidate" /\ checks[c].pin.history = checks[c].held[1]
                      /\ checks[c].used = checks[c].held[2]
                   THEN {[history |-> checks[c].pin.history, before |-> checks[c].before]}
                   ELSE revalidated
    /\ Refuses(c)
    /\ UNCHANGED <<snapshotRest, snapshots, observation, seen, crossed>>

(* Any read may fail, and the process may die, at every await. *)
SnapshotFails(c) ==
    /\ ~Checking(c, "idle")
    /\ Refuses(c)
    /\ UNCHANGED <<snapshotRest, snapshots, observation, permit, revalidated, seen, crossed>>

PermitNext ==
    \/ BindArtifactKeys \/ CreateCellHost \/ BeginActivation \/ ActivateStep \/ ActivationFails
    \/ ActivatePrincipalSession \/ ChangeWorld
    \/ \E c \in Checkers :
         \/ BeginSnapshot(c) \/ ReadPin(c) \/ ReadPriorObservation(c) \/ WriteObservation(c)
         \/ ReadAuthority(c) \/ ReadInputs(c)
         \/ AnswerSnapshot(c) \/ SnapshotFails(c)

PermitSpec == PermitInit /\ [][PermitNext]_permitVars
-----------------------------------------------------------------------------
PermitTypeOK ==
    /\ lifecycle \in {"made", "bound", "consumed"}
    /\ world.used \in 0..RootEffects /\ world.inputs \in 1..2
    /\ activating.attempt \in 0..MaxActivations
    /\ Len(observation) <= MaxHistory /\ Len(seen) <= MaxHistory
    /\ \A c \in Checkers : checks[c].at \in {"idle", "pin", "prior", "observe",
                                             "authority", "inputs", "answer"}

(* A permit that passed its revalidation rests on a trust history in which         *)
(* neither signer was revoked, which extends the activation's, and which does not forget an *)
(* event that had been observed before the revalidation began, unless two observers         *)
(* overlapped (dispatchSnapshot, src/authority/certification/cell.ts).                      *)
PermitsAreCurrent ==
    \A a \in revalidated :
       /\ Extends(a.history, cell.pin)
       /\ ToSet(a.history) \cap {"card-revoked", "delegation-revoked"} = {}
       /\ crossed \/ Extends(a.history, a.before)

(* The activation's file stands only over a root, a child, a card and a pin of one attempt  *)
(* with one issuing time; a retry with another time never mixes its grants into it.         *)
ActivationIsOne ==
    cell.activation # NoAttempt =>
       cell.root = cell.activation /\ cell.child = cell.activation /\ cell.pin # <<>>

(* From the workspace to the permit: what was initialized stands, what a human signed hangs   *)
(* together, the cell is activated as one, and a permit rests on what is current              *)
(* (src/authority/certification/).                                                        *)
CertifiedStands == WorkspaceStands /\ SignedIsCoherent /\ ActivationIsOne /\ PermitsAreCurrent
=============================================================================
