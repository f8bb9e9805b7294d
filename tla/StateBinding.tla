------------------------------ MODULE StateBinding ------------------------------
(***************************************************************************)
(* Approving the writes of a skill and binding them to an observed state:    *)
(* cmdApprove and cmdPruneKeys of src/cli.ts over the keystore of            *)
(* src/expect-mac.ts, with the file write-back of a heal (src/writeback.ts).  *)
(*                                                                         *)
(* Commands are processes.  The skill file is read once and written whole at  *)
(* the end, under no lock; the keystore is updated under an exclusive lock    *)
(* file that nobody ever steals; between an observation and its use stands a  *)
(* person at a prompt.                                                      *)
(***************************************************************************)
EXTENDS Integers, FiniteSets

CONSTANTS
    Commands,           \* the commands that may run at once
    WriteSteps,         \* the skill's write steps: 1..k, approved in order
    MaxObservations, MaxMoves, MaxDeaths        \* bounds

ASSUME StateBindingAssumption ==
    /\ IsFiniteSet(WriteSteps) /\ WriteSteps = 1..Cardinality(WriteSteps) /\ WriteSteps # {}
    /\ "free" \notin Commands
    /\ MaxObservations \in Nat /\ MaxMoves \in Nat /\ MaxDeaths \in Nat

VARIABLES
    world,              \* the state the probes project
    skillFile,          \* the steps' approvals and bindings, as on disk
    keystore,           \* the keys on disk
    keyLock,            \* who created the lock file; a dead creator leaves it
    commands,           \* what each command is doing
    observations,       \* the instants: observations so far; a key carries the one it commits to
    consents,           \* history: what people agreed to
    unseen,             \* history: keys removed though no skill file named them when last looked
    deaths

bindingVars == <<world, skillFile, keystore, keyLock, commands, observations, consents, unseen,
                 deaths>>

(* A binding commits to the state observed, under a key of its own. *)
Unbound == [key |-> 0, pre |-> 0]
Unapproved == [covers |-> FALSE, expect |-> Unbound]
ApprovalOf(expect) == [covers |-> TRUE, expect |-> expect]
Current(step) == step.approve = ApprovalOf(step.expect)

AtRest == [verb |-> "none"]
Named == {skillFile[s].expect.key : s \in WriteSteps} \ {0}

BindingInit ==
    /\ world = 0 /\ keystore = {} /\ keyLock = "free" /\ observations = 0
    /\ skillFile = [s \in WriteSteps |-> [approve |-> Unapproved, expect |-> Unbound]]
    /\ commands = [p \in Commands |-> AtRest]
    /\ consents = {} /\ unseen = {} /\ deaths = 0

Doing(p, verb, stage) == commands[p].verb = verb /\ commands[p].stage = stage
Continue(p, command) == commands' = [commands EXCEPT ![p] = command]

MoveWorld ==
    /\ world < MaxMoves
    /\ world' = world + 1
    /\ UNCHANGED <<skillFile, keystore, keyLock, commands, observations, consents, unseen, deaths>>
-----------------------------------------------------------------------------
approveKeeps == <<world, keystore, keyLock, observations, unseen, deaths>>

ApproveStart(p) ==
    /\ commands[p] = AtRest
    /\ \E probe, all, drop, rebind \in BOOLEAN :
          \* the combinations cmdApprove admits and that ask different questions
          /\ ~(probe /\ drop) /\ (all => probe) /\ (rebind => all)
          /\ Continue(p, [verb |-> "approve", stage |-> "step", probe |-> probe, all |-> all,
                          drop |-> drop, rebind |-> rebind, memory |-> skillFile, at |-> 1,
                          seen |-> Unbound, approved |-> 0, read |-> {}])
    /\ UNCHANGED <<skillFile, consents, approveKeeps>>

StepOf(c) == c.memory[c.at]

(* The loop goes on with the next step, this one left as it is or changed. *)
NextStep(p, step) ==
    LET c == commands[p]
    IN Continue(p, [c EXCEPT !.memory[c.at] = step, !.at = @ + 1, !.seen = Unbound, !.read = {},
                             !.approved = IF step # StepOf(c) THEN @ + 1 ELSE @,
                             !.stage = IF c.at + 1 \in WriteSteps THEN "step" ELSE "write"])
Consented(p, expect) ==
    consents' = consents \cup {[step |-> commands[p].at, pre |-> expect.pre,
                                bound |-> expect # Unbound]}

ApprovePlain(p) ==
    /\ Doing(p, "approve", "step") /\ ~commands[p].probe
    /\ LET c == commands[p]
           dropping == c.drop /\ StepOf(c).expect # Unbound
           expect == IF dropping THEN Unbound ELSE StepOf(c).expect
       IN \/ NextStep(p, StepOf(c)) /\ UNCHANGED consents           \* unchanged, skipped or "no"
          \/ /\ dropping \/ StepOf(c).expect = Unbound
             /\ dropping \/ ~Current(StepOf(c))
             /\ NextStep(p, [approve |-> ApprovalOf(expect), expect |-> expect])
             /\ Consented(p, expect)
    /\ UNCHANGED <<skillFile, approveKeeps>>

(* A bound and current step is verified again: nothing is asked while the state     *)
(* stands, the key is gone, or the probe fails.  Otherwise what was seen is shown.   *)
ApproveProbe(p) ==
    /\ Doing(p, "approve", "step") /\ commands[p].probe
    /\ LET c == commands[p]
           again == Current(StepOf(c)) /\ StepOf(c).expect # Unbound
       IN \/ /\ again => (StepOf(c).expect.key \in keystore /\ world # StepOf(c).expect.pre)
             /\ observations < MaxObservations
             /\ observations' = observations + 1
             /\ IF again /\ c.all /\ ~c.rebind
                THEN NextStep(p, StepOf(c))                         \* skipped: world moved
                ELSE Continue(p, [c EXCEPT !.stage = "ask",
                                    !.seen = [key |-> observations', pre |-> world]])
          \/ /\ again \/ c.all \/ Current(StepOf(c))
             /\ NextStep(p, StepOf(c)) /\ UNCHANGED observations     \* left as it is
          \/ /\ ~again /\ ~c.all                                    \* the probe failed
             /\ Continue(p, [c EXCEPT !.stage = "downgrade"])
             /\ UNCHANGED observations
    /\ UNCHANGED <<world, skillFile, keystore, keyLock, consents, unseen, deaths>>

ApproveAnswer(p) ==
    /\ Doing(p, "approve", "ask")
    /\ \/ /\ ~commands[p].all
          /\ NextStep(p, StepOf(commands[p])) /\ UNCHANGED consents
       \/ /\ Consented(p, commands[p].seen)
          /\ Continue(p, [commands[p] EXCEPT !.stage = "mint"])
    /\ UNCHANGED <<skillFile, approveKeeps>>

(* Approve WITHOUT state binding? *)
ApproveDowngrade(p) ==
    /\ Doing(p, "approve", "downgrade")
    /\ \/ NextStep(p, StepOf(commands[p])) /\ UNCHANGED consents
       \/ /\ NextStep(p, [approve |-> ApprovalOf(Unbound), expect |-> Unbound])
          /\ Consented(p, Unbound)
    /\ UNCHANGED <<skillFile, approveKeeps>>

(* A slip: a lock file that stands is taken over.                                       *)
TakeKeyLockOver(p) ==
    /\ keyLock' = p
    /\ Continue(p, [commands[p] EXCEPT !.stage = "update", !.read = keystore])
    /\ UNCHANGED <<world, skillFile, keystore, observations, consents, unseen, deaths>>

(* The key is on disk before the step in memory names it.  A lock that is never freed *)
(* exhausts the retries: a current binding is left, a new one may be approved without. *)
TakeKeyLock(p) ==
    /\ keyLock = "free"
    /\ keyLock' = p
    /\ Continue(p, [commands[p] EXCEPT !.stage = "update", !.read = keystore])
    /\ UNCHANGED <<world, skillFile, keystore, observations, consents, unseen, deaths>>

MintLock(p) == Doing(p, "approve", "mint") /\ TakeKeyLock(p)

MintFails(p) ==
    /\ Doing(p, "approve", "mint") /\ keyLock # "free"
    /\ LET c == commands[p]
       IN IF c.all \/ (Current(StepOf(c)) /\ StepOf(c).expect # Unbound)
          THEN NextStep(p, StepOf(c))
          ELSE Continue(p, [c EXCEPT !.stage = "downgrade"])
    /\ UNCHANGED <<skillFile, consents, approveKeeps>>

(* A slip: the state is read once more when the key is minted.                          *)
MintWriteFresh(p) ==
    /\ Doing(p, "approve", "update")
    /\ keystore' = commands[p].read \cup {commands[p].seen.key}
    /\ keyLock' = "free"
    /\ LET expect == [commands[p].seen EXCEPT !.pre = world]
       IN NextStep(p, [approve |-> ApprovalOf(expect), expect |-> expect])
    /\ UNCHANGED <<world, skillFile, observations, consents, unseen, deaths>>

MintWrite(p) ==
    /\ Doing(p, "approve", "update")
    /\ keystore' = commands[p].read \cup {commands[p].seen.key}
    /\ keyLock' = "free"
    /\ NextStep(p, [approve |-> ApprovalOf(commands[p].seen), expect |-> commands[p].seen])
    /\ UNCHANGED <<world, skillFile, observations, consents, unseen, deaths>>

(* The whole file, as this command holds it. *)
WriteSkill(p) ==
    /\ Doing(p, "approve", "write") \/ Doing(p, "heal", "write")
    /\ skillFile' = IF commands[p].approved > 0 THEN commands[p].memory ELSE skillFile
    /\ Continue(p, AtRest)
    /\ UNCHANGED <<consents, approveKeeps>>

(* A replay that healed a step writes the skill it read when it started. *)
HealStart(p) ==
    /\ commands[p] = AtRest
    /\ Continue(p, [verb |-> "heal", stage |-> "write", memory |-> skillFile, approved |-> 1])
    /\ UNCHANGED <<skillFile, consents, approveKeeps>>
-----------------------------------------------------------------------------
(* The keys that no skill file names are removed: read, scan, ask, scan again, remove *)
(* those minted before the first scan.                                               *)
PruneStart(p) ==
    /\ commands[p] = AtRest /\ keystore # {}
    /\ Continue(p, [verb |-> "prune", stage |-> "scan", since |-> observations,
                    orphans |-> keystore, read |-> {}])
    /\ UNCHANGED <<skillFile, consents, approveKeeps>>

Prune(p) ==
    /\ Doing(p, "prune", "scan") \/ Doing(p, "prune", "rescan")
    /\ LET c == commands[p]
           orphans == c.orphans \ Named
       IN Continue(p, IF orphans = {} THEN AtRest
                      ELSE [c EXCEPT !.orphans = orphans,
                              !.stage = IF c.stage = "scan" THEN "rescan" ELSE "mint"])
    /\ UNCHANGED <<skillFile, consents, approveKeeps>>

PruneLock(p) == Doing(p, "prune", "mint") /\ TakeKeyLock(p)

PruneWrite(p) ==
    /\ Doing(p, "prune", "update")
    /\ LET removed == {k \in commands[p].orphans : k <= commands[p].since}
       IN /\ keystore' = commands[p].read \ removed
          /\ unseen' = unseen \cup removed
    /\ keyLock' = "free"
    /\ Continue(p, AtRest)
    /\ UNCHANGED <<world, skillFile, observations, consents, deaths>>

(* Killed, declined or refused by the lock: nothing in memory is written, and a lock *)
(* file stays.                                                                       *)
EndCommand(p) ==
    /\ commands[p] # AtRest /\ deaths < MaxDeaths
    /\ deaths' = deaths + 1
    /\ keyLock' = IF keyLock = p THEN "stale" ELSE keyLock
    /\ Continue(p, AtRest)
    /\ UNCHANGED <<world, skillFile, keystore, observations, consents, unseen>>

BindingNext ==
    \/ MoveWorld
    \/ \E p \in Commands :
          \/ ApproveStart(p) \/ ApprovePlain(p) \/ ApproveProbe(p) \/ ApproveAnswer(p)
          \/ ApproveDowngrade(p) \/ MintLock(p) \/ MintFails(p) \/ MintWrite(p)
          \/ WriteSkill(p) \/ HealStart(p)
          \/ PruneStart(p) \/ Prune(p) \/ PruneLock(p) \/ PruneWrite(p)
          \/ EndCommand(p)

BindingSpec == BindingInit /\ [][BindingNext]_bindingVars
-----------------------------------------------------------------------------
Binding == [key : 0..MaxObservations, pre : 0..MaxMoves]
StateBindingTypeOK ==
    /\ world \in 0..MaxMoves /\ observations \in 0..MaxObservations
    /\ skillFile \in [WriteSteps -> [approve : [covers : BOOLEAN, expect : Binding],
                                     expect : Binding]]
    /\ keystore \subseteq 1..MaxObservations /\ keyLock \in Commands \cup {"free", "stale"}
    /\ deaths \in 0..MaxDeaths

(* Every approval in the file that covers its step is one a person gave, and a bound  *)
(* one was given for the very state it commits to: not for the one the world had      *)
(* moved to by the time of the answer.                                               *)
ConsentedBinding ==
    \A s \in WriteSteps : Current(skillFile[s]) =>
        [step |-> s, pre |-> skillFile[s].expect.pre, bound |-> skillFile[s].expect # Unbound]
            \in consents

(* A key that the file names is missing only when a prune removed it that found it    *)
(* named nowhere after its confirmation: overlapping approvals and prunes never lose   *)
(* one another's keys, whoever dies.                                                 *)
KeysOutlastUpdates == Named \subseteq keystore \cup unseen

(* A bound step has its key in the keystore: "never a keyless expect" (bindStep).      *)
BoundStepsHaveKeys == Named \subseteq keystore

(* Approvals are for what a person saw, and their keys stay (cmdApprove, cmdPruneKeys). *)
ApprovalsHold == ConsentedBinding /\ KeysOutlastUpdates
=============================================================================
