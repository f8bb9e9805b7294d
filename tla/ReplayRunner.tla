------------------------------ MODULE ReplayRunner ------------------------------
(***************************************************************************)
(* One replay of a skill: src/runner.ts, with the approval of src/approval.ts*)
(* and the escalation ladder of src/escalate.ts and src/writeback.ts.       *)
(*                                                                         *)
(* A step is gated, probed, sent, read and recorded; a step that diverges   *)
(* climbs the ladder.  Level 1 reads the same observation again, level 2    *)
(* sends the call once more.  What the tools, the model and the world       *)
(* answer is a choice; which branch the code then takes is not.             *)
(***************************************************************************)
EXTENDS Integers, Sequences, SequencesExt

CONSTANTS
    Args,           \* argument templates; one template fills to one set of arguments
    NoApproval,     \* a step without an approve line
    NoWrite,        \* a record without a write receipt
    Skills,         \* the skills replayed: sequences of declarations
    RunOptions      \* the options a run may be given

VARIABLES
    options,        \* runSkill's options, fixed for the run
    skill,          \* the steps as this run holds them, heals included
    file,           \* the steps as the skill file holds them
    n,              \* the step at hand
    phase,          \* its next await
    check,          \* its pre-state check
    exec,           \* what executing it gave: outcome, level, write receipt, observation
    writeKeySeen,   \* the first step that wrote each arguments
    steps,          \* the step records so far
    sent,           \* history: the tool calls that went out
    appended        \* the run record is in the ledger

runnerVars == <<options, skill, file, n, phase, check, exec, writeKeySeen, steps, sent, appended>>

Effects == {"read", "idempotent-write", "destructive"}
Checks  == {"none", "match", "mismatch", "unevaluated"}
Phases  == {"idle", "gate", "probe", "dispatch", "answer", "escalate", "redispatch",
            "second-answer", "record", "append", "done", "lost"}

(* The shape an approval hash covers. *)
Shapes == [args : Args, bound : BOOLEAN, deferred : BOOLEAN]

Declarations == [args : Args, effect : Effects, asserts : BOOLEAN, bound : BOOLEAN,
                 emit : BOOLEAN, deferred : BOOLEAN, approve : Shapes \cup {NoApproval}]

ASSUME RunnerAssumption ==
    /\ Skills \subseteq Seq(Declarations)
    \* parseSkill: a skill has a step; only a write is bound or emits, and a binding comes
    \* with an approval
    /\ <<>> \notin Skills
    /\ \A s \in Skills : \A i \in DOMAIN s :
          /\ s[i].bound => s[i].approve # NoApproval
          /\ s[i].bound \/ s[i].emit => s[i].effect # "read"
    /\ RunOptions \subseteq [allow : {"nothing", "writes", "destructive"}, maxLevel : 0..2,
                             refuse : BOOLEAN, mocks : SUBSET Nat]

computeApprovalHash(step) == [args |-> step.args, bound |-> step.bound,
                              deferred |-> step.deferred]

IsWrite(step) == step.effect # "read"

NotRun == [outcome |-> "none", level |-> 0, write |-> NoWrite, observed |-> FALSE]

(* A receipt names what was written and, when the run wrote the same before, where. *)
Receipt(args) == [args |-> args, duplicateOf |-> IF args \in DOMAIN writeKeySeen
                                                 THEN writeKeySeen[args] ELSE 0]
(* A slip: the second call of level 2 is not entered.                                  *)
RegisterFirstCall(args) == IF phase = "second-answer" \/ args \in DOMAIN writeKeySeen
                           THEN writeKeySeen
                           ELSE [a \in DOMAIN writeKeySeen \cup {args} |->
                                    IF a = args THEN n ELSE writeKeySeen[a]]

Register(args) == IF args \in DOMAIN writeKeySeen THEN writeKeySeen
                  ELSE [a \in DOMAIN writeKeySeen \cup {args} |->
                            IF a = args THEN n ELSE writeKeySeen[a]]

Mocked == n \in options.mocks

RunnerInit ==
    /\ options \in RunOptions /\ skill \in Skills /\ file = skill
    /\ n = 1 /\ phase = "idle" /\ check = "none" /\ exec = NotRun
    /\ writeKeySeen = <<>> /\ steps = <<>> /\ sent = <<>> /\ appended = FALSE
-----------------------------------------------------------------------------
runnerConfig == <<options, skill, file>>

(* Executing the step failed without an observation: nothing to escalate. *)
Fails == /\ exec' = [NotRun EXCEPT !.outcome = "failed"]
         /\ phase' = "record"

(* The flags stand in for an approval only where the step carries none. *)
Permitted(step) ==
    IF step.approve # NoApproval THEN step.approve = computeApprovalHash(step)
    ELSE CASE step.effect = "destructive"      -> options.allow = "destructive"
           [] step.effect = "idempotent-write" -> options.allow # "nothing"
           [] OTHER                            -> TRUE

WellDeclared(step) ==
    IsWrite(step) /\ step.deferred => step.emit /\ step.approve # NoApproval

StartRun ==
    /\ phase = "idle"
    /\ phase' = "gate"
    /\ UNCHANGED <<runnerConfig, n, check, exec, writeKeySeen, steps, sent, appended>>

(* --fail N: the template is filled, no gate is reached and nothing is sent.  The *)
(* synthetic observation is judged like a real one.                              *)
MockStep ==
    /\ phase = "gate" /\ Mocked
    /\ \/ Fails                                    \* the template does not fill
       \/ /\ exec' = [NotRun EXCEPT !.outcome = "failed", !.observed = TRUE]
          /\ phase' = "escalate"
       \/ /\ exec' = [NotRun EXCEPT
                        !.outcome = IF skill[n].asserts THEN "passed" ELSE "unchecked",
                        !.observed = TRUE]
          /\ phase' = "record"
    /\ UNCHANGED <<runnerConfig, n, check, writeKeySeen, steps, sent, appended>>

(* Every refusal before the probe: a deferral nothing can be joined to, an approval *)
(* that no longer matches (no flag overrides it), a write nobody permitted.        *)
GateStep ==
    /\ phase = "gate" /\ ~Mocked
    /\ \/ /\ WellDeclared(skill[n]) /\ Permitted(skill[n])
          /\ phase' = "probe"
          /\ UNCHANGED exec
       \/ Fails                                    \* refused, or the template does not fill
    /\ UNCHANGED <<runnerConfig, n, check, writeKeySeen, steps, sent, appended>>

(* The pre-probe and the state check.  An expired approval, a missing key, probe    *)
(* arguments other than the approved ones, a failed or empty probe: unevaluated.   *)
(* A deferred probe has no pre side, so the check of a bound one is unevaluated.   *)
ProbeStep ==
    /\ phase = "probe"
    /\ check' \in IF ~skill[n].bound THEN {"none"}
                  ELSE IF skill[n].deferred THEN {"unevaluated"}
                  ELSE {"match", "mismatch", "unevaluated"}
    /\ \/ /\ options.refuse /\ check' \in {"mismatch", "unevaluated"}
          /\ Fails
       \/ /\ options.refuse /\ skill[n].emit       \* the declared artifact is not covered
          /\ Fails
       \/ /\ ~(options.refuse /\ check' \in {"mismatch", "unevaluated"})
          /\ phase' = "dispatch"
          /\ UNCHANGED exec
    /\ UNCHANGED <<runnerConfig, n, writeKeySeen, steps, sent, appended>>

Call(via, args) == [step |-> n, via |-> via, args |-> args, mocked |-> Mocked,
                    effect |-> skill[n].effect, approve |-> skill[n].approve,
                    shape |-> [computeApprovalHash(skill[n]) EXCEPT !.args = args],
                    check |-> check]

Dispatch ==
    /\ phase = "dispatch"
    /\ sent' = Append(sent, Call("step", skill[n].args))
    /\ phase' = "answer"
    /\ UNCHANGED <<runnerConfig, n, check, exec, writeKeySeen, steps, appended>>

(* The call throws, and may have landed; or it answers, and the asserts and binds   *)
(* hold or not.  The receipt is stamped either way, before the ladder runs.         *)
Answer ==
    /\ phase = "answer"
    /\ LET write == IF IsWrite(skill[n]) THEN Receipt(skill[n].args) ELSE NoWrite
       IN \/ /\ exec' = [NotRun EXCEPT !.outcome = "failed", !.write = write]
             /\ phase' = "record"
          \/ /\ exec' = [NotRun EXCEPT !.outcome = "failed", !.write = write, !.observed = TRUE]
             /\ phase' = "escalate"
          \/ /\ exec' = [NotRun EXCEPT
                           !.outcome = IF skill[n].asserts THEN "passed" ELSE "unchecked",
                           !.write = write, !.observed = TRUE]
             /\ phase' = "record"
    /\ writeKeySeen' = IF IsWrite(skill[n]) THEN Register(skill[n].args) ELSE writeKeySeen
    /\ UNCHANGED <<runnerConfig, n, check, steps, sent, appended>>
-----------------------------------------------------------------------------
(* A patch may drop binds and rewrite asserts, never leave a checked step without   *)
(* any.  The step in memory is healed even when the file cannot be written.         *)
Heal(args) ==
    /\ skill' = [skill EXCEPT ![n].args = args]
    /\ file' \in {file, skill'}
    /\ UNCHANGED options

Healed(level) == [exec EXCEPT !.level = level,
                              !.outcome = IF skill[n].asserts THEN "passed" ELSE "unchecked"]

(* Level 1: the observation already taken, under patched asserts and binds. *)
HealLevel1 ==
    /\ phase = "escalate" /\ options.maxLevel >= 1
    /\ Heal(skill[n].args)
    /\ exec' = Healed(1)
    /\ phase' = "record"
    /\ UNCHANGED <<n, check, writeKeySeen, steps, sent, appended>>

(* No model, no patch that holds, or no level 2 for this step: it stays failed. *)
GiveUp ==
    /\ phase = "escalate"
    /\ phase' = "record"
    /\ UNCHANGED <<runnerConfig, n, check, exec, writeKeySeen, steps, sent, appended>>

(* Two slips: the approval is compared with the step as it stands, not with the model's  *)
(* arguments; and a bound step is sent again like any other.                            *)
ResendableAsApproved(args) ==
    /\ skill[n].effect # "destructive"
    /\ ~skill[n].bound
    /\ Permitted(skill[n])

ResendableBound(args) ==
    /\ skill[n].effect # "destructive"
    /\ IsWrite(skill[n]) /\ skill[n].approve # NoApproval
          => skill[n].approve = [computeApprovalHash(skill[n]) EXCEPT !.args = args]

(* The arguments level 2 may send: of an approved write, only the approved ones. *)
Resendable(args) ==
    /\ skill[n].effect # "destructive"
    /\ ~skill[n].bound
    /\ IsWrite(skill[n]) /\ skill[n].approve # NoApproval
          => skill[n].approve = [computeApprovalHash(skill[n]) EXCEPT !.args = args]

(* Level 2: the model's arguments, sent once more with no probe. *)
Redispatch ==
    /\ phase = "escalate" /\ options.maxLevel = 2
    /\ \E args \in Args :
          /\ Resendable(args)
          /\ sent' = Append(sent, Call("heal", args))
    /\ phase' = "second-answer"
    /\ UNCHANGED <<runnerConfig, n, check, exec, writeKeySeen, steps, appended>>

(* A second call that throws leaves the first receipt in place; one that answers    *)
(* replaces it, whether or not the patch holds.  A mocked step registers nothing.   *)
SecondAnswer ==
    /\ phase = "second-answer"
    /\ LET args   == Last(sent).args
           second == IF IsWrite(skill[n]) THEN [exec EXCEPT !.write = Receipt(args)] ELSE exec
           keys   == IF IsWrite(skill[n]) /\ ~Mocked THEN Register(args) ELSE writeKeySeen
       IN \/ UNCHANGED <<runnerConfig, exec, writeKeySeen>>
          \/ /\ exec' = second
             /\ writeKeySeen' = keys
             /\ UNCHANGED runnerConfig
          \/ /\ Heal(args)
             /\ exec' = [Healed(2) EXCEPT !.write = second.write]
             /\ writeKeySeen' = keys
    /\ phase' = "record"
    /\ UNCHANGED <<n, check, steps, sent, appended>>
-----------------------------------------------------------------------------
Skipped == [outcome |-> "skipped", level |-> 0, write |-> NoWrite, check |-> "none",
            mocked |-> FALSE]

(* The step's record.  Nothing of a mocked step is receipted; the steps behind a     *)
(* failed one are recorded as skipped.                                              *)
RecordStep ==
    /\ phase = "record"
    /\ LET record == [outcome |-> exec.outcome, level |-> exec.level, mocked |-> Mocked,
                      write |-> IF Mocked THEN NoWrite ELSE exec.write,
                      check |-> IF Mocked THEN "none" ELSE check]
           rest   == IF exec.outcome = "failed" THEN [i \in 1..(Len(skill) - n) |-> Skipped]
                     ELSE <<>>
       IN /\ steps' = Append(steps, record) \o rest
          /\ n' = n + 1
          /\ phase' = IF Len(steps') = Len(skill) THEN "append" ELSE "gate"
    /\ check' = "none"
    /\ exec' = NotRun
    /\ UNCHANGED <<runnerConfig, writeKeySeen, sent, appended>>

AppendRecord ==
    /\ phase = "append"
    /\ appended' = TRUE
    /\ phase' = "done"
    /\ UNCHANGED <<runnerConfig, n, check, exec, writeKeySeen, steps, sent>>

(* The process dies, or the model's client throws and the run rejects with it: the   *)
(* calls have gone out and no record will say so.                                   *)
LoseRun ==
    /\ phase \in {"answer", "escalate", "second-answer", "record", "append"}
    /\ phase' = "lost"
    /\ UNCHANGED <<runnerConfig, n, check, exec, writeKeySeen, steps, sent, appended>>

RunnerNext ==
    \/ StartRun \/ MockStep \/ GateStep \/ ProbeStep \/ Dispatch \/ Answer
    \/ HealLevel1 \/ GiveUp \/ Redispatch \/ SecondAnswer \/ RecordStep \/ AppendRecord
    \/ LoseRun

RunnerSpec == RunnerInit /\ [][RunnerNext]_runnerVars
-----------------------------------------------------------------------------
RunnerTypeOK ==
    /\ options \in RunOptions /\ skill \in Seq(Declarations) /\ file \in Seq(Declarations)
    /\ n \in Nat /\ phase \in Phases /\ check \in Checks
    /\ exec \in [outcome : {"none", "passed", "unchecked", "failed"}, level : 0..2,
                 write : [args : Args, duplicateOf : Nat] \cup {NoWrite}, observed : BOOLEAN]
    /\ DOMAIN writeKeySeen \subseteq Args /\ appended \in BOOLEAN

(* Every write a run sends for a step that is not mocked was permitted: by an approval *)
(* that covers the very arguments sent, after any heal, or, where the step carries none,*)
(* by the flag for its effect.  No flag stands in for an approval that does not match   *)
(* (executeStep's final boundary, and its extension to level 2).                        *)
WritesAuthorised ==
    \A i \in DOMAIN sent :
        LET call == sent[i]
        IN call.effect # "read" /\ ~call.mocked =>
              IF call.approve # NoApproval THEN call.approve = call.shape
              ELSE options.allow \in (IF call.effect = "destructive" THEN {"destructive"}
                                      ELSE {"writes", "destructive"})

(* Under the state gate a write bound to a state goes out at most once in a run, and    *)
(* then after a check that matched: no rung of the ladder sends it unchecked.           *)
BoundWriteChecked ==
    options.refuse =>
        \A i \in DOMAIN sent : sent[i].shape.bound =>
            /\ sent[i].check = "match"
            /\ \A j \in DOMAIN sent : sent[j].step = sent[i].step => i = j

(* A write goes out only as it was approved and, if it is bound to a state, only where   *)
(* that state was just seen (executeStep's last boundary before the call).               *)
WritesStand == WritesAuthorised /\ BoundWriteChecked

(* A destructive step is sent at most once in a run, whatever the model proposes; any   *)
(* other at most twice (level 3 is a person's).                                         *)
AtMostOneResend ==
    \A i, j \in DOMAIN sent : i < j /\ sent[i].step = sent[j].step =>
        /\ j = i + 1
        /\ sent[i].effect # "destructive"

(* A receipt that is not marked a duplicate is the run's only receipted write of those  *)
(* arguments: the second of two equal writes says so, also when both are one step's.    *)
DuplicatesFlagged ==
    \A i \in DOMAIN steps :
        steps[i].write # NoWrite /\ steps[i].write.duplicateOf = 0 =>
            \A j, k \in DOMAIN sent :
                /\ j < k /\ sent[k].step = i
                /\ sent[j].args = steps[i].write.args /\ sent[k].args = steps[i].write.args
                /\ sent[j].effect # "read" /\ ~sent[j].mocked
                => steps[i].outcome = "failed"

(* A skill replays read-only unless a flag or an approval says otherwise (README.md:     *)
(* "read-only by default (writes need --allow-writes)").                                *)
ReadOnlyByDefault ==
    options.allow = "nothing" =>
        \A i \in DOMAIN sent : sent[i].effect # "read" => sent[i].approve # NoApproval
=============================================================================
