------------------------------- MODULE RunLedger -------------------------------
(***************************************************************************)
(* The run ledger of a skill, .reelier/runs/<skill>.jsonl, and its three    *)
(* users: a replay appends its record (src/runner.ts), a resolution answers *)
(* the deferred attestations it finds there (src/defer.ts, cmdResolve) and  *)
(* a push sends what lies behind a cursor to the cloud (src/push.ts).       *)
(*                                                                         *)
(* Each is a process of its own.  None takes a lock: the ledger is appended *)
(* to line by line and .reelier/push-state.json, which holds the cursors of *)
(* every skill, is read whole, and written whole when the push ends.        *)
(***************************************************************************)
EXTENDS Integers, Sequences, FiniteSets, FiniteSetsExt, SequencesExt

CONSTANTS
    Procs,          \* the processes: each runs one command at a time
    SkillNames,     \* the skills of the repository
    MaxLines,       \* bound: lines in a skill's ledger
    MaxKills        \* bound: processes killed in the middle of a command

ASSUME RunLedgerAssumption == MaxLines \in [SkillNames -> Nat] /\ MaxKills \in Nat

VARIABLES
    lines,          \* each skill's ledger
    cursors,        \* push-state.json: the records of each skill that are dealt with
    judged,         \* history: the records the cloud has pronounced on
    command,        \* what each process is doing
    kills

ledgerVars == <<lines, cursors, judged, command, kills>>

(* A line: a run's record, with a deferred attestation or an injected failure in it  *)
(* or neither; a resolution, with the dispatches it answers and the number of lines  *)
(* its process had read; or bytes no parser reads.  A dispatch is named by its line. *)
Kinds == {"run", "mock", "deferred", "resolution", "torn"}
Line(kind) == [kind |-> kind, answers |-> {}, read |-> 0]

Idle == [verb |-> "none"]

RunLedgerInit ==
    /\ lines = [s \in SkillNames |-> <<>>]
    /\ cursors = [s \in SkillNames |-> 0]
    /\ judged = [s \in SkillNames |-> {}]
    /\ command = [p \in Procs |-> Idle] /\ kills = 0
-----------------------------------------------------------------------------
(* appendFile: a line goes behind the last one, and behind half a line it makes one  *)
(* line that no parser reads.                                                       *)
appendFile(ledger, line) ==
    IF ledger # <<>> /\ Last(ledger).kind = "torn" THEN ledger ELSE Append(ledger, line)

(* readRunRecords parses every line or throws. *)
Readable(ledger) == \A i \in DOMAIN ledger : ledger[i].kind # "torn"

Room(s) == Len(lines[s]) < MaxLines[s]

(* runSkill's append at the end of a run, whole or cut short by a kill. *)
AppendRun(s) ==
    /\ Room(s)
    /\ \E kind \in {"run", "mock", "deferred"} :
          \/ lines' = [lines EXCEPT ![s] = appendFile(@, Line(kind))] /\ UNCHANGED kills
          \/ /\ kills < MaxKills /\ kills' = kills + 1
             /\ lines' = [lines EXCEPT ![s] = appendFile(@, Line("torn"))]
    /\ UNCHANGED <<cursors, judged, command>>
-----------------------------------------------------------------------------
(* A slip: the record's own "pending" is believed.                                     *)
selectPending(ledger) == {i \in DOMAIN ledger : ledger[i].kind = "deferred"}

(* The dispatches of a ledger that wait for an answer: the immutable record says     *)
(* pending for ever, so the answers are subtracted, each by the dispatch it joins.   *)
selectUnresolved(ledger) ==
    {i \in DOMAIN ledger : ledger[i].kind = "deferred"
        /\ \A j \in DOMAIN ledger : i \notin ledger[j].answers}

ResolveRead(p, s) ==
    /\ command[p] = Idle /\ Len(lines[s]) <= MaxLines[s]      \* bound: no third answer
    /\ Readable(lines[s]) /\ selectUnresolved(lines[s]) # {}
    /\ command' = [command EXCEPT ![p] =
                     [verb |-> "resolve", skill |-> s, read |-> Len(lines[s]),
                      todo |-> selectUnresolved(lines[s]), answers |-> {}]]
    /\ UNCHANGED <<lines, cursors, judged, kills>>

(* The probe finds the provider's record, or the deadline has passed without one: the *)
(* dispatch is answered.  Or neither, or the approval it was sent under no longer      *)
(* matches the skill: it stays pending.                                               *)
ResolveProbe(p) ==
    /\ command[p].verb = "resolve" /\ command[p].todo # {}
    /\ LET i == Min(command[p].todo)
       IN \E answered \in BOOLEAN :
             command' = [command EXCEPT ![p].todo = @ \ {i},
                                        ![p].answers = IF answered THEN @ \cup {i} ELSE @]
    /\ UNCHANGED <<lines, cursors, judged, kills>>

(* One record holds every answer of the pass; a pass that moved nothing writes none. *)
ResolveAppend(p) ==
    /\ command[p].verb = "resolve" /\ command[p].todo = {}
    /\ LET c == command[p]
           record == [kind |-> "resolution", answers |-> c.answers, read |-> c.read]
       IN lines' = IF c.answers = {} THEN lines
                   ELSE [lines EXCEPT ![c.skill] = appendFile(@, record)]
    /\ command' = [command EXCEPT ![p] = Idle]
    /\ UNCHANGED <<cursors, judged, kills>>
-----------------------------------------------------------------------------
(* A slip: only the first record behind the cursor is looked at.                        *)
PushReadOne(p, s) ==
    /\ command[p] = Idle
    /\ Readable(lines[s])
    /\ \E all \in BOOLEAN :
          LET before == IF all THEN 0 ELSE cursors[s]
          IN /\ before + 1 \in DOMAIN lines[s] => lines[s][before + 1].kind # "mock"
             /\ command' = [command EXCEPT ![p] =
                   [verb |-> "push", skill |-> s, state |-> cursors, next |-> before + 1,
                    last |-> Len(lines[s]), ended |-> FALSE]]
    /\ UNCHANGED <<lines, cursors, judged, kills>>

(* A push reads the ledger and the cursors, and refuses the whole batch when any     *)
(* record behind its cursor was mocked.  --all starts again from the first.          *)
PushRead(p, s) ==
    /\ command[p] = Idle
    /\ Readable(lines[s])
    /\ \E all \in BOOLEAN :
          LET before == IF all THEN 0 ELSE cursors[s]
          IN /\ \A i \in DOMAIN lines[s] : i > before => lines[s][i].kind # "mock"
             /\ command' = [command EXCEPT ![p] =
                   [verb |-> "push", skill |-> s, state |-> cursors, next |-> before + 1,
                    last |-> Len(lines[s]), ended |-> FALSE]]
    /\ UNCHANGED <<lines, cursors, judged, kills>>

Candidate(p) == /\ command[p].verb = "push" /\ ~command[p].ended
                /\ command[p].next <= command[p].last

(* 202 and 400 or 413 are verdicts: the batch goes on behind the record. *)
PushJudged(p) ==
    /\ Candidate(p)
    /\ LET c == command[p]
       IN judged' = [judged EXCEPT ![c.skill] = @ \cup {c.next}]
    /\ command' = [command EXCEPT ![p].next = @ + 1]
    /\ UNCHANGED <<lines, cursors, kills>>

(* 401, a network error or any other status: the batch stops in front of the record, *)
(* which the cloud may nevertheless have taken.                                     *)
PushStops(p) ==
    /\ Candidate(p)
    /\ command' = [command EXCEPT ![p].ended = TRUE]
    /\ UNCHANGED <<lines, cursors, judged, kills>>

(* A slip: the record the batch stopped at counts as dealt with.                        *)
PushWriteBehind(p) ==
    /\ command[p].verb = "push" /\ (command[p].ended \/ command[p].next > command[p].last)
    /\ LET c == command[p]
       IN cursors' = [c.state EXCEPT ![c.skill] = IF c.ended THEN c.next ELSE c.next - 1]
    /\ command' = [command EXCEPT ![p] = Idle]
    /\ UNCHANGED <<lines, judged, kills>>

(* The cursors of every skill are written as they were read, this skill's moved. *)
PushWrite(p) ==
    /\ command[p].verb = "push" /\ (command[p].ended \/ command[p].next > command[p].last)
    /\ LET c == command[p]
       IN cursors' = [c.state EXCEPT ![c.skill] = c.next - 1]
    /\ command' = [command EXCEPT ![p] = Idle]
    /\ UNCHANGED <<lines, judged, kills>>

(* A process is killed, or a push fails before its first record (no configuration,   *)
(* the skill's upload refused): nothing it held is written.                         *)
Kill(p) ==
    /\ command[p] # Idle /\ kills < MaxKills
    /\ kills' = kills + 1
    /\ command' = [command EXCEPT ![p] = Idle]
    /\ UNCHANGED <<lines, cursors, judged>>

RunLedgerNext ==
    \/ \E s \in SkillNames : AppendRun(s)
    \/ \E p \in Procs :
          \/ \E s \in SkillNames : ResolveRead(p, s) \/ PushRead(p, s)
          \/ ResolveProbe(p) \/ ResolveAppend(p)
          \/ PushJudged(p) \/ PushStops(p) \/ PushWrite(p)
          \/ Kill(p)

RunLedgerSpec == RunLedgerInit /\ [][RunLedgerNext]_ledgerVars
-----------------------------------------------------------------------------
RunLedgerTypeOK ==
    /\ \A s \in SkillNames : \A i \in DOMAIN lines[s] :
          /\ lines[s][i].kind \in Kinds
          /\ \A j \in lines[s][i].answers : j < i /\ lines[s][j].kind = "deferred"
    /\ cursors \in [SkillNames -> Nat]
    /\ \A p \in Procs : command[p].verb \in {"none", "resolve", "push"}
    /\ kills \in 0..MaxKills

(* The cursor never passes a record the cloud has not pronounced on: pushes that     *)
(* overlap, --all, kills and lost answers may send a record twice, but none is left  *)
(* behind the cursor unsent (the cursor of src/push.ts, written from a stale read).  *)
NoRecordSkipped ==
    \A s \in SkillNames : \A i \in 1..cursors[s] : i \in judged[s]

(* No record with an injected failure reaches the cloud, in any batch. *)
MockStaysLocal ==
    \A s \in SkillNames : \A i \in judged[s] : lines[s][i].kind # "mock"

(* A dispatch is answered twice only by resolutions that overlapped: one that could   *)
(* read an answer never adds another (selectUnresolved subtracts by dispatch).       *)
AnsweredTwiceOnlyTogether ==
    \A s \in SkillNames : \A i, j \in DOMAIN lines[s] :
        i < j /\ lines[s][i].answers \cap lines[s][j].answers # {} => lines[s][j].read < i

(* Overlapping pushes and resolves leave no record unsent and answer a dispatch once,   *)
(* but for resolutions that read the same lines (src/push.ts, cmdResolve).              *)
RecordsAreAnswered == NoRecordSkipped /\ AnsweredTwiceOnlyTogether
=============================================================================
