------------------------------ MODULE MCAgentRuns ------------------------------
(* What runs on the agent's side and the records it leaves: a behaviour is a        *)
(* behaviour of one program, chosen in the initial state.  The skills replayed are  *)
(* pairs of a step of each interesting kind and a read or a write behind it.          *)
EXTENDS ReplayRunner, RunLedger, StateBinding, ContinuityLedger, BootstrapTransaction,
        TraceRecording, SkillCompilation, InspectionInit

CONSTANTS a1, a2, p1, p2, s1

VARIABLE part

Step(args, effect) == [args |-> args, effect |-> effect, asserts |-> TRUE, bound |-> FALSE,
                       emit |-> FALSE, deferred |-> FALSE, approve |-> NoApproval]
Approved(step) == [step EXCEPT !.approve = computeApprovalHash(step)]
WriteStep == Step(a1, "idempotent-write")

MCFirstSteps ==
    {Step(a1, "read"), WriteStep, [WriteStep EXCEPT !.asserts = FALSE], Approved(WriteStep),
     [Approved(WriteStep) EXCEPT !.args = a2], Approved([WriteStep EXCEPT !.bound = TRUE]),
     Approved([WriteStep EXCEPT !.emit = TRUE, !.deferred = TRUE]), [WriteStep EXCEPT !.deferred = TRUE],
     Step(a1, "destructive")}
MCSkills == {<<first, second>> : first \in MCFirstSteps,
                                 second \in {Step(a1, "read"), WriteStep, Approved(WriteStep)}}
MCRunOptions == [allow : {"nothing", "writes", "destructive"}, maxLevel : 0..2,
                 refuse : BOOLEAN, mocks : {{}, {1}}]

MCMaxLines == (s1 :> 2)

MCReceipts == << <<"reserved", "dispatched", "acknowledged">>,
                 <<"reserved", "dispatched", "ambiguous">>,
                 <<"reserved", "dispatched", "ambiguous", "reconciled">> >>
MCNotes ==
    {Event("task.opened", 1, "open", 0),
     Event("decision.recorded", 1, "binding", 0), Event("decision.recorded", 2, "binding", 0),
     Event("decision.recorded", 1, "advisory", 0),
     Event("decision.superseded", 1, 2, 0), Event("decision.superseded", 2, 1, 0),
     Event("obligation.opened", 1, "open", 0), Event("obligation.transitioned", 1, "blocked", 0),
     Event("obligation.transitioned", 1, "satisfied", 0),
     Event("claim.recorded", 1, "supported", 0), Event("claim.updated", 1, "failed", 0),
     Event("exception.opened", 1, "open", 0), Event("exception.resolved", 1, "resolved", 0)}
    \cup {Event("consequence.noted", 1, state, 0) : state \in LedgerStates}

PolicyLoad(status, deny, dryRun) == [status |-> status, deny |-> deny, dryRun |-> dryRun]
MCPolicyLoads == {PolicyLoad("failed", {}, {}), PolicyLoad("verified", {"v2"}, {}),
                  PolicyLoad("verified", {}, {"t1"}), PolicyLoad("absent", {}, {})}

(* Recordings of three calls: the first answers with ids, the second with one more,  *)
(* and both later calls take arguments from anywhere.                             *)
PlainKey(at, base) == Key(at, base, "plain")
IdKeys == {PlainKey("id", "id"), PlainKey("user.id", "id"), PlainKey("id2", "id2")}
OddPaths == {PlainKey("today", "today"), Key("order-id", "order_id", "hyphen"), Key("a.b", "b", "dotted")}
To == PlainKey("to", "to")
TextA == Value("text", "a")
TextB == Value("text", "b")
Digits == Value("number", "7777")
Secrets == {Value("secret", "s1"), Value("secret", "s2")}
OneArgument == {<<<<To, v>>>> : v \in {TextA, TextB, Digits, Value("short", "x"), Value("braces", "x")}
                                         \cup Secrets}
               \cup {<<<<Key("x.y", "x", "dotted"), TextA>>>>}
TwoArguments == {<<<<To, v[1]>>, <<PlainKey("cc", "cc"), v[2]>>>> :
                     v \in {<<TextA, TextB>>, <<TextB, TextA>>, <<Digits, TextA>>}}
FirstAnswers == {<<<<p, TextA>>>> : p \in IdKeys \cup OddPaths}
                \cup {<<<<PlainKey("id", "id"), v>>>> : v \in {Digits, Value("secret", "s1")}}
                \cup {<<<<p[1], TextA>>, <<p[2], TextB>>>> : p \in {q \in IdKeys \X IdKeys : q[1] # q[2]}}
SecondAnswers == {<<>>} \cup {<<<<p, TextA>>>> : p \in IdKeys}
MCTraces == {<<RecordedCall(<<>>, note, note = "line", first),
               RecordedCall(second, "line", TRUE, answer),
               RecordedCall(third, "none", TRUE, <<>>)>> :
                 note \in {"line", "list"}, first \in FirstAnswers, second \in OneArgument,
                 answer \in SecondAnswers, third \in OneArgument \cup TwoArguments}

(* One pair of model values stands for the processes, commands and agents of every part. *)
MCSymmetry == Permutations({p1, p2})
-----------------------------------------------------------------------------
FirstLoad == CHOOSE load \in PolicyLoads : TRUE
FirstTrace == CHOOSE trace \in Traces : TRUE
FirstStart == CHOOSE start \in [options : RunOptions, skill : Skills] : TRUE

RunsInit ==
    /\ part \in {"replay", "ledger", "approve", "continuity", "bootstrap", "record", "compile", "inspect"}
    /\ RunnerInit
    /\ part = "replay" \/ [options |-> options, skill |-> skill] = FirstStart
    /\ RunLedgerInit /\ BindingInit /\ ContinuityInit /\ BootstrapInit
    /\ RecordingInitWith(IF part = "record" THEN PolicyLoads ELSE {FirstLoad})
    /\ CompilationInitWith(IF part = "compile" THEN Traces ELSE {FirstTrace})
    /\ InspectionStart

Replaying ==
    /\ part = "replay" /\ RunnerNext
    /\ UNCHANGED <<part, ledgerVars, bindingVars, continuityVars, bootstrapVars,
                  recordingVars, compilationVars, inspectionVars>>
Recording ==
    /\ part = "ledger" /\ RunLedgerNext
    /\ UNCHANGED <<part, runnerVars, bindingVars, continuityVars, bootstrapVars,
                  recordingVars, compilationVars, inspectionVars>>
Approving ==
    /\ part = "approve" /\ BindingNext
    /\ UNCHANGED <<part, runnerVars, ledgerVars, continuityVars, bootstrapVars, recordingVars,
                  compilationVars, inspectionVars>>
Continuing ==
    /\ part = "continuity" /\ ContinuityNext
    /\ UNCHANGED <<part, runnerVars, ledgerVars, bindingVars, bootstrapVars, recordingVars,
                  compilationVars, inspectionVars>>
Preparing ==
    /\ part = "bootstrap" /\ BootstrapNext
    /\ UNCHANGED <<part, runnerVars, ledgerVars, bindingVars, continuityVars, recordingVars,
                  compilationVars, inspectionVars>>
Tracing ==
    /\ part = "record" /\ RecordingNext
    /\ UNCHANGED <<part, runnerVars, ledgerVars, bindingVars, continuityVars, bootstrapVars,
                  compilationVars, inspectionVars>>
Compiling ==
    /\ part = "compile" /\ CompilationNext
    /\ UNCHANGED <<part, runnerVars, ledgerVars, bindingVars, continuityVars, bootstrapVars,
                  recordingVars, inspectionVars>>
Inspecting ==
    /\ part = "inspect" /\ InspectionNext
    /\ UNCHANGED <<part, runnerVars, ledgerVars, bindingVars, continuityVars, bootstrapVars,
                  recordingVars, compilationVars>>

RunsNext == Replaying \/ Recording \/ Approving \/ Continuing \/ Preparing \/ Tracing \/
      Compiling \/ Inspecting

RunsSpec == RunsInit /\ [][RunsNext]_<<part, runnerVars, ledgerVars, bindingVars,
      continuityVars, bootstrapVars, recordingVars, compilationVars, inspectionVars>>

(* Each program keeps its state within its records. *)
RunsTypeOK == /\ RunnerTypeOK /\ RunLedgerTypeOK /\ StateBindingTypeOK /\ ContinuityTypeOK
              /\ BootstrapTypeOK /\ RecordingTypeOK /\ CompilationTypeOK /\ InspectionTypeOK
(* What a recording says happened did happen, and the skill compiled from it repeats it       *)
(* (src/recorder.ts, src/provenance.ts, src/compile.ts).                                   *)
RecordingsHold == TraceIsTrue /\ ReplayRepeatsRecording

=============================================================================
