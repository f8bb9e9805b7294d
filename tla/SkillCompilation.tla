---------------------------- MODULE SkillCompilation ----------------------------
(***************************************************************************)
(* From a trace to a skill and back: compile() of src/compile.ts turns each    *)
(* recorded call into a step whose arguments are taken from earlier results    *)
(* where they occur there, cmdCompile writes the skill if it parses again      *)
(* (src/skill.ts), and a replay fills the arguments (src/runner.ts) and reads   *)
(* the results (src/assert.ts).                                              *)
(*                                                                         *)
(* The question is whether the replay says to the tools what the recording      *)
(* said, when the tools answer as they did then.                             *)
(***************************************************************************)
EXTENDS Integers, Sequences, SequencesExt, FiniteSets, FiniteSetsExt, TLC

CONSTANTS Traces        \* the sessions recorded: sequences of calls, see RecordedCall

VARIABLES
    session,        \* what went over the wire
    compiled,       \* the compiled skill, <<>> before that
    stage,          \* "recorded", "compiled", "written", "refused", "stuck" or "replayed"
    bindings,       \* variables bound so far by the replay: <<name, value>>
    resent          \* the arguments the replay has sent, per step

compilationVars == <<session, compiled, stage, bindings, resent>>

(* A value is text, a number of four digits or more, something shorter, text with   *)
(* braces in it, or a secret that redaction knows; a key or path is plain, holds a  *)
(* dot, or holds a character that the assertion grammar lacks.                    *)
Value(form, id) == [form |-> form, id |-> id]
Key(at, base, shape) == [at |-> at, base |-> base, shape |-> shape]
RecordedCall(args, note, ok, leaves) == [args |-> args, note |-> note, ok |-> ok, leaves |-> leaves]
-----------------------------------------------------------------------------
(* What the recorder writes: every secret reads alike.                           *)
redact(value) == IF value.form = "secret" THEN Value("text", "redacted") ELSE value

Recorded(call) ==
    [call EXCEPT !.args = [k \in DOMAIN @ |-> <<@[k][1], redact(@[k][2])>>],
                 !.leaves = [k \in DOMAIN @ |-> <<@[k][1], redact(@[k][2])>>]]

isCandidateScalar(value) == value.form # "short"

(* The most recent earlier result that holds the value, and its first such leaf.   *)
Holders(calls, n, value) ==
    {j \in 1..(n - 1) : \E k \in DOMAIN calls[j].leaves : calls[j].leaves[k][2] = value}

SourceOf(calls, n, value) ==
    LET j == Max(Holders(calls, n, value))
        k == Min({k \in DOMAIN calls[j].leaves : calls[j].leaves[k][2] = value})
    IN [step |-> j, path |-> calls[j].leaves[k][1]]

(* As it would be if names were never numbered.                                 *)
FreshNameUnnumbered(base, taken) == base

(* Names: the last segment of the path, made an identifier, and numbered when it    *)
(* is taken.                                                                 *)
FreshName(base, taken) ==
    IF base \notin taken THEN base
    ELSE base \o ToString(Min({n \in 2..(Cardinality(taken) + 2) :
                                  base \o ToString(n) \notin taken}))

(* setAtPath() splits the argument's path at every dot: a key with a dot in it is    *)
(* left alone and a new argument appears beside it.                             *)
setAtPath(key, value, template) ==
    IF key.shape = "dotted" THEN {<<key, value>>, <<Key(key.base, key.base, "nested"), template>>}
    ELSE {<<key, template>>}

Literal(value) == [var |-> "", value |-> value]
Variable(name) == [var |-> name, value |-> Value("short", "")]

(* One candidate: a literal, or a variable that the registry has or gets.          *)
Templated(calls, n, soFar, arg) ==
    LET key == arg[1]  value == arg[2]  literal == {<<key, Literal(value)>>} IN
    IF ~isCandidateScalar(value) \/ Holders(calls, n, value) = {}
    THEN [soFar EXCEPT !.args = @ \cup literal]
    ELSE LET source == SourceOf(calls, n, value)
             known == {bind \in soFar.registry : bind.source = source}
             name == IF known # {} THEN (CHOOSE bind \in known : TRUE).name
                     ELSE FreshName(source.path.base, {bind.name : bind \in soFar.registry})
         IN [registry |-> soFar.registry \cup {[source |-> source, name |-> name]},
             args |-> soFar.args \cup setAtPath(key, Literal(value), Variable(name))]

(* The calls in order, and the arguments of each in order: which value came from where. *)
dataflow(calls) ==
    LET call(soFar, n) ==
            LET done == FoldLeft(LAMBDA acc, arg : Templated(calls, n, acc, arg),
                                 [registry |-> soFar.registry, args |-> {}], calls[n].args)
            IN [registry |-> done.registry, args |-> Append(soFar.args, done.args)]
    IN FoldLeft(call, [registry |-> {}, args |-> <<>>], [n \in DOMAIN calls |-> n])

(* compile(): a step per call, with the binds that later steps need of it.           *)
compile(calls) ==
    LET flow == dataflow(calls) IN
    [n \in DOMAIN calls |-> [args |-> flow.args[n],
                             title |-> calls[n].note,
                             statusAsserted |-> calls[n].ok,
                             binds |-> {bind \in flow.registry : bind.source.step = n}]]

(* renderSkillMd(): a note is the title and the intent of its step, put there as it   *)
(* is.  One whose second line is a list item, or that is blank, is then no step that   *)
(* the parser accepts; and it refuses a reserved name.                            *)
ReadsAsTitle(note) == note \in {"none", "line"}

isReservedBindName(name) == name = "today"

parseSkill(steps) ==
    \A n \in DOMAIN steps : /\ ReadsAsTitle(steps[n].title)
                            /\ \A bind \in steps[n].binds : ~isReservedBindName(bind.name)
-----------------------------------------------------------------------------
(* fillTemplate(): a variable is replaced by its text, whatever its type was.       *)
TextOf(value) == IF value.form = "number" THEN Value("text", value.id) ELSE value

Bound == {binding[1] : binding \in bindings}

Fillable(args) == \A arg \in args : IF arg[2].var = "" THEN arg[2].value.form # "braces"
                                    ELSE arg[2].var \in Bound

fillTemplate(args) ==
    {<<arg[1], IF arg[2].var = "" THEN arg[2].value
               ELSE TextOf((CHOOSE b \in bindings : b[1] = arg[2].var)[2])>> : arg \in args}

(* "json.<path>", with a path of letters, digits, underscores and dots, every dot a   *)
(* level.                                                                     *)
resolveDotPath(bind, answer) ==
    IF bind.source.path.shape # "plain" THEN {}
    ELSE {answer.leaves[k][2] : k \in {k \in DOMAIN answer.leaves :
                                           answer.leaves[k][1] = bind.source.path}}

(* The two assertions that compile() writes: the status, and that the path is set.     *)
evalAssert(step, answer) == /\ step.statusAsserted => answer.ok
                            /\ \A bind \in step.binds : resolveDotPath(bind, answer) # {}

evalBind(step, answer) ==
    {b \in bindings : \A bind \in step.binds : bind.name # b[1]} \cup
    {<<bind.name, CHOOSE v \in resolveDotPath(bind, answer) : TRUE>> : bind \in step.binds}
-----------------------------------------------------------------------------
(* cmdCompile: compile, render, parse again, and write only what parses.            *)
Compile ==
    /\ stage = "recorded"
    /\ compiled' = compile([n \in DOMAIN session |-> Recorded(session[n])])
    /\ stage' = IF parseSkill(compiled') THEN "written" ELSE "refused"
    /\ UNCHANGED <<session, bindings, resent>>

(* One step of a replay without healing: it stops at the first that fails.          *)
Replay ==
    /\ stage = "written" /\ Len(resent) < Len(compiled)
    /\ LET n == Len(resent) + 1  step == compiled[n]  answer == session[n] IN
       IF ~Fillable(step.args)
       THEN stage' = "stuck" /\ UNCHANGED <<resent, bindings>>
       ELSE /\ resent' = Append(resent, fillTemplate(step.args))
            /\ IF evalAssert(step, answer)
               THEN /\ bindings' = evalBind(step, answer)
                    /\ stage' = IF n = Len(compiled) THEN "replayed" ELSE stage
               ELSE stage' = "stuck" /\ UNCHANGED bindings
    /\ UNCHANGED <<session, compiled>>

CompilationInitWith(traces) ==
    session \in traces /\ compiled = <<>> /\ stage = "recorded" /\ bindings = {} /\ resent = <<>>

CompilationInit == CompilationInitWith(Traces)

CompilationNext == Compile \/ Replay
-----------------------------------------------------------------------------
KeysOf(n) == {session[n].args[k][1] : k \in DOMAIN session[n].args}
ArgsOf(n) == {session[n].args[k] : k \in DOMAIN session[n].args}
PathsOf(n) == {session[n].leaves[k][1] : k \in DOMAIN session[n].leaves}

(* A recording of the kind that goes through: notes of one line, keys and paths that *)
(* the grammar of the skill can say, nothing that looks like a template.            *)
Ordinary ==
    \A n \in DOMAIN session :
        /\ session[n].note \in {"none", "line"}
        /\ \A key \in KeysOf(n) \cup PathsOf(n) : key.shape = "plain" /\ key.base # "today"
        /\ \A arg \in ArgsOf(n) : arg[2].form # "braces"

(* What a replay sends is what the recording resent, argument by argument, wherever    *)
(* the value was found; a number found in an earlier result is resent as its text, a   *)
(* key with a dot gains a second argument, and a redacted value is anybody's.  An    *)
(* ordinary recording compiles, and its replay reaches the last step.               *)
ReplayRepeatsRecording ==
    /\ \A n \in DOMAIN resent :
          /\ KeysOf(n) \subseteq {arg[1] : arg \in resent[n]}
          /\ \A arg \in resent[n] :
                \/ arg[1].shape = "nested"
                \/ \E was \in ArgsOf(n) : /\ was[1] = arg[1]
                                        /\ \/ arg[2] \in {was[2], TextOf(was[2])}
                                           \/ was[2].form = "secret"
    /\ Ordinary => stage \notin {"refused", "stuck"}

CompilationTypeOK ==
    /\ session # <<>>
    /\ stage \in {"recorded", "written", "refused", "stuck", "replayed"}
    /\ Len(resent) <= Len(session) /\ Len(compiled) \in {0, Len(session)}
=============================================================================
