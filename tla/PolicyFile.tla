------------------------------- MODULE PolicyFile -------------------------------
(***************************************************************************)
(* The policy file of src/policy.ts and its readers: the recording proxy      *)
(* (loadPolicyForWrap), which never fails closed, and a replay, which refuses   *)
(* to run under a state gate that it cannot read (resolveStateGateForRun).      *)
(* Both read the project's file, or the user's when there is none, through one  *)
(* parser of a small part of YAML.                                          *)
(*                                                                         *)
(* A line is what its shape and its key make of it; quotes, comments and the    *)
(* globs themselves are abstracted.                                         *)
(***************************************************************************)
EXTENDS Integers, Sequences, SequencesExt, FiniteSets, FiniteSetsExt

CONSTANTS PolicyFilePairs       \* the pairs of a project's and a user's file

VARIABLES
    policyFiles,    \* the two files: "form" missing, unreadable or text, and the lines
    wrapped,        \* what the proxy enforces since it started, and claims of its file
    gated           \* what a run resolved: its mode, and its claim

policyVars == <<policyFiles, wrapped, gated>>

(* Shapes of a line: "top" is key: value at the margin, a list when the value is    *)
(* empty; "spaced" has a space before its colon; "flush" is a list item at the       *)
(* margin; "item" starts a rule, "dash" an empty one; "more" continues a rule.       *)
PolicyLine(shape, key, value) == [shape |-> shape, key |-> key, value |-> value]

LineShapes == {"top", "spaced", "flush", "item", "dash", "more"}
FileForms == {"missing", "unreadable", "text"}

ASSUME PolicyAssumption ==
    \A files \in PolicyFilePairs, which \in {1, 2} :
       /\ files[which].form \in FileForms
       /\ files[which].lines \in Seq([shape : LineShapes, key : STRING, value : STRING])

KnownTopKeys == {"version", "deny", "dry_run", "state_gate"}
KnownRuleKeys == [list \in {"deny", "dry_run"} |->
                     IF list = "deny" THEN {"tool", "endpoint", "unless"} ELSE {"tool"}]
-----------------------------------------------------------------------------
(* A value of the object read: its text, or the rules of a list, whose text is empty. *)
Entry(text, rules) == [text |-> text, rules |-> rules]

(* parseYamlSubset(): the object so far, the list open, and whether it has thrown.   *)
(* A list is opened empty, whatever the object held under its key.                 *)
Unread == [object |-> <<>>, list |-> "none", failed |-> FALSE]

LastOf(rules) == rules[Len(rules)]

(* An object or a rule after an assignment to one of its keys. *)
Assigned(held, key, value) ==
    [k \in DOMAIN held \cup {key} |-> IF k = key THEN value ELSE held[k]]

ReadLine(reading, line) ==
    LET open == reading.list # "none"
        rules == IF open THEN reading.object[reading.list].rules ELSE <<>>
        Rules(list) == [reading EXCEPT !.object = Assigned(@, reading.list, Entry("", list))]
    IN IF reading.failed THEN reading
       ELSE CASE line.shape = "top" ->
                   [reading EXCEPT !.object = Assigned(@, line.key, Entry(line.value, <<>>)),
                                   !.list = IF line.value = "" THEN line.key ELSE "none"]
              [] line.shape = "item" /\ open -> Rules(Append(rules, Assigned(<<>>, line.key, line.value)))
              [] line.shape = "dash" /\ open -> Rules(Append(rules, <<>>))
              [] /\ line.shape = "more" /\ open /\ rules # <<>>
                 /\ line.key \notin DOMAIN LastOf(rules) ->
                   Rules([rules EXCEPT ![Len(rules)] = Assigned(@, line.key, line.value)])
              [] OTHER -> [reading EXCEPT !.failed = TRUE]

parseYamlSubset(lines) == FoldLeft(ReadLine, Unread, lines)
-----------------------------------------------------------------------------
(* validatePolicyObject(): a rule has known keys only, a subject, and an escape    *)
(* that exists.                                                             *)
RuleOK(list, rule) ==
    /\ DOMAIN rule \subseteq KnownRuleKeys[list]
    /\ \E key \in {"tool", "endpoint"} \cap DOMAIN rule : rule[key] # ""
    /\ \A key \in DOMAIN rule : rule[key] # ""
    /\ "unless" \in DOMAIN rule => rule["unless"] = "--allow-writes"

validatePolicyObject(object) ==
    /\ DOMAIN object \subseteq KnownTopKeys
    /\ "version" \in DOMAIN object => object["version"].text = "1"
    /\ "state_gate" \in DOMAIN object => object["state_gate"].text = "refuse"
    /\ \A list \in {"deny", "dry_run"} \cap DOMAIN object :
          object[list].text = "" /\ \A rule \in ToSet(object[list].rules) : RuleOK(list, rule)

parsePolicyStrict(lines) ==
    LET reading == parseYamlSubset(lines)
        object == reading.object
        RulesOf(list) == IF list \in DOMAIN object THEN ToSet(object[list].rules) ELSE {}
    IN IF reading.failed \/ ~validatePolicyObject(object) THEN [ok |-> FALSE]
       ELSE [ok |-> TRUE, deny |-> RulesOf("deny"), dryRun |-> RulesOf("dry_run"),
             stateGate |-> "state_gate" \in DOMAIN object]

(* As it would be if only a line that the parser accepts counted.                  *)
detectStateGateKeyStrict(lines) ==
    \E n \in DOMAIN lines : lines[n].shape = "top" /\ lines[n].key = "state_gate"

(* A look at the text: the key at the margin, with or without a space behind it.     *)
detectStateGateKey(lines) ==
    \E n \in DOMAIN lines : lines[n].shape \in {"top", "spaced"} /\ lines[n].key = "state_gate"
-----------------------------------------------------------------------------
(* The first file that exists decides, for both readers.                          *)
Deciding == IF policyFiles[1].form # "missing" THEN policyFiles[1] ELSE policyFiles[2]

Nothing == [deny |-> {}, dryRun |-> {}]

loadPolicyForWrap ==
    LET file == Deciding  parsed == parsePolicyStrict(file.lines) IN
    CASE file.form = "missing"    -> [status |-> "absent", policy |-> Nothing]
      [] file.form = "unreadable" -> [status |-> "unchecked", policy |-> Nothing]
      [] file.form = "text"       ->
            IF parsed.ok
            THEN [status |-> "verified",
                  policy |-> [deny |-> parsed.deny, dryRun |-> parsed.dryRun]]
            ELSE [status |-> "failed", policy |-> Nothing]

resolveStateGateForRun ==
    LET file == Deciding  parsed == parsePolicyStrict(file.lines) IN
    CASE file.form = "missing"    -> [status |-> "absent", mode |-> "off"]
      [] file.form = "unreadable" -> [status |-> "unchecked", mode |-> "off"]
      [] file.form = "text"       ->
            [status |-> IF parsed.ok THEN "verified" ELSE "failed",
             mode |-> IF ~detectStateGateKey(file.lines) THEN "off"
                      ELSE IF ~parsed.ok THEN "refuse-run"
                      ELSE IF parsed.stateGate THEN "refuse" ELSE "off"]
-----------------------------------------------------------------------------
StartProxy == /\ wrapped = <<>>
              /\ wrapped' = <<loadPolicyForWrap>>
              /\ UNCHANGED <<policyFiles, gated>>

ResolveGate == /\ gated = <<>>
            /\ gated' = <<resolveStateGateForRun>>
            /\ UNCHANGED <<policyFiles, wrapped>>

PolicyInitWith(pairs) == policyFiles \in pairs /\ wrapped = <<>> /\ gated = <<>>

PolicyInit == PolicyInitWith(PolicyFilePairs)

PolicyNext == StartProxy \/ ResolveGate
PolicySpec == PolicyInit /\ [][PolicyNext]_policyVars
-----------------------------------------------------------------------------
(* The list whose items stand at a line, and the line that opened it.             *)
OpenerOf(lines, n) == Max({0} \cup {m \in 1..n : lines[m].shape = "top"})

(* The line says something that a rule in force says.                           *)
InForce(lines, n, policy) ==
    LET list == IF lines[OpenerOf(lines, n)].key = "deny" THEN policy.deny ELSE policy.dryRun IN
    \E rule \in list : lines[n].key \in DOMAIN rule /\ rule[lines[n].key] = lines[n].value

Repeated(lines, n) ==
    \E m \in DOMAIN lines : /\ m > n /\ lines[m].shape = "top"
                            /\ lines[m].key = lines[OpenerOf(lines, n)].key

RuleLines(lines) == {n \in DOMAIN lines : lines[n].shape \in {"item", "more"}}

DeclaresGate(lines) ==
    \E line \in ToSet(lines) : line.key = "state_gate" /\ line.shape \in {"top", "spaced"}

Enforcing == wrapped # <<>> /\ wrapped[1].status = "verified"

(* No line of a file that the proxy calls verified is lost or overruled, but for      *)
(* the rules above a repetition of their list's key (parseYamlSubset).  A file that     *)
(* declares the gate at the margin, however badly, never leaves a run ungated, and      *)
(* the proxy and the run say the same of the file (resolveStateGateForRun).            *)
PolicyAsWritten ==
    /\ Enforcing => \A n \in RuleLines(Deciding.lines) :
           Repeated(Deciding.lines, n) \/ InForce(Deciding.lines, n, wrapped[1].policy)
    /\ gated # <<>> /\ Deciding.form = "text" /\ DeclaresGate(Deciding.lines) =>
           gated[1].mode # "off"
    /\ gated # <<>> /\ wrapped # <<>> => gated[1].status = wrapped[1].status

(* parseYamlSubset(): "never silently drops or misreads a line".                    *)
NoLineDropped ==
    Enforcing => \A n \in RuleLines(Deciding.lines) :
                    InForce(Deciding.lines, n, wrapped[1].policy)

PolicyTypeOK ==
    /\ policyFiles \in PolicyFilePairs
    /\ \A load \in ToSet(wrapped) : load.status \in {"verified", "failed", "unchecked", "absent"}
    /\ \A resolution \in ToSet(gated) : resolution.mode \in {"off", "refuse", "refuse-run"}
=============================================================================
