------------------------------- MODULE ReleaseSaga -------------------------------
(***************************************************************************)
(* The four release effects of src/authority/host/github-release-runner.ts:   *)
(* a candidate branch, its pull request (created, then made ready), the merge *)
(* and the tag.  Each consequential write crosses a journaled boundary: intent,*)
(* fresh checks, dispatching, the checks again, one write, a read back.  The  *)
(* process may die between any two awaits, a write may land late or never, a  *)
(* response may be lost, others act on the same repository, the authorization *)
(* expires.  The lease of the authorization lets one invocation in at a time. *)
(***************************************************************************)
EXTENDS Integers, Sequences, SequencesExt, FiniteSets

CONSTANTS
    Requests,           \* request ids
    EffectOf,           \* the effect each of them is for
    MaxDeaths,          \* bound: invocations that die
    MaxForeign          \* bound: changes somebody else makes

VARIABLES
    journal,        \* request -> the phases of its signed journal
    present,        \* the writes whose result the provider shows
    flights,        \* writes the provider has yet to apply
    live,           \* the authorization has not expired
    run,            \* the invocation that holds the lease
    reported,       \* request -> what the coordinator was last told of it
    writes,         \* history: write -> how often it was sent
    landed,         \* history: the writes of ours the provider applied
    deaths, foreign

sagaVars == <<journal, present, flights, live, run, reported, writes, landed, deaths, foreign>>

Effects == {"candidate-branch", "draft-pr", "exact-sha-merge", "non-force-tag"}
Writes  == {"branch", "pr", "pr-ready", "merge", "tag"}

ASSUME SagaAssumption ==
    /\ EffectOf \in [Requests -> Effects]
    /\ MaxDeaths \in Nat /\ MaxForeign \in Nat

PREDECESSOR == [e \in Effects |-> CASE e = "candidate-branch" -> "none"
                                    [] e = "draft-pr"         -> "candidate-branch"
                                    [] e = "exact-sha-merge"  -> "draft-pr"
                                    [] e = "non-force-tag"    -> "exact-sha-merge"]

FirstWrite == [e \in Effects |-> CASE e = "candidate-branch" -> "branch"
                                   [] e = "draft-pr"         -> "pr"
                                   [] e = "exact-sha-merge"  -> "merge"
                                   [] e = "non-force-tag"    -> "tag"]
LastWrite == [FirstWrite EXCEPT !["draft-pr"] = "pr-ready"]

(* Journal phases.  A content-addressed write (blobs, tree, commit) has an intent and a *)
(* confirmation; a consequential one a dispatching boundary between them.               *)
Phases == ({"content"} \cup Writes) \X {"intent", "dispatching", "confirmed"}
          \cup {"request"} \X {"authorized", "expired-refused", "provider-refused",
                               "receipt-published"}

AUTHORIZED == <<"request", "authorized">>
EXPIRED    == <<"request", "expired-refused">>
REFUSED    == <<"request", "provider-refused">>
RECEIPTED  == <<"request", "receipt-published">>

LastPhase(r)  == journal[r][Len(journal[r])]
Has(r, phase) == Contains(journal[r], phase)
Verified(r)   == Has(r, <<LastWrite[EffectOf[r]], "confirmed">>)

(* A slip: a confirmation may follow the intent.                                        *)
TRANSITIONSFromIntent(phase) ==
    IF phase[2] = "intent" THEN {AUTHORIZED, <<"content", "confirmed">>, <<"pr", "confirmed">>}
    ELSE IF phase \in {EXPIRED, REFUSED} THEN {}
    ELSE {<<phase[1], "intent">>, <<phase[1], "dispatching">>}

(* The phases a phase may follow. *)
TRANSITIONS(phase) ==
    CASE phase = <<"branch", "intent">>    -> {<<"content", "confirmed">>}
      [] phase = <<"pr-ready", "intent">>  -> {<<"pr", "confirmed">>}
      [] phase[2] = "intent" /\ phase[1] \notin {"branch", "pr-ready"} -> {AUTHORIZED}
      [] phase[2] = "dispatching"          -> {<<phase[1], "intent">>}
      [] phase[2] = "confirmed"            ->
            {<<phase[1], IF phase[1] = "content" THEN "intent" ELSE "dispatching">>}
      [] phase = EXPIRED                   -> Writes \X {"intent", "dispatching"}
                                                \cup {<<"content", "intent">>}
      [] OTHER                             -> {}

Idle == [req |-> "none", at |-> "idle", w |-> "none"]

SagaInit ==
    /\ journal = [r \in Requests |-> <<>>]
    /\ present = {} /\ flights = {} /\ live = TRUE
    /\ run = Idle
    /\ reported = [r \in Requests |-> "none"]
    /\ writes = [w \in Writes |-> 0] /\ landed = {}
    /\ deaths = 0 /\ foreign = 0
-----------------------------------------------------------------------------
At(step) == run.at = step
Go(step) == run' = [run EXCEPT !.at = step]
provider == <<present, flights, landed, writes>>
bounds   == <<deaths, foreign>>

Append1(phase) == journal' = [journal EXCEPT ![run.req] = Append(@, phase)]

(* step(): a phase out of turn is fine when it is there already, an error otherwise. *)
InTurn(phase)  == LastPhase(run.req) \in TRANSITIONS(phase)
Step(phase)    == IF Has(run.req, phase) /\ ~InTurn(phase) THEN UNCHANGED journal
                                                            ELSE Append1(phase)

Report(outcome) == /\ reported' = [reported EXCEPT ![run.req] = outcome]
                   /\ run' = Idle

CONFIRMED == {<<x, "confirmed">> : x \in {"content", "pr", "pr-ready"}}
POSSIBLE  == {<<"content", "intent">>} \cup Writes \X {"dispatching"}

(* How the catch block and the adapter report an error.  A TypeError is definitive: it *)
(* is a conflict when the journal shows that something may have been written.          *)
Conflicts(r, phases) == IF \E p \in phases : Has(r, p) THEN "conflict" ELSE "not-applied"
Throws == Report(Conflicts(run.req, CONFIRMED \cup POSSIBLE)) /\ UNCHANGED journal

(* A provider's definitive refusal, of a write or of a read, closes the request; only   *)
(* confirmed phases count as effects.                                                   *)
Refuses ==
    /\ journal' = IF LastPhase(run.req) = REFUSED THEN journal
                  ELSE [journal EXCEPT ![run.req] = Append(@, REFUSED)]
    /\ Report(Conflicts(run.req, CONFIRMED))

Uncertain == Report("ambiguous") /\ UNCHANGED journal

(* A read of the provider that gives nothing to go on: the transport failed, the        *)
(* provider refused it, or what it shows differs from the signed plan.                  *)
ReadFails == Throws \/ Refuses \/ Uncertain

Expires == /\ ~live
           /\ Append1(EXPIRED)
           /\ Report(Conflicts(run.req, CONFIRMED \cup POSSIBLE))
-----------------------------------------------------------------------------
Receipted(e) == \E r \in Requests : EffectOf[r] = e /\ journal[r] # <<>> /\ LastPhase(r) = RECEIPTED
Allocated(r) == \E q \in Requests \ {r} : EffectOf[q] = EffectOf[r] /\ journal[q] # <<>>

Enter(r) == run' = [req |-> r, at |-> "read", w |-> FirstWrite[EffectOf[r]]]

(* The first invocation of a request: a live authorization, the predecessor's receipt   *)
(* and an allocation no other request has used.                                         *)
Execute(r) ==
    /\ At("idle") /\ reported[r] = "none" /\ journal[r] = <<>>
    /\ IF live /\ (PREDECESSOR[EffectOf[r]] = "none" \/ Receipted(PREDECESSOR[EffectOf[r]]))
               /\ ~Allocated(r)
       THEN /\ journal' = [journal EXCEPT ![r] = <<AUTHORIZED>>]
            /\ Enter(r)
            /\ UNCHANGED reported
       ELSE /\ reported' = [reported EXCEPT ![r] = "not-applied"]
            /\ UNCHANGED <<journal, run>>
    /\ UNCHANGED <<provider, live, bounds>>

(* The coordinator reconciles what was left ambiguous or what a death left unreported.  *)
Reconcile(r) ==
    /\ At("idle") /\ reported[r] = "ambiguous"
    /\ CASE journal[r] # <<>> /\ Verified(r) ->
               reported' = [reported EXCEPT ![r] = "verified"] /\ UNCHANGED run
         [] journal[r] # <<>> /\ ~Verified(r) /\ LastPhase(r) \notin {EXPIRED, REFUSED} ->
               Enter(r) /\ UNCHANGED reported
         [] OTHER ->
               reported' = [reported EXCEPT ![r] = "not-applied"] /\ UNCHANGED run
    /\ UNCHANGED <<journal, provider, live, bounds>>

(* The candidate's blobs, tree and commit: content-addressed, sent again after a doubt. *)
WriteContent ==
    /\ At("read") /\ run.w = "branch" /\ ~Has(run.req, <<"content", "confirmed">>)
    /\ IF ~Has(run.req, <<"content", "intent">>)
       THEN \/ live /\ Append1(<<"content", "intent">>) /\ UNCHANGED <<run, reported>>
            \/ ~live /\ Throws
            \/ ReadFails
            \/ "branch" \in present /\ Throws
       ELSE \/ live /\ Append1(<<"content", "confirmed">>) /\ UNCHANGED <<run, reported>>
            \/ Expires
            \/ ReadFails
            \/ "branch" \in present /\ Throws
    /\ UNCHANGED <<provider, live, bounds>>

(* A slip: what is absent is sent again, although it may still arrive.                   *)
ReadStateAgain ==
    /\ At("read") /\ (run.w = "branch" => Has(run.req, <<"content", "confirmed">>))
    /\ \/ ReadFails
       \/ run.w \in present /\ Go("confirm") /\ UNCHANGED <<journal, reported>>
       \/ run.w \notin present /\ Step(<<run.w, "intent">>) /\ Go("check")
          /\ UNCHANGED reported
    /\ UNCHANGED <<provider, live, bounds>>

(* What the provider shows before this invocation writes.  A result without the         *)
(* dispatching boundary is somebody else's; an absent one after it stays pending.       *)
ReadState ==
    /\ At("read") /\ (run.w = "branch" => Has(run.req, <<"content", "confirmed">>))
    /\ LET dispatched == Has(run.req, <<run.w, "dispatching">>)
           intended   == Has(run.req, <<run.w, "intent">>)
       IN \/ ReadFails
          \/ /\ run.w \in present /\ ~dispatched /\ Throws
          \/ /\ run.w \in present /\ dispatched
             /\ Go("confirm") /\ UNCHANGED <<journal, reported>>
          \/ /\ run.w \notin present /\ dispatched /\ Uncertain
          \/ /\ run.w \notin present /\ ~dispatched
             /\ \/ intended /\ UNCHANGED journal /\ Go("check") /\ UNCHANGED reported
                \/ ~intended /\ (live \/ run.w = "pr-ready") /\ Step(<<run.w, "intent">>)
                   /\ Go("check") /\ UNCHANGED reported
                \/ ~intended /\ ~live /\ run.w # "pr-ready" /\ Throws
    /\ UNCHANGED <<provider, live, bounds>>

(* The checks after the intent.  A result that appeared meanwhile is read back without  *)
(* a dispatching boundary; a merge refuses at once.                                     *)
CheckIntent ==
    /\ At("check")
    /\ \/ Expires
       \/ live /\ ReadFails
       \/ /\ live /\ run.w \notin present
          /\ Step(<<run.w, "dispatching">>)
          /\ Go("final") /\ UNCHANGED reported
       \/ /\ live /\ run.w \in present
          /\ IF run.w = "merge" THEN Throws ELSE Go("confirm") /\ UNCHANGED <<journal, reported>>
    /\ UNCHANGED <<provider, live, bounds>>

(* The checks after the dispatching boundary, the expiry last. *)
CheckDispatching ==
    /\ At("final")
    /\ \/ Expires
       \/ live /\ ReadFails
       \/ live /\ run.w \in present /\ Throws
       \/ live /\ run.w \notin present /\ Go("send") /\ UNCHANGED <<journal, reported>>
    /\ UNCHANGED <<provider, live, bounds>>

(* A slip: the write goes out beside the refusal of an expired authorization.            *)
SendUnchecked ==
    /\ At("send")
    /\ writes' = [writes EXCEPT ![run.w] = @ + 1]
    /\ \/ Expires /\ UNCHANGED <<present, flights, landed>>
       \/ /\ flights' = flights \cup {run.w}
          /\ Go("confirm") /\ UNCHANGED <<journal, reported, present, landed>>
    /\ UNCHANGED <<live, bounds>>

(* The expiry is checked once more and the write is sent.  The provider refuses it, or  *)
(* it lands now, later or never; whether a response arrives does not matter.            *)
Send ==
    /\ At("send")
    /\ \/ Expires /\ UNCHANGED provider
       \/ /\ live
          /\ writes' = [writes EXCEPT ![run.w] = @ + 1]
          /\ \/ Refuses /\ UNCHANGED <<present, flights, landed>>
             \/ /\ run.w \notin present
                /\ present' = present \cup {run.w} /\ landed' = landed \cup {run.w}
                /\ Go("confirm") /\ UNCHANGED <<journal, reported, flights>>
             \/ /\ flights' = flights \cup {run.w}
                /\ Go("confirm") /\ UNCHANGED <<journal, reported, present, landed>>
    /\ UNCHANGED <<live, bounds>>

(* The read back.  Nothing to see, or no answer, leaves the request pending; a result   *)
(* that differs from the plan throws.  A new commit is read too, and that read may be   *)
(* refused.  The last write of an effect is confirmed by its signed evidence.           *)
Confirm ==
    /\ At("confirm")
    /\ \/ Uncertain
       \/ run.w \in present /\ Throws
       \/ run.w \in present /\ run.w \in {"branch", "merge"} /\ Refuses
       \/ /\ run.w \in present
          /\ IF Has(run.req, <<run.w, "confirmed">>) \/ InTurn(<<run.w, "confirmed">>)
             THEN /\ Step(<<run.w, "confirmed">>)
                  /\ IF run.w = LastWrite[EffectOf[run.req]] THEN Report("verified")
                     ELSE /\ run' = [run EXCEPT !.at = "read",
                                                !.w = LastWrite[EffectOf[run.req]]]
                          /\ UNCHANGED reported
             ELSE Throws
    /\ UNCHANGED <<provider, live, bounds>>

(* The coordinator's receipt of the verified effect is durable. *)
ConfirmPublication(r) ==
    /\ At("idle") /\ reported[r] = "verified" /\ Verified(r) /\ LastPhase(r) # RECEIPTED
    /\ journal' = [journal EXCEPT ![r] = Append(@, RECEIPTED)]
    /\ UNCHANGED <<provider, live, run, reported, bounds>>
-----------------------------------------------------------------------------
InvocationDies ==
    /\ run # Idle /\ deaths < MaxDeaths
    /\ deaths' = deaths + 1
    /\ Report("ambiguous")
    /\ UNCHANGED <<journal, provider, live, foreign>>

(* A delayed write arrives; the provider applies it unless the result exists. *)
Arrive(w) ==
    /\ w \in flights
    /\ flights' = flights \ {w}
    /\ present' = present \cup {w}
    /\ landed' = IF w \in present THEN landed ELSE landed \cup {w}
    /\ UNCHANGED <<journal, live, run, reported, writes, bounds>>

Lost(w) ==
    /\ w \in flights
    /\ flights' = flights \ {w}
    /\ UNCHANGED <<journal, live, run, reported, present, landed, writes, bounds>>

(* Somebody else creates the branch or the tag, opens, readies or merges the request.   *)
Foreign(w) ==
    /\ foreign < MaxForeign /\ w \notin present
    /\ w \in {"pr-ready", "merge"} => "pr" \in present
    /\ foreign' = foreign + 1
    /\ present' = present \cup {w}
    /\ UNCHANGED <<journal, flights, live, run, reported, landed, writes, deaths>>

Expire ==
    /\ live /\ live' = FALSE
    /\ UNCHANGED <<journal, provider, run, reported, bounds>>

SagaNext ==
    \/ \E r \in Requests : Execute(r) \/ Reconcile(r) \/ ConfirmPublication(r)
    \/ WriteContent \/ ReadState \/ CheckIntent \/ CheckDispatching \/ Send \/ Confirm
    \/ InvocationDies \/ Expire
    \/ \E w \in Writes : Arrive(w) \/ Lost(w) \/ Foreign(w)

SagaSpec == SagaInit /\ [][SagaNext]_sagaVars
-----------------------------------------------------------------------------
SagaTypeOK ==
    /\ journal \in [Requests -> Seq(Phases)]
    /\ present \subseteq Writes /\ flights \subseteq Writes /\ landed \subseteq Writes
    /\ live \in BOOLEAN
    /\ run \in [req : Requests \cup {"none"}, w : Writes \cup {"none"},
                at : {"idle", "read", "check", "final", "send", "confirm"}]
    /\ reported \in [Requests -> {"none", "verified", "ambiguous", "conflict", "not-applied"}]
    /\ writes \in [Writes -> Nat]

(* Under one authorization no consequential write is sent twice, whatever dies, lands   *)
(* late, answers nothing or is asked for by another request (has(events, "...-dispatching")).*)
WrittenOnce == \A w \in Writes : writes[w] <= 1

(* What the journal calls verified went through the dispatching boundary and, unless    *)
(* somebody else made it, was sent; a result that merely appeared is never adopted.     *)
AdoptedAfterDispatch ==
    \A r \in Requests : \A w \in Writes :
        Has(r, <<w, "confirmed">>) => w \in present /\ Has(r, <<w, "dispatching">>)

(* A write that an expiry refused was not sent: the refusal is the last word on it.     *)
ExpiredUnsent ==
    \A r \in Requests : \A w \in Writes :
        journal[r] # <<>> /\ LastPhase(r) = EXPIRED /\ Has(r, <<w, "intent">>)
            /\ ~Has(r, <<w, "confirmed">>) => writes[w] = 0

(* An effect reported as not applied was not applied.                                   *)
NotAppliedIsTrue ==
    \A r \in Requests : \A w \in {FirstWrite[EffectOf[r]], LastWrite[EffectOf[r]]} :
        reported[r] = "not-applied" /\ journal[r] # <<>> => w \notin landed
=============================================================================
