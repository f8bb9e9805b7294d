------------------------------- MODULE RuntimeCalls -------------------------------
(***************************************************************************)
(* A request on its way through the host: the ingress resolves the bearer's      *)
(* session, the local runtime binds it to the jobs of its grant and lets equal   *)
(* requests in flight share one call, and the host runtime asks the gate,         *)
(* dispatches the handle and tells the reservation's state, or leaves a           *)
(* diagnostic.  Status requests read the same stores meanwhile.                 *)
(*                                                                         *)
(* All requests carry one request id of one session.  The gate and the            *)
(* coordinator are what GateDecisions and DispatchCoordinator show them to be.    *)
(***************************************************************************)
EXTENDS Integers, FiniteSets

CONSTANTS
    Requesters,         \* connections, each with one request at a time
    Semantics,          \* what a request of the id may ask for
    MaxArrivals,        \* bound: requests
    MaxCallFailures     \* bound: calls of a store or a provider that fail, and stops of the host

ASSUME CallsAssumption == MaxArrivals \in Nat /\ MaxCallFailures \in Nat /\ "none" \notin Semantics

VARIABLES
    signedJobs,     \* the deployment's job card signs several definitions
    credential,     \* the session's credential resolves
    grantBound,     \* its grant still has its allocation
    flight,         \* the connection whose call is in flight for the id, or "none"
    boundTo,        \* what the ledger has bound the id to, or "none"
    decided,        \* the verdict in the decision store, or "none"
    effectState,    \* the state of the reservation, or "none"
    carriedOut,     \* the provider has carried the effect out
    diagnostics,    \* the diagnostics on disk: whether each calls an effect possible
    request,        \* connection -> its request, where it stands and its answer
    arrivals, callFailures,
    told,           \* history: somebody was told of the reservation, or that its dispatch failed
    unrecorded      \* history: a diagnostic was not written, or the host stopped at work

callVars == <<signedJobs, credential, grantBound, flight, boundTo, decided, effectState, carriedOut,
              diagnostics, request, arrivals, callFailures, told, unrecorded>>

NoRequest == [at |-> "rest", asks |-> "none", late |-> FALSE, answer |-> "none"]

CallsInit ==
    /\ signedJobs \in BOOLEAN
    /\ credential = TRUE /\ grantBound = TRUE /\ flight = "none"
    /\ boundTo = "none" /\ decided = "none" /\ effectState = "none" /\ carriedOut = FALSE
    /\ diagnostics = {} /\ request = [c \in Requesters |-> NoRequest]
    /\ arrivals = 0 /\ callFailures = 0 /\ told = FALSE /\ unrecorded = FALSE
-----------------------------------------------------------------------------
Is(c, at)    == request[c].at = at
GoOn(c, at) == request' = [request EXCEPT ![c].at = at]
Fails        == callFailures < MaxCallFailures /\ callFailures' = callFailures + 1
AcceptedStates     == {"reserved", "dispatched", "acknowledged", "ambiguous", "definitive-failure"}

wiring  == <<signedJobs, credential, grantBound>>
ledger  == <<boundTo, decided, effectState>>

(* The answer of a call goes to those that joined it, and its flight ends with it. *)
Answer(c, answer) ==
    /\ request' = [d \in Requesters |->
                     IF d = c \/ (Is(d, "joined") /\ flight = c)
                     THEN [request[d] EXCEPT !.at = "answered", !.answer = answer] ELSE request[d]]
    /\ flight' = IF flight = c THEN "none" ELSE flight
    /\ told' = (told \/ answer \in AcceptedStates \cup {"dispatch-unavailable"})

Goes(c, at) == GoOn(c, at) /\ UNCHANGED <<flight, told>>

RequestArrives(c) ==
    /\ request[c].at \in {"rest", "answered"}
    /\ arrivals < MaxArrivals /\ arrivals' = arrivals + 1
    /\ \E asks \in Semantics \cup {"status"} :
          request' = [request EXCEPT ![c] = [NoRequest EXCEPT !.at = "resolve", !.asks = asks, !.late = told]]
    /\ UNCHANGED <<wiring, flight, ledger, carriedOut, diagnostics, callFailures, told, unrecorded>>

(* handleAuthorityHttp: a bearer that does not resolve is answered 401. *)
ResolvePrincipal(c) ==
    /\ Is(c, "resolve")
    /\ IF ~credential THEN Answer(c, "authentication-required")
       ELSE Goes(c, IF request[c].asks = "status" THEN "status-ingress" ELSE "jobs")
    /\ UNCHANGED <<wiring, ledger, carriedOut, diagnostics, arrivals, callFailures, unrecorded>>

(* A signed card of several definitions is served only to a session whose grant is bound. *)
ResolveBoundJobs(c) ==
    /\ Is(c, "jobs")
    /\ \/ /\ signedJobs => grantBound
          /\ Goes(c, "invoke") /\ UNCHANGED callFailures
       \/ /\ signedJobs
          /\ IF grantBound THEN Fails ELSE UNCHANGED callFailures
          /\ Answer(c, "job-authority-refused")
    /\ UNCHANGED <<wiring, ledger, carriedOut, diagnostics, arrivals, unrecorded>>

(* The flight is looked up and made in one turn; only signed jobs have flights. *)
Invoke(c) ==
    /\ Is(c, "invoke")
    /\ \/ /\ ~signedJobs /\ Goes(c, "bind")
       \/ /\ signedJobs /\ flight = "none"
          /\ flight' = c /\ GoOn(c, "bind") /\ UNCHANGED told
       \/ /\ signedJobs /\ flight # "none" /\ request[flight].asks = request[c].asks
          /\ Goes(c, "joined")
       \/ /\ signedJobs /\ flight # "none" /\ request[flight].asks # request[c].asks
          /\ Answer(c, "request-id-conflict")
    /\ UNCHANGED <<wiring, ledger, carriedOut, diagnostics, arrivals, callFailures, unrecorded>>
-----------------------------------------------------------------------------
GateUnavailable(c) ==
    /\ request[c].at \in {"bind", "existing", "decide", "record"} /\ Fails
    /\ Answer(c, "gate-unavailable")
    /\ UNCHANGED <<wiring, ledger, carriedOut, diagnostics, arrivals, unrecorded>>

(* decide(), to its three ends: the first content of the id goes on to be judged, the same *)
(* content again is answered from the stores, another one is refused.                      *)
GateBind(c) ==
    /\ Is(c, "bind")
    /\ boundTo' = IF boundTo = "none" THEN request[c].asks ELSE boundTo
    /\ CASE boundTo = "none" -> Goes(c, "decide")
         [] boundTo = request[c].asks -> Goes(c, "existing")
         [] OTHER -> Answer(c, "refused")
    /\ UNCHANGED <<wiring, decided, effectState, carriedOut, diagnostics, arrivals, callFailures, unrecorded>>

GateExisting(c) ==
    /\ Is(c, "existing")
    /\ Answer(c, CASE decided = "none" -> "decision-missing" [] decided = "refused" -> "refused"
                   [] OTHER -> effectState)
    /\ UNCHANGED <<wiring, ledger, carriedOut, diagnostics, arrivals, callFailures, unrecorded>>

GateReserve(c) ==
    /\ Is(c, "decide")
    /\ effectState' \in {"none", "reserved"}
    /\ Goes(c, "record")
    /\ UNCHANGED <<wiring, boundTo, decided, carriedOut, diagnostics, arrivals, callFailures, unrecorded>>

GateRecord(c) ==
    /\ Is(c, "record")
    /\ decided' = IF effectState = "none" THEN "refused" ELSE "accepted"
    /\ IF effectState = "none" THEN Answer(c, "refused") ELSE Goes(c, "commit")
    /\ UNCHANGED <<wiring, boundTo, effectState, carriedOut, diagnostics, arrivals, callFailures, unrecorded>>
-----------------------------------------------------------------------------
(* dispatch() as its caller knows it: the commit, the receipt of the reservation, the send, *)
(* the receipt and state of the result, and the read of what the ledger now holds.          *)
Dispatching == {"commit", "publish", "send", "settle", "linkage"}

CommitDispatch(c) ==
    /\ Is(c, "commit") /\ effectState' = "dispatched"
    /\ Goes(c, "publish")
    /\ UNCHANGED <<wiring, boundTo, decided, carriedOut, diagnostics, arrivals, callFailures, unrecorded>>

PublishReservation(c) ==
    /\ Is(c, "publish") /\ Goes(c, "send")
    /\ UNCHANGED <<wiring, ledger, carriedOut, diagnostics, arrivals, callFailures, unrecorded>>

SendRequest(c) ==
    /\ Is(c, "send") /\ carriedOut' \in BOOLEAN
    /\ Goes(c, "settle")
    /\ UNCHANGED <<wiring, ledger, diagnostics, arrivals, callFailures, unrecorded>>

SettleDispatch(c) ==
    /\ Is(c, "settle")
    /\ effectState' \in {"ambiguous", IF carriedOut THEN "acknowledged" ELSE "definitive-failure"}
    /\ Goes(c, "linkage")
    /\ UNCHANGED <<wiring, boundTo, decided, carriedOut, diagnostics, arrivals, callFailures, unrecorded>>

AnswerAccepted(c) ==
    /\ Is(c, "linkage") /\ Answer(c, effectState)
    /\ UNCHANGED <<wiring, ledger, carriedOut, diagnostics, arrivals, callFailures, unrecorded>>

(* A call of the dispatch throws, before or after it took effect. *)
DispatchThrows(c) ==
    /\ request[c].at \in Dispatching /\ Fails
    /\ Goes(c, IF Is(c, "publish") THEN "diagnose-unsent" ELSE "diagnose")
    /\ effectState' \in IF Is(c, "commit") THEN {effectState, "dispatched"}
                        ELSE IF Is(c, "settle") THEN {effectState, "ambiguous"} ELSE {effectState}
    /\ UNCHANGED <<wiring, boundTo, decided, carriedOut, diagnostics, arrivals, unrecorded>>

(* A slip: an effect is called possible only by an error that says so. *)
PossibleIfTold(c) == FALSE

(* Only a failed publication of the reservation says that nothing can have been sent. *)
ProviderEffectPossible(c) == ~Is(c, "diagnose-unsent")

(* The recorder's own failure is kept from the caller. *)
RecordDiagnostic(c) ==
    /\ request[c].at \in {"diagnose", "diagnose-unsent"}
    /\ \/ /\ diagnostics' = diagnostics \cup {ProviderEffectPossible(c)}
          /\ UNCHANGED <<callFailures, unrecorded>>
       \/ Fails /\ unrecorded' = TRUE /\ UNCHANGED diagnostics
    /\ Answer(c, "dispatch-unavailable")
    /\ UNCHANGED <<wiring, ledger, carriedOut, arrivals>>
-----------------------------------------------------------------------------
(* status: the claim, its decision, its reservation; each absent one is "not found".      *)
Status(c, at, found, next) ==
    /\ Is(c, at)
    /\ \/ found /\ next /\ UNCHANGED callFailures
       \/ ~found /\ Answer(c, "not-found") /\ UNCHANGED callFailures
       \/ Fails /\ Answer(c, "status-unavailable")
    /\ UNCHANGED <<wiring, ledger, carriedOut, diagnostics, arrivals, unrecorded>>

StatusIngress(c)  == Status(c, "status-ingress", boundTo # "none", Goes(c, "status-decision"))
StatusDecision(c) == Status(c, "status-decision", decided # "none",
                            IF decided = "refused" THEN Answer(c, "refused")
                            ELSE Goes(c, "status-linkage"))
StatusLinkage(c)  == Status(c, "status-linkage", effectState # "none", Answer(c, effectState))

CredentialRevoked ==
    /\ credential /\ credential' = FALSE
    /\ UNCHANGED <<signedJobs, grantBound, flight, ledger, carriedOut, diagnostics, request, arrivals,
                   callFailures, told, unrecorded>>

GrantRevoked ==
    /\ grantBound /\ grantBound' = FALSE
    /\ UNCHANGED <<signedJobs, credential, flight, ledger, carriedOut, diagnostics, request, arrivals,
                   callFailures, told, unrecorded>>

(* The host stops: calls and flights are gone, the stores stay. *)
HostStops ==
    /\ Fails
    /\ request' = [c \in Requesters |-> NoRequest] /\ flight' = "none"
    /\ unrecorded' = (unrecorded \/ \E c \in Requesters :
                         request[c].at \in Dispatching \cup {"diagnose", "diagnose-unsent"})
    /\ UNCHANGED <<wiring, ledger, carriedOut, diagnostics, arrivals, told>>

CallsNext ==
    \/ CredentialRevoked \/ GrantRevoked \/ HostStops
    \/ \E c \in Requesters :
         \/ RequestArrives(c) \/ ResolvePrincipal(c) \/ ResolveBoundJobs(c) \/ Invoke(c)
         \/ GateUnavailable(c) \/ GateBind(c) \/ GateExisting(c) \/ GateReserve(c) \/ GateRecord(c)
         \/ CommitDispatch(c) \/ PublishReservation(c) \/ SendRequest(c) \/ SettleDispatch(c)
         \/ AnswerAccepted(c) \/ DispatchThrows(c) \/ RecordDiagnostic(c)
         \/ StatusIngress(c) \/ StatusDecision(c) \/ StatusLinkage(c)

CallsSpec == CallsInit /\ [][CallsNext]_callVars
-----------------------------------------------------------------------------
CallsTypeOK ==
    /\ flight \in Requesters \cup {"none"}
    /\ boundTo \in Semantics \cup {"none"} /\ decided \in {"none", "accepted", "refused"}
    /\ effectState \in AcceptedStates \cup {"none"} /\ diagnostics \subseteq BOOLEAN
    /\ callFailures \in 0..MaxCallFailures

(* A diagnostic that rules an effect out is right for ever: nothing that happens later,     *)
(* a retry, a second call or a restart, carries the effect out (outcome(), its catch).     *)
DiagnosisIsHonest == FALSE \in diagnostics => ~carriedOut

(* Whoever was told of the reservation, or that its dispatch failed, finds it: a status     *)
(* asked for afterwards never says that the request is unknown or was refused.             *)
ToldIsFound ==
    \A c \in Requesters :
       request[c].late /\ request[c].asks = "status" =>
          request[c].answer \notin {"not-found", "refused"}

(* No effect goes unmentioned: once nobody is at work, an effect carried out was            *)
(* acknowledged or called possible, unless the host stopped or could not write it down.    *)
EffectAccounted ==
    carriedOut /\ (\A c \in Requesters : request[c].at \in {"rest", "answered"}) =>
       /\ effectState \in {"dispatched", "ambiguous", "acknowledged"}
       /\ told \/ unrecorded
       /\ effectState = "dispatched" => TRUE \in diagnostics \/ unrecorded

(* What callers are told and what is written down agree with what was done. *)
CallsAreTrue == DiagnosisIsHonest /\ ToldIsFound /\ EffectAccounted
=============================================================================
