------------------------------ MODULE GateDecisions ------------------------------
(***************************************************************************)
(* The authority gate, src/authority/gate.ts: a request is bound to its        *)
(* ingress claim, judged under a lease of the authority state, reserved in the *)
(* ledger and answered once its signed decision is in the decision store.  The *)
(* same request may arrive again, or arrive changed under the same id, in      *)
(* several processes; each may die between two awaits.                        *)
(***************************************************************************)
EXTENDS Integers, FiniteSets

CONSTANTS
    Callers,            \* processes that call decide()
    Contents,           \* what a request of the id at hand may say: its digests
    MaxCalls,           \* bound: calls of decide()
    MaxStates           \* bound: authority-state versions

ASSUME GateAssumption == MaxCalls \in Nat /\ MaxStates \in Nat \ {0} /\ "none" \notin Contents

VARIABLES
    ingress,        \* the digest the request id is bound to
    stateVersion,   \* the authority state's version
    permits,        \* the versions under which the request is permitted
    reservation,    \* the event under which the effect was reserved; 0 when it is not
    decisions,      \* the decision store: signed records
    calls,          \* caller -> its call of decide()
    handles,        \* history: the events whose handle was given out
    events          \* event ids drawn so far

gateVars == <<ingress, stateVersion, permits, reservation, decisions, calls, handles, events>>

Records == [event : 1..MaxCalls, role : {"primary", "conflict"}, reserved : BOOLEAN,
            verdict : {"accepted", "refused"}, digest : Contents]

NoCall == [at |-> "none", digest |-> "none", version |-> 0, event |-> 0, record |-> {}]

GateInit ==
    /\ ingress = "none" /\ stateVersion = 1
    /\ permits \in SUBSET (1..MaxStates)
    /\ reservation = 0 /\ decisions = {} /\ handles = {} /\ events = 0
    /\ calls = [c \in Callers |-> NoCall]
-----------------------------------------------------------------------------
Primary == {r \in decisions : r.role = "primary"}

Move(c, step)  == calls' = [calls EXCEPT ![c].at = step]
Answered(c)    == calls' = [calls EXCEPT ![c] = NoCall]    \* whatever the answer says
Sign(c, role, verdict) ==
    calls' = [calls EXCEPT ![c].at = "persist",
                           ![c].record = {[event |-> calls[c].event, role |-> role,
                                           reserved |-> verdict = "accepted",
                                           verdict |-> verdict, digest |-> calls[c].digest]}]
authority == <<stateVersion, permits>>

(* Two slips: an exact repetition is decided once more; and what is bound to the id is    *)
(* not compared with what arrived.                                                       *)
BindIngressAgain(c, d) ==
    /\ calls[c].at = "none" /\ events < MaxCalls
    /\ events' = events + 1
    /\ ingress' = IF ingress = "none" THEN d ELSE ingress
    /\ calls' = [calls EXCEPT ![c] =
                   [NoCall EXCEPT !.digest = d, !.event = events',
                        !.at = IF ingress \in {"none", d} THEN "load" ELSE "conflict"]]
    /\ UNCHANGED <<authority, reservation, decisions, handles>>

BindIngressLast(c, d) ==
    /\ calls[c].at = "none" /\ events < MaxCalls
    /\ events' = events + 1
    /\ ingress' = d
    /\ calls' = [calls EXCEPT ![c] =
                   [NoCall EXCEPT !.digest = d, !.event = events',
                        !.at = IF ingress = d THEN "existing" ELSE "load"]]
    /\ UNCHANGED <<authority, reservation, decisions, handles>>

(* bindIngress: the first content of an id is bound; the same content again is answered *)
(* from the store, another content is refused as a conflict.                           *)
BindIngress(c, d) ==
    /\ calls[c].at = "none" /\ events < MaxCalls
    /\ events' = events + 1
    /\ ingress' = IF ingress = "none" THEN d ELSE ingress
    /\ calls' = [calls EXCEPT ![c] =
                   [NoCall EXCEPT !.digest = d, !.event = events',
                        !.at = CASE ingress = "none" -> "load" [] ingress = d -> "existing"
                                 [] OTHER -> "conflict"]]
    /\ UNCHANGED <<authority, reservation, decisions, handles>>

(* An exact repetition is answered with the primary record, or with decision-missing.  *)
AnswerExisting(c) ==
    /\ calls[c].at = "existing"
    /\ Answered(c)
    /\ UNCHANGED <<ingress, authority, reservation, decisions, handles, events>>

RefuseConflict(c) ==
    /\ calls[c].at = "conflict"
    /\ Sign(c, "conflict", "refused") \/ Answered(c)
    /\ UNCHANGED <<ingress, authority, reservation, decisions, handles, events>>

(* Load, advance and select: a state that moved meanwhile, or one without an eligible   *)
(* contract, is refused; a failed read answers nothing.                                *)
LoadState(c) ==
    /\ calls[c].at = "load"
    /\ \/ calls' = [calls EXCEPT ![c].at = "advance", ![c].version = stateVersion]
       \/ Sign(c, "primary", "refused")
       \/ Answered(c)
    /\ UNCHANGED <<ingress, authority, reservation, decisions, handles, events>>

AdvanceState(c) ==
    /\ calls[c].at = "advance"
    /\ IF calls[c].version # stateVersion \/ stateVersion \notin permits
       THEN Sign(c, "primary", "refused") \/ Answered(c)
       ELSE Move(c, "lease") \/ Answered(c)
    /\ UNCHANGED <<ingress, authority, reservation, decisions, handles, events>>

(* withCurrent: under the lease the version is the one that was judged, and the effect  *)
(* is reserved.  The ledger refuses a second reservation of one claim.                 *)
ReserveUnderLease(c) ==
    /\ calls[c].at = "lease"
    /\ \/ Answered(c) /\ UNCHANGED reservation
       \/ /\ calls[c].version = stateVersion /\ reservation = 0
          /\ reservation' = calls[c].event
          /\ Move(c, "reserved")
       \/ Sign(c, "primary", "refused") /\ UNCHANGED reservation
    /\ UNCHANGED <<ingress, authority, decisions, handles, events>>

SignAccepted(c) ==
    /\ calls[c].at = "reserved"
    /\ Sign(c, "primary", "accepted") \/ Answered(c)
    /\ UNCHANGED <<ingress, authority, reservation, decisions, handles, events>>

(* The store takes a record once, one primary per claim; whether the append was heard   *)
(* of or not, the indexes are read before anything is answered.                        *)
PersistDecision(c) ==
    /\ calls[c].at = "persist"
    /\ LET record == CHOOSE r \in calls[c].record : TRUE
       IN IF record.role = "primary" /\ Primary # {}
          THEN UNCHANGED decisions /\ Answered(c)
          ELSE \/ decisions' = decisions \cup {record} /\ Move(c, "verify")
               \/ decisions' \in {decisions, decisions \cup {record}} /\ Answered(c)
    /\ UNCHANGED <<ingress, authority, reservation, handles, events>>

VerifyIndexes(c) ==
    /\ calls[c].at = "verify"
    /\ LET record == CHOOSE r \in calls[c].record : TRUE
       IN handles' = IF record \in decisions /\ record.verdict = "accepted"
                     THEN handles \cup {record.event} ELSE handles
    /\ Answered(c)
    /\ UNCHANGED <<ingress, authority, reservation, decisions, events>>

CallerDies(c) ==
    /\ calls[c].at # "none"
    /\ Answered(c)
    /\ UNCHANGED <<ingress, authority, reservation, decisions, handles, events>>

(* The authority state moves unless a lease holds it: the callback runs in one step.    *)
StateMoves ==
    /\ stateVersion < MaxStates
    /\ stateVersion' = stateVersion + 1
    /\ UNCHANGED <<ingress, permits, reservation, decisions, calls, handles, events>>

GateNext ==
    \/ StateMoves
    \/ \E c \in Callers :
         \/ \E d \in Contents : BindIngress(c, d)
         \/ AnswerExisting(c) \/ RefuseConflict(c) \/ LoadState(c) \/ AdvanceState(c)
         \/ ReserveUnderLease(c) \/ SignAccepted(c) \/ PersistDecision(c)
         \/ VerifyIndexes(c) \/ CallerDies(c)

GateSpec == GateInit /\ [][GateNext]_gateVars
-----------------------------------------------------------------------------
GateTypeOK ==
    /\ ingress \in Contents \cup {"none"}
    /\ stateVersion \in 1..MaxStates /\ reservation \in 0..MaxCalls /\ events \in 0..MaxCalls
    /\ decisions \subseteq Records
    /\ \A c \in Callers : calls[c].record \subseteq Records
    /\ handles \subseteq 1..MaxCalls

(* A dispatch handle is given out once per claim, for the content that was bound first, *)
(* backed by the reservation and by the one primary decision in the store.             *)
HandleBacked ==
    /\ Cardinality(handles) <= 1
    /\ \A e \in handles :
          /\ reservation = e
          /\ \E r \in Primary : r.event = e /\ r.verdict = "accepted" /\ r.digest = ingress

(* An effect whose claim was refused is never reserved: no caller, repetition or death  *)
(* makes the store's refusal and the ledger's reservation meet.                        *)
RefusalUnreserved == reservation # 0 => \A r \in Primary : r.verdict = "accepted"

(* One claim has one decision: whatever callers repeat, contradict or die, a handle    *)
(* stands beside its reservation and a refusal beside none (decide()).                 *)
ClaimsDecideOnce == HandleBacked /\ RefusalUnreserved
=============================================================================
