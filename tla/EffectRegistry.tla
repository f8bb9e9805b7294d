---------------------------- MODULE EffectRegistry ----------------------------
(***************************************************************************)
(* What the authority ledger promises its callers, as a registry that       *)
(* decides each effect in one atomic step: no crash, no claims, no journal. *)
(* The promise is the reservation contract of src/authority/ledger.ts: an   *)
(* effect is reserved once, never beside another that shares an identity    *)
(* with it or fills the same limit slot, refused only because such an       *)
(* effect is already reserved, and dispatched only inside its capability's  *)
(* lifetime.                                                               *)
(***************************************************************************)
EXTENDS Integers, FiniteSets

CONSTANTS
    Effects,     \* what may be reserved
    Identities,  \* the identities an effect needs for itself alone
    Slots,       \* for each effect, the limit keys it draws on and their maxima
    From, Until  \* the lifetime of each effect's capability

VARIABLES status, clock
vars == <<status, clock>>

Statuses == {"undecided", "refused", "reserved", "dispatched", "acknowledged",
             "definitive-failure", "ambiguous", "cancelled", "reconciled"}
Held       == {i \in Effects : status[i] \notin {"undecided", "refused"}}
Drawing(k) == {j \in Held : k \in DOMAIN Slots[j]}

Rivals(i)  == {j \in Held : Identities[i] \cap Identities[j] # {}}
HasRoom(i) == \A k \in DOMAIN Slots[i] : \A j \in Drawing(k) \cup {i} :
                  Cardinality(Drawing(k)) < Slots[j][k]

Init == status = [i \in Effects |-> "undecided"] /\ clock = -1

Reserve(i) ==
    /\ status[i] = "undecided" /\ Rivals(i) = {} /\ HasRoom(i)
    /\ status' = [status EXCEPT ![i] = "reserved"]
    /\ UNCHANGED clock

Refuse(i) ==
    /\ status[i] = "undecided" /\ (Rivals(i) # {} \/ ~HasRoom(i))
    /\ status' = [status EXCEPT ![i] = "refused"]
    /\ UNCHANGED clock

Dispatch(i) ==
    /\ status[i] = "reserved" /\ From[i] <= clock /\ clock < Until[i]
    /\ status' = [status EXCEPT ![i] = "dispatched"]
    /\ UNCHANGED clock

Settle(i) ==
    /\ \E edge \in {<<"reserved", "cancelled">>, <<"dispatched", "acknowledged">>,
                    <<"dispatched", "definitive-failure">>, <<"dispatched", "ambiguous">>,
                    <<"acknowledged", "reconciled">>, <<"ambiguous", "reconciled">>} :
          status[i] = edge[1] /\ status' = [status EXCEPT ![i] = edge[2]]
    /\ UNCHANGED clock

Observe == clock' > clock /\ UNCHANGED status

Next == Observe \/ \E i \in Effects : Reserve(i) \/ Refuse(i) \/ Dispatch(i) \/ Settle(i)
Spec == Init /\ [][Next]_vars
=============================================================================
