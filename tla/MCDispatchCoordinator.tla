------------------------- MODULE MCDispatchCoordinator -------------------------
(* Two reservations draw on a root allocation of two effects, or on the child    *)
(* that was delegated one of them, or on no budget at all.  The host's own       *)
(* wiring is Governed, with one fault after another; Plain is the one most        *)
(* coordinator tests use, with one fault in all.                                 *)
EXTENDS DispatchCoordinator, TLC

Governed == [prepares |-> TRUE, durable |-> TRUE, readback |-> TRUE]
Plain    == [prepares |-> FALSE, durable |-> FALSE, readback |-> TRUE]

MCGrants    == (Root :> 2) @@ (Child :> 1)
MCWirings   == {Governed, Plain}
MCMaxFaults == (Governed :> 2) @@ (Plain :> 1)
=============================================================================
