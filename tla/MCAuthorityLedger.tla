-------------------------- MODULE MCAuthorityLedger --------------------------
(* Small instances of AuthorityLedger.  Two requests of one requester (a and b  *)
(* share their ingress key) and a third that competes for a capability, an      *)
(* outcome or a limit slot.                                                     *)
EXTENDS AuthorityLedgerRefinement, TLC

CONSTANTS a, b, c, r1, r2, r3, x, y, o1, o2, o3, c1, c2, c3, k1, k2

NoSlots == [k \in {} |-> 1]
Entry(r, o, cap, bytes, issued, slots) ==
    [ingress |-> r, body |-> x, outcome |-> o, capability |-> cap, bytes |-> bytes,
     issuedAt |-> issued, slots |-> slots]

(* a and b retry one request with different capabilities; c spends b's          *)
(* capability identifier on another outcome, later and for a while longer.      *)
IdentityIntents ==
    (a :> Entry(r1, o1, c1, x, 0, k1 :> 1)) @@ (b :> Entry(r1, o1, c2, x, 0, NoSlots))
      @@ (c :> Entry(r2, o2, c2, y, 1, NoSlots))

(* Three different requests: a and c fit together under limit key k1, a and b   *)
(* do not fit under k2 in either order, b and c produce the same outcome.       *)
LimitIntents ==
    (a :> Entry(r1, o1, c1, x, 0, (k1 :> 2) @@ (k2 :> 2)))
      @@ (b :> Entry(r2, o2, c2, x, 0, k2 :> 1)) @@ (c :> Entry(r3, o2, c3, x, 0, k1 :> 3))
==============================================================================
