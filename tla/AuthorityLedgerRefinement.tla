---------------------- MODULE AuthorityLedgerRefinement ----------------------
(***************************************************************************)
(* AuthorityLedger implements EffectRegistry: every crash-ridden, multi-file *)
(* reservation of fs-ledger.ts looks to its callers like one atomic decision.*)
(***************************************************************************)
EXTENDS AuthorityLedger

RegistryStatus ==
    [i \in Intents |-> IF state[i] # "issued" THEN state[i]
                       ELSE IF tombstone[i] # "none" THEN "refused" ELSE "undecided"]

Registry == INSTANCE EffectRegistry WITH
    Effects    <- Intents,
    Identities <- [i \in Intents |-> {<<"ingress", Intent[i].ingress>>,
                                      <<"outcome", Intent[i].outcome>>,
                                      <<"capability", Intent[i].capability>>}],
    Slots      <- [i \in Intents |-> Intent[i].slots],
    From       <- [i \in Intents |-> Intent[i].issuedAt],
    Until      <- [i \in Intents |-> ExpiresAt(i)],
    status     <- RegistryStatus,
    clock      <- hwm

(* The commit marker and the tombstone are the only decision points: recovery   *)
(* never reverses one, and a refusal always has a committed rival to show.      *)
ImplementsRegistry == Registry!Spec
==============================================================================
