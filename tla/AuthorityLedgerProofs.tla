------------------------ MODULE AuthorityLedgerProofs ------------------------
(***************************************************************************)
(* Proofs about AuthorityLedger, for every set of intents, every limit and   *)
(* every number of failures: what holds of its files, and what its callers   *)
(* may rely on.                                                             *)
(***************************************************************************)
EXTENDS AuthorityLedgerRefinement, FiniteSetTheorems, WellFoundedInduction, TLAPS

(* Which operation may be at which control point, and what it works on. *)
PhaseOK ==
    /\ call.kind \in {"bind", "reserve", "commit", "transition"} => call.id \in Intents
    /\ pc \in {"claim", "unlink"} =>
          txn \in Intents /\ (~preparing => call.kind = "reserve" /\ txn = call.id)
    /\ pc \in {"recover", "sweep"} => preparing
    /\ pc = "body" => ~preparing
    /\ pc = "claim" => Verdict(txn) = "commit"
    /\ pc \in {"writeahead", "decide"} => call.kind = "reserve" /\ ~preparing
    /\ pc = "append" => call.kind \in {"transition", "commit"}
    /\ pc = "append" /\ call.kind = "transition" =>
          state[call.id] = call.from /\ <<call.from, call.to>> \in Legal
    /\ pc = "append" /\ call.kind = "commit" => state[call.id] = "reserved"
    /\ pc = "marker" => call.kind = "commit"
    /\ reply # "none" => pc = "reply"
    /\ reply \in {"reserved", "granted"} =>
          call.kind \in {"reserve", "commit", "transition"}

(* Every set of natural numbers that has an element has a least one. *)
LEMMA LeastElement ==
    ASSUME NEW T \in SUBSET Nat, T # {}
    PROVE  \E n \in T : \A m \in T : n <= m
<1>1. PICK n \in T : \A m \in T : ~(<<m, n>> \in OpToRel(<, Nat))
    BY NatLessThanWellFounded, WFMin, Zenon
<1>2. \A m \in T : ~(m < n)
    BY <1>1 DEF OpToRel
<1> QED
    BY <1>2

(* A verdict to commit means that no committed reservation shares an identity   *)
(* with the intent, and that each of its limit keys has a free index.           *)
LEMMA CommitVerdict ==
    ASSUME NEW i, Verdict(i) = "commit"
    PROVE  /\ SameIngress(i) = {} /\ SameOutcome(i) = {} /\ SameCapability(i) = {}
           /\ \A k \in SlotKeys(i) : ~Full(i, k)
    BY DEF Verdict

(* The index chosen for a slot is free and the least such. *)
LEMMA FirstFreeIsLeast ==
    ASSUME NEW i \in Intents, NEW k \in SlotKeys(i), ~Full(i, k)
    PROVE  /\ FirstFree(i, k) \in Nat
           /\ IsFree(i, k, FirstFree(i, k))
           /\ \A m \in 0..(FirstFree(i, k) - 1) : ~IsFree(i, k, m)
<1> DEFINE T == {n \in Candidates(i, k) : IsFree(i, k, n)}
<1>1. T \in SUBSET Nat /\ T # {} /\ Intent[i].slots[k] \in Nat
    BY IntentAssumption DEF Full, Candidates, SlotKeys
<1>2. PICK n \in T : \A m \in T : n <= m
    <2> HIDE DEF T
    <2> QED BY <1>1, LeastElement
<1>3. n \in Candidates(i, k) /\ IsFree(i, k, n)
    BY <1>2
<1>4. \A m \in 0..(n - 1) : ~IsFree(i, k, m)
    <2> TAKE m \in 0..(n - 1)
    <2>1. m \in Candidates(i, k) /\ ~(n <= m)
        BY <1>1, <1>3 DEF Candidates
    <2> QED BY <2>1, <1>2
<1>5. \E q \in Candidates(i, k) : IsFree(i, k, q) /\ \A m \in 0..(q - 1) : ~IsFree(i, k, m)
    BY <1>3, <1>4
<1>6. /\ FirstFree(i, k) \in Candidates(i, k)
      /\ IsFree(i, k, FirstFree(i, k))
      /\ \A m \in 0..(FirstFree(i, k) - 1) : ~IsFree(i, k, m)
    BY <1>5, Zenon DEF FirstFree
<1> QED
    BY <1>1, <1>6 DEF Candidates

(* The verdict, the assignment and the claims an intent wants depend only on    *)
(* which intents are committed and on their indices.                            *)
LEMMA StableView ==
    ASSUME Committed' = Committed, index' = index
    PROVE  \A i : Verdict(i)' = Verdict(i) /\ Wanted(i)' = Wanted(i)
                    /\ Assignment(i)' = Assignment(i)
<1>1. \A i, k, n : IsFree(i, k, n)' = IsFree(i, k, n)
    BY DEF IsFree, Holders, SlotKeys
<1>2. \A i, k : Full(i, k)' = Full(i, k) /\ FirstFree(i, k)' = FirstFree(i, k)
    BY <1>1, Zenon DEF Full, FirstFree, Candidates
<1>3. \A i : Assignment(i)' = Assignment(i)
    BY <1>2, Zenon DEF Assignment, SlotKeys
<1> QED
    BY <1>2, <1>3, Zenon DEF Verdict, SameIngress, SameOutcome, SameCapability, SlotKeys, Wanted,
        Descriptors, Descriptor
-----------------------------------------------------------------------------
(* A step that leaves the committed set and the indices alone leaves every     *)
(* verdict alone.                                                              *)
LEMMA SameJournal ==
    ASSUME UNCHANGED <<state, index>>
    PROVE  Committed' = Committed /\ index' = index
                /\ \A i : Verdict(i)' = Verdict(i)
    BY StableView DEF Committed

(* What a transaction about to commit is assigned, and the claims it wants,    *)
(* have their types.                                                           *)
LEMMA AssignmentType ==
    ASSUME NEW i \in Intents, Verdict(i) = "commit"
    PROVE  Assignment(i) \in [LimitKeys -> Nat \cup {NoIndex}]
                /\ \A d \in Wanted(i) : Claim(d, i) \in Claims
<1>1. \A k \in SlotKeys(i) : FirstFree(i, k) \in Nat
    BY CommitVerdict, FirstFreeIsLeast
<1>2. SlotKeys(i) \subseteq LimitKeys
    BY IntentAssumption DEF SlotKeys
<1>3. Assignment(i) \in [LimitKeys -> Nat \cup {NoIndex}]
    BY <1>1 DEF Assignment
<1>4. \A k \in SlotKeys(i) : Assignment(i)[k] \in Nat
    BY <1>1, <1>2 DEF Assignment
<1>5. ASSUME NEW d \in Wanted(i) PROVE Claim(d, i) \in Claims
    BY <1>2, <1>4, IntentAssumption
       DEF Wanted, Descriptors, Descriptor, Claim, Claims, Keys
<1> QED
    BY <1>3, <1>5

(* Deciding records a verdict and enters the phase it calls for. *)
LEMMA DecideTypes ==
    ASSUME TypeOK, PhaseOK, NEW i \in Intents, pc \in {"recover", "decide"}, Decide(i),
           ~preparing => call.kind = "reserve" /\ i = call.id,
           UNCHANGED <<world, history>>
    PROVE  TypeOK' /\ PhaseOK'
<1>1. Verdict(i) \in Verdicts \cup {"commit"}
    BY DEF Verdict, Verdicts, Reasons
<1>2. \A j : Verdict(j)' = Verdict(j)
    BY SameJournal DEF Decide, journal
<1>3. TypeOK'
    BY <1>1 DEF TypeOK, Decide, journal, world, history, Phases
<1>4. PhaseOK'
    BY <1>2 DEF PhaseOK, Decide
<1> QED
    BY <1>3, <1>4

(* Having no call under way is a call record too. *)
LEMMA NoCallType == NoCall \in CallType /\ NoCall.kind = "none"
    BY DEF NoCall, Call, CallType, LedgerStates

(* Taking the lock starts a typed call in its first phase. *)
LEMMA BeginTypes ==
    ASSUME TypeOK, PhaseOK, NEW c \in CallType, Begin(c),
           c.kind \in {"bind", "reserve", "commit", "transition"} => c.id \in Intents
    PROVE  TypeOK' /\ PhaseOK'
<1>1. preparing' \in BOOLEAN /\ residue' \in BOOLEAN
    BY DEF Begin, TypeOK, world
<1>2. TypeOK'
    BY <1>1 DEF TypeOK, Begin, Phases, durable, journal, world, history
<1>3. PhaseOK'
    BY <1>1 DEF PhaseOK, Begin, durable, journal, world, history
<1> QED
    BY <1>2, <1>3

(* Every operation keeps its types and its phase. *)
LEMMA TypingStep ==
    ASSUME TypeOK, PhaseOK, [Next]_vars
    PROVE  TypeOK' /\ PhaseOK'
<1> USE DEF volatile, durable, journal, world, history
<1>1. ASSUME IntentCall \/ TransitionCall \/ PlainCall \/ RecoverCall
      PROVE  TypeOK' /\ PhaseOK'
    <2>1. \A e \in Edges : e[1] \in LedgerStates /\ e[2] \in LedgerStates
        BY DEF Edges, Legal, LedgerStates
    <2>2. residue \in BOOLEAN
        BY DEF TypeOK
    <2>3. CASE IntentCall
        <3>1. PICK i \in Intents, kind \in {"bind", "reserve", "commit"} :
                 Begin(Call(kind, i, "issued", "issued", FALSE, residue))
            BY <2>3 DEF IntentCall
        <3>2. /\ Call(kind, i, "issued", "issued", FALSE, residue) \in CallType
              /\ Call(kind, i, "issued", "issued", FALSE, residue).kind = kind
              /\ Call(kind, i, "issued", "issued", FALSE, residue).id = i
            BY <2>1, <2>2 DEF Call, CallType
        <3> QED
            BY <3>1, <3>2, BeginTypes
    <2>4. CASE TransitionCall
        <3>1. PICK i \in Intents, e \in Edges :
                 Begin(Call("transition", i, e[1], e[2], FALSE, residue))
            BY <2>4 DEF TransitionCall
        <3>2. /\ Call("transition", i, e[1], e[2], FALSE, residue) \in CallType
              /\ Call("transition", i, e[1], e[2], FALSE, residue).kind = "transition"
              /\ Call("transition", i, e[1], e[2], FALSE, residue).id = i
            BY <2>1, <2>2 DEF Call, CallType
        <3> QED
            BY <3>1, <3>2, BeginTypes
    <2>5. CASE PlainCall
        <3>1. PICK kind \in {"observe", "read"} :
                 Begin(Call(kind, NoIntent, "issued", "issued", FALSE, residue))
            BY <2>5 DEF PlainCall
        <3>2. /\ Call(kind, NoIntent, "issued", "issued", FALSE, residue) \in CallType
              /\ Call(kind, NoIntent, "issued", "issued", FALSE, residue).kind = kind
              /\ Call(kind, NoIntent, "issued", "issued", FALSE, residue).id = NoIntent
            BY <2>1, <2>2 DEF Call, CallType
        <3> QED
            BY <3>1, <3>2, BeginTypes
    <2>6. CASE RecoverCall
        <3>1. PICK sweep \in BOOLEAN, reclaim \in {FALSE, residue} :
                 Begin(Call("recover", NoIntent, "issued", "issued", sweep, reclaim))
            BY <2>6 DEF RecoverCall
        <3>2. /\ Call("recover", NoIntent, "issued", "issued", sweep, reclaim) \in CallType
              /\ Call("recover", NoIntent, "issued", "issued", sweep, reclaim).kind = "recover"
              /\ Call("recover", NoIntent, "issued", "issued", sweep, reclaim).id = NoIntent
            BY <2>1, <2>2 DEF Call, CallType
        <3> QED
            BY <3>1, <3>2, BeginTypes
    <2> QED
        BY <1>1, <2>3, <2>4, <2>5, <2>6
<1>2. ASSUME Return PROVE TypeOK' /\ PhaseOK'
    <2>1. TypeOK'
        <3>1. residue' \in BOOLEAN /\ preparing' \in BOOLEAN
            BY <1>2, Zenon DEF TypeOK, Return, Released
        <3> QED
            BY <1>2, <3>1, NoCallType
               DEF TypeOK, PhaseOK, Return, Released, Phases, Replies, Verdicts
    <2>2. PhaseOK'
        BY <1>2, NoCallType DEF PhaseOK, Return, Released
    <2> QED
        BY <2>1, <2>2
<1>3. ASSUME WriteClaim PROVE TypeOK' /\ PhaseOK'
    <2>1. \A i : Verdict(i)' = Verdict(i)
        BY <1>3, SameJournal DEF WriteClaim
    <2>2. txn \in Intents /\ \A d \in Wanted(txn) : Claim(d, txn) \in Claims
        BY <1>3, AssignmentType DEF WriteClaim, PhaseOK
    <2> QED
        BY <1>3, <2>1, <2>2
           DEF TypeOK, PhaseOK, WriteClaim, Missing, Reply, Goto, Phases, Replies
<1>4. ASSUME AppendReserve PROVE TypeOK' /\ PhaseOK'
    <2>1. txn \in Intents /\ Assignment(txn) \in [LimitKeys -> Nat \cup {NoIndex}]
        BY <1>4, AssignmentType DEF AppendReserve, PhaseOK
    <2> QED
        BY <1>4, <2>1 DEF TypeOK, PhaseOK, AppendReserve, Resolved, Reply, Goto, Phases,
                           Replies, LedgerStates
<1>5. ASSUME Unlink PROVE TypeOK' /\ PhaseOK'
    BY <1>5 DEF TypeOK, PhaseOK, Unlink, Resolved, Reply, Goto, Phases, Replies, Verdicts,
                Reasons
<1>6. ASSUME NEW i \in Intents, RecoverPending(i) PROVE TypeOK' /\ PhaseOK'
    BY <1>6, DecideTypes DEF RecoverPending, PhaseOK
<1>7. ASSUME NEW i \in Intents, Sweep(i) PROVE TypeOK' /\ PhaseOK'
    BY <1>7 DEF TypeOK, PhaseOK, Sweep, Swept, LedgerStates
<1>8. ASSUME Recovered PROVE TypeOK' /\ PhaseOK'
    BY <1>8 DEF TypeOK, PhaseOK, Recovered, Goto, Phases
<1>9. ASSUME RefuseCorruption PROVE TypeOK' /\ PhaseOK'
    BY <1>9 DEF TypeOK, PhaseOK, RefuseCorruption, Reply, Phases, Replies
<1>10. ASSUME EndSweep PROVE TypeOK' /\ PhaseOK'
    BY <1>10 DEF TypeOK, PhaseOK, EndSweep, Phases
<1>11. ASSUME BindIngress PROVE TypeOK' /\ PhaseOK'
    BY <1>11, IntentAssumption
       DEF TypeOK, PhaseOK, BindIngress, Running, Reply, Phases, Replies, Verdicts, Reasons
<1>12. ASSUME Read PROVE TypeOK' /\ PhaseOK'
    BY <1>12 DEF TypeOK, PhaseOK, Read, Running, Reply, Phases, Replies
<1>13. ASSUME WriteAhead PROVE TypeOK' /\ PhaseOK'
    BY <1>13 DEF TypeOK, PhaseOK, WriteAhead, Reply, Goto, Phases, Replies, Verdicts
<1>14. ASSUME DecideReserve PROVE TypeOK' /\ PhaseOK'
    <2>1. CASE tombstone[call.id] # "none"
        BY <1>14, <2>1
           DEF TypeOK, PhaseOK, DecideReserve, Reply, Phases, Replies, Verdicts, Reasons
    <2>2. CASE tombstone[call.id] = "none"
        BY <1>14, <2>2, DecideTypes DEF DecideReserve, PhaseOK
    <2> QED
        BY <2>1, <2>2
<1>15. ASSUME NEW now \in Times, ObserveClock(now) PROVE TypeOK' /\ PhaseOK'
    BY <1>15 DEF TypeOK, PhaseOK, ObserveClock, Running, Reply, Phases, Replies
<1>16. ASSUME NEW now \in Times, ReserveClock(now) PROVE TypeOK' /\ PhaseOK'
    BY <1>16 DEF TypeOK, PhaseOK, ReserveClock, PersistClock, Running, Reply, Goto, Phases,
                 Replies
<1>17. ASSUME NEW now \in Times, TransitionClock(now) PROVE TypeOK' /\ PhaseOK'
    BY <1>17 DEF TypeOK, PhaseOK, TransitionClock, TransitionAllowed, PersistClock, Running, Reply, Goto, Phases,
                 Replies
<1>18. ASSUME NEW now \in Times, NEW bound \in BOOLEAN, CommitClock(now, bound)
       PROVE  TypeOK' /\ PhaseOK'
    BY <1>18 DEF TypeOK, PhaseOK, CommitClock, PersistClock, Running, Reply, Goto, Phases,
                 Replies
<1>19. ASSUME AppendTransition PROVE TypeOK' /\ PhaseOK'
    BY <1>19 DEF TypeOK, PhaseOK, AppendTransition, Reply, Phases, Replies, CallType,
                 LedgerStates
<1>20. ASSUME AppendDispatched PROVE TypeOK' /\ PhaseOK'
    BY <1>20 DEF TypeOK, PhaseOK, AppendDispatched, Goto, Phases, LedgerStates
<1>21. ASSUME AppendSendStarted PROVE TypeOK' /\ PhaseOK'
    BY <1>21 DEF TypeOK, PhaseOK, AppendSendStarted, Reply, Phases, Replies
<1>22. ASSUME Interrupted, residue' \in BOOLEAN PROVE TypeOK' /\ PhaseOK'
    <2>1. Writing \in SUBSET {"ingress", "ledger"}
        BY DEF Writing
    <2> QED
        <3>1. TypeOK'
            <4>1. preparing' \in BOOLEAN
                BY <1>22, Zenon DEF Interrupted, Released
            <4> QED
                BY <1>22, <2>1, <4>1, NoCallType
                   DEF TypeOK, Interrupted, Released, Phases, Replies, Verdicts
        <3>2. PhaseOK'
            BY <1>22, NoCallType DEF PhaseOK, Interrupted, Released
        <3> QED
            BY <3>1, <3>2
<1>23. ASSUME Crash PROVE TypeOK' /\ PhaseOK'
    BY <1>22, <1>23 DEF Crash, TypeOK
<1>24. ASSUME IoFailure PROVE TypeOK' /\ PhaseOK'
    BY <1>22, <1>24 DEF IoFailure, TypeOK
<1>25. ASSUME UNCHANGED vars PROVE TypeOK' /\ PhaseOK'
    BY <1>25, SameJournal DEF TypeOK, PhaseOK, vars
<1> QED
    BY <1>1, <1>2, <1>3, <1>4, <1>5, <1>6, <1>7, <1>8, <1>9, <1>10, <1>11, <1>12, <1>13, <1>14,
       <1>15, <1>16, <1>17, <1>18, <1>19, <1>20, <1>21, <1>23, <1>24, <1>25 DEF Next, Step

(* An empty ledger is typed and in no phase. *)
LEMMA TypingInit == Init => TypeOK /\ PhaseOK
<1>1. Init => TypeOK
    <2>1. Init => residue \in BOOLEAN /\ preparing \in BOOLEAN
        BY Zenon DEF Init
    <2> QED
        BY <2>1, NoCallType DEF Init, TypeOK, Phases, Replies, Verdicts, NoTime, NoIndex
<1>2. Init => PhaseOK
    BY NoCallType DEF Init, PhaseOK
<1> QED
    BY <1>1, <1>2

(* The typing invariant, with the phase facts it needs to be inductive. *)
LEMMA TypingInductive == Spec => [](TypeOK /\ PhaseOK)
<1>1. TypeOK /\ PhaseOK /\ [Next]_vars => TypeOK' /\ PhaseOK'
    BY TypingStep
<1> QED
    BY <1>1, TypingInit, PTL DEF Spec

(* Every variable keeps its type in every reachable state: no crash, recovery   *)
(* or refused call makes the ledger hold a record its code does not know.       *)
THEOREM Typing == Spec => []TypeOK
    BY TypingInductive, PTL

-----------------------------------------------------------------------------
(***************************************************************************)
(* Why no crash can make the ledger commit a duplicate, overdraw a limit or  *)
(* call its own leftovers corrupt.  The argument: at most one transaction is *)
(* ever undecided; a claim belongs to a committed reservation or to that one *)
(* transaction, and then its verdict is still to commit; and the verdict     *)
(* depends only on what is committed, which nothing changes in between.      *)
(***************************************************************************)

OnePending == \A i, j \in Pending : i = j

(* Every claim file has an owner that will never be denied it. *)
ClaimOwners ==
    \A c \in claims :
        \/ c.owner \in Committed /\ c.descriptor \in Descriptors(c.owner, index[c.owner])
        \/ /\ c.owner \in Pending /\ Verdict(c.owner) = "commit"
           /\ c.descriptor \in Wanted(c.owner)

(* What holds of the stores at every instant, whoever crashed and wherever. *)
StoreInv ==
    /\ RecordsConsistent /\ OnePending /\ ClaimOwners
    /\ UniqueReservations /\ LimitCapacity

(* What the operation holding the lock knows about the stores. *)
HolderInv ==
    /\ pc \in {"sweep", "writeahead", "append", "marker"} => Pending = {}
    /\ pc = "body" /\ call.kind # "bind" => Pending = {}
    /\ pc = "claim" => txn \in Pending
    /\ pc = "unlink" => tombstone[txn] # "none"
    /\ pc \in {"writeahead", "decide"} => IngressLinked(call.id)
    /\ pc = "decide" =>
          call.id \in transactions \ Committed /\ Pending \subseteq {call.id}
    /\ NoSpuriousCorruption

IInv == TypeOK /\ PhaseOK /\ StoreInv /\ HolderInv

-----------------------------------------------------------------------------
(* A step that neither writes a record nor commits leaves the stores as they    *)
(* were: sweeping and transitions move reservations, never in or out.           *)
LEMMA StoreFrame ==
    ASSUME TypeOK, TypeOK', StoreInv, Committed' = Committed,
           UNCHANGED <<ingress, transactions, tombstone, claims, index>>
    PROVE  StoreInv' /\ Pending' = Pending
<1>1. \A i : Verdict(i)' = Verdict(i) /\ Wanted(i)' = Wanted(i)
    BY StableView
<1>2. \A i \in Intents : (state'[i] = "issued") <=> (state[i] = "issued")
    BY DEF Committed
<1>3. Pending' = Pending
    BY <1>2 DEF Pending, TypeOK
<1>4. RecordsConsistent' /\ OnePending'
    BY <1>2, <1>3 DEF StoreInv, RecordsConsistent, OnePending, SameIngress, IngressLinked
<1>5. ClaimOwners'
    BY <1>1, <1>3 DEF StoreInv, ClaimOwners, Descriptors, SlotKeys
<1>6. UniqueReservations'
    BY DEF StoreInv, UniqueReservations, DistinctReservations, ClaimsHeld, Descriptors, SlotKeys
<1>7. LimitCapacity'
    BY DEF StoreInv, LimitCapacity, DistinctIndices, NoGap, WithinMaxima, Holders, SlotKeys
<1> QED
    BY <1>3, <1>4, <1>5, <1>6, <1>7 DEF StoreInv

(* A claim the committing transaction is missing is in nobody's name: it shares *)
(* no identity and no slot index with a committed reservation.                  *)
LEMMA MissingIsUnclaimed ==
    ASSUME TypeOK, StoreInv, NEW i \in Pending, Verdict(i) = "commit",
           NEW d \in Missing(i), NEW c \in claims
    PROVE  c.descriptor # d
<1> SUFFICES ASSUME c.descriptor = d PROVE FALSE
    OBVIOUS
<1>1. i \in Intents /\ d \in Wanted(i) /\ Claim(d, i) \notin claims
    BY DEF Pending, TypeOK, Missing
<1>2. c = Claim(c.descriptor, c.owner)
    BY DEF TypeOK, Claims, Claim
<1>3. CASE c.owner \in Pending
    BY <1>1, <1>2, <1>3 DEF StoreInv, OnePending
<1>4. CASE c.owner \in Committed /\ d \in Descriptors(c.owner, index[c.owner])
    <2> DEFINE j == c.owner
    <2>1. SameIngress(i) = {} /\ SameOutcome(i) = {} /\ SameCapability(i) = {}
        BY CommitVerdict
    <2>2. CASE d.kind # "limit"
        BY <1>1, <1>4, <2>1, <2>2
           DEF Wanted, Descriptors, Descriptor, SameIngress, SameOutcome, SameCapability
    <2>3. CASE d.kind = "limit"
        <3>1. PICK k \in SlotKeys(i) : d = Descriptor("limit", k, Assignment(i)[k])
            BY <1>1, <2>3 DEF Wanted, Descriptors, Descriptor
        <3>2. PICK q \in SlotKeys(j) : d = Descriptor("limit", q, index[j][q])
            BY <1>4, <2>3 DEF Descriptors, Descriptor
        <3>3. k = q /\ Assignment(i)[k] = index[j][k]
            BY <3>1, <3>2 DEF Descriptor
        <3>4. IsFree(i, k, FirstFree(i, k))
            BY <1>1, CommitVerdict, FirstFreeIsLeast
        <3>5. k \in LimitKeys /\ Assignment(i)[k] = FirstFree(i, k)
            BY <1>1, IntentAssumption DEF Assignment, SlotKeys
        <3>6. j \in Holders(k)
            BY <1>4, <3>2, <3>3 DEF Holders
        <3> QED
            BY <3>3, <3>4, <3>5, <3>6 DEF IsFree
    <2> QED
        BY <2>2, <2>3
<1> QED
    BY <1>3, <1>4 DEF StoreInv, ClaimOwners

(* Giving a fresh reservation the least free index keeps every limit: below it   *)
(* all indices are taken, so no earlier holder can sit above it.                 *)
LEMMA CommitKeepsLimits ==
    ASSUME TypeOK, LimitCapacity, NEW i \in Intents, Verdict(i) = "commit",
           i \notin Committed, Committed' = Committed \cup {i},
           index' = [index EXCEPT ![i] = Assignment(i)]
    PROVE  LimitCapacity'
<1> SUFFICES ASSUME NEW k \in LimitKeys
             PROVE  DistinctIndices(k)' /\ NoGap(k)' /\ WithinMaxima(k)'
    BY DEF LimitCapacity
<1>1. DistinctIndices(k) /\ NoGap(k) /\ WithinMaxima(k)
    BY DEF LimitCapacity
<1>2. \A j \in Committed : index'[j] = index[j]
    BY DEF TypeOK, Committed
<1>3. Committed \subseteq Intents
    BY DEF Committed
<1>4. CASE k \notin SlotKeys(i)
    <2>1. Holders(k)' = Holders(k)
        BY <1>4 DEF Holders, SlotKeys
    <2> QED
        BY <1>1, <1>2, <2>1 DEF DistinctIndices, NoGap, WithinMaxima, Holders
<1>5. CASE k \in SlotKeys(i)
    <2> DEFINE n == FirstFree(i, k)
    <2>1. /\ n \in Nat /\ IsFree(i, k, n)
          /\ \A m \in 0..(n - 1) : ~IsFree(i, k, m)
        BY <1>5, CommitVerdict, FirstFreeIsLeast
    <2>2. Holders(k)' = Holders(k) \cup {i} /\ index'[i][k] = n
        BY <1>5 DEF Holders, SlotKeys, TypeOK, Assignment
    <2>3. /\ n < Intent[i].slots[k]
          /\ \A j \in Holders(k) : n < Intent[j].slots[k] /\ n # index[j][k]
        BY <2>1 DEF IsFree
    <2>4. \A j \in Holders(k) : index[j][k] \in Nat \cup {NoIndex} /\ j \in Intents
                /\ Intent[j].slots[k] \in Nat
        BY <1>3, IntentAssumption DEF TypeOK, Holders, SlotKeys
    <2>5. \A m \in 0..(n - 1) : \E j \in Holders(k) : index[j][k] = m
        <3> SUFFICES ASSUME NEW m \in 0..(n - 1)
                     PROVE  \E j \in Holders(k) : index[j][k] = m
            OBVIOUS
        <3>1. /\ m \in Nat /\ m < n /\ ~IsFree(i, k, m) /\ Intent[i].slots[k] \in Nat
              /\ m < Intent[i].slots[k]
            BY <2>1, <2>3, <1>5, IntentAssumption DEF SlotKeys
        <3>2. PICK j \in Holders(k) : ~(m < Intent[j].slots[k] /\ m # index[j][k])
            BY <3>1 DEF IsFree
        <3> QED
            BY <2>1, <2>3, <2>4, <3>1, <3>2
    <2>6. \A j \in Holders(k) : index[j][k] < n
        <3> SUFFICES ASSUME NEW j \in Holders(k), ~(index[j][k] < n) PROVE FALSE
            OBVIOUS
        <3>1. index[j][k] \in Nat /\ n < index[j][k]
            BY <2>1, <2>3, <2>4 DEF NoIndex
        <3>2. n \in 0..(index[j][k] - 1)
            BY <2>1, <3>1
        <3> QED
            BY <1>1, <2>3, <3>2 DEF NoGap
    <2>7. DistinctIndices(k)'
        BY <1>1, <1>2, <2>2, <2>3 DEF DistinctIndices, Holders
    <2>8. NoGap(k)'
        BY <1>1, <1>2, <2>2, <2>5 DEF NoGap, Holders
    <2>9. WithinMaxima(k)'
        <3> SUFFICES ASSUME NEW j \in Holders(k) \cup {i}, NEW l \in Holders(k) \cup {i},
                            index'[l][k] <= index'[j][k]
                     PROVE  index'[j][k] < Intent[l].slots[k]
            BY <2>2 DEF WithinMaxima
        <3>1. \A h \in Holders(k) : index'[h][k] = index[h][k]
            BY <1>2 DEF Holders
        <3> QED
            BY <1>1, <2>1, <2>2, <2>3, <2>4, <2>6, <3>1 DEF WithinMaxima, NoIndex
    <2> QED
        BY <2>7, <2>8, <2>9
<1> QED
    BY <1>4, <1>5
-----------------------------------------------------------------------------
(* The steps that write a record. *)

(* Deciding a pending transaction either refuses it for good or lets it go on   *)
(* to its claims.                                                               *)
LEMMA DecideStep ==
    ASSUME TypeOK, TypeOK', StoreInv, NEW i \in Pending, Decide(i)
    PROVE  /\ StoreInv'
           /\ pc' = "claim" => txn' \in Pending'
           /\ pc' = "unlink" => tombstone'[txn'] # "none"
<1> USE DEF journal
<1>1. i \in Intents /\ i \in transactions /\ i \notin Committed /\ tombstone[i] = "none"
    BY DEF Pending, TypeOK, Committed
<1>2. Committed' = Committed /\ \A j : Verdict(j)' = Verdict(j) /\ Wanted(j)' = Wanted(j)
    BY StableView DEF Decide, Committed
<1>3. CASE Verdict(i) = "commit"
    <2>1. UNCHANGED <<ingress, transactions, tombstone, claims, index>> /\ txn' = i
        BY <1>3 DEF Decide
    <2>2. pc' = "claim"
        BY <1>3 DEF Decide
    <2> QED
        BY <1>2, <2>1, <2>2, StoreFrame
<1>4. CASE Verdict(i) # "commit"
    <2>1. /\ tombstone' = [tombstone EXCEPT ![i] = Verdict(i)]
          /\ pc' = "unlink" /\ txn' = i
          /\ UNCHANGED <<ingress, transactions, claims, state, index>>
        BY <1>4 DEF Decide
    <2>2. Verdict(i) # "none" /\ (Verdict(i) = "existing" => SameIngress(i) # {})
        BY DEF Verdict
    <2>3. tombstone'[i] = Verdict(i) /\ \A j \in Intents \ {i} : tombstone'[j] = tombstone[j]
        BY <1>1, <2>1 DEF TypeOK
    <2>4. Pending' = Pending \ {i}
        BY <1>1, <2>1, <2>2, <2>3 DEF Pending, TypeOK
    <2>5. RecordsConsistent'
        BY <1>1, <1>2, <2>1, <2>2, <2>3
           DEF StoreInv, RecordsConsistent, SameIngress, IngressLinked, Committed
    <2>6. OnePending'
        BY <2>4 DEF StoreInv, OnePending
    <2>7. \A c \in claims : c.owner # i
        BY <1>1, <1>4 DEF StoreInv, ClaimOwners
    <2>8. ClaimOwners'
        BY <1>2, <2>1, <2>4, <2>7 DEF StoreInv, ClaimOwners, Descriptors, SlotKeys
    <2>9. UniqueReservations' /\ LimitCapacity'
        BY <1>2, <2>1 DEF StoreInv, UniqueReservations, DistinctReservations, ClaimsHeld,
            Descriptors, SlotKeys, LimitCapacity, DistinctIndices, NoGap, WithinMaxima, Holders
    <2> QED
        BY <1>1, <2>1, <2>2, <2>3, <2>5, <2>6, <2>8, <2>9 DEF StoreInv
<1> QED
    BY <1>3, <1>4

(* A claim is written without ever finding another owner's file. *)
LEMMA WriteClaimStep ==
    ASSUME TypeOK, TypeOK', StoreInv, txn \in Pending, Verdict(txn) = "commit", WriteClaim
    PROVE  StoreInv' /\ Pending' = Pending /\ pc' = "claim" /\ UNCHANGED <<txn, reply>>
<1> USE DEF journal
<1>1. PICK d \in Missing(txn) :
          IF \E c \in claims : c.descriptor = d
          THEN Reply("corruption") /\ UNCHANGED claims
          ELSE claims' = claims \cup {Claim(d, txn)} /\ Goto("claim")
    BY DEF WriteClaim
<1>2. claims' = claims \cup {Claim(d, txn)} /\ Goto("claim")
    BY <1>1, MissingIsUnclaimed
<1>3. UNCHANGED <<ingress, transactions, tombstone, state, index>>
    BY DEF WriteClaim
<1>4. Committed' = Committed /\ \A j : Verdict(j)' = Verdict(j) /\ Wanted(j)' = Wanted(j)
    BY <1>3, StableView DEF Committed
<1>5. Pending' = Pending
    BY <1>3 DEF Pending
<1>6. RecordsConsistent' /\ OnePending' /\ LimitCapacity'
    BY <1>3, <1>4, <1>5 DEF StoreInv, RecordsConsistent, OnePending, SameIngress, IngressLinked,
        LimitCapacity, DistinctIndices, NoGap, WithinMaxima, Holders, SlotKeys
<1>7. ClaimOwners'
    <2>1. Claim(d, txn).owner = txn /\ Claim(d, txn).descriptor = d /\ d \in Wanted(txn)
        BY DEF Claim, Missing
    <2> QED
        BY <1>2, <1>3, <1>4, <1>5, <2>1 DEF StoreInv, ClaimOwners, Descriptors, SlotKeys
<1>8. UniqueReservations'
    BY <1>2, <1>3, <1>4 DEF StoreInv, UniqueReservations, DistinctReservations, ClaimsHeld,
        Descriptors, SlotKeys
<1> QED
    BY <1>2, <1>5, <1>6, <1>7, <1>8 DEF StoreInv, Goto

(* The commit marker: the transaction becomes a reservation, with all of its    *)
(* claims and the least free indices.                                           *)
LEMMA AppendReserveStep ==
    ASSUME TypeOK, TypeOK', StoreInv, txn \in Pending, Verdict(txn) = "commit", AppendReserve
    PROVE  StoreInv' /\ Pending' = {}
<1>1. txn \in Intents /\ txn \in transactions /\ txn \notin Committed /\ tombstone[txn] = "none"
    BY DEF Pending, TypeOK, Committed
<1>2. /\ state' = [state EXCEPT ![txn] = "reserved"]
      /\ index' = [index EXCEPT ![txn] = Assignment(txn)]
      /\ Missing(txn) = {}
      /\ UNCHANGED <<ingress, transactions, tombstone, claims>>
    BY DEF AppendReserve
<1>3. Committed' = Committed \cup {txn} /\ Committed \subseteq Intents
    BY <1>1, <1>2 DEF Committed, TypeOK
<1>4. Pending' = {}
    BY <1>1, <1>2 DEF StoreInv, OnePending, Pending, TypeOK
<1>5. index'[txn] = Assignment(txn) /\ \A j \in Committed : index'[j] = index[j]
    BY <1>1, <1>2, <1>3 DEF TypeOK
<1>6. RecordsConsistent'
    <2>1. \A j \in Intents : j # txn => state'[j] = state[j]
        BY <1>1, <1>2 DEF TypeOK
    <2> QED
        BY <1>1, <1>2, <1>3, <2>1 DEF StoreInv, RecordsConsistent, SameIngress, IngressLinked
<1>7. \A j : j = txn => Descriptors(j, index[j])' = Wanted(j)
    BY <1>5 DEF Wanted, Descriptors, SlotKeys, Descriptor
<1>8. \A j \in Committed : Descriptors(j, index[j])' = Descriptors(j, index[j])
    BY <1>5 DEF Descriptors, SlotKeys, Descriptor
<1>9. ClaimOwners'
    BY <1>1, <1>2, <1>3, <1>7, <1>8 DEF StoreInv, ClaimOwners, OnePending
<1>10. ClaimsHeld'
    BY <1>2, <1>3, <1>7, <1>8 DEF StoreInv, UniqueReservations, ClaimsHeld, Missing
<1>11. DistinctReservations'
    BY <1>3, CommitVerdict
       DEF StoreInv, UniqueReservations, DistinctReservations, SameIngress, SameOutcome,
           SameCapability
<1>12. LimitCapacity'
    BY <1>1, <1>2, <1>3, CommitKeepsLimits DEF StoreInv
<1> QED
    BY <1>4, <1>6, <1>9, <1>10, <1>11, <1>12 DEF StoreInv, OnePending, UniqueReservations

(* A refused transaction holds no claim to drop. *)
LEMMA UnlinkNothing ==
    ASSUME TypeOK, StoreInv, NEW i \in Intents, tombstone[i] # "none"
    PROVE  OwnClaims(i) = {}
<1>1. i \notin Committed /\ i \notin Pending
    BY DEF StoreInv, RecordsConsistent, Committed, Pending
<1> QED
    BY <1>1 DEF OwnClaims, StoreInv, ClaimOwners

(* Between its clock and its decision, a reserve call writes its transaction. *)
LEMMA WriteAheadStep ==
    ASSUME TypeOK, TypeOK', StoreInv, Pending = {}, call.id \in Intents,
           IngressLinked(call.id), WriteAhead
    PROVE  /\ StoreInv' /\ Pending' \subseteq {call.id}
           /\ pc' = "decide" => call.id \in transactions' \ Committed'
<1> USE DEF journal
<1>1. CASE call.id \in Committed
    <2>1. UNCHANGED <<ingress, transactions, tombstone, claims, index, state>> /\ pc' = "reply"
        BY <1>1 DEF WriteAhead, Reply
    <2> QED
        BY <2>1, StoreFrame DEF Committed
<1>2. CASE call.id \notin Committed
    <2>1. /\ transactions' = transactions \cup {call.id}
          /\ UNCHANGED <<ingress, tombstone, claims, index, state>>
        BY <1>2 DEF WriteAhead
    <2>2. Committed' = Committed /\ \A j : Verdict(j)' = Verdict(j) /\ Wanted(j)' = Wanted(j)
        BY <2>1, StableView DEF Committed
    <2>3. Pending' \subseteq {call.id}
        BY <2>1 DEF Pending
    <2>4. RecordsConsistent' /\ OnePending'
        BY <2>1, <2>2, <2>3
           DEF StoreInv, RecordsConsistent, OnePending, SameIngress, IngressLinked
    <2>5. ClaimOwners'
        BY <2>1, <2>2 DEF StoreInv, ClaimOwners, Descriptors, SlotKeys
    <2>6. UniqueReservations' /\ LimitCapacity'
        BY <2>1, <2>2 DEF StoreInv, UniqueReservations, DistinctReservations, ClaimsHeld,
            Descriptors, SlotKeys, LimitCapacity, DistinctIndices, NoGap, WithinMaxima, Holders
    <2> QED
        BY <1>2, <2>1, <2>2, <2>3, <2>4, <2>5, <2>6 DEF StoreInv
<1> QED
    BY <1>1, <1>2

(* Binding an ingress key never unlinks a transaction from its request. *)
LEMMA BindStep ==
    ASSUME TypeOK, TypeOK', StoreInv, call.id \in Intents, BindIngress
    PROVE  StoreInv'
<1> USE DEF journal
<1>1. UNCHANGED <<transactions, tombstone, claims, state, index>>
    BY DEF BindIngress
<1>2. Committed' = Committed /\ Pending' = Pending
        /\ \A j : Verdict(j)' = Verdict(j) /\ Wanted(j)' = Wanted(j)
    BY <1>1, StableView DEF Committed, Pending
<1>3. \A i \in Intents : IngressLinked(i) => IngressLinked(i)'
    BY IntentAssumption DEF BindIngress, IngressLinked, TypeOK
<1>4. RecordsConsistent' /\ OnePending'
    BY <1>1, <1>2, <1>3 DEF StoreInv, RecordsConsistent, OnePending, SameIngress, TypeOK
<1>5. ClaimOwners' /\ UniqueReservations' /\ LimitCapacity'
    BY <1>1, <1>2 DEF StoreInv, ClaimOwners, UniqueReservations, DistinctReservations, ClaimsHeld,
        Descriptors, SlotKeys, LimitCapacity, DistinctIndices, NoGap, WithinMaxima, Holders
<1> QED
    BY <1>4, <1>5 DEF StoreInv

(* With nothing pending, verifyClaims finds what it expects. *)
LEMMA SettledClaims ==
    ASSUME StoreInv, Pending = {}
    PROVE  ClaimsConsistent
    BY DEF StoreInv, ClaimOwners, UniqueReservations, ClaimsHeld, ClaimsConsistent
-----------------------------------------------------------------------------
(* Every step keeps the invariant. *)

(* Every step of an operation, and every crash or failed write between two of   *)
(* them, keeps the store and what the holder of the lock relies on in order.      *)
LEMMA SafetyStep ==
    ASSUME IInv, [Next]_vars
    PROVE  IInv'
<1> USE DEF durable, journal, world, volatile, history
<1>1. /\ TypeOK /\ PhaseOK /\ StoreInv /\ HolderInv
      /\ TypeOK' /\ PhaseOK'
    BY TypingStep DEF IInv
<1> SUFFICES StoreInv' /\ HolderInv'
    BY <1>1 DEF IInv
<1>2. ASSUME IntentCall \/ TransitionCall \/ PlainCall \/ RecoverCall
      PROVE  StoreInv' /\ HolderInv'
    <2>1. PICK c : Begin(c)
        BY <1>2 DEF IntentCall, TransitionCall, PlainCall, RecoverCall
    <2>2. StoreInv' /\ Pending' = Pending
        BY <1>1, <2>1, StoreFrame DEF Begin, Committed
    <2>3. pc' = "recover" \/ (pc' = "body" /\ call'.kind = "bind")
        BY <2>1 DEF Begin
    <2> QED
        BY <1>1, <2>1, <2>2, <2>3 DEF HolderInv, NoSpuriousCorruption, Begin
<1>3. ASSUME Return PROVE StoreInv' /\ HolderInv'
    <2>1. StoreInv' /\ Pending' = Pending
        BY <1>1, <1>3, StoreFrame DEF Return, Committed
    <2> QED
        BY <1>3, <2>1 DEF HolderInv, NoSpuriousCorruption, Return, Released
<1>4. ASSUME WriteClaim PROVE StoreInv' /\ HolderInv'
    <2>1. txn \in Pending /\ Verdict(txn) = "commit" /\ reply = "none"
        BY <1>1, <1>4 DEF WriteClaim, HolderInv, PhaseOK
    <2>2. StoreInv' /\ Pending' = Pending /\ pc' = "claim" /\ UNCHANGED <<txn, reply>>
        BY <1>1, <1>4, <2>1, WriteClaimStep
    <2> QED
        BY <2>1, <2>2 DEF HolderInv, NoSpuriousCorruption
<1>5. ASSUME AppendReserve PROVE StoreInv' /\ HolderInv'
    <2>1. txn \in Pending /\ Verdict(txn) = "commit" /\ reply = "none"
        BY <1>1, <1>5 DEF AppendReserve, HolderInv, PhaseOK
    <2>2. StoreInv' /\ Pending' = {}
        BY <1>1, <1>5, <2>1, AppendReserveStep
    <2>3. pc' \in {"recover", "reply"} /\ reply' # "corruption"
        BY <1>5, <2>1 DEF AppendReserve, Resolved, Reply, Goto
    <2> QED
        BY <2>2, <2>3 DEF HolderInv, NoSpuriousCorruption
<1>6. ASSUME Unlink PROVE StoreInv' /\ HolderInv'
    <2>1. txn \in Intents /\ tombstone[txn] # "none" /\ reply = "none"
        BY <1>1, <1>6 DEF Unlink, HolderInv, PhaseOK
    <2>2. OwnClaims(txn) = {}
        BY <1>1, <2>1, UnlinkNothing
    <2>3. Resolved(tombstone[txn]) /\ UNCHANGED <<claims, ingress, transactions, tombstone, state, index>>
        BY <1>6, <2>2 DEF Unlink
    <2>4. StoreInv' /\ Pending' = Pending
        BY <1>1, <2>3, StoreFrame DEF Committed
    <2>5. tombstone[txn] # "corruption"
        BY <1>1, <2>1 DEF TypeOK, Verdicts, Reasons
    <2>6. pc' \in {"recover", "reply"} /\ reply' # "corruption"
        BY <2>1, <2>3, <2>5 DEF Resolved, Reply, Goto
    <2> QED
        BY <2>4, <2>6 DEF HolderInv, NoSpuriousCorruption
<1>7. ASSUME NEW i \in Intents, RecoverPending(i) PROVE StoreInv' /\ HolderInv'
    <2>1. /\ StoreInv' /\ pc' \in {"claim", "unlink"} /\ reply' = reply
          /\ pc' = "claim" => txn' \in Pending'
          /\ pc' = "unlink" => tombstone'[txn'] # "none"
        BY <1>1, <1>7, DecideStep DEF RecoverPending, Decide
    <2>2. reply = "none"
        BY <1>1, <1>7 DEF RecoverPending, PhaseOK
    <2> QED
        BY <2>1, <2>2 DEF HolderInv, NoSpuriousCorruption
<1>8. ASSUME NEW i \in Intents, Sweep(i) PROVE StoreInv' /\ HolderInv'
    <2>1. Committed' = Committed
        BY <1>1, <1>8 DEF Sweep, Swept, ToSweep, Committed, TypeOK
    <2>2. StoreInv' /\ Pending' = Pending
        BY <1>1, <1>8, <2>1, StoreFrame DEF Sweep
    <2> QED
        BY <1>1, <1>8, <2>2 DEF HolderInv, NoSpuriousCorruption, Sweep
<1>9. ASSUME Recovered PROVE StoreInv' /\ HolderInv'
    <2>1. StoreInv' /\ Pending' = {} /\ reply' = reply /\ pc' \in {"sweep", "body"}
        BY <1>1, <1>9, StoreFrame DEF Recovered, Committed, Goto
    <2>2. reply = "none"
        BY <1>1, <1>9 DEF Recovered, PhaseOK
    <2> QED
        BY <2>1, <2>2 DEF HolderInv, NoSpuriousCorruption
<1>10. ASSUME RefuseCorruption PROVE StoreInv' /\ HolderInv'
    <2>1. torn # {}
        BY <1>1, <1>10, SettledClaims DEF RefuseCorruption, Healthy, StoreInv
    <2>2. StoreInv' /\ torn' # {} /\ pc' = "reply"
        BY <1>1, <1>10, <2>1, StoreFrame DEF RefuseCorruption, Committed, Reply
    <2> QED
        BY <2>2 DEF HolderInv, NoSpuriousCorruption
<1>11. ASSUME EndSweep PROVE StoreInv' /\ HolderInv'
    <2>1. StoreInv' /\ Pending' = Pending
        BY <1>1, <1>11, StoreFrame DEF EndSweep, Committed
    <2> QED
        BY <1>1, <1>11, <2>1 DEF HolderInv, NoSpuriousCorruption, EndSweep
<1>12. ASSUME BindIngress PROVE StoreInv' /\ HolderInv'
    <2>1. StoreInv'
        BY <1>1, <1>12, BindStep DEF BindIngress, Running, PhaseOK
    <2>2. pc' = "reply" /\ (reply' = "corruption" => torn' # {})
        BY <1>12 DEF BindIngress, Reply
    <2> QED
        BY <2>1, <2>2 DEF HolderInv, NoSpuriousCorruption
<1>13. ASSUME Read PROVE StoreInv' /\ HolderInv'
    <2>1. StoreInv'
        BY <1>1, <1>13, StoreFrame DEF Read, Committed
    <2> QED
        BY <1>13, <2>1 DEF HolderInv, NoSpuriousCorruption, Read, Reply
<1>14. ASSUME WriteAhead PROVE StoreInv' /\ HolderInv'
    <2>1. Pending = {} /\ call.id \in Intents /\ IngressLinked(call.id) /\ reply = "none"
        BY <1>1, <1>14 DEF WriteAhead, HolderInv, PhaseOK
    <2>2. /\ StoreInv' /\ Pending' \subseteq {call.id}
          /\ pc' = "decide" => call.id \in transactions' \ Committed'
        BY <1>1, <1>14, <2>1, WriteAheadStep
    <2>3. /\ pc' \in {"reply", "decide"} /\ reply' # "corruption"
          /\ call' = call /\ ingress' = ingress
        BY <1>14, <2>1 DEF WriteAhead, Reply, Goto
    <2> QED
        BY <2>1, <2>2, <2>3 DEF HolderInv, NoSpuriousCorruption, IngressLinked
<1>15. ASSUME DecideReserve PROVE StoreInv' /\ HolderInv'
    <2>1. call.id \in transactions \ Committed /\ reply = "none" /\ call.id \in Intents
        BY <1>1, <1>15 DEF DecideReserve, HolderInv, PhaseOK, TypeOK
    <2>2. CASE tombstone[call.id] # "none"
        <3>1. StoreInv' /\ pc' = "reply" /\ reply' # "corruption"
            BY <1>1, <1>15, <2>1, <2>2, StoreFrame
               DEF DecideReserve, Reply, Committed, TypeOK, Verdicts, Reasons
        <3> QED
            BY <3>1 DEF HolderInv, NoSpuriousCorruption
    <2>3. CASE tombstone[call.id] = "none"
        <3>1. call.id \in Pending
            BY <2>1, <2>3 DEF Pending, Committed
        <3>2. Decide(call.id)
            BY <1>15, <2>3 DEF DecideReserve
        <3>3. /\ StoreInv' /\ pc' \in {"claim", "unlink"} /\ reply' = reply
              /\ pc' = "claim" => txn' \in Pending'
              /\ pc' = "unlink" => tombstone'[txn'] # "none"
            BY <1>1, <3>1, <3>2, DecideStep DEF Decide
        <3> QED
            BY <2>1, <3>3 DEF HolderInv, NoSpuriousCorruption
    <2> QED
        BY <2>2, <2>3
<1>16. ASSUME NEW now \in Times, ObserveClock(now) PROVE StoreInv' /\ HolderInv'
    <2>1. StoreInv' /\ pc' = "reply" /\ reply' # "corruption"
        BY <1>1, <1>16, StoreFrame DEF ObserveClock, Committed, Reply
    <2> QED
        BY <2>1 DEF HolderInv, NoSpuriousCorruption
<1>17. ASSUME NEW now \in Times, ReserveClock(now) PROVE StoreInv' /\ HolderInv'
    <2>1. Pending = {} /\ reply = "none"
        BY <1>1, <1>17 DEF ReserveClock, Running, HolderInv, PhaseOK
    <2>2. StoreInv' /\ Pending' = Pending
        BY <1>1, <1>17, StoreFrame DEF ReserveClock, Committed
    <2>3. /\ pc' = "reply" \/ (pc' = "writeahead" /\ IngressLinked(call.id))
          /\ reply' # "corruption" /\ call' = call /\ ingress' = ingress
        BY <1>17, <2>1 DEF ReserveClock, PersistClock, Reply, Goto
    <2> QED
        BY <2>1, <2>2, <2>3 DEF HolderInv, NoSpuriousCorruption, IngressLinked
<1>18. ASSUME NEW now \in Times, TransitionClock(now) PROVE StoreInv' /\ HolderInv'
    <2>1. Pending = {} /\ reply = "none"
        BY <1>1, <1>18 DEF TransitionClock, Running, HolderInv, PhaseOK
    <2>2. StoreInv' /\ Pending' = Pending
        BY <1>1, <1>18, StoreFrame DEF TransitionClock, Committed
    <2>3. pc' \in {"reply", "append"} /\ reply' # "corruption"
        BY <1>18, <2>1 DEF TransitionClock, PersistClock, Reply, Goto
    <2> QED
        BY <2>1, <2>2, <2>3 DEF HolderInv, NoSpuriousCorruption
<1>19. ASSUME NEW now \in Times, NEW bound \in BOOLEAN, CommitClock(now, bound)
       PROVE  StoreInv' /\ HolderInv'
    <2>1. Pending = {} /\ reply = "none"
        BY <1>1, <1>19 DEF CommitClock, Running, HolderInv, PhaseOK
    <2>2. StoreInv' /\ Pending' = Pending
        BY <1>1, <1>19, StoreFrame DEF CommitClock, Committed
    <2>3. pc' \in {"reply", "append"} /\ reply' # "corruption"
        BY <1>19, <2>1 DEF CommitClock, PersistClock, Reply, Goto
    <2> QED
        BY <2>1, <2>2, <2>3 DEF HolderInv, NoSpuriousCorruption
<1>20. ASSUME AppendTransition PROVE StoreInv' /\ HolderInv'
    <2>1. Committed' = Committed
        <3>1. state[call.id] # "issued" /\ call.to # "issued"
            BY <1>1, <1>20 DEF AppendTransition, PhaseOK, Legal
        <3> QED
            BY <1>1, <1>20, <3>1 DEF AppendTransition, Committed, TypeOK
    <2>2. StoreInv' /\ pc' = "reply" /\ reply' # "corruption"
        BY <1>1, <1>20, <2>1, StoreFrame DEF AppendTransition, Reply
    <2> QED
        BY <2>2 DEF HolderInv, NoSpuriousCorruption
<1>21. ASSUME AppendDispatched PROVE StoreInv' /\ HolderInv'
    <2>1. Committed' = Committed
        BY <1>1, <1>21 DEF AppendDispatched, PhaseOK, Committed, TypeOK
    <2>2. StoreInv' /\ Pending' = Pending /\ pc' = "marker" /\ reply' = reply
        BY <1>1, <1>21, <2>1, StoreFrame DEF AppendDispatched, Goto
    <2> QED
        BY <1>1, <1>21, <2>2 DEF HolderInv, NoSpuriousCorruption, AppendDispatched, PhaseOK
<1>22. ASSUME AppendSendStarted PROVE StoreInv' /\ HolderInv'
    <2>1. StoreInv' /\ pc' = "reply" /\ reply' # "corruption"
        BY <1>1, <1>22, StoreFrame DEF AppendSendStarted, Committed, Reply
    <2> QED
        BY <2>1 DEF HolderInv, NoSpuriousCorruption
<1>23. ASSUME Crash \/ IoFailure PROVE StoreInv' /\ HolderInv'
    <2>1. StoreInv' /\ Pending' = Pending
        BY <1>1, <1>23, StoreFrame DEF Crash, IoFailure, Interrupted, Committed
    <2> QED
        BY <1>23, <2>1 DEF HolderInv, NoSpuriousCorruption, Crash, IoFailure, Interrupted, Released
<1>24. ASSUME UNCHANGED vars PROVE StoreInv' /\ HolderInv'
    <2>1. StoreInv' /\ Pending' = Pending
        BY <1>1, <1>24, StoreFrame DEF vars, Committed
    <2> QED
        BY <1>1, <1>24, <2>1 DEF HolderInv, NoSpuriousCorruption, vars, Committed, IngressLinked
<1> QED
    BY <1>2, <1>3, <1>4, <1>5, <1>6, <1>7, <1>8, <1>9, <1>10, <1>11, <1>12, <1>13, <1>14, <1>15,
       <1>16, <1>17, <1>18, <1>19, <1>20, <1>21, <1>22, <1>23, <1>24 DEF Next, Step

(* The invariant holds in every reachable state. *)
LEMMA SafetyInductive == Spec => []IInv
<1>1. Init => IInv
    <2>1. Init => TypeOK /\ PhaseOK
        BY TypingInit
    <2>2. Init => Committed = {} /\ Pending = {}
        BY DEF Init, Committed, Pending
    <2>3. Init => StoreInv /\ HolderInv
        BY <2>2
           DEF Init, StoreInv, HolderInv, RecordsConsistent, OnePending, ClaimOwners,
               UniqueReservations, DistinctReservations, ClaimsHeld, LimitCapacity,
               DistinctIndices, NoGap, WithinMaxima, Holders, NoSpuriousCorruption
    <2> QED
        BY <2>1, <2>3 DEF IInv
<1>2. IInv /\ [Next]_vars => IInv'
    BY SafetyStep
<1> QED
    BY <1>1, <1>2, PTL DEF Spec

(* No two committed reservations share a request, an outcome or a capability,   *)
(* and each holds its claim files, whatever the failures.                       *)
THEOREM ReservationsAreUnique == Spec => []UniqueReservations
<1>1. IInv => UniqueReservations
    BY DEF IInv, StoreInv
<1> QED
    BY <1>1, SafetyInductive, PTL

(* No limit key is overdrawn, for any number of requests and any maxima. *)
THEOREM LimitsHold == Spec => []LimitCapacity
<1>1. IInv => LimitCapacity
    BY DEF IInv, StoreInv
<1> QED
    BY <1>1, SafetyInductive, PTL

(* Recovery accepts whatever a crash leaves behind, unless a file is torn. *)
THEOREM LeftoversAreAccepted == Spec => []NoSpuriousCorruption
<1>1. IInv => NoSpuriousCorruption
    BY DEF IInv, HolderInv
<1> QED
    BY <1>1, SafetyInductive, PTL
-----------------------------------------------------------------------------
(* What the ledger's callers may rely on: one permission per reservation, decisions that      *)
(* stand, and that every step of the many-file ledger is a step of the atomic EffectRegistry     *)
(* or none of its business.                                                              *)

(* The states a reservation can be in once a permission to send was given for it. *)
Used == LedgerStates \ {"reserved", "cancelled"}

(* What has been promised so far agrees with the journal, and so does what the     *)
(* operation at work is about to promise.                                        *)
PromisesKept ==
    /\ \A i \in Intents :
          /\ eligible[i] <= 1 /\ (eligible[i] > 0 => state[i] # "issued")
          /\ granted[i] <= 1 /\ (granted[i] > 0 => state[i] \in Used)
    /\ \A i \in sendStarted : state[i] \in Used
PromiseDue ==
    /\ reply = "reserved" => eligible[call.id] = 0 /\ state[call.id] # "issued"
    /\ reply = "granted" => granted[call.id] = 0 /\ state[call.id] \in Used
    /\ pc = "marker" => granted[call.id] = 0 /\ state[call.id] = "dispatched"

(* No record is older than the clock's high-water mark, and a dispatch about to be  *)
(* recorded lies within its capability's lifetime.                                *)
ClockCovers ==
    /\ \A i \in transactions : Intent[i].issuedAt <= hwm
    /\ pc = "writeahead" => Intent[call.id].issuedAt <= hwm
    /\ pc = "append" /\ (call.kind = "commit" \/ call.to = "dispatched") =>
          Intent[call.id].issuedAt <= hwm /\ hwm < ExpiresAt(call.id)

PInv == IInv /\ PromisesKept /\ PromiseDue /\ ClockCovers

-----------------------------------------------------------------------------
(* What a step may do to the journal, by the operation that does it. *)

(* A step that is no decision, no append and no sweep leaves the decisions alone. *)
Quiet == UNCHANGED <<state, index, tombstone, sendStarted>>

(* The steps that change a decision or a lifecycle, with what is known when they do. *)
Commits(i) ==
    /\ i \in Intents /\ state[i] = "issued" /\ tombstone[i] = "none" /\ Verdict(i) = "commit"
    /\ state' = [state EXCEPT ![i] = "reserved"]
    /\ UNCHANGED <<tombstone, sendStarted, hwm, granted, eligible>>
Refuses(i) ==
    /\ i \in Intents /\ state[i] = "issued" /\ tombstone[i] = "none"
    /\ Verdict(i) \notin {"commit", "none"}
    /\ tombstone' = [tombstone EXCEPT ![i] = Verdict(i)]
    /\ UNCHANGED <<state, index, sendStarted, hwm, granted, eligible>>
Dispatches(i) ==
    /\ i \in Intents /\ state[i] = "reserved"
    /\ Intent[i].issuedAt <= hwm /\ hwm < ExpiresAt(i)
    /\ state' = [state EXCEPT ![i] = "dispatched"]
    /\ UNCHANGED <<index, tombstone, sendStarted, hwm, granted, eligible>>
Settles(i) ==
    /\ i \in Intents
    /\ i \notin sendStarted \/ call.kind = "transition"
    /\ \E to \in LedgerStates \ {"dispatched"} :
          /\ <<state[i], to>> \in Legal
          /\ state' = [state EXCEPT ![i] = to]
    /\ UNCHANGED <<index, tombstone, sendStarted, hwm, granted, eligible>>
Starts ==
    /\ pc = "marker" /\ sendStarted' = sendStarted \cup {call.id}
    /\ UNCHANGED <<state, index, tombstone, hwm, granted, eligible>>
Ticks == hwm' >= hwm /\ Quiet /\ UNCHANGED <<granted, eligible>>
Reports == Return /\ Quiet /\ hwm' = hwm

(* Every step is one of these. *)
Moves == \/ Ticks \/ Reports \/ Starts
         \/ \E i \in Intents : Commits(i) \/ Refuses(i) \/ Dispatches(i) \/ Settles(i)

LEMMA RefusingVerdict ==
    ASSUME NEW i PROVE Verdict(i) \in Verdicts \cup {"commit"} /\ Verdict(i) # "none"
    BY DEF Verdict, Verdicts, Reasons

(* Classification of the ledger's steps. *)
LEMMA StepMoves ==
    ASSUME PInv, [Next]_vars
    PROVE  Moves
<1> USE DEF durable, journal, world, volatile, history
<1>1. TypeOK /\ PhaseOK /\ StoreInv /\ HolderInv
    BY DEF PInv, IInv
<1>h. hwm \in Int
    BY <1>1 DEF TypeOK, Times, NoTime
<1>2. ASSUME IntentCall \/ TransitionCall \/ PlainCall \/ RecoverCall PROVE Ticks
    <2>1. PICK c : Begin(c)
        BY <1>2 DEF IntentCall, TransitionCall, PlainCall, RecoverCall
    <2> QED BY <1>h, <2>1 DEF Begin, Ticks, Quiet
<1>3. ASSUME Return PROVE Reports
    BY <1>3 DEF Return, Reports, Quiet
<1>4. ASSUME WriteClaim PROVE Ticks
    BY <1>h, <1>4 DEF WriteClaim, Ticks, Quiet
<1>5. ASSUME AppendReserve PROVE Commits(txn)
    <2>1. txn \in Pending /\ Verdict(txn) = "commit" /\ txn \in Intents
        BY <1>1, <1>5 DEF AppendReserve, HolderInv, PhaseOK
    <2> QED BY <1>5, <2>1 DEF AppendReserve, Commits, Pending
<1>6. ASSUME Unlink PROVE Ticks
    BY <1>h, <1>6 DEF Unlink, Ticks, Quiet
<1>7. ASSUME NEW i \in Pending, Decide(i), UNCHANGED history PROVE Ticks \/ Refuses(i)
    BY <1>h, <1>1, <1>7, RefusingVerdict DEF Decide, Ticks, Quiet, Refuses, Pending, TypeOK
<1>8. ASSUME NEW i \in Intents, RecoverPending(i) PROVE Ticks \/ Refuses(i)
    BY <1>7, <1>8 DEF RecoverPending
<1>9. ASSUME NEW i \in Intents, Sweep(i) PROVE Settles(i)
    <2>1. i \in ToSweep /\ state' = [state EXCEPT ![i] = Swept(i)]
        BY <1>9 DEF Sweep
    <2>2. \/ state[i] = "reserved" /\ Swept(i) = "cancelled"
          \/ state[i] = "dispatched" /\ i \notin sendStarted /\ Swept(i) = "ambiguous"
        BY <2>1 DEF ToSweep, Swept
    <2>3. i \notin sendStarted
        BY <2>2 DEF PInv, PromisesKept, Used
    <2> QED BY <1>9, <2>1, <2>2, <2>3 DEF Sweep, Settles, Legal, LedgerStates
<1>10. ASSUME Recovered \/ RefuseCorruption \/ EndSweep \/ Read PROVE Ticks
    BY <1>h, <1>10 DEF Recovered, RefuseCorruption, EndSweep, Read, Ticks, Quiet
<1>11. ASSUME BindIngress PROVE Ticks
    BY <1>h, <1>11 DEF BindIngress, Ticks, Quiet
<1>12. ASSUME WriteAhead PROVE Ticks
    BY <1>h, <1>12 DEF WriteAhead, Ticks, Quiet
<1>13. ASSUME DecideReserve PROVE Ticks \/ Refuses(call.id)
    <2>1. CASE tombstone[call.id] # "none"
        BY <1>h, <1>13, <2>1 DEF DecideReserve, Ticks, Quiet
    <2>2. CASE tombstone[call.id] = "none"
        <3>1. call.id \in Pending
            BY <1>1, <1>13, <2>2 DEF DecideReserve, HolderInv, TypeOK, Pending, Committed
        <3> QED BY <1>7, <1>13, <2>2, <3>1 DEF DecideReserve
    <2> QED BY <2>1, <2>2
<1>14. ASSUME NEW now \in Times,
              ObserveClock(now) \/ ReserveClock(now) \/ TransitionClock(now)
                \/ \E bound \in BOOLEAN : CommitClock(now, bound)
       PROVE  Ticks
    BY <1>h, <1>14 DEF ObserveClock, ReserveClock, TransitionClock, CommitClock, ValidAt,
        TransitionAllowed, PersistClock, Goto, Reply, Ticks, Quiet, Times
<1>15. ASSUME AppendTransition PROVE Dispatches(call.id) \/ Settles(call.id)
    <2>1. /\ call.id \in Intents /\ state[call.id] = call.from
          /\ <<call.from, call.to>> \in Legal
        BY <1>1, <1>15 DEF AppendTransition, PhaseOK
    <2>2. CASE call.to = "dispatched"
        BY <1>15, <2>1, <2>2 DEF AppendTransition, PInv, ClockCovers, Dispatches, Legal
    <2>3. CASE call.to # "dispatched"
        <3>1. call.to \in LedgerStates \ {"dispatched"}
            BY <2>1, <2>3 DEF Legal, LedgerStates
        <3> QED BY <1>15, <2>1, <3>1 DEF AppendTransition, Settles
    <2> QED BY <2>2, <2>3
<1>16. ASSUME AppendDispatched PROVE Dispatches(call.id)
    BY <1>1, <1>16 DEF AppendDispatched, PhaseOK, PInv, ClockCovers, Dispatches
<1>17. ASSUME AppendSendStarted PROVE Starts
    BY <1>17 DEF AppendSendStarted, Starts
<1>18. ASSUME Crash \/ IoFailure PROVE Ticks
    <2>1. Interrupted
        BY <1>18 DEF Crash, IoFailure
    <2> QED BY <1>h, <2>1 DEF Interrupted, Ticks, Quiet
<1>19. ASSUME UNCHANGED vars PROVE Ticks
    BY <1>h, <1>19 DEF vars, Ticks, Quiet
<1> HIDE DEF durable, journal, world, volatile, history
<1>20. ASSUME NEW i, Commits(i) \/ Refuses(i) \/ Dispatches(i) \/ Settles(i) PROVE Moves
    <2>1. i \in Intents
        BY <1>20 DEF Commits, Refuses, Dispatches, Settles
    <2> QED BY <1>20, <2>1 DEF Moves
<1>21. ASSUME Ticks \/ Reports \/ Starts PROVE Moves
    BY <1>21 DEF Moves
<1>22. CASE Step
    <2>1. CASE \E i \in Intents : RecoverPending(i) \/ Sweep(i)
        BY <1>8, <1>9, <1>20, <1>21, <2>1
    <2>2. CASE AppendReserve \/ DecideReserve \/ AppendTransition \/ AppendDispatched
        BY <1>5, <1>13, <1>15, <1>16, <1>20, <1>21, <2>2
    <2> QED
        BY <1>3, <1>4, <1>6, <1>10, <1>11, <1>12, <1>14, <1>17, <1>21, <1>22, <2>1, <2>2 DEF Step
<1> QED
    BY <1>2, <1>18, <1>19, <1>21, <1>22 DEF Next

-----------------------------------------------------------------------------
(* The invariant holds. *)

(* No step takes a promise back: whatever moves, a permission that was given stays   *)
(* the only one for its reservation, and that reservation stays used.              *)
LEMMA PromisesKeptStep ==
    ASSUME PInv, Moves, TypeOK'
    PROVE  PromisesKept'
<1>1. TypeOK /\ PhaseOK /\ PromisesKept /\ PromiseDue
    BY DEF PInv, IInv
<1>2. CASE Ticks
    BY <1>1, <1>2 DEF Ticks, Quiet, PromisesKept
<1>3. CASE Reports
    <2>1. UNCHANGED <<state, sendStarted>>
        BY <1>3 DEF Reports, Quiet
    <2>2. \A i \in Intents : eligible'[i] <= 1 /\ (eligible'[i] > 0 => state'[i] # "issued")
        BY <1>1, <1>3, <2>1 DEF Reports, Return, PromisesKept, PromiseDue, TypeOK
    <2>3. \A i \in Intents : granted'[i] <= 1 /\ (granted'[i] > 0 => state'[i] \in Used)
        BY <1>1, <1>3, <2>1 DEF Reports, Return, PromisesKept, PromiseDue, TypeOK
    <2> QED BY <1>1, <2>1, <2>2, <2>3 DEF PromisesKept
<1>4. CASE Starts
    BY <1>1, <1>4 DEF Starts, PromisesKept, PromiseDue, Used, LedgerStates
<1>5. ASSUME NEW i \in Intents, NEW s \in LedgerStates, state' = [state EXCEPT ![i] = s],
             UNCHANGED <<sendStarted, granted, eligible>>, state[i] \in Used => s \in Used
      PROVE  PromisesKept'
    <2>1. \A j \in Intents : state[j] \in Used => state'[j] \in Used
        BY <1>1, <1>5 DEF TypeOK
    <2>2. \A j \in Intents : state[j] # "issued" => state'[j] # "issued"
        BY <1>1, <1>5 DEF TypeOK, LedgerStates
    <2> QED BY <1>1, <1>5, <2>1, <2>2 DEF PromisesKept, TypeOK
<1>6. ASSUME NEW i \in Intents, Commits(i) \/ Dispatches(i) PROVE PromisesKept'
    BY <1>5, <1>6 DEF Commits, Dispatches, Used, LedgerStates
<1>7. ASSUME NEW i \in Intents, Refuses(i) PROVE PromisesKept'
    BY <1>1, <1>7 DEF Refuses, PromisesKept
<1>8. ASSUME NEW i \in Intents, Settles(i) PROVE PromisesKept'
    <2>1. PICK to \in LedgerStates \ {"dispatched"} :
              <<state[i], to>> \in Legal /\ state' = [state EXCEPT ![i] = to]
        BY <1>8 DEF Settles
    <2>2. state[i] \in Used => to \in Used
        BY <2>1 DEF Used, Legal, LedgerStates
    <2> QED BY <1>5, <1>8, <2>1, <2>2 DEF Settles
<1> QED
    BY <1>2, <1>3, <1>4, <1>6, <1>7, <1>8 DEF Moves

(* A reply that promises something is prepared by the one step that made it true. *)
LEMMA PromiseDueStep ==
    ASSUME PInv, [Next]_vars
    PROVE  PromiseDue'
<1> USE DEF durable, journal, world, volatile, history
<1>1. TypeOK /\ PhaseOK /\ StoreInv /\ HolderInv /\ PromisesKept /\ PromiseDue
    BY DEF PInv, IInv
<1>q. reply' \notin {"reserved", "granted"} /\ pc' # "marker" => PromiseDue'
    BY DEF PromiseDue
<1>r. pc # "reply" => reply = "none"
    BY <1>1 DEF PhaseOK
<1>2. ASSUME IntentCall \/ TransitionCall \/ PlainCall \/ RecoverCall PROVE PromiseDue'
    <2>1. PICK c : Begin(c)
        BY <1>2 DEF IntentCall, TransitionCall, PlainCall, RecoverCall
    <2> QED BY <1>q, <1>r, <2>1 DEF Begin
<1>3. ASSUME Return PROVE PromiseDue'
    BY <1>q, <1>3 DEF Return, Released
<1>4. ASSUME WriteClaim PROVE PromiseDue'
    BY <1>q, <1>r, <1>4 DEF WriteClaim, Reply, Goto
<1>5. ASSUME AppendReserve PROVE PromiseDue'
    <2>1. txn \in Pending /\ txn \in Intents /\ (~preparing => txn = call.id)
        BY <1>1, <1>5 DEF AppendReserve, HolderInv, PhaseOK
    <2>2. CASE preparing
        BY <1>q, <1>r, <1>5, <2>2 DEF AppendReserve, Resolved, Goto
    <2>3. CASE ~preparing
        <3>1. state[txn] = "issued" /\ eligible[txn] = 0
            BY <1>1, <2>1 DEF Pending, PromisesKept, TypeOK
        <3>2. /\ call' = call /\ pc' = "reply" /\ reply' = "reserved"
              /\ eligible' = eligible /\ state'[txn] = "reserved"
            BY <1>1, <1>5, <2>1, <2>3 DEF AppendReserve, Resolved, Reply, TypeOK
        <3> QED BY <2>1, <2>3, <3>1, <3>2 DEF PromiseDue
    <2> QED BY <2>2, <2>3
<1>6. ASSUME Unlink PROVE PromiseDue'
    <2>1. tombstone[txn] \in Verdicts
        BY <1>1, <1>6 DEF Unlink, PhaseOK, TypeOK
    <2>2. tombstone[txn] \notin {"reserved", "granted"}
        BY <2>1 DEF Verdicts, Reasons
    <2> QED BY <1>q, <1>r, <1>6, <2>2 DEF Unlink, Resolved, Reply, Goto
<1>7. ASSUME NEW i \in Intents, RecoverPending(i) \/ Sweep(i) PROVE PromiseDue'
    BY <1>q, <1>r, <1>7 DEF RecoverPending, Decide, Sweep
<1>8. ASSUME Recovered \/ RefuseCorruption \/ EndSweep \/ Read PROVE PromiseDue'
    BY <1>q, <1>r, <1>8 DEF Recovered, RefuseCorruption, EndSweep, Read, Running, Reply, Goto
<1>9. ASSUME BindIngress \/ WriteAhead PROVE PromiseDue'
    <2>1. reply' \notin {"reserved", "granted"} /\ pc' \in {"reply", "decide"}
        BY <1>r, <1>9 DEF BindIngress, WriteAhead, Running, Reply, Goto
    <2> QED BY <1>q, <2>1
<1>10. ASSUME DecideReserve PROVE PromiseDue'
    <2>1. tombstone[call.id] \notin {"reserved", "granted"}
        BY <1>1, <1>10 DEF DecideReserve, PhaseOK, TypeOK, Verdicts, Reasons
    <2> QED BY <1>q, <1>r, <1>10, <2>1 DEF DecideReserve, Decide, Reply
<1>11. ASSUME NEW now \in Times,
              ObserveClock(now) \/ ReserveClock(now) \/ TransitionClock(now)
                \/ \E bound \in BOOLEAN : CommitClock(now, bound)
       PROVE  PromiseDue'
    BY <1>q, <1>r, <1>11 DEF ObserveClock, ReserveClock, TransitionClock, CommitClock, Running,
        PersistClock, Goto, Reply
<1>12. ASSUME AppendTransition PROVE PromiseDue'
    <2>1. /\ call.id \in Intents /\ state[call.id] = call.from
          /\ <<call.from, call.to>> \in Legal
        BY <1>1, <1>12 DEF AppendTransition, PhaseOK
    <2>2. CASE call.to = "dispatched"
        <3>1. granted[call.id] = 0
            BY <1>1, <2>1, <2>2 DEF PromisesKept, Legal, Used, TypeOK
        <3>2. /\ call' = call /\ pc' = "reply" /\ reply' = "granted"
              /\ granted' = granted /\ state'[call.id] = "dispatched"
            BY <1>1, <1>12, <2>1, <2>2 DEF AppendTransition, Reply, TypeOK
        <3> QED BY <3>1, <3>2 DEF PromiseDue, Used, LedgerStates
    <2>3. CASE call.to # "dispatched"
        BY <1>q, <1>12, <2>3 DEF AppendTransition, Reply
    <2> QED BY <2>2, <2>3
<1>13. ASSUME AppendDispatched PROVE PromiseDue'
    <2>1. call.id \in Intents /\ state[call.id] = "reserved" /\ reply = "none"
        BY <1>1, <1>r, <1>13 DEF AppendDispatched, PhaseOK
    <2>2. granted[call.id] = 0
        BY <1>1, <2>1 DEF PromisesKept, Used, TypeOK
    <2>3. call' = call /\ reply' = "none" /\ granted' = granted /\ state'[call.id] = "dispatched"
        BY <1>1, <1>13, <2>1 DEF AppendDispatched, Goto, TypeOK
    <2> QED BY <2>2, <2>3 DEF PromiseDue
<1>14. ASSUME AppendSendStarted PROVE PromiseDue'
    BY <1>1, <1>14 DEF AppendSendStarted, Reply, PromiseDue, Used, LedgerStates
<1>15. ASSUME Crash \/ IoFailure PROVE PromiseDue'
    <2>1. Interrupted
        BY <1>15 DEF Crash, IoFailure
    <2> QED BY <1>q, <2>1 DEF Interrupted, Released
<1>16. ASSUME UNCHANGED vars PROVE PromiseDue'
    BY <1>1, <1>16 DEF vars, PromiseDue
<1> HIDE DEF durable, journal, world, volatile, history
<1>17. CASE Step
    BY <1>3, <1>4, <1>5, <1>6, <1>7, <1>8, <1>9, <1>10, <1>11, <1>12, <1>13, <1>14, <1>17 DEF Step
<1> QED
    BY <1>2, <1>15, <1>16, <1>17 DEF Next

(* The clock only moves on, and what it is compared with is fixed when it is read. *)
LEMMA ClockCoversStep ==
    ASSUME PInv, [Next]_vars
    PROVE  ClockCovers'
<1> USE DEF durable, journal, world, volatile, history
<1>1. TypeOK /\ PhaseOK /\ StoreInv /\ HolderInv /\ ClockCovers
    BY DEF PInv, IInv
<1>h. hwm \in Int /\ \A i \in transactions : i \in Intents /\ Intent[i].issuedAt \in Int
    BY <1>1, IntentAssumption DEF TypeOK, Times, NoTime
<1>q. ASSUME transactions' = transactions, hwm' \in Int, hwm' >= hwm,
             pc' \notin {"writeahead", "append"}
      PROVE  ClockCovers'
    BY <1>1, <1>h, <1>q DEF ClockCovers
<1>2. ASSUME IntentCall \/ TransitionCall \/ PlainCall \/ RecoverCall PROVE ClockCovers'
    <2>1. PICK c : Begin(c)
        BY <1>2 DEF IntentCall, TransitionCall, PlainCall, RecoverCall
    <2> QED BY <1>q, <1>h, <2>1 DEF Begin
<1>3. ASSUME Return \/ WriteClaim \/ AppendReserve \/ Unlink \/ BindIngress PROVE ClockCovers'
    <2>1. transactions' = transactions /\ hwm' = hwm
        BY <1>3 DEF Return, WriteClaim, AppendReserve, Unlink, BindIngress
    <2>2. pc' \in {"idle", "claim", "unlink", "recover", "reply"}
        BY <1>3 DEF Return, Released, WriteClaim, AppendReserve, Unlink, BindIngress, Resolved,
            Reply, Goto
    <2> QED BY <1>q, <1>h, <2>1, <2>2
<1>4. ASSUME NEW i \in Intents, RecoverPending(i) \/ Sweep(i) PROVE ClockCovers'
    BY <1>q, <1>h, <1>4 DEF RecoverPending, Decide, Sweep
<1>5. ASSUME Recovered \/ RefuseCorruption \/ EndSweep \/ Read PROVE ClockCovers'
    BY <1>q, <1>h, <1>5 DEF Recovered, RefuseCorruption, EndSweep, Read, Running, Reply, Goto
<1>6. ASSUME WriteAhead PROVE ClockCovers'
    <2>1. transactions' \subseteq transactions \cup {call.id} /\ hwm' = hwm
        BY <1>6 DEF WriteAhead
    <2>2. pc' \in {"reply", "decide"} /\ Intent[call.id].issuedAt <= hwm
        BY <1>1, <1>6 DEF WriteAhead, Reply, Goto, ClockCovers
    <2> QED BY <1>1, <2>1, <2>2 DEF ClockCovers
<1>7. ASSUME DecideReserve PROVE ClockCovers'
    BY <1>q, <1>h, <1>7 DEF DecideReserve, Decide, Reply
<1>8. ASSUME NEW now \in Times, ObserveClock(now) PROVE ClockCovers'
    <2>1. hwm' \in Int /\ hwm' >= hwm
        BY <1>h, <1>8 DEF ObserveClock, Times
    <2> QED BY <1>q, <1>8, <2>1 DEF ObserveClock, Reply
<1>9. ASSUME NEW now \in Times, ReserveClock(now) PROVE ClockCovers'
    <2>1. call' = call /\ transactions' = transactions
        BY <1>9 DEF ReserveClock, Reply, PersistClock, Goto
    <2>2. CASE pc' = "reply" /\ hwm' = hwm
        BY <1>q, <1>h, <2>1, <2>2
    <2>3. CASE pc' = "writeahead" /\ hwm' = now /\ ValidAt(call.id, now)
        BY <1>1, <1>h, <2>1, <2>3 DEF ValidAt, ClockCovers, Times
    <2> QED BY <1>9, <2>2, <2>3 DEF ReserveClock, Reply, PersistClock, Goto
<1>10. ASSUME NEW now \in Times, TransitionClock(now) PROVE ClockCovers'
    <2>1. call' = call /\ transactions' = transactions /\ call.kind = "transition"
        BY <1>10 DEF TransitionClock, Running, Reply, PersistClock, Goto
    <2>2. CASE pc' = "reply" /\ hwm' = hwm
        BY <1>q, <1>h, <2>1, <2>2
    <2>3. CASE pc' = "append" /\ hwm' = now /\ TransitionAllowed(now)
        BY <1>1, <1>h, <2>1, <2>3, IntentAssumption
           DEF TransitionAllowed, ClockCovers, Times, PhaseOK
    <2> QED BY <1>10, <2>2, <2>3 DEF TransitionClock, Reply, PersistClock, Goto
<1>11. ASSUME NEW now \in Times, NEW bound \in BOOLEAN, CommitClock(now, bound) PROVE ClockCovers'
    <2>1. call' = call /\ transactions' = transactions /\ call.id \in Intents
        BY <1>1, <1>11 DEF CommitClock, Running, PhaseOK, Reply, PersistClock, Goto
    <2>2. CASE pc' = "reply" /\ hwm' = hwm
        BY <1>q, <1>h, <2>1, <2>2
    <2>3. CASE /\ pc' = "append" /\ hwm' = now /\ state[call.id] = "reserved"
               /\ ~(now >= ExpiresAt(call.id)) /\ ~(now < hwm)
        <3>1. call.id \in transactions
            BY <1>1, <2>1, <2>3 DEF StoreInv, RecordsConsistent, Committed
        <3>2. ExpiresAt(call.id) \in Int
            BY <1>h, <3>1, BoundAssumption DEF ExpiresAt
        <3>3. Intent[call.id].issuedAt <= now /\ now < ExpiresAt(call.id) /\ now >= hwm
            BY <1>1, <1>h, <2>3, <3>1, <3>2 DEF ClockCovers, Times
        <3>4. \A i \in transactions : Intent[i].issuedAt <= now
            BY <1>1, <1>h, <3>3 DEF ClockCovers, Times
        <3> QED BY <2>1, <2>3, <3>3, <3>4 DEF ClockCovers, ExpiresAt
    <2> QED BY <1>11, <2>2, <2>3 DEF CommitClock, Reply, PersistClock, Goto
<1>12. ASSUME AppendTransition \/ AppendDispatched \/ AppendSendStarted PROVE ClockCovers'
    BY <1>q, <1>h, <1>12 DEF AppendTransition, AppendDispatched, AppendSendStarted, Reply, Goto
<1>13. ASSUME Crash \/ IoFailure PROVE ClockCovers'
    <2>1. Interrupted
        BY <1>13 DEF Crash, IoFailure
    <2> QED BY <1>q, <1>h, <2>1 DEF Interrupted, Released
<1>14. ASSUME UNCHANGED vars PROVE ClockCovers'
    BY <1>1, <1>14 DEF vars, ClockCovers, ExpiresAt
<1> HIDE DEF durable, journal, world, volatile, history
<1>15. CASE Step
    BY <1>3, <1>4, <1>5, <1>6, <1>7, <1>8, <1>9, <1>10, <1>11, <1>12, <1>15 DEF Step
<1> QED
    BY <1>2, <1>13, <1>14, <1>15 DEF Next

(* The invariant holds in every reachable state. *)
LEMMA PromisesInductive == Spec => []PInv
<1>1. Init /\ IInv => PInv
    BY DEF Init, PInv, PromisesKept, PromiseDue, ClockCovers
<1>2. PInv /\ [Next]_vars => PInv'
    <2> SUFFICES ASSUME PInv, [Next]_vars PROVE PInv'
        OBVIOUS
    <2>1. IInv' /\ TypeOK'
        BY SafetyStep DEF PInv, IInv
    <2> QED
        BY <2>1, StepMoves, PromisesKeptStep, PromiseDueStep, ClockCoversStep DEF PInv
<1> QED
    BY <1>1, <1>2, SafetyInductive, PTL DEF Spec
-----------------------------------------------------------------------------
(* One request is told once that it may dispatch, one permission to send follows   *)
(* from a reservation, and that reservation never reads as cancelled or reserved    *)
(* again, whatever crashes, restarts and clocks do (reserve, transition and         *)
(* commitPreparedDispatch of fs-ledger.ts).                                        *)
THEOREM PermissionGivenOnce == Spec => []PermissionOnce
<1>1. PInv => PermissionOnce
    <2> SUFFICES ASSUME PInv PROVE PermissionOnce
        OBVIOUS
    <2>1. TypeOK /\ PromisesKept /\ DistinctReservations
        BY DEF PInv, IInv, StoreInv, UniqueReservations
    <2>2. \A i \in Intents : eligible[i] > 0 => i \in Committed
        BY <2>1 DEF PromisesKept, Committed
    <2>3. \A i \in Intents : granted[i] = 1 => state[i] \notin {"issued", "reserved", "cancelled"}
        BY <2>1 DEF PromisesKept, Used, LedgerStates
    <2> QED BY <2>1, <2>2, <2>3 DEF PermissionOnce, PromisesKept, DistinctReservations
<1> QED
    BY <1>1, PromisesInductive, PTL

(* A dispatch with a send-started marker is settled by its own transition alone: no *)
(* sweep of a later process declares it ambiguous.                                *)
THEOREM SweepsSpareStarted == Spec => SweepSparesStarted
<1>1. PInv /\ [Next]_vars => [\A i \in sendStarted : state'[i] # state[i] => call.kind = "transition"]_vars
    <2> SUFFICES ASSUME PInv, [Next]_vars, NEW i \in sendStarted, state'[i] # state[i]
                 PROVE  call.kind = "transition"
        OBVIOUS
    <2>1. state[i] \in Used /\ i \in Intents /\ TypeOK
        BY DEF PInv, PromisesKept, IInv, TypeOK
    <2>2. PICK j \in Intents : Commits(j) \/ Dispatches(j) \/ Settles(j)
        BY StepMoves DEF Moves, Ticks, Reports, Starts, Refuses, Quiet
    <2>3. i = j
        BY <2>1, <2>2 DEF Commits, Dispatches, Settles, TypeOK
    <2> QED BY <2>1, <2>2, <2>3 DEF Commits, Dispatches, Settles, Used, LedgerStates
<1> QED
    BY <1>1, PromisesInductive, PTL DEF Spec, SweepSparesStarted

(* A decision stands: a refused transaction is never committed later, a committed     *)
(* reservation keeps its claim files, the clock's mark never runs back, and a           *)
(* reservation is dispatched only inside its capability's lifetime.                  *)
THEOREM DecisionsAreFinal == Spec => DecisionsStand
<1> DEFINE Stand ==
       /\ \A i \in Intents : state[i] = "reserved" /\ state'[i] = "dispatched" =>
             Intent[i].issuedAt <= hwm' /\ hwm' < ExpiresAt(i)
       /\ \A i \in Intents : tombstone[i] # "none" =>
             tombstone'[i] = tombstone[i] /\ state'[i] = "issued"
       /\ \A c \in claims \ claims' : c.owner \notin Committed
       /\ hwm' >= hwm
<1>1. ASSUME PInv, [Next]_vars PROVE Stand
    <2>1. TypeOK /\ StoreInv /\ hwm \in Int /\ Moves
        BY <1>1, StepMoves DEF PInv, IInv, TypeOK, Times, NoTime
    <2>2. StoreInv' /\ TypeOK'
        BY <1>1, SafetyStep DEF PInv, IInv
    <2>3. ASSUME NEW i \in Intents, state[i] = "reserved", state'[i] = "dispatched"
          PROVE  Intent[i].issuedAt <= hwm' /\ hwm' < ExpiresAt(i)
        <3>1. PICK j \in Intents : Commits(j) \/ Dispatches(j) \/ Settles(j)
            BY <2>1, <2>3 DEF Moves, Ticks, Reports, Starts, Refuses, Quiet
        <3>2. i = j
            BY <2>1, <2>3, <3>1 DEF Commits, Dispatches, Settles, TypeOK
        <3>3. ~Settles(j)
            BY <2>1, <2>3, <3>2 DEF Settles, TypeOK
        <3> QED BY <2>3, <3>1, <3>2, <3>3 DEF Commits, Dispatches
    <2>4. ASSUME NEW i \in Intents, tombstone[i] # "none"
          PROVE  tombstone'[i] = tombstone[i] /\ state'[i] = "issued"
        <3>1. tombstone'[i] = tombstone[i]
            BY <2>1, <2>4
               DEF Moves, Ticks, Reports, Starts, Commits, Refuses, Dispatches, Settles, Quiet, TypeOK
        <3> QED BY <2>2, <2>4, <3>1 DEF StoreInv, RecordsConsistent
    <2>5. ASSUME NEW c \in claims, c \notin claims', c.owner \in Committed PROVE FALSE
        <3>1. Unlink
            BY <1>1, <2>5 DEF Next, Step, IntentCall, TransitionCall, PlainCall, RecoverCall, Begin,
                Return, WriteClaim, AppendReserve, RecoverPending, Decide, Sweep, Recovered,
                RefuseCorruption, EndSweep, BindIngress, Read, WriteAhead, DecideReserve,
                ObserveClock, ReserveClock, TransitionClock, CommitClock, AppendTransition,
                AppendDispatched, AppendSendStarted, Crash, IoFailure, Interrupted, vars, durable
        <3>2. txn \in Intents /\ tombstone[txn] # "none"
            BY <1>1, <3>1 DEF PInv, IInv, PhaseOK, HolderInv, Unlink
        <3> QED BY <2>1, <2>5, <3>1, <3>2, UnlinkNothing DEF Unlink
    <2>6. hwm' >= hwm
        BY <2>1 DEF Moves, Ticks, Reports, Starts, Commits, Refuses, Dispatches, Settles
    <2> QED BY <2>3, <2>4, <2>5, <2>6
<1>2. PInv /\ [Next]_vars => [Stand]_vars
    BY <1>1
<1> QED
    BY <1>2, PromisesInductive, PTL DEF Spec, DecisionsStand
-----------------------------------------------------------------------------
(* The refinement of EffectRegistry. *)

(* The holders of a limit key have the indices 0 to n - 1, for n of them. *)
LEMMA HoldersCount ==
    ASSUME TypeOK, StoreInv, NEW k \in LimitKeys
    PROVE  /\ Cardinality(Holders(k)) \in Nat
           /\ \A n \in Nat : (\E j \in Holders(k) : index[j][k] = n)
                                   <=> n < Cardinality(Holders(k))
<1>1. /\ DistinctIndices(k) /\ NoGap(k) /\ WithinMaxima(k)
      /\ \A j \in Holders(k) : j \in Intents /\ Intent[j].slots[k] \in Nat /\ k \in SlotKeys(j)
    BY IntentAssumption DEF StoreInv, LimitCapacity, Holders, Committed, SlotKeys
<1>2. ASSUME NEW j \in Holders(k) PROVE index[j][k] \in Nat
    <2>1. Claim(Descriptor("limit", k, index[j][k]), j) \in claims
        BY <1>1 DEF StoreInv, UniqueReservations, ClaimsHeld, Descriptors, Holders
    <2> QED BY <2>1 DEF TypeOK, Claims, Claim, Descriptor
<1> DEFINE Open == {n \in Nat : \A j \in Holders(k) : index[j][k] # n}
<1>3. Open # {}
    <2>1. CASE Holders(k) = {}
        BY <2>1
    <2>2. ASSUME NEW i \in Holders(k) PROVE Open # {}
        <3>1. PICK first \in Holders(k) : index[first][k] = 0
            BY <1>1, <1>2, <2>2 DEF NoGap
        <3>2. \A j \in Holders(k) : index[j][k] < Intent[first].slots[k]
            BY <1>1, <1>2, <3>1 DEF WithinMaxima
        <3> QED BY <1>1, <1>2, <3>1, <3>2
    <2> QED BY <2>1, <2>2
<1>4. PICK n \in Open : \A m \in Open : n <= m
    <2> HIDE DEF Open
    <2>1. Open \in SUBSET Nat
        BY DEF Open
    <2> QED BY <1>3, <2>1, LeastElement
<1>5. n \in Nat /\ \A m \in 0..(n - 1) : \E j \in Holders(k) : index[j][k] = m
    BY <1>4
<1>6. \A j \in Holders(k) : index[j][k] < n
    <2> SUFFICES ASSUME NEW j \in Holders(k), ~(index[j][k] < n) PROVE FALSE
        OBVIOUS
    <2>1. n \in 0..(index[j][k] - 1)
        BY <1>2, <1>4
    <2> QED BY <1>1, <1>4, <2>1 DEF NoGap
<1> DEFINE place == [j \in Holders(k) |-> index[j][k]]
<1>7. place \in Bijection(Holders(k), 0..(n - 1))
    <2>1. place \in [Holders(k) -> 0..(n - 1)]
        BY <1>2, <1>5, <1>6
    <2> QED BY <1>1, <1>5, <2>1 DEF Bijection, Injection, Surjection, DistinctIndices, IsInjective
<1>8. IsFiniteSet(0..(n - 1)) /\ Cardinality(0..(n - 1)) = n
    BY <1>5, FS_Interval
<1>9. Cardinality(Holders(k)) = n
    <2> HIDE DEF place
    <2>1. place \in Injection(Holders(k), 0..(n - 1)) /\ place \in Surjection(Holders(k), 0..(n - 1))
        BY <1>7 DEF Bijection
    <2> QED BY <1>8, <2>1, FS_Injection
<1> QED BY <1>2, <1>4, <1>5, <1>6, <1>9

(* The registry holds what is committed, each reservation in its lifecycle state. *)
LEMMA RegistryView ==
    ASSUME TypeOK, StoreInv
    PROVE  /\ Registry!Held = Committed
           /\ \A k \in LimitKeys : Registry!Drawing(k) = Holders(k)
           /\ \A i \in Intents : state[i] = "issued" /\ tombstone[i] = "none" =>
                 RegistryStatus[i] = "undecided"
           /\ \A i \in Intents : state[i] # "issued" => RegistryStatus[i] = state[i]
<1>1. \A i \in Intents : state[i] # "issued" => state[i] \notin {"undecided", "refused"}
    BY DEF TypeOK, LedgerStates
<1>2. Registry!Held = Committed
    BY <1>1 DEF Registry!Held, RegistryStatus, Committed
<1> QED
    BY <1>2 DEF Registry!Drawing, RegistryStatus, Holders, SlotKeys, Committed

(* The rivals of an effect are those that share one of its three identities. *)
LEMMA RegistryRivals ==
    ASSUME TypeOK, StoreInv, NEW i \in Intents
    PROVE  Registry!Rivals(i) = SameIngress(i) \cup SameOutcome(i) \cup SameCapability(i)
<1>1. Registry!Held = Committed /\ Committed \subseteq Intents
    BY RegistryView DEF Committed
<1> DEFINE identities(j) == {<<"ingress", Intent[j].ingress>>, <<"outcome", Intent[j].outcome>>,
                             <<"capability", Intent[j].capability>>}
<1>2. ASSUME NEW j \in Intents
      PROVE  identities(i) \cap identities(j) # {} <=>
                \/ Intent[j].ingress = Intent[i].ingress \/ Intent[j].outcome = Intent[i].outcome
                \/ Intent[j].capability = Intent[i].capability
    <2>1. ASSUME NEW x \in identities(i), x \in identities(j)
          PROVE  \/ Intent[j].ingress = Intent[i].ingress \/ Intent[j].outcome = Intent[i].outcome
                 \/ Intent[j].capability = Intent[i].capability
        BY <2>1, SMT
    <2>2. ASSUME Intent[j].ingress = Intent[i].ingress
          PROVE  <<"ingress", Intent[j].ingress>> \in identities(i) \cap identities(j)
        BY <2>2
    <2>3. ASSUME Intent[j].outcome = Intent[i].outcome
          PROVE  <<"outcome", Intent[j].outcome>> \in identities(i) \cap identities(j)
        BY <2>3
    <2>4. ASSUME Intent[j].capability = Intent[i].capability
          PROVE  <<"capability", Intent[j].capability>> \in identities(i) \cap identities(j)
        BY <2>4
    <2> HIDE DEF identities
    <2> QED BY <2>1, <2>2, <2>3, <2>4
<1>3. Registry!Rivals(i) = {j \in Committed : identities(i) \cap identities(j) # {}}
    BY <1>1 DEF Registry!Rivals
<1> QED
    BY <1>1, <1>2, <1>3 DEF SameIngress, SameOutcome, SameCapability

(* There is room for an effect exactly if each of its limit keys has a free index. *)
LEMMA RegistryRoom ==
    ASSUME TypeOK, StoreInv, NEW i \in Intents
    PROVE  Registry!HasRoom(i) <=> \A k \in SlotKeys(i) : ~Full(i, k)
<1>1. SlotKeys(i) = DOMAIN Intent[i].slots /\ SlotKeys(i) \subseteq LimitKeys
    BY IntentAssumption DEF SlotKeys
<1>2. ASSUME NEW k \in SlotKeys(i)
      PROVE  ~Full(i, k) <=> \A j \in Holders(k) \cup {i} : Cardinality(Holders(k)) < Intent[j].slots[k]
    <2> DEFINE n == Cardinality(Holders(k))
    <2>1. /\ n \in Nat
          /\ \A m \in Nat : (\E j \in Holders(k) : index[j][k] = m) <=> m < n
        BY <1>1, HoldersCount
    <2>2. \A j \in Holders(k) \cup {i} : Intent[j].slots[k] \in Nat
        BY IntentAssumption DEF Holders, Committed, SlotKeys
    <2>3. ASSUME ~Full(i, k), NEW j \in Holders(k) \cup {i} PROVE n < Intent[j].slots[k]
        <3>1. PICK m \in Candidates(i, k) : IsFree(i, k, m)
            BY <2>3 DEF Full
        <3>2. m \in Nat /\ ~(m < n)
            BY <2>1, <2>2, <3>1 DEF Candidates, IsFree
        <3>3. m < Intent[j].slots[k]
            BY <3>1 DEF IsFree
        <3> QED BY <2>1, <2>2, <3>2, <3>3
    <2>4. ASSUME \A j \in Holders(k) \cup {i} : n < Intent[j].slots[k] PROVE ~Full(i, k)
        <3>1. n \in Candidates(i, k)
            BY <2>1, <2>2, <2>4 DEF Candidates
        <3>2. \A j \in Holders(k) : index[j][k] # n
            BY <2>1
        <3>3. IsFree(i, k, n)
            BY <2>4, <3>2 DEF IsFree
        <3> QED BY <3>1, <3>3 DEF Full
    <2> QED BY <2>3, <2>4
<1>3. \A k \in SlotKeys(i) : Registry!Drawing(k) = Holders(k)
    BY <1>1, RegistryView
<1>4. \A S : Registry!Cardinality(S) = Cardinality(S)
    BY DEF Registry!Cardinality, Cardinality
<1>5. \A k \in SlotKeys(i) : \A j \in Holders(k) \cup {i} : j \in Intents
    BY DEF Holders, Committed
<1>6. Registry!HasRoom(i) <=>
        \A k \in SlotKeys(i) : \A j \in Holders(k) \cup {i} :
            Cardinality(Holders(k)) < Intent[j].slots[k]
    <2> DEFINE slots == [j \in Intents |-> Intent[j].slots]
    <2>1. slots[i] = Intent[i].slots
          /\ \A k \in SlotKeys(i) : \A j \in Holders(k) \cup {i} : slots[j] = Intent[j].slots
        BY <1>5
    <2>2. Registry!HasRoom(i) <=>
            \A k \in DOMAIN slots[i] : \A j \in Registry!Drawing(k) \cup {i} :
                Registry!Cardinality(Registry!Drawing(k)) < slots[j][k]
        BY DEF Registry!HasRoom
    <2> HIDE DEF slots
    <2>3. \A k \in SlotKeys(i) : Registry!Cardinality(Registry!Drawing(k)) = Cardinality(Holders(k))
        BY <1>3, <1>4
    <2> QED BY <1>1, <1>3, <2>1, <2>2, <2>3
<1> QED
    BY <1>2, <1>6

(* Every step of the ledger is a step of the registry or leaves it alone. *)
LEMMA RegistryStep ==
    ASSUME PInv, [Next]_vars
    PROVE  [Registry!Next]_<<RegistryStatus, hwm>>
<1>1. TypeOK /\ StoreInv /\ Moves /\ hwm \in Int
    BY StepMoves DEF PInv, IInv, TypeOK, Times, NoTime
<1>2. CASE UNCHANGED <<state, tombstone>>
    <2>1. RegistryStatus' = RegistryStatus
        BY <1>2 DEF RegistryStatus
    <2>2. hwm' = hwm \/ hwm' >= hwm
        BY <1>1 DEF Moves, Ticks, Reports, Starts, Commits, Refuses, Dispatches, Settles
    <2>3. hwm' \in Int
        BY SafetyStep DEF PInv, IInv, TypeOK, Times, NoTime
    <2> QED BY <1>1, <2>1, <2>2, <2>3 DEF Registry!Next, Registry!Observe
<1>3. ASSUME NEW i \in Intents, NEW s \in LedgerStates,
             state' = [state EXCEPT ![i] = s], UNCHANGED tombstone
      PROVE  RegistryStatus' = [RegistryStatus EXCEPT ![i] = s]
    BY <1>1, <1>3 DEF RegistryStatus, TypeOK, LedgerStates
<1>4. ASSUME NEW i \in Intents, Commits(i) PROVE Registry!Reserve(i)
    <2>1. RegistryStatus' = [RegistryStatus EXCEPT ![i] = "reserved"]
        BY <1>3, <1>4 DEF Commits, LedgerStates
    <2>2. Registry!Rivals(i) = {} /\ Registry!HasRoom(i)
        BY <1>1, <1>4, CommitVerdict, RegistryRivals, RegistryRoom DEF Commits
    <2>3. RegistryStatus[i] = "undecided"
        BY <1>1, <1>4, RegistryView DEF Commits
    <2> QED BY <1>4, <2>1, <2>2, <2>3 DEF Registry!Reserve, Commits
<1>5. ASSUME NEW i \in Intents, Refuses(i) PROVE Registry!Refuse(i)
    <2>1. RegistryStatus' = [RegistryStatus EXCEPT ![i] = "refused"]
        BY <1>1, <1>5 DEF Refuses, RegistryStatus, TypeOK
    <2>2. SameIngress(i) \cup SameOutcome(i) \cup SameCapability(i) # {}
            \/ \E k \in SlotKeys(i) : Full(i, k)
        BY <1>5 DEF Refuses, Verdict
    <2>3. Registry!Rivals(i) # {} \/ ~Registry!HasRoom(i)
        BY <1>1, <2>2, RegistryRivals, RegistryRoom
    <2>4. RegistryStatus[i] = "undecided"
        BY <1>1, <1>5, RegistryView DEF Refuses
    <2> QED BY <1>5, <2>1, <2>3, <2>4 DEF Registry!Refuse, Refuses
<1>6. ASSUME NEW i \in Intents, Dispatches(i) PROVE Registry!Dispatch(i)
    <2>1. RegistryStatus' = [RegistryStatus EXCEPT ![i] = "dispatched"]
        BY <1>3, <1>6 DEF Dispatches, LedgerStates
    <2>2. RegistryStatus[i] = "reserved"
        BY <1>1, <1>6, RegistryView DEF Dispatches
    <2> QED BY <1>6, <2>1, <2>2 DEF Registry!Dispatch, Dispatches
<1>7. ASSUME NEW i \in Intents, Settles(i) PROVE Registry!Settle(i)
    <2>1. PICK to \in LedgerStates \ {"dispatched"} :
              <<state[i], to>> \in Legal /\ state' = [state EXCEPT ![i] = to]
        BY <1>7 DEF Settles
    <2>2. RegistryStatus' = [RegistryStatus EXCEPT ![i] = to]
        BY <1>3, <1>7, <2>1 DEF Settles
    <2>3. RegistryStatus[i] = state[i]
        BY <1>1, <1>7, <2>1, RegistryView DEF Legal
    <2> QED BY <1>7, <2>1, <2>2, <2>3 DEF Registry!Settle, Settles, Legal
<1> QED
    BY <1>1, <1>2, <1>4, <1>5, <1>6, <1>7
       DEF Moves, Ticks, Reports, Starts, Quiet, Registry!Next

(* The ledger implements the registry: each of its crash-ridden reservations looks to  *)
(* its callers like one atomic decision, never taken beside a rival or beyond a limit, *)
(* and never reversed (the contract of src/authority/ledger.ts).                       *)
THEOREM LedgerImplementsRegistry == Spec => ImplementsRegistry
<1>1. Init => Registry!Init
    BY DEF Init, Registry!Init, RegistryStatus, NoTime
<1>2. PInv /\ [Next]_vars => [Registry!Next]_(Registry!vars)
    BY RegistryStep DEF Registry!vars
<1> QED
    BY <1>1, <1>2, PromisesInductive, PTL DEF Spec, ImplementsRegistry, Registry!Spec
=============================================================================
