---------------------------- MODULE AuthorityLedger ----------------------------
(***************************************************************************)
(* The durable authority ledger of a Cell: src/authority/host/fs-ledger.ts. *)
(*                                                                         *)
(* One operation at a time holds the ledger lock (withLock), so operations  *)
(* do not interleave; what interleaves with them is failure.  Every durable *)
(* write of an operation is a step of its own, and between any two of them  *)
(* the process may die (Crash) or the write may fail and the operation      *)
(* unwind (IoFailure).  The stores are write-once directories of immutable  *)
(* files; the journal is kept here in its folded form (loadView), because   *)
(* every operation re-reads it under the lock before it uses it.            *)
(*                                                                         *)
(* An intent stands for its transaction digest: the digest of the canonical *)
(* bytes of everything a reservation commits to.                            *)
(***************************************************************************)
EXTENDS Integers, FiniteSets

CONSTANTS
    Intents,        \* transaction digests a client may present
    IngressKeys,    \* digests of (tenant, requester, requestId)
    Bodies,         \* definition alias and canonical request bytes
    OutcomeKeys,    \* digests of (tenant, outcomeKey)
    CapabilityIds,  \* capability identifiers
    CapabilityBytes,\* canonical capability bytes
    LimitKeys,      \* contract-window and source-trigger slots
    Intent,         \* what each transaction digest commits to
    Lifetime,       \* CAPABILITY_LIFETIME_MS, in ticks
    MaxTime,        \* bound: the last instant a clock shows
    MaxFailures,    \* bound: crashes and failed writes
    DispatchModes,  \* "transition" and/or "prepared": how the host dispatches
    NoIntent,       \* no transaction
    NoBody          \* the ingress key is not bound

NoTime   == -1
NoIndex  == -1
Times    == 0..MaxTime

ASSUME IntentAssumption ==
    /\ NoIntent \notin Intents /\ NoBody \notin Bodies
    /\ \A i \in Intents :
          /\ Intent[i].ingress \in IngressKeys /\ Intent[i].body \in Bodies
          /\ Intent[i].outcome \in OutcomeKeys
          /\ Intent[i].capability \in CapabilityIds /\ Intent[i].bytes \in CapabilityBytes
          /\ Intent[i].issuedAt \in Nat
          /\ DOMAIN Intent[i].slots \subseteq LimitKeys
          /\ \A k \in DOMAIN Intent[i].slots : Intent[i].slots[k] \in Nat \ {0}
ASSUME BoundAssumption ==
    Lifetime \in Nat \ {0} /\ MaxTime \in Nat /\ MaxFailures \in Nat
ASSUME ModeAssumption == DispatchModes \subseteq {"transition", "prepared"}

LedgerStates == {"reserved", "dispatched", "acknowledged", "definitive-failure",
                 "ambiguous", "cancelled", "reconciled"}
LegalWithLateCancel ==  \* mutant: a dispatched reservation may still be cancelled
    {<<"reserved", "dispatched">>, <<"reserved", "cancelled">>,
     <<"dispatched", "acknowledged">>, <<"dispatched", "definitive-failure">>,
     <<"dispatched", "ambiguous">>, <<"dispatched", "cancelled">>,
     <<"acknowledged", "reconciled">>, <<"ambiguous", "reconciled">>}
Legal == {<<"reserved", "dispatched">>, <<"reserved", "cancelled">>,
          <<"dispatched", "acknowledged">>, <<"dispatched", "definitive-failure">>,
          <<"dispatched", "ambiguous">>, <<"acknowledged", "reconciled">>,
          <<"ambiguous", "reconciled">>}
Reasons == {"idempotency-conflict", "semantic-duplicate", "capability-integrity",
            "capability-already-reserved", "limit-exceeded"}

VARIABLES
    ingress,      \* ingress/: the request body bound to each ingress key
    transactions, \* transactions/: the intents written ahead
    tombstone,    \* tombstones/: how an uncommitted transaction was resolved
    claims,       \* claims/: claim descriptors with the transaction owning them
    state,        \* journal/, folded: lifecycle of each intent, "issued" if none
    index,        \* journal/: the limit slot index each reservation was assigned
    sendStarted,  \* journal/: reservations with a send-started marker
    hwm,          \* journal/: the clock high-water mark
    torn,         \* stores holding a file that was created and never fully written
    residue,      \* a dead lock owner is still to be retired
    failures,     \* crashes and failed writes so far
    pc,           \* where the operation holding the lock stands
    call,         \* the operation and its arguments
    txn,          \* the transaction being committed or aborted
    preparing,    \* it is still in prepare, settling what others left undecided
    reply,        \* what the operation is about to return
    eligible,     \* history: replies that said dispatchEligible, per intent
    granted       \* history: permissions to send handed out, per intent

journal  == <<state, index, sendStarted, hwm>>
durable  == <<ingress, transactions, tombstone, claims, journal>>
volatile == <<pc, preparing, call, txn, reply>>
history  == <<eligible, granted>>
world    == <<torn, residue, failures>>
vars     == <<durable, world, volatile, history>>

-----------------------------------------------------------------------------
(* The view: what loadView and the immutable intents say. *)

ExpiresAt(i) == Intent[i].issuedAt + Lifetime
SlotKeys(i)  == DOMAIN Intent[i].slots
Committed    == {i \in Intents : state[i] # "issued"}
Holders(k)   == {j \in Committed : k \in SlotKeys(j)}

(* Undecided transactions: written ahead, neither committed nor tombstoned. *)
Pending == {i \in transactions : state[i] = "issued" /\ tombstone[i] = "none"}

SameIngress(i)    == {j \in Committed : Intent[j].ingress = Intent[i].ingress}
SameOutcome(i)    == {j \in Committed : Intent[j].outcome = Intent[i].outcome}
SameCapability(i) == {j \in Committed : Intent[j].capability = Intent[i].capability}

IsFreeForOwnMaximum(i, k, n) ==  \* mutant: the earlier holders' maxima are forgotten
    /\ n < Intent[i].slots[k]
    /\ \A j \in Holders(k) : n # index[j][k]

(* A slot index is free under the smallest maximum any holder was signed for. *)
IsFree(i, k, n) ==
    /\ n < Intent[i].slots[k]
    /\ \A j \in Holders(k) : n < Intent[j].slots[k] /\ n # index[j][k]
Candidates(i, k) == 0..(Intent[i].slots[k] - 1)
Full(i, k)       == \A n \in Candidates(i, k) : ~IsFree(i, k, n)
FirstFree(i, k)  == CHOOSE n \in Candidates(i, k) :
                        IsFree(i, k, n) /\ \A m \in 0..(n - 1) : ~IsFree(i, k, m)
Assignment(i)    == [k \in LimitKeys |->
                        IF k \in SlotKeys(i) THEN FirstFree(i, k) ELSE NoIndex]

VerdictWithoutOutcome(i) ==  \* mutant: semantic duplicates are not looked for
    IF \E j \in SameIngress(i) : Intent[j].body = Intent[i].body THEN "existing"
    ELSE IF SameIngress(i) # {} THEN "idempotency-conflict"
    ELSE IF \E j \in SameCapability(i) : Intent[j].bytes = Intent[i].bytes
         THEN "capability-already-reserved"
    ELSE IF SameCapability(i) # {} THEN "capability-integrity"
    ELSE IF \E k \in SlotKeys(i) : Full(i, k) THEN "limit-exceeded"
    ELSE "commit"

(* commitTransaction's verdict, in its order of precedence. *)
Verdict(i) ==
    IF \E j \in SameIngress(i) : Intent[j].body = Intent[i].body THEN "existing"
    ELSE IF SameIngress(i) # {} THEN "idempotency-conflict"
    ELSE IF SameOutcome(i) # {} THEN "semantic-duplicate"
    ELSE IF \E j \in SameCapability(i) : Intent[j].bytes = Intent[i].bytes
         THEN "capability-already-reserved"
    ELSE IF SameCapability(i) # {} THEN "capability-integrity"
    ELSE IF \E k \in SlotKeys(i) : Full(i, k) THEN "limit-exceeded"
    ELSE "commit"

Descriptor(kind, key, n) == [kind |-> kind, key |-> key, index |-> n]
Descriptors(i, assigned) ==
    {Descriptor("ingress", Intent[i].ingress, 0),
     Descriptor("outcome", Intent[i].outcome, 0),
     Descriptor("capability", Intent[i].capability, 0)}
      \cup {Descriptor("limit", k, assigned[k]) : k \in SlotKeys(i)}
Rank(d) == CASE d.kind = "ingress" -> 0 [] d.kind = "outcome" -> 1
             [] d.kind = "capability" -> 2 [] d.kind = "limit" -> 3
Claim(d, i)  == [descriptor |-> d, owner |-> i]
OwnClaims(i) == {c \in claims : c.owner = i}

IngressLinked(i) == ingress[Intent[i].ingress] = Intent[i].body

(* What recoverTransactions refuses as corruption before it resolves anything. *)
RecordsConsistent ==
    /\ \A i \in Intents : tombstone[i] # "none" =>
          /\ i \in transactions /\ state[i] = "issued"
          /\ tombstone[i] = "existing" => SameIngress(i) # {}
    /\ Committed \subseteq transactions
    /\ \A i \in transactions : IngressLinked(i)

(* verifyClaims: the claims are exactly those of the committed reservations. *)
ClaimsConsistent ==
    /\ \A c \in claims : c.owner \in Committed
    /\ \A i \in Committed : \A d \in Descriptors(i, index[i]) : Claim(d, i) \in claims

-----------------------------------------------------------------------------
(* A call a client makes.  `sweep` is prepare's makeDispatchedAmbiguous and *)
(* `reclaim` says that the operation retires a dead lock owner first.          *)

Call(kind, i, from, to, sweep, reclaim) ==
    [kind |-> kind, id |-> i, from |-> from, to |-> to,
     sweep |-> sweep, reclaim |-> reclaim]
NoCall == Call("none", NoIntent, "issued", "issued", FALSE, FALSE)

(* transition() edges a host asks for: the legal ones and a late cancellation. *)
Edges ==
    (Legal \cup {<<"dispatched", "cancelled">>})
      \ (IF "transition" \in DispatchModes THEN {} ELSE {<<"reserved", "dispatched">>})

Sweeping == call.sweep \/ call.reclaim

Init ==
    /\ ingress = [r \in IngressKeys |-> NoBody]
    /\ transactions = {} /\ claims = {}
    /\ tombstone = [i \in Intents |-> "none"]
    /\ state = [i \in Intents |-> "issued"]
    /\ index = [i \in Intents |-> [k \in LimitKeys |-> NoIndex]]
    /\ sendStarted = {}
    /\ hwm = NoTime
    /\ torn = {} /\ residue = FALSE /\ failures = 0
    /\ pc = "idle" /\ preparing = FALSE /\ call = NoCall /\ txn = NoIntent
    /\ reply = "none"
    /\ eligible = [i \in Intents |-> 0] /\ granted = [i \in Intents |-> 0]

-----------------------------------------------------------------------------
(* Taking the lock, and giving the result back. *)

Reply(r)  == pc' = "reply" /\ reply' = r /\ UNCHANGED <<preparing, call, txn>>
Goto(p)   == pc' = p /\ UNCHANGED <<preparing, call, txn, reply>>
Released  == /\ pc' = "idle" /\ preparing' = FALSE /\ call' = NoCall
             /\ txn' = NoIntent /\ reply' = "none"

(* withLock: retire a dead owner if there is one, else go straight to the     *)
(* operation.  bindIngress is the one operation that does not prepare.        *)
Begin(c) ==
    /\ pc = "idle"
    /\ call' = c
    /\ preparing' = (c.kind # "bind" \/ c.reclaim)
    /\ pc' = IF preparing' THEN "recover" ELSE "body"
    /\ UNCHANGED <<durable, world, history, txn, reply>>

IntentCall ==
    \E i \in Intents :
    \E kind \in {"bind", "reserve"} \cup
                (IF "prepared" \in DispatchModes THEN {"commit"} ELSE {}) :
        Begin(Call(kind, i, "issued", "issued", FALSE, residue))
TransitionCall ==
    \E i \in Intents, e \in Edges :
        Begin(Call("transition", i, e[1], e[2], FALSE, residue))
PlainCall ==
    \E kind \in {"observe", "read"} :
        Begin(Call(kind, NoIntent, "issued", "issued", FALSE, residue))
RecoverCall ==
    \E sweep \in BOOLEAN, reclaim \in {FALSE, residue} :
        Begin(Call("recover", NoIntent, "issued", "issued", sweep, reclaim))

Return ==
    /\ pc = "reply"
    /\ eligible' = IF reply = "reserved" THEN [eligible EXCEPT ![call.id] = @ + 1]
                                         ELSE eligible
    /\ granted' = IF reply = "granted" THEN [granted EXCEPT ![call.id] = @ + 1]
                                       ELSE granted
    /\ Released
    /\ UNCHANGED <<durable, world>>

-----------------------------------------------------------------------------
(* commitTransaction: the verdict is taken from the view, then every claim is *)
(* acquired, then the reserve event is the commit point.                      *)

(* What the transaction's resolver goes on to. *)
Resolved(r) == IF preparing THEN Goto("recover") ELSE Reply(r)

DecideUnrecorded(i) ==  \* mutant: prepare refuses a transaction without a tombstone
    /\ txn' = i
    /\ IF Verdict(i) = "commit"
       THEN pc' = "claim" /\ UNCHANGED tombstone
       ELSE /\ pc' = "unlink"
            /\ tombstone' = IF preparing THEN tombstone
                             ELSE [tombstone EXCEPT ![i] = Verdict(i)]
    /\ UNCHANGED <<ingress, transactions, claims, journal, preparing, call, reply>>

Decide(i) ==
    /\ txn' = i
    /\ IF Verdict(i) = "commit"
       THEN pc' = "claim" /\ UNCHANGED tombstone
       ELSE pc' = "unlink" /\ tombstone' = [tombstone EXCEPT ![i] = Verdict(i)]
    /\ UNCHANGED <<ingress, transactions, claims, journal, preparing, call, reply>>

Wanted(i)  == Descriptors(i, Assignment(i))
Missing(i) == {d \in Wanted(i) : Claim(d, i) \notin claims}

WriteClaim ==
    /\ pc = "claim"
    /\ \E d \in Missing(txn) :
          /\ \A e \in Missing(txn) : Rank(d) <= Rank(e)
          /\ IF \E c \in claims : c.descriptor = d
             THEN Reply("corruption") /\ UNCHANGED claims
             ELSE claims' = claims \cup {Claim(d, txn)} /\ Goto("claim")
    /\ UNCHANGED <<ingress, transactions, tombstone, journal, world, history>>

AppendReserveEarly ==  \* mutant: the commit marker is written before the last claims
    /\ pc = "claim"
    /\ state' = [state EXCEPT ![txn] = "reserved"]
    /\ index' = [index EXCEPT ![txn] = Assignment(txn)]
    /\ Resolved("reserved")
    /\ UNCHANGED <<ingress, transactions, tombstone, claims, sendStarted, hwm, world, history>>

AppendReserve ==
    /\ pc = "claim" /\ Missing(txn) = {}
    /\ state' = [state EXCEPT ![txn] = "reserved"]
    /\ index' = [index EXCEPT ![txn] = Assignment(txn)]
    /\ Resolved("reserved")
    /\ UNCHANGED <<ingress, transactions, tombstone, claims, sendStarted, hwm, world, history>>

(* abort and resolveExisting, after the tombstone: drop the claims it holds. *)
Unlink ==
    /\ pc = "unlink"
    /\ IF OwnClaims(txn) = {}
       THEN Resolved(tombstone[txn]) /\ UNCHANGED claims
       ELSE /\ \E c \in OwnClaims(txn) : claims' = claims \ {c}
            /\ Goto("unlink")
    /\ UNCHANGED <<ingress, transactions, tombstone, journal, world, history>>

-----------------------------------------------------------------------------
(* prepare: read everything, settle undecided transactions, then sweep. *)

Healthy == torn = {} /\ RecordsConsistent

RecoverPending(i) ==
    /\ pc = "recover" /\ Healthy /\ i \in Pending
    /\ Decide(i)
    /\ UNCHANGED <<world, history>>

Recovered ==
    /\ pc = "recover" /\ Healthy /\ Pending = {} /\ ClaimsConsistent
    /\ IF Sweeping THEN Goto("sweep")
       ELSE pc' = "body" /\ preparing' = FALSE /\ UNCHANGED <<call, txn, reply>>
    /\ UNCHANGED <<durable, world, history>>

RefuseCorruption ==
    /\ pc = "recover"
    /\ ~Healthy \/ (Pending = {} /\ ~ClaimsConsistent)
    /\ Reply("corruption")
    /\ UNCHANGED <<durable, world, history>>

SweptRegardless(i) ==  \* mutant: the send-started marker does not protect a dispatch
    CASE state[i] = "reserved" -> "cancelled"
      [] state[i] = "dispatched" -> "ambiguous"
      [] OTHER -> state[i]

(* A reservation that was never dispatched is cancelled; a dispatch without a *)
(* send-started marker becomes ambiguous; one with the marker is left alone.  *)
Swept(i) == CASE state[i] = "reserved" -> "cancelled"
              [] state[i] = "dispatched" /\ i \notin sendStarted -> "ambiguous"
              [] OTHER -> state[i]
ToSweep == {i \in Committed : Swept(i) # state[i]}

Sweep(i) ==
    /\ pc = "sweep" /\ i \in ToSweep
    /\ state' = [state EXCEPT ![i] = Swept(i)]
    /\ UNCHANGED <<ingress, transactions, tombstone, claims, index, sendStarted, hwm,
                   world, volatile, history>>

(* The dead owner's marker is acknowledged once its ledger has been prepared. *)
EndSweep ==
    /\ pc = "sweep" /\ ToSweep = {}
    /\ residue' = (residue /\ ~call.reclaim)
    /\ pc' = "body" /\ preparing' = FALSE
    /\ UNCHANGED <<durable, torn, failures, call, txn, reply, history>>

-----------------------------------------------------------------------------
(* The operations themselves. *)

Running(kind) == pc = "body" /\ call.kind = kind

BindIngress ==
    LET r == Intent[call.id].ingress
        body == Intent[call.id].body
    IN  /\ Running("bind")
        /\ CASE "ingress" \in torn -> Reply("corruption") /\ UNCHANGED ingress
             [] "ingress" \notin torn /\ ingress[r] = NoBody ->
                    Reply("claimed") /\ ingress' = [ingress EXCEPT ![r] = body]
             [] OTHER ->
                    /\ Reply(IF ingress[r] = body THEN "exact-existing"
                                 ELSE "idempotency-conflict")
                    /\ UNCHANGED ingress
        /\ UNCHANGED <<transactions, tombstone, claims, journal, world, history>>

PersistClockAhead(now, p) ==  \* mutant: the mark is rounded up past the instant read
    hwm' = now + 1 /\ Goto(p)

(* persistClock: the instant becomes the high-water mark before it is used. *)
PersistClock(now, p) ==
    hwm' = now /\ Goto(p)

ObserveClock(now) ==
    /\ Running("observe")
    /\ IF now < hwm THEN Reply("clock-rollback") /\ UNCHANGED hwm
       ELSE hwm' = now /\ Reply("observed")
    /\ UNCHANGED <<ingress, transactions, tombstone, claims, state, index, sendStarted,
                   world, history>>

(* getReservation, its history, the high-water mark, and recover's snapshot. *)
Read ==
    /\ Running("read") \/ Running("recover")
    /\ Reply("done")
    /\ UNCHANGED <<durable, world, history>>

ValidAt(i, now) == now >= hwm /\ now >= Intent[i].issuedAt /\ now < ExpiresAt(i)

ReserveClock(now) ==
    /\ Running("reserve")
    /\ IF ~IngressLinked(call.id) THEN Reply("integrity-failure") /\ UNCHANGED hwm
       ELSE IF ~ValidAt(call.id, now) THEN Reply("not-valid-now") /\ UNCHANGED hwm
       ELSE PersistClock(now, "writeahead")
    /\ UNCHANGED <<ingress, transactions, tombstone, claims, state, index, sendStarted,
                   world, history>>

WriteAheadEligible ==  \* mutant: an existing reservation is reported as a fresh one
    /\ pc = "writeahead"
    /\ IF call.id \in Committed THEN Reply("reserved") /\ UNCHANGED transactions
       ELSE transactions' = transactions \cup {call.id} /\ Goto("decide")
    /\ UNCHANGED <<ingress, tombstone, claims, journal, world, history>>

WriteAhead ==
    /\ pc = "writeahead"
    /\ IF call.id \in Committed THEN Reply("existing") /\ UNCHANGED transactions
       ELSE transactions' = transactions \cup {call.id} /\ Goto("decide")
    /\ UNCHANGED <<ingress, tombstone, claims, journal, world, history>>

(* A tombstone left by an earlier attempt answers for this one. *)
DecideReserve ==
    /\ pc = "decide"
    /\ IF tombstone[call.id] # "none"
       THEN Reply(tombstone[call.id]) /\ UNCHANGED durable
       ELSE Decide(call.id)
    /\ UNCHANGED <<world, history>>

TransitionAllowedLate(now) ==  \* mutant: dispatch does not look at the expiry again
    LET i == call.id
    IN  /\ state[i] = call.from
        /\ <<call.from, call.to>> \in Legal
        /\ now >= Intent[i].issuedAt
        /\ now >= hwm

TransitionAllowed(now) ==
    LET i == call.id
    IN  /\ state[i] = call.from
        /\ <<call.from, call.to>> \in Legal
        /\ now >= Intent[i].issuedAt
        /\ call.to = "dispatched" => now < ExpiresAt(i)
        /\ now >= hwm

TransitionClock(now) ==
    /\ Running("transition")
    /\ IF TransitionAllowed(now) THEN PersistClock(now, "append")
       ELSE Reply("refused") /\ UNCHANGED hwm
    /\ UNCHANGED <<ingress, transactions, tombstone, claims, state, index, sendStarted,
                   world, history>>

AppendTransition ==
    /\ pc = "append" /\ call.kind = "transition"
    /\ state' = [state EXCEPT ![call.id] = call.to]
    /\ Reply(IF call.to = "dispatched" THEN "granted" ELSE "transitioned")
    /\ UNCHANGED <<ingress, transactions, tombstone, claims, index, sendStarted, hwm,
                   world, history>>

(* commitPreparedDispatch.  `bound` stands for its comparisons of the prepared *)
(* description with the reservation, the generation and the deadline.  A clock *)
(* behind the high-water mark is thrown by persistClock as corruption.         *)
CommitClock(now, bound) ==
    /\ Running("commit")
    /\ IF state[call.id] # "reserved" \/ ~bound \/ now >= ExpiresAt(call.id)
       THEN Reply("refused") /\ UNCHANGED hwm
       ELSE IF now < hwm THEN Reply("corruption:clock-rollback") /\ UNCHANGED hwm
       ELSE PersistClock(now, "append")
    /\ UNCHANGED <<ingress, transactions, tombstone, claims, state, index, sendStarted,
                   world, history>>

AppendDispatched ==
    /\ pc = "append" /\ call.kind = "commit"
    /\ state' = [state EXCEPT ![call.id] = "dispatched"]
    /\ Goto("marker")
    /\ UNCHANGED <<ingress, transactions, tombstone, claims, index, sendStarted, hwm,
                   world, history>>

AppendSendStarted ==
    /\ pc = "marker"
    /\ sendStarted' = sendStarted \cup {call.id}
    /\ Reply("granted")
    /\ UNCHANGED <<ingress, transactions, tombstone, claims, state, index, hwm, world, history>>

-----------------------------------------------------------------------------
(* Failure. *)

(* The store whose file the next step would create, if it would create one. *)
Writing ==
    CASE pc = "body" ->
           IF call.kind = "bind"
           THEN (IF ingress[Intent[call.id].ingress] = NoBody THEN {"ingress"} ELSE {})
           ELSE (IF call.kind \in {"read", "recover"} THEN {} ELSE {"ledger"})
      [] pc = "recover"    -> IF Pending = {} THEN {} ELSE {"ledger"}
      [] pc = "writeahead" -> IF call.id \in transactions THEN {} ELSE {"ledger"}
      [] pc = "decide"     -> IF tombstone[call.id] = "none" THEN {"ledger"} ELSE {}
      [] pc = "sweep"      -> IF ToSweep = {} THEN {} ELSE {"ledger"}
      [] pc \in {"claim", "append", "marker"} -> {"ledger"}
      [] OTHER -> {}

(* The file is created before its bytes are written: it may stay torn. *)
Interrupted ==
    /\ failures < MaxFailures /\ failures' = failures + 1
    /\ torn' \in {torn, torn \cup Writing}
    /\ Released
    /\ UNCHANGED <<durable, history>>

(* The process dies; the next operation finds the lock owned by a dead one.  *)
(* recover() may run without the lock, and then leaves no owner behind.       *)
Crash ==
    /\ pc # "idle"
    /\ Interrupted
    /\ residue' \in IF call.kind = "recover" THEN {residue, TRUE} ELSE {TRUE}

(* A write throws: the operation unwinds and releases its lock. *)
IoFailure ==
    /\ Writing # {}
    /\ Interrupted
    /\ UNCHANGED residue

-----------------------------------------------------------------------------
Step ==
    \/ Return \/ WriteClaim \/ AppendReserve \/ Unlink
    \/ \E i \in Intents : RecoverPending(i) \/ Sweep(i)
    \/ Recovered \/ RefuseCorruption \/ EndSweep
    \/ BindIngress \/ Read \/ WriteAhead \/ DecideReserve
    \/ \E now \in Times :
          \/ ObserveClock(now) \/ ReserveClock(now) \/ TransitionClock(now)
          \/ \E bound \in BOOLEAN : CommitClock(now, bound)
    \/ AppendTransition \/ AppendDispatched \/ AppendSendStarted

Next ==
    \/ IntentCall \/ TransitionCall \/ PlainCall \/ RecoverCall
    \/ Step
    \/ Crash
    \/ IoFailure

(* An operation that holds the lock goes on, and the Cell keeps recovering.   *)
Spec == Init /\ [][Next]_vars
FairSpec == Spec /\ WF_vars(Step) /\ SF_vars(RecoverCall)

-----------------------------------------------------------------------------
(* Properties. *)

Verdicts == {"none", "existing"} \cup Reasons
Replies  == Verdicts \cup
    {"reserved", "corruption", "claimed", "exact-existing", "clock-rollback", "observed",
     "done", "integrity-failure", "not-valid-now", "refused", "granted", "transitioned",
     "corruption:clock-rollback"}
Phases == {"idle", "recover", "claim", "unlink", "sweep", "body", "writeahead", "decide",
           "append", "marker", "reply"}
Keys   == IngressKeys \cup OutcomeKeys \cup CapabilityIds \cup LimitKeys
Claims == [descriptor : [kind : {"ingress", "outcome", "capability", "limit"},
                         key : Keys, index : Nat],
           owner : Intents]
CallType == [kind : {"none", "bind", "reserve", "commit", "transition", "observe", "read",
                     "recover"},
             id : Intents \cup {NoIntent}, from : LedgerStates \cup {"issued"},
             to : LedgerStates \cup {"issued"}, sweep : BOOLEAN, reclaim : BOOLEAN]

(* Every variable stays within the records fs-ledger.ts declares; an operation *)
(* that is past its clock check names the reservation it works on.             *)
TypeOK ==
    /\ ingress \in [IngressKeys -> Bodies \cup {NoBody}]
    /\ transactions \in SUBSET Intents
    /\ tombstone \in [Intents -> Verdicts]
    /\ claims \in SUBSET Claims
    /\ state \in [Intents -> LedgerStates \cup {"issued"}]
    /\ index \in [Intents -> [LimitKeys -> Nat \cup {NoIndex}]]
    /\ sendStarted \in SUBSET Intents
    /\ hwm \in Times \cup {NoTime}
    /\ torn \in SUBSET {"ingress", "ledger"}
    /\ residue \in BOOLEAN /\ preparing \in BOOLEAN
    /\ failures \in Nat /\ pc \in Phases
    /\ call \in CallType /\ txn \in Intents \cup {NoIntent} /\ reply \in Replies
    /\ eligible \in [Intents -> Nat] /\ granted \in [Intents -> Nat]

(* No two committed reservations share the request they answer, the outcome    *)
(* they produce or the capability they spend, whatever interleaving of crashes  *)
(* and recoveries the write-ahead transactions went through; and each holds, in *)
(* every state, all the claim files that say so.                                *)
DistinctReservations ==
    \A i, j \in Committed : i # j =>
        /\ Intent[i].ingress # Intent[j].ingress
        /\ Intent[i].outcome # Intent[j].outcome
        /\ Intent[i].capability # Intent[j].capability
ClaimsHeld ==
    \A i \in Committed : \A d \in Descriptors(i, index[i]) : Claim(d, i) \in claims
UniqueReservations == DistinctReservations /\ ClaimsHeld

(* A limit key is never overdrawn: its holders have indices 0, 1, 2, ... each   *)
(* once, without a gap, and a holder's index is below the maximum that it and   *)
(* every holder before it was signed for.                                       *)
DistinctIndices(k) == \A i, j \in Holders(k) : index[i][k] = index[j][k] => i = j
NoGap(k) ==
    \A i \in Holders(k) : \A n \in 0..(index[i][k] - 1) : \E j \in Holders(k) : index[j][k] = n
WithinMaxima(k) ==
    \A i, j \in Holders(k) : index[j][k] <= index[i][k] => index[i][k] < Intent[j].slots[k]
LimitCapacity == \A k \in LimitKeys : DistinctIndices(k) /\ NoGap(k) /\ WithinMaxima(k)

(* The ledger never refuses its own leftovers: what any crash or failed write   *)
(* leaves behind is settled by the next prepare, and "corruption" is answered   *)
(* only when a file is torn.  (A clock that runs back during a prepared commit  *)
(* is reported under the same name by the code and apart here.)                 *)
NoSpuriousCorruption == reply = "corruption" => torn # {}

(* One request is told once that it may dispatch, and one permission to send    *)
(* follows from a reservation, after which the reservation can never read as    *)
(* cancelled or still reserved.                                                 *)
PermissionOnce ==
    /\ \A i, j \in Intents : eligible[i] > 0 /\ eligible[j] > 0 =>
          i = j \/ Intent[i].outcome # Intent[j].outcome
    /\ \A i \in Intents :
          /\ eligible[i] <= 1 /\ granted[i] <= 1
          /\ granted[i] = 1 => state[i] \notin {"issued", "reserved", "cancelled"}

(* A send-started dispatch is never declared ambiguous by a sweep: only its own *)
(* transition settles it, because the effect may have happened and be provable. *)
SweepSparesStarted ==
    [][\A i \in sendStarted : state'[i] # state[i] => call.kind = "transition"]_vars

(* A reservation is dispatched only at an instant inside its capability's       *)
(* lifetime, and what was decided stays decided: a refused transaction is never *)
(* committed later and a committed reservation keeps its claims.                *)
DecisionsStand ==
    [][/\ \A i \in Intents : state[i] = "reserved" /\ state'[i] = "dispatched" =>
             Intent[i].issuedAt <= hwm' /\ hwm' < ExpiresAt(i)
       /\ \A i \in Intents : tombstone[i] # "none" =>
             tombstone'[i] = tombstone[i] /\ state'[i] = "issued"
       /\ \A c \in claims \ claims' : c.owner \notin Committed
       /\ hwm' >= hwm]_vars

(* commitPreparedDispatch keeps the lock across both journal appends so that    *)
(* "A restarted or concurrent reader can therefore never observe dispatched      *)
(* without its send-started marker".                                             *)
ReaderSeesMarker ==
    Running("read") => \A i \in Intents : state[i] = "dispatched" => i \in sendStarted

(* An undecided transaction left by a failure is committed or tombstoned as     *)
(* long as the Cell keeps recovering, unless a file was torn.                   *)
PendingDecided == \A i \in Intents : i \in Pending ~> (i \notin Pending \/ torn # {})

=============================================================================
