# A verification of Reelier

Reelier lets an agent cause an effect in the outside world only through a
*Cell*: a host that decides a request once, reserves the effect in a durable
ledger, charges it to a delegated budget, sends it at most once and publishes a
receipt for whatever came of it.  On the agent's side it records tool calls
behind a policy, compiles recordings into skills, replays these under approvals
and keeps a record of what was done.

Neither side has a database under it.  Each store is a directory of small
files, and its guarantees come from the order in which files are created,
linked, renamed and removed, from who may do so meanwhile, and from what the
next process does with what a dead one left.  That order is what these modules
model.

TLC checks every module on small instances.  TLAPS proves the promises of the
authority host for all instances.  `PROJECT.json` lists the runs, a
mutated definition for each property, the source lines behind every definition,
the hazards the properties are aimed at and the theorems.

1. The system
2. The modules
3. The runs
4. Where the code and its documents disagree
5. What is proved
6. Plan
7. What is not modelled

## 1. The system

### The authority host (`src/authority/`)

| Component | State | Operations | What is hard | What makes it correct |
|---|---|---|---|---|
| Authority ledger (`host/fs-ledger.ts`) | write-once directories `ingress/`, `transactions/`, `claims/`, `tombstones/`; an event journal | `bindIngress`, `reserve`, `transition`, `commitPreparedDispatch`, `observeClock`, readers, `recover` | a crash or failed write between any two files of one operation; a transaction judged long after it was written; clocks that run back | a reservation is unique, permission to send is given once, a limit is never overdrawn, leftovers are always settled and never called corrupt |
| Ledger lock and operation fence (`host/fs-ledger.ts`, `host/fs-ledger-coordination.ts`) | ports, stages, tickets, the active lock, markers and notices | acquire, release, retire a dead owner, acknowledge | contenders retiring one another, deaths in a clean-up, a port that another program holds | one holder; a death in the lock is remembered until it is recovered |
| Delegation budget (`host/delegation-budget.ts`) | one JSON file: tasks, a tree of allocations, keyed operations, events | `createRoot`, `allocate`, `consume(Once)`, `returnUnused`/`returnOnce`, `releaseConsumedOnce`, `revokeTask` | balances kept redundantly along a path to the root; retries; revocation between two calls | balances agree with the log; a revoked task is frozen |
| Delegation service (`host/delegation-service.ts`) | a registry file of signed grants beside the budget, a copy of it per process | register a root, register a child, revoke | a crash between budget and registry; a stale whole-file rewrite; a lock that goes by age | a grant per allocation and back |
| Signed journal (`host/signed-journal.ts`) | per request: numbered events, `head.json`, `head.pending`, ticket files | `append`, `load`, `listRequestIds`, `withLease` | a crash between announcement, event and rename; a load without the lease repairing what a live writer is doing | a journal written only by this code loads, and can be appended to |
| Dispatch coordinator (`host/dispatch.ts`, with `prepared-dispatch.ts`, `receipts.ts`) | handles in memory; everything else in the stores it drives | `dispatch`, `cancel`, `reconcile`, `recover` | four stores that fail separately, an await between each two, a restart anywhere | one send; receipt before status; nothing given back that was used; everything settles |
| Gate and decision store (`gate.ts`, `decision.ts`, `state.ts`) | a decision file with indices, rewritten whole | decide a request, replay a decision, append | a crash between reservation and decision; the clean-up of a dead owner's lock | one claim has one decision; what was appended stays |
| Runtime calls (`host/runtime.ts`, `host/local.ts`, `ingress/`) | bindings, shared flights, diagnostics | accept a request, ask for its status | equal requests sharing one call; a failure whose effect is uncertain | what callers are told agrees with what was done |
| Release runner (`host/github-release-runner.ts`) | events in the signed journal | run one release effect, resume, reconcile | intent and dispatching events around a provider write that may land late | one write per authorised effect |
| Release authorization (`scripts/sign-release-authorization.mjs`, `verify-…`, `release-contracts.ts`) | an artifact set on an untrusted carrier | sign and publish; check; judge the receipts | sets that are mixed; windows of time | what passes is what one ceremony signed |
| Session activation (`host/codex-session-activation.ts`, `principal-registry.ts`) | token files, a file of credentials under a lock that goes by age | activate, revoke | roll-back of a half-done activation beside another one | sessions of a finished activation stand, one credential each |
| Certification workspace, cell and permits (`certification/initializer.ts`, `preflight.ts`, `cell.ts`, …) | a staged workspace, a signed candidate, a host, an observation file | initialize, preflight, seal, sign, make and activate a host, permit | inputs edited while they are read; a permit good at one instant and used at another | what a human signed hangs together; a permit rests on what is current |
| Certification runner (`certification/github-issue-labels-runner.ts`) | a journal with compensations per request | run, conflict, cleanup, recover | restart at each phase; a clean-up without the lock | journal, ledger and budget agree |

### The agent's side

| Component | State | Operations | What is hard | What makes it correct |
|---|---|---|---|---|
| Recorder (`recorder.ts`, `provenance.ts`) | a chained trace file, provenance of values | start, stop, proxied calls | handlers that interleave at each await | a trace holds what happened in its window |
| Compiler (`compile.ts`, `skill.ts`) | skill files | compile, parse | text round trips of values and names | a replay repeats the recording |
| Replay runner (`runner.ts`, `approval.ts`, `escalate.ts`, `writeback.ts`) | a skill, a run record | gate, probe, send, read, heal | writes repeated by healing; approvals of arguments that change | a write is authorised when it goes out |
| Run records (`runner.ts`, `defer.ts`, `push.ts`) | a record file, cursors | run, resolve, push | processes without locks | every record judged; answered once |
| State binding (`cli.ts`, `expect-mac.ts`) | a skill file, a keystore | approve, prune, heal | a person between reading and writing | an approval is of what was seen |
| Continuity ledger (`continuity/`) | numbered segments under a writer lock | append, import, fold | two agents proposing from stale reads | what a verified receipt says stands |
| Bootstrap (`bootstrap/initialize.ts`) | lock, journal, generations, pointer | initialize, roll back | a death in a recovery of a recovery | an open project is whole |
| Inspection, connections (`initialization.ts`, `connections.ts`) | a lock, a recovery lease, artifacts, checkpoints; an inventory | initialize, inspect, register, resolve | files removed by path, whoever's they are | a checkpoint is backed by its artifact |
| Policy file (`policy.ts`) | a project's and a user's file | load for the proxy, load for a run | what an unreadable file means to whom | a rule holds as it is written |
| Host configurations (`wrap.ts`, `init.ts`, `bootstrap/install.ts`) | a host's configuration and its backups | install, uninstall, bootstrap | a user who edits the file between plan and write | nothing configured is lost |
| Coverage survey (`coverage.ts`, `routes/`) | rows of evidence | survey, refresh | files that change while they are read | "observed" is said only of proxied routes |

How they interact.  On the host, the ingress resolves a session and hands the
request to the runtime; the runtime asks the *gate*, which *reserves* in the
ledger and answers with a signed decision and a one-shot handle; the runtime
calls `dispatch` or `cancel` on the coordinator; the coordinator consumes or
returns *budget*, *commits* in the ledger, opens the *receipt chain*, sends to
the *provider*, publishes, and records the status in the ledger; `reconcile`
reads the provider back.  All of these are calls within one process; between
processes the only shared state is the files, and the only communication their
locks.  On the agent's side every command is a process of its own, and what they
share is a project directory.

## 2. The modules

| Module | What it models |
|---|---|
| `AuthorityLedger` | the ledger, at the granularity of one durable write |
| `EffectRegistry` | what the ledger promises: each effect decided in one atomic step |
| `AuthorityLedgerRefinement` | the mapping by which the first implements the second |
| `LedgerLock` | the queue, lock and markers behind which a ledger operation runs |
| `DelegationBudget` | the budget tree, one step per locked mutation |
| `DelegationService` | the registry of grants and the copies hosts keep of it |
| `SignedJournal` | one request's journal, at the granularity of one file operation |
| `DispatchCoordinator` | the coordinator, one step per await, composed with `DelegationBudget` and the registry view of the ledger |
| `GateDecisions`, `DecisionSink` | `decide()` for one request, and the file its decisions are kept in |
| `RuntimeCalls` | a request from the ingress to its answer |
| `ReleaseSaga` | the four effects of a release over their journal |
| `ReleaseAuthorization` | ceremonies, carrier and checks of a release's authorization |
| `SessionActivation` | two operators issuing the credentials of a task |
| `CertificationWorkspace`, `DispatchPermits`, `LabelsCertification` | a certification from its workspace over its permits to its effects |
| `TraceRecording`, `SkillCompilation`, `ReplayRunner` | recording, compiling and replaying |
| `RunLedger`, `StateBinding` | run records and their users; approvals bound to a state |
| `ContinuityLedger`, `BootstrapTransaction`, `InspectionInit`, `ConnectionInventory` | a project's own stores |
| `PolicyFile`, `HostConfigs`, `CoverageSurvey` | what stands in front of an agent's tools, and what is reported of it |
| `MCAuthorityLedger`, `MCDelegationBudget`, `MCSignedJournal`, `MCDispatchCoordinator`, `MCSurveyDisks` | the small instances of one module |
| `MCStores`, `MCHostServices`, `MCAgentRuns`, `MCProjectTools` | compositions for the runs: one part per behaviour, chosen in the initial state, the others at rest |
| `AuthorityLedgerProofs`, `DelegationBudgetProofs`, `SignedJournalProofs`, `DispatchCoordinatorProofs`, `HostServicesProofs`, `AgentRunsProofs`, `ProjectToolsProofs`, `ConnectionProofs` | the theorems |

A digest is represented by what it covers and a signature by the key that made
it; a formatted text by what its readers tell apart.  A death sets a process back
to where its next life starts and leaves its files.  The `MC` modules of several
parts do not compose what does not interact: a behaviour is one part's, and the
disjunction only lets one run check them together.

### AuthorityLedger

An element of `Intents` is a transaction digest; `Intent[i]` records what the
digest commits to: request, body, outcome, capability, lifetime and limit slots.
The stores are the variables `ingress`, `transactions`, `claims`, `tombstone`,
and the journal in its folded form (`state`, `index`, `sendStarted`, `hwm`),
which is how the code itself uses it: every operation folds the journal again
under the lock (`loadView`).

One operation at a time holds the lock, so the program counter `pc` is that of
the holder: `recover` and `sweep` are `prepare`, `body` is the operation itself,
`writeahead`, `decide`, `claim` and `unlink` are `commitTransaction` and its
resolution, `append` and `marker` the journal appends.  Between any two durable
writes `Crash` may take the holder (`residue` then says that a dead owner is to
be retired) or `IoFailure` may make the write throw, which releases the lock; both
may leave the file that was being created `torn`.

| Code | Actions |
|---|---|
| `withLock`, `prepare` | `IntentCall`, `TransitionCall`, `PlainCall`, `RecoverCall`, `RecoverPending`, `Recovered`, `RefuseCorruption`, `Sweep`, `EndSweep` |
| `bindIngress` | `BindIngress` |
| `reserve` | `ReserveClock`, `WriteAhead`, `DecideReserve`, `WriteClaim`, `AppendReserve`, `Unlink` |
| `transition` | `TransitionClock`, `AppendTransition` |
| `commitPreparedDispatch` | `CommitClock`, `AppendDispatched`, `AppendSendStarted` |
| `observeClock`, `getReservation` and the lookups | `ObserveClock`, `Read` |

The abstract `EffectRegistry` has neither claims nor crashes: an effect goes in
one step from undecided to reserved, if no effect that shares an identity with it
is reserved and every limit has room for it, or else to refused.  Under the
mapping in `AuthorityLedgerRefinement` the commit marker and the tombstone are
those steps and everything else stutters.

### DelegationBudget

Every mutation takes the lock, reads the whole file, changes it and renames a new
one over it; an error leaves the old one.  So a mutation is one step, and
`reply` says how it ended.  `lineage` holds what walking `parentAllocationId`
visits.  The event log is folded into sums per type and allocation, which is
what `AuditAgrees` compares the balances with.

### SignedJournal

A digest is represented by the number of events it covers.  `append` is
`Start`, a load (`LoadEvents`, `ReadPending`, `Promote` or `Discard`,
`CompareHead`), then `Announce`, `Fill`, `CreateEvent`, `FillEvent`, `Rename`.
A member of `Readers` runs the load alone and without the lease, as the release
runner does when it lists requests.  The rename of a file that its writer still
has open is modelled: the writer goes on writing under the new name.

### DispatchCoordinator

`call[r]` is the call at work on a reservation and `at[r]` the await it is about
to make; each await is an action that performs the callee's effect atomically.
The budget is the module `DelegationBudget` itself, instantiated with the
coordinator's variables; the ledger is the registry `AuthorityLedger` implements
plus the send-started marker.  `wiring` says how the host built the coordinator:
whether the adapter prepares dispatches, whether receipts form a chain, and
whether there is a read-back.  A failing call (`Fails`), a torn commit
(`CommitTorn`) and a dead process (`Crash`) may come between any two awaits.
`Retire` is the ledger's own treatment of a dead lock owner, which settles open
reservations without the coordinator.

Restrictions: one process per ledger; `recover()` runs when no call is under way
and no handle is held; a read-back may be silent but is never wrong; publication
is always configured; a commit that is refused stands for every reason the ledger
and the certified hooks have for refusing.


### LedgerLock

What `AuthorityLedger` takes for one step, getting the lock, is here the whole of
`withLock`: binding the fence's port (`BindFence`), publishing a stage and drawing
a ticket (`CreateStage`, `DrawTicket`, `ElectStage`), renaming the stage to the
lock (`PublishLock`), retiring a dead owner's lock and its marker
(`InspectActiveLock`, `RetireDeadLock`, `ServiceMarkers`, `RecoverPendingMarkers`) and
letting go (`CheckOwnLock`, `Unlock`).  An owner is a number drawn per life.  The
port of a dead process is free at once; the first candidate port may be held by
another program (`foreignPort`) that leaves, which is how two processes come to be
inside the fence (`crowded`).

### GateDecisions, DecisionSink

`decide()` for one request id: `BindIngress`, `LoadState` and `AdvanceState` under
the state lease, `ReserveUnderLease`, `SignAccepted`, `PersistDecision` and the
read-back `VerifyIndexes`.  The decision store is atomic there; `DecisionSink` opens
it: the lock directory, its owner file, the check and the rename that both a
reclaimer and a releasing owner make in two steps, and the file written whole.  An
owner that is alive and was taken for dead is recorded in `ousted`.

### DelegationService

One task with its root grant, two hosts with a copy of the registry each, calls
that interleave at every await.  The two stores are written one after the other
(`Account`, `PersistRegistry`), and a host may die in between.  A revocation writes
its host's copy without reloading it, and may so drop a grant of another host; the
property says that nothing else does, unless a slow holder's lock was removed
(`slow`) or a first load took effect in the middle of a call (`lateLoad`).

### ReleaseSaga, ReleaseAuthorization

`ReleaseSaga` has the four effects with their phases: `WriteContent`, `CheckIntent`,
`CheckDispatching`, `Send`, `Confirm`.  The journal is atomic, `SignedJournal` shows what its files
do.  The provider applies a write late (`Arrive`), never (`Lost`), or somebody else
makes it (`Foreign`).  `ReleaseAuthorization` has two ceremonies over three parameter
files, two of one commit with different trees and tarballs and one with dates the
contract refuses; a carrier that may mix the files of published sets; a pinned key and
another one; and a clock of two ticks of six hours.

### RuntimeCalls

Requests of one id of one session: `RequestArrives` to `AnswerAccepted`, with the gate
and the coordinator as their caller sees them, the shared flight of equal requests,
and status requests beside them.  Flights are keyed only for signed job cards of
several definitions.  A failure other than that of publishing the reservation is
reported as possibly effective; a recorder that fails is swallowed (`unrecorded`).

### SessionActivation

Two operators activate one plan; the file of principals is extended under a lock
directory that is removed when it looks 20 seconds old, whoever holds it (`stolen`).
A torn line makes every reader refuse the file.  Compensation revokes what was issued
and removes only the token files it wrote to the end; a death leaves a live
credential behind (`orphans`).  No production code calls `revokeTask`; it is here as
the step of another process, because the registry offers it.

### CertificationWorkspace, DispatchPermits, LabelsCertification

Two operators stage one workspace; the inputs are edited while the preflight reads
them one after the other, the endpoint file twice (`tornEndpoints`).  `DispatchPermits`
makes the host, activates its root task and lets checkers read everything a permit
rests on, twice, while the trust pin, the task and the inputs change; overlapping
observers may put the observation file back (`crossed`).  `LabelsCertification` is the
issue-labels runner for one request: a journal saved in three steps, `run`, `conflict`
and `recover` under `<request>.lock`, `cleanup` and the duplicate's checkpoint without
it; a recovery that judges while a cleanup is under way is recorded in `raced`.

### The agent's side

- `TraceRecording`: two requests at once, each handler interleaved at its awaits;
  appends are chained.  What was cut by a failed append is `broken`, a call that
  crossed a window's end `straddled`.
- `SkillCompilation`: recorded sessions through `compile`, the skill file and a
  replay.  Known losses are excluded by name in the property: redaction conflates
  secrets, numbers are replayed as text, dotted argument keys gain a nested
  duplicate, hyphens and dots in paths make the replay stick, a bind named `today`,
  a blank name or a list in a note is refused by the parser, literal braces stay.
- `ReplayRunner`: skills of up to two steps; each is gated, probed, sent, read,
  healed at two levels and recorded.  What tools and model answer is a choice.
- `RunLedger`: runs, resolutions and pushes over one record file, without locks.
- `StateBinding`: approve, prune and heal over one skill and its keystore, with a
  person at a prompt between the observation and the write.
- `ContinuityLedger`: two agents append to one history from what they last read.
- `BootstrapTransaction`: the lock file, journal, generations, pointer and
  configuration; the process may die between any two writes, and so may the recovery.
- `InspectionInit`: initializers that die, clear one another's leases (`ousted`) and
  resume; two of them at once, three checkpoints.
- `ConnectionInventory`: one connection from its inspection to the route that is
  resolved later, when its server may have changed.
- `PolicyFile`: files of up to two lines out of 16 kinds, of three out of ten, and of
  four that start with a deny rule, for the project and the user.
- `HostConfigs`: one server in each of three maps; installs, uninstalls and the
  bootstrap at once beside a user's edit, with a death.  What a stale plan overwrote
  is `overwritten`.
- `CoverageSurvey`: the survey of one host, read file by file while the user edits one
  of them (`straddled`), and a refresh.

## 3. The runs

| Run | Question | Instance | States |
|---|---|---|---|
| `ledger_identity` | Are reservations unique, permissions single, decisions final, and does the ledger implement the registry? | three intents: two retries of one request with different capabilities, one that reuses a capability identifier and overlaps in time; instants 0 to 2, one failure | 973,459 |
| `ledger_limits` | Do limits hold, is nothing called corrupt, is everything decided? | three requests, two limit keys under different maxima, two failures, fair recovery | 306,444 |
| `stores` | Is every interrupted append repaired and can the journal go on? Do balances agree with the log, and does revocation freeze a tree? | three writers, four events, four deaths; or three allocations in two tasks, five mutations | 170,748 |
| `dispatch_recovery` | One send, truthful receipts and refunds, everything settles? | two reservations, a root of two effects and a child of one, two wirings, two faults under the host's, one under the plain one | 1,159,134 |
| `host_services` | Do the host's own services keep their promises? | one of: five release requests for four effects; two gate callers in four calls; two writers of the decision file in four lives; two contenders for the lock in four lives; two hosts over the registry in four calls; two operators, two profiles, four tokens; three arrivals at the runtime; one death or mishap each | 1,629,752 |
| `agent_runs` | Are writes authorised, records answered, recordings repeated and projects left whole? | one of: replays of two steps; one record file of two lines, one kill; one approval with two observations and one move of the world; three segments of two agents; four runs of the bootstrap with two failures; four requests at the recorder; every session of the compiler's set; four inspections, two deaths | about 1.81 million |
| `project_tools` | Do tools around a project say and do what they claim? | one of: all policy files; all connections; three plans on one configuration; two surveys and an edit; three visits at the certification runner; two ceremonies; two preparers and three edits; three snapshots of a permit | about 975,000 |
| `budget_overspend` | *Violated:* does the root bound its tree? | four allocations, seven mutations | |
| `journal_reader` | *Violated:* does a lease-less load leave the journal loadable? | one writer, one reader, no crash | |
| `dispatch_restart` | *Violated:* does cancelling after a crash release what was consumed? | as `dispatch_recovery`, drawing on root and child | |
| `dispatch_verdict` | *Violated:* does `reconcile` answer what the receipt says? | as `dispatch_recovery` | |
| `release_not_applied` | *Violated:* is "not-applied" said only of what was not applied? | as `host_services` | |

Why the bounds are enough.  A conflict of identities needs two reservations; the
third gives recovery something to find committed *since* a transaction was left
undecided.  Limits need a holder, a rival with a smaller maximum and one with a
larger.  At most one transaction is ever undecided (this is proved, see below),
so one failure per operation reaches every leftover, and a second reaches a
failure while settling the first.  Time matters through three comparisons
(issue, expiry, high-water mark), which three instants and a lifetime of one
separate.  The budget's bound of five mutations admits every tree of depth three
and every order of two balance operations on it; seven, in `budget_overspend`,
is more than the five that the violation needs.  A journal of four events under
four deaths has an interrupted append on top of a repaired one on top of another.
The coordinator's second fault hits the recovery from the first.  In the services
two actors and one death give every interleaving of a step with another's step or
a leftover; four lives or owners let a leftover of a leftover be cleaned up, which
is where the lock's markers are hard.  The agent's programs have few actors: what
matters are the orders of two commands and a death in each gap.  Where a theorem
covers a property (section 5) no bound matters.

Deadlock is checked where the code always has something it can do (ledger) and
switched off where the model's bounded supply of calls runs out.

### Fairness

- Ledger: `WF(Step)`, an operation that holds the lock goes on; `SF(RecoverCall)`,
  a Cell keeps recovering.  The host calls `recover` at each start, and every
  operation runs `prepare` itself; strong fairness because other calls take the
  lock in between.
- Journal: `WF(Step)` per process; a writer that wants the lease gets it in turn
  (strong fairness), which is what the ticket order of the queue is for.
- Coordinator: `WF(Proceed)` per reservation, the event loop runs what it awaits;
  `WF(Dispatch \/ Cancel)`, the runtime a handle is returned to uses it or gives it
  up; `WF(RecoverNext)`, `WF(Retire)` and `SF(Recover)`: a host with open
  reservations is restarted and recovered again, as
  `certification/github-issue-labels-runner.ts` does at each resume (lines 704 to
  768).  Faults are finite.

The other parts have no liveness property: the commands end or are given up by the
person who started them.

`SettlesUnlessWedged` is conditional on purpose.  `recover()` works through one
list and throws at the first reservation it cannot account for, so one with a
dispatched status and no marker or root, or one whose allocation refuses to take its
effect back, blocks all that come after it.  The property says that these two are
the only ways.

## 4. Where the code and its documents disagree

Five runs end in a violation; `PROJECT.json` quotes the statements.

1. `budget_overspend`: the capacity that bounds a new child ignores what its
   parent has returned.  A child can give its effects back and delegate them all
   the same.
2. `journal_reader`: a load without the lease discards the announcement of a
   live writer, after which the journal is refused as forked for good.
3. `dispatch_restart`: a crash between consumption and commit makes `recover()`
   return one more effect instead of releasing the one consumed.
4. `dispatch_verdict`: a reconciliation adopted from the chain is reported as
   matched whatever its receipt says.
5. `release_not_applied`: a read that the provider refuses is journaled as the
   refusal of the write, and a landed write is reported as not applied.

Other statements of documents, comments or tests were found not to hold.  They are
stated in the modules and no run checks them; each can be checked by adding it to
the configuration of its module's run.

| Statement | Module | What happens |
|---|---|---|
| `ReaderSeesMarker` | `AuthorityLedger` | the comment on `commitPreparedDispatch` promises that no reader sees a dispatch without its marker; a failed second append shows one until a sweep |
| `PublishedBeforeSettled` | `DispatchCoordinator` | retiring a dead lock owner cancels reservations before anything is published or refunded |
| `AppendsKept` | `DecisionSink` | a live owner taken for dead loses an append that was reported as done |
| `RecoveryLeaseExclusive`, `CanResume` | `InspectionInit` | after the death of a recovering run two runs may clear its lease, the later one that of the earlier; an artifact whose state could not be written blocks every later run |
| `RollbackCanRestart` | `BootstrapTransaction` | a rollback that dies or fails after it removed the generation and before it removed the journal cannot be taken up by the next run |
| `BoundStepsHaveKeys` | `StateBinding` | a prune that read the file before an approval removes the key the approval made |
| `CallBeforeResult` | `TraceRecording` | of two interleaved calls a result may stand before its call |
| `OwnArtifactAccepted` | `ConnectionInventory` | a usable connection of the kind "host-private" makes every initialization throw |
| `NoLineDropped` | `PolicyFile` | the comment on the parser, "never silently drops or misreads a line" (`policy.ts:107-114`): a key given twice starts its list again (143-146) |

Further divergences are stated as exceptions of the properties: the coverage report
calls a server that the bootstrap pinned unwrapped; an install does not know a proxy
of the user's own and wraps it again; a second install backs up wrapped entries, so
that an uninstall restores them; a stale plan overwrites edits that no backup holds;
wrapping drops an entry's `env`; one plugin registered twice, or a Codex plugin
without a manifest, makes a discovery throw; once downgraded in a chain of
refreshes, a route can never be called observed again.

## 5. What is proved

Every theorem is about the specification of its module for all values of the
constants: any set of intents, writers, reservations, contenders, operators or
requests, any bounds, any number of failures and deaths.  They assume only the
named assumptions of the modules, that the constants are of their types and that
"free", "none" and the like are not among the processes or contents; the
assumptions are evaluated by TLC in every run.

| Module | Theorem | Property | Run |
|---|---|---|---|
| `AuthorityLedgerProofs` | `Typing` | `TypeOK` | `ledger_identity` |
| `AuthorityLedgerProofs` | `ReservationsAreUnique` | `UniqueReservations` | `ledger_identity` |
| | `LimitsHold` | `LimitCapacity` | `ledger_limits` |
| | `LeftoversAreAccepted` | `NoSpuriousCorruption` | `ledger_limits` |
| | `PermissionGivenOnce` | `PermissionOnce` | `ledger_identity` |
| | `SweepsSpareStarted` | `SweepSparesStarted` | `ledger_identity` |
| | `DecisionsAreFinal` | `DecisionsStand` | `ledger_identity` |
| | `LedgerImplementsRegistry` | `ImplementsRegistry` | `ledger_identity` |
| `DelegationBudgetProofs` | `BudgetTyping`, `ChildrenFit`, `UnderflowIsAfterRelease` | `BudgetTypeOK`, `WithinEffects`, `UnderflowOnlyAfterRelease` | |
| | `RevocationFreezes` | `RevokedIsFrozen` | `stores` |
| | `AuditHolds` | `AuditAgrees` | `stores` |
| `SignedJournalProofs` | `JournalTyping`, `RefusalsAreOfTornFiles` | `TypeOK`, `RefusedOnlyIfTorn` | |
| | `HeadLagsByOne` | `HeadLag` | `stores` |
| | `LeasedJournalLoads` | `LoadsAgain` | `stores` |
| `DispatchCoordinatorProofs` | `CoordinatorTyping` | `TypeOK` | |
| | `RestartNeverResends` | `SentOnce` | `dispatch_recovery` |
| | `BudgetIsTrue` | `BudgetFollowsEffect` | `dispatch_recovery` |
| | `EndsAreProven` | `EndsAreTrue` | `dispatch_recovery` |
| `HostServicesProofs` | `LockIsExclusive` | `LockExclusive` | `host_services` |
| | `DeathsAreSettled` | `DeathsSettle` | `host_services` |
| | `ClaimsAreDecidedOnce` | `ClaimsDecideOnce` | `host_services` |
| | `AppendsStay` | `AppendedStays` | `host_services` |
| | `CallersAreToldTheTruth` | `CallsAreTrue` | `host_services` |
| | `ReleaseWritesOnce` | `WrittenOnce` | `host_services` |
| | `GrantsAreKept` | `GrantsStand` | `host_services` |
| | `SessionsAreKept` | `SessionsStand` | `host_services` |
| `AgentRunsProofs` | `OpenProjectsAreWhole` | `OpenProjectIsWhole` | `agent_runs` |
| | `ApprovalsAreKept` | `ApprovalsHold` | `agent_runs` |
| | `RecordsStayAnswered` | `RecordsAreAnswered` | `agent_runs` |
| | `CheckpointsAreKept` | `CheckpointsStand` | `agent_runs` |
| | `WritesAreApproved` | `WritesStand` | `agent_runs` |
| | `DuplicatesAreFlagged` | `DuplicatesFlagged` | `agent_runs` |
| | `TracesAreTrue` | `TraceIsTrue`, half of `RecordingsHold` | `agent_runs` |
| `ProjectToolsProofs` | `ReleasesAreAsSigned` | `ReleaseIsAsSigned` | `project_tools` |
| | `ConfigsAreKept` | `ConfigsSurvive` | `project_tools` |
| | `CertificationsAreTrue` | `CertificationIsTrue` | `project_tools` |
| | `CertifiedStandsTheorem` | `CertifiedStands` | `project_tools` |
| | `VerifiedReceiptsStand` | `VerifiedStands` | `agent_runs` |
| | `PolicyIsAsWritten` | `PolicyAsWritten` | `project_tools` |
| `ConnectionProofs` | `ConnectionsAgreeTheorem` | `ConnectionsAgree`, of `ServersAreKnown` | `project_tools` |
| | `CoverageIsHonestTheorem` | `CoverageIsHonest`, of `ServersAreKnown` | `project_tools` |
| | `ServersAreKnownTheorem` | `ServersAreKnown` | `project_tools` |

None of the properties is inductive but the types.  What each proof adds:

**The ledger's stores** (`IInv` in `AuthorityLedgerProofs`).  `StoreInv` is what
holds of the files whoever died where.  Its core is `OnePending`, at most one
transaction is undecided, and `ClaimOwners`, a claim belongs to a committed
reservation or to the one undecided transaction, and then that transaction's
verdict is still to commit and the claim is one it wants.  `HolderInv` is what the
operation holding the lock knows: `prepare` has settled everything before the
operation writes ahead a transaction of its own.  That a second reservation cannot
take a claim follows from the claim having an owner that is committed; that one
which crashed halfway can be finished follows from its verdict not changing, because
the verdict depends on committed reservations only (`StableView`) and nobody else can
commit while it is undecided.  The slot indices follow from taking the first free
one (`FirstFree`), which keeps the used ones an initial segment.

**The ledger's promises** (`PInv`).  What has been promised so far agrees with the
journal (`PromisesKept`), so does what the operation at work is about to promise
(`PromiseDue`), and no record is younger than the high-water mark (`ClockCovers`),
without which a dispatch could be granted outside its capability's lifetime.  The
refinement maps a commit marker to a registry step whose guard asks for room under
every limit; the indices of a limit's holders are 0 to n-1, so that a free index
exists exactly when there is room.

**The budget.**  The invariant `TreeInv` says that parents are live, lineages are
closed under parents and a node is not its own ancestor.  Sums over descendants
change by what one node changes on its path; the lemmas on sums are proved from the
smallest set on which two functions differ, as induction over a set is not available
to the provers.  The audit then follows event by event.

**The journal.**  Five cases say how head, announcement and events may stand to one
another (`Kept`), and the place of the lease holder says which of them it is in
(`Located`).  The hypothesis `Readers = {}` is needed: `journal_reader` shows the
run in which a reader without the lease breaks it.

**The coordinator.**  `CoordinatorInv` has three parts: types; `Alone`, one call at
a time works on a reservation; and `Settled`, what each place in a call implies for
status, receipts, budget and sends.  The essential fact is that a reservation whose
unit was given back is `Past`: no continuation of any call can still send it.

**The ledger's lock.**  Without a crowd the fence is the exclusion.  With one, two
processes may be elected, and the lock itself excludes them: a rename onto an
existing directory fails.  `LockInv` says what each place of a contender knows of the
names it goes by, and that a marker's owner is one that died in the lock or let it go.

**The gate.**  `GateInv`: of all calls at most one reserves, and its place fixes
what the reservation and the primary decision are.

**The decision file.**  While no live owner was ousted, the lock names the one owner
inside, and the copy it holds is the file.

**Calls.**  One call at a time works on the decision; its place fixes the verdict
and the state of the reservation; an effect that was carried out has somebody at
work on it, a caller who was told, or a diagnostic.

**The release.**  A journal per effect: what was sent crossed the dispatching
boundary in the journal of its allocation, and an invocation before that boundary
finds nothing sent.

**The delegations.**  `CountedInv` holds always: what a file or copy lists was
counted.  `QuietInv` holds while no slow holder lost its lock and no first load came
late: then the registry's lock has one holder, whose reading of the file is fresh.

**The sessions.**  `HandsInv` says who holds which token: a drawn, unrevoked token is
in the hands of one activation or an orphan, and a token file is one that an activation
wrote or an orphan's.  While no lock was stolen, `WorkInv` adds that one operator at a
time is between reading the file and letting go, and that no profile has two tokens
that stand.

**The bootstrap.**  `BootInv`: with no lock the project is whole or untouched; under
one, `PreparationStands` says what each step of a preparation finds done, and
`RollbackStands` what a rollback has undone by each of its steps, so that a death
between any two leaves a transaction whose journal tells the next run what is left.

**The approvals.**  `BindInv`: a skill file, on disk or in a command's memory, holds
approvals that were asked for (`Agreed`) and names keys that are in the keystore or
that a prune found unnamed (`KeysKnown`), and whoever updates the keystore holds its
lock and has read it as it is (`Updating`).  The last part did not go through at
first: the model let an approve that mints twice keep its first reading of the
keystore, which the code reads again under each lock, and the run, whose approve has
one step to mint for, could not tell.  The model was corrected; an instance with two
such steps (22 million states) passes as well, but takes too long to be a run.

**The ledgers of runs.**  `LedgerInv`: a resolution in progress answers nothing that
the lines it read answer, and a push in progress has passed only records the cloud
has pronounced on, as far as the cursors it will write.

**The inspection.**  `InspectionKept` holds until a run clears the lease of a live
one.  Then a run that holds the lock is its only holder, one that sweeps holds the
lease over a lock of the dead, and nobody holds the lock meanwhile (`Owns`);
temporary files are the holder's (`Sweeps`); and what the holder has loaded is what
is completed (`Loads`), so that the report it writes is on the artifacts beside it.

**The replay.**  `RunnerInv`: the step at hand was permitted before anything of it went
out (`PermittedSoFar`), a heal changes neither its effect nor its binding, and a write
that went out is entered among the run's writes by the time its step goes on
(`EnteredSoFar`), unless the step failed, which ends the run.  The first step of every
run needs a skill to have one, which `parseSkill` sees to; the model's assumption on
`Skills` now says so.

**The release's authorization.**  `ReleaseKept`: whatever is in an output directory, or in the envelope
a workflow carries, is what one ceremony composed and then verified itself
(`Composed`), so a set has one manifest, one plan and one policy.  A workflow that
mixes the files of two sets passes only when they agree on the candidate, since every
part is checked against the bundle's copy of it; `PassedAsSigned` follows.

**The configurations.**  `ConfigsKept`: a plan changes no server's name unless it restores
a backup, and only an install goes on to write one (`EditsFit`); the newest backup has
every server the user made and saved (`NewestBackup`); and a proxy written by an install
stands in the file, or in a backup, only over an earlier backup (`ProxiesFollowBackups`).
So what an uninstall restores has every saved server, and has proxies only when it is
a second install's.

**The certification.**  `LabelsInv`: what a phase in the journal says (`Says`) stays true
once it is, since no reservation goes back, so it is enough to show it when a save is
asked for (`SaveStands`).  The hard part is a refused cleanup, as a cleanup holds no
lock: a recovery takes one for unsent because the head of a readable journal says so,
and that needs the generations to be gapless and, unless two writers made a pair of
equal rank, which no reader accepts any more, in order (`JournalKept`, `RankStands`).
Then nothing was sent, and a cleanup that is under way meets a recovery only with its
publication not staged, which makes the recovery give up (`RecoveryStands`).

**The workspace and the permits.**  `WorkspaceKept`: no two preparers are past the same
step for different commitments (`PreparersStand`), and each reading of an input in the
preflight fits those before it (`ReadingFits`), so a candidate is coherent when it is
sealed and a signature adds nothing to it.  `PermitsKept`: the cell is the one of the
attempt under way, as far as it has come (`ActivationStands`); a snapshot between its
two readings knows only extensions of what it began with (`ReadingsStand`); and unless
observers overlapped, the observation file is never behind what was seen
(`ObservationStands`).

**The continuity ledger.**  `ContinuityKept`: one agent holds the lock (`OneWriter`),
what was checked fits the directory until it is renamed (`CheckedFits`), a temporary
file is the lock holder's, and every directory folds to a legal state of which no
earlier receipt is taken back (`DirectoryKept`).  The fold over a whole history is a
`CHOOSE` of a function that its recursion determines: any two such functions agree,
since there is no first place at which they differ.  What a fold preserves is shown in
the same way, by the smallest prefix that would break it, so no induction is needed.

**The policy.**  `IsAsWritten` says what the reading of the first k lines holds: the open
list is the one opened last (`ListIsOpen`), the lists are lists, and every line read so
far is held with its key and value, unless its list was started again
(`LineIsHeld`); it is shown for all k by the first k for which it fails.
Nothing is assumed of a file but the shapes of its lines.

**The connections.**  `InventoryKept`: an entry is what some server was inspected to, or
a file that normalizes (`EntryStands`), and what was made of it later is a function of
it (`LaterStands`).

**The survey.**  `SurveyKept` has one part that holds always: the shapes of what was read,
and that the evidence has the stamps of the disk it was taken from, which is all that a
refresh needs.  The other part holds while no edit straddled the reading: a server that
was found behind the proxy is so on the disk (`Proxied`), a plugin that is enabled for
certain still awaits its inspection or was reported, and every file a report stands on
was inspected.  Both sides of it read the disk differently: the code
goes once over the lines of a configuration and keeps an open section, the property
speaks of two lines without a header between them.  That they agree (`SectionsStand`) is
shown by the first line after which they would not, as are the facts on `Among`.
Of a disk it assumes (`SurveyAssumption`) that its files have the forms the readers tell apart, that
no plugin's directory is that of the host's own files, and that all disks of a host have
the same names for files, of which any may be missing.
The proof corrected the model: what a row's digest covers includes the row's own
observation (`routes/adapters.ts:149`); the report and the stamps alone do not say that a
route was observed before, as the report leaves out which file a server was found in.

**The recording.**  `TraceKept` is about the log of a file: its lines on disk, and then the
queued appends, those of other files as blanks; so an append that reaches the disk
changes no log, and a failed one cuts it.  A log with one start is true up to any of its
places (`LogsHold`), and while the window is open on a file, its state is what its own
log gives: a leaf is in the index where the log has its value, and the gaps are the
results that were not addressed (`OpenStands`).  A second start of the same file spoils
the premise of both properties for the rest of the file.  The proof found two places
where the order of a model's expression was read in two ways by the tools (an `@` in an
`@`, and overlapping cases); they are written so that there is one reading.

Only model-checked, and why:

- liveness (`PendingDecided`, `JournalGoesOn`, `SettlesUnlessWedged`): fairness and
  ENABLED are out of the provers' reach;
- `ReplayRepeatsRecording`, the other half of `RecordingsHold`: what a fold over the values
  of a result within a fold over the calls of a session compiles to, under names that
  are made from numbers, is an induction over data in two dimensions;
- the compositions of `MC` modules: their parts do not interact, and each part's
  theorem is about its own specification.

## 6. Plan

Done: all components of section 1 as modules, their runs, and the theorems above.

Next:

1. `ReplayRepeatsRecording` for sessions of one call, where its outer fold is no fold.
2. `DispatchCoordinator` with a second process whose `recover()` overlaps a live
   dispatch; `TicketLease` for the queue behind the journal's lease.
3. The commands of `cli.ts` that only read, and the governed receipts, if their chain
   is ever separated from `receipts.ts`.

## 7. What is not modelled

- Digests, signatures and canonical encodings: a digest is the identity of what it
  covers.  The bytes of requests and receipts, and what is printed.
- Governed receipts, contracts, clients, drivers and the network, deployment and
  secrets, packs: pure parsing, input and output, or the same chain a second time;
  `PROJECT.json` gives each one's reason.
- In the ledger: the admission slots that only a test option enables, and the time
  budgets that meter the housekeeping of the fence.  In the journal: the tickets
  behind its lease.
- A second process that recovers beside a live dispatch: the coordinator's modules
  assume the host's rule that a ledger has one process.
- The theft of the budget's lock from an owner that holds it longer than its timeout;
  the same hazard is modelled for the registry of grants and the file of principals.
- `launchCodexDogfood` and the certification runner that provisions and reports.

The definitions translate about a fifth of the implementation's lines.  Most of the
rest is validation of documents field by field, rendering of reports and command line
options, in which no state changes.
