-------------------------- MODULE ReleaseAuthorization --------------------------
(***************************************************************************)
(* The signed authorization of a release: the ceremonies that compose, sign   *)
(* and publish an artifact set (scripts/sign-release-authorization.mjs), the    *)
(* publish workflow's check of a set that came by an untrusted carrier           *)
(* (scripts/verify-release-authorization.mjs), and the contract both call,       *)
(* with the receipt graph judged afterwards (src/authority/release-contracts.ts). *)
(*                                                                         *)
(* A digest is what it digests, a signature the key it was made with.  The three  *)
(* quality lanes are one, and so are the receipt lanes of one kind.  Twelve        *)
(* hours are Window ticks.                                                  *)
(***************************************************************************)
EXTENDS Naturals, FiniteSets

CONSTANTS
    Ceremonies,         \* runs of the signing script
    ParameterFiles,     \* base, commit, files, expectedTree, tarball, workflow, quality, isoDates
    KeyRings,           \* the keys of a ceremony: authorization, evidence, maker
    PinnedKey,          \* the committed trust pin
    Heads,              \* checkouts a workflow may stand on: tree and parent
    Tarballs,           \* packed tarballs it may hold
    OutputPaths,        \* directories a set may be published in
    Instants,           \* when a set may be issued: now, or as given by hand
    Window, MaxClock

ASSUME AuthorizationAssumption == Window \in Nat \ {0} /\ MaxClock \in Nat

VARIABLES
    now,
    ceremony,       \* every signing run under way
    directory,      \* the artifact set in every output path
    envelope,       \* the transport envelope written beside it
    verified,       \* the authorization verified last, by whom and with what
    receipts        \* the receipt graph accepted for it

releaseVars == <<now, ceremony, directory, envelope, verified, receipts>>

NoSet == [none |-> TRUE]
NoCeremony == [at |-> "idle", set |-> NoSet, out |-> ""]

AuthorizationInit ==
    /\ now = 0 /\ ceremony = [c \in Ceremonies |-> NoCeremony]
    /\ directory = [o \in OutputPaths |-> NoSet] /\ envelope = [o \in OutputPaths |-> NoSet]
    /\ verified = NoSet /\ receipts = NoSet

SignedBy(key, value) == [key |-> key, value |-> value]
InWindow(time, bundle) == bundle.issued <= time /\ time < bundle.issued + Window
-----------------------------------------------------------------------------
(* The contract. *)

(* A plan's dates must be in the canonical form, which the parameters need not be. *)
parseReleaseOperationPlan(plan) == plan.isoDates

(* Manifest and plan describe one candidate. *)
PlanMatchesManifest(plan, manifest) ==
    /\ manifest.files = plan.files /\ manifest.commit = plan.commit
    /\ manifest.workflow = plan.workflow /\ manifest.base = plan.base

verifyQualityEvidence(set, time) ==
    LET bundle == set.bundle.value
        manifest == set.manifest.value
        body == set.evidence.value
    IN /\ set.evidence.key = bundle.evidenceKey
       /\ body.bundle = NoSet /\ body.commit = manifest.commit
       /\ body.workflow = manifest.workflow /\ body.subject = manifest.quality
       /\ InWindow(body.observed, bundle) /\ body.observed <= time

LinkedLoosely(bundle, set) ==  \* mutant: the digest of the plan is not compared
    bundle.manifest = set.manifest.value /\ bundle.policy = set.policy.value
Linked(bundle, set) ==
    /\ bundle.manifest = set.manifest.value /\ bundle.plan = set.plan.value
    /\ bundle.policy = set.policy.value

verifyReleaseAuthorizationBundle(set, key, time) ==
    LET bundle == set.bundle.value
    IN /\ \A artifact \in {set.bundle, set.manifest, set.plan, set.policy} : artifact.key = key
       /\ parseReleaseOperationPlan(set.plan.value)
       /\ Linked(bundle, set) /\ PlanMatchesManifest(set.plan.value, set.manifest.value)
       /\ InWindow(time, bundle)
       /\ Cardinality({key, bundle.makerKey, bundle.evidenceKey}) = 3
       /\ verifyQualityEvidence(set, time)
-----------------------------------------------------------------------------
(* A signing ceremony.  A failure before the set is published leaves nothing; one    *)
(* after it leaves the set without its envelope.                                 *)

Manifest(f) == [base |-> f.base, commit |-> f.commit, files |-> f.files, tarball |-> f.tarball,
                workflow |-> f.workflow, quality |-> f.quality]
Plan(f) == [base |-> f.base, commit |-> f.commit, files |-> f.files, workflow |-> f.workflow,
            expectedTree |-> f.expectedTree, isoDates |-> f.isoDates]
ReleasePolicy == [reviewed |-> TRUE]
Compose(f, keys, issued) ==
    [manifest |-> SignedBy(keys.authorization, Manifest(f)),
     plan |-> SignedBy(keys.authorization, Plan(f)),
     policy |-> SignedBy(keys.authorization, ReleasePolicy),
     bundle |-> SignedBy(keys.authorization,
         [manifest |-> Manifest(f), plan |-> Plan(f), policy |-> ReleasePolicy, issued |-> issued,
          evidenceKey |-> keys.evidence, makerKey |-> keys.maker]),
     evidence |-> SignedBy(keys.evidence,
         [bundle |-> NoSet, commit |-> f.commit, workflow |-> f.workflow, subject |-> f.quality,
          observed |-> issued])]

(* Up to the self-verification: the tarball is measured, a trust pin may be compared, *)
(* and the issue instant may be given by hand.                                    *)
ComposeSet(c) ==
    /\ ceremony[c].at = "idle"
    /\ \E f \in ParameterFiles, keys \in KeyRings, issued \in Instants, tarball \in Tarballs,
          pinned \in BOOLEAN, out \in OutputPaths :
          /\ directory[out] = NoSet
          /\ Cardinality({keys.authorization, keys.evidence, keys.maker}) = 3
          /\ pinned => keys.authorization = PinnedKey
          /\ tarball = f.tarball
          /\ LET set == Compose(f, keys, issued)
             IN /\ verifyReleaseAuthorizationBundle(set, keys.authorization, issued)
                /\ ceremony' = [ceremony EXCEPT ![c] =
                     [at |-> "publish", set |-> set, out |-> out]]
    /\ UNCHANGED <<now, directory, envelope, verified, receipts>>

EndCeremony(c) == ceremony' = [ceremony EXCEPT ![c] = [NoCeremony EXCEPT !.at = "ended"]]

(* The set is staged beside its path and renamed there; a directory that is not empty *)
(* is not replaced.  An envelope is written after it if one was asked for.           *)
PublishSet(c) ==
    LET out == ceremony[c].out
    IN /\ ceremony[c].at = "publish"
       /\ IF directory[out] # NoSet THEN EndCeremony(c) /\ UNCHANGED directory
          ELSE /\ directory' = [directory EXCEPT ![out] = ceremony[c].set]
               /\ ceremony' = [ceremony EXCEPT ![c].at = "envelope"] \/ EndCeremony(c)
       /\ UNCHANGED <<now, envelope, verified, receipts>>

WriteEnvelope(c) ==
    LET out == ceremony[c].out
    IN /\ ceremony[c].at = "envelope"
       /\ envelope' = IF envelope[out] # NoSet THEN envelope
                      ELSE [envelope EXCEPT ![out] = ceremony[c].set]
       /\ EndCeremony(c)
       /\ UNCHANGED <<now, directory, verified, receipts>>

DieSigning(c) ==
    /\ ceremony[c].at \in {"publish", "envelope"} /\ EndCeremony(c)
    /\ UNCHANGED <<now, directory, envelope, verified, receipts>>
-----------------------------------------------------------------------------
(* The carrier and the workflow. *)

Published == {directory[o] : o \in OutputPaths} \ {NoSet}
Enveloped == {envelope[o] : o \in OutputPaths} \ {NoSet}

(* A carrier ref is written by hand, from the files of the sets that were published. *)
FilesOf(part) == {set[part] : set \in Published}
Carried == [bundle : FilesOf("bundle"), manifest : FilesOf("manifest"), plan : FilesOf("plan"),
            policy : FilesOf("policy"), evidence : FilesOf("evidence")]

(* The workflow's check: contract, then the checkout and the tarball if asked for. *)
VerifyRelease ==
    /\ verified = NoSet
    /\ \E set \in Carried \cup Published \cup Enveloped,
          head \in Heads \cup {NoSet}, tarball \in Tarballs \cup {""} :
          /\ verifyReleaseAuthorizationBundle(set, PinnedKey, now)
          /\ head # NoSet =>
               head = [tree |-> set.plan.value.expectedTree, parent |-> set.plan.value.base]
          /\ tarball # "" => tarball = set.manifest.value.tarball
          /\ verified' = [set |-> set, at |-> now, head |-> head, tarball |-> tarball]
    /\ UNCHANGED <<now, ceremony, directory, envelope, receipts>>
-----------------------------------------------------------------------------
(* The receipt graph: a lane read back from a provider, one installed and fresh for   *)
(* a while, and the authorization by a human.  The evidence is of any authorization    *)
(* known, and the graph is judged when it is made.                                  *)

ReceiptLanes == {"provider", "installed", "human"}
KnownBundles == {set.bundle.value : set \in Published}
Evidence(lane) ==
    [bundle : KnownBundles, lane : {lane}, status : {"verified", "pending"}, observed : 0..now,
     freshFor : IF lane = "installed" THEN {0, 1} ELSE {0},
     count : IF lane = "human" THEN {0, 1} ELSE {0}]

(* A lane of the graph says what its evidence says; a fresh one is fresh at the time *)
(* of the graph if it counts as verified, and one human authorized.                *)
LaneHolds(body, at) ==
    /\ body.lane = "installed" =>
          /\ body.freshFor > 0
          /\ body.status = "verified" => at < body.observed + body.freshFor
    /\ body.lane # "installed" => body.freshFor = 0
    /\ body.lane # "human" => body.count = 0
    /\ body.lane = "human" /\ body.status = "verified" => body.count = 1

verifyReceiptEvidence(body, lane, bundle, at) ==
    /\ body.bundle = bundle /\ body.lane = lane
    /\ LaneHolds(body, at)
    /\ bundle.issued <= body.observed /\ body.observed <= at

Accepted(lane, bundle, at) ==
    {body \in UNION {Evidence(l) : l \in ReceiptLanes} : verifyReceiptEvidence(body, lane, bundle, at)}

VerifyReceiptGraph ==
    /\ verified # NoSet /\ receipts = NoSet
    /\ LET bundle == verified.set.bundle.value
       IN /\ InWindow(now, bundle)
          /\ \E provider \in Accepted("provider", bundle, now), human \in Accepted("human", bundle, now),
                installed \in Accepted("installed", bundle, now) :
                 receipts' = [at |-> now, lanes |-> {provider, human, installed},
                              success |-> \A body \in {provider, human, installed} :
                                              body.status = "verified"]
    /\ UNCHANGED <<now, ceremony, directory, envelope, verified>>

Hour ==
    /\ now < MaxClock /\ receipts = NoSet /\ now' = now + 1
    /\ UNCHANGED <<ceremony, directory, envelope, verified, receipts>>

AuthorizationNext ==
    \/ /\ verified = NoSet     \* a behaviour follows the release once it was verified
       /\ \E c \in Ceremonies : \/ ComposeSet(c) \/ PublishSet(c) \/ WriteEnvelope(c)
                                \/ DieSigning(c)
    \/ VerifyRelease \/ VerifyReceiptGraph \/ Hour

AuthorizationSpec == AuthorizationInit /\ [][AuthorizationNext]_releaseVars
-----------------------------------------------------------------------------
(* Ceremonies are at their stages, the clock is within its bound. *)
AuthorizationTypeOK ==
    /\ now \in 0..MaxClock
    /\ \A c \in Ceremonies :
          ceremony[c].at \in {"idle", "publish", "envelope", "ended"}

(* Whatever was put on the carrier, a workflow that passes stands on the tree and holds *)
(* the tarball of one ceremony's parameters, within that ceremony's twelve hours, and    *)
(* with evidence about the very candidate (verify-release-authorization.mjs); a receipt   *)
(* graph is a success only on evidence about that authorization, none of it older than    *)
(* it or stale (verifyReleaseReceiptGraphV1); and a published set signed with the pinned   *)
(* key passes for twelve hours (sign-release-authorization.mjs: "held to the production     *)
(* verifier before a single byte reaches disk").                                        *)
PassedAsSigned ==
    verified # NoSet =>
        \E f \in ParameterFiles :
            LET set == verified.set
                bundle == set.bundle.value
            IN /\ bundle.manifest = Manifest(f) /\ bundle.plan = Plan(f)
               /\ InWindow(verified.at, bundle)
               /\ verified.head # NoSet => verified.head = [tree |-> f.expectedTree, parent |-> f.base]
               /\ verified.tarball # "" => verified.tarball = f.tarball
               /\ set.evidence.value.commit = f.commit /\ set.evidence.value.subject = f.quality
ReceiptsAreOfIt ==
    receipts # NoSet /\ receipts.success =>
        /\ {body.lane : body \in receipts.lanes} = ReceiptLanes
        /\ \A body \in receipts.lanes :
              /\ body.status = "verified" /\ body.bundle = verified.set.bundle.value
              /\ body.observed >= body.bundle.issued
              /\ body.lane = "installed" => receipts.at < body.observed + body.freshFor
PublishedPasses ==
    \A set \in Published :
        set.bundle.key = PinnedKey /\ InWindow(now, set.bundle.value) =>
            verifyReleaseAuthorizationBundle(set, PinnedKey, now)
ReleaseIsAsSigned == PassedAsSigned /\ ReceiptsAreOfIt /\ PublishedPasses
=============================================================================
