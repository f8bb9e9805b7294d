--------------------------- MODULE ProjectToolsProofs ---------------------------
(***************************************************************************)
(* Proofs about the tools beside the ledger, for any number of runs, edits, deaths  *)
(* and ticks of the clock: the release that passes the workflow, the configurations     *)
(* of hosts that commands and users rewrite, the effects of a certification, the        *)
(* workspaces and permits that stand on one reading, the continuity ledger of a task      *)
(* and the policy a run reads.                                                            *)
(***************************************************************************)
EXTENDS ReleaseAuthorization, HostConfigs, LabelsCertification, DispatchPermits,
        ContinuityLedger, PolicyFile, FiniteSetTheorems, SequenceTheorems,
        WellFoundedInduction, TLAPS

-----------------------------------------------------------------------------
(* The signed authorization of a release: what was published was composed, and what passes *)
(* is one candidate. *)

(* What a ceremony composed, and verified itself before it went on. *)
Composed(set) ==
    \E f \in ParameterFiles, keys \in KeyRings, issued \in Instants :
        /\ set = Compose(f, keys, issued)
        /\ verifyReleaseAuthorizationBundle(set, keys.authorization, issued)
SetsAreComposed ==
    /\ DOMAIN ceremony = Ceremonies
    /\ \A c \in Ceremonies :
          /\ DOMAIN ceremony[c] = {"at", "set", "out"}
          /\ ceremony[c].at \in {"publish", "envelope"} => Composed(ceremony[c].set)
    /\ DOMAIN directory = OutputPaths /\ \A o \in OutputPaths : directory[o] = NoSet \/ Composed(directory[o])
    /\ DOMAIN envelope = OutputPaths /\ \A o \in OutputPaths : envelope[o] = NoSet \/ Composed(envelope[o])

ReleaseKept ==
    /\ SetsAreComposed /\ PassedAsSigned /\ ReceiptsAreOfIt
    /\ receipts # NoSet => verified # NoSet

(* The parts of a composed set, whatever the parameters. *)
LEMMA ComposedParts ==
    ASSUME NEW f, NEW keys, NEW issued, NEW set, set = Compose(f, keys, issued)
    PROVE  /\ set.bundle.key = keys.authorization /\ set.manifest.key = keys.authorization
           /\ set.plan.key = keys.authorization /\ set.policy.key = keys.authorization
           /\ set.evidence.key = keys.evidence
           /\ set.manifest.value = Manifest(f) /\ set.plan.value = Plan(f) /\ set.policy.value = ReleasePolicy
           /\ set.bundle.value.manifest = Manifest(f) /\ set.bundle.value.plan = Plan(f)
           /\ set.bundle.value.policy = ReleasePolicy /\ set.bundle.value.issued = issued
           /\ set.bundle.value.evidenceKey = keys.evidence /\ set.bundle.value.makerKey = keys.maker
           /\ set.evidence.value.observed = issued
<1> HIDE DEF Manifest, Plan, ReleasePolicy
<1> QED
    BY DEF Compose, SignedBy

(* A set that its ceremony verified passes under its key for as long as its window is open. *)
LEMMA ComposedPasses ==
    ASSUME NEW set, Composed(set), NEW key, set.bundle.key = key, NEW time, InWindow(time, set.bundle.value)
    PROVE  verifyReleaseAuthorizationBundle(set, key, time)
<1>1. PICK f \in ParameterFiles, keys \in KeyRings, issued \in Instants :
         set = Compose(f, keys, issued) /\ verifyReleaseAuthorizationBundle(set, keys.authorization, issued)
    BY DEF Composed
<1>2. keys.authorization = key /\ set.bundle.value.issued = issued /\ set.evidence.value.observed = issued
    BY <1>1, ComposedParts
<1>3. verifyQualityEvidence(set, time)
    BY <1>1, <1>2 DEF verifyReleaseAuthorizationBundle, verifyQualityEvidence, InWindow
<1> QED
    BY <1>1, <1>2, <1>3 DEF verifyReleaseAuthorizationBundle

(* Whatever passes describes one candidate, the one of the parameters of its bundle. *)
LEMMA PassesOneCandidate ==
    ASSUME NEW set, NEW b, Composed(b), set.bundle = b.bundle, NEW key, NEW time,
           verifyReleaseAuthorizationBundle(set, key, time)
    PROVE  \E f \in ParameterFiles :
              /\ set.bundle.value.manifest = Manifest(f) /\ set.bundle.value.plan = Plan(f)
              /\ set.manifest.value.tarball = f.tarball
              /\ set.plan.value.expectedTree = f.expectedTree /\ set.plan.value.base = f.base
              /\ set.evidence.value.commit = f.commit /\ set.evidence.value.subject = f.quality
<1>1. PICK f \in ParameterFiles, keys \in KeyRings, issued \in Instants : b = Compose(f, keys, issued)
    BY DEF Composed
<1>2. set.bundle.value.manifest = Manifest(f) /\ set.bundle.value.plan = Plan(f)
    BY <1>1, ComposedParts
<1>3. set.manifest.value = Manifest(f) /\ set.plan.value = Plan(f)
    BY <1>2 DEF verifyReleaseAuthorizationBundle, Linked
<1>4. set.evidence.value.commit = Manifest(f).commit /\ set.evidence.value.subject = Manifest(f).quality
    BY <1>3 DEF verifyReleaseAuthorizationBundle, verifyQualityEvidence
<1>5. /\ Manifest(f).commit = f.commit /\ Manifest(f).quality = f.quality /\ Manifest(f).tarball = f.tarball
      /\ Plan(f).expectedTree = f.expectedTree /\ Plan(f).base = f.base
    BY DEF Manifest, Plan
<1> QED
    BY <1>2, <1>3, <1>4, <1>5

LEMMA ReleaseStarts == AuthorizationInit => ReleaseKept
<1>1. DOMAIN NoCeremony = {"at", "set", "out"} /\ NoCeremony.at = "idle"
    BY DEF NoCeremony
<1>2. AuthorizationInit => SetsAreComposed
    BY <1>1 DEF AuthorizationInit, SetsAreComposed
<1> QED
    BY <1>2 DEF AuthorizationInit, ReleaseKept, PassedAsSigned, ReceiptsAreOfIt

(* A step that verifies nothing and judges nothing leaves what was. *)
LEMMA NothingVerified ==
    ASSUME ReleaseKept, UNCHANGED <<verified, receipts>>, SetsAreComposed'
    PROVE  ReleaseKept'
BY DEF ReleaseKept, PassedAsSigned, ReceiptsAreOfIt

LEMMA CeremonySteps ==
    ASSUME ReleaseKept, NEW c \in Ceremonies,
           ComposeSet(c) \/ PublishSet(c) \/ WriteEnvelope(c) \/ DieSigning(c)
    PROVE  ReleaseKept'
<1>1. SetsAreComposed
    BY DEF ReleaseKept
<1>2. DOMAIN [NoCeremony EXCEPT !.at = "ended"] = {"at", "set", "out"}
      /\ [NoCeremony EXCEPT !.at = "ended"].at = "ended"
    BY DEF NoCeremony
<1>3. CASE ComposeSet(c)
    <2>1. PICK f \in ParameterFiles, keys \in KeyRings, issued \in Instants, out \in OutputPaths :
             /\ verifyReleaseAuthorizationBundle(Compose(f, keys, issued), keys.authorization, issued)
             /\ ceremony' = [ceremony EXCEPT ![c] =
                   [at |-> "publish", set |-> Compose(f, keys, issued), out |-> out]]
        BY <1>3 DEF ComposeSet
    <2>2. PICK set : set = Compose(f, keys, issued)
        OBVIOUS
    <2>3. Composed(set)
        BY <2>1, <2>2 DEF Composed
    <2>4. UNCHANGED <<directory, envelope, verified, receipts>>
        BY <1>3 DEF ComposeSet
    <2>5. SetsAreComposed'
        BY <1>1, <2>1, <2>2, <2>3, <2>4 DEF SetsAreComposed
    <2> QED BY <2>4, <2>5, NothingVerified
<1>4. CASE PublishSet(c)
    <2>1. UNCHANGED <<envelope, verified, receipts>> /\ Composed(ceremony[c].set)
        BY <1>1, <1>4 DEF PublishSet, SetsAreComposed
    <2>2. directory' = directory \/ directory' = [directory EXCEPT ![ceremony[c].out] = ceremony[c].set]
        BY <1>4 DEF PublishSet
    <2>3. ceremony' = [ceremony EXCEPT ![c].at = "envelope"] \/ EndCeremony(c)
        BY <1>4 DEF PublishSet
    <2>4. DOMAIN directory' = OutputPaths
          /\ \A o \in OutputPaths : directory'[o] = NoSet \/ Composed(directory'[o])
        BY <1>1, <2>1, <2>2 DEF SetsAreComposed
    <2>5. DOMAIN ceremony' = Ceremonies
          /\ \A d \in Ceremonies :
                /\ DOMAIN ceremony'[d] = {"at", "set", "out"}
                /\ ceremony'[d].at \in {"publish", "envelope"} => Composed(ceremony'[d].set)
        BY <1>1, <1>2, <2>1, <2>3 DEF SetsAreComposed, EndCeremony
    <2>6. SetsAreComposed'
        BY <1>1, <2>1, <2>4, <2>5 DEF SetsAreComposed, Composed
    <2> QED BY <2>1, <2>6, NothingVerified
<1>5. CASE WriteEnvelope(c) \/ DieSigning(c)
    <2>1. UNCHANGED <<directory, verified, receipts>> /\ EndCeremony(c) /\ Composed(ceremony[c].set)
        BY <1>1, <1>5 DEF WriteEnvelope, DieSigning, SetsAreComposed
    <2>2. envelope' = envelope \/ envelope' = [envelope EXCEPT ![ceremony[c].out] = ceremony[c].set]
        BY <1>5 DEF WriteEnvelope, DieSigning
    <2>3. DOMAIN envelope' = OutputPaths
          /\ \A o \in OutputPaths : envelope'[o] = NoSet \/ Composed(envelope'[o])
        BY <1>1, <2>1, <2>2 DEF SetsAreComposed
    <2>4. SetsAreComposed'
        BY <1>1, <1>2, <2>1, <2>3 DEF SetsAreComposed, EndCeremony
    <2> QED BY <2>1, <2>4, NothingVerified
<1> QED
    BY <1>3, <1>4, <1>5

LEMMA VerifyKeeps ==
    ASSUME ReleaseKept, VerifyRelease
    PROVE  ReleaseKept'
<1>1. PICK set \in Carried \cup Published \cup Enveloped, front \in Heads \cup {NoSet},
           tarball \in Tarballs \cup {""} :
         /\ verifyReleaseAuthorizationBundle(set, PinnedKey, now)
         /\ front # NoSet => front = [tree |-> set.plan.value.expectedTree, parent |-> set.plan.value.base]
         /\ tarball # "" => tarball = set.manifest.value.tarball
         /\ verified' = [set |-> set, at |-> now, head |-> front, tarball |-> tarball]
    BY DEF VerifyRelease
<1>2. /\ UNCHANGED <<ceremony, directory, envelope, receipts>> /\ verified = NoSet /\ SetsAreComposed
      /\ receipts = NoSet
    BY DEF VerifyRelease, ReleaseKept
<1>3. \E b : Composed(b) /\ set.bundle = b.bundle
    <2>1. \A s \in Published \cup Enveloped : Composed(s)
        BY <1>2 DEF Published, Enveloped, SetsAreComposed
    <2>2. CASE set \in Carried
        <3>1. set.bundle \in FilesOf("bundle")
            BY <2>2 DEF Carried
        <3>2. \A x \in FilesOf("bundle") : \E s \in Published : x = s.bundle
            BY DEF FilesOf
        <3> QED BY <2>1, <3>1, <3>2
    <2> QED BY <1>1, <2>1, <2>2
<1>4. PICK f \in ParameterFiles :
         /\ set.bundle.value.manifest = Manifest(f) /\ set.bundle.value.plan = Plan(f)
         /\ set.manifest.value.tarball = f.tarball
         /\ set.plan.value.expectedTree = f.expectedTree /\ set.plan.value.base = f.base
         /\ set.evidence.value.commit = f.commit /\ set.evidence.value.subject = f.quality
    BY <1>1, <1>3, PassesOneCandidate
<1>5. InWindow(now, set.bundle.value)
    BY <1>1 DEF verifyReleaseAuthorizationBundle
<1>6. PICK passed : passed = verified'
    OBVIOUS
<1>7. passed.set = set /\ passed.at = now /\ passed.head = front /\ passed.tarball = tarball
    BY <1>1, <1>6
<1>8. PassedAsSigned'
    BY <1>1, <1>4, <1>5, <1>6, <1>7 DEF PassedAsSigned, InWindow
<1>9. ReceiptsAreOfIt' /\ (receipts # NoSet => verified # NoSet)'
    BY <1>2 DEF ReceiptsAreOfIt
<1>10. SetsAreComposed'
    BY <1>2 DEF SetsAreComposed
<1> QED
    BY <1>8, <1>9, <1>10 DEF ReleaseKept

LEMMA ReceiptsKeep ==
    ASSUME ReleaseKept, VerifyReceiptGraph
    PROVE  ReleaseKept'
<1>1. PICK bundle : bundle = verified.set.bundle.value
    OBVIOUS
<1>2. PICK provider \in Accepted("provider", bundle, now), human \in Accepted("human", bundle, now),
           installed \in Accepted("installed", bundle, now) :
         receipts' = [at |-> now, lanes |-> {provider, human, installed},
                      success |-> \A body \in {provider, human, installed} : body.status = "verified"]
    BY <1>1 DEF VerifyReceiptGraph
<1>3. UNCHANGED <<ceremony, directory, envelope, verified>> /\ verified # NoSet
    BY DEF VerifyReceiptGraph
<1>4. \A lane, body : body \in Accepted(lane, bundle, now) =>
          /\ body.lane = lane /\ body.bundle = bundle /\ body.observed >= body.bundle.issued
          /\ body.lane = "installed" /\ body.status = "verified" => now < body.observed + body.freshFor
    BY DEF Accepted, verifyReceiptEvidence, LaneHolds
<1>5. PICK graph : graph = receipts'
    OBVIOUS
<1>6. graph.at = now /\ graph.lanes = {provider, human, installed}
      /\ (graph.success => \A body \in {provider, human, installed} : body.status = "verified")
    BY <1>2, <1>5
<1>7. {body.lane : body \in {provider, human, installed}} = ReceiptLanes
    BY <1>2, <1>4 DEF ReceiptLanes
<1>8. ReceiptsAreOfIt'
    BY <1>1, <1>2, <1>3, <1>4, <1>5, <1>6, <1>7 DEF ReceiptsAreOfIt
<1>9. PassedAsSigned' /\ SetsAreComposed'
    BY <1>3 DEF ReleaseKept, PassedAsSigned, SetsAreComposed
<1> QED
    BY <1>3, <1>8, <1>9 DEF ReleaseKept

LEMMA ReleaseSteps ==
    ASSUME ReleaseKept, [AuthorizationNext]_releaseVars
    PROVE  ReleaseKept'
<1>1. CASE Hour \/ UNCHANGED releaseVars
    <2>1. UNCHANGED <<ceremony, directory, envelope, verified, receipts>>
        BY <1>1 DEF Hour, releaseVars
    <2>2. SetsAreComposed'
        BY <2>1 DEF ReleaseKept, SetsAreComposed
    <2> QED BY <2>1, <2>2, NothingVerified
<1> QED
    BY <1>1, CeremonySteps, VerifyKeeps, ReceiptsKeep DEF AuthorizationNext

(* Whatever mixture of published files a carrier puts together, a release that passes     *)
(* the workflow is the one candidate of one ceremony's parameters, inside its window, and    *)
(* a successful receipt graph is about it (verify-release-authorization.mjs,                *)
(* verifyReleaseReceiptGraphV1).                                                        *)
THEOREM ReleasesAreAsSigned == AuthorizationSpec => []ReleaseIsAsSigned
<1>1. ReleaseKept => ReleaseIsAsSigned
    <2>1. ReleaseKept => PublishedPasses
        BY ComposedPasses DEF ReleaseKept, SetsAreComposed, PublishedPasses, Published
    <2> QED BY <2>1 DEF ReleaseKept, ReleaseIsAsSigned
<1> QED
    BY <1>1, ReleaseStarts, ReleaseSteps, PTL DEF AuthorizationSpec

-----------------------------------------------------------------------------
(* The configurations of hosts: the texts, the plans under way and the backups. *)

(* What a server can be behind: the user's own proxy or none, and one of ours around it. *)
Unwrapped == {<<>>, <<"direct">>}
Layerings == Unwrapped \cup {<<"npx">>, <<"pinned">>, <<"npx", "direct">>, <<"pinned", "direct">>}
ServerRec  == [id : Nat \ {0}, target : {"command"}, layers : Layerings]
              \cup [id : Nat \ {0}, target : {"url"}, layers : {<<>>}]
ConfigText == [form : {"missing", "malformed", "parsed"}, at : [Places -> {NoServer} \cup ServerRec]]
PlanRec    == [at : {"idle", "backup", "write", "settle"},
               command : {"none", "install", "prepare", "uninstall"},
               before : ConfigText, after : ConfigText]

(* A server is in one place, and was configured once. *)
Distinct(text) ==
    /\ \A p, q \in Places : text.at[p] # NoServer /\ text.at[p].id = text.at[q].id => p = q
    /\ \A id \in Ids(text) : id <= configCounts.servers
WellFormed(text) == text \in ConfigText /\ Distinct(text)
HasNpx(text) == \E place \in Places : \E i \in DOMAIN text.at[place].layers : text.at[place].layers[i] = "npx"

ConfigRecords ==
    /\ WellFormed(hostConfig)
    /\ hostBackups \in Seq(ConfigText) /\ \A i \in 1..Len(hostBackups) : WellFormed(hostBackups[i])
    /\ configCounts \in [servers : Nat, plans : Nat, edits : Nat, deaths : Nat]
    /\ reverted \in BOOLEAN

(* A plan under way keeps the servers of the text it read, unless it goes back to a backup, *)
(* and carries an install's proxy only behind one.                                       *)
EditFits(plan) ==
    /\ plan \in PlanRec /\ WellFormed(plan.before) /\ WellFormed(plan.after)
    /\ plan.at = "backup" => plan.command = "install"
    /\ plan.at = "settle" => plan.command = "prepare"
    /\ IF plan.command = "uninstall" THEN hostBackups # <<>> ELSE Ids(plan.after) = Ids(plan.before)
    /\ HasNpx(plan.before) => hostBackups # <<>>
    /\ plan.at \in {"write", "settle"} /\ HasNpx(plan.after) => hostBackups # <<>>
    /\ plan.command = "uninstall" /\ HasNpx(plan.after) => Len(hostBackups) > 1
EditsFit == configurer \in [Configurers -> PlanRec] /\ \A p \in Configurers : EditFits(configurer[p])

(* The newest backup has what the user configured, but for what is unsaved, and none but    *)
(* the first was made without one before it.                                             *)
NewestBackup == hostBackups # <<>> => made \ unsaved \subseteq Ids(hostBackups[Len(hostBackups)])
ProxiesFollowBackups ==
    /\ HasNpx(hostConfig) => hostBackups # <<>>
    /\ \A i \in 1..Len(hostBackups) : HasNpx(hostBackups[i]) => i > 1
    /\ reverted /\ HasNpx(hostConfig) => Len(hostBackups) > 1

ConfigsKept ==
    /\ ConfigRecords /\ EditsFit /\ NewestBackup /\ ProxiesFollowBackups /\ NothingDropped

(* The layers a server can be behind. *)
LEMMA Layers ==
    ASSUME NEW layers \in Layerings
    PROVE  /\ layers # <<>> => Head(layers) \in {"direct", "npx", "pinned"}
           /\ layers # <<>> /\ Head(layers) = "direct" => layers = <<"direct">>
           /\ layers \in Unwrapped \/ (layers # <<>> /\ Head(layers) \in {"npx", "pinned"})
           /\ Cardinality({i \in DOMAIN layers : layers[i] # "direct"}) <= 1
<1>1. \A i \in DOMAIN layers : layers[i] # "direct" => i = 1
    BY DEF Layerings, Unwrapped
<1>2. {i \in DOMAIN layers : layers[i] # "direct"} = {} \/ {i \in DOMAIN layers : layers[i] # "direct"} = {1}
    BY <1>1
<1>3. Cardinality({i \in DOMAIN layers : layers[i] # "direct"}) \in {0, 1}
    BY <1>2, FS_EmptySet, FS_Singleton
<1>4. Cardinality({i \in DOMAIN layers : layers[i] # "direct"}) <= 1
    BY <1>3
<1> QED
    BY <1>4 DEF Layerings, Unwrapped

(* One layer around one other. *)
LEMMA OneOnOne ==
    ASSUME NEW S, NEW x \in S, NEW y \in S
    PROVE  <<x>> \o <<y>> = <<x, y>>
<1>1. PICK a, b, c : a = <<x>> /\ b = <<y>> /\ c = <<x, y>>
    OBVIOUS
<1>2. /\ a \in Seq(S) /\ Len(a) = 1 /\ a[1] = x
      /\ b \in Seq(S) /\ Len(b) = 1 /\ b[1] = y
      /\ c \in Seq(S) /\ Len(c) = 2 /\ c[1] = x /\ c[2] = y
    BY <1>1
<1>3. PICK d : d = a \o b
    OBVIOUS
<1>4. /\ d \in Seq(S) /\ Len(d) = Len(a) + Len(b)
      /\ \A i \in 1..(Len(a) + Len(b)) : d[i] = IF i <= Len(a) THEN a[i] ELSE b[i - Len(a)]
    BY <1>2, <1>3, ConcatProperties, Zenon
<1>5. Len(d) = 2 /\ d[1] = x /\ d[2] = y
    BY <1>2, <1>4
<1>6. \A i \in 1..Len(d) : d[i] = c[i]
    BY <1>2, <1>5
<1>7. d = c
    BY <1>2, <1>4, <1>5, <1>6, SeqEqual
<1> QED
    BY <1>1, <1>3, <1>7

LEMMA OneLayerMore ==
    ASSUME NEW layers \in Unwrapped, NEW layer \in {"npx", "pinned"}
    PROVE  /\ <<layer>> \o layers \in Layerings
           /\ layer = "pinned" => \A i \in DOMAIN (<<layer>> \o layers) : (<<layer>> \o layers)[i] # "npx"
<1>1. CASE layers = <<>>
    <2>1. <<layer>> \o layers = <<layer>>
        BY <1>1
    <2> QED BY <2>1 DEF Layerings
<1>2. CASE layers = <<"direct">>
    <2>1. <<layer>> \o layers = <<layer, "direct">>
        <3>1. layer \in {"npx", "pinned", "direct"} /\ "direct" \in {"npx", "pinned", "direct"}
            OBVIOUS
        <3> QED BY <1>2, <3>1, OneOnOne
    <2>2. <<layer, "direct">> \in Layerings
        BY DEF Layerings
    <2>3. \A i \in DOMAIN <<layer, "direct">> : <<layer, "direct">>[i] \in {layer, "direct"}
        OBVIOUS
    <2> QED BY <2>1, <2>2, <2>3
<1> QED
    BY <1>1, <1>2 DEF Unwrapped

(* A plan for one server keeps who it is. *)
LEMMA PlanOne ==
    ASSUME NEW server \in {NoServer} \cup ServerRec, NEW place, NEW layer \in {"npx", "pinned"}
    PROVE  /\ planServer(place, server, layer) \in {NoServer} \cup ServerRec
           /\ planServer(place, server, layer).id = server.id
           /\ planServer(place, server, layer) = NoServer <=> server = NoServer
           /\ layer = "pinned" =>
                 \A i \in DOMAIN planServer(place, server, layer).layers :
                    planServer(place, server, layer).layers[i] = "npx" =>
                       \E j \in DOMAIN server.layers : server.layers[j] = "npx"
<1>1. NoServer.target = "none" /\ NoServer.id = 0
    BY DEF NoServer
<1>2. PICK planned : planned = planServer(place, server, layer)
    OBVIOUS
<1>3. CASE planned = server
    BY <1>2, <1>3
<1>4. CASE planned # server
    <2>1. /\ server.target = "command" /\ ~isWrappedEntry(server)
          /\ planned = [server EXCEPT !.layers = <<layer>> \o server.layers]
        BY <1>2, <1>4 DEF planServer, isWrappableEntry
    <2>2. server \in [id : Nat \ {0}, target : {"command"}, layers : Layerings]
        BY <1>1, <2>1 DEF ServerRec
    <2>3. server.layers \in Unwrapped
        BY <2>1, <2>2, Layers DEF isWrappedEntry
    <2>4. PICK layers : layers = <<layer>> \o server.layers
        OBVIOUS
    <2>5. layers \in Layerings /\ (layer = "pinned" => \A i \in DOMAIN layers : layers[i] # "npx")
        BY <2>3, <2>4, OneLayerMore
    <2>6. planned \in [id : Nat \ {0}, target : {"command"}, layers : Layerings]
          /\ planned.id = server.id /\ planned.layers = layers
        BY <2>1, <2>2, <2>4, <2>5
    <2>7. planned # NoServer /\ server # NoServer
        BY <1>1, <2>2, <2>6
    <2> QED BY <1>2, <2>5, <2>6, <2>7 DEF ServerRec
<1> QED
    BY <1>3, <1>4

(* A plan for a text keeps its servers, and a pinned one brings in no proxy of an install. *)
LEMMA PlanText ==
    ASSUME NEW text, WellFormed(text), NEW layer \in {"npx", "pinned"}
    PROVE  /\ WellFormed(planInstall(text, layer))
           /\ Ids(planInstall(text, layer)) = Ids(text)
           /\ layer = "pinned" /\ HasNpx(planInstall(text, layer)) => HasNpx(text)
<1>1. CASE text.form # "parsed"
    BY <1>1 DEF planInstall
<1>2. CASE text.form = "parsed"
    <2>1. PICK after : after = planInstall(text, layer)
        OBVIOUS
    <2>2. after = Parsed([place \in Places |-> planServer(place, text.at[place], layer)])
        BY <1>2, <2>1 DEF planInstall
    <2>3. after.form = "parsed" /\ DOMAIN after = {"form", "at"}
          /\ after.at = [place \in Places |-> planServer(place, text.at[place], layer)]
        BY <2>2 DEF Parsed
    <2>4. \A place \in Places : text.at[place] \in {NoServer} \cup ServerRec
        BY DEF WellFormed, ConfigText
    <2>5. \A place \in Places :
             /\ after.at[place] \in {NoServer} \cup ServerRec /\ after.at[place].id = text.at[place].id
             /\ after.at[place] = NoServer <=> text.at[place] = NoServer
             /\ layer = "pinned" =>
                   \A i \in DOMAIN after.at[place].layers :
                      after.at[place].layers[i] = "npx" =>
                         \E j \in DOMAIN text.at[place].layers : text.at[place].layers[j] = "npx"
        <3> TAKE place \in Places
        <3>1. PICK server \in {NoServer} \cup ServerRec : server = text.at[place]
            BY <2>4
        <3>2. after.at[place] = planServer(place, server, layer)
            BY <2>3, <3>1
        <3> QED BY <3>1, <3>2, PlanOne
    <2>6. after \in ConfigText
        <3>1. after.at \in [Places -> {NoServer} \cup ServerRec]
            BY <2>3, <2>5
        <3>2. after = [form |-> "parsed", at |-> after.at]
            BY <2>2, <2>3 DEF Parsed
        <3> QED BY <3>1, <3>2 DEF ConfigText
    <2>7. Ids(after) = Ids(text)
        BY <2>5 DEF Ids, ServersOf
    <2>8. Distinct(after)
        BY <2>5, <2>7 DEF WellFormed, Distinct
    <2>9. layer = "pinned" /\ HasNpx(after) => HasNpx(text)
        BY <2>5 DEF HasNpx
    <2> QED BY <2>1, <2>6, <2>7, <2>8, <2>9 DEF WellFormed
<1> QED
    BY <1>1, <1>2

(* A text without servers. *)
LEMMA NoServers ==
    ASSUME configCounts.servers \in Nat
    PROVE  \A text \in {Missing, Malformed} : WellFormed(text) /\ ~HasNpx(text) /\ Ids(text) = {}
<1>1. Malformed.at = Missing.at /\ Malformed \in ConfigText /\ Missing \in ConfigText
    BY DEF Malformed, Missing, ConfigText
<1>2. \A place \in Places : Missing.at[place] = NoServer
    BY DEF Missing
<1>3. NoServer.layers = <<>>
    BY DEF NoServer
<1>4. \A text \in {Missing, Malformed} : Ids(text) = {} /\ ~HasNpx(text)
    BY <1>1, <1>2, <1>3 DEF Ids, ServersOf, HasNpx
<1> QED
    BY <1>1, <1>2, <1>4 DEF WellFormed, Distinct

LEMMA IdleFits ==
    ASSUME configCounts.servers \in Nat
    PROVE  EditFits(ConfigurerIdle)
<1>1. ConfigurerIdle.at = "idle" /\ ConfigurerIdle.command = "none" /\ ConfigurerIdle.before = Missing
      /\ ConfigurerIdle.after = Missing
    BY DEF ConfigurerIdle
<1>2. Missing \in ConfigText
    BY NoServers DEF WellFormed
<1>3. ConfigurerIdle \in PlanRec
    BY <1>2 DEF ConfigurerIdle, PlanRec
<1> QED
    BY <1>1, <1>3, NoServers DEF EditFits

(* More servers and more backups leave a text and a plan what they were. *)
LEMMA TextsStay ==
    ASSUME ConfigsKept, configCounts'.servers \in Nat, configCounts'.servers >= configCounts.servers,
           NEW text, WellFormed(text)
    PROVE  WellFormed(text)'
<1>1. \A id \in Ids(text) : id \in Nat /\ id <= configCounts.servers
    <2>1. \A place \in Places : text.at[place] # NoServer => text.at[place].id \in Nat
        BY DEF WellFormed, ConfigText, ServerRec
    <2> QED BY <2>1 DEF WellFormed, Distinct, Ids, ServersOf
<1>2. configCounts.servers \in Nat
    BY DEF ConfigsKept, ConfigRecords
<1>3. \A id \in Ids(text) : id <= configCounts'.servers
    BY <1>1, <1>2
<1> QED
    BY <1>3 DEF WellFormed, Distinct

LEMMA PlansStay ==
    ASSUME ConfigsKept, configCounts'.servers \in Nat, configCounts'.servers >= configCounts.servers,
           hostBackups' = hostBackups \/ \E text \in ConfigText : hostBackups' = Append(hostBackups, text),
           NEW plan, EditFits(plan)
    PROVE  EditFits(plan)'
<1>1. hostBackups \in Seq(ConfigText)
    BY DEF ConfigsKept, ConfigRecords
<1>2. /\ hostBackups # <<>> => hostBackups' # <<>>
      /\ Len(hostBackups) > 1 => Len(hostBackups') > 1
    BY <1>1
<1>3. WellFormed(plan.before)' /\ WellFormed(plan.after)'
    BY TextsStay DEF EditFits
<1> QED
    BY <1>2, <1>3 DEF EditFits, PlanRec

LEMMA PlanReplaced ==
    ASSUME ConfigsKept, configCounts'.servers \in Nat, configCounts'.servers >= configCounts.servers,
           hostBackups' = hostBackups \/ \E text \in ConfigText : hostBackups' = Append(hostBackups, text),
           NEW p \in Configurers, NEW plan, configurer' = [configurer EXCEPT ![p] = plan], EditFits(plan)'
    PROVE  EditsFit'
<1>1. EditsFit
    BY DEF ConfigsKept
<1>2. plan \in PlanRec
    BY DEF EditFits
<1>3. /\ configurer' \in [Configurers -> PlanRec] /\ configurer'[p] = plan
      /\ \A q \in Configurers : q # p => configurer'[q] = configurer[q]
    BY <1>1, <1>2 DEF EditsFit
<1>4. ASSUME NEW q \in Configurers
      PROVE  EditFits(configurer[q])'
    <2>1. PICK c : c = configurer'[q]
        OBVIOUS
    <2>2. CASE q = p
        BY <1>3, <2>2
    <2>3. CASE q # p
        <3>1. EditFits(c)
            BY <1>1, <1>3, <2>1, <2>3 DEF EditsFit
        <3>2. EditFits(c)'
            BY <3>1, PlansStay
        <3> QED BY <2>1, <3>2 DEF EditFits
    <2> QED BY <2>2, <2>3
<1> QED
    BY <1>3, <1>4 DEF EditsFit

LEMMA ConfigsStart == HostConfigsInit => ConfigsKept
<1> SUFFICES ASSUME HostConfigsInit
             PROVE  ConfigsKept
    OBVIOUS
<1>1. configCounts \in [servers : Nat, plans : Nat, edits : Nat, deaths : Nat] /\ configCounts.servers = 3
      /\ hostBackups = <<>> /\ ~reverted /\ made = Ids(hostConfig) /\ unsaved = {} /\ reverted \in BOOLEAN
    BY DEF HostConfigsInit
<1>2. WellFormed(hostConfig) /\ ~HasNpx(hostConfig)
    <2>1. CASE hostConfig \in {Missing, Malformed}
        BY <1>1, <2>1, NoServers
    <2>2. CASE \E top \in UserServers(1), here \in Plain(2), other \in Plain(3) :
                  hostConfig = Parsed([top |-> top, here |-> here, other |-> other])
        <3>1. PICK top \in UserServers(1), here \in Plain(2), other \in Plain(3) :
                 hostConfig = Parsed([top |-> top, here |-> here, other |-> other])
            BY <2>2
        <3>2. /\ hostConfig = [form |-> "parsed", at |-> hostConfig.at]
              /\ hostConfig.at = [place \in Places |-> hostConfig.at[place]]
              /\ hostConfig.at["top"] = top /\ hostConfig.at["here"] = here /\ hostConfig.at["other"] = other
            BY <3>1 DEF Parsed, Places
        <3>3. \A id \in Nat \ {0} : \A server \in UserServers(id) \cup Plain(id) :
                 /\ server = NoServer \/ (server \in ServerRec /\ server.id = id)
                 /\ \A i \in DOMAIN server.layers : server.layers[i] # "npx"
            BY DEF UserServers, Plain, NoServer, ServerRec, Layerings, Unwrapped
        <3>4. /\ top = NoServer \/ (top \in ServerRec /\ top.id = 1)
              /\ here = NoServer \/ (here \in ServerRec /\ here.id = 2)
              /\ other = NoServer \/ (other \in ServerRec /\ other.id = 3)
              /\ \A server \in {top, here, other} : \A i \in DOMAIN server.layers : server.layers[i] # "npx"
            BY <3>3
        <3>5. hostConfig \in ConfigText
            BY <3>2, <3>4 DEF ConfigText, Places
        <3>6. NoServer.id = 0
            BY DEF NoServer
        <3>7. Distinct(hostConfig)
            BY <1>1, <3>2, <3>4, <3>6 DEF Distinct, Ids, ServersOf, Places
        <3>8. ~HasNpx(hostConfig)
            BY <3>2, <3>4 DEF HasNpx, Places
        <3> QED BY <3>5, <3>7, <3>8 DEF WellFormed
    <2> QED BY <2>1, <2>2 DEF HostConfigsInit
<1>3. EditFits(ConfigurerIdle)
    BY <1>1, IdleFits
<1>4. EditsFit
    <2>1. configurer = [p \in Configurers |-> ConfigurerIdle] /\ ConfigurerIdle \in PlanRec
        BY <1>3 DEF HostConfigsInit, EditFits
    <2> HIDE DEF ConfigurerIdle
    <2> QED BY <1>3, <2>1 DEF EditsFit
<1>5. Len(hostBackups) = 0 /\ hostBackups \in Seq(ConfigText)
    BY <1>1
<1> QED
    BY <1>1, <1>2, <1>4, <1>5
       DEF ConfigsKept, ConfigRecords, NewestBackup, ProxiesFollowBackups, NothingDropped

(* What a plan or its end leaves as it was. *)
LEMMA SameTexts ==
    ASSUME ConfigsKept, UNCHANGED <<hostConfig, hostBackups, made, unsaved, overwritten, reverted>>,
           configCounts' \in [servers : Nat, plans : Nat, edits : Nat, deaths : Nat],
           configCounts'.servers = configCounts.servers,
           NEW p \in Configurers, NEW plan, configurer' = [configurer EXCEPT ![p] = plan], EditFits(plan)
    PROVE  ConfigsKept'
<1>1. configCounts.servers \in Nat /\ configCounts'.servers >= configCounts.servers
    BY DEF ConfigsKept, ConfigRecords
<1>2. EditFits(plan)'
    BY <1>1, PlansStay
<1>3. EditsFit'
    BY <1>1, <1>2, PlanReplaced
<1>4. ConfigRecords'
    <2>1. PICK text : text = hostConfig
        OBVIOUS
    <2>2. PICK backups : backups = hostBackups
        OBVIOUS
    <2>3. WellFormed(text)' /\ \A i \in 1..Len(backups) : WellFormed(backups[i])'
        BY <1>1, <2>1, <2>2, TextsStay DEF ConfigsKept, ConfigRecords
    <2> QED BY <2>1, <2>2, <2>3 DEF ConfigsKept, ConfigRecords, WellFormed, Distinct
<1> QED
    BY <1>3, <1>4 DEF ConfigsKept, NewestBackup, ProxiesFollowBackups, NothingDropped, HasNpx

LEMMA BeginsPlan ==
    ASSUME ConfigsKept, NEW p \in Configurers, PlanInstall(p) \/ PlanPreparation(p) \/ PlanUninstall(p)
    PROVE  ConfigsKept'
<1>1. /\ UNCHANGED <<hostConfig, hostBackups, made, unsaved, overwritten, reverted>>
      /\ configCounts' = [configCounts EXCEPT !.plans = configCounts.plans + 1]
    BY DEF PlanInstall, PlanPreparation, PlanUninstall, Begin
<1>2. /\ configCounts' \in [servers : Nat, plans : Nat, edits : Nat, deaths : Nat]
      /\ configCounts'.servers = configCounts.servers
    BY <1>1 DEF ConfigsKept, ConfigRecords
<1>3. WellFormed(hostConfig) /\ hostConfig \in ConfigText /\ (HasNpx(hostConfig) => hostBackups # <<>>)
    BY DEF ConfigsKept, ConfigRecords, ProxiesFollowBackups, WellFormed
<1>4. PICK text : text = hostConfig
    OBVIOUS
<1>5. \E plan : configurer' = [configurer EXCEPT ![p] = plan] /\ EditFits(plan)
    <2>1. CASE PlanInstall(p)
        <3>1. PICK after, plan : /\ after = planInstall(text, "npx")
                                /\ plan = [at |-> "backup", command |-> "install", before |-> text, after |-> after]
            OBVIOUS
        <3>2. configurer' = [configurer EXCEPT ![p] = plan]
            BY <1>4, <2>1, <3>1 DEF PlanInstall, Begin
        <3>3. WellFormed(after) /\ Ids(after) = Ids(text) /\ after \in ConfigText
            BY <1>3, <1>4, <3>1, PlanText DEF WellFormed
        <3>4. plan \in PlanRec /\ plan.at = "backup" /\ plan.command = "install" /\ plan.before = text
              /\ plan.after = after
            BY <1>3, <1>4, <3>1, <3>3 DEF PlanRec
        <3> QED BY <1>3, <1>4, <3>2, <3>3, <3>4 DEF EditFits
    <2>2. CASE PlanPreparation(p)
        <3>1. PICK after, plan : /\ after = planInstall(text, "pinned")
                                /\ plan = [at |-> "write", command |-> "prepare", before |-> text, after |-> after]
            OBVIOUS
        <3>2. configurer' = [configurer EXCEPT ![p] = plan]
            BY <1>4, <2>2, <3>1 DEF PlanPreparation, Begin
        <3>3. WellFormed(after) /\ Ids(after) = Ids(text) /\ after \in ConfigText /\ (HasNpx(after) => HasNpx(text))
            BY <1>3, <1>4, <3>1, PlanText DEF WellFormed
        <3>4. plan \in PlanRec /\ plan.at = "write" /\ plan.command = "prepare" /\ plan.before = text
              /\ plan.after = after
            BY <1>3, <1>4, <3>1, <3>3 DEF PlanRec
        <3> QED BY <1>3, <1>4, <3>2, <3>3, <3>4 DEF EditFits
    <2>3. CASE PlanUninstall(p)
        <3>1. PICK after, plan : /\ after = hostBackups[Len(hostBackups)]
                                /\ plan = [at |-> "write", command |-> "uninstall", before |-> text, after |-> after]
            OBVIOUS
        <3>2. configurer' = [configurer EXCEPT ![p] = plan] /\ hostBackups # <<>>
            BY <1>4, <2>3, <3>1 DEF PlanUninstall, Begin
        <3>3. Len(hostBackups) \in 1..Len(hostBackups)
            BY <3>2 DEF ConfigsKept, ConfigRecords
        <3>4. WellFormed(after) /\ after \in ConfigText /\ (HasNpx(after) => Len(hostBackups) > 1)
            BY <3>1, <3>3 DEF ConfigsKept, ConfigRecords, ProxiesFollowBackups, WellFormed
        <3>5. plan \in PlanRec /\ plan.at = "write" /\ plan.command = "uninstall" /\ plan.before = text
              /\ plan.after = after
            BY <1>3, <1>4, <3>1, <3>4 DEF PlanRec
        <3> QED BY <1>3, <1>4, <3>2, <3>4, <3>5 DEF EditFits
    <2> QED BY <2>1, <2>2, <2>3
<1> QED
    BY <1>1, <1>2, <1>5, SameTexts

LEMMA DiesOrStops ==
    ASSUME ConfigsKept, NEW p \in Configurers, configurer' = [configurer EXCEPT ![p] = ConfigurerIdle],
           UNCHANGED <<hostConfig, hostBackups, made, unsaved, overwritten, reverted>>,
           \/ configCounts' = configCounts
           \/ configCounts' = [configCounts EXCEPT !.deaths = configCounts.deaths + 1]
    PROVE  ConfigsKept'
<1>1. /\ configCounts' \in [servers : Nat, plans : Nat, edits : Nat, deaths : Nat]
      /\ configCounts'.servers = configCounts.servers /\ configCounts.servers \in Nat
    BY DEF ConfigsKept, ConfigRecords
<1>2. EditFits(ConfigurerIdle)
    BY <1>1, IdleFits
<1>3. PICK plan : plan = ConfigurerIdle
    OBVIOUS
<1> HIDE DEF ConfigurerIdle
<1> QED
    BY <1>1, <1>2, <1>3, SameTexts

(* What the plan of a command is, while its command is at work. *)
LEMMA PlanAtWork ==
    ASSUME ConfigsKept, NEW p \in Configurers
    PROVE  \E plan : plan = configurer[p] /\ EditFits(plan)
BY DEF ConfigsKept, EditsFit

LEMMA BacksUp ==
    ASSUME ConfigsKept, NEW p \in Configurers, BackUp(p)
    PROVE  ConfigsKept'
<1>1. UNCHANGED <<hostConfig, made, overwritten, reverted, configCounts>> /\ configurer[p].at = "backup"
    BY DEF BackUp
<1>2. CASE configurer' = [configurer EXCEPT ![p] = ConfigurerIdle] /\ UNCHANGED <<hostBackups, unsaved>>
    BY <1>1, <1>2, DiesOrStops
<1>3. CASE /\ AddBackup(configurer[p].before) /\ unsaved' = made \ Ids(configurer[p].before)
           /\ configurer' = [configurer EXCEPT ![p].at = "write"]
    <2>1. PICK old : old = configurer[p] /\ EditFits(old)
        BY PlanAtWork
    <2>2. PICK text : text = old.before
        OBVIOUS
    <2>3. /\ text \in ConfigText /\ WellFormed(text) /\ old \in PlanRec /\ old.command = "install"
          /\ (HasNpx(text) => hostBackups # <<>>) /\ WellFormed(old.after) /\ Ids(old.after) = Ids(text)
        BY <1>1, <2>1, <2>2 DEF EditFits, WellFormed
    <2>4. hostBackups' = Append(hostBackups, text) /\ hostBackups \in Seq(ConfigText)
        BY <1>3, <2>1, <2>2 DEF AddBackup, ConfigsKept, ConfigRecords
    <2>5. /\ hostBackups' \in Seq(ConfigText) /\ Len(hostBackups') = Len(hostBackups) + 1
          /\ hostBackups'[Len(hostBackups')] = text /\ hostBackups' # <<>>
          /\ \A i \in 1..Len(hostBackups) : hostBackups'[i] = hostBackups[i]
          /\ \A i \in 1..Len(hostBackups') : i \in 1..Len(hostBackups) \/ i = Len(hostBackups')
        BY <2>3, <2>4
    <2>6. PICK plan : plan = [old EXCEPT !.at = "write"]
        OBVIOUS
    <2>7. plan \in PlanRec /\ plan.at = "write" /\ plan.command = "install" /\ plan.before = text
          /\ plan.after = old.after /\ configurer' = [configurer EXCEPT ![p] = plan]
        BY <1>3, <2>1, <2>2, <2>3, <2>6 DEF PlanRec, ConfigsKept, EditsFit
    <2>8. configCounts.servers \in Nat /\ configCounts'.servers >= configCounts.servers
        BY <1>1 DEF ConfigsKept, ConfigRecords
    <2>9. EditFits(plan)'
        <3>1. WellFormed(text)' /\ WellFormed(old.after)'
            BY <1>1, <2>3 DEF WellFormed, Distinct
        <3>2. plan.command # "uninstall" /\ plan.at # "settle"
            BY <2>7
        <3> QED BY <2>3, <2>5, <2>7, <3>1, <3>2 DEF EditFits
    <2>10. EditsFit'
        BY <1>1, <2>3, <2>4, <2>7, <2>8, <2>9, PlanReplaced
    <2>11. \A t : WellFormed(t)' <=> WellFormed(t)
        BY <1>1 DEF WellFormed, Distinct
    <2>12. ConfigRecords'
        BY <1>1, <2>3, <2>5, <2>11 DEF ConfigsKept, ConfigRecords, WellFormed, Distinct
    <2>13. NewestBackup'
        BY <1>1, <1>3, <2>1, <2>2, <2>5 DEF NewestBackup
    <2>14. ProxiesFollowBackups'
        <3>1. Len(hostBackups) \in Nat /\ (hostBackups # <<>> => Len(hostBackups) > 0)
            BY <2>4
        <3>2. \A i \in 1..Len(hostBackups') : HasNpx(hostBackups'[i]) => i > 1
            BY <2>3, <2>5, <3>1 DEF ConfigsKept, ProxiesFollowBackups
        <3>3. reverted /\ HasNpx(hostConfig) => Len(hostBackups') > 1
            BY <2>5, <3>1 DEF ConfigsKept, ProxiesFollowBackups
        <3> QED BY <1>1, <2>5, <3>2, <3>3 DEF ProxiesFollowBackups, HasNpx
    <2>15. NothingDropped'
        <3>1. DOMAIN hostBackups = 1..Len(hostBackups) /\ DOMAIN hostBackups' = 1..Len(hostBackups')
              /\ \A i \in 1..Len(hostBackups) : i \in 1..Len(hostBackups')
            BY <2>4, <2>5
        <3> QED BY <1>1, <2>5, <3>1 DEF ConfigsKept, NothingDropped
    <2> QED BY <2>10, <2>12, <2>13, <2>14, <2>15 DEF ConfigsKept
<1> QED
    BY <1>2, <1>3 DEF BackUp

(* A text that replaces the file: what of it went was overwritten or is in a backup. *)
LEMMA Replaces ==
    ASSUME ConfigsKept, NEW p \in Configurers, NEW text, WellFormed(text), text \in ConfigText,
           hostConfig' = text, UNCHANGED <<hostBackups, made, unsaved, configCounts>>,
           NEW plan, configurer' = [configurer EXCEPT ![p] = plan], EditFits(plan),
           reverted' \in BOOLEAN, HasNpx(text) => hostBackups # <<>>,
           reverted' /\ HasNpx(text) => Len(hostBackups) > 1,
           overwritten \subseteq overwritten',
           \A id \in Ids(hostConfig) \ Ids(text) : id \in made =>
               id \in overwritten' \/ (id \notin unsaved /\ hostBackups # <<>>)
    PROVE  ConfigsKept'
<1>1. configCounts.servers \in Nat /\ configCounts'.servers >= configCounts.servers
    BY DEF ConfigsKept, ConfigRecords
<1>2. EditFits(plan)' /\ EditsFit'
    BY <1>1, PlansStay, PlanReplaced
<1>3. \A t : WellFormed(t)' <=> WellFormed(t)
    BY DEF WellFormed, Distinct
<1>4. ConfigRecords'
    BY <1>3 DEF ConfigsKept, ConfigRecords, WellFormed, Distinct
<1>5. NewestBackup' /\ ProxiesFollowBackups'
    BY DEF ConfigsKept, NewestBackup, ProxiesFollowBackups, HasNpx
<1>6. NothingDropped'
    <2>1. hostBackups # <<>> => Len(hostBackups) \in DOMAIN hostBackups
        BY DEF ConfigsKept, ConfigRecords
    <2> QED BY <2>1 DEF ConfigsKept, NothingDropped, NewestBackup
<1> QED
    BY <1>2, <1>4, <1>5, <1>6 DEF ConfigsKept

LEMMA WritesPlan ==
    ASSUME ConfigsKept, NEW p \in Configurers, Write(p)
    PROVE  ConfigsKept'
<1>1. PICK old : old = configurer[p] /\ EditFits(old)
    BY PlanAtWork
<1>2. /\ old.at = "write" /\ UNCHANGED <<hostBackups, made, unsaved, configCounts>>
      /\ hostConfig' = old.after /\ reverted' = (old.command = "uninstall")
      /\ overwritten' = overwritten \cup
            (IF hostConfig # old.before THEN Ids(hostConfig) \ Ids(old.after)
             ELSE IF old.command = "uninstall" THEN (Ids(hostConfig) \ Ids(old.after)) \cap unsaved ELSE {})
    BY <1>1 DEF Write, Replace
<1>3. PICK plan : plan = IF old.command = "prepare" THEN [old EXCEPT !.at = "settle"] ELSE ConfigurerIdle
    OBVIOUS
<1>4. configurer' = [configurer EXCEPT ![p] = plan]
    BY <1>1, <1>3 DEF Write, ConfigsKept, EditsFit
<1>5. EditFits(plan)
    <2>1. CASE old.command = "prepare"
        <3>1. old \in PlanRec
            BY <1>1 DEF EditFits
        <3>2. plan \in PlanRec /\ plan.at = "settle" /\ plan.command = "prepare" /\ plan.before = old.before
              /\ plan.after = old.after
            BY <1>3, <2>1, <3>1 DEF PlanRec
        <3> QED BY <1>1, <1>2, <2>1, <3>2 DEF EditFits
    <2>2. CASE old.command # "prepare"
        BY <1>3, <2>2, IdleFits DEF ConfigsKept, ConfigRecords
    <2> QED BY <2>1, <2>2
<1>6. PICK text : text = old.after
    OBVIOUS
<1>7. /\ WellFormed(text) /\ text \in ConfigText /\ (HasNpx(text) => hostBackups # <<>>)
      /\ (old.command = "uninstall" => hostBackups # <<>> /\ (HasNpx(text) => Len(hostBackups) > 1))
      /\ (old.command # "uninstall" => Ids(text) = Ids(old.before))
    BY <1>1, <1>2, <1>6 DEF EditFits, WellFormed
<1>8. \A id \in Ids(hostConfig) \ Ids(text) : id \in made =>
          id \in overwritten' \/ (id \notin unsaved /\ hostBackups # <<>>)
    BY <1>2, <1>6, <1>7
<1> QED
    BY <1>2, <1>4, <1>5, <1>6, <1>7, <1>8, Replaces

LEMMA Settles ==
    ASSUME ConfigsKept, NEW p \in Configurers, Settle(p)
    PROVE  ConfigsKept'
<1>1. /\ configurer' = [configurer EXCEPT ![p] = ConfigurerIdle]
      /\ UNCHANGED <<hostBackups, made, unsaved, configCounts>>
    BY DEF Settle
<1>2. CASE UNCHANGED <<hostConfig, overwritten, reverted>>
    BY <1>1, <1>2, DiesOrStops
<1>3. CASE /\ hostConfig' = configurer[p].before /\ reverted' = FALSE
           /\ overwritten' = overwritten \cup (Ids(hostConfig) \ Ids(configurer[p].before))
    <2>1. PICK old : old = configurer[p] /\ EditFits(old)
        BY PlanAtWork
    <2>2. PICK text : text = old.before
        OBVIOUS
    <2>3. WellFormed(text) /\ text \in ConfigText /\ (HasNpx(text) => hostBackups # <<>>)
        BY <2>1, <2>2 DEF EditFits, WellFormed
    <2>4. PICK plan : plan = ConfigurerIdle
        OBVIOUS
    <2>5. EditFits(plan)
        BY <2>4, IdleFits DEF ConfigsKept, ConfigRecords
    <2> HIDE DEF ConfigurerIdle
    <2> QED BY <1>1, <1>3, <2>1, <2>2, <2>3, <2>4, <2>5, Replaces
<1> QED
    BY <1>2, <1>3 DEF Settle

(* The user's own hand. *)
LEMMA Edits ==
    ASSUME ConfigsKept, EditConfig
    PROVE  ConfigsKept'
<1>1. PICK id : id = configCounts.servers + 1
    OBVIOUS
<1>2. PICK place \in Places, server \in UserServers(id) :
         /\ hostConfig' = Parsed([hostConfig.at EXCEPT ![place] = server])
         /\ made' = (made \ {hostConfig.at[place].id}) \cup ({server.id} \ {0})
         /\ unsaved' = unsaved \cup ({server.id} \ {0})
         /\ configCounts' = [configCounts EXCEPT !.edits = configCounts.edits + 1, !.servers = id]
    BY <1>1 DEF EditConfig
<1>3. UNCHANGED <<hostBackups, configurer, overwritten>> /\ reverted' = FALSE
    BY DEF EditConfig
<1>4. /\ configCounts' \in [servers : Nat, plans : Nat, edits : Nat, deaths : Nat]
      /\ configCounts'.servers = id /\ id \in Nat \ {0} /\ configCounts.servers \in Nat
      /\ configCounts'.servers >= configCounts.servers
    <2>1. configCounts \in [servers : Nat, plans : Nat, edits : Nat, deaths : Nat]
        BY DEF ConfigsKept, ConfigRecords
    <2>2. id \in Nat \ {0} /\ configCounts.servers \in Nat /\ configCounts.edits + 1 \in Nat
          /\ id >= configCounts.servers
        BY <1>1, <2>1
    <2>3. PICK edits : edits = configCounts.edits + 1
        OBVIOUS
    <2>4. configCounts' = [configCounts EXCEPT !.edits = edits, !.servers = id]
        BY <1>2, <2>3
    <2>5. configCounts' \in [servers : Nat, plans : Nat, edits : Nat, deaths : Nat] /\ configCounts'.servers = id
        BY <2>1, <2>2, <2>3, <2>4
    <2> QED BY <2>2, <2>5
<1>5. /\ server = NoServer \/ (server \in ServerRec /\ server.id = id)
      /\ \A i \in DOMAIN server.layers : server.layers[i] # "npx"
    BY <1>4 DEF UserServers, Plain, NoServer, ServerRec, Layerings, Unwrapped
<1>6. PICK new, old : new = hostConfig' /\ old = hostConfig
    OBVIOUS
<1>7. /\ WellFormed(old) /\ old.at \in [Places -> {NoServer} \cup ServerRec]
      /\ new = [form |-> "parsed", at |-> [old.at EXCEPT ![place] = server]]
    BY <1>2, <1>6 DEF Parsed, ConfigsKept, ConfigRecords, WellFormed, ConfigText
<1>8. /\ new.form = "parsed" /\ new.at \in [Places -> {NoServer} \cup ServerRec] /\ new.at[place] = server
      /\ \A q \in Places : q # place => new.at[q] = old.at[q]
    BY <1>5, <1>7
<1>9. new \in ConfigText
    BY <1>7, <1>8 DEF ConfigText
<1>10. NoServer.id = 0
    BY DEF NoServer
<1>11. \A q \in Places : old.at[q].id \in Nat /\ old.at[q].id <= configCounts.servers
          /\ (old.at[q].id = 0 <=> old.at[q] = NoServer)
    <2>1. \A q \in Places : old.at[q] = NoServer \/ (old.at[q].id \in Nat \ {0} /\ old.at[q].id \in Ids(old))
        BY <1>7 DEF ServerRec, Ids, ServersOf
    <2> QED BY <1>4, <1>7, <1>10, <2>1 DEF WellFormed, Distinct
<1>12. WellFormed(new)'
    <2>1. \A p, q \in Places : new.at[p] # NoServer /\ new.at[p].id = new.at[q].id => p = q
        BY <1>1, <1>4, <1>5, <1>7, <1>8, <1>10, <1>11 DEF WellFormed, Distinct
    <2>2. \A q \in Places : new.at[q].id <= id
        BY <1>1, <1>4, <1>5, <1>8, <1>10, <1>11
    <2>3. \A i \in Ids(new) : i <= id
        BY <2>2 DEF Ids, ServersOf
    <2> QED BY <1>4, <1>9, <2>1, <2>3 DEF WellFormed, Distinct
<1>13. HasNpx(new) => HasNpx(old)
    BY <1>5, <1>8 DEF HasNpx
<1>14. ConfigRecords'
    <2>1. PICK backups : backups = hostBackups
        OBVIOUS
    <2>2. \A i \in 1..Len(backups) : WellFormed(backups[i])'
        BY <1>4, <2>1, TextsStay DEF ConfigsKept, ConfigRecords
    <2>3. hostBackups' \in Seq(ConfigText)
        BY <1>3 DEF ConfigsKept, ConfigRecords
    <2>4. WellFormed(hostConfig)'
        BY <1>6, <1>12 DEF WellFormed, Distinct
    <2>5. \A i \in 1..Len(hostBackups) : WellFormed(hostBackups[i])'
        BY <1>3, <2>1, <2>2 DEF WellFormed, Distinct
    <2>6. Len(hostBackups)' = Len(hostBackups) /\ \A i \in 1..Len(hostBackups) : WellFormed(hostBackups[i])'
        BY <1>3, <2>5 DEF WellFormed, Distinct
    <2>7. reverted' \in BOOLEAN
        BY <1>3
    <2> QED BY <1>4, <2>3, <2>4, <2>6, <2>7 DEF ConfigRecords
<1>15. EditsFit'
    <2>1. ASSUME NEW p \in Configurers
          PROVE  EditFits(configurer[p])'
        <3>1. PICK plan : plan = configurer[p] /\ EditFits(plan)
            BY PlanAtWork
        <3>2. EditFits(plan)'
            BY <1>3, <1>4, <3>1, PlansStay
        <3> QED BY <1>3, <3>1, <3>2 DEF EditFits
    <2> QED BY <1>3, <2>1 DEF ConfigsKept, EditsFit
<1>16. made' \ unsaved' \subseteq made \ unsaved
    BY <1>2
<1>17. NewestBackup' /\ ProxiesFollowBackups'
    BY <1>3, <1>6, <1>13, <1>16 DEF ConfigsKept, NewestBackup, ProxiesFollowBackups, HasNpx
<1>18. Ids(old) \ {old.at[place].id} \subseteq Ids(new) /\ (server # NoServer => server.id \in Ids(new))
    <2>1. \A i \in Ids(old) : \E q \in Places : old.at[q] # NoServer /\ old.at[q].id = i
        BY DEF Ids, ServersOf
    <2>2. \A q \in Places : new.at[q] # NoServer => new.at[q].id \in Ids(new)
        BY DEF Ids, ServersOf
    <2> QED BY <1>8, <2>1, <2>2
<1>19. NothingDropped'
    BY <1>2, <1>3, <1>5, <1>6, <1>10, <1>18 DEF ConfigsKept, NothingDropped
<1> QED
    BY <1>14, <1>15, <1>17, <1>19 DEF ConfigsKept

LEMMA Removes ==
    ASSUME ConfigsKept, RemoveConfig
    PROVE  ConfigsKept'
<1>1. /\ hostConfig' = Missing /\ made' = {} /\ reverted' = FALSE
      /\ configCounts' = [configCounts EXCEPT !.edits = configCounts.edits + 1]
      /\ UNCHANGED <<hostBackups, configurer, unsaved, overwritten>>
    BY DEF RemoveConfig
<1>2. /\ configCounts' \in [servers : Nat, plans : Nat, edits : Nat, deaths : Nat]
      /\ configCounts'.servers = configCounts.servers
    BY <1>1 DEF ConfigsKept, ConfigRecords
<1>3. \A t : WellFormed(t)' <=> WellFormed(t)
    BY <1>2 DEF WellFormed, Distinct
<1>4. PICK text : text = Missing
    OBVIOUS
<1>5. WellFormed(text) /\ ~HasNpx(text)
    BY <1>4, NoServers DEF ConfigsKept, ConfigRecords
<1>6. ConfigRecords'
    <2>1. WellFormed(hostConfig)'
        BY <1>1, <1>2, <1>4, <1>5 DEF WellFormed, Distinct
    <2>2. \A i \in 1..Len(hostBackups) : WellFormed(hostBackups[i])'
        BY <1>1, <1>3 DEF ConfigsKept, ConfigRecords, WellFormed, Distinct
    <2>3. hostBackups' \in Seq(ConfigText) /\ Len(hostBackups)' = Len(hostBackups) /\ reverted' \in BOOLEAN
        BY <1>1 DEF ConfigsKept, ConfigRecords
    <2> QED BY <1>2, <2>1, <2>2, <2>3 DEF ConfigRecords
<1>7. EditsFit'
    BY <1>1, <1>2 DEF ConfigsKept, EditsFit, EditFits, WellFormed, Distinct
<1>8. NewestBackup' /\ ProxiesFollowBackups' /\ NothingDropped'
    BY <1>1, <1>4, <1>5 DEF ConfigsKept, NewestBackup, ProxiesFollowBackups, NothingDropped, HasNpx
<1> QED
    BY <1>6, <1>7, <1>8 DEF ConfigsKept

LEMMA ConfigSteps ==
    ASSUME ConfigsKept, [HostConfigsNext]_hostConfigVars
    PROVE  ConfigsKept'
<1>1. CASE UNCHANGED hostConfigVars
    BY <1>1 DEF hostConfigVars, ConfigsKept, ConfigRecords, EditsFit, EditFits, NewestBackup, ProxiesFollowBackups,
                NothingDropped, WellFormed, Distinct, HasNpx
<1>2. ASSUME NEW p \in Configurers, DieConfiguring(p)
      PROVE  ConfigsKept'
    BY <1>2, DiesOrStops DEF DieConfiguring
<1> QED
    BY <1>1, <1>2, BeginsPlan, BacksUp, WritesPlan, Settles, Edits, Removes DEF HostConfigsNext

(* Whoever rewrites a host's configuration, in whatever order and however it dies, a server  *)
(* the user put in is in the file or in a backup, unless a stale plan or a later uninstall    *)
(* went over it; it is behind one proxy of ours, both readers know which, and an uninstall     *)
(* takes an install's proxies out (wrap.ts, bootstrap/install.ts, coverage.ts).             *)
THEOREM ConfigsAreKept == HostConfigsSpec => []ConfigsSurvive
<1>1. ConfigsKept => WrappedOnce /\ ReadersAgree
    <2> SUFFICES ASSUME ConfigsKept
                 PROVE  WrappedOnce /\ ReadersAgree
        OBVIOUS
    <2>1. \A server \in ServersOf(hostConfig) :
             /\ server \in ServerRec
             /\ \A other \in ServersOf(hostConfig) : other.id = server.id => other = server
        BY DEF ConfigsKept, ConfigRecords, WellFormed, ConfigText, Distinct, ServersOf
    <2>2. \A server \in ServersOf(hostConfig) :
             /\ server.layers \in Layerings /\ (server.layers # <<>> => server.target = "command")
        BY <2>1 DEF ServerRec, Layerings, Unwrapped
    <2>3. WrappedOnce
        BY <2>2, Layers DEF WrappedOnce
    <2>4. ASSUME NEW server \in ServersOf(hostConfig)
          PROVE  /\ server.id \in wrappedNamesIn(hostConfig) <=> isWrappedEntry(server)
                 /\ server.id \in analyzeJsonMcpConfig(hostConfig).wrapped <=>
                       server.target = "command" /\ isWrappedInvocation(server)
        BY <2>1 DEF wrappedNamesIn, analyzeJsonMcpConfig
    <2>5. ReadersAgree
        BY <2>2, <2>4, Layers DEF ReadersAgree, isWrappedEntry, isWrappedInvocation
    <2> QED BY <2>3, <2>5
<1>2. ConfigsKept => UninstallUnwraps
    BY DEF ConfigsKept, ProxiesFollowBackups, UninstallUnwraps, HasNpx, ServersOf
<1>3. ConfigsKept => ConfigsSurvive
    BY <1>1, <1>2 DEF ConfigsKept, ConfigsSurvive
<1> QED
    BY <1>3, ConfigsStart, ConfigSteps, PTL DEF HostConfigsSpec

-----------------------------------------------------------------------------
(* The certification runner for issue labels. *)

(* The steps of a call from its first save to its answer. *)
Saving == {"save", "generation", "rename", "saved"}
AtWork == Saving \cup {"settle", "reconcile", "report"}
VisitRec ==
    [op : {"none", "run", "other", "cleanup", "conflict", "recover", "duplicate"},
     at : {"none", "load", "checkpoint", "decide", "publish", "repair", "release", "reread"} \cup AtWork,
     locked : BOOLEAN, journal : JournalPhases, base : Nat, next : JournalPhases,
     answer : {"none", "matched", "conflict", "ambiguous"}]
EntryRec == [seq : Nat, phase : JournalPhases]
ReservationStates == {"none", "reserved", "dispatched", "acknowledged", "ambiguous", "reconciled", "cancelled"}
LabelsRecords ==
    /\ head \in EntryRec /\ \A g \in generations : g \in EntryRec /\ g.seq # 0
    /\ visits \in [Clients -> VisitRec]
    /\ reservationOf \in [LabelEffects -> ReservationStates]
    /\ budget \in [LabelEffects -> {"untouched", "consumed", "released"}]
    /\ sent \in [LabelEffects -> 0..1]
    /\ requestLock \in BOOLEAN /\ staged \in BOOLEAN /\ raced \in BOOLEAN

(* The journal of a cleanup that may have been sent.  The generations are gapless, and once *)
(* one is of such a phase the later ones are, unless two writers made a pair of equal rank,  *)
(* which nobody reads any more.                                                        *)
LatePhases == CleanupSending \cup {"cleanup-publication-pending", "cleanup-receipted"}
Late == \E g \in generations : g.phase \in LatePhases
TwinsMade == \E g, h \in generations : g.seq = h.seq /\ g # h
JournalKept ==
    /\ head = NoJournal \/ head \in generations
    /\ \A g \in generations : \A k \in 1..g.seq : \E h \in generations : h.seq = k
    /\ TwinsMade \/ \A g, h \in generations : g.seq <= h.seq /\ g.phase \in LatePhases => h.phase \in LatePhases

(* A cleanup that was accepted, and one that has not sent its write yet. *)
PastDecide(c) == visits[c].op = "cleanup" /\ visits[c].at \in AtWork
CleanupAnnounced == {"cleanup-dispatched", "cleanup-send-intent"}
Cleaning(c) ==
    visits[c].op = "cleanup" /\ visits[c].at \in Saving /\ visits[c].next \in CleanupUnsent \cup CleanupAnnounced

(* What a phase in the journal says has happened; nothing takes it back. *)
CleanupPhases == CleanupUnsent \cup LatePhases \cup {"cleanup-refused"}
Says(phase) ==
    /\ phase \in Sending \cup {"pending-reconciliation"} => reservationOf["apply"] \notin {"none", "reserved"}
    /\ phase \in Settled => reservationOf["apply"] = "reconciled" /\ sent["apply"] = 1
    /\ phase = "refused" => reservationOf["apply"] = "cancelled" /\ sent["apply"] = 0
    /\ phase \in CleanupPhases => reservationOf["cleanup"] # "none"
    /\ phase = "cleanup-refused" => \A c \in Clients : ~Cleaning(c)
    /\ phase = "cleanup-receipted" => reservationOf["cleanup"] = "reconciled" /\ sent["cleanup"] = 1
InJournal(phase) == phase = "none" \/ \E g \in generations : g.phase = phase

(* A save that is under way: what it will say is so, and it goes after what is there. *)
SaveStands(c) ==
    LET v == visits[c]
    IN /\ InJournal(v.journal)
       /\ v.at \in {"save", "generation"} => Says(v.next)
       /\ v.at \in {"rename", "saved"} => SavedEntry(c) \in generations
RankStands(c) ==
    LET v == visits[c]
    IN v.at = "generation" =>
       /\ v.base = 0 \/ \E g \in generations : g.seq = v.base
       /\ TwinsMade \/ v.next \in LatePhases \/ \A g \in generations : g.seq <= v.base => g.phase \notin LatePhases
       /\ v.next = "cleanup-refused" => sent["cleanup"] = 0

RunStands(c) ==
    LET v == visits[c]
    IN v.op = "run" =>
       /\ v.answer = "matched" => sent["apply"] = 1
       /\ v.at \in Saving /\ v.next \in Unsent => reservationOf["apply"] = "reserved"
       /\ v.at \in Saving /\ v.next \in {"dispatched", "provider-send-intent"} =>
             reservationOf["apply"] = "dispatched" /\ sent["apply"] = 0
       /\ v.at \in Saving /\ v.next \in {"budget-consumed", "dispatched", "provider-send-intent"} =>
             budget["apply"] = "consumed"
       /\ v.at \in {"reconcile", "report"} => reservationOf["apply"] \notin {"none", "reserved"}
       /\ v.at = "report" /\ v.answer = "matched" => reservationOf["apply"] = "reconciled"
CleanupStands(c) ==
    LET v == visits[c]
    IN v.op = "cleanup" =>
       /\ v.answer = "matched" => sent["cleanup"] = 1
       /\ v.at \in AtWork \cup {"decide"} => v.journal = "acknowledged"
       /\ v.at \in AtWork => reservationOf["cleanup"] # "none"
       /\ v.at = "report" /\ v.answer = "matched" => reservationOf["cleanup"] = "reconciled"
       /\ Cleaning(c) => ~staged /\ sent["cleanup"] = 0
       /\ Cleaning(c) /\ v.next \in CleanupUnsent => reservationOf["cleanup"] = "reserved"
       /\ Cleaning(c) /\ v.next \in CleanupAnnounced => reservationOf["cleanup"] \in {"dispatched", "ambiguous"}
       /\ Cleaning(c) /\ v.next # "cleanup-reserved" => budget["cleanup"] = "consumed"
       /\ Cleaning(c) /\ reservationOf["cleanup"] = "ambiguous" => Late
ConflictStands(c) ==
    visits[c].op = "conflict" /\ visits[c].at \in AtWork \cup {"publish"} => visits[c].journal \in Settled
(* A recovery that takes a cleanup for unsent: it is, and no cleanup is under way, unless a  *)
(* recovery raced one.                                                                  *)
RecoveryStands(c) ==
    LET v == visits[c]
        undoing == v.journal \in CleanupUnsent
    IN v.op = "recover" =>
       /\ v.at = "repair" /\ v.journal \in Unsent => reservationOf["apply"] = "reserved"
       /\ v.at = "release" => undoing \/ (v.journal = "budget-consumed" /\ reservationOf["apply"] = "cancelled")
       /\ v.at = "reread" /\ v.journal \in Settled => v.journal \in LatePhases
       /\ v.at = "repair" /\ undoing => \A d \in Clients : Cleaning(d) => reservationOf["cleanup"] # "ambiguous"
       /\ v.at = "release" /\ undoing => \A d \in Clients : ~Cleaning(d)
       /\ v.at \in {"repair", "release"} /\ undoing =>
             raced \/ (sent["cleanup"] = 0 /\ \A d \in Clients : ~Cleaning(d))
(* The recover-only steps are a recovery's, and so on for the others. *)
StepsStand(c) ==
    LET v == visits[c]
    IN /\ v.at = "load" => v.op \in {"run", "other", "cleanup", "conflict", "recover"}
       /\ v.at \in {"repair", "release", "reread"} => v.op = "recover"
       /\ v.at \in {"decide", "settle", "reconcile", "report"} => v.op \in {"run", "cleanup"}

LocksStand ==
    /\ \A c \in Clients : visits[c].locked => requestLock
    /\ \A c, d \in Clients : visits[c].locked /\ visits[d].locked => c = d
    /\ \A c \in Clients : visits[c].op \in {"run", "conflict", "recover"} => visits[c].locked
    /\ \A c, d \in Clients : PastDecide(c) /\ PastDecide(d) => c = d
SendsStand ==
    /\ sent["apply"] = 1 => reservationOf["apply"] \notin {"none", "reserved", "cancelled"} /\ budget["apply"] = "consumed"
    /\ sent["cleanup"] = 1 => reservationOf["cleanup"] # "none" /\ Late /\ (budget["cleanup"] = "consumed" \/ raced)
    /\ labels = "desired" => sent["apply"] = 1
    /\ sent["apply"] = 1 /\ sent["cleanup"] = 0 => labels = "desired"
    /\ staged => reservationOf["cleanup"] # "none"
EntriesStand ==
    \A g \in generations : Says(g.phase) /\ (g.phase = "cleanup-refused" => sent["cleanup"] = 0)
VisitStands(c) ==
    SaveStands(c) /\ RunStands(c) /\ CleanupStands(c) /\ ConflictStands(c) /\ RecoveryStands(c) /\ StepsStand(c)
LabelsInv ==
    /\ LabelsRecords /\ JournalKept /\ LocksStand /\ SendsStand /\ EntriesStand
    /\ \A c \in Clients : VisitStands(c) /\ RankStands(c)

(* Only one visit moves, and it stays the call it was. *)
OnlyMoves(c) ==
    /\ visits' \in [Clients -> VisitRec]
    /\ \A d \in Clients : d # c => visits'[d] = visits[d]
Stays(c) ==
    /\ OnlyMoves(c)
    /\ visits'[c].op = visits[c].op /\ visits'[c].locked = visits[c].locked
    /\ visits'[c].journal = visits[c].journal

LEMMA SaveMoves ==
    ASSUME visits \in [Clients -> VisitRec], NEW c \in Clients, NEW phase \in JournalPhases, Save(c, phase)
    PROVE  /\ Stays(c) /\ visits'[c].at = "save" /\ visits'[c].next = phase
           /\ visits'[c].base = visits[c].base /\ visits'[c].answer = visits[c].answer
<1>1. PICK w : w = [visits[c] EXCEPT !.at = "save", !.next = phase]
    OBVIOUS
<1>2. visits[c] \in VisitRec
    OBVIOUS
<1>3. "save" \in {"none", "load", "checkpoint", "decide", "publish", "repair", "release", "reread"} \cup AtWork
    BY DEF AtWork, Saving
<1>4. w \in VisitRec
    BY <1>1, <1>2, <1>3 DEF VisitRec
<1>5. visits' = [visits EXCEPT ![c] = w]
    BY <1>1 DEF Save
<1>6. /\ w.at = "save" /\ w.next = phase /\ w.base = visits[c].base /\ w.answer = visits[c].answer
      /\ w.op = visits[c].op /\ w.locked = visits[c].locked /\ w.journal = visits[c].journal
    BY <1>1, <1>2 DEF VisitRec
<1> QED
    BY <1>4, <1>5, <1>6 DEF Stays, OnlyMoves

LEMMA GoMoves ==
    ASSUME visits \in [Clients -> VisitRec], NEW c \in Clients,
           NEW step \in {"none", "load", "checkpoint", "decide", "publish", "repair", "release", "reread"} \cup AtWork,
           GoTo(c, step)
    PROVE  /\ Stays(c) /\ visits'[c].at = step /\ visits'[c].next = visits[c].next
           /\ visits'[c].base = visits[c].base /\ visits'[c].answer = visits[c].answer
<1>1. PICK w : w = [visits[c] EXCEPT !.at = step]
    OBVIOUS
<1>2. visits[c] \in VisitRec
    OBVIOUS
<1>4. w \in VisitRec
    BY <1>1, <1>2 DEF VisitRec
<1>5. visits' = [visits EXCEPT ![c] = w]
    BY <1>1 DEF GoTo
<1>6. /\ w.at = step /\ w.next = visits[c].next /\ w.base = visits[c].base /\ w.answer = visits[c].answer
      /\ w.op = visits[c].op /\ w.locked = visits[c].locked /\ w.journal = visits[c].journal
    BY <1>1, <1>2 DEF VisitRec
<1> QED
    BY <1>4, <1>5, <1>6 DEF Stays, OnlyMoves

LEMMA LeaveMoves ==
    ASSUME visits \in [Clients -> VisitRec], NEW c \in Clients, Leave(c)
    PROVE  OnlyMoves(c) /\ visits'[c] = NoVisit
<1>1. NoVisit \in VisitRec
    BY DEF NoVisit, VisitRec, JournalPhases
<1> QED
    BY <1>1 DEF Leave, OnlyMoves

LEMMA RaiseMoves ==
    ASSUME visits \in [Clients -> VisitRec], NEW c \in Clients, Raise(c)
    PROVE  \/ Leave(c)
           \/ /\ InAdapter(c) /\ UNCHANGED locks
              /\ Stays(c) /\ visits'[c].at = "settle" /\ visits'[c].answer = "ambiguous"
              /\ visits'[c].next = visits[c].next
<1> SUFFICES ASSUME InAdapter(c)
             PROVE  /\ UNCHANGED locks
                    /\ Stays(c) /\ visits'[c].at = "settle" /\ visits'[c].answer = "ambiguous"
                    /\ visits'[c].next = visits[c].next
    BY DEF Raise
<1>1. PICK w : w = [visits[c] EXCEPT !.at = "settle", !.answer = "ambiguous"]
    OBVIOUS
<1>2. visits[c] \in VisitRec
    OBVIOUS
<1>3. "settle" \in {"none", "load", "checkpoint", "decide", "publish", "repair", "release", "reread"} \cup AtWork
    BY DEF AtWork, Saving
<1>4. w \in VisitRec
    BY <1>1, <1>2, <1>3 DEF VisitRec
<1>5. visits' = [visits EXCEPT ![c] = w] /\ UNCHANGED locks
    BY <1>1 DEF Raise
<1>6. /\ w.at = "settle" /\ w.answer = "ambiguous" /\ w.next = visits[c].next
      /\ w.op = visits[c].op /\ w.locked = visits[c].locked /\ w.journal = visits[c].journal
    BY <1>1, <1>2 DEF VisitRec
<1> QED
    BY <1>4, <1>5, <1>6 DEF Stays, OnlyMoves

(* How the effects go on under a step of c: what they have come to stays, and only a call   *)
(* with the lock moves the effect "apply".                                              *)
ApplyGoesOn(c) ==
    /\ reservationOf["apply"] \notin {"none", "reserved"} => reservationOf'["apply"] \notin {"none", "reserved"}
    /\ reservationOf["apply"] \in {"reconciled", "cancelled"} => reservationOf'["apply"] = reservationOf["apply"]
    /\ sent["apply"] = 1 => sent'["apply"] = 1
    /\ reservationOf["apply"] = "cancelled" => sent'["apply"] = sent["apply"]
    /\ \/ visits[c].locked
       \/ /\ reservationOf'["apply"] = reservationOf["apply"] /\ sent'["apply"] = sent["apply"]
          /\ budget'["apply"] = budget["apply"]
CleanupGoesOn(c) ==
    /\ raced => raced'
    /\ reservationOf["cleanup"] # "none" => reservationOf'["cleanup"] # "none"
    /\ reservationOf["cleanup"] = "reconciled" => reservationOf'["cleanup"] = "reconciled"
    /\ sent["cleanup"] = 1 => sent'["cleanup"] = 1
    /\ reservationOf["cleanup"] # "none" /\ ~Cleaning(c) => ~Cleaning(c)' /\ sent'["cleanup"] = sent["cleanup"]
    /\ \A d \in Clients \ {c} : Cleaning(d) =>
          /\ sent'["cleanup"] = sent["cleanup"] /\ budget'["cleanup"] = budget["cleanup"] /\ staged' = staged
          /\ \/ reservationOf'["cleanup"] = reservationOf["cleanup"]
             \/ reservationOf["cleanup"] = "dispatched" /\ reservationOf'["cleanup"] = "ambiguous" /\ Late
    /\ \/ visits[c].locked
       \/ reservationOf'["cleanup"] # "ambiguous" \/ reservationOf["cleanup"] = "ambiguous"
       \/ \A d \in Clients : ~Cleaning(d)'
GoesOn(c) == OnlyMoves(c) /\ ApplyGoesOn(c) /\ CleanupGoesOn(c) /\ generations \subseteq generations'

LEMMA OthersClean ==
    ASSUME NEW c \in Clients, OnlyMoves(c)
    PROVE  /\ \A d \in Clients \ {c} : Cleaning(d)' <=> Cleaning(d)
           /\ \A d \in Clients \ {c} : PastDecide(d)' <=> PastDecide(d)
BY DEF OnlyMoves, Cleaning, PastDecide

LEMMA SaidStands ==
    ASSUME LabelsInv, NEW c \in Clients, GoesOn(c), NEW phase, Says(phase)
    PROVE  Says(phase)'
<1>1. phase = "cleanup-refused" => \A d \in Clients : ~Cleaning(d)'
    <2> HAVE phase = "cleanup-refused"
    <2>1. reservationOf["cleanup"] # "none" /\ \A d \in Clients : ~Cleaning(d)
        BY DEF Says, CleanupPhases
    <2> QED
        BY <2>1, OthersClean DEF GoesOn, CleanupGoesOn
<1>2. phase \in Settled => reservationOf'["apply"] = "reconciled" /\ sent'["apply"] = 1
    BY DEF Says, GoesOn, ApplyGoesOn
<1>3. phase = "refused" => reservationOf'["apply"] = "cancelled" /\ sent'["apply"] = 0
    BY DEF Says, GoesOn, ApplyGoesOn
<1>4. phase \in Sending \cup {"pending-reconciliation"} => reservationOf'["apply"] \notin {"none", "reserved"}
    BY DEF Says, GoesOn, ApplyGoesOn
<1>5. phase \in CleanupPhases => reservationOf'["cleanup"] # "none"
    BY DEF Says, GoesOn, CleanupGoesOn
<1>6. phase = "cleanup-receipted" => reservationOf'["cleanup"] = "reconciled" /\ sent'["cleanup"] = 1
    BY DEF Says, GoesOn, CleanupGoesOn
<1> QED
    BY <1>1, <1>2, <1>3, <1>4, <1>5, <1>6 DEF Says

(* The calls that do not move stand as before. *)
LEMMA OthersStand ==
    ASSUME LabelsInv, NEW c \in Clients, GoesOn(c), NEW d \in Clients \ {c}
    PROVE  VisitStands(d)'
<1>1. PICK v : v = visits[d]
    OBVIOUS
<1>2. visits'[d] = v /\ d \in Clients /\ d # c
    BY <1>1 DEF GoesOn, OnlyMoves
<1>3. VisitStands(d)
    BY DEF LabelsInv
<1>4. generations \subseteq generations'
    BY DEF GoesOn
<1>5. InJournal(v.journal) => InJournal(v.journal)'
    BY <1>4 DEF InJournal
<1>6. SavedEntry(d)' = SavedEntry(d)
    BY <1>1, <1>2 DEF SavedEntry
<1>7. SaveStands(d)'
    BY <1>1, <1>2, <1>3, <1>4, <1>5, <1>6, SaidStands DEF VisitStands, SaveStands
<1>8. v.op \in {"run", "conflict", "recover"} => ~visits[c].locked
    BY <1>1, <1>2 DEF LabelsInv, LocksStand
<1>9. RunStands(d)'
    BY <1>1, <1>2, <1>3, <1>8 DEF VisitStands, RunStands, GoesOn, ApplyGoesOn
<1>10. Cleaning(d)' <=> Cleaning(d)
    BY OthersClean DEF GoesOn
<1>11. Late => Late'
    BY <1>4 DEF Late
<1>12. CleanupStands(d)'
    <2> SUFFICES ASSUME v.op = "cleanup" PROVE CleanupStands(d)'
        BY <1>2 DEF CleanupStands
    <2>1. CleanupStands(d) /\ CleanupGoesOn(c)
        BY <1>3 DEF VisitStands, GoesOn
    <2>2. CASE Cleaning(d)
        <3>1. /\ sent'["cleanup"] = sent["cleanup"] /\ budget'["cleanup"] = budget["cleanup"] /\ staged' = staged
              /\ \/ reservationOf'["cleanup"] = reservationOf["cleanup"]
                 \/ reservationOf["cleanup"] = "dispatched" /\ reservationOf'["cleanup"] = "ambiguous" /\ Late
            BY <2>1, <2>2 DEF CleanupGoesOn
        <3>2. v.at # "report"
            BY <2>2, <1>1 DEF Cleaning, Saving
        <3>3. v.next \in CleanupUnsent => reservationOf["cleanup"] = "reserved"
            BY <2>1, <2>2, <1>1 DEF CleanupStands
        <3>4. v.next \in CleanupUnsent => reservationOf'["cleanup"] = "reserved"
            BY <3>1, <3>3
        <3>5. v.at \in AtWork => reservationOf'["cleanup"] # "none"
            BY <1>1, <2>1 DEF CleanupStands, CleanupGoesOn
        <3> QED
            BY <1>1, <1>2, <1>10, <1>11, <2>1, <2>2, <3>1, <3>2, <3>4, <3>5 DEF CleanupStands
    <2>3. CASE ~Cleaning(d)
        BY <1>1, <1>2, <1>10, <2>1, <2>3 DEF CleanupStands, CleanupGoesOn
    <2> QED
        BY <2>2, <2>3
<1>13. ConflictStands(d)'
    BY <1>1, <1>2, <1>3 DEF VisitStands, ConflictStands
<1>14. RecoveryStands(d)'
    <2> SUFFICES ASSUME v.op = "recover" PROVE RecoveryStands(d)'
        BY <1>2 DEF RecoveryStands
    <2>1. RecoveryStands(d) /\ CleanupGoesOn(c) /\ ApplyGoesOn(c) /\ ~visits[c].locked
        BY <1>3, <1>8 DEF VisitStands, GoesOn
    <2>2. CASE v.journal \in CleanupUnsent
        <3>1. reservationOf["cleanup"] # "none"
            <4>1. \E g \in generations : g.phase = v.journal
                BY <1>1, <1>3, <2>2 DEF VisitStands, SaveStands, InJournal, CleanupUnsent
            <4>2. Says(v.journal)
                BY <4>1 DEF LabelsInv, EntriesStand
            <4> QED
                BY <4>2, <2>2 DEF Says, CleanupPhases
        <3>2. \A x \in Clients : Cleaning(x)' => Cleaning(x)
            BY <3>1, <2>1, OthersClean DEF GoesOn, CleanupGoesOn
        <3>3. (\A x \in Clients : ~Cleaning(x)) => sent'["cleanup"] = sent["cleanup"] /\ \A x \in Clients : ~Cleaning(x)'
            BY <3>1, <3>2, <2>1 DEF CleanupGoesOn
        <3>4. (\A x \in Clients : Cleaning(x) => reservationOf["cleanup"] # "ambiguous") =>
                  \A x \in Clients : Cleaning(x)' => reservationOf'["cleanup"] # "ambiguous"
            BY <3>2, <2>1 DEF CleanupGoesOn
        <3>5. v.journal \notin Unsent
            BY <2>2 DEF Unsent, CleanupUnsent
        <3>6. raced => raced'
            BY <2>1 DEF CleanupGoesOn
        <3>7. v.at = "repair" => \A x \in Clients : Cleaning(x)' => reservationOf'["cleanup"] # "ambiguous"
            BY <1>1, <2>1, <2>2, <3>4 DEF RecoveryStands
        <3>8. v.at = "release" => \A x \in Clients : ~Cleaning(x)'
            BY <1>1, <2>1, <2>2, <3>3 DEF RecoveryStands
        <3>9. v.at \in {"repair", "release"} => raced' \/ (sent'["cleanup"] = 0 /\ \A x \in Clients : ~Cleaning(x)')
            BY <1>1, <2>1, <2>2, <3>3, <3>6 DEF RecoveryStands
        <3>10. v.at = "reread" /\ v.journal \in Settled => v.journal \in LatePhases
            BY <1>1, <2>1 DEF RecoveryStands
        <3> QED
            BY <1>2, <2>2, <3>5, <3>7, <3>8, <3>9, <3>10 DEF RecoveryStands
    <2>3. CASE v.journal \notin CleanupUnsent
        <3>1. reservationOf'["apply"] = reservationOf["apply"]
            BY <2>1 DEF ApplyGoesOn
        <3> QED
            BY <1>1, <1>2, <2>1, <2>3, <3>1 DEF RecoveryStands
    <2> QED
        BY <2>2, <2>3
<1>15. StepsStand(d)'
    BY <1>1, <1>2, <1>3 DEF VisitStands, StepsStand
<1> QED
    BY <1>7, <1>9, <1>12, <1>13, <1>14, <1>15 DEF VisitStands

(* A step of one call that creates no generation. *)
LEMMA StepStands ==
    ASSUME LabelsInv, NEW c \in Clients, GoesOn(c), UNCHANGED generations,
           head' = head \/ head' \in generations,
           LabelsRecords', LocksStand', SendsStand', VisitStands(c)', RankStands(c)'
    PROVE  LabelsInv'
<1>1. JournalKept'
    <2>1. (head = NoJournal \/ head \in generations) /\ generations' = generations
        BY DEF LabelsInv, JournalKept
    <2>2. (head = NoJournal \/ head \in generations)'
        BY <2>1
    <2>3. /\ \A g \in generations : \A k \in 1..g.seq : \E h \in generations : h.seq = k
          /\ TwinsMade \/ \A g, h \in generations : g.seq <= h.seq /\ g.phase \in LatePhases => h.phase \in LatePhases
        BY DEF LabelsInv, JournalKept
    <2>4. TwinsMade' <=> TwinsMade
        BY <2>1 DEF TwinsMade
    <2> QED
        BY <2>1, <2>2, <2>3, <2>4 DEF JournalKept
<1>2. ASSUME Says("cleanup-refused"), sent["cleanup"] = 0 PROVE sent'["cleanup"] = 0
    <2>1. reservationOf["cleanup"] # "none" /\ \A d \in Clients : ~Cleaning(d)
        BY <1>2 DEF Says, CleanupPhases
    <2> QED
        BY <1>2, <2>1 DEF GoesOn, CleanupGoesOn
<1>3. EntriesStand'
    <2> SUFFICES ASSUME NEW g \in generations
                 PROVE  Says(g.phase)' /\ (g.phase = "cleanup-refused" => sent'["cleanup"] = 0)
        BY DEF EntriesStand
    <2>1. Says(g.phase) /\ (g.phase = "cleanup-refused" => sent["cleanup"] = 0)
        BY DEF LabelsInv, EntriesStand
    <2> QED
        BY <2>1, <1>2, SaidStands
<1>4. ASSUME NEW d \in Clients, d # c PROVE RankStands(d)'
    <2>1. PICK v : v = visits[d]
        OBVIOUS
    <2>2. visits'[d] = v
        BY <2>1, <1>4 DEF GoesOn, OnlyMoves
    <2>3. RankStands(d) /\ SaveStands(d)
        BY DEF LabelsInv, VisitStands
    <2>4. v.at = "generation" /\ v.next = "cleanup-refused" => sent'["cleanup"] = 0
        BY <1>2, <2>1, <2>3 DEF SaveStands, RankStands
    <2>5. TwinsMade' <=> TwinsMade
        BY DEF TwinsMade
    <2> QED
        BY <2>1, <2>2, <2>3, <2>4, <2>5 DEF RankStands
<1>5. ASSUME NEW d \in Clients PROVE VisitStands(d)' /\ RankStands(d)'
    BY <1>4, <1>5, OthersStand
<1> QED
    BY <1>1, <1>3, <1>5 DEF LabelsInv

LEMMA LocksKept ==
    ASSUME LabelsInv, NEW c \in Clients, OnlyMoves(c), PastDecide(c)' => PastDecide(c),
           visits'[c].op \in {visits[c].op, "duplicate"}, visits'[c].locked = visits[c].locked, UNCHANGED requestLock
    PROVE  LocksStand'
BY OthersClean DEF LabelsInv, LocksStand, OnlyMoves

LEMMA LocksLeft ==
    ASSUME LabelsInv, NEW c \in Clients, Leave(c)
    PROVE  LocksStand'
<1>1. OnlyMoves(c) /\ visits'[c] = NoVisit /\ requestLock' = (requestLock /\ ~visits[c].locked)
    BY LeaveMoves DEF LabelsInv, LabelsRecords, Leave
<1>2. ~PastDecide(c)' /\ visits'[c].locked = FALSE /\ visits'[c].op = "none"
    BY <1>1 DEF NoVisit, PastDecide
<1>3. \A d \in Clients : visits'[d].locked => requestLock'
    BY <1>1, <1>2 DEF LabelsInv, LocksStand, OnlyMoves
<1> QED
    BY <1>1, <1>2, <1>3, OthersClean DEF LabelsInv, LocksStand, OnlyMoves

(* A step that creates no generation and moves no effect. *)
Quiet ==
    /\ UNCHANGED <<generations, ledgerSide, providerSide, staged>> /\ (head' = head \/ head' \in generations)
    /\ raced' \in BOOLEAN /\ (raced => raced')

LEMMA QuietStands ==
    ASSUME LabelsInv, NEW c \in Clients, Quiet, OnlyMoves(c), Cleaning(c)' => Cleaning(c),
           requestLock' \in BOOLEAN, LocksStand', VisitStands(c)', RankStands(c)'
    PROVE  LabelsInv'
<1>1. UNCHANGED <<generations, reservationOf, budget, sent, labels, staged>>
    BY DEF Quiet, ledgerSide, providerSide
<1>2. ApplyGoesOn(c)
    BY <1>1 DEF ApplyGoesOn
<1>3. CleanupGoesOn(c)
    <2>1. \/ reservationOf'["cleanup"] # "ambiguous" \/ reservationOf["cleanup"] = "ambiguous"
        BY <1>1
    <2> QED
        BY <1>1, <2>1 DEF CleanupGoesOn, Quiet
<1>4. GoesOn(c)
    BY <1>1, <1>2, <1>3 DEF GoesOn
<1>5. LabelsRecords'
    <2>1. head' \in EntryRec
        BY DEF LabelsInv, LabelsRecords, Quiet
    <2> QED
        BY <1>1, <2>1 DEF LabelsInv, LabelsRecords, OnlyMoves, Quiet
<1>6. SendsStand'
    BY <1>1 DEF LabelsInv, SendsStand, Late, Quiet
<1> QED
    BY <1>1, <1>4, <1>5, <1>6, StepStands DEF Quiet

LEMMA NoVisitStands ==
    ASSUME NEW c \in Clients, visits'[c] = NoVisit
    PROVE  VisitStands(c)' /\ RankStands(c)' /\ ~Cleaning(c)' /\ ~PastDecide(c)'
<1>1. visits'[c].op = "none" /\ visits'[c].at = "none" /\ visits'[c].journal = "none"
    BY DEF NoVisit
<1> QED
    BY <1>1 DEF VisitStands, RankStands, SaveStands, RunStands, CleanupStands, ConflictStands, RecoveryStands, StepsStand,
                Cleaning, PastDecide, InJournal

LEMMA LeaveStands ==
    ASSUME LabelsInv, NEW c \in Clients, Quiet, Leave(c)
    PROVE  LabelsInv'
<1>1. OnlyMoves(c) /\ visits'[c] = NoVisit /\ requestLock' \in BOOLEAN
    BY LeaveMoves DEF LabelsInv, LabelsRecords, Leave
<1> QED
    BY <1>1, NoVisitStands, LocksLeft, QuietStands

LEMMA RaiseStands ==
    ASSUME LabelsInv, NEW c \in Clients, Quiet, Raise(c)
    PROVE  LabelsInv'
<1>1. CASE Leave(c)
    BY <1>1, LeaveStands
<1>2. CASE /\ InAdapter(c) /\ UNCHANGED locks
           /\ Stays(c) /\ visits'[c].at = "settle" /\ visits'[c].answer = "ambiguous"
           /\ visits'[c].next = visits[c].next
    <2>1. PICK v : v = visits[c]
        OBVIOUS
    <2>2. PICK w : w = visits'[c]
        OBVIOUS
    <2>3. /\ w.op = v.op /\ w.locked = v.locked /\ w.journal = v.journal /\ w.at = "settle" /\ w.answer = "ambiguous"
          /\ v.op \in {"run", "cleanup"} /\ v.at \in Saving
        BY <1>2, <2>1, <2>2 DEF Stays, InAdapter, Saving
    <2>4. ~Cleaning(c)' /\ RankStands(c)'
        BY <2>2, <2>3 DEF Cleaning, RankStands, Saving
    <2>5. PastDecide(c)' => PastDecide(c)
        BY <2>1, <2>2, <2>3 DEF PastDecide, AtWork
    <2>6. UNCHANGED <<generations, reservationOf, sent, budget, requestLock>>
        BY <1>2 DEF Quiet, ledgerSide, providerSide, locks
    <2>7. VisitStands(c)
        BY DEF LabelsInv
    <2>8. SaveStands(c)'
        BY <2>1, <2>2, <2>3, <2>6, <2>7 DEF VisitStands, SaveStands, InJournal
    <2>9. RunStands(c)'
        BY <2>2, <2>3 DEF RunStands, Saving
    <2>10. CleanupStands(c)'
        BY <2>1, <2>2, <2>3, <2>4, <2>6, <2>7 DEF VisitStands, CleanupStands, AtWork
    <2>11. ConflictStands(c)' /\ RecoveryStands(c)' /\ StepsStand(c)'
        BY <2>2, <2>3 DEF ConflictStands, RecoveryStands, StepsStand
    <2>12. VisitStands(c)'
        BY <2>8, <2>9, <2>10, <2>11 DEF VisitStands
    <2>13. OnlyMoves(c) /\ requestLock' \in BOOLEAN
        BY <1>2, <2>6 DEF Stays, LabelsInv, LabelsRecords
    <2>14. LocksStand'
        BY <2>1, <2>2, <2>3, <2>5, <2>6, <2>13, LocksKept
    <2> QED
        BY <2>4, <2>12, <2>13, <2>14, QuietStands
<1>3. visits \in [Clients -> VisitRec]
    BY DEF LabelsInv, LabelsRecords
<1> QED
    BY <1>1, <1>2, <1>3, RaiseMoves

LEMMA CallStands ==
    ASSUME LabelsInv, NEW c \in Clients, NEW op \in {"run", "other", "cleanup", "conflict", "recover"}, Call(c, op)
    PROVE  LabelsInv'
<1>1. PICK locked \in BOOLEAN : locked = (op \in {"run", "conflict", "recover"})
    <2>1. CASE op \in {"run", "conflict", "recover"}
        <3>1. (op \in {"run", "conflict", "recover"}) = TRUE
            BY <2>1
        <3> QED
            BY <3>1
    <2>2. CASE op \notin {"run", "conflict", "recover"}
        <3>1. (op \in {"run", "conflict", "recover"}) = FALSE
            BY <2>2
        <3> QED
            BY <3>1
    <2> QED
        BY <2>1, <2>2
<1>2. PICK w : w = [NoVisit EXCEPT !.op = op, !.at = "load", !.locked = locked]
    OBVIOUS
<1>3. /\ ~(locked /\ requestLock) /\ requestLock' = (requestLock \/ locked)
      /\ visits' = [visits EXCEPT ![c] = w]
    BY <1>1, <1>2 DEF Call
<1>4. w \in VisitRec /\ w.op = op /\ w.at = "load" /\ w.locked = locked /\ w.journal = "none" /\ w.answer = "none"
    BY <1>2 DEF NoVisit, VisitRec, JournalPhases
<1>5. OnlyMoves(c) /\ visits'[c] = w
    BY <1>3, <1>4 DEF LabelsInv, LabelsRecords, OnlyMoves
<1>6. Quiet /\ requestLock' \in BOOLEAN
    BY <1>3 DEF Call, Quiet, disk, LabelsInv, LabelsRecords
<1>7. ~Cleaning(c)' /\ ~PastDecide(c)' /\ RankStands(c)'
    BY <1>4, <1>5 DEF Cleaning, PastDecide, RankStands, Saving, AtWork
<1>8. VisitStands(c)'
    BY <1>4, <1>5, <1>7 DEF VisitStands, SaveStands, RunStands, CleanupStands, ConflictStands, RecoveryStands, StepsStand,
                     InJournal, AtWork, Saving
<1>9. LocksStand'
    BY <1>1, <1>3, <1>4, <1>5, <1>7, OthersClean DEF LabelsInv, LocksStand, OnlyMoves
<1> QED
    BY <1>5, <1>6, <1>7, <1>8, <1>9, QuietStands

(* The phase at the head of a journal was entered, and in a readable journal no later one    *)
(* was.                                                                                *)
LEMMA HeadSays ==
    ASSUME LabelsInv
    PROVE  InJournal(head.phase) /\ Says(head.phase) /\ head.phase \in JournalPhases /\ head.seq \in Nat
<1>1. head.phase \in JournalPhases /\ head.seq \in Nat
    BY DEF LabelsInv, LabelsRecords, EntryRec
<1>2. CASE head = NoJournal
    BY <1>1, <1>2 DEF NoJournal, InJournal, Says, Sending, Settled, CleanupPhases, LatePhases, CleanupSending, CleanupUnsent
<1>3. CASE head \in generations
    BY <1>1, <1>3 DEF InJournal, LabelsInv, EntriesStand
<1> QED
    BY <1>2, <1>3 DEF LabelsInv, JournalKept

LEMMA ReadableRank ==
    ASSUME LabelsInv, Readable, head.phase \notin LatePhases, NEW g \in generations, g.seq <= head.seq
    PROVE  g.phase \notin LatePhases
<1>1. CASE head = NoJournal
    BY <1>1 DEF NoJournal, LabelsInv, LabelsRecords, EntryRec
<1>2. CASE head \in generations /\ ~TwinsMade
    BY <1>2 DEF LabelsInv, JournalKept
<1> QED
    BY <1>1, <1>2 DEF Readable, TwinsMade

LEMMA UnsentCleanup ==
    ASSUME LabelsInv, Readable, head.phase \in CleanupUnsent
    PROVE  ~Late /\ sent["cleanup"] = 0
<1>1. head # NoJournal /\ head.phase \notin LatePhases
    BY DEF NoJournal, CleanupUnsent, LatePhases, CleanupSending
<1>2. \A g \in generations : g.seq <= head.seq
    BY <1>1 DEF Readable
<1>3. ~Late
    BY <1>1, <1>2, ReadableRank DEF Late
<1> QED
    BY <1>3 DEF LabelsInv, SendsStand, LabelsRecords, LabelEffects

LEMMA SentStates ==
    ASSUME LabelsInv
    PROVE  sent["apply"] \in {0, 1} /\ sent["cleanup"] \in {0, 1}
BY DEF LabelsInv, LabelsRecords, LabelEffects

LEMMA LoadStands ==
    ASSUME LabelsInv, NEW c \in Clients, LoadJournal(c)
    PROVE  LabelsInv'
<1>1. Quiet
    BY DEF LoadJournal, Quiet, disk, LabelsInv, LabelsRecords
<1>2. CASE Leave(c)
    BY <1>1, <1>2, LeaveStands
<1>3. CASE ~Leave(c)
    <2>1. PICK v : v = visits[c]
        OBVIOUS
    <2>2. v.op \in {"run", "other", "cleanup", "conflict", "recover"} /\ v.at = "load" /\ v \in VisitRec
        BY <2>1 DEF LoadJournal, IsAt, LabelsInv, VisitStands, StepsStand, LabelsRecords
    <2>3. PICK at : /\ visits' = [visits EXCEPT ![c].at = at, ![c].journal = head.phase]
                    /\ Readable /\ UNCHANGED locks
                    /\ at \in {"decide", "checkpoint", "publish", "repair"}
                    /\ at = "decide" => v.op \in {"run", "cleanup"}
                    /\ at = "decide" /\ v.op = "cleanup" => head.phase = "acknowledged"
                    /\ at = "publish" => v.op = "conflict" /\ head.phase \in {"acknowledged", "conflict-publication-pending"}
                    /\ at = "repair" => v.op = "recover" /\ Compatible(head.phase, reservationOf["apply"])
                    /\ v.op = "recover" => at = "repair"
        BY <1>3, <2>1, <2>2 DEF LoadJournal
    <2>4. PICK w : w = [v EXCEPT !.at = at, !.journal = head.phase]
        OBVIOUS
    <2>5. /\ w \in VisitRec /\ w.at = at /\ w.journal = head.phase /\ w.op = v.op /\ w.locked = v.locked
          /\ w.answer = v.answer /\ w.next = v.next
        BY <2>2, <2>3, <2>4, HeadSays DEF VisitRec
    <2>6. visits' = [visits EXCEPT ![c] = w]
        BY <2>1, <2>3, <2>4
    <2>7. OnlyMoves(c) /\ visits'[c] = w
        BY <2>5, <2>6 DEF LabelsInv, LabelsRecords, OnlyMoves
    <2>8. ~Cleaning(c)' /\ ~PastDecide(c)' /\ RankStands(c)'
        BY <2>3, <2>5, <2>7 DEF Cleaning, PastDecide, RankStands, Saving, AtWork
    <2>9. UNCHANGED <<generations, reservationOf, budget, sent, labels, staged, requestLock>>
        BY <1>1, <2>3 DEF Quiet, ledgerSide, providerSide, locks
    <2>10. LocksStand'
        BY <2>1, <2>5, <2>7, <2>8, <2>9, LocksKept
    <2>12. SaveStands(c)'
        BY <2>3, <2>5, <2>7, <2>9, HeadSays DEF SaveStands, InJournal
    <2>13. RunStands(c)' /\ StepsStand(c)'
        BY <2>1, <2>3, <2>5, <2>7, <2>9 DEF RunStands, StepsStand, LabelsInv, VisitStands, Saving
    <2>14. CleanupStands(c)'
        BY <2>1, <2>3, <2>5, <2>7, <2>8, <2>9 DEF CleanupStands, LabelsInv, VisitStands, AtWork, Saving
    <2>15. ConflictStands(c)'
        BY <2>3, <2>5, <2>7 DEF ConflictStands, AtWork, Saving, Settled
    <2>16. RecoveryStands(c)'
        <3> SUFFICES ASSUME w.op = "recover" PROVE RecoveryStands(c)'
            BY <2>7 DEF RecoveryStands
        <3>1. w.at = "repair" /\ Compatible(head.phase, reservationOf["apply"])
            BY <2>3, <2>5
        <3>2. head.phase \in Unsent => reservationOf["apply"] = "reserved"
            BY <3>1 DEF Compatible, Unsent, Sending, Settled, CleanupUnsent, CleanupSending
        <3>3. ASSUME head.phase \in CleanupUnsent
              PROVE  /\ \A d \in Clients : Cleaning(d)' => reservationOf["cleanup"] # "ambiguous"
                     /\ raced' \/ (sent["cleanup"] = 0 /\ \A d \in Clients : ~Cleaning(d)')
            <4>1. ~Late /\ sent["cleanup"] = 0
                BY <2>3, <3>3, UnsentCleanup
            <4>2. \A d \in Clients : Cleaning(d)' => Cleaning(d)
                BY <2>7, <2>8, OthersClean
            <4>3. \A d \in Clients : Cleaning(d) => reservationOf["cleanup"] # "ambiguous"
                BY <4>1 DEF LabelsInv, VisitStands, CleanupStands, Cleaning
            <4>4. ~raced' => \A d \in Clients : ~Cleaning(d)
                BY <2>1, <2>5, <3>1 DEF LoadJournal, Cleaning
            <4> QED
                BY <4>1, <4>2, <4>3, <4>4
        <3> QED
            BY <2>5, <2>7, <2>9, <3>1, <3>2, <3>3 DEF RecoveryStands
    <2>17. VisitStands(c)'
        BY <2>12, <2>13, <2>14, <2>15, <2>16 DEF VisitStands
    <2> QED
        BY <1>1, <2>7, <2>8, <2>9, <2>10, <2>17, QuietStands DEF LabelsInv, LabelsRecords
<1> QED
    BY <1>2, <1>3

LEMMA CheckpointStands ==
    ASSUME LabelsInv, NEW c \in Clients, CheckpointDuplicate(c)
    PROVE  LabelsInv'
<1>1. Quiet
    BY DEF CheckpointDuplicate, Quiet, disk, labelsCounts, LabelsInv, LabelsRecords
<1>2. CASE Leave(c)
    BY <1>1, <1>2, LeaveStands
<1>3. CASE ~Leave(c)
    <2>1. PICK v : v = visits[c]
        OBVIOUS
    <2>2. v \in VisitRec
        BY <2>1 DEF LabelsInv, LabelsRecords
    <2>3. PICK w : w = [v EXCEPT !.op = "duplicate", !.at = "save", !.next = head.phase]
        OBVIOUS
    <2>4. visits' = [visits EXCEPT ![c] = w] /\ UNCHANGED requestLock
        BY <1>3, <2>1, <2>3 DEF CheckpointDuplicate
    <2>5. "save" \in {"none", "load", "checkpoint", "decide", "publish", "repair", "release", "reread"} \cup AtWork
        BY DEF AtWork, Saving
    <2>6. /\ w \in VisitRec /\ w.op = "duplicate" /\ w.at = "save" /\ w.next = head.phase
          /\ w.locked = v.locked /\ w.journal = v.journal
        BY <2>2, <2>3, <2>5, HeadSays DEF VisitRec
    <2>7. OnlyMoves(c) /\ visits'[c] = w
        BY <2>4, <2>6 DEF LabelsInv, LabelsRecords, OnlyMoves
    <2>8. ~Cleaning(c)' /\ ~PastDecide(c)' /\ RankStands(c)'
        BY <2>6, <2>7 DEF Cleaning, PastDecide, RankStands
    <2>9. LocksStand'
        BY <2>1, <2>4, <2>6, <2>7, <2>8, LocksKept
    <2>10. \A d \in Clients : Cleaning(d)' => Cleaning(d)
        BY <2>7, <2>8, OthersClean
    <2>11. UNCHANGED <<generations, reservationOf, sent>>
        BY <1>1 DEF Quiet, ledgerSide, providerSide
    <2>12. Says(head.phase) /\ InJournal(v.journal)
        BY <2>1, HeadSays DEF LabelsInv, VisitStands, SaveStands
    <2>13. Says(w.next)'
        BY <2>6, <2>7, <2>10, <2>11, <2>12 DEF Says
    <2>14. SaveStands(c)'
        BY <2>6, <2>7, <2>11, <2>12, <2>13 DEF SaveStands, InJournal
    <2>15. VisitStands(c)'
        BY <2>6, <2>7, <2>14 DEF VisitStands, RunStands, CleanupStands, ConflictStands, RecoveryStands, StepsStand
    <2> QED
        BY <1>1, <2>4, <2>7, <2>8, <2>9, <2>15, QuietStands DEF LabelsInv, LabelsRecords
<1> QED
    BY <1>2, <1>3

(* A call that goes from one step of a save to the next. *)
LEMMA SavingStands ==
    ASSUME LabelsInv, NEW c \in Clients, OnlyMoves(c), UNCHANGED <<ledgerSide, providerSide, staged>>,
           generations \subseteq generations',
           visits[c].at \in Saving, visits'[c].at \in Saving,
           visits'[c].op = visits[c].op, visits'[c].next = visits[c].next, visits'[c].answer = visits[c].answer,
           visits'[c].journal = visits[c].journal, SaveStands(c)'
    PROVE  VisitStands(c)' /\ (Cleaning(c)' <=> Cleaning(c)) /\ (PastDecide(c)' <=> PastDecide(c))
<1>1. PICK v : v = visits[c]
    OBVIOUS
<1>2. PICK w : w = visits'[c]
    OBVIOUS
<1>3. /\ v.at \in Saving /\ w.at \in Saving /\ w.op = v.op /\ w.next = v.next /\ w.answer = v.answer
      /\ w.journal = v.journal
    BY <1>1, <1>2
<1>4. VisitStands(c)
    BY DEF LabelsInv
<1>5. UNCHANGED <<reservationOf, budget, sent, staged>>
    BY DEF ledgerSide, providerSide
<1>6. Cleaning(c)' <=> Cleaning(c)
    BY <1>1, <1>2, <1>3 DEF Cleaning
<1>7. PastDecide(c)' <=> PastDecide(c)
    BY <1>1, <1>2, <1>3 DEF PastDecide, AtWork
<1>8. Late => Late'
    BY DEF Late
<1>9. RunStands(c)'
    BY <1>1, <1>2, <1>3, <1>4, <1>5 DEF VisitStands, RunStands, Saving
<1>10. CleanupStands(c)'
    BY <1>1, <1>2, <1>3, <1>4, <1>5, <1>6, <1>8 DEF VisitStands, CleanupStands, AtWork, Saving
<1>11. ConflictStands(c)' /\ RecoveryStands(c)' /\ StepsStand(c)'
    BY <1>1, <1>2, <1>3, <1>4 DEF VisitStands, ConflictStands, RecoveryStands, StepsStand, AtWork, Saving
<1> QED
    BY <1>6, <1>7, <1>9, <1>10, <1>11 DEF VisitStands

LEMMA LateSuccessors ==
    ASSUME NEW phase, NEW next \in Successors(phase)
    PROVE  /\ phase \in LatePhases => next \in LatePhases
           /\ next = "cleanup-refused" => phase \in CleanupUnsent
<1>1. phase \in LatePhases => next \in LatePhases
    BY DEF Successors, LatePhases, CleanupSending
<1>2. next = "cleanup-refused" => phase \in CleanupUnsent
    BY DEF Successors, CleanupUnsent
<1> QED
    BY <1>1, <1>2

LEMMA ChecksStand ==
    ASSUME LabelsInv, NEW c \in Clients, SaveChecks(c)
    PROVE  LabelsInv'
<1>1. Quiet
    BY DEF SaveChecks, Quiet, disk, labelsCounts, LabelsInv, LabelsRecords
<1>2. CASE Raise(c)
    BY <1>1, <1>2, RaiseStands
<1>3. CASE ~Raise(c)
    <2>1. PICK v : v = visits[c]
        OBVIOUS
    <2>2. v \in VisitRec /\ v.at = "save" /\ MaySave(c) /\ UNCHANGED locks
        BY <1>3, <2>1 DEF LabelsInv, LabelsRecords, SaveChecks, IsAt
    <2>3. PICK w : w = [v EXCEPT !.at = "generation", !.base = head.seq]
        OBVIOUS
    <2>4. visits' = [visits EXCEPT ![c] = w] /\ UNCHANGED requestLock
        BY <1>3, <2>1, <2>3 DEF SaveChecks, locks
    <2>5. "generation" \in {"none", "load", "checkpoint", "decide", "publish", "repair", "release", "reread"} \cup AtWork
        BY DEF AtWork, Saving
    <2>6. /\ w \in VisitRec /\ w.op = v.op /\ w.at = "generation" /\ w.next = v.next /\ w.base = head.seq
          /\ w.locked = v.locked /\ w.journal = v.journal /\ w.answer = v.answer
        BY <2>2, <2>3, <2>5, HeadSays DEF VisitRec
    <2>7. OnlyMoves(c) /\ visits'[c] = w
        BY <2>4, <2>6 DEF LabelsInv, LabelsRecords, OnlyMoves
    <2>8. Cleaning(c)' <=> Cleaning(c)
        BY <2>1, <2>2, <2>6, <2>7 DEF Cleaning, Saving
    <2>9. \A d \in Clients : Cleaning(d)' => Cleaning(d)
        BY <2>7, <2>8, OthersClean
    <2>10. UNCHANGED <<generations, reservationOf, sent>>
        BY <1>1 DEF Quiet, ledgerSide, providerSide
    <2>11. Says(v.next) /\ InJournal(v.journal)
        BY <2>1, <2>2 DEF LabelsInv, VisitStands, SaveStands
    <2>12. Says(w.next)'
        BY <2>6, <2>7, <2>9, <2>10, <2>11 DEF Says
    <2>13. SaveStands(c)'
        BY <2>6, <2>7, <2>10, <2>11, <2>12 DEF SaveStands, InJournal
    <2>14. VisitStands(c)' /\ (PastDecide(c)' => PastDecide(c))
        BY <1>1, <2>1, <2>2, <2>6, <2>7, <2>10, <2>13, SavingStands DEF Quiet, Saving
    <2>15. LocksStand'
        BY <2>1, <2>4, <2>6, <2>7, <2>14, LocksKept
    <2>16. Readable /\ (v.next \in Successors(head.phase) \/ v.next = head.phase)
        BY <2>1, <2>2 DEF MaySave
    <2>17. head.seq = 0 \/ \E g \in generations : g.seq = head.seq
        BY <2>16 DEF Readable, NoJournal
    <2>18. v.next \notin LatePhases => \A g \in generations : g.seq <= head.seq => g.phase \notin LatePhases
        BY <2>16, LateSuccessors, ReadableRank
    <2>19. v.next = "cleanup-refused" => sent["cleanup"] = 0
        <3>1. CASE v.next = head.phase
            <4>1. v.next = "cleanup-refused" => head \in generations
                <5>1. head = NoJournal => head.phase = "none"
                    BY DEF NoJournal
                <5> QED
                    BY <3>1, <5>1 DEF LabelsInv, JournalKept
            <4> QED
                BY <3>1, <4>1 DEF LabelsInv, EntriesStand
        <3>2. CASE v.next \in Successors(head.phase)
            BY <2>16, <3>2, LateSuccessors, UnsentCleanup
        <3> QED
            BY <2>16, <3>1, <3>2
    <2>20. TwinsMade' <=> TwinsMade
        BY <2>10 DEF TwinsMade
    <2>21. RankStands(c)'
        BY <2>6, <2>7, <2>10, <2>17, <2>18, <2>19, <2>20 DEF RankStands
    <2> QED
        BY <1>1, <2>4, <2>7, <2>8, <2>14, <2>15, <2>21, QuietStands DEF LabelsInv, LabelsRecords
<1> QED
    BY <1>2, <1>3

(* The generations without a gap, and the entry that is made next to them. *)
LEMMA EntryMade ==
    ASSUME LabelsInv, NEW c \in Clients, visits[c].at = "generation",
           NEW e, e = SavedEntry(c), e \notin generations, generations' = generations \cup {e}, head' = head
    PROVE  /\ e \in EntryRec /\ e.seq = visits[c].base + 1 /\ e.phase = visits[c].next
           /\ JournalKept'
           /\ \A d \in Clients : visits[d].at = "generation" => \/ TwinsMade'
                                                             \/ e.seq > visits[d].base
<1>1. visits[c] \in VisitRec /\ RankStands(c)
    BY DEF LabelsInv, LabelsRecords
<1>2. PICK base \in Nat : base = visits[c].base
    BY <1>1 DEF VisitRec
<1>3. PICK next \in JournalPhases : next = visits[c].next
    BY <1>1 DEF VisitRec
<1>4. e = [seq |-> base + 1, phase |-> next]
    BY <1>2, <1>3 DEF SavedEntry
<1>5. e \in EntryRec /\ e.seq = base + 1 /\ e.phase = next
    BY <1>4 DEF EntryRec
<1>6. \A g \in generations : g.seq \in Nat /\ g.seq # 0
    BY DEF LabelsInv, LabelsRecords, EntryRec
<1>7. \A g \in generations : \A k \in 1..g.seq : \E h \in generations : h.seq = k
    BY DEF LabelsInv, JournalKept
<1>8. base = 0 \/ \E g \in generations : g.seq = base
    BY <1>1, <1>2 DEF RankStands
<1>9. \A g \in generations : g.seq = e.seq => TwinsMade'
    <2> TAKE g \in generations
    <2> HAVE g.seq = e.seq
    <2>1. g \in generations' /\ e \in generations' /\ g # e
        OBVIOUS
    <2> QED
        BY <2>1 DEF TwinsMade
<1>10. \A g \in generations : g.seq > base => TwinsMade'
    <2> TAKE g \in generations
    <2> HAVE g.seq > base
    <2>1. base + 1 \in 1..g.seq
        BY <1>6
    <2> QED
        BY <1>5, <1>7, <1>9, <2>1
<1>11. TwinsMade => TwinsMade'
    BY DEF TwinsMade
<1>12. \A k \in 1..e.seq : \E h \in generations' : h.seq = k
    <2> TAKE k \in 1..e.seq
    <2>1. CASE k = base + 1
        BY <1>5, <2>1
    <2>2. CASE k # base + 1
        <3>1. base # 0 /\ k \in 1..base
            BY <1>5, <2>2
        <3> QED
            BY <1>7, <1>8, <3>1
    <2> QED
        BY <2>1, <2>2
<1>13. \A g \in generations' : \A k \in 1..g.seq : \E h \in generations' : h.seq = k
    BY <1>7, <1>12
<1>14. ASSUME ~TwinsMade', NEW g \in generations', NEW h \in generations', g.seq <= h.seq, g.phase \in LatePhases
       PROVE  h.phase \in LatePhases
    <2>1. ~TwinsMade
        BY <1>11, <1>14
    <2>2. \A x \in generations : x.seq <= base
        BY <1>6, <1>10, <1>14
    <2>3. CASE g \in generations /\ h \in generations
        BY <1>14, <2>1, <2>3 DEF LabelsInv, JournalKept
    <2>4. CASE g \in generations /\ h = e
        BY <1>1, <1>2, <1>3, <1>5, <1>14, <2>1, <2>2, <2>4 DEF RankStands
    <2>5. CASE g = e
        <3>1. h = e
            BY <1>5, <1>6, <1>14, <2>2, <2>5
        <3> QED
            BY <1>14, <2>5, <3>1
    <2> QED
        BY <2>3, <2>4, <2>5
<1>15. head' = NoJournal \/ head' \in generations'
    BY DEF LabelsInv, JournalKept
<1>16. JournalKept'
    BY <1>13, <1>14, <1>15 DEF JournalKept
<1>17. ASSUME NEW d \in Clients, visits[d].at = "generation" PROVE TwinsMade' \/ e.seq > visits[d].base
    <2>1. visits[d] \in VisitRec /\ RankStands(d)
        BY DEF LabelsInv, LabelsRecords
    <2>2. PICK other \in Nat : other = visits[d].base
        BY <2>1 DEF VisitRec
    <2>3. other = 0 \/ \E g \in generations : g.seq = other
        BY <1>17, <2>1, <2>2 DEF RankStands
    <2>4. CASE e.seq <= other
        <3>1. other # 0 /\ e.seq \in 1..other
            BY <1>5, <2>4
        <3> QED
            BY <1>7, <1>9, <2>3, <3>1
    <2> QED
        BY <1>5, <2>2, <2>4
<1> QED
    BY <1>2, <1>3, <1>5, <1>16, <1>17

LEMMA GenerationStands ==
    ASSUME LabelsInv, NEW c \in Clients, SaveGeneration(c)
    PROVE  LabelsInv'
<1>1. CASE SavedEntry(c) \in generations
    <2>1. Quiet /\ Raise(c)
        BY <1>1 DEF SaveGeneration, Quiet, labelsCounts, LabelsInv, LabelsRecords
    <2> QED
        BY <2>1, RaiseStands
<1>2. CASE SavedEntry(c) \notin generations
    <2>1. PICK e : e = SavedEntry(c)
        OBVIOUS
    <2>2. /\ generations' = generations \cup {e} /\ head' = head /\ visits[c].at = "generation" /\ e \notin generations
          /\ GoTo(c, "rename") /\ UNCHANGED requestLock
        BY <1>2, <2>1 DEF SaveGeneration, IsAt, locks
    <2>3. UNCHANGED <<reservationOf, budget, sent, labels, staged, raced>>
        BY DEF SaveGeneration, ledgerSide, providerSide, labelsCounts
    <2>4. "rename" \in {"none", "load", "checkpoint", "decide", "publish", "repair", "release", "reread"} \cup AtWork
        BY DEF AtWork, Saving
    <2>5. /\ Stays(c) /\ visits'[c].at = "rename" /\ visits'[c].next = visits[c].next
          /\ visits'[c].base = visits[c].base /\ visits'[c].answer = visits[c].answer
        BY <2>2, <2>4, GoMoves DEF LabelsInv, LabelsRecords
    <2>6. OnlyMoves(c)
        BY <2>5 DEF Stays
    <2>7. /\ e \in EntryRec /\ e.seq = visits[c].base + 1 /\ e.phase = visits[c].next /\ JournalKept'
          /\ \A d \in Clients : visits[d].at = "generation" => TwinsMade' \/ e.seq > visits[d].base
        BY <2>1, <2>2, EntryMade
    <2>8. InJournal(visits[c].journal) /\ Says(visits[c].next) /\ RankStands(c)
        BY <2>2 DEF LabelsInv, VisitStands, SaveStands
    <2>9. SavedEntry(c)' = e
        BY <2>1, <2>5 DEF SavedEntry
    <2>10. InJournal(visits[c].journal)'
        BY <2>2, <2>5, <2>8 DEF InJournal, Stays
    <2>11. SaveStands(c)'
        BY <2>2, <2>5, <2>9, <2>10 DEF SaveStands, Stays
    <2>12. VisitStands(c)' /\ (Cleaning(c)' <=> Cleaning(c)) /\ (PastDecide(c)' <=> PastDecide(c))
        BY <2>2, <2>3, <2>5, <2>11, SavingStands DEF Stays, Saving, ledgerSide, providerSide
    <2>13. GoesOn(c)
        BY <2>2, <2>3, <2>6, <2>12 DEF GoesOn, ApplyGoesOn, CleanupGoesOn
    <2>14. LocksStand'
        BY <2>2, <2>5, <2>6, <2>12, LocksKept DEF Stays
    <2>15. visits[c].base \in Nat
        BY DEF LabelsInv, LabelsRecords, VisitRec
    <2>16. LabelsRecords'
        BY <2>2, <2>3, <2>6, <2>7, <2>15 DEF LabelsInv, LabelsRecords, OnlyMoves
    <2>17. SendsStand'
        BY <2>2, <2>3 DEF LabelsInv, SendsStand, Late
    <2>18. EntriesStand'
        <3> SUFFICES ASSUME NEW g \in generations'
                     PROVE  Says(g.phase)' /\ (g.phase = "cleanup-refused" => sent["cleanup"] = 0)
            BY <2>3 DEF EntriesStand
        <3>1. Says(g.phase) /\ (g.phase = "cleanup-refused" => sent["cleanup"] = 0)
            BY <2>2, <2>7, <2>8 DEF LabelsInv, EntriesStand, RankStands
        <3> QED
            BY <2>13, <3>1, SaidStands
    <2>19. ASSUME NEW d \in Clients PROVE RankStands(d)'
        <3>1. CASE d = c
            BY <2>5, <3>1 DEF RankStands
        <3>2. CASE d # c
            <4>1. PICK v : v = visits[d]
                OBVIOUS
            <4>2. visits'[d] = v /\ RankStands(d) /\ v \in VisitRec
                BY <2>6, <3>2, <4>1 DEF OnlyMoves, LabelsInv, LabelsRecords
            <4> SUFFICES ASSUME v.at = "generation" PROVE RankStands(d)'
                BY <4>2 DEF RankStands
            <4>3. v.base = 0 \/ \E g \in generations' : g.seq = v.base
                BY <2>2, <4>1, <4>2 DEF RankStands
            <4>4. v.next = "cleanup-refused" => sent'["cleanup"] = 0
                BY <2>3, <4>1, <4>2 DEF RankStands
            <4>5. TwinsMade => TwinsMade'
                BY <2>2 DEF TwinsMade
            <4>6. TwinsMade' \/ e.seq > v.base
                BY <2>7, <4>1
            <4>7. e.seq \in Nat /\ v.base \in Nat
                BY <2>7, <4>2 DEF EntryRec, VisitRec
            <4>8. TwinsMade' \/ v.next \in LatePhases \/ \A g \in generations' : g.seq <= v.base => g.phase \notin LatePhases
                BY <2>2, <4>1, <4>2, <4>5, <4>6, <4>7 DEF RankStands
            <4> QED
                BY <4>2, <4>3, <4>4, <4>8 DEF RankStands
        <3> QED
            BY <3>1, <3>2
    <2>20. ASSUME NEW d \in Clients PROVE VisitStands(d)'
        BY <2>12, <2>13, OthersStand
    <2> QED
        BY <2>7, <2>14, <2>16, <2>17, <2>18, <2>19, <2>20 DEF LabelsInv
<1> QED
    BY <1>1, <1>2

LEMMA HeadStands ==
    ASSUME LabelsInv, NEW c \in Clients, SaveHead(c)
    PROVE  LabelsInv'
<1>1. visits[c].at = "rename" /\ SavedEntry(c) \in generations
    BY DEF SaveHead, IsAt, LabelsInv, VisitStands, SaveStands
<1>2. Quiet
    BY <1>1 DEF SaveHead, Quiet, labelsCounts, LabelsInv, LabelsRecords
<1>3. CASE Leave(c)
    BY <1>2, <1>3, LeaveStands
<1>4. CASE ~Leave(c)
    <2>1. GoTo(c, "saved") /\ UNCHANGED requestLock
        BY <1>4 DEF SaveHead, locks
    <2>2. "saved" \in {"none", "load", "checkpoint", "decide", "publish", "repair", "release", "reread"} \cup AtWork
        BY DEF AtWork, Saving
    <2>3. /\ Stays(c) /\ visits'[c].at = "saved" /\ visits'[c].next = visits[c].next
          /\ visits'[c].base = visits[c].base /\ visits'[c].answer = visits[c].answer
        BY <2>1, <2>2, GoMoves DEF LabelsInv, LabelsRecords
    <2>4. SavedEntry(c)' = SavedEntry(c)
        BY <2>3 DEF SavedEntry
    <2>5. InJournal(visits[c].journal)'
        BY <1>2, <2>3 DEF InJournal, Stays, Quiet, LabelsInv, VisitStands, SaveStands
    <2>6. SaveStands(c)'
        BY <1>1, <1>2, <2>3, <2>4, <2>5 DEF SaveStands, Stays, Quiet
    <2>7. VisitStands(c)' /\ (Cleaning(c)' <=> Cleaning(c)) /\ (PastDecide(c)' <=> PastDecide(c))
        BY <1>1, <1>2, <2>3, <2>6, SavingStands DEF Stays, Saving, Quiet
    <2>8. RankStands(c)'
        BY <2>3 DEF RankStands
    <2>9. LocksStand'
        BY <2>1, <2>3, <2>7, LocksKept DEF Stays
    <2> QED
        BY <1>2, <2>1, <2>3, <2>7, <2>8, <2>9, QuietStands DEF LabelsInv, LabelsRecords, Stays
<1> QED
    BY <1>3, <1>4

(* A call that turns to the next save, or to another step, and leaves the files alone. *)
EffectRecords ==
    /\ reservationOf \in [LabelEffects -> ReservationStates]
    /\ budget \in [LabelEffects -> {"untouched", "consumed", "released"}]
    /\ sent \in [LabelEffects -> 0..1]
    /\ staged \in BOOLEAN

LEMMA SaveGoesOn ==
    ASSUME LabelsInv, NEW c \in Clients, NEW phase \in JournalPhases, Save(c, phase),
           UNCHANGED <<disk, requestLock, raced>>, EffectRecords', ApplyGoesOn(c), CleanupGoesOn(c), SendsStand', LocksStand',
           Says(phase)', RunStands(c)', CleanupStands(c)', visits[c].op = "conflict" => visits[c].journal \in Settled
    PROVE  LabelsInv'
<1>1. /\ Stays(c) /\ visits'[c].at = "save" /\ visits'[c].next = phase
      /\ visits'[c].base = visits[c].base /\ visits'[c].answer = visits[c].answer
    BY SaveMoves DEF LabelsInv, LabelsRecords
<1>2. OnlyMoves(c) /\ UNCHANGED <<head, generations>>
    BY <1>1 DEF Stays, disk
<1>3. GoesOn(c)
    BY <1>2 DEF GoesOn
<1>4. LabelsRecords'
    BY <1>2 DEF LabelsInv, LabelsRecords, EffectRecords, OnlyMoves
<1>5. InJournal(visits[c].journal)'
    BY <1>1, <1>2 DEF InJournal, Stays, LabelsInv, VisitStands, SaveStands
<1>6. SaveStands(c)'
    BY <1>1, <1>5 DEF SaveStands, Stays
<1>7. ConflictStands(c)' /\ RecoveryStands(c)' /\ StepsStand(c)' /\ RankStands(c)'
    BY <1>1 DEF ConflictStands, RecoveryStands, StepsStand, RankStands, Stays
<1> QED
    BY <1>2, <1>3, <1>4, <1>6, <1>7, StepStands DEF VisitStands

LEMMA GoGoesOn ==
    ASSUME LabelsInv, NEW c \in Clients, NEW step \in {"release", "reread", "reconcile", "report"}, GoTo(c, step),
           UNCHANGED <<disk, requestLock, raced>>, EffectRecords', ApplyGoesOn(c), CleanupGoesOn(c), SendsStand', LocksStand',
           RunStands(c)', CleanupStands(c)', RecoveryStands(c)',
           step \in {"reconcile", "report"} => visits[c].op \in {"run", "cleanup"},
           step \in {"release", "reread"} => visits[c].op = "recover"
    PROVE  LabelsInv'
<1>1. /\ Stays(c) /\ visits'[c].at = step /\ visits'[c].next = visits[c].next
      /\ visits'[c].base = visits[c].base /\ visits'[c].answer = visits[c].answer
    BY GoMoves DEF LabelsInv, LabelsRecords, AtWork
<1>2. OnlyMoves(c) /\ UNCHANGED <<head, generations>>
    BY <1>1 DEF Stays, disk
<1>3. GoesOn(c)
    BY <1>2 DEF GoesOn
<1>4. LabelsRecords'
    BY <1>2 DEF LabelsInv, LabelsRecords, EffectRecords, OnlyMoves
<1>5. InJournal(visits[c].journal)'
    BY <1>1, <1>2 DEF InJournal, Stays, LabelsInv, VisitStands, SaveStands
<1>6. SaveStands(c)'
    BY <1>1, <1>5 DEF SaveStands, Stays
<1>7. ConflictStands(c)' /\ StepsStand(c)' /\ RankStands(c)'
    BY <1>1 DEF ConflictStands, StepsStand, RankStands, Stays
<1> QED
    BY <1>2, <1>3, <1>4, <1>6, <1>7, StepStands DEF VisitStands

(* Past its decision a cleanup is alone, and the labels were applied. *)
LEMMA CleanupAlone ==
    ASSUME LabelsInv, NEW c \in Clients, PastDecide(c)
    PROVE  \A d \in Clients \ {c} : ~Cleaning(d) /\ ~PastDecide(d)
BY DEF LabelsInv, LocksStand, Cleaning, PastDecide, AtWork

LEMMA CleanupApplied ==
    ASSUME LabelsInv, NEW c \in Clients, visits[c].op = "cleanup", visits[c].at \in AtWork \cup {"decide"}
    PROVE  reservationOf["apply"] = "reconciled" /\ sent["apply"] = 1
<1>1. visits[c].journal = "acknowledged" /\ InJournal(visits[c].journal)
    BY DEF LabelsInv, VisitStands, CleanupStands, SaveStands
<1>2. Says("acknowledged")
    BY <1>1 DEF InJournal, LabelsInv, EntriesStand
<1> QED
    BY <1>2 DEF Says, Settled

(* The locks when a step leaves a cleanup on its side of the decision. *)
LEMMA LocksAtWork ==
    ASSUME LabelsInv, NEW c \in Clients, Stays(c), UNCHANGED requestLock, visits[c].op = "cleanup" => PastDecide(c)
    PROVE  LocksStand'
<1>1. PastDecide(c)' => PastDecide(c)
    BY DEF PastDecide, Stays
<1> QED
    BY <1>1, LocksKept DEF Stays

(* Of a run past its load: the lock is its own. *)
LEMMA RunLocked ==
    ASSUME LabelsInv, NEW c \in Clients, visits[c].op \in {"run", "recover"}
    PROVE  visits[c].locked
BY DEF LabelsInv, LocksStand

LEMMA EffectsTyped ==
    ASSUME LabelsInv
    PROVE  /\ EffectRecords
           /\ reservationOf["apply"] \in ReservationStates /\ reservationOf["cleanup"] \in ReservationStates
           /\ sent["apply"] \in {0, 1} /\ sent["cleanup"] \in {0, 1}
BY SentStates DEF LabelsInv, LabelsRecords, EffectRecords, LabelEffects

LEMMA DecideStands ==
    ASSUME LabelsInv, NEW c \in Clients, Decide(c)
    PROVE  LabelsInv'
<1>1. visits[c].at = "decide" /\ visits[c].op \in {"run", "cleanup"} /\ VisitStands(c)
    BY DEF Decide, IsAt, LabelsInv, VisitStands, StepsStand
<1>2. CASE Leave(c) /\ UNCHANGED reservationOf
    <2>1. Quiet
        BY <1>2 DEF Decide, Quiet, disk, ledgerSide, labelsCounts, LabelsInv, LabelsRecords
    <2> QED
        BY <1>2, <2>1, LeaveStands
<1>3. CASE /\ reservationOf["apply"] = "none" /\ reservationOf' = [reservationOf EXCEPT !["apply"] = "reserved"]
           /\ Save(c, "reserved") /\ UNCHANGED locks /\ visits[c].op = "run"
    <2>1. /\ reservationOf'["apply"] = "reserved" /\ reservationOf'["cleanup"] = reservationOf["cleanup"]
          /\ UNCHANGED <<disk, requestLock, raced, budget, sent, labels, staged, generations>>
        BY <1>3, EffectsTyped DEF Decide, EffectRecords, LabelEffects, providerSide, labelsCounts, locks, disk
    <2>2. EffectRecords'
        BY <1>3, <2>1, EffectsTyped DEF EffectRecords, ReservationStates
    <2>3. /\ Stays(c) /\ visits'[c].at = "save" /\ visits'[c].next = "reserved" /\ visits'[c].op = "run"
          /\ visits'[c].answer = visits[c].answer
        BY <1>3, SaveMoves DEF LabelsInv, LabelsRecords, JournalPhases, Unsent, Stays
    <2>4. ~Cleaning(c)' /\ ~Cleaning(c)
        BY <1>3, <2>3 DEF Cleaning
    <2>5. ApplyGoesOn(c) /\ CleanupGoesOn(c)
        BY <1>3, <2>1, <2>4, RunLocked DEF ApplyGoesOn, CleanupGoesOn
    <2>6. SendsStand'
        BY <1>3, <2>1 DEF LabelsInv, SendsStand, Late
    <2>7. LocksStand'
        BY <1>3, <2>1, <2>3, LocksAtWork
    <2>8. Says("reserved")'
        BY DEF Says, Sending, Settled, CleanupPhases, CleanupUnsent, LatePhases, CleanupSending
    <2>9. RunStands(c)' /\ CleanupStands(c)'
        BY <1>1, <1>3, <2>1, <2>3 DEF VisitStands, RunStands, CleanupStands
    <2> QED
        BY <1>3, <2>1, <2>2, <2>5, <2>6, <2>7, <2>8, <2>9, SaveGoesOn DEF JournalPhases, Unsent
<1>4. CASE /\ reservationOf["cleanup"] = "none" /\ reservationOf' = [reservationOf EXCEPT !["cleanup"] = "reserved"]
           /\ Save(c, "cleanup-reserved") /\ UNCHANGED locks /\ visits[c].op = "cleanup"
    <2>1. /\ reservationOf'["cleanup"] = "reserved" /\ reservationOf'["apply"] = reservationOf["apply"]
          /\ UNCHANGED <<disk, requestLock, raced, budget, sent, labels, staged, generations>>
        BY <1>4, EffectsTyped DEF Decide, EffectRecords, LabelEffects, providerSide, labelsCounts, locks, disk
    <2>2. EffectRecords'
        BY <1>4, <2>1, EffectsTyped DEF EffectRecords, ReservationStates
    <2>3. /\ Stays(c) /\ visits'[c].at = "save" /\ visits'[c].next = "cleanup-reserved" /\ visits'[c].op = "cleanup"
          /\ visits'[c].answer = visits[c].answer /\ visits'[c].journal = visits[c].journal
        BY <1>4, SaveMoves DEF LabelsInv, LabelsRecords, JournalPhases, Settled, CleanupUnsent, Stays
    <2>4. \A d \in Clients : ~PastDecide(d) /\ ~Cleaning(d)
        <3>1. \A d \in Clients : ~PastDecide(d)
            BY <1>4 DEF LabelsInv, VisitStands, CleanupStands, PastDecide
        <3> QED
            BY <3>1 DEF PastDecide, Cleaning, AtWork
    <2>5. sent["cleanup"] = 0 /\ ~staged
        BY <1>4, SentStates DEF LabelsInv, SendsStand
    <2>6. ApplyGoesOn(c) /\ CleanupGoesOn(c)
        BY <1>4, <2>1, <2>4 DEF ApplyGoesOn, CleanupGoesOn
    <2>7. SendsStand'
        BY <1>4, <2>1 DEF LabelsInv, SendsStand, Late
    <2>8. OnlyMoves(c)
        BY <2>3 DEF Stays
    <2>9. LocksStand'
        BY <2>1, <2>3, <2>4, <2>8, OthersClean DEF LabelsInv, LocksStand, OnlyMoves, Stays
    <2>10. reservationOf["apply"] = "reconciled" /\ sent["apply"] = 1
        BY <1>1, <1>4, CleanupApplied
    <2>11. Says("cleanup-reserved")'
        BY <2>1, <2>10 DEF Says, Sending, Settled
    <2>12. RunStands(c)'
        BY <2>3 DEF RunStands
    <2>13. CleanupStands(c)'
        <3>1. visits[c].journal = "acknowledged" /\ visits[c].answer # "matched"
            BY <1>1, <1>4, <2>5 DEF VisitStands, CleanupStands
        <3> QED
            BY <2>1, <2>3, <2>5, <3>1 DEF CleanupStands, CleanupUnsent, CleanupAnnounced
    <2> QED
        BY <1>4, <2>1, <2>2, <2>6, <2>7, <2>9, <2>11, <2>12, <2>13, SaveGoesOn DEF JournalPhases, Settled, CleanupUnsent
<1> QED
    BY <1>1, <1>2, <1>3, <1>4 DEF Decide, EffectOfCall, Name

LEMMA CompareStands ==
    ASSUME LabelsInv, NEW c \in Clients, Compare(c)
    PROVE  LabelsInv'
<1>1. /\ visits[c].at = "saved" /\ visits[c].op = "run" /\ visits[c].next = "reserved" /\ VisitStands(c)
      /\ UNCHANGED <<disk, requestLock, raced, budget, sent, labels, staged, generations>>
    BY DEF Compare, Saved, IsAt, LabelsInv, providerSide, labelsCounts, locks, disk
<1>2. reservationOf["apply"] = "reserved"
    BY <1>1 DEF VisitStands, RunStands, Saving, Unsent
<1>3. sent["apply"] = 0
    BY <1>2, SentStates DEF LabelsInv, SendsStand
<1>4. ~Cleaning(c)
    BY <1>1 DEF Cleaning
<1>5. CASE Save(c, "budget-intent") /\ UNCHANGED reservationOf
    <2>1. /\ Stays(c) /\ visits'[c].at = "save" /\ visits'[c].next = "budget-intent" /\ visits'[c].op = "run"
          /\ visits'[c].answer = visits[c].answer
        BY <1>1, <1>5, SaveMoves DEF LabelsInv, LabelsRecords, JournalPhases, Unsent, Stays
    <2>2. ~Cleaning(c)' /\ EffectRecords' /\ SendsStand'
        BY <1>1, <1>5, <2>1, EffectsTyped DEF Cleaning, EffectRecords, LabelsInv, SendsStand, Late
    <2>3. ApplyGoesOn(c) /\ CleanupGoesOn(c)
        BY <1>1, <1>4, <1>5, <2>2 DEF ApplyGoesOn, CleanupGoesOn
    <2>4. LocksStand'
        BY <1>1, <2>1, LocksAtWork
    <2>5. Says("budget-intent")'
        BY DEF Says, Sending, Settled, CleanupPhases, CleanupUnsent, LatePhases, CleanupSending
    <2>6. RunStands(c)' /\ CleanupStands(c)'
        BY <1>1, <1>2, <1>5, <2>1 DEF VisitStands, RunStands, CleanupStands
    <2> QED
        BY <1>1, <1>5, <2>2, <2>3, <2>4, <2>5, <2>6, SaveGoesOn DEF JournalPhases, Unsent
<1>6. CASE reservationOf' = [reservationOf EXCEPT !["apply"] = "cancelled"] /\ Save(c, "refused")
    <2>1. /\ Stays(c) /\ visits'[c].at = "save" /\ visits'[c].next = "refused" /\ visits'[c].op = "run"
          /\ visits'[c].answer = visits[c].answer
        BY <1>1, <1>6, SaveMoves DEF LabelsInv, LabelsRecords, JournalPhases, Stays
    <2>2. reservationOf'["apply"] = "cancelled" /\ reservationOf'["cleanup"] = reservationOf["cleanup"] /\ EffectRecords'
        BY <1>1, <1>6, EffectsTyped DEF EffectRecords, LabelEffects, ReservationStates
    <2>3. ~Cleaning(c)' /\ SendsStand'
        BY <1>1, <1>3, <2>1, <2>2 DEF Cleaning, LabelsInv, SendsStand, Late
    <2>4. ApplyGoesOn(c) /\ CleanupGoesOn(c)
        BY <1>1, <1>2, <1>4, <2>2, <2>3, RunLocked DEF ApplyGoesOn, CleanupGoesOn
    <2>5. LocksStand'
        BY <1>1, <2>1, LocksAtWork
    <2>6. Says("refused")'
        BY <1>1, <1>3, <2>2 DEF Says, Sending, Settled, CleanupPhases, CleanupUnsent, LatePhases, CleanupSending
    <2>7. RunStands(c)' /\ CleanupStands(c)'
        BY <1>1, <2>1 DEF VisitStands, RunStands, CleanupStands, Unsent
    <2> QED
        BY <1>1, <1>6, <2>2, <2>3, <2>4, <2>5, <2>6, <2>7, SaveGoesOn DEF JournalPhases
<1> QED
    BY <1>5, <1>6 DEF Compare

(* What is known of a run and of a cleanup at a saved step. *)
LEMMA RunSaved ==
    ASSUME LabelsInv, NEW c \in Clients, NEW phase, Saved(c, "run", phase)
    PROVE  /\ visits[c].at = "saved" /\ visits[c].op = "run" /\ visits[c].next = phase
           /\ RunStands(c) /\ visits[c].locked /\ ~Cleaning(c)
           /\ phase \in Unsent => reservationOf["apply"] = "reserved" /\ sent["apply"] = 0
BY SentStates DEF Saved, IsAt, LabelsInv, VisitStands, LocksStand, Cleaning, RunStands, Saving, SendsStand

LEMMA CleanupSaved ==
    ASSUME LabelsInv, NEW c \in Clients, NEW phase, Saved(c, "cleanup", phase)
    PROVE  /\ visits[c].at = "saved" /\ visits[c].op = "cleanup" /\ visits[c].next = phase
           /\ CleanupStands(c) /\ PastDecide(c) /\ reservationOf["cleanup"] # "none"
           /\ visits[c].journal = "acknowledged" /\ reservationOf["apply"] = "reconciled" /\ sent["apply"] = 1
           /\ \A d \in Clients \ {c} : ~Cleaning(d) /\ ~PastDecide(d)
           /\ phase \in CleanupUnsent \cup CleanupAnnounced => Cleaning(c) /\ sent["cleanup"] = 0 /\ ~staged
<1>1. visits[c].at = "saved" /\ visits[c].op = "cleanup" /\ visits[c].next = phase /\ PastDecide(c) /\ CleanupStands(c)
    BY DEF Saved, IsAt, LabelsInv, VisitStands, PastDecide, AtWork, Saving
<1>2. visits[c].journal = "acknowledged" /\ reservationOf["cleanup"] # "none"
    BY <1>1 DEF CleanupStands, AtWork, Saving
<1>3. phase \in CleanupUnsent \cup CleanupAnnounced => Cleaning(c)
    BY <1>1 DEF Cleaning, Saving
<1>4. Cleaning(c) => sent["cleanup"] = 0 /\ ~staged
    BY <1>1 DEF CleanupStands
<1>5. reservationOf["apply"] = "reconciled" /\ sent["apply"] = 1
    BY <1>1, CleanupApplied DEF AtWork, Saving
<1> QED
    BY <1>1, <1>2, <1>3, <1>4, <1>5, CleanupAlone

LEMMA ConsumeStands ==
    ASSUME LabelsInv, NEW c \in Clients, ConsumeUnit(c)
    PROVE  LabelsInv'
<1>1. UNCHANGED <<disk, requestLock, raced, reservationOf, sent, labels, staged, generations>>
    BY DEF ConsumeUnit, providerSide, labelsCounts, locks, disk
<1>2. CASE Saved(c, "run", "budget-intent")
    <2>1. /\ visits[c].at = "saved" /\ visits[c].op = "run" /\ visits[c].next = "budget-intent" /\ RunStands(c)
          /\ visits[c].locked /\ ~Cleaning(c) /\ reservationOf["apply"] = "reserved" /\ sent["apply"] = 0
        BY <1>2, RunSaved DEF Unsent
    <2>2. budget' = [budget EXCEPT !["apply"] = "consumed"] /\ Save(c, "budget-consumed")
        BY <2>1 DEF ConsumeUnit, EffectOfCall, Name
    <2>3. /\ Stays(c) /\ visits'[c].at = "save" /\ visits'[c].next = "budget-consumed" /\ visits'[c].op = "run"
          /\ visits'[c].answer = visits[c].answer
        BY <2>1, <2>2, SaveMoves DEF LabelsInv, LabelsRecords, JournalPhases, Unsent, Stays
    <2>4. budget'["apply"] = "consumed" /\ budget'["cleanup"] = budget["cleanup"] /\ EffectRecords'
        BY <1>1, <2>2, EffectsTyped DEF EffectRecords, LabelEffects
    <2>5. ~Cleaning(c)' /\ SendsStand'
        BY <1>1, <2>3, <2>4 DEF Cleaning, LabelsInv, SendsStand, Late
    <2>6. ApplyGoesOn(c) /\ CleanupGoesOn(c)
        BY <1>1, <2>1, <2>4, <2>5 DEF ApplyGoesOn, CleanupGoesOn
    <2>7. LocksStand'
        BY <1>1, <2>1, <2>3, LocksAtWork
    <2>8. Says("budget-consumed")'
        BY DEF Says, Sending, Settled, CleanupPhases, CleanupUnsent, LatePhases, CleanupSending
    <2>9. RunStands(c)' /\ CleanupStands(c)'
        BY <1>1, <2>1, <2>3, <2>4 DEF RunStands, CleanupStands
    <2> QED
        BY <1>1, <2>1, <2>2, <2>4, <2>5, <2>6, <2>7, <2>8, <2>9, SaveGoesOn DEF JournalPhases, Unsent
<1>3. CASE Saved(c, "cleanup", "cleanup-reserved")
    <2>1. /\ visits[c].at = "saved" /\ visits[c].op = "cleanup" /\ visits[c].next = "cleanup-reserved"
          /\ CleanupStands(c) /\ PastDecide(c) /\ reservationOf["cleanup"] # "none" /\ visits[c].journal = "acknowledged"
          /\ reservationOf["apply"] = "reconciled" /\ sent["apply"] = 1 /\ Cleaning(c) /\ sent["cleanup"] = 0 /\ ~staged
          /\ \A d \in Clients \ {c} : ~Cleaning(d) /\ ~PastDecide(d)
        BY <1>3, CleanupSaved DEF CleanupUnsent
    <2>2. budget' = [budget EXCEPT !["cleanup"] = "consumed"] /\ Save(c, "cleanup-budget-consumed")
        BY <2>1 DEF ConsumeUnit, EffectOfCall, Name
    <2>3. /\ Stays(c) /\ visits'[c].at = "save" /\ visits'[c].next = "cleanup-budget-consumed"
          /\ visits'[c].op = "cleanup" /\ visits'[c].answer = visits[c].answer /\ visits'[c].journal = "acknowledged"
        BY <2>1, <2>2, SaveMoves DEF LabelsInv, LabelsRecords, JournalPhases, Settled, CleanupUnsent, Stays
    <2>4. budget'["cleanup"] = "consumed" /\ budget'["apply"] = budget["apply"] /\ EffectRecords'
        BY <1>1, <2>2, EffectsTyped DEF EffectRecords, LabelEffects
    <2>5. SendsStand'
        BY <1>1, <2>4 DEF LabelsInv, SendsStand, Late
    <2>6. ApplyGoesOn(c) /\ CleanupGoesOn(c)
        BY <1>1, <2>1, <2>4 DEF ApplyGoesOn, CleanupGoesOn
    <2>7. LocksStand'
        BY <1>1, <2>1, <2>3, LocksAtWork
    <2>8. Says("cleanup-budget-consumed")'
        BY <1>1, <2>1 DEF Says, Sending, Settled
    <2>9. RunStands(c)'
        BY <2>3 DEF RunStands
    <2>10. reservationOf["cleanup"] = "reserved" /\ visits[c].answer # "matched"
        BY <2>1 DEF CleanupStands, CleanupUnsent
    <2>11. CleanupStands(c)'
        BY <1>1, <2>1, <2>3, <2>4, <2>10 DEF CleanupStands, CleanupAnnounced
    <2> QED
        BY <1>1, <2>1, <2>2, <2>4, <2>5, <2>6, <2>7, <2>8, <2>9, <2>11, SaveGoesOn DEF JournalPhases, Settled, CleanupUnsent
<1> QED
    BY <1>2, <1>3 DEF ConsumeUnit, SavedAs

LEMMA DispatchedStands ==
    ASSUME LabelsInv, NEW c \in Clients, MarkDispatched(c)
    PROVE  LabelsInv'
<1>1. UNCHANGED <<disk, raced, budget, sent, labels, staged, generations>>
    BY DEF MarkDispatched, providerSide, labelsCounts, disk
<1>2. CASE Leave(c) /\ UNCHANGED reservationOf
    <2>1. Quiet
        BY <1>1, <1>2 DEF Quiet, disk, ledgerSide, providerSide, LabelsInv, LabelsRecords
    <2> QED
        BY <1>2, <2>1, LeaveStands
<1>3. CASE Saved(c, "run", "budget-consumed") /\ ~(Leave(c) /\ UNCHANGED reservationOf)
    <2>1. /\ visits[c].at = "saved" /\ visits[c].op = "run" /\ visits[c].next = "budget-consumed" /\ RunStands(c)
          /\ visits[c].locked /\ ~Cleaning(c) /\ reservationOf["apply"] = "reserved" /\ sent["apply"] = 0
        BY <1>3, RunSaved DEF Unsent
    <2>2. reservationOf' = [reservationOf EXCEPT !["apply"] = "dispatched"] /\ Save(c, "dispatched") /\ UNCHANGED requestLock
        BY <1>3, <2>1 DEF MarkDispatched, EffectOfCall, Name, locks
    <2>3. /\ Stays(c) /\ visits'[c].at = "save" /\ visits'[c].next = "dispatched" /\ visits'[c].op = "run"
          /\ visits'[c].answer = visits[c].answer
        BY <2>1, <2>2, SaveMoves DEF LabelsInv, LabelsRecords, JournalPhases, Sending, Stays
    <2>4. reservationOf'["apply"] = "dispatched" /\ reservationOf'["cleanup"] = reservationOf["cleanup"] /\ EffectRecords'
        BY <1>1, <2>2, EffectsTyped DEF EffectRecords, LabelEffects, ReservationStates
    <2>5. ~Cleaning(c)' /\ SendsStand'
        BY <1>1, <2>1, <2>3, <2>4 DEF Cleaning, LabelsInv, SendsStand, Late
    <2>6. ApplyGoesOn(c) /\ CleanupGoesOn(c)
        BY <1>1, <2>1, <2>4, <2>5 DEF ApplyGoesOn, CleanupGoesOn
    <2>7. LocksStand'
        BY <2>1, <2>2, <2>3, LocksAtWork
    <2>8. Says("dispatched")'
        BY <2>4 DEF Says, Settled, CleanupPhases, CleanupUnsent, LatePhases, CleanupSending
    <2>9. budget["apply"] = "consumed"
        BY <2>1 DEF RunStands, Saving
    <2>10. RunStands(c)' /\ CleanupStands(c)'
        BY <1>1, <2>1, <2>3, <2>4, <2>9 DEF RunStands, CleanupStands, Unsent
    <2> QED
        BY <1>1, <2>1, <2>2, <2>4, <2>5, <2>6, <2>7, <2>8, <2>10, SaveGoesOn DEF JournalPhases, Sending
<1>4. CASE Saved(c, "cleanup", "cleanup-budget-consumed") /\ ~(Leave(c) /\ UNCHANGED reservationOf)
    <2>1. /\ visits[c].at = "saved" /\ visits[c].op = "cleanup" /\ visits[c].next = "cleanup-budget-consumed"
          /\ CleanupStands(c) /\ PastDecide(c) /\ reservationOf["cleanup"] # "none" /\ visits[c].journal = "acknowledged"
          /\ reservationOf["apply"] = "reconciled" /\ sent["apply"] = 1 /\ Cleaning(c) /\ sent["cleanup"] = 0 /\ ~staged
          /\ \A d \in Clients \ {c} : ~Cleaning(d) /\ ~PastDecide(d)
        BY <1>4, CleanupSaved DEF CleanupUnsent
    <2>2. /\ reservationOf["cleanup"] = "reserved" /\ reservationOf' = [reservationOf EXCEPT !["cleanup"] = "dispatched"]
          /\ Save(c, "cleanup-dispatched") /\ UNCHANGED requestLock
        BY <1>4, <2>1 DEF MarkDispatched, EffectOfCall, Name, locks
    <2>3. /\ Stays(c) /\ visits'[c].at = "save" /\ visits'[c].next = "cleanup-dispatched"
          /\ visits'[c].op = "cleanup" /\ visits'[c].answer = visits[c].answer /\ visits'[c].journal = "acknowledged"
        BY <2>1, <2>2, SaveMoves DEF LabelsInv, LabelsRecords, JournalPhases, Settled, CleanupSending, Stays
    <2>4. reservationOf'["cleanup"] = "dispatched" /\ reservationOf'["apply"] = reservationOf["apply"] /\ EffectRecords'
        BY <1>1, <2>2, EffectsTyped DEF EffectRecords, LabelEffects, ReservationStates
    <2>5. SendsStand'
        BY <1>1, <2>1, <2>4 DEF LabelsInv, SendsStand, Late
    <2>6. ApplyGoesOn(c) /\ CleanupGoesOn(c)
        BY <1>1, <2>1, <2>2, <2>4 DEF ApplyGoesOn, CleanupGoesOn
    <2>7. LocksStand'
        BY <2>1, <2>2, <2>3, LocksAtWork
    <2>8. Says("cleanup-dispatched")'
        BY <1>1, <2>1, <2>4 DEF Says, Sending, Settled, CleanupSending
    <2>9. RunStands(c)'
        BY <2>3 DEF RunStands
    <2>10. budget["cleanup"] = "consumed" /\ visits[c].answer # "matched"
        BY <2>1 DEF CleanupStands
    <2>11. CleanupStands(c)'
        BY <1>1, <2>1, <2>3, <2>4, <2>10 DEF CleanupStands, CleanupUnsent
    <2> QED
        BY <1>1, <2>1, <2>2, <2>4, <2>5, <2>6, <2>7, <2>8, <2>9, <2>11, SaveGoesOn DEF JournalPhases, Settled, CleanupSending
<1> QED
    BY <1>2, <1>3, <1>4 DEF MarkDispatched, SavedAs

LEMMA AnnounceStands ==
    ASSUME LabelsInv, NEW c \in Clients, AnnounceWrite(c)
    PROVE  LabelsInv'
<1>1. UNCHANGED <<disk, requestLock, raced, reservationOf, budget, sent, labels, staged, generations>>
    BY DEF AnnounceWrite, ledgerSide, providerSide, labelsCounts, locks, disk
<1>2. EffectRecords' /\ SendsStand'
    BY <1>1, EffectsTyped DEF EffectRecords, LabelsInv, SendsStand, Late
<1>3. CASE Saved(c, "run", "dispatched")
    <2>1. /\ visits[c].at = "saved" /\ visits[c].op = "run" /\ visits[c].next = "dispatched" /\ RunStands(c)
          /\ visits[c].locked /\ ~Cleaning(c)
        BY <1>3, RunSaved
    <2>2. Save(c, "provider-send-intent")
        BY <2>1 DEF AnnounceWrite, Name
    <2>3. /\ Stays(c) /\ visits'[c].at = "save" /\ visits'[c].next = "provider-send-intent" /\ visits'[c].op = "run"
          /\ visits'[c].answer = visits[c].answer
        BY <2>1, <2>2, SaveMoves DEF LabelsInv, LabelsRecords, JournalPhases, Sending, Stays
    <2>4. ~Cleaning(c)'
        BY <2>3 DEF Cleaning
    <2>5. ApplyGoesOn(c) /\ CleanupGoesOn(c)
        BY <1>1, <2>1, <2>4 DEF ApplyGoesOn, CleanupGoesOn
    <2>6. LocksStand'
        BY <1>1, <2>1, <2>3, LocksAtWork
    <2>7. reservationOf["apply"] = "dispatched" /\ sent["apply"] = 0 /\ budget["apply"] = "consumed"
        BY <2>1 DEF RunStands, Saving
    <2>8. Says("provider-send-intent")'
        BY <1>1, <2>7 DEF Says, Settled, CleanupPhases, CleanupUnsent, LatePhases, CleanupSending
    <2>9. RunStands(c)' /\ CleanupStands(c)'
        BY <1>1, <2>1, <2>3, <2>7 DEF RunStands, CleanupStands, Unsent
    <2> QED
        BY <1>1, <1>2, <2>1, <2>2, <2>5, <2>6, <2>8, <2>9, SaveGoesOn DEF JournalPhases, Sending
<1>4. CASE Saved(c, "cleanup", "cleanup-dispatched")
    <2>1. /\ visits[c].at = "saved" /\ visits[c].op = "cleanup" /\ visits[c].next = "cleanup-dispatched"
          /\ CleanupStands(c) /\ PastDecide(c) /\ reservationOf["cleanup"] # "none" /\ visits[c].journal = "acknowledged"
          /\ reservationOf["apply"] = "reconciled" /\ sent["apply"] = 1 /\ Cleaning(c) /\ sent["cleanup"] = 0 /\ ~staged
          /\ \A d \in Clients \ {c} : ~Cleaning(d) /\ ~PastDecide(d)
        BY <1>4, CleanupSaved DEF CleanupAnnounced
    <2>2. Save(c, "cleanup-send-intent")
        BY <2>1 DEF AnnounceWrite, Name
    <2>3. /\ Stays(c) /\ visits'[c].at = "save" /\ visits'[c].next = "cleanup-send-intent"
          /\ visits'[c].op = "cleanup" /\ visits'[c].answer = visits[c].answer /\ visits'[c].journal = "acknowledged"
        BY <2>1, <2>2, SaveMoves DEF LabelsInv, LabelsRecords, JournalPhases, Settled, CleanupSending, Stays
    <2>4. ApplyGoesOn(c) /\ CleanupGoesOn(c)
        BY <1>1, <2>1 DEF ApplyGoesOn, CleanupGoesOn
    <2>5. LocksStand'
        BY <1>1, <2>1, <2>3, LocksAtWork
    <2>6. Says("cleanup-send-intent")'
        BY <1>1, <2>1 DEF Says, Sending, Settled, CleanupSending
    <2>7. RunStands(c)'
        BY <2>3 DEF RunStands
    <2>8. /\ budget["cleanup"] = "consumed" /\ visits[c].answer # "matched"
          /\ reservationOf["cleanup"] \in {"dispatched", "ambiguous"} /\ (reservationOf["cleanup"] = "ambiguous" => Late)
        BY <2>1 DEF CleanupStands, CleanupAnnounced
    <2>9. Late' <=> Late
        BY <1>1 DEF Late
    <2>10. CleanupStands(c)'
        BY <1>1, <2>1, <2>3, <2>8, <2>9 DEF CleanupStands, CleanupUnsent
    <2> QED
        BY <1>1, <1>2, <2>1, <2>2, <2>4, <2>5, <2>6, <2>7, <2>10, SaveGoesOn DEF JournalPhases, Settled, CleanupSending
<1> QED
    BY <1>3, <1>4 DEF AnnounceWrite, SavedAs

LEMMA SendStands ==
    ASSUME LabelsInv, NEW c \in Clients, SendWrite(c)
    PROVE  LabelsInv'
<1>1. UNCHANGED <<disk, requestLock, raced, reservationOf, budget, staged, generations>>
    BY DEF SendWrite, ledgerSide, labelsCounts, locks, disk
<1>2. CASE Saved(c, "run", "provider-send-intent")
    <2>1. /\ visits[c].at = "saved" /\ visits[c].op = "run" /\ visits[c].next = "provider-send-intent" /\ RunStands(c)
          /\ visits[c].locked /\ ~Cleaning(c)
        BY <1>2, RunSaved
    <2>2. reservationOf["apply"] = "dispatched" /\ sent["apply"] = 0 /\ budget["apply"] = "consumed"
        BY <2>1 DEF RunStands, Saving
    <2>3. sent' = [sent EXCEPT !["apply"] = @ + 1] /\ labels' = "desired" /\ Save(c, "provider-applied")
        BY <2>1 DEF SendWrite, EffectOfCall, Name
    <2>4. /\ Stays(c) /\ visits'[c].at = "save" /\ visits'[c].next = "provider-applied" /\ visits'[c].op = "run"
          /\ visits'[c].answer = visits[c].answer
        BY <2>1, <2>3, SaveMoves DEF LabelsInv, LabelsRecords, JournalPhases, Sending, Stays
    <2>5. sent'["apply"] = 1 /\ sent'["cleanup"] = sent["cleanup"] /\ EffectRecords'
        BY <1>1, <2>2, <2>3, EffectsTyped DEF EffectRecords, LabelEffects
    <2>6. ~Cleaning(c)' /\ SendsStand'
        BY <1>1, <2>2, <2>3, <2>4, <2>5 DEF Cleaning, LabelsInv, SendsStand, Late
    <2>7. ApplyGoesOn(c) /\ CleanupGoesOn(c)
        BY <1>1, <2>1, <2>2, <2>5, <2>6 DEF ApplyGoesOn, CleanupGoesOn
    <2>8. LocksStand'
        BY <1>1, <2>1, <2>4, LocksAtWork
    <2>9. Says("provider-applied")'
        BY <1>1, <2>2 DEF Says, Settled, CleanupPhases, CleanupUnsent, LatePhases, CleanupSending
    <2>10. RunStands(c)' /\ CleanupStands(c)'
        BY <2>4, <2>5 DEF RunStands, CleanupStands, Unsent
    <2> QED
        BY <1>1, <2>1, <2>3, <2>5, <2>6, <2>7, <2>8, <2>9, <2>10, SaveGoesOn DEF JournalPhases, Sending
<1>3. CASE Saved(c, "cleanup", "cleanup-send-intent")
    <2>1. /\ visits[c].at = "saved" /\ visits[c].op = "cleanup" /\ visits[c].next = "cleanup-send-intent"
          /\ CleanupStands(c) /\ PastDecide(c) /\ reservationOf["cleanup"] # "none" /\ visits[c].journal = "acknowledged"
          /\ reservationOf["apply"] = "reconciled" /\ sent["apply"] = 1 /\ Cleaning(c) /\ sent["cleanup"] = 0 /\ ~staged
          /\ \A d \in Clients \ {c} : ~Cleaning(d) /\ ~PastDecide(d)
        BY <1>3, CleanupSaved DEF CleanupAnnounced
    <2>2. sent' = [sent EXCEPT !["cleanup"] = @ + 1] /\ labels' = "before" /\ Save(c, "cleanup-applied")
        BY <2>1 DEF SendWrite, EffectOfCall, Name
    <2>3. /\ Stays(c) /\ visits'[c].at = "save" /\ visits'[c].next = "cleanup-applied"
          /\ visits'[c].op = "cleanup" /\ visits'[c].answer = visits[c].answer /\ visits'[c].journal = "acknowledged"
        BY <2>1, <2>2, SaveMoves DEF LabelsInv, LabelsRecords, JournalPhases, Settled, CleanupSending, Stays
    <2>4. sent'["cleanup"] = 1 /\ sent'["apply"] = sent["apply"] /\ EffectRecords'
        BY <1>1, <2>1, <2>2, EffectsTyped DEF EffectRecords, LabelEffects
    <2>5. SavedEntry(c) \in generations /\ SavedEntry(c).phase = "cleanup-send-intent"
        BY <2>1 DEF LabelsInv, VisitStands, SaveStands, SavedEntry
    <2>6. Late /\ budget["cleanup"] = "consumed"
        BY <2>1, <2>5 DEF Late, LatePhases, CleanupSending, CleanupStands
    <2>7. SendsStand'
        BY <1>1, <2>1, <2>2, <2>4, <2>6 DEF LabelsInv, SendsStand, Late
    <2>8. ApplyGoesOn(c) /\ CleanupGoesOn(c)
        BY <1>1, <2>1, <2>4 DEF ApplyGoesOn, CleanupGoesOn
    <2>9. LocksStand'
        BY <1>1, <2>1, <2>3, LocksAtWork
    <2>10. Says("cleanup-applied")'
        BY <1>1, <2>1, <2>4 DEF Says, Sending, Settled, CleanupSending
    <2>11. ~Cleaning(c)'
        BY <2>3 DEF Cleaning, CleanupUnsent, CleanupAnnounced
    <2>12. RunStands(c)' /\ CleanupStands(c)'
        BY <1>1, <2>1, <2>3, <2>4, <2>11 DEF RunStands, CleanupStands
    <2> QED
        BY <1>1, <2>1, <2>2, <2>4, <2>7, <2>8, <2>9, <2>10, <2>12, SaveGoesOn DEF JournalPhases, Settled, CleanupSending
<1> QED
    BY <1>2, <1>3 DEF SendWrite, SavedAs

LEMMA AnswerStands ==
    ASSUME LabelsInv, NEW c \in Clients, ReadAnswer(c)
    PROVE  LabelsInv'
<1>1. UNCHANGED <<disk, requestLock, raced, reservationOf, budget, sent, labels, staged, generations>> /\ Quiet
    BY DEF ReadAnswer, Quiet, ledgerSide, providerSide, labelsCounts, locks, disk, LabelsInv, LabelsRecords
<1>2. PICK v : v = visits[c]
    OBVIOUS
<1>3. v \in VisitRec /\ v.at = "saved" /\ VisitStands(c)
    BY <1>2 DEF ReadAnswer, SavedAs, Saved, IsAt, LabelsInv, LabelsRecords
<1>4. \/ v.op = "run"
      \/ v.op = "cleanup" /\ PastDecide(c) /\ sent["apply"] = 1 /\ v.journal = "acknowledged"
    BY <1>2, RunSaved, CleanupSaved DEF ReadAnswer, SavedAs
<1>5. PICK answer \in {"matched", "conflict", "ambiguous"} :
          /\ visits' = [visits EXCEPT ![c].at = "settle", ![c].answer = answer]
          /\ answer = "matched" => labels = Name(c, "desired", "before")
    BY DEF ReadAnswer
<1>6. PICK w : w = [v EXCEPT !.at = "settle", !.answer = answer]
    OBVIOUS
<1>7. "settle" \in {"none", "load", "checkpoint", "decide", "publish", "repair", "release", "reread"} \cup AtWork
    BY DEF AtWork, Saving
<1>8. /\ w \in VisitRec /\ w.op = v.op /\ w.at = "settle" /\ w.answer = answer /\ w.locked = v.locked
      /\ w.journal = v.journal
    BY <1>3, <1>6, <1>7 DEF VisitRec
<1>9. OnlyMoves(c) /\ visits'[c] = w
    BY <1>2, <1>5, <1>6, <1>8 DEF LabelsInv, LabelsRecords, OnlyMoves
<1>10. ~Cleaning(c)' /\ RankStands(c)'
    BY <1>8, <1>9 DEF Cleaning, RankStands, Saving
<1>11. LocksStand'
    BY <1>1, <1>2, <1>4, <1>8, <1>9, LocksAtWork DEF Stays
<1>12. answer = "matched" => IF v.op = "run" THEN sent["apply"] = 1 ELSE sent["cleanup"] = 1
    BY <1>2, <1>4, <1>5, SentStates DEF Name, LabelsInv, SendsStand
<1>13. SaveStands(c)'
    BY <1>1, <1>2, <1>3, <1>8, <1>9 DEF VisitStands, SaveStands, InJournal
<1>14. RunStands(c)'
    BY <1>1, <1>8, <1>9, <1>12 DEF RunStands, Saving
<1>15. CleanupStands(c)'
    <2>1. v.op = "cleanup" => reservationOf["cleanup"] # "none"
        BY <1>2, <1>3 DEF VisitStands, CleanupStands, AtWork, Saving
    <2> QED
        BY <1>1, <1>4, <1>8, <1>9, <1>10, <1>12, <2>1 DEF CleanupStands
<1>16. VisitStands(c)'
    BY <1>4, <1>8, <1>9, <1>13, <1>14, <1>15 DEF VisitStands, ConflictStands, RecoveryStands, StepsStand
<1> QED
    BY <1>1, <1>9, <1>10, <1>11, <1>16, QuietStands DEF LabelsInv, LabelsRecords

LEMMA StageStands ==
    ASSUME LabelsInv, NEW c \in Clients, StageCleanup(c)
    PROVE  LabelsInv'
<1>1. /\ UNCHANGED <<disk, requestLock, raced, reservationOf, budget, sent, labels, generations>> /\ staged' = TRUE
      /\ visits[c].at = "settle" /\ visits[c].op = "cleanup" /\ Save(c, "cleanup-publication-pending")
    BY DEF StageCleanup, IsAt, ledgerSide, providerSide, labelsCounts, locks, disk
<1>2. PastDecide(c) /\ CleanupStands(c) /\ ~Cleaning(c)
    BY <1>1 DEF PastDecide, AtWork, LabelsInv, VisitStands, Cleaning, Saving
<1>3. /\ reservationOf["cleanup"] # "none" /\ visits[c].journal = "acknowledged"
      /\ reservationOf["apply"] = "reconciled" /\ sent["apply"] = 1
    BY <1>1, <1>2, CleanupApplied DEF CleanupStands, AtWork
<1>4. \A d \in Clients \ {c} : ~Cleaning(d) /\ ~PastDecide(d)
    BY <1>2, CleanupAlone
<1>5. /\ Stays(c) /\ visits'[c].at = "save" /\ visits'[c].next = "cleanup-publication-pending"
      /\ visits'[c].op = "cleanup" /\ visits'[c].answer = visits[c].answer /\ visits'[c].journal = "acknowledged"
    BY <1>1, <1>3, SaveMoves DEF LabelsInv, LabelsRecords, JournalPhases, Settled, Stays
<1>6. EffectRecords' /\ SendsStand'
    BY <1>1, <1>3, EffectsTyped DEF EffectRecords, LabelsInv, SendsStand, Late
<1>7. ~Cleaning(c)'
    BY <1>5 DEF Cleaning, CleanupUnsent, CleanupAnnounced
<1>8. ApplyGoesOn(c) /\ CleanupGoesOn(c)
    BY <1>1, <1>4, <1>7 DEF ApplyGoesOn, CleanupGoesOn
<1>9. LocksStand'
    BY <1>1, <1>2, <1>5, LocksAtWork
<1>10. Says("cleanup-publication-pending")'
    BY <1>1, <1>3 DEF Says, Sending, Settled
<1>11. RunStands(c)' /\ CleanupStands(c)'
    BY <1>1, <1>2, <1>3, <1>5, <1>7 DEF RunStands, CleanupStands
<1> QED
    BY <1>1, <1>6, <1>8, <1>9, <1>10, <1>11, SaveGoesOn DEF JournalPhases, Settled

LEMMA SettleStands ==
    ASSUME LabelsInv, NEW c \in Clients, SettleOutcome(c)
    PROVE  LabelsInv'
<1>1. UNCHANGED <<disk, raced, budget, sent, labels, staged, generations>>
    BY DEF SettleOutcome, providerSide, labelsCounts, disk
<1>2. CASE Leave(c) /\ UNCHANGED reservationOf
    <2>1. Quiet
        BY <1>1, <1>2 DEF Quiet, disk, ledgerSide, providerSide, LabelsInv, LabelsRecords
    <2> QED
        BY <1>2, <2>1, LeaveStands
<1>3. CASE visits[c].at = "settle" /\ visits[c].op = "run" /\ ~(Leave(c) /\ UNCHANGED reservationOf)
    <2>1. PICK state \in {"acknowledged", "ambiguous"}, step \in {"report", "reconcile"} :
              /\ reservationOf["apply"] = "dispatched" /\ reservationOf' = [reservationOf EXCEPT !["apply"] = state]
              /\ step = "report" => visits[c].answer = "ambiguous"
              /\ GoTo(c, step) /\ UNCHANGED requestLock
        BY <1>3 DEF SettleOutcome, EffectOfCall, locks
    <2>2. /\ Stays(c) /\ visits'[c].at = step /\ visits'[c].op = "run" /\ visits'[c].answer = visits[c].answer
        BY <1>3, <2>1, GoMoves DEF LabelsInv, LabelsRecords, AtWork, Stays
    <2>3. reservationOf'["apply"] = state /\ reservationOf'["cleanup"] = reservationOf["cleanup"] /\ EffectRecords'
        BY <1>1, <2>1, EffectsTyped DEF EffectRecords, LabelEffects, ReservationStates
    <2>4. ~Cleaning(c)' /\ ~Cleaning(c) /\ SendsStand'
        BY <1>1, <1>3, <2>1, <2>2, <2>3 DEF Cleaning, LabelsInv, SendsStand, Late
    <2>5. ApplyGoesOn(c) /\ CleanupGoesOn(c)
        BY <1>1, <1>3, <2>1, <2>3, <2>4, RunLocked DEF ApplyGoesOn, CleanupGoesOn
    <2>6. LocksStand'
        BY <1>3, <2>1, <2>2, LocksAtWork
    <2>7. RunStands(c)'
        BY <1>1, <1>3, <2>1, <2>2, <2>3 DEF RunStands, LabelsInv, VisitStands, Saving
    <2>8. CleanupStands(c)' /\ RecoveryStands(c)'
        BY <2>2 DEF CleanupStands, RecoveryStands
    <2> QED
        BY <1>1, <1>3, <2>1, <2>3, <2>4, <2>5, <2>6, <2>7, <2>8, GoGoesOn
<1>4. CASE Saved(c, "cleanup", "cleanup-publication-pending") /\ ~(Leave(c) /\ UNCHANGED reservationOf)
    <2>1. /\ visits[c].at = "saved" /\ visits[c].op = "cleanup" /\ visits[c].next = "cleanup-publication-pending"
          /\ CleanupStands(c) /\ PastDecide(c) /\ reservationOf["cleanup"] # "none" /\ visits[c].journal = "acknowledged"
          /\ \A d \in Clients \ {c} : ~Cleaning(d) /\ ~PastDecide(d)
        BY <1>4, CleanupSaved
    <2>2. PICK state \in {"acknowledged", "ambiguous"}, step \in {"report", "reconcile"} :
              /\ reservationOf["cleanup"] = "dispatched" /\ reservationOf' = [reservationOf EXCEPT !["cleanup"] = state]
              /\ step = "report" => visits[c].answer = "ambiguous"
              /\ GoTo(c, step) /\ UNCHANGED requestLock
        BY <1>4, <2>1 DEF SettleOutcome, EffectOfCall, locks
    <2>3. /\ Stays(c) /\ visits'[c].at = step /\ visits'[c].op = "cleanup" /\ visits'[c].answer = visits[c].answer
          /\ visits'[c].journal = "acknowledged"
        BY <2>1, <2>2, GoMoves DEF LabelsInv, LabelsRecords, AtWork, Stays
    <2>4. reservationOf'["cleanup"] = state /\ reservationOf'["apply"] = reservationOf["apply"] /\ EffectRecords'
        BY <1>1, <2>2, EffectsTyped DEF EffectRecords, LabelEffects, ReservationStates
    <2>5. ~Cleaning(c)' /\ ~Cleaning(c)
        BY <2>1, <2>3 DEF Cleaning, CleanupUnsent, CleanupAnnounced, Saving
    <2>6. \A d \in Clients : ~Cleaning(d)'
        BY <2>1, <2>3, <2>5, OthersClean DEF Stays
    <2>7. SendsStand'
        BY <1>1, <2>4 DEF LabelsInv, SendsStand, Late
    <2>8. ApplyGoesOn(c) /\ CleanupGoesOn(c)
        BY <1>1, <2>1, <2>2, <2>4, <2>5, <2>6 DEF ApplyGoesOn, CleanupGoesOn
    <2>9. LocksStand'
        BY <2>1, <2>2, <2>3, LocksAtWork
    <2>10. CleanupStands(c)'
        BY <1>1, <2>1, <2>2, <2>3, <2>4, <2>5 DEF CleanupStands
    <2>11. RunStands(c)' /\ RecoveryStands(c)'
        BY <2>3 DEF RunStands, RecoveryStands
    <2> QED
        BY <1>1, <2>1, <2>2, <2>4, <2>7, <2>8, <2>9, <2>10, <2>11, GoGoesOn
<1> QED
    BY <1>2, <1>3, <1>4 DEF SettleOutcome, IsAt

LEMMA ReadingStands ==
    ASSUME LabelsInv, NEW c \in Clients, SettleReading(c)
    PROVE  LabelsInv'
<1>1. UNCHANGED <<disk, raced, budget, sent, labels, staged, generations>> /\ visits[c].at = "reconcile"
    BY DEF SettleReading, IsAt, providerSide, labelsCounts, disk
<1>2. visits[c].op \in {"run", "cleanup"} /\ VisitStands(c)
    BY <1>1 DEF LabelsInv, VisitStands, StepsStand
<1>3. CASE Leave(c) /\ UNCHANGED reservationOf
    <2>1. Quiet
        BY <1>1, <1>3 DEF Quiet, disk, ledgerSide, providerSide, LabelsInv, LabelsRecords
    <2> QED
        BY <1>3, <2>1, LeaveStands
<1>4. ASSUME ~(Leave(c) /\ UNCHANGED reservationOf)
      PROVE  /\ reservationOf[EffectOfCall(c)] \in {"acknowledged", "ambiguous"}
             /\ reservationOf' = [reservationOf EXCEPT ![EffectOfCall(c)] = "reconciled"]
             /\ GoTo(c, "report") /\ UNCHANGED requestLock
    BY <1>4 DEF SettleReading, locks
<1>5. CASE visits[c].op = "run" /\ ~(Leave(c) /\ UNCHANGED reservationOf)
    <2>1. /\ reservationOf["apply"] \in {"acknowledged", "ambiguous"}
          /\ reservationOf' = [reservationOf EXCEPT !["apply"] = "reconciled"]
          /\ GoTo(c, "report") /\ UNCHANGED requestLock
        BY <1>4, <1>5 DEF EffectOfCall
    <2>2. /\ Stays(c) /\ visits'[c].at = "report" /\ visits'[c].op = "run" /\ visits'[c].answer = visits[c].answer
        BY <1>5, <2>1, GoMoves DEF LabelsInv, LabelsRecords, AtWork, Stays
    <2>3. reservationOf'["apply"] = "reconciled" /\ reservationOf'["cleanup"] = reservationOf["cleanup"] /\ EffectRecords'
        BY <1>1, <2>1, EffectsTyped DEF EffectRecords, LabelEffects, ReservationStates
    <2>4. ~Cleaning(c)' /\ ~Cleaning(c) /\ SendsStand'
        BY <1>1, <1>5, <2>1, <2>2, <2>3 DEF Cleaning, LabelsInv, SendsStand, Late
    <2>5. ApplyGoesOn(c) /\ CleanupGoesOn(c)
        BY <1>1, <1>5, <2>1, <2>3, <2>4, RunLocked DEF ApplyGoesOn, CleanupGoesOn
    <2>6. LocksStand'
        BY <1>5, <2>1, <2>2, LocksAtWork
    <2>7. RunStands(c)'
        BY <1>1, <1>2, <1>5, <2>2, <2>3 DEF RunStands, VisitStands, Saving
    <2>8. CleanupStands(c)' /\ RecoveryStands(c)'
        BY <2>2 DEF CleanupStands, RecoveryStands
    <2> QED
        BY <1>1, <1>5, <2>1, <2>3, <2>4, <2>5, <2>6, <2>7, <2>8, GoGoesOn
<1>6. CASE visits[c].op = "cleanup" /\ ~(Leave(c) /\ UNCHANGED reservationOf)
    <2>1. /\ reservationOf["cleanup"] \in {"acknowledged", "ambiguous"}
          /\ reservationOf' = [reservationOf EXCEPT !["cleanup"] = "reconciled"]
          /\ GoTo(c, "report") /\ UNCHANGED requestLock
        BY <1>4, <1>6 DEF EffectOfCall
    <2>2. PastDecide(c) /\ CleanupStands(c) /\ ~Cleaning(c)
        BY <1>1, <1>2, <1>6 DEF PastDecide, AtWork, VisitStands, Cleaning, Saving
    <2>3. \A d \in Clients \ {c} : ~Cleaning(d) /\ ~PastDecide(d)
        BY <2>2, CleanupAlone
    <2>4. visits[c].journal = "acknowledged"
        BY <1>1, <1>6, <2>2 DEF CleanupStands, AtWork
    <2>5. /\ Stays(c) /\ visits'[c].at = "report" /\ visits'[c].op = "cleanup" /\ visits'[c].answer = visits[c].answer
          /\ visits'[c].journal = "acknowledged"
        BY <1>6, <2>1, <2>4, GoMoves DEF LabelsInv, LabelsRecords, AtWork, Stays
    <2>6. reservationOf'["cleanup"] = "reconciled" /\ reservationOf'["apply"] = reservationOf["apply"] /\ EffectRecords'
        BY <1>1, <2>1, EffectsTyped DEF EffectRecords, LabelEffects, ReservationStates
    <2>7. ~Cleaning(c)' /\ SendsStand'
        BY <1>1, <2>5, <2>6 DEF Cleaning, Saving, LabelsInv, SendsStand, Late
    <2>8. ApplyGoesOn(c) /\ CleanupGoesOn(c)
        BY <1>1, <2>2, <2>3, <2>6, <2>7 DEF ApplyGoesOn, CleanupGoesOn
    <2>9. LocksStand'
        BY <2>1, <2>2, <2>5, LocksAtWork
    <2>10. CleanupStands(c)'
        BY <1>1, <1>6, <2>2, <2>5, <2>6, <2>7 DEF CleanupStands
    <2>11. RunStands(c)' /\ RecoveryStands(c)'
        BY <2>5 DEF RunStands, RecoveryStands
    <2> QED
        BY <1>1, <1>6, <2>1, <2>6, <2>7, <2>8, <2>9, <2>10, <2>11, GoGoesOn
<1> QED
    BY <1>2, <1>3, <1>5, <1>6

LEMMA ReportStands ==
    ASSUME LabelsInv, NEW c \in Clients, ReportOutcome(c)
    PROVE  LabelsInv'
<1>1. UNCHANGED <<disk, raced, reservationOf, budget, sent, labels, staged, generations>> /\ visits[c].at = "report"
    BY DEF ReportOutcome, IsAt, ledgerSide, providerSide, labelsCounts, disk
<1>2. visits[c].op \in {"run", "cleanup"} /\ VisitStands(c) /\ ~Cleaning(c)
    BY <1>1 DEF LabelsInv, VisitStands, StepsStand, Cleaning, Saving
<1>3. EffectRecords' /\ SendsStand'
    BY <1>1, EffectsTyped DEF EffectRecords, LabelsInv, SendsStand, Late
<1>4. CASE Leave(c)
    <2>1. Quiet
        BY <1>1 DEF Quiet, disk, ledgerSide, providerSide, LabelsInv, LabelsRecords
    <2> QED
        BY <1>4, <2>1, LeaveStands
<1>5. CASE visits[c].op = "run" /\ ~Leave(c)
    <2>1. PICK phase \in {"acknowledged", "pending-reconciliation"} :
              /\ Save(c, phase) /\ UNCHANGED requestLock /\ (phase = "acknowledged" => visits[c].answer = "matched")
        BY <1>5 DEF ReportOutcome, Name, locks
    <2>2. phase \in JournalPhases
        BY DEF JournalPhases, Settled
    <2>3. /\ Stays(c) /\ visits'[c].at = "save" /\ visits'[c].next = phase /\ visits'[c].op = "run"
          /\ visits'[c].answer = visits[c].answer
        BY <1>5, <2>1, <2>2, SaveMoves DEF LabelsInv, LabelsRecords, Stays
    <2>4. ~Cleaning(c)'
        BY <2>3 DEF Cleaning
    <2>5. ApplyGoesOn(c) /\ CleanupGoesOn(c)
        BY <1>1, <1>2, <1>5, <2>4, RunLocked DEF ApplyGoesOn, CleanupGoesOn
    <2>6. LocksStand'
        BY <1>5, <2>1, <2>3, LocksAtWork
    <2>7. /\ reservationOf["apply"] \notin {"none", "reserved"}
          /\ phase = "acknowledged" => reservationOf["apply"] = "reconciled" /\ sent["apply"] = 1
        BY <1>1, <1>2, <1>5, <2>1 DEF VisitStands, RunStands
    <2>8. Says(phase)'
        BY <1>1, <2>7 DEF Says, Sending, Settled, CleanupPhases, CleanupUnsent, LatePhases, CleanupSending
    <2>9. phase \notin Unsent \cup {"dispatched", "provider-send-intent"}
        BY DEF Unsent
    <2>10. RunStands(c)'
        BY <1>1, <1>2, <1>5, <2>3, <2>9 DEF VisitStands, RunStands, Unsent
    <2>11. CleanupStands(c)'
        BY <2>3 DEF CleanupStands
    <2> QED
        BY <1>1, <1>3, <1>5, <2>1, <2>2, <2>5, <2>6, <2>8, <2>10, <2>11, SaveGoesOn
<1>6. CASE visits[c].op = "cleanup" /\ ~Leave(c)
    <2>1. Save(c, "cleanup-receipted") /\ UNCHANGED requestLock /\ visits[c].answer = "matched"
        BY <1>6 DEF ReportOutcome, Name, locks
    <2>2. PastDecide(c) /\ CleanupStands(c)
        BY <1>1, <1>2, <1>6 DEF PastDecide, AtWork, VisitStands
    <2>3. /\ visits[c].journal = "acknowledged" /\ reservationOf["cleanup"] = "reconciled" /\ sent["cleanup"] = 1
          /\ reservationOf["apply"] = "reconciled" /\ sent["apply"] = 1
        BY <1>1, <1>6, <2>1, <2>2, CleanupApplied DEF CleanupStands, AtWork
    <2>4. /\ Stays(c) /\ visits'[c].at = "save" /\ visits'[c].next = "cleanup-receipted" /\ visits'[c].op = "cleanup"
          /\ visits'[c].answer = visits[c].answer /\ visits'[c].journal = "acknowledged"
        BY <1>6, <2>1, <2>3, SaveMoves DEF LabelsInv, LabelsRecords, JournalPhases, Settled, Stays
    <2>5. ~Cleaning(c)'
        BY <2>4 DEF Cleaning, CleanupUnsent, CleanupAnnounced
    <2>6. ApplyGoesOn(c) /\ CleanupGoesOn(c)
        BY <1>1, <1>2, <2>5 DEF ApplyGoesOn, CleanupGoesOn
    <2>7. LocksStand'
        BY <2>1, <2>2, <2>4, LocksAtWork
    <2>8. Says("cleanup-receipted")'
        BY <1>1, <2>3 DEF Says, Sending, Settled
    <2>9. RunStands(c)' /\ CleanupStands(c)'
        BY <1>1, <2>3, <2>4, <2>5 DEF RunStands, CleanupStands
    <2> QED
        BY <1>1, <1>3, <1>6, <2>1, <2>6, <2>7, <2>8, <2>9, SaveGoesOn DEF JournalPhases, Settled
<1> QED
    BY <1>2, <1>4, <1>5, <1>6

LEMMA PublishStands ==
    ASSUME LabelsInv, NEW c \in Clients, PublishConflict(c)
    PROVE  LabelsInv'
<1>1. /\ UNCHANGED <<disk, requestLock, raced, reservationOf, budget, sent, labels, staged, generations>>
      /\ visits[c].op = "conflict" /\ visits[c].at \in {"publish", "saved"}
    BY DEF PublishConflict, IsAt, ledgerSide, providerSide, labelsCounts, locks, disk
<1>2. EffectRecords' /\ SendsStand'
    BY <1>1, EffectsTyped DEF EffectRecords, LabelsInv, SendsStand, Late
<1>3. PICK phase \in {"conflict-publication-pending", "conflict"} : Save(c, phase)
    BY DEF PublishConflict
<1>4. phase \in JournalPhases /\ phase \in Settled
    BY DEF JournalPhases, Settled
<1>5. visits[c].journal \in Settled /\ InJournal(visits[c].journal)
    BY <1>1 DEF LabelsInv, VisitStands, ConflictStands, SaveStands, AtWork, Saving
<1>6. visits[c].journal # "none"
    BY <1>5 DEF Settled, CleanupUnsent, CleanupSending
<1>7. reservationOf["apply"] = "reconciled" /\ sent["apply"] = 1
    BY <1>5, <1>6 DEF InJournal, LabelsInv, EntriesStand, Says
<1>8. Stays(c) /\ visits'[c].op = "conflict"
    BY <1>1, <1>3, <1>4, SaveMoves DEF LabelsInv, LabelsRecords, Stays
<1>9. ~Cleaning(c)' /\ ~Cleaning(c)
    BY <1>1, <1>8 DEF Cleaning
<1>10. ApplyGoesOn(c) /\ CleanupGoesOn(c)
    BY <1>1, <1>9 DEF ApplyGoesOn, CleanupGoesOn
<1>11. LocksStand'
    BY <1>1, <1>8, LocksAtWork
<1>12. Says(phase)'
    BY <1>1, <1>7 DEF Says, Sending, CleanupPhases, CleanupUnsent, LatePhases, CleanupSending
<1>13. RunStands(c)' /\ CleanupStands(c)'
    BY <1>8 DEF RunStands, CleanupStands
<1> QED
    BY <1>1, <1>2, <1>3, <1>4, <1>5, <1>10, <1>11, <1>12, <1>13, SaveGoesOn

(* What is known of a recovery. *)
LEMMA RecoveryKnown ==
    ASSUME LabelsInv, NEW c \in Clients, visits[c].at \in {"repair", "release", "reread"}
    PROVE  /\ visits[c].op = "recover" /\ visits[c].locked /\ RecoveryStands(c) /\ ~Cleaning(c)
           /\ visits[c].journal # "none" => Says(visits[c].journal)
           /\ visits[c].journal \in LatePhases => Late
<1>1. visits[c].op = "recover" /\ VisitStands(c)
    BY DEF LabelsInv, VisitStands, StepsStand
<1>2. visits[c].locked /\ ~Cleaning(c) /\ RecoveryStands(c) /\ InJournal(visits[c].journal)
    BY <1>1 DEF LabelsInv, LocksStand, Cleaning, VisitStands, SaveStands
<1>3. visits[c].journal # "none" => Says(visits[c].journal)
    BY <1>2 DEF InJournal, LabelsInv, EntriesStand
<1>4. visits[c].journal \in LatePhases => Late
    BY <1>2 DEF InJournal, Late, LatePhases, CleanupSending
<1> QED
    BY <1>1, <1>2, <1>3, <1>4

(* A recovery that saves or turns to another step: only the effects are left to show. *)
LEMMA RecoverySaves ==
    ASSUME LabelsInv, NEW c \in Clients, visits[c].op = "recover", ~Cleaning(c), NEW phase \in JournalPhases, Save(c, phase),
           UNCHANGED <<disk, requestLock, raced>>, EffectRecords', ApplyGoesOn(c), CleanupGoesOn(c), SendsStand', Says(phase)'
    PROVE  LabelsInv'
<1>1. Stays(c) /\ visits'[c].op = "recover"
    BY SaveMoves DEF LabelsInv, LabelsRecords, Stays
<1>2. RunStands(c)' /\ CleanupStands(c)'
    BY <1>1 DEF RunStands, CleanupStands
<1>3. LocksStand'
    BY <1>1, LocksAtWork
<1> QED
    BY <1>2, <1>3, SaveGoesOn

LEMMA RecoveryGoes ==
    ASSUME LabelsInv, NEW c \in Clients, visits[c].op = "recover", NEW step \in {"release", "reread"}, GoTo(c, step),
           UNCHANGED <<disk, requestLock, raced>>, EffectRecords', ApplyGoesOn(c), CleanupGoesOn(c), SendsStand',
           RecoveryStands(c)'
    PROVE  LabelsInv'
<1>1. Stays(c) /\ visits'[c].op = "recover"
    BY GoMoves DEF LabelsInv, LabelsRecords, Stays
<1>2. RunStands(c)' /\ CleanupStands(c)'
    BY <1>1 DEF RunStands, CleanupStands
<1>3. LocksStand'
    BY <1>1, LocksAtWork
<1> QED
    BY <1>2, <1>3, GoGoesOn

LEMMA NotCleaningThen ==
    ASSUME LabelsInv, NEW c \in Clients, visits[c].op = "recover", Stays(c)
    PROVE  ~Cleaning(c)' /\ \A d \in Clients : Cleaning(d)' => Cleaning(d)
<1>1. ~Cleaning(c)' /\ OnlyMoves(c)
    BY DEF Cleaning, Stays
<1> QED
    BY <1>1, OthersClean

LEMMA UnsentStands ==
    ASSUME LabelsInv, NEW c \in Clients, RecoverUnsent(c)
    PROVE  LabelsInv'
<1>1. /\ UNCHANGED <<disk, requestLock, raced, budget, sent, labels, staged, generations>>
      /\ visits[c].at = "repair" /\ visits[c].journal \in Unsent
    BY DEF RecoverUnsent, Repairs, IsAt, providerSide, labelsCounts, locks, disk
<1>2. visits[c].op = "recover" /\ visits[c].locked /\ RecoveryStands(c) /\ ~Cleaning(c)
    BY <1>1, RecoveryKnown
<1>3. reservationOf["apply"] = "reserved"
    BY <1>1, <1>2 DEF RecoveryStands
<1>4. sent["apply"] = 0
    BY <1>3, SentStates DEF LabelsInv, SendsStand
<1>5. /\ reservationOf'["apply"] = "cancelled" /\ reservationOf'["cleanup"] = reservationOf["cleanup"] /\ EffectRecords'
    BY <1>1, <1>3, EffectsTyped DEF RecoverUnsent, EffectRecords, LabelEffects, ReservationStates
<1>6. SendsStand'
    BY <1>1, <1>4, <1>5 DEF LabelsInv, SendsStand, Late
<1>7. Stays(c) => ApplyGoesOn(c) /\ CleanupGoesOn(c)
    BY <1>1, <1>2, <1>3, <1>5, NotCleaningThen DEF ApplyGoesOn, CleanupGoesOn
<1>8. CASE Save(c, "refused")
    <2>1. Says("refused")'
        BY <1>1, <1>4, <1>5 DEF Says, Sending, Settled, CleanupPhases, CleanupUnsent, LatePhases, CleanupSending
    <2>2. Stays(c)
        BY <1>8, SaveMoves DEF LabelsInv, LabelsRecords, JournalPhases
    <2> QED
        BY <1>1, <1>2, <1>5, <1>6, <1>7, <1>8, <2>1, <2>2, RecoverySaves DEF JournalPhases
<1>9. CASE visits[c].journal = "budget-consumed" /\ GoTo(c, "release")
    <2>1. Stays(c) /\ visits'[c].at = "release"
        BY <1>9, GoMoves DEF LabelsInv, LabelsRecords
    <2>2. RecoveryStands(c)'
        BY <1>5, <1>9, <2>1 DEF RecoveryStands, Stays, CleanupUnsent
    <2> QED
        BY <1>1, <1>2, <1>5, <1>6, <1>7, <1>9, <2>1, <2>2, RecoveryGoes
<1> QED
    BY <1>8, <1>9 DEF RecoverUnsent

LEMMA ReleaseStands ==
    ASSUME LabelsInv, NEW c \in Clients, ReleaseUnit(c)
    PROVE  LabelsInv'
<1>1. /\ UNCHANGED <<disk, requestLock, raced, reservationOf, sent, labels, staged, generations>>
      /\ visits[c].at = "release"
    BY DEF ReleaseUnit, IsAt, providerSide, labelsCounts, locks, disk
<1>2. visits[c].op = "recover" /\ visits[c].locked /\ RecoveryStands(c) /\ ~Cleaning(c)
    BY <1>1, RecoveryKnown
<1>3. CASE visits[c].journal \notin CleanupUnsent
    <2>1. reservationOf["apply"] = "cancelled"
        BY <1>1, <1>2, <1>3 DEF RecoveryStands
    <2>2. sent["apply"] = 0
        BY <2>1, SentStates DEF LabelsInv, SendsStand
    <2>3. budget' = [budget EXCEPT !["apply"] = "released"] /\ Save(c, "refused")
        BY <1>3 DEF ReleaseUnit
    <2>4. budget'["cleanup"] = budget["cleanup"] /\ EffectRecords'
        BY <1>1, <2>3, EffectsTyped DEF EffectRecords, LabelEffects
    <2>5. SendsStand'
        BY <1>1, <2>2, <2>4 DEF LabelsInv, SendsStand, Late
    <2>6. Stays(c)
        BY <2>3, SaveMoves DEF LabelsInv, LabelsRecords, JournalPhases
    <2>7. ApplyGoesOn(c) /\ CleanupGoesOn(c)
        BY <1>1, <1>2, <2>4, <2>6, NotCleaningThen DEF ApplyGoesOn, CleanupGoesOn
    <2>8. Says("refused")'
        BY <1>1, <2>1, <2>2 DEF Says, Sending, Settled, CleanupPhases, CleanupUnsent, LatePhases, CleanupSending
    <2> QED
        BY <1>1, <1>2, <2>3, <2>4, <2>5, <2>7, <2>8, RecoverySaves DEF JournalPhases
<1>4. CASE visits[c].journal \in CleanupUnsent
    <2>1. /\ \A d \in Clients : ~Cleaning(d)
          /\ raced \/ sent["cleanup"] = 0
        BY <1>1, <1>2, <1>4 DEF RecoveryStands
    <2>2. Says(visits[c].journal)
        BY <1>1, <1>4, RecoveryKnown DEF CleanupUnsent
    <2>3. reservationOf["apply"] = "reconciled" /\ sent["apply"] = 1 /\ reservationOf["cleanup"] # "none"
        BY <1>4, <2>2 DEF Says, Settled, CleanupPhases
    <2>4. budget' = [budget EXCEPT !["cleanup"] = "released"] /\ Save(c, "cleanup-refused")
        BY <1>4 DEF ReleaseUnit
    <2>5. budget'["apply"] = budget["apply"] /\ EffectRecords'
        BY <1>1, <2>4, EffectsTyped DEF EffectRecords, LabelEffects
    <2>6. SendsStand'
        BY <1>1, <2>1, <2>5 DEF LabelsInv, SendsStand, Late
    <2>7. "cleanup-refused" \in JournalPhases
        BY DEF JournalPhases, Settled
    <2>8. Stays(c)
        BY <2>4, <2>7, SaveMoves DEF LabelsInv, LabelsRecords
    <2>9. ApplyGoesOn(c) /\ CleanupGoesOn(c)
        BY <1>1, <1>2, <2>1, <2>5, <2>8, NotCleaningThen DEF ApplyGoesOn, CleanupGoesOn
    <2>10. \A d \in Clients : ~Cleaning(d)'
        BY <1>2, <2>1, <2>8, NotCleaningThen
    <2>11. Says("cleanup-refused")'
        BY <1>1, <2>3, <2>10 DEF Says, Sending
    <2> QED
        BY <1>1, <1>2, <2>1, <2>4, <2>5, <2>6, <2>7, <2>9, <2>11, RecoverySaves
<1> QED
    BY <1>3, <1>4

LEMMA SentStands ==
    ASSUME LabelsInv, NEW c \in Clients, RecoverSent(c)
    PROVE  LabelsInv'
<1>1. /\ UNCHANGED <<disk, requestLock, raced, budget, sent, labels, staged, generations>>
      /\ visits[c].at = "repair" /\ visits[c].journal \in Sending \cup {"pending-reconciliation"}
    BY DEF RecoverSent, Repairs, IsAt, providerSide, labelsCounts, locks, disk
<1>2. visits[c].op = "recover" /\ visits[c].locked /\ ~Cleaning(c)
    BY <1>1, RecoveryKnown
<1>3. visits[c].journal # "none" /\ visits[c].journal \notin Settled
    BY <1>1 DEF Sending, Settled, CleanupUnsent, CleanupSending
<1>4. reservationOf["apply"] \notin {"none", "reserved"}
    BY <1>1, <1>3, RecoveryKnown DEF Says
<1>5. /\ reservationOf'["apply"] = IF reservationOf["apply"] = "dispatched" THEN "ambiguous" ELSE reservationOf["apply"]
      /\ reservationOf'["cleanup"] = reservationOf["cleanup"] /\ EffectRecords'
    BY <1>1, EffectsTyped DEF RecoverSent, EffectRecords, LabelEffects, ReservationStates
<1>6. SendsStand'
    BY <1>1, <1>4, <1>5 DEF LabelsInv, SendsStand, Late
<1>7. Stays(c) => ApplyGoesOn(c) /\ CleanupGoesOn(c)
    BY <1>1, <1>2, <1>4, <1>5, NotCleaningThen DEF ApplyGoesOn, CleanupGoesOn
<1>8. CASE Save(c, "pending-reconciliation")
    <2>1. Says("pending-reconciliation")'
        BY <1>4, <1>5 DEF Says, Settled, CleanupPhases, CleanupUnsent, LatePhases, CleanupSending
    <2>2. Stays(c)
        BY <1>8, SaveMoves DEF LabelsInv, LabelsRecords, JournalPhases
    <2> QED
        BY <1>1, <1>2, <1>5, <1>6, <1>7, <1>8, <2>1, <2>2, RecoverySaves DEF JournalPhases
<1>9. CASE GoTo(c, "reread")
    <2>1. Stays(c) /\ visits'[c].at = "reread"
        BY <1>9, GoMoves DEF LabelsInv, LabelsRecords
    <2>2. RecoveryStands(c)'
        BY <1>3, <2>1 DEF RecoveryStands, Stays
    <2> QED
        BY <1>1, <1>2, <1>5, <1>6, <1>7, <1>9, <2>1, <2>2, RecoveryGoes
<1> QED
    BY <1>8, <1>9 DEF RecoverSent

LEMMA RecoverConflictStands ==
    ASSUME LabelsInv, NEW c \in Clients, RecoverConflict(c)
    PROVE  LabelsInv'
<1>1. /\ UNCHANGED <<disk, requestLock, raced, reservationOf, budget, sent, labels, staged, generations>>
      /\ visits[c].at = "repair" /\ visits[c].journal = "conflict-publication-pending" /\ Save(c, "conflict")
    BY DEF RecoverConflict, Repairs, IsAt, ledgerSide, providerSide, labelsCounts, locks, disk
<1>2. visits[c].op = "recover" /\ ~Cleaning(c)
    BY <1>1, RecoveryKnown
<1>3. reservationOf["apply"] = "reconciled" /\ sent["apply"] = 1
    BY <1>1, RecoveryKnown DEF Says, Settled
<1>4. EffectRecords' /\ SendsStand'
    BY <1>1, EffectsTyped DEF EffectRecords, LabelsInv, SendsStand, Late
<1>5. "conflict" \in JournalPhases
    BY DEF JournalPhases, Settled
<1>6. Stays(c)
    BY <1>1, <1>5, SaveMoves DEF LabelsInv, LabelsRecords
<1>7. ApplyGoesOn(c) /\ CleanupGoesOn(c)
    BY <1>1, <1>2, <1>6, NotCleaningThen DEF ApplyGoesOn, CleanupGoesOn
<1>8. Says("conflict")'
    BY <1>1, <1>3 DEF Says, Sending, CleanupPhases, CleanupUnsent, LatePhases, CleanupSending
<1> QED
    BY <1>1, <1>2, <1>4, <1>5, <1>7, <1>8, RecoverySaves

LEMMA CleanupUnsentStands ==
    ASSUME LabelsInv, NEW c \in Clients, RecoverCleanupUnsent(c)
    PROVE  LabelsInv'
<1>1. /\ UNCHANGED <<disk, raced, budget, sent, labels, staged, generations>>
      /\ visits[c].at = "repair" /\ visits[c].journal \in CleanupUnsent
    BY DEF RecoverCleanupUnsent, Repairs, IsAt, providerSide, labelsCounts, disk
<1>2. visits[c].op = "recover" /\ visits[c].locked /\ RecoveryStands(c) /\ ~Cleaning(c)
    BY <1>1, RecoveryKnown
<1>3. CASE Leave(c) /\ UNCHANGED reservationOf
    <2>1. Quiet
        BY <1>1, <1>3 DEF Quiet, disk, ledgerSide, providerSide, LabelsInv, LabelsRecords
    <2> QED
        BY <1>3, <2>1, LeaveStands
<1>4. CASE ~(Leave(c) /\ UNCHANGED reservationOf)
    <2>1. /\ ~(reservationOf["cleanup"] \in {"reserved", "dispatched"} /\ ~staged) /\ UNCHANGED requestLock
          /\ \/ visits[c].journal = "cleanup-reserved" /\ Save(c, "cleanup-refused")
             \/ GoTo(c, "release")
        BY <1>4 DEF RecoverCleanupUnsent, locks
    <2>2. visits[c].journal # "none"
        BY <1>1 DEF CleanupUnsent
    <2>3. reservationOf["apply"] = "reconciled" /\ sent["apply"] = 1 /\ reservationOf["cleanup"] # "none"
        BY <1>1, <2>2, RecoveryKnown DEF Says, Settled, CleanupPhases
    <2>4. \A d \in Clients : ~Cleaning(d)
        <3>1. ASSUME NEW d \in Clients, Cleaning(d) PROVE FALSE
            <4>1. visits[d].op = "cleanup" /\ CleanupStands(d) /\ visits[d].next \in CleanupUnsent \cup CleanupAnnounced
                BY <3>1 DEF Cleaning, LabelsInv, VisitStands
            <4>2. ~staged /\ reservationOf["cleanup"] \in {"reserved", "dispatched", "ambiguous"}
                BY <3>1, <4>1 DEF CleanupStands
            <4>3. reservationOf["cleanup"] # "ambiguous"
                BY <1>1, <1>2, <3>1 DEF RecoveryStands
            <4> QED
                BY <2>1, <4>2, <4>3
        <3> QED
            BY <3>1
    <2>5. PICK state \in ReservationStates :
              /\ reservationOf' = [reservationOf EXCEPT !["cleanup"] = state]
              /\ state # "none"
              /\ reservationOf["cleanup"] = "reconciled" => state = "reconciled"
        <3>1. PICK state :
                  /\ state = CASE reservationOf["cleanup"] = "reserved" -> "cancelled"
                               [] reservationOf["cleanup"] = "dispatched" -> "ambiguous"
                               [] OTHER -> reservationOf["cleanup"]
                  /\ reservationOf' = [reservationOf EXCEPT !["cleanup"] = state]
            BY <1>4 DEF RecoverCleanupUnsent
        <3>2. state \in ReservationStates /\ state # "none" /\ (reservationOf["cleanup"] = "reconciled" => state = "reconciled")
            BY <2>3, <3>1, EffectsTyped DEF ReservationStates
        <3> QED
            BY <3>1, <3>2
    <2>6. /\ reservationOf'["cleanup"] = state /\ reservationOf'["apply"] = reservationOf["apply"] /\ EffectRecords'
        BY <1>1, <2>5, EffectsTyped DEF EffectRecords, LabelEffects, ReservationStates
    <2>7. SendsStand'
        BY <1>1, <2>5, <2>6 DEF LabelsInv, SendsStand, Late
    <2>8. Stays(c) => ApplyGoesOn(c) /\ CleanupGoesOn(c)
        BY <1>1, <1>2, <2>4, <2>5, <2>6, NotCleaningThen DEF ApplyGoesOn, CleanupGoesOn
    <2>9. CASE Save(c, "cleanup-refused")
        <3>1. "cleanup-refused" \in JournalPhases
            BY DEF JournalPhases, Settled
        <3>2. Stays(c)
            BY <2>9, <3>1, SaveMoves DEF LabelsInv, LabelsRecords
        <3>3. \A d \in Clients : ~Cleaning(d)'
            BY <1>2, <2>4, <3>2, NotCleaningThen
        <3>4. Says("cleanup-refused")'
            BY <1>1, <2>3, <2>5, <2>6, <3>3 DEF Says, Sending
        <3> QED
            BY <1>1, <1>2, <2>1, <2>6, <2>7, <2>8, <2>9, <3>1, <3>2, <3>4, RecoverySaves
    <2>10. CASE GoTo(c, "release")
        <3>1. Stays(c) /\ visits'[c].at = "release"
            BY <2>10, GoMoves DEF LabelsInv, LabelsRecords
        <3>2. \A d \in Clients : ~Cleaning(d)'
            BY <1>2, <2>4, <3>1, NotCleaningThen
        <3>3. raced \/ sent["cleanup"] = 0
            BY <1>1, <1>2 DEF RecoveryStands
        <3>4. RecoveryStands(c)'
            BY <1>1, <3>1, <3>2, <3>3 DEF RecoveryStands, Stays
        <3> QED
            BY <1>1, <1>2, <2>1, <2>6, <2>7, <2>8, <2>10, <3>1, <3>4, RecoveryGoes
    <2> QED
        BY <2>1, <2>9, <2>10
<1> QED
    BY <1>3, <1>4

LEMMA CleanupSentStands ==
    ASSUME LabelsInv, NEW c \in Clients, RecoverCleanupSent(c)
    PROVE  LabelsInv'
<1>1. /\ UNCHANGED <<disk, requestLock, raced, budget, sent, labels, staged, generations>>
      /\ visits[c].at = "repair" /\ visits[c].journal \in CleanupSending \cup {"cleanup-publication-pending"}
      /\ GoTo(c, "reread")
    BY DEF RecoverCleanupSent, Repairs, IsAt, providerSide, labelsCounts, locks, disk
<1>2. visits[c].op = "recover" /\ visits[c].locked /\ ~Cleaning(c) /\ visits[c].journal \in LatePhases /\ Late
    BY <1>1, RecoveryKnown DEF LatePhases
<1>3. /\ reservationOf'["cleanup"] = IF reservationOf["cleanup"] = "dispatched" THEN "ambiguous" ELSE reservationOf["cleanup"]
      /\ reservationOf'["apply"] = reservationOf["apply"] /\ EffectRecords'
    BY <1>1, EffectsTyped DEF RecoverCleanupSent, EffectRecords, LabelEffects, ReservationStates
<1>4. SendsStand'
    BY <1>1, <1>3 DEF LabelsInv, SendsStand, Late
<1>5. Stays(c) /\ visits'[c].at = "reread"
    BY <1>1, GoMoves DEF LabelsInv, LabelsRecords
<1>6. ApplyGoesOn(c) /\ CleanupGoesOn(c)
    BY <1>1, <1>2, <1>3, <1>5, NotCleaningThen DEF ApplyGoesOn, CleanupGoesOn
<1>7. RecoveryStands(c)'
    BY <1>2, <1>5 DEF RecoveryStands, Stays
<1> QED
    BY <1>1, <1>2, <1>3, <1>4, <1>5, <1>6, <1>7, RecoveryGoes

LEMMA RereadStands ==
    ASSUME LabelsInv, NEW c \in Clients, Reread(c)
    PROVE  LabelsInv'
<1>1. UNCHANGED <<disk, raced, budget, sent, labels, staged, generations>> /\ visits[c].at = "reread"
    BY DEF Reread, IsAt, providerSide, labelsCounts, disk
<1>2. visits[c].op = "recover" /\ visits[c].locked /\ RecoveryStands(c) /\ ~Cleaning(c)
    BY <1>1, RecoveryKnown
<1>3. CASE Leave(c) /\ UNCHANGED reservationOf
    <2>1. Quiet
        BY <1>1, <1>3 DEF Quiet, disk, ledgerSide, providerSide, LabelsInv, LabelsRecords
    <2> QED
        BY <1>3, <2>1, LeaveStands
<1>4. CASE visits[c].journal \notin Settled /\ ~(Leave(c) /\ UNCHANGED reservationOf)
    <2>1. PICK phase \in {"acknowledged", "pending-reconciliation"} :
              /\ reservationOf["apply"] = "ambiguous" /\ reservationOf' = [reservationOf EXCEPT !["apply"] = "reconciled"]
              /\ Save(c, phase) /\ UNCHANGED requestLock /\ (phase = "acknowledged" => labels = "desired")
        BY <1>4 DEF Reread, locks
    <2>2. phase \in JournalPhases
        BY DEF JournalPhases, Settled
    <2>3. reservationOf'["apply"] = "reconciled" /\ reservationOf'["cleanup"] = reservationOf["cleanup"] /\ EffectRecords'
        BY <1>1, <2>1, EffectsTyped DEF EffectRecords, LabelEffects, ReservationStates
    <2>4. SendsStand' /\ (phase = "acknowledged" => sent["apply"] = 1)
        BY <1>1, <2>1, <2>3 DEF LabelsInv, SendsStand, Late
    <2>5. Stays(c)
        BY <2>1, <2>2, SaveMoves DEF LabelsInv, LabelsRecords
    <2>6. ApplyGoesOn(c) /\ CleanupGoesOn(c)
        BY <1>1, <1>2, <2>1, <2>3, <2>5, NotCleaningThen DEF ApplyGoesOn, CleanupGoesOn
    <2>7. Says(phase)'
        BY <1>1, <2>3, <2>4 DEF Says, Sending, Settled, CleanupPhases, CleanupUnsent, LatePhases, CleanupSending
    <2> QED
        BY <1>1, <1>2, <2>1, <2>2, <2>3, <2>4, <2>6, <2>7, RecoverySaves
<1>5. CASE visits[c].journal \in Settled /\ ~(Leave(c) /\ UNCHANGED reservationOf)
    <2>1. visits[c].journal \in LatePhases /\ visits[c].journal # "none"
        BY <1>1, <1>2, <1>5 DEF RecoveryStands, LatePhases, CleanupSending
    <2>2. reservationOf["apply"] = "reconciled" /\ sent["apply"] = 1 /\ reservationOf["cleanup"] # "none"
        BY <1>1, <1>5, <2>1, RecoveryKnown DEF Says, CleanupPhases
    <2>3. CASE UNCHANGED reservationOf /\ Save(c, "cleanup-publication-pending") /\ UNCHANGED requestLock
        <3>1. EffectRecords' /\ SendsStand'
            BY <1>1, <2>3, EffectsTyped DEF EffectRecords, LabelsInv, SendsStand, Late
        <3>2. "cleanup-publication-pending" \in JournalPhases
            BY DEF JournalPhases, Settled
        <3>3. Stays(c)
            BY <2>3, <3>2, SaveMoves DEF LabelsInv, LabelsRecords
        <3>4. ApplyGoesOn(c) /\ CleanupGoesOn(c)
            BY <1>1, <1>2, <2>3, <3>3, NotCleaningThen DEF ApplyGoesOn, CleanupGoesOn
        <3>5. Says("cleanup-publication-pending")'
            BY <1>1, <2>2, <2>3 DEF Says, Sending, Settled
        <3> QED
            BY <1>1, <1>2, <2>3, <3>1, <3>2, <3>4, <3>5, RecoverySaves
    <2>4. CASE ~(UNCHANGED reservationOf /\ Save(c, "cleanup-publication-pending") /\ UNCHANGED requestLock)
        <3>1. PICK phase \in {"cleanup-receipted", "cleanup-publication-pending"} :
                  /\ reservationOf["cleanup"] = "ambiguous" /\ staged
                  /\ reservationOf' = [reservationOf EXCEPT !["cleanup"] = "reconciled"]
                  /\ Save(c, phase) /\ UNCHANGED requestLock /\ (phase = "cleanup-receipted" => labels = "before")
            BY <1>5, <2>4 DEF Reread, locks
        <3>2. phase \in JournalPhases
            BY DEF JournalPhases, Settled
        <3>3. reservationOf'["cleanup"] = "reconciled" /\ reservationOf'["apply"] = reservationOf["apply"] /\ EffectRecords'
            BY <1>1, <3>1, EffectsTyped DEF EffectRecords, LabelEffects, ReservationStates
        <3>4. SendsStand'
            BY <1>1, <3>3 DEF LabelsInv, SendsStand, Late
        <3>5. phase = "cleanup-receipted" => sent["cleanup"] = 1
            BY <2>2, <3>1, SentStates DEF LabelsInv, SendsStand
        <3>6. Stays(c)
            BY <3>1, <3>2, SaveMoves DEF LabelsInv, LabelsRecords
        <3>7. \A d \in Clients : ~Cleaning(d)
            BY <3>1 DEF LabelsInv, VisitStands, CleanupStands, Cleaning
        <3>8. ApplyGoesOn(c) /\ CleanupGoesOn(c)
            BY <1>1, <1>2, <3>1, <3>3, <3>6, <3>7, NotCleaningThen DEF ApplyGoesOn, CleanupGoesOn
        <3>9. Says(phase)'
            BY <1>1, <2>2, <3>3, <3>5 DEF Says, Sending
        <3> QED
            BY <1>1, <1>2, <3>1, <3>2, <3>3, <3>4, <3>8, <3>9, RecoverySaves
    <2> QED
        BY <2>3, <2>4
<1> QED
    BY <1>3, <1>4, <1>5

LEMMA CutStands ==
    ASSUME LabelsInv, NEW c \in Clients, CutCall(c)
    PROVE  LabelsInv'
<1>1. Quiet /\ Raise(c)
    BY DEF CutCall, Quiet, disk, LabelsInv, LabelsRecords
<1> QED
    BY <1>1, RaiseStands

LEMMA NothingStands ==
    ASSUME LabelsInv, NEW c \in Clients, RecoverNothing(c)
    PROVE  LabelsInv'
<1>1. Quiet /\ Leave(c)
    BY DEF RecoverNothing, Quiet, disk, labelsCounts, LabelsInv, LabelsRecords
<1> QED
    BY <1>1, LeaveStands

LEMMA StopStands ==
    ASSUME LabelsInv, StopRunner
    PROVE  LabelsInv'
<1>1. /\ UNCHANGED <<head, generations, requestLock, budget, sent, labels, staged, raced>>
      /\ visits' = [c \in Clients |-> NoVisit]
    BY DEF StopRunner, disk, locks, providerSide
<1>2. NoVisit \in VisitRec
    BY DEF NoVisit, VisitRec, JournalPhases
<1>3. \A c \in Clients : visits'[c] = NoVisit
    BY <1>1
<1>4. \A c \in Clients : VisitStands(c)' /\ RankStands(c)' /\ ~Cleaning(c)' /\ ~PastDecide(c)'
    BY <1>3, NoVisitStands
<1>5. /\ reservationOf' \in [LabelEffects -> ReservationStates]
      /\ \A e \in LabelEffects :
            /\ reservationOf'[e] = "none" => reservationOf[e] = "none"
            /\ reservationOf'[e] = "reserved" => reservationOf[e] = "reserved"
            /\ reservationOf'[e] = "cancelled" => reservationOf[e] \in {"reserved", "cancelled"}
            /\ reservationOf[e] \in {"reconciled", "cancelled"} => reservationOf'[e] = reservationOf[e]
    <2>1. CASE reservationOf' = reservationOf
        BY <2>1, EffectsTyped DEF EffectRecords
    <2>2. CASE reservationOf' = [e \in LabelEffects |->
                                   CASE reservationOf[e] = "reserved" -> "cancelled"
                                     [] reservationOf[e] = "dispatched" -> "ambiguous"
                                     [] OTHER -> reservationOf[e]]
        BY <2>2, EffectsTyped DEF EffectRecords, ReservationStates
    <2> QED
        BY <2>1, <2>2 DEF StopRunner
<1>6. "apply" \in LabelEffects /\ "cleanup" \in LabelEffects
    BY DEF LabelEffects
<1>7. LabelsRecords'
    BY <1>1, <1>2, <1>5 DEF LabelsInv, LabelsRecords
<1>8. JournalKept'
    BY <1>1 DEF LabelsInv, JournalKept, TwinsMade
<1>9. LocksStand'
    BY <1>3, <1>4 DEF LocksStand, NoVisit
<1>10. SendsStand'
    BY <1>1, <1>5, <1>6 DEF LabelsInv, SendsStand, Late
<1>11. ASSUME NEW phase, Says(phase) PROVE Says(phase)'
    BY <1>1, <1>4, <1>5, <1>6, <1>11 DEF Says
<1>12. EntriesStand'
    BY <1>1, <1>11 DEF LabelsInv, EntriesStand
<1> QED
    BY <1>4, <1>7, <1>8, <1>9, <1>10, <1>12 DEF LabelsInv

LEMMA LabelsStart ==
    ASSUME LabelsInit
    PROVE  LabelsInv
<1>1. NoVisit \in VisitRec /\ NoJournal \in EntryRec
    BY DEF NoVisit, VisitRec, NoJournal, EntryRec, JournalPhases
<1>2. LabelsRecords
    <2>1. head \in EntryRec /\ generations = {} /\ visits \in [Clients -> VisitRec]
        BY <1>1 DEF LabelsInit
    <2>2. /\ reservationOf \in [LabelEffects -> ReservationStates]
          /\ budget \in [LabelEffects -> {"untouched", "consumed", "released"}]
          /\ sent \in [LabelEffects -> 0..1]
        BY DEF LabelsInit, ReservationStates
    <2>3. requestLock \in BOOLEAN /\ staged \in BOOLEAN /\ raced \in BOOLEAN
        BY DEF LabelsInit
    <2> QED
        BY <2>1, <2>2, <2>3 DEF LabelsRecords
<1>3. JournalKept
    BY DEF LabelsInit, JournalKept
<1>4. \A c \in Clients : visits[c] = NoVisit
    BY DEF LabelsInit
<1>5. \A c \in Clients : visits[c].op = "none" /\ visits[c].at = "none" /\ visits[c].journal = "none" /\ ~visits[c].locked
    <2>1. NoVisit.op = "none" /\ NoVisit.at = "none" /\ NoVisit.journal = "none" /\ NoVisit.locked = FALSE
        BY DEF NoVisit
    <2> QED
        BY <1>4, <2>1
<1>6. \A c \in Clients : VisitStands(c) /\ RankStands(c)
    BY <1>5 DEF VisitStands, RankStands, SaveStands, RunStands, CleanupStands, ConflictStands, RecoveryStands, StepsStand, InJournal
<1>7. LocksStand
    BY <1>5 DEF LocksStand, PastDecide
<1>8. SendsStand /\ EntriesStand
    BY DEF LabelsInit, SendsStand, EntriesStand, LabelEffects
<1> QED
    BY <1>2, <1>3, <1>6, <1>7, <1>8 DEF LabelsInv

LEMMA LabelsStep ==
    ASSUME LabelsInv, [LabelsNext]_labelsVars
    PROVE  LabelsInv'
<1>1. CASE StopRunner
    BY <1>1, StopStands
<1>2. CASE \E c \in Clients : \E op \in {"run", "other", "cleanup", "conflict", "recover"} : Call(c, op)
    BY <1>2, CallStands
<1>3. CASE \E c \in Clients : LoadJournal(c) \/ CheckpointDuplicate(c) \/ SaveChecks(c) \/ SaveGeneration(c) \/ SaveHead(c)
    BY <1>3, LoadStands, CheckpointStands, ChecksStand, GenerationStands, HeadStands
<1>4. CASE \E c \in Clients : Decide(c) \/ Compare(c) \/ ConsumeUnit(c) \/ MarkDispatched(c) \/ AnnounceWrite(c)
    BY <1>4, DecideStands, CompareStands, ConsumeStands, DispatchedStands, AnnounceStands
<1>5. CASE \E c \in Clients : SendWrite(c) \/ ReadAnswer(c) \/ StageCleanup(c) \/ SettleOutcome(c)
    BY <1>5, SendStands, AnswerStands, StageStands, SettleStands
<1>6. CASE \E c \in Clients : SettleReading(c) \/ ReportOutcome(c) \/ PublishConflict(c)
    BY <1>6, ReadingStands, ReportStands, PublishStands
<1>7. CASE \E c \in Clients : RecoverUnsent(c) \/ ReleaseUnit(c) \/ RecoverSent(c) \/ RecoverConflict(c)
    BY <1>7, UnsentStands, ReleaseStands, SentStands, RecoverConflictStands
<1>8. CASE \E c \in Clients : RecoverCleanupUnsent(c) \/ RecoverCleanupSent(c) \/ RecoverNothing(c) \/ Reread(c) \/ CutCall(c)
    BY <1>8, CleanupUnsentStands, CleanupSentStands, NothingStands, RereadStands, CutStands
<1>9. CASE UNCHANGED labelsVars
    <2>1. UNCHANGED <<head, generations, requestLock, reservationOf, budget, sent, labels, staged, visits, raced>>
        BY <1>9 DEF labelsVars, disk, locks, ledgerSide, providerSide, labelsCounts
    <2>2. LabelsRecords' /\ JournalKept' /\ LocksStand' /\ SendsStand'
        BY <2>1 DEF LabelsInv, LabelsRecords, JournalKept, TwinsMade, LocksStand, PastDecide, SendsStand, Late
    <2>3. ASSUME NEW phase, Says(phase) PROVE Says(phase)'
        BY <2>1, <2>3 DEF Says, Cleaning
    <2>4. EntriesStand'
        BY <2>1, <2>3 DEF LabelsInv, EntriesStand
    <2>5. ASSUME NEW c \in Clients PROVE VisitStands(c)' /\ RankStands(c)'
        <3>1. VisitStands(c) /\ RankStands(c)
            BY DEF LabelsInv
        <3>2. SaveStands(c)' /\ RankStands(c)'
            BY <2>1, <2>3, <3>1 DEF VisitStands, SaveStands, RankStands, InJournal, SavedEntry, TwinsMade
        <3>3. RunStands(c)' /\ ConflictStands(c)' /\ StepsStand(c)'
            BY <2>1, <3>1 DEF VisitStands, RunStands, ConflictStands, StepsStand
        <3>4. CleanupStands(c)'
            BY <2>1, <3>1 DEF VisitStands, CleanupStands, Cleaning, Late
        <3>5. RecoveryStands(c)'
            BY <2>1, <3>1 DEF VisitStands, RecoveryStands, Cleaning
        <3> QED
            BY <3>2, <3>3, <3>4, <3>5 DEF VisitStands
    <2> QED
        BY <2>2, <2>4, <2>5 DEF LabelsInv
<1> QED
    BY <1>1, <1>2, <1>3, <1>4, <1>5, <1>6, <1>7, <1>8, <1>9 DEF LabelsNext

(* For any number of callers, calls, failures and deaths, the journal of a certification is  *)
(* true and what it says was sent was sent once and paid for (run, cleanup, recover).        *)
THEOREM CertificationsAreTrue == LabelsSpec => []CertificationIsTrue
<1>1. LabelsInv => CertificationIsTrue
    <2> HAVE LabelsInv
    <2>1. Says(head.phase)
        BY HeadSays
    <2>2. head.phase = "cleanup-refused" => sent["cleanup"] = 0
        <3>1. head = NoJournal => head.phase # "cleanup-refused"
            BY DEF NoJournal
        <3> QED
            BY <3>1 DEF LabelsInv, JournalKept, EntriesStand
    <2>3. JournalTellsTruth
        BY <2>1, <2>2 DEF JournalTellsTruth, Says
    <2>4. SentIsPaid
        BY SentStates DEF SentIsPaid, LabelsInv, SendsStand, LabelEffects
    <2> QED
        BY <2>3, <2>4 DEF CertificationIsTrue
<1> QED
    BY <1>1, LabelsStart, LabelsStep, PTL DEF LabelsSpec

-----------------------------------------------------------------------------
(* The certification workspace: the preparers, the reading and the signed readiness. *)

PreparerPlaces == {"rest", "stage", "resume", "publish", "clear", "disown", "initialized", "resumed", "refused", "dead"}

(* The published workspace, and what each preparer has made of its stage.  An answer names    *)
(* the commitment that was published first.                                                *)
PreparersStand ==
    /\ preparing \in [Preparers -> [at : PreparerPlaces, config : OperatorConfigs \cup {Absent}]]
    /\ stages \in [Preparers -> {"none", "bare", "owned", "filled"}]
    /\ workspace \in [config : OperatorConfigs \cup {Absent}, commitment : OperatorConfigs \cup {Absent},
                      owner : Preparers \cup {Absent}]
    /\ workspace = Unpublished
       \/ (workspace.config \in OperatorConfigs /\ workspace.commitment \in OperatorConfigs)
    /\ \A o \in Preparers :
          /\ preparing[o].at # "rest" => preparing[o].config \in OperatorConfigs
          /\ preparing[o].at \in {"disown", "initialized", "resumed"} =>
                workspace # Unpublished /\ workspace.commitment = preparing[o].config
          /\ preparing[o].at \in {"rest", "disown", "resume", "initialized", "resumed", "refused"} =>
                stages[o] \in {"none", "bare"}

(* What hangs together, of the workspace's own configuration. *)
Coherent(c) ==
    /\ c.test = c.runner /\ c.plan[1] = c.runner /\ c.plan[2] = c.test
    /\ c.plan[3] = c.endpoint \/ c \in tornEndpoints
    /\ c.config \in FilledConfigs /\ c.config = workspace.commitment

(* A reading in progress is of the workspace's commitment; a plan it kept fits the runner and  *)
(* the test it read, and the endpoint unless that was edited between.                      *)
ReadingFits ==
    /\ DOMAIN preflight = DOMAIN NoReading
    /\ preflight.for \subseteq candidates
    /\ preflight.at # "idle" => workspace # Unpublished /\ preflight.config = workspace.commitment
    /\ preflight.at \in {"endpoint", "plan", "read", "confirm"} =>
          preflight.runner = 0 \/ preflight.test = 0 \/ preflight.test = preflight.runner
    /\ preflight.at = "read" /\ preflight.plan # NoPlan =>
          /\ PlanFits(preflight)
          /\ preflight.plan[3] = preflight.endpoint \/ preflight.torn

WorkspaceKept ==
    /\ PreparersStand /\ ReadingFits
    /\ \A c \in candidates : Coherent(c)
    /\ \A s \in signedReadiness : s.candidate \in candidates

LEMMA WorkspaceKeptInit == WorkspaceInit => WorkspaceKept
<1> SUFFICES ASSUME WorkspaceInit PROVE WorkspaceKept
    OBVIOUS
<1>1. PreparersStand
    <2>1. CASE workspace = Unpublished /\ preparing = [o \in Preparers |-> [at |-> "rest", config |-> Absent]]
        BY <2>1 DEF WorkspaceInit, PreparersStand, PreparerPlaces, Unpublished
    <2>2. CASE \E c \in OperatorConfigs :
                  /\ workspace = [config |-> c, commitment |-> c, owner |-> Absent]
                  /\ preparing = [o \in Preparers |-> [at |-> "initialized", config |-> c]]
        BY <2>2, WorkspaceAssumption DEF WorkspaceInit, PreparersStand, PreparerPlaces, Unpublished
    <2> QED
        BY <2>1, <2>2 DEF WorkspaceInit
<1>2. ReadingFits
    BY DEF WorkspaceInit, ReadingFits, NoReading
<1> QED
    BY <1>1, <1>2 DEF WorkspaceInit, WorkspaceKept

(* Once published, the workspace keeps its commitment. *)
CommitmentStays ==
    workspace # Unpublished => workspace' # Unpublished /\ workspace'.commitment = workspace.commitment

LEMMA PreparersStep ==
    ASSUME PreparersStand, [WorkspaceNext]_workspaceVars
    PROVE  PreparersStand' /\ CommitmentStays
<1> USE WorkspaceAssumption
<1>1. ASSUME NEW o \in Preparers, BeginInitialization(o) PROVE PreparersStand' /\ CommitmentStays
    BY <1>1 DEF PreparersStand, CommitmentStays, BeginInitialization, Preparing, PreparerPlaces, papers
<1>2. ASSUME NEW o \in Preparers, FillStage(o) PROVE PreparersStand' /\ CommitmentStays
    BY <1>2 DEF PreparersStand, CommitmentStays, FillStage, Preparing, MoveTo, PreparerPlaces, papers
<1>3. ASSUME NEW o \in Preparers, StageFails(o) PROVE PreparersStand' /\ CommitmentStays
    BY <1>3 DEF PreparersStand, CommitmentStays, StageFails, Preparing, MoveTo, Slip, PreparerPlaces, papers
<1>4. ASSUME NEW o \in Preparers, PublishStage(o) PROVE PreparersStand' /\ CommitmentStays
    <2>1. CASE workspace = Unpublished
        <3>1. /\ workspace' = [config |-> preparing[o].config, commitment |-> preparing[o].config, owner |-> o]
              /\ stages' = [stages EXCEPT ![o] = "none"]
              /\ preparing' = [preparing EXCEPT ![o].at = "disown"]
              /\ preparing[o].at = "publish"
            BY <1>4, <2>1 DEF PublishStage, MoveTo, Preparing
        <3>2. workspace' # Unpublished /\ preparing[o].config \in OperatorConfigs
            BY <3>1 DEF PreparersStand, Unpublished
        <3>3. \A p \in Preparers : preparing[p].at \notin {"disown", "initialized", "resumed"}
            BY <2>1 DEF PreparersStand
        <3> QED
            BY <2>1, <3>1, <3>2, <3>3 DEF PreparersStand, CommitmentStays, PreparerPlaces
    <2>2. CASE workspace # Unpublished
        BY <1>4, <2>2 DEF PreparersStand, CommitmentStays, PublishStage, Preparing, MoveTo, PreparerPlaces, papers
    <2> QED
        BY <2>1, <2>2
<1>5. ASSUME NEW o \in Preparers, RemoveOwnerFile(o) PROVE PreparersStand' /\ CommitmentStays
    <2>1. workspace # Unpublished /\ preparing[o].at = "disown"
        BY <1>5 DEF PreparersStand, RemoveOwnerFile, Preparing
    <2>2. workspace.config \in OperatorConfigs /\ workspace.commitment \in OperatorConfigs
        BY <2>1 DEF PreparersStand
    <2>3. CASE workspace' = [workspace EXCEPT !.owner = Absent] /\ MoveTo(o, "initialized")
        <3>1. /\ workspace'.config = workspace.config /\ workspace'.commitment = workspace.commitment
              /\ workspace' \in [config : OperatorConfigs \cup {Absent}, commitment : OperatorConfigs \cup {Absent},
                                 owner : Preparers \cup {Absent}]
            BY <2>3 DEF PreparersStand
        <3>2. workspace' # Unpublished
            BY <3>1, <2>2 DEF Unpublished
        <3> QED
            BY <1>5, <2>1, <2>2, <2>3, <3>1, <3>2 DEF PreparersStand, CommitmentStays, RemoveOwnerFile, MoveTo, PreparerPlaces, papers
    <2>4. CASE MoveTo(o, "clear") /\ UNCHANGED workspace
        BY <1>5, <2>1, <2>2, <2>4 DEF PreparersStand, CommitmentStays, RemoveOwnerFile, MoveTo, PreparerPlaces, papers
    <2> QED
        BY <1>5, <2>3, <2>4 DEF RemoveOwnerFile
<1>6. ASSUME NEW o \in Preparers, ClearStage(o) PROVE PreparersStand' /\ CommitmentStays
    BY <1>6 DEF PreparersStand, CommitmentStays, ClearStage, Preparing, MoveTo, PreparerPlaces, papers
<1>7. ASSUME NEW o \in Preparers, ResumeInitialization(o) PROVE PreparersStand' /\ CommitmentStays
    BY <1>7 DEF PreparersStand, CommitmentStays, ResumeInitialization, Preparing, MoveTo, PreparerPlaces, papers,
                WholeWorkspace
<1>8. ASSUME NEW o \in Preparers, PreparerDies(o) PROVE PreparersStand' /\ CommitmentStays
    BY <1>8 DEF PreparersStand, CommitmentStays, PreparerDies, Preparing, MoveTo, Slip, PreparerPlaces, papers
<1>9. CASE EditWorkspaceConfig
    <2>1. PICK c \in OperatorConfigs : workspace' = [workspace EXCEPT !.config = c]
        BY <1>9 DEF EditWorkspaceConfig
    <2>2. workspace # Unpublished /\ UNCHANGED <<preparing, stages>>
        BY <1>9 DEF EditWorkspaceConfig
    <2>3. /\ workspace'.commitment = workspace.commitment /\ workspace'.config = c
          /\ workspace' \in [config : OperatorConfigs \cup {Absent}, commitment : OperatorConfigs \cup {Absent},
                             owner : Preparers \cup {Absent}]
          /\ workspace.commitment \in OperatorConfigs
        BY <2>1, <2>2 DEF PreparersStand
    <2>4. workspace' # Unpublished
        BY <2>3 DEF Unpublished
    <2> QED
        BY <2>2, <2>3, <2>4 DEF PreparersStand, CommitmentStays
<1>10. CASE UNCHANGED <<workspace, preparing, stages>>
    BY <1>10 DEF PreparersStand, CommitmentStays
<1> QED
    BY <1>1, <1>2, <1>3, <1>4, <1>5, <1>6, <1>7, <1>8, <1>9, <1>10
    DEF WorkspaceNext, workspaceVars, BeginPreflight, InspectInput, SealReadiness, ReviewCandidate, SignReadiness,
        EditInputs

(* While the papers are left alone, what they say stands. *)
LEMMA PapersStay ==
    ASSUME WorkspaceKept, CommitmentStays, UNCHANGED <<preflight, candidates, signedReadiness, tornEndpoints>>,
           PreparersStand'
    PROVE  WorkspaceKept'
<1>1. \A c \in candidates : workspace # Unpublished
    BY WorkspaceAssumption DEF WorkspaceKept, Coherent, Unpublished
<1>2. ReadingFits'
    BY DEF WorkspaceKept, ReadingFits, CommitmentStays, NoReading, PlanFits, NoPlan
<1> QED
    BY <1>1, <1>2 DEF WorkspaceKept, Coherent, CommitmentStays

LEMMA WorkspaceKeptStep ==
    ASSUME WorkspaceKept, [WorkspaceNext]_workspaceVars
    PROVE  WorkspaceKept'
<1>1. PreparersStand' /\ CommitmentStays
    BY PreparersStep DEF WorkspaceKept
<1>2. ASSUME NEW o \in Preparers,
             BeginInitialization(o) \/ FillStage(o) \/ StageFails(o) \/ PublishStage(o)
             \/ RemoveOwnerFile(o) \/ ClearStage(o) \/ ResumeInitialization(o) \/ PreparerDies(o)
      PROVE  WorkspaceKept'
    <2>1. UNCHANGED <<preflight, candidates, signedReadiness, tornEndpoints>>
        BY <1>2 DEF BeginInitialization, FillStage, StageFails, PublishStage, RemoveOwnerFile, ClearStage,
                    ResumeInitialization, PreparerDies, papers
    <2> QED
        BY <1>1, <2>1, PapersStay
<1>3. CASE BeginPreflight
    <2>1. PICK purpose \in {{}} \cup {{c} : c \in candidates} :
            preflight' = [NoReading EXCEPT !.at = "runner", !.for = purpose, !.config = workspace.config]
        BY <1>3 DEF BeginPreflight
    <2>2. WholeWorkspace /\ UNCHANGED <<workspace, candidates, signedReadiness, tornEndpoints>>
        BY <1>3 DEF BeginPreflight
    <2>3. ReadingFits'
        BY <2>1, <2>2 DEF ReadingFits, NoReading, WholeWorkspace
    <2> QED
        BY <1>1, <2>2, <2>3 DEF WorkspaceKept, Coherent
<1>4. CASE InspectInput
    <2>1. UNCHANGED <<workspace, candidates, signedReadiness, tornEndpoints>>
        BY <1>4 DEF InspectInput
    <2>2. DOMAIN preflight = DOMAIN NoReading /\ preflight.for \subseteq candidates
          /\ (preflight.at # "idle" => workspace # Unpublished /\ preflight.config = workspace.commitment)
          /\ (preflight.at \in {"endpoint", "plan"} =>
                preflight.runner = 0 \/ preflight.test = 0 \/ preflight.test = preflight.runner)
        BY DEF WorkspaceKept, ReadingFits
    <2>3. CASE preflight.at = "runner"
        <3>1. preflight' = [preflight EXCEPT !.at = "test", !.runner = inputFiles.runner]
            BY <1>4, <2>2, <2>3 DEF InspectInput, NoReading
        <3> QED
            BY <2>1, <2>2, <2>3, <3>1, <1>1 DEF WorkspaceKept, Coherent, ReadingFits, NoReading
    <2>4. CASE preflight.at = "test"
        <3>1. preflight' = [preflight EXCEPT !.at = "endpoint",
                   !.test = IF preflight.runner \in {0, inputFiles.test} THEN inputFiles.test ELSE 0]
            BY <1>4, <2>2, <2>4 DEF InspectInput, NoReading
        <3> QED
            BY <2>1, <2>2, <2>4, <3>1, <1>1 DEF WorkspaceKept, Coherent, ReadingFits, NoReading
    <2>5. CASE preflight.at = "endpoint"
        <3>1. preflight' = [preflight EXCEPT !.at = "plan", !.endpoint = inputFiles.endpoint]
            BY <1>4, <2>2, <2>5 DEF InspectInput, NoReading
        <3> QED
            BY <2>1, <2>2, <2>5, <3>1, <1>1 DEF WorkspaceKept, Coherent, ReadingFits, NoReading
    <2>6. CASE preflight.at = "plan"
        <3> DEFINE next == [preflight EXCEPT !.at = "read", !.plan = inputFiles.plan,
                                             !.torn = inputFiles.endpoint # preflight.endpoint]
        <3>1. preflight' = IF PlanFits(next) /\ next.plan[3] = inputFiles.endpoint
                           THEN next ELSE [next EXCEPT !.plan = NoPlan]
            BY <1>4, <2>2, <2>6 DEF InspectInput, NoReading
        <3>2. /\ next.at = "read" /\ next.for = preflight.for /\ next.config = preflight.config
              /\ next.runner = preflight.runner /\ next.test = preflight.test /\ next.endpoint = preflight.endpoint
              /\ next.torn = (inputFiles.endpoint # preflight.endpoint) /\ DOMAIN next = DOMAIN NoReading
            BY <2>2 DEF NoReading
        <3> HIDE DEF next
        <3>3. /\ preflight'.at = "read" /\ preflight'.for = next.for /\ preflight'.config = next.config
              /\ preflight'.runner = next.runner /\ preflight'.test = next.test
              /\ DOMAIN preflight' = DOMAIN NoReading
              /\ preflight'.plan # NoPlan => preflight' = next /\ PlanFits(next) /\ next.plan[3] = inputFiles.endpoint
            BY <3>1, <3>2 DEF NoReading
        <3>4. ReadingFits'
            BY <2>1, <2>2, <2>6, <3>2, <3>3 DEF ReadingFits, PlanFits
        <3> QED
            BY <1>1, <2>1, <3>4 DEF WorkspaceKept, Coherent
    <2> QED
        BY <1>4, <2>3, <2>4, <2>5, <2>6 DEF InspectInput
<1>5. CASE SealReadiness
    <2>1. UNCHANGED <<workspace, signedReadiness>> /\ preflight' = NoReading /\ preflight.at = "read"
        BY <1>5 DEF SealReadiness
    <2>2. ReadingFits'
        BY <2>1 DEF ReadingFits, NoReading
    <2>3. CASE PreparationReady
        <3>1. candidates' = candidates \cup {Candidate}
              /\ tornEndpoints' = IF preflight.torn THEN tornEndpoints \cup {Candidate} ELSE tornEndpoints
            BY <1>5, <2>3 DEF SealReadiness
        <3>2. /\ Candidate.config = preflight.config /\ Candidate.runner = preflight.runner
              /\ Candidate.test = preflight.test /\ Candidate.endpoint = preflight.endpoint
              /\ Candidate.plan = preflight.plan
            BY DEF Candidate
        <3>3. /\ Candidate.test = Candidate.runner /\ Candidate.plan[1] = Candidate.runner
              /\ Candidate.plan[2] = Candidate.test
              /\ Candidate.plan[3] = Candidate.endpoint \/ preflight.torn
              /\ Candidate.config \in FilledConfigs /\ Candidate.config = workspace.commitment
            BY <2>1, <2>3, <3>2 DEF WorkspaceKept, ReadingFits, PreparationReady, PlanFits
        <3> HIDE DEF Candidate
        <3>4. \A c \in candidates : Coherent(c)'
            BY <2>1, <3>1 DEF WorkspaceKept, Coherent
        <3>5. \A c \in candidates' : Coherent(c)'
            <4>1. ASSUME NEW c \in candidates', c = Candidate PROVE Coherent(c)'
                BY <2>1, <3>1, <3>3, <4>1 DEF Coherent
            <4> QED
                BY <3>1, <3>4, <4>1
        <3> QED
            BY <1>1, <2>1, <2>2, <3>1, <3>5 DEF WorkspaceKept
    <2>4. CASE ~PreparationReady
        <3>1. UNCHANGED <<candidates, tornEndpoints>>
            BY <1>5, <2>4 DEF SealReadiness
        <3> QED
            BY <1>1, <2>1, <2>2, <3>1 DEF WorkspaceKept, Coherent
    <2> QED
        BY <2>3, <2>4
<1>6. CASE ReviewCandidate
    <2>1. UNCHANGED <<workspace, candidates, signedReadiness, tornEndpoints>>
          /\ preflight' \in {[preflight EXCEPT !.at = "confirm"], NoReading} /\ preflight.at = "read"
        BY <1>6 DEF ReviewCandidate
    <2>2. ReadingFits'
        BY <2>1 DEF WorkspaceKept, ReadingFits, NoReading
    <2> QED
        BY <1>1, <2>1, <2>2 DEF WorkspaceKept, Coherent
<1>7. CASE SignReadiness
    <2>1. UNCHANGED <<workspace, candidates, tornEndpoints>> /\ preflight' = NoReading
        BY <1>7 DEF SignReadiness
    <2>2. ReadingFits'
        BY <2>1 DEF ReadingFits, NoReading
    <2>3. \A s \in signedReadiness' : s.candidate \in candidates
        <3>1. CASE UNCHANGED signedReadiness
            BY <3>1 DEF WorkspaceKept
        <3>2. CASE \E history \in TrustHistories, time \in AuthorizationTimes :
                      signedReadiness' = signedReadiness \cup
                         {[candidate |-> c, history |-> history, time |-> time] : c \in preflight.for}
            BY <3>2 DEF WorkspaceKept, ReadingFits
        <3> QED
            BY <1>7, <3>1, <3>2 DEF SignReadiness
    <2> QED
        BY <1>1, <2>1, <2>2, <2>3 DEF WorkspaceKept, Coherent
<1>8. CASE EditInputs \/ EditWorkspaceConfig \/ UNCHANGED workspaceVars
    <2>1. UNCHANGED <<preflight, candidates, signedReadiness, tornEndpoints>>
        BY <1>8 DEF EditInputs, EditWorkspaceConfig, workspaceVars
    <2> QED
        BY <1>1, <2>1, PapersStay
<1> QED
    BY <1>2, <1>3, <1>4, <1>5, <1>6, <1>7, <1>8 DEF WorkspaceNext

(* Whatever preparers race, fail and die, and however inputs are edited while they are read: *)
(* an answered initialization is the workspace's own, and what a human signed hangs together. *)
LEMMA WorkspaceIsKept == WorkspaceSpec => [](WorkspaceStands /\ SignedIsCoherent)
<1>1. WorkspaceKept => WorkspaceStands /\ SignedIsCoherent
    BY DEF WorkspaceKept, PreparersStand, Coherent, WorkspaceStands, SignedIsCoherent
<1> QED
    BY <1>1, WorkspaceKeptInit, WorkspaceKeptStep, PTL DEF WorkspaceSpec

-----------------------------------------------------------------------------
(* The permits of the dispatch: what a permit was read from, and what it activates. *)

(* Prefixes of histories. *)
LEMMA PrefixFacts ==
    ASSUME NEW E, NEW s \in Seq(E), NEW t \in Seq(E)
    PROVE  /\ IsPrefix(s, t) <=> Len(s) <= Len(t) /\ \A i \in 1..Len(s) : s[i] = t[i]
           /\ Len(s) \in Nat /\ Len(t) \in Nat
<1>1. Len(s) <= Len(t) => SubSeq(s, 1, Len(s)) = s /\ SubSeq(t, 1, Len(s)) \in Seq(E)
                          /\ Len(SubSeq(t, 1, Len(s))) = Len(s)
                          /\ \A i \in 1..Len(s) : SubSeq(t, 1, Len(s))[i] = t[i]
    BY SMT
<1>2. \A u \in Seq(E) : Len(u) = Len(s) /\ (\A i \in 1..Len(s) : s[i] = u[i]) => s = u
    BY SeqEqual, SMT
<1> QED
    BY <1>1, <1>2, SMT DEF IsPrefix

Histories == Seq(Events \cup {SignedEvent})

LEMMA ExtendsFacts ==
    /\ \A h \in Histories : Extends(h, h) /\ Extends(h, <<>>)
    /\ \A h, j, k \in Histories : Extends(h, j) /\ Extends(j, k) => Extends(h, k)
    /\ \A h, j \in Histories : Extends(h, j) => h = j \/ Len(h) > Len(j)
    /\ \A h \in Histories : Extends(h, <<SignedEvent>>) => h # <<>>
<1> DEFINE E == Events \cup {SignedEvent}
<1>1. \A h, j \in Histories : /\ Extends(h, j) <=> Len(j) <= Len(h) /\ \A i \in 1..Len(j) : j[i] = h[i]
                              /\ Len(h) \in Nat /\ Len(j) \in Nat
    <2> SUFFICES ASSUME NEW h \in Seq(E), NEW j \in Seq(E)
                 PROVE  /\ IsPrefix(j, h) <=> Len(j) <= Len(h) /\ \A i \in 1..Len(j) : j[i] = h[i]
                        /\ Len(h) \in Nat /\ Len(j) \in Nat
        BY DEF Histories, Extends
    <2> HIDE DEF E
    <2> QED
        BY PrefixFacts
<1>2. <<>> \in Histories /\ Len(<<>>) = 0 /\ <<SignedEvent>> \in Histories /\ Len(<<SignedEvent>>) = 1
    BY SMT DEF Histories
<1>3. \A h, j \in Histories : Extends(h, j) => h = j \/ Len(h) > Len(j)
    <2> SUFFICES ASSUME NEW h \in Seq(E), NEW j \in Seq(E), Extends(h, j), ~(Len(h) > Len(j)) PROVE h = j
        BY DEF Histories
    <2>1. Len(h) = Len(j) /\ \A i \in 1..Len(h) : h[i] = j[i]
        BY <1>1, SMT DEF Histories
    <2> HIDE DEF E
    <2> QED
        BY <2>1, SeqEqual
<1>4. \A h \in Histories : Extends(h, h) /\ Extends(h, <<>>)
    BY <1>1, <1>2, SMT
<1>5. \A h, j, k \in Histories : Extends(h, j) /\ Extends(j, k) => Extends(h, k)
    <2> SUFFICES ASSUME NEW h \in Histories, NEW j \in Histories, NEW k \in Histories,
                        Extends(h, j), Extends(j, k)
                 PROVE  Extends(h, k)
        OBVIOUS
    <2>1. Len(k) <= Len(j) /\ Len(j) <= Len(h) /\ Len(h) \in Nat /\ Len(j) \in Nat /\ Len(k) \in Nat
        BY <1>1
    <2>2. \A i \in 1..Len(k) : i \in 1..Len(j) /\ k[i] = j[i] /\ j[i] = h[i]
        BY <1>1, <2>1
    <2> QED
        BY <1>1, <2>1, <2>2
<1>6. \A h \in Histories : Extends(h, <<SignedEvent>>) => h # <<>>
    BY <1>1, <1>2, SMT
<1> QED
    BY <1>3, <1>4, <1>5, <1>6

-----------------------------------------------------------------------------
Snapshots == {<<>>} \cup (Histories \X Int)
Pins == [readiness : 1..2, history : Histories]
CheckPlaces == {"idle", "pin", "prior", "observe", "authority", "inputs", "answer"}
CheckTypes == [at : CheckPlaces, mode : Modes \cup {"hermetic", "revalidate"}, held : Snapshots, pin : Pins,
               used : Int, before : Histories]
PermitTypes ==
    /\ world \in [pin : Pins, task : {"active", "revoked"}, session : BOOLEAN, inputs : Int, used : Int]
    /\ cell \in [root : Nat, child : Nat, card : Nat, pin : Histories, activation : Nat]
    /\ activating \in [at : {"rest", "failed", "root", "child", "card", "pin", "activation", "done"}, attempt : Nat,
                       history : Histories]
    /\ checks \in [Checkers -> CheckTypes] /\ permit \in Snapshots
    /\ observation \in Histories /\ seen \in Histories /\ crossed \in BOOLEAN

(* An activation under way has published what it has passed, all of one attempt. *)
ActivationStands ==
    /\ activating.at \in {"root", "child", "card", "pin", "activation"} =>
          activating.attempt # NoAttempt /\ activating.history # <<>>
    /\ activating.at \in {"child", "card", "pin", "activation"} => cell.root = activating.attempt
    /\ activating.at \in {"card", "pin", "activation"} => cell.child = activating.attempt
    /\ activating.at = "activation" => cell.pin = activating.history
    /\ ActivationIsOne

(* A snapshot under way has read a pin that extends the activation's, and from the inputs on   *)
(* one in which nobody is revoked. *)
ReadingsStand ==
    /\ cell.activation = NoAttempt => revalidated = {} /\ \A c \in Checkers : checks[c].at = "idle"
    /\ \A c \in Checkers :
          /\ checks[c].at \in {"prior", "observe", "authority", "inputs", "answer"} =>
                Extends(checks[c].pin.history, cell.pin)
          /\ checks[c].at \in {"inputs", "answer"} =>
                /\ ~Revoked(checks[c].pin.history, "card-revoked")
                /\ ~Revoked(checks[c].pin.history, "delegation-revoked")

(* Until two observers overlap, the observation is the longest history anybody wrote, one      *)
(* snapshot at a time is about to write it, and none has read less than was seen before it.   *)
ObservationStands ==
    ~crossed =>
       /\ observation = seen
       /\ \A c, d \in Checkers : checks[c].at = "observe" /\ checks[d].at = "observe" => c = d
       /\ \A c \in Checkers :
             /\ checks[c].at \in {"pin", "prior"} => Extends(seen, checks[c].before)
             /\ checks[c].at = "observe" => Extends(checks[c].pin.history, observation)
             /\ checks[c].at \in {"observe", "authority", "inputs", "answer"} =>
                   Extends(checks[c].pin.history, checks[c].before)

PermitsKept == PermitTypes /\ ActivationStands /\ ReadingsStand /\ ObservationStands /\ PermitsAreCurrent

LEMMA PermitsKeptInit == PermitInit => PermitsKept
<1> SUFFICES ASSUME PermitInit PROVE PermitsKept
    OBVIOUS
<1>1. <<>> \in Histories /\ <<SignedEvent>> \in Histories /\ Append(<<SignedEvent>>, "other") \in Histories
    BY SMT DEF Histories, Events
<1>2. Pin0 \in Pins /\ Clear \in CheckTypes
    BY <1>1 DEF Pin0, Pins, Clear, CheckTypes, CheckPlaces, Snapshots
<1>3. PICK history \in {Pin0.history, Append(Pin0.history, "other")} :
        world = [pin |-> [Pin0 EXCEPT !.history = history], task |-> "active",
                 session |-> lifecycle = "consumed", inputs |-> 1, used |-> 0]
    BY DEF PermitInit
<1>4. history \in Histories /\ [Pin0 EXCEPT !.history = history] \in Pins
    BY <1>1, <1>2 DEF Pin0, Pins
<1>5. PermitTypes
    <2>1. world \in [pin : Pins, task : {"active", "revoked"}, session : BOOLEAN, inputs : Int, used : Int]
        BY <1>3, <1>4
    <2>2. /\ cell \in [root : Nat, child : Nat, card : Nat, pin : Histories, activation : Nat]
          /\ activating \in [at : {"rest", "failed", "root", "child", "card", "pin", "activation", "done"},
                             attempt : Nat, history : Histories]
        BY <1>1 DEF PermitInit, NoAttempt
    <2>3. checks \in [Checkers -> CheckTypes] /\ permit \in Snapshots
        BY <1>2 DEF PermitInit, Snapshots
    <2> QED
        BY <1>1, <2>1, <2>2, <2>3 DEF PermitInit, PermitTypes
<1>6. ActivationStands /\ ReadingsStand
    BY DEF PermitInit, ActivationStands, ActivationIsOne, ReadingsStand, NoAttempt, Clear
<1>7. ObservationStands /\ PermitsAreCurrent
    BY DEF PermitInit, ObservationStands, PermitsAreCurrent, Clear
<1> QED
    BY <1>5, <1>6, <1>7 DEF PermitsKept

(* What the activation and the world do leaves the snapshots alone, and a pin that was          *)
(* activated stays.                                                                        *)
PinStays == cell.activation # NoAttempt => cell'.activation # NoAttempt /\ cell'.pin = cell.pin

LEMMA SnapshotsStay ==
    ASSUME PermitsKept, PermitTypes', ActivationStands', PinStays,
           UNCHANGED <<observation, checks, revalidated, seen, crossed>>
    PROVE  PermitsKept'
<1>1. ReadingsStand'
    BY DEF PermitsKept, ReadingsStand, PinStays
<1>2. ObservationStands'
    BY DEF PermitsKept, ObservationStands
<1>3. PermitsAreCurrent'
    BY DEF PermitsKept, PermitsAreCurrent, ReadingsStand, PinStays
<1> QED
    BY <1>1, <1>2, <1>3 DEF PermitsKept

LEMMA ActivationStep ==
    ASSUME PermitsKept, BeginActivation \/ ActivateStep \/ ActivationFails
    PROVE  PermitsKept'
<1> USE DEF NoAttempt
<1>1. UNCHANGED activationRest /\ PermitTypes /\ ActivationStands
    BY DEF BeginActivation, ActivateStep, ActivationFails, PermitsKept
<1>2. CASE BeginActivation
    <2>1. PICK k \in 1..MaxActivations :
            activating' = [at |-> "root", attempt |-> k, history |-> world.pin.history]
        BY <1>2 DEF BeginActivation
    <2>2. world.pin.history \in Histories /\ world.pin.history # <<>> /\ UNCHANGED cell
        BY <1>1, <1>2, ExtendsFacts DEF BeginActivation, CardTrusted, PermitTypes, Pins
    <2>3. k \in Nat /\ k # 0
        BY PermitAssumption
    <2>4. PermitTypes' /\ ActivationStands' /\ PinStays
        BY <1>1, <2>1, <2>2, <2>3 DEF PermitTypes, ActivationStands, ActivationIsOne, PinStays, activationRest
    <2> QED
        BY <1>1, <2>4, SnapshotsStay DEF activationRest
<1>3. CASE ActivationFails
    <2>1. PermitTypes' /\ ActivationStands' /\ PinStays
        BY <1>1, <1>3 DEF ActivationFails, PermitTypes, ActivationStands, ActivationIsOne, PinStays, activationRest
    <2> QED
        BY <1>1, <2>1, SnapshotsStay DEF activationRest
<1>4. CASE ActivateStep
    <2> DEFINE Failing == activating' = [activating EXCEPT !.at = "failed"] /\ UNCHANGED cell
               Passing(field, value, next) ==
                   cell' = [cell EXCEPT ![field] = value] /\ activating' = [activating EXCEPT !.at = next]
    <2>1. \/ Failing
          \/ activating.at = "root" /\ Passing("root", activating.attempt, "child") /\ cell.root \in {NoAttempt, activating.attempt}
          \/ activating.at = "child" /\ Passing("child", activating.attempt, "card") /\ cell.child \in {NoAttempt, activating.attempt}
          \/ activating.at = "card" /\ Passing("card", 1, "pin")
          \/ activating.at = "pin" /\ Passing("pin", activating.history, "activation")
             /\ cell.pin \in {<<>>, activating.history}
          \/ activating.at = "activation" /\ Passing("activation", activating.attempt, "rest")
             /\ cell.activation \in {NoAttempt, activating.attempt}
        BY <1>4 DEF ActivateStep, PublishedAs
    <2>2. PermitTypes'
        BY <1>1, <2>1 DEF PermitTypes, activationRest
    <2>3. CASE Failing
        <3>1. ActivationStands' /\ PinStays
            BY <1>1, <2>3 DEF PermitTypes, ActivationStands, ActivationIsOne, PinStays
        <3> QED
            BY <1>1, <2>2, <3>1, SnapshotsStay DEF activationRest
    <2>4. CASE activating.at = "root" /\ Passing("root", activating.attempt, "child") /\ cell.root \in {NoAttempt, activating.attempt}
        <3>1. ActivationStands' /\ PinStays
            BY <1>1, <2>4 DEF PermitTypes, ActivationStands, ActivationIsOne, PinStays
        <3> QED
            BY <1>1, <2>2, <3>1, SnapshotsStay DEF activationRest
    <2>5. CASE activating.at = "child" /\ Passing("child", activating.attempt, "card") /\ cell.child \in {NoAttempt, activating.attempt}
        <3>1. ActivationStands' /\ PinStays
            BY <1>1, <2>5 DEF PermitTypes, ActivationStands, ActivationIsOne, PinStays
        <3> QED
            BY <1>1, <2>2, <3>1, SnapshotsStay DEF activationRest
    <2>6. CASE activating.at = "card" /\ Passing("card", 1, "pin")
        <3>1. ActivationStands' /\ PinStays
            BY <1>1, <2>6 DEF PermitTypes, ActivationStands, ActivationIsOne, PinStays
        <3> QED
            BY <1>1, <2>2, <3>1, SnapshotsStay DEF activationRest
    <2>7. CASE activating.at = "pin" /\ Passing("pin", activating.history, "activation")
               /\ cell.pin \in {<<>>, activating.history}
        <3>1. ActivationStands' /\ PinStays
            BY <1>1, <2>7 DEF PermitTypes, ActivationStands, ActivationIsOne, PinStays
        <3> QED
            BY <1>1, <2>2, <3>1, SnapshotsStay DEF activationRest
    <2>8. CASE activating.at = "activation" /\ Passing("activation", activating.attempt, "rest")
               /\ cell.activation \in {NoAttempt, activating.attempt}
        <3>1. ActivationStands' /\ PinStays
            BY <1>1, <2>8 DEF PermitTypes, ActivationStands, ActivationIsOne, PinStays
        <3> QED
            BY <1>1, <2>2, <3>1, SnapshotsStay DEF activationRest
    <2> QED
        BY <2>1, <2>3, <2>4, <2>5, <2>6, <2>7, <2>8
<1> QED
    BY <1>2, <1>3, <1>4

LEMMA WorldStep ==
    ASSUME PermitsKept, ChangeWorld \/ ActivatePrincipalSession \/ BindArtifactKeys \/ CreateCellHost
    PROVE  PermitsKept'
<1>1. UNCHANGED <<cell, activating, observation, checks, permit, revalidated, seen, crossed>>
    BY DEF ChangeWorld, ActivatePrincipalSession, BindArtifactKeys, CreateCellHost
<1>2. PermitTypes
    BY DEF PermitsKept
<1> DEFINE Worlds == [pin : Pins, task : {"active", "revoked"}, session : BOOLEAN, inputs : Int, used : Int]
<1>3. world' \in Worlds
    <2>1. CASE UNCHANGED world
        BY <1>2, <2>1 DEF PermitTypes
    <2>2. CASE ActivatePrincipalSession
        BY <1>2, <2>2 DEF PermitTypes, ActivatePrincipalSession
    <2>3. CASE ChangeWorld
        <3>0. world \in Worlds /\ world.pin \in Pins /\ world.pin.history \in Histories
            BY <1>2 DEF PermitTypes, Pins
        <3>1. ASSUME NEW e \in Events, world' = [world EXCEPT !.pin.history = Append(@, e)] PROVE world' \in Worlds
            <4>1. Append(world.pin.history, e) \in Histories
                BY <3>0, SMT DEF Histories
            <4>2. [world.pin EXCEPT !.history = Append(@, e)] \in Pins
                BY <3>0, <4>1 DEF Pins
            <4> HIDE DEF Worlds
            <4>3. world' = [world EXCEPT !.pin = [world.pin EXCEPT !.history = Append(@, e)]]
                BY <3>1
            <4> QED
                BY <3>0, <4>2, <4>3 DEF Worlds
        <3>2. ASSUME NEW k \in 1..(Len(world.pin.history) - 1),
                     world' = [world EXCEPT !.pin.history = SubSeq(@, 1, k)] PROVE world' \in Worlds
            <4>1. SubSeq(world.pin.history, 1, k) \in Histories
                BY <3>0, SMT DEF Histories
            <4> QED
                BY <3>0, <3>2, <4>1 DEF Pins
        <3>3. CASE world' = [world EXCEPT !.pin.readiness = 2]
            BY <3>0, <3>3 DEF Pins
        <3>4. CASE world' = [world EXCEPT !.task = "revoked"] \/ world' = [world EXCEPT !.session = FALSE]
            BY <3>0, <3>4
        <3>5. CASE \/ world' = [world EXCEPT !.inputs = 3 - @] \/ world' = [world EXCEPT !.used = @ + 1]
                   \/ world' = [world EXCEPT !.used = @ - 1]
            <4>1. 3 - world.inputs \in Int /\ world.used + 1 \in Int /\ world.used - 1 \in Int
                BY <3>0
            <4> QED
                BY <3>0, <3>5, <4>1, Zenon
        <3> QED
            BY <2>3, <3>1, <3>2, <3>3, <3>4, <3>5 DEF ChangeWorld
    <2> QED
        BY <2>1, <2>2, <2>3 DEF BindArtifactKeys, CreateCellHost
<1>4. PermitTypes' /\ ActivationStands' /\ PinStays
    BY <1>1, <1>2, <1>3 DEF PermitTypes, PermitsKept, ActivationStands, ActivationIsOne, PinStays
<1> QED
    BY <1>1, <1>4, SnapshotsStay

-----------------------------------------------------------------------------
(* A step of one snapshot. *)
CheckStep(c) ==
    \/ BeginSnapshot(c) \/ ReadPin(c) \/ ReadPriorObservation(c) \/ WriteObservation(c)
    \/ ReadAuthority(c) \/ ReadInputs(c) \/ AnswerSnapshot(c) \/ SnapshotFails(c)

LEMMA CheckStepTypes ==
    ASSUME PermitTypes, NEW c \in Checkers, CheckStep(c)
    PROVE  /\ PermitTypes' /\ UNCHANGED <<cell, activating>>
           /\ \A d \in Checkers \ {c} : checks'[d] = checks[d]
<1>1. UNCHANGED snapshotRest
    BY DEF CheckStep, BeginSnapshot, ReadPin, ReadPriorObservation, WriteObservation, ReadAuthority, ReadInputs,
           AnswerSnapshot, SnapshotFails, snapshotRest
<1>2. Clear \in CheckTypes /\ <<>> \in Snapshots
    <2>1. <<>> \in Histories /\ <<SignedEvent>> \in Histories
        BY SMT DEF Histories
    <2> QED
        BY <2>1 DEF Pin0, Pins, Clear, CheckTypes, CheckPlaces, Snapshots
<1>3. checks[c] \in CheckTypes /\ world.pin \in Pins /\ world.used \in Int
    BY DEF PermitTypes
<1>4. \A step \in CheckTypes : [checks EXCEPT ![c] = step] \in [Checkers -> CheckTypes]
                             /\ \A d \in Checkers \ {c} : [checks EXCEPT ![c] = step][d] = checks[d]
    BY DEF PermitTypes
<1>5. CASE BeginSnapshot(c)
    <2>1. permit' \in Snapshots /\ UNCHANGED <<observation, seen, crossed>>
        BY <1>2, <1>5 DEF BeginSnapshot, PermitTypes
    <2>2. PICK step : step \in CheckTypes /\ checks' = [checks EXCEPT ![c] = step]
        <3>1. \A mode \in Modes : [Clear EXCEPT !.at = "pin", !.mode = mode, !.before = seen] \in CheckTypes
            BY <1>2 DEF CheckTypes, CheckPlaces, PermitTypes
        <3>2. [Clear EXCEPT !.at = "pin", !.mode = "revalidate", !.held = permit, !.before = seen] \in CheckTypes
            BY <1>2 DEF CheckTypes, CheckPlaces, PermitTypes
        <3> QED
            BY <1>5, <3>1, <3>2 DEF BeginSnapshot, Turn
    <2> QED
        BY <1>1, <1>4, <2>1, <2>2 DEF PermitTypes, snapshotRest
<1>6. CASE ReadPin(c)
    <2>1. [checks[c] EXCEPT !.at = "prior", !.pin = world.pin] \in CheckTypes
        BY <1>3 DEF CheckTypes, CheckPlaces
    <2> QED
        BY <1>1, <1>2, <1>4, <1>6, <2>1 DEF ReadPin, PermitTypes, snapshotRest, Turn, Refuses
<1>7. CASE ReadPriorObservation(c)
    <2>1. \A at \in {"authority", "observe"} : [checks[c] EXCEPT !.at = at] \in CheckTypes
        BY <1>3 DEF CheckTypes, CheckPlaces
    <2>2. crossed' \in BOOLEAN /\ UNCHANGED <<permit, observation, seen>>
        BY <1>7 DEF ReadPriorObservation, PermitTypes
    <2>3. PICK step : step \in CheckTypes /\ checks' = [checks EXCEPT ![c] = step]
        BY <1>2, <1>7, <2>1 DEF ReadPriorObservation, Turn, Refuses
    <2> QED
        BY <1>1, <1>4, <2>2, <2>3 DEF PermitTypes, snapshotRest
<1>8. CASE WriteObservation(c)
    <2>1. [checks[c] EXCEPT !.at = "authority"] \in CheckTypes /\ checks[c].pin.history \in Histories
        BY <1>3 DEF CheckTypes, CheckPlaces, Pins
    <2> QED
        BY <1>1, <1>4, <1>8, <2>1 DEF WriteObservation, PermitTypes, snapshotRest, Turn
<1>9. CASE ReadAuthority(c)
    <2>1. [checks[c] EXCEPT !.at = "inputs", !.used = world.used] \in CheckTypes
        BY <1>3 DEF CheckTypes, CheckPlaces
    <2> QED
        BY <1>1, <1>2, <1>4, <1>9, <2>1 DEF ReadAuthority, PermitTypes, snapshotRest, Turn, Refuses
<1>10. CASE ReadInputs(c)
    <2>1. [checks[c] EXCEPT !.at = "answer"] \in CheckTypes
        BY <1>3 DEF CheckTypes, CheckPlaces
    <2> QED
        BY <1>1, <1>2, <1>4, <1>10, <2>1 DEF ReadInputs, PermitTypes, snapshotRest, Turn, Refuses
<1>11. CASE AnswerSnapshot(c)
    <2>1. Snapshot(c) \in Snapshots
        BY <1>3 DEF Snapshot, Snapshots, CheckTypes, Pins
    <2>2. permit' \in Snapshots /\ UNCHANGED <<observation, seen, crossed>>
        BY <1>11, <2>1 DEF AnswerSnapshot, PermitTypes
    <2> QED
        BY <1>1, <1>2, <1>4, <1>11, <2>2 DEF AnswerSnapshot, PermitTypes, snapshotRest, Refuses
<1>12. CASE SnapshotFails(c)
    BY <1>1, <1>2, <1>4, <1>12 DEF SnapshotFails, PermitTypes, snapshotRest, Refuses
<1> QED
    BY <1>5, <1>6, <1>7, <1>8, <1>9, <1>10, <1>11, <1>12 DEF CheckStep

(* When a snapshot gives up, and leaves no other mark, everything stands. *)
LEMMA ClearedStands ==
    ASSUME PermitsKept, NEW c \in Checkers, CheckStep(c), checks'[c].at = "idle",
           UNCHANGED <<observation, revalidated, seen>>, crossed => crossed'
    PROVE  PermitsKept'
<1>1. PermitTypes' /\ UNCHANGED <<cell, activating>> /\ \A d \in Checkers \ {c} : checks'[d] = checks[d]
    BY CheckStepTypes DEF PermitsKept
<1>2. ActivationStands' /\ ReadingsStand'
    BY <1>1 DEF PermitsKept, ActivationStands, ActivationIsOne, ReadingsStand
<1>3. ObservationStands'
    BY <1>1 DEF PermitsKept, ObservationStands
<1>4. PermitsAreCurrent'
    BY <1>1 DEF PermitsKept, PermitsAreCurrent
<1> QED
    BY <1>1, <1>2, <1>3, <1>4 DEF PermitsKept

LEMMA SnapshotStep ==
    ASSUME PermitsKept, NEW c \in Checkers, CheckStep(c)
    PROVE  PermitsKept'
<1>1. PermitTypes' /\ UNCHANGED <<cell, activating>> /\ \A d \in Checkers \ {c} : checks'[d] = checks[d]
    BY CheckStepTypes DEF PermitsKept
<1>2. ActivationStands'
    BY <1>1 DEF PermitsKept, ActivationStands, ActivationIsOne
<1>3. /\ checks \in [Checkers -> CheckTypes] /\ observation \in Histories /\ seen \in Histories
      /\ checks[c].before \in Histories /\ checks[c].pin.history \in Histories /\ Clear.at = "idle"
    BY DEF PermitsKept, PermitTypes, CheckTypes, Pins, Clear
<1>4. CASE checks'[c].at = "idle" /\ UNCHANGED <<observation, revalidated, seen>> /\ (crossed => crossed')
    BY <1>4, ClearedStands
<1>5. CASE BeginSnapshot(c)
    <2>1. /\ checks'[c].at = "pin" /\ checks'[c].before = seen /\ cell.activation # NoAttempt
          /\ UNCHANGED <<observation, revalidated, seen, crossed>>
        BY <1>3, <1>5 DEF BeginSnapshot, Turn, Clear
    <2>2. ReadingsStand' /\ PermitsAreCurrent'
        BY <1>1, <2>1 DEF PermitsKept, ReadingsStand, PermitsAreCurrent
    <2>3. ObservationStands'
        BY <1>1, <1>3, <2>1, ExtendsFacts DEF PermitsKept, ObservationStands
    <2> QED
        BY <1>1, <1>2, <2>2, <2>3 DEF PermitsKept
<1>6. CASE ReadPin(c)
    <2>1. CASE Extends(world.pin.history, cell.pin) /\ Turn(c, [checks[c] EXCEPT !.at = "prior", !.pin = world.pin])
        <3>1. /\ checks'[c].at = "prior" /\ checks'[c].before = checks[c].before
              /\ checks'[c].pin = world.pin /\ checks[c].at = "pin"
              /\ UNCHANGED <<observation, revalidated, seen, crossed>>
            BY <1>3, <1>6, <2>1 DEF ReadPin, Turn, CheckTypes, Checking
        <3>2. ReadingsStand' /\ PermitsAreCurrent'
            BY <1>1, <2>1, <3>1 DEF PermitsKept, ReadingsStand, PermitsAreCurrent
        <3>3. ObservationStands'
            BY <1>1, <3>1 DEF PermitsKept, ObservationStands
        <3> QED
            BY <1>1, <1>2, <3>2, <3>3 DEF PermitsKept
    <2>2. CASE Refuses(c)
        BY <1>3, <1>4, <1>6, <2>2 DEF ReadPin, Refuses
    <2> QED
        BY <1>6, <2>1, <2>2 DEF ReadPin
<1>7. CASE ReadPriorObservation(c)
    <2>1. /\ checks[c].at = "prior" /\ UNCHANGED <<observation, revalidated, seen>>
          /\ crossed' = (crossed \/ \E d \in Checkers \ {c} : checks[d].at = "observe")
        BY <1>7 DEF ReadPriorObservation, Checking
    <2>2. CASE Extends(checks[c].pin.history, observation)
               /\ \E at \in {"authority", "observe"} : Turn(c, [checks[c] EXCEPT !.at = at])
        <3>1. /\ checks'[c].at \in {"authority", "observe"} /\ checks'[c].before = checks[c].before
              /\ checks'[c].pin = checks[c].pin
            BY <1>3, <2>2 DEF Turn, CheckTypes
        <3>2. ReadingsStand'
            BY <1>1, <2>1, <3>1 DEF PermitsKept, ReadingsStand
        <3>3. PermitsAreCurrent'
            BY <1>1, <2>1 DEF PermitsKept, PermitsAreCurrent
        <3>4. ObservationStands'
            <4>1. SUFFICES ASSUME ~crossed'
                           PROVE  /\ \A d, e \in Checkers : checks'[d].at = "observe" /\ checks'[e].at = "observe" => d = e
                                  /\ Extends(checks[c].pin.history, checks[c].before)
                BY <1>1, <2>1, <2>2, <3>1 DEF PermitsKept, ObservationStands
            <4>2. ~crossed /\ \A d \in Checkers \ {c} : checks[d].at # "observe"
                BY <2>1, <4>1
            <4>3. Extends(seen, checks[c].before) /\ observation = seen
                BY <2>1, <4>2 DEF PermitsKept, ObservationStands
            <4> QED
                BY <1>1, <1>3, <2>2, <4>2, <4>3, ExtendsFacts
        <3> QED
            BY <1>1, <1>2, <3>2, <3>3, <3>4 DEF PermitsKept
    <2>3. CASE Refuses(c)
        BY <1>3, <1>4, <2>1, <2>3 DEF Refuses
    <2> QED
        BY <1>7, <2>2, <2>3 DEF ReadPriorObservation, NotRolledBack
<1>8. CASE WriteObservation(c)
    <2>1. /\ checks[c].at = "observe" /\ observation' = checks[c].pin.history
          /\ seen' = IF Len(observation') > Len(seen) THEN observation' ELSE seen
          /\ checks'[c].at = "authority" /\ checks'[c].before = checks[c].before /\ checks'[c].pin = checks[c].pin
          /\ UNCHANGED <<revalidated, crossed>>
        BY <1>3, <1>8 DEF WriteObservation, Turn, Checking, CheckTypes
    <2>2. ReadingsStand' /\ PermitsAreCurrent'
        BY <1>1, <2>1 DEF PermitsKept, ReadingsStand, PermitsAreCurrent
    <2>3. ObservationStands'
        <3>1. SUFFICES ASSUME ~crossed PROVE ObservationStands'
            BY <2>1 DEF ObservationStands
        <3>2. observation = seen /\ Extends(observation', seen) /\ \A d \in Checkers : checks[d].at = "observe" => d = c
            BY <2>1, <3>1 DEF PermitsKept, ObservationStands
        <3>3. seen' = observation'
            BY <1>3, <2>1, <3>2, ExtendsFacts
        <3>4. \A d \in Checkers \ {c} :
                /\ checks'[d] = checks[d] /\ checks[d].at # "observe" /\ checks[d].before \in Histories
                /\ checks[d].at \in {"pin", "prior"} => Extends(seen, checks[d].before)
            BY <1>1, <1>3, <3>1, <3>2 DEF PermitsKept, ObservationStands, CheckTypes
        <3>5. \A d \in Checkers \ {c} : checks[d].at \in {"pin", "prior"} => Extends(seen', checks[d].before)
            BY <1>3, <2>1, <3>2, <3>3, <3>4, ExtendsFacts
        <3>6. Extends(checks[c].pin.history, checks[c].before)
            BY <2>1, <3>1 DEF PermitsKept, ObservationStands
        <3>7. \A d \in Checkers \ {c} : checks[d].at \in {"authority", "inputs", "answer"} =>
                    Extends(checks[d].pin.history, checks[d].before)
            BY <3>1 DEF PermitsKept, ObservationStands
        <3> QED
            BY <2>1, <3>3, <3>4, <3>5, <3>6, <3>7 DEF ObservationStands
    <2> QED
        BY <1>1, <1>2, <2>2, <2>3 DEF PermitsKept
<1>9. CASE ReadAuthority(c)
    <2>1. CASE /\ CardTrusted(checks[c].pin) /\ DelegationActive(checks[c].pin)
               /\ Turn(c, [checks[c] EXCEPT !.at = "inputs", !.used = world.used])
        <3>1. /\ checks'[c].at = "inputs" /\ checks'[c].before = checks[c].before
              /\ checks'[c].pin = checks[c].pin /\ checks[c].at = "authority"
              /\ UNCHANGED <<observation, revalidated, seen, crossed>>
            BY <1>3, <1>9, <2>1 DEF ReadAuthority, Turn, CheckTypes, Checking
        <3>2. ReadingsStand' /\ PermitsAreCurrent'
            BY <1>1, <2>1, <3>1 DEF PermitsKept, ReadingsStand, PermitsAreCurrent, CardTrusted, DelegationActive
        <3>3. ObservationStands'
            BY <1>1, <3>1 DEF PermitsKept, ObservationStands
        <3> QED
            BY <1>1, <1>2, <3>2, <3>3 DEF PermitsKept
    <2>2. CASE Refuses(c)
        BY <1>3, <1>4, <1>9, <2>2 DEF ReadAuthority, Refuses
    <2> QED
        BY <1>9, <2>1, <2>2 DEF ReadAuthority
<1>10. CASE ReadInputs(c)
    <2>1. CASE Turn(c, [checks[c] EXCEPT !.at = "answer"])
        <3>1. /\ checks'[c].at = "answer" /\ checks'[c].before = checks[c].before
              /\ checks'[c].pin = checks[c].pin /\ checks[c].at = "inputs"
              /\ UNCHANGED <<observation, revalidated, seen, crossed>>
            BY <1>3, <1>10, <2>1 DEF ReadInputs, Turn, CheckTypes, Checking
        <3>2. ReadingsStand' /\ PermitsAreCurrent'
            BY <1>1, <3>1 DEF PermitsKept, ReadingsStand, PermitsAreCurrent
        <3>3. ObservationStands'
            BY <1>1, <3>1 DEF PermitsKept, ObservationStands
        <3> QED
            BY <1>1, <1>2, <3>2, <3>3 DEF PermitsKept
    <2>2. CASE Refuses(c)
        BY <1>3, <1>4, <1>10, <2>2 DEF ReadInputs, Refuses
    <2> QED
        BY <1>10, <2>1, <2>2 DEF ReadInputs
<1>11. CASE AnswerSnapshot(c)
    <2>1. /\ checks[c].at = "answer" /\ checks'[c].at = "idle" /\ UNCHANGED <<observation, seen, crossed>>
        BY <1>3, <1>11 DEF AnswerSnapshot, Refuses, Checking
    <2>2. revalidated' \in {revalidated, {[history |-> checks[c].pin.history, before |-> checks[c].before]}}
        BY <1>11 DEF AnswerSnapshot
    <2>3. CASE UNCHANGED revalidated
        BY <1>4, <2>1, <2>3
    <2>4. CASE revalidated' = {[history |-> checks[c].pin.history, before |-> checks[c].before]}
        <3>1. cell.activation # NoAttempt /\ Extends(checks[c].pin.history, cell.pin)
              /\ ~Revoked(checks[c].pin.history, "card-revoked")
              /\ ~Revoked(checks[c].pin.history, "delegation-revoked")
              /\ (crossed \/ Extends(checks[c].pin.history, checks[c].before))
            BY <2>1 DEF PermitsKept, ReadingsStand, ObservationStands
        <3>2. PermitsAreCurrent'
            BY <1>1, <2>1, <2>4, <3>1 DEF PermitsAreCurrent, Revoked
        <3>3. ReadingsStand' /\ ObservationStands'
            BY <1>1, <2>1, <3>1 DEF PermitsKept, ReadingsStand, ObservationStands
        <3> QED
            BY <1>1, <1>2, <3>2, <3>3 DEF PermitsKept
    <2> QED
        BY <2>2, <2>3, <2>4
<1>12. CASE SnapshotFails(c)
    BY <1>3, <1>4, <1>12 DEF SnapshotFails, Refuses
<1> QED
    BY <1>5, <1>6, <1>7, <1>8, <1>9, <1>10, <1>11, <1>12 DEF CheckStep

LEMMA PermitsKeptStep ==
    ASSUME PermitsKept, [PermitNext]_permitVars
    PROVE  PermitsKept'
<1>1. CASE UNCHANGED permitVars
    <2>1. PermitTypes' /\ ActivationStands' /\ PinStays
        BY <1>1 DEF permitVars, PermitsKept, PermitTypes, ActivationStands, ActivationIsOne, PinStays
    <2> QED
        BY <1>1, <2>1, SnapshotsStay DEF permitVars
<1> QED
    BY <1>1, ActivationStep, WorldStep, SnapshotStep DEF PermitNext, CheckStep

(* Whatever the pin, the task and the session become between two reads: the activation is of  *)
(* one attempt, and a permit that passed its revalidation rests on what is current.         *)
LEMMA PermitsAreKept == PermitSpec => [](ActivationIsOne /\ PermitsAreCurrent)
<1>1. PermitsKept => ActivationIsOne /\ PermitsAreCurrent
    BY DEF PermitsKept, ActivationStands
<1> QED
    BY <1>1, PermitsKeptInit, PermitsKeptStep, PTL DEF PermitSpec

-----------------------------------------------------------------------------
(* The continuity ledger: the fold of a task and the segments of its directory. *)

(* Least members: a set of numbers has one, and a set of finite sets a smallest set. *)
LEMMA LeastNumber ==
    ASSUME NEW N \in SUBSET Nat, N # {}
    PROVE  \E n \in N : \A m \in N : n <= m
<1>1. PICK n \in N : \A m \in N : ~(<<m, n>> \in OpToRel(<, Nat))
    <2>1. IsWellFoundedOn(OpToRel(<, Nat), Nat)
        BY NatLessThanWellFounded
    <2> QED BY <2>1, WFMin, ZenonT(60)
<1>2. \A m \in N : ~(m < n)
    BY <1>1 DEF OpToRel
<1> QED
    BY <1>2

LEMMA LeastSet ==
    ASSUME NEW Z, Z # {}, \A T \in Z : IsFiniteSet(T)
    PROVE  \E T \in Z : \A U \in Z : Cardinality(T) <= Cardinality(U)
<1> DEFINE N == {Cardinality(T) : T \in Z}
<1>1. N \in SUBSET Nat /\ N # {}
    BY FS_CardinalityType
<1>2. PICK n \in N : \A m \in N : n <= m
    <2> HIDE DEF N
    <2> QED BY <1>1, LeastNumber
<1> QED
    BY <1>2

LEMMA IndexesAreFinite ==
    ASSUME NEW n \in Nat, NEW T \in SUBSET (1..n)
    PROVE  IsFiniteSet(T)
<1>1. IsFiniteSet(1..n)
    BY FS_Interval, SMT
<1> QED
    BY <1>1, FS_Subset

IsIndexSet(S) == \E n \in Nat : S \in SUBSET (1..n)

(* The greatest index of a set of indexes: one less of them without it. *)
LEMMA GreatestIndex ==
    ASSUME NEW n \in Nat, NEW T \in SUBSET (1..n), T # {}
    PROVE  /\ Max(T) \in T /\ \A i \in T : i <= Max(T)
           /\ IsFiniteSet(T) /\ IsFiniteSet(T \ {Max(T)})
           /\ Cardinality(T \ {Max(T)}) < Cardinality(T) /\ T \ {Max(T)} # T
<1> DEFINE N == {n - i : i \in T}
<1>1. N \in SUBSET Nat /\ N # {}
    <2>1. \A i \in T : n - i \in Nat
        BY SMT
    <2> QED BY <2>1
<1>2. PICK m \in N : \A k \in N : m <= k
    <2> HIDE DEF N
    <2> QED BY <1>1, LeastNumber
<1>3. PICK j \in T : m = n - j
    OBVIOUS
<1>4. \A i \in T : j >= i
    BY <1>2, <1>3
<1>5. Max(T) \in T /\ \A i \in T : Max(T) >= i
    BY <1>3, <1>4, ZenonT(30) DEF Max
<1>6. IsFiniteSet(T)
    BY IndexesAreFinite
<1>7. IsFiniteSet(T \ {Max(T)}) /\ Cardinality(T \ {Max(T)}) = Cardinality(T) - 1 /\ Cardinality(T) \in Nat
    BY <1>5, <1>6, FS_RemoveElement, FS_CardinalityType
<1> QED
    BY <1>5, <1>6, <1>7

-----------------------------------------------------------------------------
(* The fold of a history: the community modules choose a function on the sets of its indexes.  *)
FoldEvent(state, e) ==
    IF state.legal /\ Accepts(state, e) THEN Apply(state, e) ELSE [state EXCEPT !.legal = FALSE]
IsFolding(g, s, S) ==
    g = [T \in SUBSET S |-> IF T = {} THEN Empty ELSE FoldEvent(g[T \ {Max(T)}], s[Max(T)])]
FoldOver(s, S) == (CHOOSE g : IsFolding(g, s, S))[S]

LEMMA FoldIsChosen ==
    ASSUME NEW s
    PROVE  foldContinuity(s) = FoldOver(s, DOMAIN s)
BY DEF foldContinuity, FoldLeft, MapThenFoldSet, FoldOver, IsFolding, FoldEvent

Agree(s, t, S) == \A i \in S : s[i] = t[i]

LEMMA FoldingIsUnique ==
    ASSUME NEW S, IsIndexSet(S), NEW s, NEW t, Agree(s, t, S),
           NEW g, NEW h, IsFolding(g, s, S), IsFolding(h, t, S)
    PROVE  \A T \in SUBSET S : g[T] = h[T]
<1> DEFINE Z == {T \in SUBSET S : g[T] # h[T]}
<1>1. SUFFICES ASSUME Z # {} PROVE FALSE
    OBVIOUS
<1>2. \A T \in Z : IsFiniteSet(T)
    BY IndexesAreFinite DEF IsIndexSet
<1>3. PICK T \in Z : \A U \in Z : Cardinality(T) <= Cardinality(U)
    <2> HIDE DEF Z
    <2> QED BY <1>1, <1>2, LeastSet
<1>4. /\ g[T] = IF T = {} THEN Empty ELSE FoldEvent(g[T \ {Max(T)}], s[Max(T)])
      /\ h[T] = IF T = {} THEN Empty ELSE FoldEvent(h[T \ {Max(T)}], t[Max(T)])
    BY ZenonT(30) DEF IsFolding
<1>5. T # {}
    BY <1>4
<1>6. Max(T) \in T /\ T \ {Max(T)} \in SUBSET S /\ Cardinality(T \ {Max(T)}) < Cardinality(T)
      /\ Cardinality(T) \in Nat /\ Cardinality(T \ {Max(T)}) \in Nat
    BY <1>5, GreatestIndex, FS_CardinalityType DEF IsIndexSet
<1>7. T \ {Max(T)} \notin Z
    BY <1>3, <1>6
<1> QED
    BY <1>4, <1>5, <1>6, <1>7 DEF Agree

(* Over some indexes: nothing, or the event of the greatest upon the fold over the rest. *)
LEMMA FoldOverStep ==
    ASSUME NEW S, IsIndexSet(S), NEW s
    PROVE  FoldOver(s, S) = IF S = {} THEN Empty ELSE FoldEvent(FoldOver(s, S \ {Max(S)}), s[Max(S)])
<1> DEFINE Steps(T) == FoldOver(s, T) = IF T = {} THEN Empty
                                        ELSE FoldEvent(FoldOver(s, T \ {Max(T)}), s[Max(T)])
           Z == {T \in SUBSET S : ~Steps(T)}
<1>1. SUFFICES ASSUME Z # {} PROVE FALSE
    OBVIOUS
<1>2. \A T \in SUBSET S : IsFiniteSet(T)
    BY IndexesAreFinite DEF IsIndexSet
<1>3. PICK T \in Z : \A U \in Z : Cardinality(T) <= Cardinality(U)
    <2>1. \A U \in Z : IsFiniteSet(U)
        BY <1>2
    <2> HIDE DEF Z
    <2> QED BY <1>1, <2>1, LeastSet
<1>4. \A U \in SUBSET T : U # T => Steps(U)
    <2> TAKE U \in SUBSET T
    <2> HAVE U # T
    <2>1. Cardinality(U) < Cardinality(T) /\ Cardinality(U) \in Nat /\ Cardinality(T) \in Nat
        <3>1. IsFiniteSet(T) /\ IsFiniteSet(U)
            BY <1>2
        <3>2. Cardinality(U) <= Cardinality(T) /\ Cardinality(U) # Cardinality(T)
            BY <3>1, FS_Subset
        <3> QED BY <3>1, <3>2, FS_CardinalityType
    <2> QED BY <2>1, <1>3
<1> DEFINE Rest == T \ {Max(T)}
           G == [U \in SUBSET T |-> IF U = T /\ T # {} THEN FoldEvent(FoldOver(s, Rest), s[Max(T)])
                                    ELSE IF U = {} THEN Empty ELSE FoldOver(s, U)]
<1>5. IsFolding(G, s, T)
    <2>1. ASSUME NEW U \in SUBSET T
          PROVE  G[U] = IF U = {} THEN Empty ELSE FoldEvent(G[U \ {Max(U)}], s[Max(U)])
        <3>1. CASE U = {}
            BY <3>1
        <3>2. CASE U # {}
            <4>1. Max(U) \in U
                BY <3>2, GreatestIndex DEF IsIndexSet
            <4>2. U \ {Max(U)} # T /\ U \ {Max(U)} \in SUBSET T
                BY <4>1
            <4>3. FoldOver(s, {}) = Empty
                BY <1>4, <3>2
            <4>4. G[U \ {Max(U)}] = FoldOver(s, U \ {Max(U)})
                BY <4>2, <4>3
            <4>5. U # T => FoldOver(s, U) = FoldEvent(FoldOver(s, U \ {Max(U)}), s[Max(U)])
                BY <1>4, <3>2
            <4> QED BY <3>2, <4>4, <4>5
        <3> QED BY <3>1, <3>2
    <2> HIDE DEF G
    <2>2. G = [U \in SUBSET T |-> G[U]]
        BY DEF G
    <2> QED BY <2>1, <2>2 DEF IsFolding
<1> DEFINE C == CHOOSE g : IsFolding(g, s, T)
<1>6. IsFolding(C, s, T) /\ FoldOver(s, T) = C[T]
    BY <1>5 DEF FoldOver
<1> HIDE DEF C, G
<1>7. C[T] = G[T]
    <2>1. IsIndexSet(T) /\ T \in SUBSET T /\ Agree(s, s, T)
        BY DEF Agree, IsIndexSet
    <2> QED BY <1>5, <1>6, <2>1, FoldingIsUnique
<1>8. T # {} => Steps(T)
    BY <1>6, <1>7 DEF G
<1>9. T = {} => C[T] = Empty
    BY <1>6, Zenon DEF IsFolding
<1> QED
    BY <1>3, <1>6, <1>8, <1>9

LEMMA FoldOverAgrees ==
    ASSUME NEW S, IsIndexSet(S), NEW s, NEW t, Agree(s, t, S)
    PROVE  FoldOver(s, S) = FoldOver(t, S)
<1> DEFINE G(u) == [T \in SUBSET S |-> FoldOver(u, T)]
<1>1. ASSUME NEW u
      PROVE  IsFolding(G(u), u, S)
    <2>1. ASSUME NEW T \in SUBSET S
          PROVE  G(u)[T] = IF T = {} THEN Empty ELSE FoldEvent(G(u)[T \ {Max(T)}], u[Max(T)])
        <3>1. IsIndexSet(T) /\ T \ {Max(T)} \in SUBSET S
            BY DEF IsIndexSet
        <3> QED BY <3>1, FoldOverStep
    <2>2. G(u) = [T \in SUBSET S |-> G(u)[T]]
        OBVIOUS
    <2> HIDE DEF G
    <2> QED BY <2>1, <2>2 DEF IsFolding
<1>2. \A T \in SUBSET S : G(s)[T] = G(t)[T]
    <2> HIDE DEF G
    <2> QED BY <1>1, FoldingIsUnique
<1>3. G(s)[S] = FoldOver(s, S) /\ G(t)[S] = FoldOver(t, S)
    OBVIOUS
<1> QED
    BY <1>2, <1>3

(* A history folds as its beginning, and its last event upon that. *)
LEMMA FoldOfHistory ==
    /\ foldContinuity(<<>>) = Empty
    /\ \A E, s, e : s \in Seq(E) /\ e \in E => foldContinuity(Append(s, e)) = FoldEvent(foldContinuity(s), e)
<1>1. foldContinuity(<<>>) = Empty
    <2>1. DOMAIN <<>> = {} /\ IsIndexSet({})
        BY SMT DEF IsIndexSet
    <2> QED
        BY <2>1, FoldIsChosen, FoldOverStep
<1>2. ASSUME NEW E, NEW s \in Seq(E), NEW e \in E
      PROVE  foldContinuity(Append(s, e)) = FoldEvent(foldContinuity(s), e)
    <2> DEFINE n == Len(s)
               t == Append(s, e)
    <2>1. /\ n \in Nat /\ DOMAIN s = 1..n /\ DOMAIN t = 1..(n + 1) /\ t[n + 1] = e
          /\ \A i \in 1..n : t[i] = s[i]
        BY SMT
    <2> HIDE DEF n, t
    <2>2. Max(DOMAIN t) = n + 1 /\ DOMAIN t \ {n + 1} = DOMAIN s
        <3>1. n + 1 \in Nat /\ n + 1 \in DOMAIN t /\ DOMAIN t \in SUBSET (1..(n + 1))
            BY <2>1, SMT
        <3>2. Max(DOMAIN t) \in DOMAIN t /\ n + 1 <= Max(DOMAIN t)
            BY <3>1, GreatestIndex
        <3> QED
            BY <2>1, <3>2
    <2>3. IsIndexSet(DOMAIN s) /\ IsIndexSet(DOMAIN t) /\ DOMAIN t # {}
        <3>1. n + 1 \in Nat /\ n + 1 \in DOMAIN t
            BY <2>1, SMT
        <3> QED BY <2>1, <3>1 DEF IsIndexSet
    <2>4. FoldOver(t, DOMAIN t) = FoldEvent(FoldOver(t, DOMAIN s), e)
        BY <2>1, <2>2, <2>3, FoldOverStep
    <2>5. Agree(s, t, DOMAIN s)
        BY <2>1 DEF Agree
    <2>6. FoldOver(s, DOMAIN s) = FoldOver(t, DOMAIN s)
        BY <2>3, <2>5, FoldOverAgrees
    <2> QED
        BY <2>4, <2>6, FoldIsChosen DEF t
<1> QED
    BY <1>1, <1>2

-----------------------------------------------------------------------------
(* The segments one after another. *)
IsFlattening(f, segs, n) ==
    f = [i \in 1..n |-> IF i = 1 THEN segs[i] ELSE f[i - 1] \o segs[i]]
FlatTo(segs, n) == (CHOOSE f : IsFlattening(f, segs, n))[n]

LEMMA FlatIsChosen ==
    ASSUME NEW segs
    PROVE  FlattenSeq(segs) = IF Len(segs) = 0 THEN segs ELSE FlatTo(segs, Len(segs))
BY DEF FlattenSeq, FlatTo, IsFlattening

LEMMA FlattensAlike ==
    ASSUME NEW n \in Nat, NEW segs, NEW files, \A i \in 1..n : segs[i] = files[i],
           NEW f, NEW g, IsFlattening(f, segs, n), IsFlattening(g, files, n)
    PROVE  \A i \in 1..n : f[i] = g[i]
<1> DEFINE Z == {i \in 1..n : f[i] # g[i]}
<1>1. SUFFICES ASSUME Z # {} PROVE FALSE
    OBVIOUS
<1>2. PICK i \in Z : \A j \in Z : i <= j
    <2>1. Z \in SUBSET Nat
        BY SMT
    <2> HIDE DEF Z
    <2> QED BY <1>1, <2>1, LeastNumber
<1>3. /\ f[i] = IF i = 1 THEN segs[i] ELSE f[i - 1] \o segs[i]
      /\ g[i] = IF i = 1 THEN files[i] ELSE g[i - 1] \o files[i]
    BY ZenonT(30) DEF IsFlattening
<1>4. i # 1 => i - 1 \in 1..n /\ i - 1 < i
    BY SMT
<1>5. i # 1 => i - 1 \notin Z
    <2>1. i \in Int
        BY SMT
    <2> QED BY <1>2, <1>4, <2>1, SMT
<1> QED
    BY <1>3, <1>4, <1>5

LEMMA FlatStep ==
    ASSUME NEW segs
    PROVE  \A n \in Nat \ {0} : FlatTo(segs, n) = IF n = 1 THEN segs[1] ELSE FlatTo(segs, n - 1) \o segs[n]
<1> DEFINE Steps(n) == FlatTo(segs, n) = IF n = 1 THEN segs[1] ELSE FlatTo(segs, n - 1) \o segs[n]
           Z == {n \in Nat \ {0} : ~Steps(n)}
<1>1. SUFFICES ASSUME Z # {} PROVE FALSE
    OBVIOUS
<1>2. PICK n \in Z : \A m \in Z : n <= m
    <2>1. Z \in SUBSET Nat
        OBVIOUS
    <2> HIDE DEF Z
    <2> QED BY <1>1, <2>1, LeastNumber
<1>3. \A m \in 1..(n - 1) : Steps(m)
    <2> TAKE m \in 1..(n - 1)
    <2>1. m \in Nat \ {0} /\ ~(n <= m)
        BY SMT
    <2> QED BY <1>2, <2>1
<1> DEFINE G == [i \in 1..n |-> IF i = 1 THEN segs[1] ELSE FlatTo(segs, i - 1) \o segs[i]]
           C == CHOOSE f : IsFlattening(f, segs, n)
<1>4. IsFlattening(G, segs, n)
    <2>1. ASSUME NEW i \in 1..n
          PROVE  G[i] = IF i = 1 THEN segs[i] ELSE G[i - 1] \o segs[i]
        <3>1. i # 1 => i - 1 \in 1..(n - 1) /\ i - 1 \in 1..n
            BY SMT
        <3>2. i # 1 => Steps(i - 1)
            BY <1>3, <3>1
        <3>3. i # 1 => G[i - 1] = FlatTo(segs, i - 1)
            BY <3>1, <3>2
        <3> QED BY <3>3
    <2> HIDE DEF G
    <2>2. G = [i \in 1..n |-> G[i]]
        BY DEF G
    <2> QED BY <2>1, <2>2 DEF IsFlattening
<1>5. IsFlattening(C, segs, n) /\ FlatTo(segs, n) = C[n]
    BY <1>4 DEF FlatTo
<1>6. n \in 1..n
    BY SMT
<1>7. C[n] = G[n]
    <2> HIDE DEF C, G
    <2>1. \A i \in 1..n : segs[i] = segs[i]
        OBVIOUS
    <2>2. \A i \in 1..n : C[i] = G[i]
        BY <1>4, <1>5, FlattensAlike
    <2> QED BY <1>6, <2>2
<1>8. Steps(n)
    BY <1>5, <1>6, <1>7
<1> QED
    BY <1>8

LEMMA FlatNext ==
    ASSUME NEW segs, NEW n \in Nat \ {0}
    PROVE  FlatTo(segs, n + 1) = FlatTo(segs, n) \o segs[n + 1]
<1>1. PICK m \in Nat \ {0} : m = n + 1 /\ m # 1 /\ m - 1 = n
    BY SMT
<1>2. FlatTo(segs, m) = FlatTo(segs, m - 1) \o segs[m]
    BY <1>1, FlatStep, Zenon
<1> QED
    BY <1>1, <1>2

(* What the first segments say, two directories with the same first segments say. *)
LEMMA FlatOfTheSame ==
    ASSUME NEW segs, NEW files, NEW n \in Nat \ {0}, \A i \in 1..n : segs[i] = files[i]
    PROVE  FlatTo(segs, n) = FlatTo(files, n)
<1> DEFINE Z == {i \in 1..n : FlatTo(segs, i) # FlatTo(files, i)}
<1>1. SUFFICES ASSUME Z # {} PROVE FALSE
    BY SMT
<1>2. PICK i \in Z : \A j \in Z : i <= j
    <2>1. Z \in SUBSET Nat
        BY SMT
    <2> HIDE DEF Z
    <2> QED BY <1>1, <2>1, LeastNumber
<1>3. i \in Nat \ {0} /\ (i # 1 => i - 1 \in 1..n /\ ~(i <= i - 1))
    BY SMT
<1>4. i # 1 => FlatTo(segs, i - 1) = FlatTo(files, i - 1)
    BY <1>2, <1>3
<1>5. /\ FlatTo(segs, i) = IF i = 1 THEN segs[1] ELSE FlatTo(segs, i - 1) \o segs[i]
      /\ FlatTo(files, i) = IF i = 1 THEN files[1] ELSE FlatTo(files, i - 1) \o files[i]
    BY <1>3, FlatStep
<1>6. FlatTo(segs, i) = FlatTo(files, i)
    BY <1>4, <1>5
<1> QED
    BY <1>6

(* The segments of a directory, and one segment more. *)
LEMMA FlatOfSegments ==
    ASSUME NEW E, NEW segs \in Seq(Seq(E)), NEW events \in Seq(E)
    PROVE  /\ FlattenSeq(segs) \in Seq(E)
           /\ FlattenSeq(Append(segs, events)) = FlattenSeq(segs) \o events
           /\ FlattenSeq(Append(segs, events)) \in Seq(E)
<1> DEFINE F == Seq(E)
           n == Len(segs)
           files == Append(segs, events)
<1>1. /\ n \in Nat /\ Len(files) = n + 1 /\ n + 1 \in Nat \ {0} /\ files[n + 1] = events
      /\ \A i \in 1..n : segs[i] \in F /\ files[i] = segs[i]
      /\ n = 0 => segs = <<>>
    <2>1. segs \in Seq(F) /\ events \in F
        OBVIOUS
    <2> HIDE DEF F
    <2>2. n \in Nat /\ Len(files) = n + 1 /\ files[n + 1] = events /\ (n = 0 => segs = <<>>)
        BY <2>1, SMT
    <2>3. \A i \in 1..n : segs[i] \in F /\ files[i] = segs[i]
        BY <2>1, SMT
    <2>4. n + 1 \in Nat \ {0}
        BY <2>2, SMT
    <2> QED BY <2>2, <2>3, <2>4
<1>2. \A i \in 1..n : FlatTo(segs, i) \in F
    <2> DEFINE Z == {i \in 1..n : FlatTo(segs, i) \notin F}
    <2>1. SUFFICES ASSUME Z # {} PROVE FALSE
        OBVIOUS
    <2>2. PICK i \in Z : \A j \in Z : i <= j
        <3>1. Z \in SUBSET Nat
            BY SMT
        <3> HIDE DEF Z
        <3> QED BY <2>1, <3>1, LeastNumber
    <2> HIDE DEF n
    <2>3. i \in Nat \ {0} /\ (i # 1 => i - 1 \in 1..n /\ ~(i <= i - 1)) /\ (i = 1 => 1 \in 1..n)
        BY <1>1, SMT
    <2>4. FlatTo(segs, i) = IF i = 1 THEN segs[1] ELSE FlatTo(segs, i - 1) \o segs[i]
        BY <2>3, FlatStep
    <2>5. i # 1 => FlatTo(segs, i - 1) \in F
        BY <2>2, <2>3
    <2>6. \A s, t \in Seq(E) : s \o t \in Seq(E)
        BY SMT
    <2>7. FlatTo(segs, i) \in F
        BY <1>1, <2>3, <2>4, <2>5, <2>6
    <2> QED
        BY <2>7
<1>3. n # 0 => n \in 1..n /\ n + 1 # 1 /\ n + 1 - 1 = n /\ n \in Nat \ {0}
    BY <1>1, SMT
<1>4. FlattenSeq(segs) = IF n = 0 THEN <<>> ELSE FlatTo(segs, n)
    BY <1>1, FlatIsChosen
<1>5. FlattenSeq(segs) \in Seq(E)
    <2>1. <<>> \in Seq(E)
        BY SMT
    <2> QED BY <1>2, <1>3, <1>4, <2>1
<1>6. FlattenSeq(files) = FlatTo(files, n + 1)
    <2> HIDE DEF files, n
    <2>1. n + 1 # 0
        BY <1>1, SMT
    <2> QED BY <1>1, <2>1, FlatIsChosen
<1>7. CASE n = 0
    <2>1. FlatTo(files, 1) = files[1]
        <3>1. 1 \in Nat \ {0}
            BY SMT
        <3> QED BY <3>1, FlatStep
    <2>2. <<>> \o events = events
        BY SMT
    <2> QED
        BY <1>1, <1>4, <1>5, <1>6, <1>7, <2>1, <2>2
<1>8. CASE n # 0
    <2> HIDE DEF files, n
    <2>1. FlatTo(files, n + 1) = FlatTo(files, n) \o files[n + 1]
        BY <1>3, <1>8, FlatNext
    <2>2. FlatTo(files, n) = FlatTo(segs, n)
        BY <1>1, <1>3, <1>8, FlatOfTheSame
    <2>3. \A s, t \in Seq(E) : s \o t \in Seq(E)
        BY SMT
    <2> QED
        BY <1>1, <1>4, <1>5, <1>6, <1>8, <2>1, <2>2, <2>3 DEF files
<1> QED
    BY <1>7, <1>8

-----------------------------------------------------------------------------
(* What an event makes of a state. *)
StateFields == {"legal", "opened", "decisions", "obligation", "claim", "exception", "operation", "proof"}
IsState(state) == state = [f \in StateFields |-> state[f]] /\ state.legal \in BOOLEAN

LEMMA EventUponState ==
    ASSUME NEW state, IsState(state), NEW e
    PROVE  /\ IsState(FoldEvent(state, e))
           /\ FoldEvent(state, e).legal => state.legal
           /\ FoldEvent(state, e).proof \in {state.proof, e.proof}
           /\ FoldEvent(state, e).legal /\ state.proof # 0 /\ e.proof # state.proof
              /\ e.kind \in NoteKinds \cup {"consequence.observed"} =>
                 /\ FoldEvent(state, e).proof = state.proof
                 /\ FoldEvent(state, e).operation = state.operation
<1> DEFINE next == FoldEvent(state, e)
<1>1. \A f \in StateFields : \A v :
         /\ [state EXCEPT ![f] = v] = [h \in StateFields |-> IF h = f THEN v ELSE state[h]]
    BY DEF IsState
<1>2. CASE ~(state.legal /\ Accepts(state, e))
    <2>1. next = [state EXCEPT !["legal"] = FALSE]
        BY <1>2 DEF FoldEvent
    <2>2. next = [h \in StateFields |-> IF h = "legal" THEN FALSE ELSE state[h]]
        BY <1>1, <2>1 DEF StateFields
    <2> HIDE DEF next
    <2>3. next.legal = FALSE /\ next.proof = state.proof
        BY <2>2 DEF StateFields
    <2>4. IsState(next)
        BY <2>2, <2>3 DEF IsState
    <2> QED
        BY <2>3, <2>4 DEF next
<1>3. CASE state.legal /\ Accepts(state, e)
    <2>1. next = Apply(state, e)
        BY <1>3 DEF FoldEvent
    <2>2. CASE e.kind \in NoteKinds \ {"consequence.noted"}
        <3>1. PICK f, v : /\ f \in {"opened", "decisions", "obligation", "claim", "exception"}
                              /\ next = [state EXCEPT ![f] = v]
            <4>1. e.kind \in {"decision.recorded", "decision.superseded"} =>
                    \E v : next = [state EXCEPT !["decisions"] = v]
                BY <2>1 DEF Apply
            <4>2. e.kind \in {"obligation.opened", "obligation.transitioned"} =>
                    next = [state EXCEPT !["obligation"] = e.to]
                BY <2>1 DEF Apply
            <4>3. e.kind \in {"claim.recorded", "claim.updated"} => next = [state EXCEPT !["claim"] = e.to]
                BY <2>1 DEF Apply
            <4>4. e.kind \in {"exception.opened", "exception.resolved"} =>
                    next = [state EXCEPT !["exception"] = e.to]
                BY <2>1 DEF Apply
            <4>5. e.kind = "task.opened" => next = [state EXCEPT !["opened"] = TRUE]
                BY <2>1 DEF Apply
            <4> HIDE DEF next
            <4> QED
                BY <2>2, <4>1, <4>2, <4>3, <4>4, <4>5 DEF NoteKinds
        <3> HIDE DEF next
        <3>2. next = [h \in StateFields |-> IF h = f THEN v ELSE state[h]]
            BY <1>1, <3>1 DEF StateFields
        <3>3. next.legal = state.legal /\ next.proof = state.proof /\ next.operation = state.operation
            <4>1. f \notin {"legal", "proof", "operation"}
                BY <3>1
            <4> QED BY <3>2, <4>1 DEF StateFields
        <3>4. IsState(next)
            BY <3>2, <3>3 DEF IsState
        <3> QED
            BY <1>3, <3>3, <3>4 DEF next
    <2>3. CASE e.kind \notin NoteKinds \ {"consequence.noted"}
        <3>1. next = [[state EXCEPT !["operation"] = e.to] EXCEPT !["proof"] = e.proof]
            BY <2>1, <2>3 DEF Apply, NoteKinds
        <3>2. next = [h \in StateFields |-> IF h = "operation" THEN e.to ELSE IF h = "proof" THEN e.proof
                                            ELSE state[h]]
            BY <3>1 DEF StateFields, IsState
        <3>3. e.kind \in {"consequence.noted", "consequence.observed"} /\ state.proof # 0 => e.proof = state.proof
            BY <1>3 DEF Accepts
        <3> HIDE DEF next
        <3>4. next.legal = state.legal /\ next.proof = e.proof
            BY <3>2 DEF StateFields
        <3>5. IsState(next)
            BY <3>2, <3>4 DEF IsState
        <3> QED
            BY <1>3, <2>3, <3>3, <3>4, <3>5 DEF next, NoteKinds
    <2> QED
        BY <2>2, <2>3
<1> QED
    BY <1>2, <1>3

-----------------------------------------------------------------------------
(* A history, and what is folded upon it: event by event. *)
LEMMA EventByEvent ==
    ASSUME NEW E, NEW history \in Seq(E), NEW events \in Seq(E)
    PROVE  /\ history \o SubSeq(events, 1, 0) = history
           /\ history \o SubSeq(events, 1, Len(events)) = history \o events
           /\ \A j \in 0..Len(events) : history \o SubSeq(events, 1, j) \in Seq(E)
           /\ \A j \in 1..Len(events) :
                 /\ events[j] \in E
                 /\ foldContinuity(history \o SubSeq(events, 1, j))
                      = FoldEvent(foldContinuity(history \o SubSeq(events, 1, j - 1)), events[j])
<1>1. /\ SubSeq(events, 1, 0) = <<>> /\ SubSeq(events, 1, Len(events)) = events /\ Len(events) \in Nat
      /\ history \o <<>> = history
    BY SMT
<1>2. ASSUME NEW j \in 0..Len(events)
      PROVE  history \o SubSeq(events, 1, j) \in Seq(E)
    <2>1. SubSeq(events, 1, j) \in Seq(E)
        BY SMT
    <2> QED BY <2>1, SMT
<1>3. ASSUME NEW j \in 1..Len(events)
      PROVE  /\ events[j] \in E /\ j - 1 \in 0..Len(events)
             /\ history \o SubSeq(events, 1, j) = Append(history \o SubSeq(events, 1, j - 1), events[j])
    <2>1. events[j] \in E /\ j - 1 \in 0..Len(events)
        BY SMT
    <2>2. SubSeq(events, 1, j) = Append(SubSeq(events, 1, j - 1), events[j])
        BY <2>1, SMT
    <2>3. \A s \in Seq(E), e \in E : history \o Append(s, e) = Append(history \o s, e)
        BY SMT
    <2>4. SubSeq(events, 1, j - 1) \in Seq(E)
        BY <2>1, SMT
    <2> QED
        BY <2>1, <2>2, <2>3, <2>4
<1>4. ASSUME NEW j \in 1..Len(events)
      PROVE  foldContinuity(history \o SubSeq(events, 1, j))
                = FoldEvent(foldContinuity(history \o SubSeq(events, 1, j - 1)), events[j])
    BY <1>2, <1>3, FoldOfHistory
<1> QED
    BY <1>1, <1>2, <1>3, <1>4

LEMMA FoldsAreStates ==
    ASSUME NEW E, NEW history \in Seq(E)
    PROVE  IsState(foldContinuity(history))
<1> DEFINE At(j) == foldContinuity(<<>> \o SubSeq(history, 1, j))
           Z == {j \in 0..Len(history) : ~IsState(At(j))}
<1>1. /\ <<>> \in Seq(E) /\ <<>> \o history = history /\ Len(history) \in Nat /\ Z \in SUBSET Nat
      /\ 0 \in 0..Len(history) /\ Len(history) \in 0..Len(history)
    BY SMT
<1>2. /\ At(0) = foldContinuity(<<>>) /\ At(Len(history)) = foldContinuity(<<>> \o history)
      /\ \A j \in 1..Len(history) : At(j) = FoldEvent(At(j - 1), history[j])
    <2> DEFINE none == <<>>
    <2>1. none \in Seq(E)
        BY <1>1
    <2> HIDE DEF none
    <2>2. /\ none \o SubSeq(history, 1, 0) = none
          /\ none \o SubSeq(history, 1, Len(history)) = none \o history
          /\ \A j \in 1..Len(history) :
                foldContinuity(none \o SubSeq(history, 1, j))
                   = FoldEvent(foldContinuity(none \o SubSeq(history, 1, j - 1)), history[j])
        BY <2>1, EventByEvent
    <2> QED BY <2>2 DEF none
<1>3. IsState(foldContinuity(<<>>))
    <2>1. foldContinuity(<<>>) = Empty
        BY FoldOfHistory
    <2>2. IsState(Empty)
        BY DEF IsState, Empty, StateFields
    <2> QED BY <2>1, <2>2
<1> HIDE DEF At
<1>4. Z = {}
    <2> SUFFICES ASSUME Z # {} PROVE FALSE
        OBVIOUS
    <2>1. PICK j \in Z : \A i \in Z : j <= i
        <3> HIDE DEF Z
        <3> QED BY <1>1, LeastNumber
    <2>2. j # 0
        BY <1>2, <1>3
    <2>3. j \in 1..Len(history) /\ j - 1 \in 0..Len(history) /\ ~(j <= j - 1)
        BY <1>1, <2>2, SMT
    <2>4. IsState(At(j - 1))
        BY <2>1, <2>3
    <2> QED
        BY <1>2, <2>3, <2>4, EventUponState
<1> QED
    BY <1>1, <1>2, <1>4

(* What events upon a history leave of it: when the whole is legal, it was; the proof comes   *)
(* from the history or from one of them; and one of a receipt that is none of theirs stays.   *)
LEMMA EventsUponHistory ==
    ASSUME NEW E, NEW history \in Seq(E), NEW events \in Seq(E)
    PROVE  LET before == foldContinuity(history)
               later    == foldContinuity(history \o events)
           IN  /\ later.legal => before.legal
               /\ later.proof \in {before.proof} \cup {events[i].proof : i \in DOMAIN events}
               /\ /\ later.legal /\ before.proof # 0
                  /\ \A i \in DOMAIN events : /\ events[i].proof # before.proof
                                              /\ events[i].kind \in NoteKinds \cup {"consequence.observed"}
                  => later.proof = before.proof /\ later.operation = before.operation
<1> DEFINE At(j) == foldContinuity(history \o SubSeq(events, 1, j))
           n == Len(events)
           before == foldContinuity(history)
           Foreign == \A i \in 1..n : /\ events[i].proof # before.proof
                                     /\ events[i].kind \in NoteKinds \cup {"consequence.observed"}
           Fine(j) == /\ At(j).legal => before.legal
                      /\ At(j).proof \in {before.proof} \cup {events[i].proof : i \in 1..n}
                      /\ At(j).legal /\ before.proof # 0 /\ Foreign =>
                            At(j).proof = before.proof /\ At(j).operation = before.operation
           Z == {j \in 0..n : ~Fine(j)}
<1>1. n \in Nat /\ DOMAIN events = 1..n /\ 0 \in 0..n /\ n \in 0..n
    BY SMT
<1>2. /\ At(0) = before /\ At(n) = foldContinuity(history \o events)
      /\ \A j \in 1..n : At(j) = FoldEvent(At(j - 1), events[j])
    BY EventByEvent
<1>3. \A j \in 0..n : IsState(At(j))
    BY EventByEvent, FoldsAreStates
<1> HIDE DEF At, n, before
<1>4. Z = {}
    <2> SUFFICES ASSUME Z # {} PROVE FALSE
        OBVIOUS
    <2>1. PICK j \in Z : \A i \in Z : j <= i
        <3>1. Z \in SUBSET Nat
            BY SMT
        <3> HIDE DEF Z
        <3> QED BY <3>1, LeastNumber
    <2>2. j # 0
        BY <1>2
    <2>3. j \in 1..n /\ j - 1 \in 0..n /\ ~(j <= j - 1)
        BY <1>1, <2>2, SMT
    <2>4. Fine(j - 1) /\ IsState(At(j - 1)) /\ At(j) = FoldEvent(At(j - 1), events[j])
        BY <1>2, <1>3, <2>1, <2>3
    <2>5. /\ At(j).legal => At(j - 1).legal
          /\ At(j).proof \in {At(j - 1).proof, events[j].proof}
          /\ At(j).legal /\ At(j - 1).proof # 0 /\ events[j].proof # At(j - 1).proof
             /\ events[j].kind \in NoteKinds \cup {"consequence.observed"} =>
                At(j).proof = At(j - 1).proof /\ At(j).operation = At(j - 1).operation
        <3>1. PICK state, e : state = At(j - 1) /\ e = events[j]
            OBVIOUS
        <3>2. IsState(state) /\ At(j) = FoldEvent(state, e)
            BY <2>4, <3>1
        <3>3. /\ FoldEvent(state, e).legal => state.legal
              /\ FoldEvent(state, e).proof \in {state.proof, e.proof}
              /\ FoldEvent(state, e).legal /\ state.proof # 0 /\ e.proof # state.proof
                 /\ e.kind \in NoteKinds \cup {"consequence.observed"} =>
                    /\ FoldEvent(state, e).proof = state.proof
                    /\ FoldEvent(state, e).operation = state.operation
            <4> HIDE <2>4
            <4> QED BY <3>2, EventUponState
        <3> QED BY <3>1, <3>2, <3>3, Zenon
    <2>6. Fine(j)
        BY <2>3, <2>4, <2>5
    <2> QED
        BY <2>1, <2>6
<1>5. Fine(n)
    BY <1>1, <1>4
<1> QED
    BY <1>1, <1>2, <1>5 DEF before

-----------------------------------------------------------------------------
(* What is in a directory: its history folds, the proof it left is one that was imported, and   *)
(* what a proof said in the past it says now.                                                *)
LedgerEvents ==
    Notes \cup {Event("consequence.observed", 1, state, r) : state \in LedgerStates, r \in DOMAIN Receipts}

SegmentsStand(files) ==
    \A k \in DOMAIN files :
        LET before == Folded(SubSeq(files, 1, k))
            later    == Folded(files)
        IN before.proof # 0 =>
              /\ later.proof = before.proof
              /\ nextSafeAction(before) = "reconcile-before-retry" =>
                    nextSafeAction(later) = "reconcile-before-retry"

DirectoryKept(files) ==
    /\ files # <<>> => Folded(files).legal
    /\ Folded(files).proof \in Imported(files) \cup {0}
    /\ SegmentsStand(files)

(* The next segment fits: the history with it folds, and no receipt of it is imported already. *)
SegmentsFit(files, events) ==
    /\ foldContinuity(FlattenSeq(files) \o events).legal
    /\ \A i \in DOMAIN events : events[i].proof \notin Imported(files)

LEMMA KnownKinds ==
    \A e \in LedgerEvents : e.kind \in NoteKinds \cup {"consequence.observed"}
BY ContinuityAssumption DEF LedgerEvents, Event

LEMMA ReceiptsAreEvents ==
    \A r \in DOMAIN Receipts : ObservedEvents(r) \in Seq(LedgerEvents)
<1> SUFFICES ASSUME NEW r \in DOMAIN Receipts PROVE ObservedEvents(r) \in Seq(LedgerEvents)
    OBVIOUS
<1>1. Receipts[r] \in Seq(LedgerStates)
    BY ContinuityAssumption, SMT
<1>2. /\ Len(Receipts[r]) \in Nat /\ DOMAIN Receipts[r] = 1..Len(Receipts[r])
      /\ \A i \in 1..Len(Receipts[r]) : Receipts[r][i] \in LedgerStates
    BY <1>1, SMT
<1>3. \A i \in 1..Len(Receipts[r]) : Event("consequence.observed", 1, Receipts[r][i], r) \in LedgerEvents
    BY <1>2 DEF LedgerEvents
<1>4. \A n \in Nat : \A f : (\A i \in 1..n : f[i] \in LedgerEvents) => [i \in 1..n |-> f[i]] \in Seq(LedgerEvents)
    BY SMT
<1> DEFINE f == [i \in DOMAIN Receipts[r] |-> Event("consequence.observed", 1, Receipts[r][i], r)]
<1>5. \A i \in 1..Len(Receipts[r]) : f[i] \in LedgerEvents
    BY <1>2, <1>3
<1>6. f = [i \in 1..Len(Receipts[r]) |-> f[i]]
    BY <1>2
<1> HIDE DEF f
<1>7. f \in Seq(LedgerEvents)
    BY <1>2, <1>4, <1>5, <1>6
<1> QED
    BY <1>7 DEF f, ObservedEvents

LEMMA OneSegmentMore ==
    ASSUME NEW files \in Seq(Seq(LedgerEvents)), NEW events \in Seq(LedgerEvents),
           DirectoryKept(files), SegmentsFit(files, events)
    PROVE  DirectoryKept(Append(files, events))
<1> DEFINE more == Append(files, events)
           n == Len(files)
           E == LedgerEvents
           F == Seq(E)
           later == Folded(files)
           then == Folded(more)
<1>1. /\ n \in Nat /\ DOMAIN files = 1..n /\ DOMAIN more = 1..(n + 1)
      /\ \A i \in 1..n : more[i] = files[i] /\ SubSeq(more, 1, i) = SubSeq(files, 1, i)
      /\ more[n + 1] = events /\ SubSeq(more, 1, n + 1) = more
    <2>1. files \in Seq(F) /\ events \in F
        OBVIOUS
    <2> HIDE DEF F
    <2>2. /\ n \in Nat /\ DOMAIN files = 1..n /\ DOMAIN more = 1..(n + 1) /\ Len(more) = n + 1
          /\ more[n + 1] = events /\ more \in Seq(F)
          /\ \A i \in 1..n : more[i] = files[i]
        BY <2>1, SMT
    <2>3. SubSeq(more, 1, n + 1) = more
        BY <2>2, SMT
    <2>4. \A i \in 1..n : SubSeq(more, 1, i) = SubSeq(files, 1, i)
        BY <2>1, SMT
    <2> QED BY <2>2, <2>3, <2>4
<1>2. then = foldContinuity(FlattenSeq(files) \o events) /\ FlattenSeq(files) \in Seq(E)
    BY FlatOfSegments DEF Folded
<1>3. then.legal /\ \A i \in DOMAIN events : events[i].proof \notin Imported(files)
    BY <1>2 DEF SegmentsFit
<1> HIDE DEF n, more
<1>4. Imported(more) = Imported(files) \cup ({events[i].proof : i \in DOMAIN events} \ {0})
    <2>1. n + 1 \in 1..(n + 1) /\ 1..(n + 1) = 1..n \cup {n + 1}
        BY <1>1, SMT
    <2> DEFINE Proofs(s) == {s[j].proof : j \in DOMAIN s}
               Of(s) == UNION {Proofs(s[i]) : i \in DOMAIN s}
    <2>2. Imported(more) = Of(more) \ {0} /\ Imported(files) = Of(files) \ {0}
        BY DEF Imported
    <2>3. Of(more) = Of(files) \cup Proofs(events)
        <3>1. \A i \in DOMAIN files : Proofs(more[i]) = Proofs(files[i]) /\ i \in DOMAIN more
            BY <1>1, <2>1
        <3>2. n + 1 \in DOMAIN more /\ Proofs(more[n + 1]) = Proofs(events)
            BY <1>1, <2>1
        <3>3. \A i \in DOMAIN more : i \in DOMAIN files \/ i = n + 1
            BY <1>1, <2>1
        <3> HIDE DEF Proofs
        <3> QED BY <3>1, <3>2, <3>3
    <2> QED
        BY <2>2, <2>3
<1>5. /\ then.proof \in {later.proof} \cup {events[i].proof : i \in DOMAIN events}
      /\ later.proof # 0 /\ (\A i \in DOMAIN events : events[i].proof # later.proof) =>
            then.proof = later.proof /\ then.operation = later.operation
    <2>1. PICK history \in Seq(E) : history = FlattenSeq(files)
        BY <1>2
    <2>2. later = foldContinuity(history) /\ then = foldContinuity(history \o events)
        BY <1>2, <2>1 DEF Folded
    <2>3. \A i \in DOMAIN events : events[i].kind \in NoteKinds \cup {"consequence.observed"}
        <3>1. \A i \in DOMAIN events : events[i] \in E
            BY SMT
        <3> QED BY <3>1, KnownKinds
    <2>4. events \in Seq(E)
        OBVIOUS
    <2> HIDE DEF E, later, then
    <2>5. LET before == foldContinuity(history)
              after  == foldContinuity(history \o events)
          IN  /\ after.proof \in {before.proof} \cup {events[i].proof : i \in DOMAIN events}
              /\ /\ after.legal /\ before.proof # 0
                 /\ \A i \in DOMAIN events : /\ events[i].proof # before.proof
                                             /\ events[i].kind \in NoteKinds \cup {"consequence.observed"}
                 => after.proof = before.proof /\ after.operation = before.operation
        BY <2>4, EventsUponHistory
    <2> QED
        BY <1>3, <2>2, <2>3, <2>5
<1> HIDE DEF later, then
<1>6. later.proof # 0 => then.proof = later.proof /\ then.operation = later.operation
    BY <1>3, <1>5 DEF DirectoryKept, later
<1>7. then.proof \in Imported(more) \cup {0}
    BY <1>4, <1>5 DEF DirectoryKept, later
<1>8. later.proof # 0 /\ nextSafeAction(later) = "reconcile-before-retry" => nextSafeAction(then) = "reconcile-before-retry"
    BY <1>6 DEF nextSafeAction
<1>9. ASSUME NEW k \in DOMAIN more, Folded(SubSeq(more, 1, k)).proof # 0
      PROVE  /\ then.proof = Folded(SubSeq(more, 1, k)).proof
             /\ nextSafeAction(Folded(SubSeq(more, 1, k))) = "reconcile-before-retry" =>
                   nextSafeAction(then) = "reconcile-before-retry"
    <2>1. CASE k \in DOMAIN files
        <3>1. SubSeq(more, 1, k) = SubSeq(files, 1, k)
            BY <1>1, <2>1
        <3> DEFINE before == Folded(SubSeq(files, 1, k))
        <3>2. before.proof # 0 =>
                 /\ later.proof = before.proof
                 /\ nextSafeAction(before) = "reconcile-before-retry" =>
                       nextSafeAction(later) = "reconcile-before-retry"
            BY <2>1 DEF DirectoryKept, SegmentsStand, later
        <3>3. Folded(SubSeq(more, 1, k)) = before
            BY <3>1
        <3> HIDE DEF before
        <3>4. before.proof # 0
            BY <1>9, <3>3
        <3>5. then.proof = before.proof
            BY <1>6, <3>2, <3>4
        <3>6. nextSafeAction(before) = "reconcile-before-retry" => nextSafeAction(then) = "reconcile-before-retry"
            BY <1>8, <3>2, <3>4
        <3> QED
            BY <3>3, <3>5, <3>6, Zenon
    <2>2. CASE k \notin DOMAIN files
        <3>1. k = n + 1
            BY <1>1, <2>2, SMT
        <3>2. SubSeq(more, 1, k) = more
            BY <1>1, <3>1
        <3>3. Folded(SubSeq(more, 1, k)) = then
            BY <3>2 DEF then
        <3> QED
            BY <3>3, Zenon
    <2> QED
        BY <2>1, <2>2
<1>10. SegmentsStand(more)
    BY <1>9 DEF SegmentsStand, then
<1> QED
    BY <1>3, <1>7, <1>10 DEF DirectoryKept, then, more

-----------------------------------------------------------------------------
(* The agents beside each other: one holds the lock and knows what is in the directory. *)
AppendStages == {"away", "proposed", "locked", "checked", "written", "renamed"}
Holding == {"locked", "checked", "written", "renamed"}

ContinuityTypes ==
    /\ segments \in Seq(Seq(LedgerEvents)) /\ writerLock \in BOOLEAN /\ temporary \in BOOLEAN
    /\ agents \in [Agents -> [stage : AppendStages, cursor : Nat, base : Nat, events : Seq(LedgerEvents)]]

OneWriter ==
    \A a \in Agents : agents[a].stage \in Holding =>
        writerLock /\ \A b \in Agents : agents[b].stage \in Holding => b = a

CheckedFits ==
    \A a \in Agents : agents[a].stage \in {"checked", "written"} =>
        agents[a].base = Len(segments) /\ SegmentsFit(segments, agents[a].events)

TemporaryHidden ==
    temporary => writerLock /\ \A a \in Agents : agents[a].stage \notin {"locked", "checked", "renamed"}

ContinuityKept == ContinuityTypes /\ OneWriter /\ CheckedFits /\ TemporaryHidden /\ DirectoryKept(segments)

LEMMA ContinuityKeptInit == ContinuityInit => ContinuityKept
<1> SUFFICES ASSUME ContinuityInit PROVE ContinuityKept
    OBVIOUS
<1>1. ContinuityTypes
    <2>1. <<>> \in Seq(LedgerEvents) /\ <<>> \in Seq(Seq(LedgerEvents))
        BY SMT
    <2> QED BY <2>1 DEF ContinuityInit, ContinuityTypes, Away, AppendStages
<1>2. OneWriter /\ CheckedFits /\ TemporaryHidden
    BY DEF ContinuityInit, OneWriter, CheckedFits, TemporaryHidden, Away, Holding
<1>3. DirectoryKept(<<>>)
    <2>1. Folded(<<>>) = Empty
        BY FlatIsChosen, FoldOfHistory, SMT DEF Folded
    <2>2. Empty.proof = 0
        BY DEF Empty
    <2>3. SegmentsStand(<<>>)
        BY DEF SegmentsStand
    <2> QED BY <2>1, <2>2, <2>3 DEF DirectoryKept
<1> QED
    BY <1>1, <1>2, <1>3 DEF ContinuityInit, ContinuityKept

LEMMA AppendWrites ==
    ASSUME NEW F, NEW files \in Seq(F), NEW events \in F
    PROVE  Append(files, events) = [i \in 1..Len(files) + 1 |-> IF i \in DOMAIN files THEN files[i] ELSE events]
<1> DEFINE more == Append(files, events)
<1>1. /\ Len(files) \in Nat /\ DOMAIN files = 1..Len(files) /\ more \in Seq(F) /\ Len(more) = Len(files) + 1
      /\ \A i \in 1..Len(files) : more[i] = files[i]
      /\ more[Len(files) + 1] = events
    BY SMT
<1> HIDE DEF more
<1>2. more = [i \in 1..Len(files) + 1 |-> more[i]]
    BY <1>1, SeqDef
<1>3. \A i \in 1..Len(files) + 1 : more[i] = IF i \in DOMAIN files THEN files[i] ELSE events
    <2>1. \A i \in 1..Len(files) + 1 : i \in 1..Len(files) \/ (i = Len(files) + 1 /\ i \notin 1..Len(files))
        BY <1>1, SMT
    <2> QED BY <1>1, <2>1
<1> QED
    BY <1>2, <1>3 DEF more

(* One agent moves, and takes or keeps a stage it may have.                                  *)
LEMMA AgentMoves ==
    ASSUME ContinuityTypes, NEW a \in Agents, NEW c,
           c \in [stage : AppendStages, cursor : Nat, base : Nat, events : Seq(LedgerEvents)], Set(a, c)
    PROVE  /\ agents' \in [Agents -> [stage : AppendStages, cursor : Nat, base : Nat, events : Seq(LedgerEvents)]]
           /\ agents'[a] = c /\ \A b \in Agents \ {a} : agents'[b] = agents[b]
BY DEF ContinuityTypes, Set

LEMMA AwayIsAnAgent == Away \in [stage : AppendStages, cursor : Nat, base : Nat, events : Seq(LedgerEvents)]
<1>1. <<>> \in Seq(LedgerEvents)
    BY SMT
<1> QED
    BY <1>1 DEF Away, AppendStages

(* An agent that goes away, and leaves the directory as it is.  Its lock goes with it only from *)
(* where no temporary segment lies.                                                         *)
LEMMA GoesAway ==
    ASSUME ContinuityKept, NEW a \in Agents, Set(a, Away), UNCHANGED <<segments, temporary>>,
           \/ UNCHANGED writerLock
           \/ writerLock' = FALSE /\ agents[a].stage \in {"locked", "checked", "renamed"}
    PROVE  ContinuityKept'
<1>1. /\ agents' \in [Agents -> [stage : AppendStages, cursor : Nat, base : Nat, events : Seq(LedgerEvents)]]
      /\ agents'[a] = Away /\ \A b \in Agents \ {a} : agents'[b] = agents[b]
    BY AgentMoves, AwayIsAnAgent DEF ContinuityKept
<1>2. Away.stage = "away"
    BY DEF Away
<1>3. ContinuityTypes'
    BY <1>1 DEF ContinuityKept, ContinuityTypes
<1>4. OneWriter'
    <2> SUFFICES ASSUME NEW b \in Agents, agents'[b].stage \in Holding
                 PROVE  writerLock' /\ \A d \in Agents : agents'[d].stage \in Holding => d = b
        BY DEF OneWriter
    <2>1. b # a /\ agents[b].stage \in Holding
        BY <1>1, <1>2 DEF Holding
    <2>2. writerLock /\ \A d \in Agents : agents[d].stage \in Holding => d = b
        BY <2>1 DEF ContinuityKept, OneWriter
    <2>3. agents[a].stage \notin Holding
        BY <2>1, <2>2
    <2> QED
        BY <1>1, <1>2, <2>1, <2>2, <2>3 DEF Holding
<1>5. CheckedFits'
    BY <1>1, <1>2 DEF ContinuityKept, CheckedFits
<1>6. TemporaryHidden'
    BY <1>1, <1>2 DEF ContinuityKept, TemporaryHidden
<1> QED
    BY <1>3, <1>4, <1>5, <1>6 DEF ContinuityKept

(* A step of one agent, whatever it is.                                                     *)
LEMMA ContinuityKeptStep ==
    ASSUME ContinuityKept, [ContinuityNext]_continuityVars
    PROVE  ContinuityKept'
<1> DEFINE Agent == [stage : AppendStages, cursor : Nat, base : Nat, events : Seq(LedgerEvents)]
<1>1. CASE UNCHANGED continuityVars
    BY <1>1 DEF continuityVars, ContinuityKept, ContinuityTypes, OneWriter, CheckedFits, TemporaryHidden,
                DirectoryKept, SegmentsStand, SegmentsFit
<1> SUFFICES ASSUME NEW a \in Agents,
                    \/ Propose(a) \/ TakeWriterLock(a) \/ CheckAppend(a) \/ WriteSegment(a)
                    \/ RenameSegment(a) \/ ReleaseWriterLock(a) \/ AgentDies(a)
             PROVE  ContinuityKept'
    BY <1>1 DEF ContinuityNext
<1> USE AwayIsAnAgent
<1>2. /\ ContinuityTypes /\ OneWriter /\ CheckedFits /\ TemporaryHidden /\ DirectoryKept(segments)
      /\ agents[a] \in Agent /\ Len(segments) \in Nat
    <2>1. ContinuityTypes
        BY DEF ContinuityKept
    <2>2. Len(segments) \in Nat
        <3> DEFINE F == Seq(LedgerEvents)
        <3>1. segments \in Seq(F)
            BY <2>1 DEF ContinuityTypes
        <3> HIDE DEF F
        <3> QED BY <3>1, SMT
    <2> QED BY <2>1, <2>2 DEF ContinuityKept, ContinuityTypes
<1>3. ASSUME NEW c \in Agent, Set(a, c)
      PROVE  agents' \in [Agents -> Agent] /\ agents'[a] = c /\ \A b \in Agents \ {a} : agents'[b] = agents[b]
    BY <1>2, <1>3, AgentMoves
<1>4. CASE Propose(a)
    <2>1. PICK events : /\ events \in {<<e>> : e \in Notes} \cup {ObservedEvents(r) : r \in DOMAIN Receipts}
                        /\ Set(a, [Away EXCEPT !.stage = "proposed", !.cursor = Len(segments), !.events = events])
        BY <1>4 DEF Propose
    <2>2. events \in Seq(LedgerEvents)
        <3>1. \A e \in LedgerEvents : <<e>> \in Seq(LedgerEvents)
            BY SMT
        <3>2. Notes \subseteq LedgerEvents
            BY DEF LedgerEvents
        <3> QED BY <2>1, <3>1, <3>2, ReceiptsAreEvents
    <2> DEFINE c == [Away EXCEPT !.stage = "proposed", !.cursor = Len(segments), !.events = events]
    <2>3. c \in Agent /\ c.stage = "proposed"
        BY <1>2, <2>2 DEF Away, AppendStages
    <2> HIDE DEF c
    <2>4. agents' \in [Agents -> Agent] /\ agents'[a] = c /\ \A b \in Agents \ {a} : agents'[b] = agents[b]
        BY <1>3, <2>1, <2>3 DEF c
    <2>5. UNCHANGED <<segments, writerLock, temporary>> /\ agents[a].stage = "away"
        BY <1>4 DEF Propose
    <2>6. ContinuityTypes'
        BY <1>2, <2>4, <2>5 DEF ContinuityTypes
    <2>7. OneWriter' /\ CheckedFits' /\ TemporaryHidden'
        BY <1>2, <2>3, <2>4, <2>5 DEF OneWriter, CheckedFits, TemporaryHidden, Holding
    <2> QED
        BY <1>2, <2>5, <2>6, <2>7 DEF ContinuityKept
<1>5. CASE TakeWriterLock(a)
    <2>1. CASE writerLock
        BY <1>5, <2>1, GoesAway DEF TakeWriterLock, ContinuityKept, ContinuityTypes
    <2>2. CASE ~writerLock
        <3> DEFINE c == [agents[a] EXCEPT !.stage = "locked"]
        <3>1. c \in Agent /\ c.stage = "locked"
            BY <1>2 DEF AppendStages
        <3> HIDE DEF c
        <3>2. agents' \in [Agents -> Agent] /\ agents'[a] = c /\ \A b \in Agents \ {a} : agents'[b] = agents[b]
            BY <1>3, <1>5, <2>2, <3>1 DEF c, TakeWriterLock
        <3>3. writerLock' = TRUE /\ UNCHANGED <<segments, temporary>>
            BY <1>5 DEF TakeWriterLock
        <3>4. \A b \in Agents : agents[b].stage \notin Holding
            BY <1>2, <2>2 DEF OneWriter
        <3>5. ~temporary
            BY <1>2, <2>2 DEF TemporaryHidden
        <3>6. ContinuityTypes'
            BY <1>2, <3>2, <3>3 DEF ContinuityTypes
        <3>7. OneWriter' /\ CheckedFits' /\ TemporaryHidden'
            BY <1>2, <3>1, <3>2, <3>3, <3>4, <3>5 DEF OneWriter, CheckedFits, TemporaryHidden, Holding
        <3> QED
            BY <1>2, <3>3, <3>6, <3>7 DEF ContinuityKept
    <2> QED
        BY <2>1, <2>2
<1>6. CASE CheckAppend(a)
    <2> DEFINE fits == /\ agents[a].cursor = Len(segments)
                       /\ foldContinuity(FlattenSeq(segments) \o agents[a].events).legal
                       /\ \A i \in DOMAIN agents[a].events : agents[a].events[i].proof \notin Imported(segments)
    <2>1. CASE ~fits
        <3>1. /\ agents[a].stage = "locked" /\ Set(a, Away) /\ writerLock' = FALSE
              /\ UNCHANGED <<segments, temporary>>
            BY <1>6, <2>1 DEF CheckAppend
        <3> QED
            BY <3>1, GoesAway
    <2>2. CASE fits
        <3> DEFINE c == [agents[a] EXCEPT !.stage = "checked", !.base = Len(segments)]
        <3>1. /\ agents[a].stage = "locked" /\ Set(a, c) /\ UNCHANGED <<segments, writerLock, temporary>>
            BY <1>6, <2>2 DEF CheckAppend
        <3>2. c \in Agent /\ c.stage = "checked" /\ c.base = Len(segments) /\ c.events = agents[a].events
            BY <1>2 DEF AppendStages
        <3> HIDE DEF c
        <3>3. agents' \in [Agents -> Agent] /\ agents'[a] = c /\ \A b \in Agents \ {a} : agents'[b] = agents[b]
            BY <1>3, <3>1, <3>2
        <3>4. SegmentsFit(segments, c.events)
            BY <2>2, <3>2 DEF SegmentsFit
        <3>5. ContinuityTypes'
            BY <1>2, <3>1, <3>3 DEF ContinuityTypes
        <3>6. OneWriter' /\ TemporaryHidden'
            BY <1>2, <3>1, <3>2, <3>3 DEF OneWriter, TemporaryHidden, Holding
        <3>7. CheckedFits'
            BY <1>2, <3>1, <3>2, <3>3, <3>4 DEF CheckedFits
        <3> QED
            BY <1>2, <3>1, <3>5, <3>6, <3>7 DEF ContinuityKept
    <2> QED
        BY <2>1, <2>2
<1>7. CASE WriteSegment(a)
    <2>1. CASE writerLock' = FALSE /\ UNCHANGED temporary /\ Set(a, Away)
        BY <1>7, <2>1, GoesAway DEF WriteSegment
    <2>2. CASE temporary' = TRUE /\ UNCHANGED writerLock /\ Set(a, [agents[a] EXCEPT !.stage = "written"])
        <3> DEFINE c == [agents[a] EXCEPT !.stage = "written"]
        <3>1. c \in Agent /\ c.stage = "written" /\ c.base = agents[a].base /\ c.events = agents[a].events
            BY <1>2 DEF AppendStages
        <3> HIDE DEF c
        <3>2. agents' \in [Agents -> Agent] /\ agents'[a] = c /\ \A b \in Agents \ {a} : agents'[b] = agents[b]
            BY <1>3, <2>2, <3>1 DEF c
        <3>3. agents[a].stage = "checked" /\ UNCHANGED segments
            BY <1>7 DEF WriteSegment
        <3>4. writerLock /\ \A b \in Agents : agents[b].stage \in Holding => b = a
            BY <1>2, <3>3 DEF OneWriter, Holding
        <3>5. ContinuityTypes'
            BY <1>2, <2>2, <3>2, <3>3 DEF ContinuityTypes
        <3>6. OneWriter' /\ TemporaryHidden'
            BY <1>2, <2>2, <3>1, <3>2, <3>3, <3>4 DEF OneWriter, TemporaryHidden, Holding
        <3>7. CheckedFits'
            BY <1>2, <3>1, <3>2, <3>3 DEF CheckedFits
        <3> QED
            BY <1>2, <3>3, <3>5, <3>6, <3>7 DEF ContinuityKept
    <2> QED
        BY <1>7, <2>1, <2>2 DEF WriteSegment
<1>8. CASE RenameSegment(a)
    <2>1. CASE Set(a, Away) /\ UNCHANGED <<segments, temporary>>
        BY <1>8, <2>1, GoesAway DEF RenameSegment
    <2>2. CASE /\ segments' = [i \in 1..agents[a].base + 1 |->
                               IF i \in DOMAIN segments THEN segments[i] ELSE agents[a].events]
               /\ temporary' = FALSE /\ Set(a, [agents[a] EXCEPT !.stage = "renamed"])
        <3> DEFINE c == [agents[a] EXCEPT !.stage = "renamed"]
                   events == agents[a].events
        <3>1. c \in Agent /\ c.stage = "renamed"
            BY <1>2 DEF AppendStages
        <3> HIDE DEF c
        <3>2. agents' \in [Agents -> Agent] /\ agents'[a] = c /\ \A b \in Agents \ {a} : agents'[b] = agents[b]
            BY <1>3, <2>2, <3>1 DEF c
        <3>3. agents[a].stage = "written" /\ UNCHANGED writerLock
            BY <1>8 DEF RenameSegment
        <3>4. writerLock /\ \A b \in Agents : agents[b].stage \in Holding => b = a
            BY <1>2, <3>3 DEF OneWriter, Holding
        <3>5. agents[a].base = Len(segments) /\ SegmentsFit(segments, events) /\ events \in Seq(LedgerEvents)
            BY <1>2, <3>3 DEF CheckedFits
        <3>6. segments' = Append(segments, events) /\ segments' \in Seq(Seq(LedgerEvents))
            <4> DEFINE F == Seq(LedgerEvents)
            <4>1. segments \in Seq(F) /\ events \in F
                BY <1>2, <3>5 DEF ContinuityTypes
            <4>2. segments' = [i \in 1..Len(segments) + 1 |-> IF i \in DOMAIN segments THEN segments[i] ELSE events]
                BY <2>2, <3>5
            <4> HIDE DEF F, events
            <4>3. Append(segments, events) = [i \in 1..Len(segments) + 1 |->
                                                IF i \in DOMAIN segments THEN segments[i] ELSE events]
                BY <4>1, AppendWrites
            <4>4. Append(segments, events) \in Seq(F)
                BY <4>1, SMT
            <4> QED
                BY <4>2, <4>3, <4>4 DEF F
        <3>7. DirectoryKept(segments')
            BY <1>2, <3>5, <3>6, OneSegmentMore DEF ContinuityTypes
        <3>8. ContinuityTypes'
            BY <1>2, <2>2, <3>2, <3>3, <3>6 DEF ContinuityTypes
        <3>9. OneWriter' /\ TemporaryHidden' /\ CheckedFits'
            BY <1>2, <2>2, <3>1, <3>2, <3>3, <3>4 DEF OneWriter, TemporaryHidden, CheckedFits, Holding
        <3> QED
            BY <3>7, <3>8, <3>9 DEF ContinuityKept
    <2> QED
        BY <1>8, <2>1, <2>2 DEF RenameSegment
<1>9. CASE ReleaseWriterLock(a)
    BY <1>9, GoesAway DEF ReleaseWriterLock
<1>10. CASE AgentDies(a)
    BY <1>10, GoesAway DEF AgentDies
<1> QED
    BY <1>4, <1>5, <1>6, <1>7, <1>8, <1>9, <1>10

(* For any number of agents, of receipts and of segments: the history on disk folds, a          *)
(* temporary segment lies under a lock, and what a verified receipt said no later segment takes *)
(* back, whatever agents note, import or leave when they die (foldContinuity, fs-ledger.ts).    *)
THEOREM VerifiedReceiptsStand == ContinuitySpec => [](VerifiedStands /\ HistoryReads)
<1>1. ContinuityKept => VerifiedStands /\ HistoryReads
    BY DEF ContinuityKept, DirectoryKept, SegmentsStand, VerifiedStands, TemporaryHidden, HistoryReads
<1> QED
    BY <1>1, ContinuityKeptInit, ContinuityKeptStep, PTL DEF ContinuitySpec

-----------------------------------------------------------------------------
(* The policy file: the lines of a file, and the rules a run holds. *)

(* The reading of a file, line after line: as with the folds above, the function on the   *)
(* sets of lines that the community module chooses is the only one.                       *)
IsPolicyReading(g, s, S) ==
    g = [T \in SUBSET S |-> IF T = {} THEN Unread ELSE ReadLine(g[T \ {Max(T)}], s[Max(T)])]
ReadOver(s, S) == (CHOOSE g : IsPolicyReading(g, s, S))[S]

LEMMA ReadIsChosen ==
    ASSUME NEW s
    PROVE  parseYamlSubset(s) = ReadOver(s, DOMAIN s)
BY DEF parseYamlSubset, FoldLeft, MapThenFoldSet, ReadOver, IsPolicyReading

LEMMA ReadingIsUnique ==
    ASSUME NEW S, IsIndexSet(S), NEW s,
           NEW g, NEW h, IsPolicyReading(g, s, S), IsPolicyReading(h, s, S)
    PROVE  \A T \in SUBSET S : g[T] = h[T]
<1> DEFINE Z == {T \in SUBSET S : g[T] # h[T]}
<1>1. SUFFICES ASSUME Z # {} PROVE FALSE
    OBVIOUS
<1>2. \A T \in Z : IsFiniteSet(T)
    BY IndexesAreFinite DEF IsIndexSet
<1>3. PICK T \in Z : \A U \in Z : Cardinality(T) <= Cardinality(U)
    <2> HIDE DEF Z
    <2> QED BY <1>1, <1>2, LeastSet
<1>4. /\ g[T] = IF T = {} THEN Unread ELSE ReadLine(g[T \ {Max(T)}], s[Max(T)])
      /\ h[T] = IF T = {} THEN Unread ELSE ReadLine(h[T \ {Max(T)}], s[Max(T)])
    BY ZenonT(30) DEF IsPolicyReading
<1>5. T # {}
    BY <1>4
<1>6. Max(T) \in T /\ T \ {Max(T)} \in SUBSET S /\ Cardinality(T \ {Max(T)}) < Cardinality(T)
      /\ Cardinality(T) \in Nat /\ Cardinality(T \ {Max(T)}) \in Nat
    BY <1>5, GreatestIndex, FS_CardinalityType DEF IsIndexSet
<1>7. T \ {Max(T)} \notin Z
    BY <1>3, <1>6
<1> QED
    BY <1>4, <1>5, <1>6, <1>7

(* Over some lines: nothing, or the last of them upon the reading of the rest. *)
LEMMA ReadOverStep ==
    ASSUME NEW S, IsIndexSet(S), NEW s
    PROVE  ReadOver(s, S) = IF S = {} THEN Unread ELSE ReadLine(ReadOver(s, S \ {Max(S)}), s[Max(S)])
<1> DEFINE Steps(T) == ReadOver(s, T) = IF T = {} THEN Unread
                                        ELSE ReadLine(ReadOver(s, T \ {Max(T)}), s[Max(T)])
           Z == {T \in SUBSET S : ~Steps(T)}
<1>1. SUFFICES ASSUME Z # {} PROVE FALSE
    OBVIOUS
<1>2. \A T \in SUBSET S : IsFiniteSet(T)
    BY IndexesAreFinite DEF IsIndexSet
<1>3. PICK T \in Z : \A U \in Z : Cardinality(T) <= Cardinality(U)
    <2>1. \A U \in Z : IsFiniteSet(U)
        BY <1>2
    <2> HIDE DEF Z
    <2> QED BY <1>1, <2>1, LeastSet
<1>4. \A U \in SUBSET T : U # T => Steps(U)
    <2> TAKE U \in SUBSET T
    <2> HAVE U # T
    <2>1. Cardinality(U) < Cardinality(T) /\ Cardinality(U) \in Nat /\ Cardinality(T) \in Nat
        <3>1. IsFiniteSet(T) /\ IsFiniteSet(U)
            BY <1>2
        <3>2. Cardinality(U) <= Cardinality(T) /\ Cardinality(U) # Cardinality(T)
            BY <3>1, FS_Subset
        <3> QED BY <3>1, <3>2, FS_CardinalityType
    <2> QED BY <2>1, <1>3
<1> DEFINE Rest == T \ {Max(T)}
           G == [U \in SUBSET T |-> IF U = T /\ T # {} THEN ReadLine(ReadOver(s, Rest), s[Max(T)])
                                    ELSE IF U = {} THEN Unread ELSE ReadOver(s, U)]
<1>5. IsPolicyReading(G, s, T)
    <2>1. ASSUME NEW U \in SUBSET T
          PROVE  G[U] = IF U = {} THEN Unread ELSE ReadLine(G[U \ {Max(U)}], s[Max(U)])
        <3>1. CASE U = {}
            BY <3>1
        <3>2. CASE U # {}
            <4>1. Max(U) \in U
                BY <3>2, GreatestIndex DEF IsIndexSet
            <4>2. U \ {Max(U)} # T /\ U \ {Max(U)} \in SUBSET T
                BY <4>1
            <4>3. ReadOver(s, {}) = Unread
                BY <1>4, <3>2
            <4>4. G[U \ {Max(U)}] = ReadOver(s, U \ {Max(U)})
                BY <4>2, <4>3
            <4>5. U # T => ReadOver(s, U) = ReadLine(ReadOver(s, U \ {Max(U)}), s[Max(U)])
                BY <1>4, <3>2
            <4> QED BY <3>2, <4>4, <4>5
        <3> QED BY <3>1, <3>2
    <2> HIDE DEF G
    <2>2. G = [U \in SUBSET T |-> G[U]]
        BY DEF G
    <2> QED BY <2>1, <2>2 DEF IsPolicyReading
<1> DEFINE C == CHOOSE g : IsPolicyReading(g, s, T)
<1>6. IsPolicyReading(C, s, T) /\ ReadOver(s, T) = C[T]
    BY <1>5 DEF ReadOver
<1> HIDE DEF C, G
<1>7. C[T] = G[T]
    <2>1. IsIndexSet(T) /\ T \in SUBSET T
        BY DEF IsIndexSet
    <2> QED BY <1>5, <1>6, <2>1, ReadingIsUnique
<1>8. T # {} => Steps(T)
    BY <1>6, <1>7 DEF G
<1>9. T = {} => C[T] = Unread
    BY <1>6, Zenon DEF IsPolicyReading
<1> QED
    BY <1>3, <1>6, <1>8, <1>9

(* The reading after the first k lines, and after one line more. *)
LEMMA ReadLineByLine ==
    ASSUME NEW s
    PROVE  /\ ReadOver(s, 1..0) = Unread
           /\ \A k \in Nat : ReadOver(s, 1..(k + 1)) = ReadLine(ReadOver(s, 1..k), s[k + 1])
<1>1. ReadOver(s, 1..0) = Unread
    <2>1. 1..0 = {} /\ IsIndexSet(1..0)
        BY SMT DEF IsIndexSet
    <2> QED
        BY <2>1, ReadOverStep
<1>2. ASSUME NEW k \in Nat
      PROVE  ReadOver(s, 1..(k + 1)) = ReadLine(ReadOver(s, 1..k), s[k + 1])
    <2>1. PICK n \in Nat : n = k + 1
        BY SMT
    <2>2. n \in 1..n /\ 1..n # {} /\ 1..n \in SUBSET (1..n)
        BY <2>1, SMT
    <2>3. Max(1..n) \in 1..n /\ n <= Max(1..n)
        BY <2>2, GreatestIndex
    <2>4. Max(1..n) = n
        BY <2>3, SMT
    <2>5. (1..n) \ {n} = 1..k
        BY <2>1, SMT
    <2>6. ReadOver(s, 1..n) = ReadLine(ReadOver(s, (1..n) \ {Max(1..n)}), s[Max(1..n)])
        BY <2>2, ReadOverStep DEF IsIndexSet
    <2> QED
        BY <2>1, <2>4, <2>5, <2>6
<1> QED
    BY <1>1, <1>2

-----------------------------------------------------------------------------
(* What a reading of the first k lines holds of them, unless it has thrown. *)
Opens(lines, o, n) ==
    /\ o \in 1..n /\ lines[o].shape = "top"
    /\ \A m \in 1..n : m > o => lines[m].shape # "top"

IsList(s) == \E S : s \in Seq(S)

LineSays(rules, line) ==
    \E i \in DOMAIN rules : line.key \in DOMAIN rules[i] /\ rules[i][line.key] = line.value

(* The rule of a line stands under the key of its list, unless the list is opened again. *)
LineIsHeld(lines, k, object, n) ==
    \E o \in 1..n :
       /\ Opens(lines, o, n)
       /\ \/ \E m \in 1..k : m > n /\ lines[m].shape = "top" /\ lines[m].key = lines[o].key
          \/ /\ lines[o].key \in DOMAIN object /\ object[lines[o].key].text = ""
             /\ LineSays(object[lines[o].key].rules, lines[n])

IsReading(r) == r = [object |-> r.object, list |-> r.list, failed |-> r.failed] /\ r.failed \in BOOLEAN

ListIsOpen(lines, k, r) ==
    r.list # "none" => /\ r.list \in DOMAIN r.object
                       /\ \E o \in 1..k : Opens(lines, o, k) /\ lines[o].key = r.list
ListsAreLists(r) == \A key \in DOMAIN r.object : IsList(r.object[key].rules)
KeysAreHeld(lines, k, r) ==
    \A n \in 1..k : /\ lines[n].shape = "top" => lines[n].key \in DOMAIN r.object
                    /\ lines[n].shape # "spaced"
LinesStand(lines, k, r) ==
    \A n \in 1..k : lines[n].shape \in {"item", "more"} => LineIsHeld(lines, k, r.object, n)

IsAsWritten(lines, k, r) ==
    /\ IsReading(r)
    /\ ~r.failed => /\ ListIsOpen(lines, k, r) /\ ListsAreLists(r)
                    /\ KeysAreHeld(lines, k, r) /\ LinesStand(lines, k, r)

(* The line that opens a list is the last one of its shape. *)
LEMMA OpenerIsLast ==
    ASSUME NEW lines, NEW n \in Nat, NEW o, Opens(lines, o, n)
    PROVE  OpenerOf(lines, n) = o
<1> DEFINE S == {0} \cup {m \in 1..n : lines[m].shape = "top"}
<1>1. o \in S /\ \A m \in S : m \in Int /\ o >= m
    BY SMT DEF Opens
<1>2. Max(S) \in S /\ \A m \in S : Max(S) >= m
    <2> HIDE DEF S
    <2> QED BY <1>1, ZenonT(30) DEF Max
<1>3. Max(S) = o
    <2> HIDE DEF S
    <2> QED BY <1>1, <1>2, SMT
<1> QED
    BY <1>3 DEF OpenerOf

(* What the rules of a list become when a line is read. *)
Widens(list, rules) ==
    /\ IsList(list)
    /\ \A i \in DOMAIN rules :
          /\ i \in DOMAIN list
          /\ \A key \in DOMAIN rules[i] : key \in DOMAIN list[i] /\ list[i][key] = rules[i][key]

LEMMA AppendedRules ==
    ASSUME NEW rules, IsList(rules), NEW rule
    PROVE  /\ Widens(Append(rules, rule), rules)
           /\ Len(rules) + 1 \in DOMAIN Append(rules, rule)
           /\ Append(rules, rule)[Len(rules) + 1] = rule
<1>1. PICK S : rules \in Seq(S)
    BY DEF IsList
<1> DEFINE R == S \cup {rule}
<1>2. rules \in Seq(R) /\ rule \in R
    BY <1>1, SMT
<1> HIDE DEF R
<1>3. /\ Append(rules, rule) \in Seq(R) /\ Append(rules, rule)[Len(rules) + 1] = rule
      /\ Len(rules) + 1 \in DOMAIN Append(rules, rule)
      /\ \A i \in DOMAIN rules : i \in DOMAIN Append(rules, rule) /\ Append(rules, rule)[i] = rules[i]
    BY <1>2, SMT
<1> QED
    BY <1>3 DEF Widens, IsList

LEMMA ContinuedRules ==
    ASSUME NEW rules, IsList(rules), rules # <<>>, NEW key, NEW value, key \notin DOMAIN LastOf(rules)
    PROVE  LET list == [rules EXCEPT ![Len(rules)] = Assigned(@, key, value)] IN
           /\ Widens(list, rules) /\ Len(rules) \in DOMAIN list
           /\ key \in DOMAIN list[Len(rules)] /\ list[Len(rules)][key] = value
<1> DEFINE rule == Assigned(rules[Len(rules)], key, value)
           list == [rules EXCEPT ![Len(rules)] = rule]
<1>1. PICK S : rules \in Seq(S)
    BY DEF IsList
<1>2. DOMAIN rule = {key} \cup DOMAIN rules[Len(rules)] /\ rule[key] = value
      /\ \A other \in DOMAIN rules[Len(rules)] : rule[other] = rules[Len(rules)][other]
    BY DEF LastOf, Assigned
<1> HIDE DEF rule
<1>3. Len(rules) \in 1..Len(rules) /\ DOMAIN rules = 1..Len(rules)
    BY <1>1, SMT
<1>4. list \in Seq(S \cup {rule}) /\ DOMAIN list = DOMAIN rules /\ list[Len(rules)] = rule
      /\ \A i \in DOMAIN rules : i # Len(rules) => list[i] = rules[i]
    BY <1>1, <1>3, SMT
<1> HIDE DEF list
<1>5. Widens(list, rules)
    BY <1>2, <1>4 DEF Widens, IsList
<1>6. Len(rules) \in DOMAIN list /\ key \in DOMAIN list[Len(rules)] /\ list[Len(rules)][key] = value
    BY <1>2, <1>3, <1>4
<1> QED
    BY <1>5, <1>6 DEF list, rule

-----------------------------------------------------------------------------
(* One line more.  What a line does to a reading that it does not fail. *)
OpensKey(r, line, next) ==
    /\ line.shape = "top" /\ next.object = Assigned(r.object, line.key, Entry(line.value, <<>>))
    /\ next.list \in {line.key, "none"}
WidensOpen(r, line, next) ==
    /\ line.shape \in {"item", "dash", "more"} /\ r.list # "none" /\ next.list = r.list
    /\ \E list : /\ next.object = Assigned(r.object, r.list, Entry("", list))
                 /\ Widens(list, r.object[r.list].rules)
                 /\ line.shape \in {"item", "more"} => LineSays(list, line)

LEMMA ReadingRecord ==
    ASSUME NEW o, NEW l, NEW f \in BOOLEAN
    PROVE  LET r == [object |-> o, list |-> l, failed |-> f] IN
           IsReading(r) /\ r.object = o /\ r.list = l /\ r.failed = f
BY SMT DEF IsReading

LEMMA ReadLineCases ==
    ASSUME NEW r, IsReading(r), NEW line,
           ~r.failed /\ r.list # "none" => IsList(r.object[r.list].rules)
    PROVE  /\ IsReading(ReadLine(r, line))
           /\ ~ReadLine(r, line).failed =>
                 ~r.failed /\ (OpensKey(r, line, ReadLine(r, line)) \/ WidensOpen(r, line, ReadLine(r, line)))
<1> DEFINE next == ReadLine(r, line)
           open == r.list # "none"
           rules == IF open THEN r.object[r.list].rules ELSE <<>>
           Under(list) == [r EXCEPT !.object = Assigned(r.object, r.list, Entry("", list))]
<1>0. r.failed \in BOOLEAN /\ r = [object |-> r.object, list |-> r.list, failed |-> r.failed]
    BY DEF IsReading
<1>1. CASE r.failed
    <2>1. next = r
        BY <1>1, Zenon DEF ReadLine
    <2> HIDE DEF next
    <2>2. IsReading(next) /\ next.failed
        BY <1>1, <2>1
    <2> QED BY <2>2 DEF next
<1>2. ASSUME ~r.failed, NEW list, next = Under(list), open, line.shape \in {"item", "dash", "more"},
             Widens(list, rules), line.shape \in {"item", "more"} => LineSays(list, line)
      PROVE  IsReading(next) /\ ~r.failed /\ WidensOpen(r, line, next)
    <2> HIDE DEF next
    <2>1. /\ next = [object |-> Assigned(r.object, r.list, Entry("", list)), list |-> r.list, failed |-> r.failed]
        BY <1>0, <1>2
    <2> QED BY <1>0, <1>2, <2>1 DEF IsReading, WidensOpen
<1>3. CASE ~r.failed /\ line.shape = "top"
    <2>1. next = [r EXCEPT !.object = Assigned(r.object, line.key, Entry(line.value, <<>>)),
                           !.list = IF line.value = "" THEN line.key ELSE "none"]
        BY <1>3 DEF ReadLine
    <2> HIDE DEF next
    <2>2. PICK list \in {line.key, "none"} :
              next = [object |-> Assigned(r.object, line.key, Entry(line.value, <<>>)), list |-> list,
                      failed |-> r.failed]
        BY <1>0, <2>1
    <2>3. IsReading(next) /\ next.list = list
          /\ next.object = Assigned(r.object, line.key, Entry(line.value, <<>>))
        BY <1>0, <2>2, ReadingRecord
    <2> QED BY <1>3, <2>3 DEF OpensKey, next
<1>4. CASE ~r.failed /\ line.shape = "item" /\ open
    <2> DEFINE rule == Assigned(<<>>, line.key, line.value)
    <2>1. next = Under(Append(rules, rule))
        BY <1>4 DEF ReadLine
    <2>2. line.key \in DOMAIN rule /\ rule[line.key] = line.value
        BY DEF Assigned
    <2> HIDE DEF rule, next, Under
    <2>3. Widens(Append(rules, rule), rules) /\ LineSays(Append(rules, rule), line)
        BY <1>4, <2>2, AppendedRules DEF LineSays
    <2> QED BY <1>2, <1>4, <2>1, <2>3 DEF next
<1>5. CASE ~r.failed /\ line.shape = "dash" /\ open
    <2>1. next = Under(Append(rules, <<>>))
        BY <1>5 DEF ReadLine
    <2> HIDE DEF next, Under
    <2>2. Widens(Append(rules, <<>>), rules)
        BY <1>5, AppendedRules
    <2> QED BY <1>2, <1>5, <2>1, <2>2 DEF next
<1>6. CASE /\ ~r.failed /\ line.shape = "more" /\ open /\ rules # <<>>
           /\ line.key \notin DOMAIN LastOf(rules)
    <2> DEFINE list == [rules EXCEPT ![Len(rules)] = Assigned(@, line.key, line.value)]
    <2>1. next = Under(list)
        BY <1>6 DEF ReadLine
    <2>2. Widens(list, rules) /\ LineSays(list, line)
        BY <1>6, ContinuedRules DEF LineSays
    <2> HIDE DEF next, Under, list
    <2> QED BY <1>2, <1>6, <2>1, <2>2 DEF next
<1>7. CASE /\ ~r.failed /\ line.shape # "top" /\ ~(line.shape \in {"item", "dash"} /\ open)
           /\ ~(/\ line.shape = "more" /\ open /\ rules # <<>> /\ line.key \notin DOMAIN LastOf(rules))
    <2>1. next = [r EXCEPT !.failed = TRUE]
        BY <1>7 DEF ReadLine
    <2> HIDE DEF next
    <2>2. next = [object |-> r.object, list |-> r.list, failed |-> TRUE]
        BY <1>0, <2>1
    <2> QED BY <2>2 DEF IsReading, next
<1> QED
    BY <1>1, <1>3, <1>4, <1>5, <1>6, <1>7

LEMMA OpensStays ==
    ASSUME NEW lines, NEW k \in Nat
    PROVE  /\ \A o : Opens(lines, o, k) /\ lines[k + 1].shape # "top" => Opens(lines, o, k + 1)
           /\ lines[k + 1].shape = "top" => Opens(lines, k + 1, k + 1)
<1>1. ASSUME NEW o, Opens(lines, o, k), lines[k + 1].shape # "top"
      PROVE  Opens(lines, o, k + 1)
    <2>1. o \in 1..(k + 1) /\ \A m \in 1..(k + 1) : m \in 1..k \/ m = k + 1
        BY <1>1, SMT DEF Opens
    <2> QED BY <1>1, <2>1 DEF Opens
<1>2. ASSUME lines[k + 1].shape = "top"
      PROVE  Opens(lines, k + 1, k + 1)
    <2>1. k + 1 \in 1..(k + 1) /\ \A m \in 1..(k + 1) : ~(m > k + 1)
        BY SMT
    <2> QED BY <1>2, <2>1 DEF Opens
<1> QED
    BY <1>1, <1>2

LEMMA NextKeyIsRead ==
    ASSUME NEW lines, NEW k \in Nat, NEW r, IsAsWritten(lines, k, r), ~r.failed,
           NEW next, OpensKey(r, lines[k + 1], next)
    PROVE  /\ ListIsOpen(lines, k + 1, next) /\ ListsAreLists(next)
           /\ KeysAreHeld(lines, k + 1, next) /\ LinesStand(lines, k + 1, next)
<1> DEFINE line == lines[k + 1]
<1>0. /\ k + 1 \in 1..(k + 1) /\ 1..k \subseteq 1..(k + 1)
      /\ \A n \in 1..(k + 1) : n \in 1..k \/ n = k + 1
      /\ \A n \in 1..k : k + 1 > n
    BY SMT
<1>1. line.shape = "top" /\ next.list \in {line.key, "none"}
      /\ DOMAIN next.object = DOMAIN r.object \cup {line.key}
      /\ next.object[line.key] = Entry(line.value, <<>>)
      /\ \A other \in DOMAIN r.object : other # line.key => next.object[other] = r.object[other]
    <2> DEFINE value == Entry(line.value, <<>>)
    <2>1. line.shape = "top" /\ next.object = Assigned(r.object, line.key, value)
          /\ next.list \in {line.key, "none"}
        BY DEF OpensKey
    <2> HIDE DEF line, value
    <2>2. /\ DOMAIN Assigned(r.object, line.key, value) = DOMAIN r.object \cup {line.key}
          /\ Assigned(r.object, line.key, value)[line.key] = value
          /\ \A other \in DOMAIN r.object :
                other # line.key => Assigned(r.object, line.key, value)[other] = r.object[other]
        BY DEF Assigned
    <2> QED BY <2>1, <2>2 DEF value
<1>2. ListIsOpen(lines, k, r) /\ ListsAreLists(r) /\ KeysAreHeld(lines, k, r) /\ LinesStand(lines, k, r)
    BY DEF IsAsWritten
<1> HIDE DEF line
<1>3. ListIsOpen(lines, k + 1, next)
    BY <1>0, <1>1, OpensStays DEF ListIsOpen, line
<1>4. ListsAreLists(next)
    <2>1. Entry(line.value, <<>>).rules = <<>>
        BY DEF Entry
    <2>2. <<>> \in Seq({})
        BY SMT
    <2>3. IsList(<<>>)
        BY <2>2 DEF IsList
    <2> QED BY <1>1, <1>2, <2>1, <2>3 DEF ListsAreLists
<1>5. KeysAreHeld(lines, k + 1, next)
    BY <1>0, <1>1, <1>2 DEF KeysAreHeld, line
<1>6. ASSUME NEW n \in 1..(k + 1), lines[n].shape \in {"item", "more"}
      PROVE  LineIsHeld(lines, k + 1, next.object, n)
    <2>1. n \in 1..k
        BY <1>0, <1>1, <1>6 DEF line
    <2>2. PICK o \in 1..n : /\ Opens(lines, o, n)
                           /\ \/ \E m \in 1..k : m > n /\ lines[m].shape = "top" /\ lines[m].key = lines[o].key
                              \/ /\ lines[o].key \in DOMAIN r.object /\ r.object[lines[o].key].text = ""
                                 /\ LineSays(r.object[lines[o].key].rules, lines[n])
        BY <1>2, <1>6, <2>1 DEF LinesStand, LineIsHeld
    <2>3. CASE lines[o].key = line.key
        BY <1>0, <1>1, <2>1, <2>2, <2>3 DEF LineIsHeld, line
    <2>4. CASE lines[o].key # line.key
        BY <1>0, <1>1, <2>2, <2>4 DEF LineIsHeld
    <2> QED BY <2>3, <2>4
<1> QED
    BY <1>3, <1>4, <1>5, <1>6 DEF LinesStand

LEMMA NextRuleIsRead ==
    ASSUME NEW lines, NEW k \in Nat, NEW r, IsAsWritten(lines, k, r), ~r.failed,
           NEW next, WidensOpen(r, lines[k + 1], next)
    PROVE  /\ ListIsOpen(lines, k + 1, next) /\ ListsAreLists(next)
           /\ KeysAreHeld(lines, k + 1, next) /\ LinesStand(lines, k + 1, next)
<1> DEFINE line == lines[k + 1]
<1>0. /\ k + 1 \in 1..(k + 1) /\ 1..k \subseteq 1..(k + 1)
      /\ \A n \in 1..(k + 1) : n \in 1..k \/ n = k + 1
    BY SMT
<1>1. PICK list : /\ next.object = Assigned(r.object, r.list, Entry("", list))
                  /\ Widens(list, r.object[r.list].rules)
                  /\ line.shape \in {"item", "more"} => LineSays(list, line)
    BY DEF WidensOpen
<1>2. line.shape \in {"item", "dash", "more"} /\ r.list # "none" /\ next.list = r.list
    BY DEF WidensOpen
<1>3. ListIsOpen(lines, k, r) /\ ListsAreLists(r) /\ KeysAreHeld(lines, k, r) /\ LinesStand(lines, k, r)
    BY DEF IsAsWritten
<1> HIDE DEF line
<1>4. PICK o \in 1..k : r.list \in DOMAIN r.object /\ Opens(lines, o, k) /\ lines[o].key = r.list
    BY <1>2, <1>3 DEF ListIsOpen
<1>5. DOMAIN next.object = DOMAIN r.object
      /\ next.object[r.list].text = "" /\ next.object[r.list].rules = list
      /\ \A other \in DOMAIN r.object : other # r.list => next.object[other] = r.object[other]
    <2> DEFINE value == Entry("", list)
    <2>1. value.text = "" /\ value.rules = list
        BY DEF Entry
    <2>2. next.object = Assigned(r.object, r.list, value)
        BY <1>1
    <2> HIDE DEF value
    <2>3. /\ DOMAIN Assigned(r.object, r.list, value) = DOMAIN r.object \cup {r.list}
          /\ Assigned(r.object, r.list, value)[r.list] = value
          /\ \A other \in DOMAIN r.object :
                other # r.list => Assigned(r.object, r.list, value)[other] = r.object[other]
        BY DEF Assigned
    <2> QED BY <1>4, <2>1, <2>2, <2>3
<1>6. o \in 1..(k + 1) /\ Opens(lines, o, k + 1)
    BY <1>0, <1>2, <1>4, OpensStays DEF line
<1>7. ListIsOpen(lines, k + 1, next)
    BY <1>2, <1>4, <1>5, <1>6 DEF ListIsOpen
<1>8. ListsAreLists(next)
    BY <1>1, <1>3, <1>5 DEF ListsAreLists, Widens
<1>9. KeysAreHeld(lines, k + 1, next)
    BY <1>0, <1>2, <1>3, <1>5 DEF KeysAreHeld, line
<1>10. ASSUME NEW n \in 1..(k + 1), lines[n].shape \in {"item", "more"}
       PROVE  LineIsHeld(lines, k + 1, next.object, n)
    <2>1. CASE n = k + 1
        BY <1>1, <1>4, <1>5, <1>6, <1>10, <2>1 DEF LineIsHeld, line
    <2>2. CASE n \in 1..k
        <3>1. PICK p \in 1..n : /\ Opens(lines, p, n)
                               /\ \/ \E m \in 1..k : m > n /\ lines[m].shape = "top" /\ lines[m].key = lines[p].key
                                  \/ /\ lines[p].key \in DOMAIN r.object /\ r.object[lines[p].key].text = ""
                                     /\ LineSays(r.object[lines[p].key].rules, lines[n])
            BY <1>3, <1>10, <2>2 DEF LinesStand, LineIsHeld
        <3>2. CASE \E m \in 1..k : m > n /\ lines[m].shape = "top" /\ lines[m].key = lines[p].key
            BY <1>0, <3>1, <3>2 DEF LineIsHeld
        <3>3. CASE /\ lines[p].key \in DOMAIN r.object /\ r.object[lines[p].key].text = ""
                   /\ LineSays(r.object[lines[p].key].rules, lines[n])
            <4>1. LineSays(r.object[r.list].rules, lines[n]) => LineSays(list, lines[n])
                BY <1>1 DEF LineSays, Widens
            <4>2. /\ lines[p].key \in DOMAIN next.object /\ next.object[lines[p].key].text = ""
                  /\ LineSays(next.object[lines[p].key].rules, lines[n])
                BY <1>5, <3>3, <4>1
            <4> QED BY <3>1, <4>2 DEF LineIsHeld
        <3> QED BY <3>1, <3>2, <3>3
    <2> QED BY <1>0, <2>1, <2>2
<1> QED
    BY <1>7, <1>8, <1>9, <1>10 DEF LinesStand

LEMMA NextLineIsAsWritten ==
    ASSUME NEW lines, NEW k \in Nat, NEW r, IsAsWritten(lines, k, r)
    PROVE  IsAsWritten(lines, k + 1, ReadLine(r, lines[k + 1]))
<1> DEFINE next == ReadLine(r, lines[k + 1])
<1>1. ~r.failed /\ r.list # "none" => IsList(r.object[r.list].rules)
    BY DEF IsAsWritten, ListIsOpen, ListsAreLists
<1>2. IsReading(r)
    BY DEF IsAsWritten
<1>3. /\ IsReading(next)
      /\ ~next.failed => ~r.failed /\ (OpensKey(r, lines[k + 1], next) \/ WidensOpen(r, lines[k + 1], next))
    BY <1>1, <1>2, ReadLineCases
<1> HIDE DEF next
<1>4. ~next.failed => /\ ListIsOpen(lines, k + 1, next) /\ ListsAreLists(next)
                      /\ KeysAreHeld(lines, k + 1, next) /\ LinesStand(lines, k + 1, next)
    BY <1>3, NextKeyIsRead, NextRuleIsRead
<1> QED
    BY <1>3, <1>4 DEF IsAsWritten, next

(* A file is read as it is written. *)
LEMMA FileIsAsWritten ==
    ASSUME NEW E, NEW lines \in Seq(E)
    PROVE  IsAsWritten(lines, Len(lines), parseYamlSubset(lines))
<1> DEFINE Z == {k \in Nat : ~IsAsWritten(lines, k, ReadOver(lines, 1..k))}
<1>1. IsAsWritten(lines, 0, Unread)
    <2>1. 1..0 = {} /\ DOMAIN <<>> = {}
        BY SMT
    <2>2. IsReading(Unread) /\ Unread.list = "none" /\ Unread.object = <<>> /\ ~Unread.failed
        BY ReadingRecord DEF Unread
    <2> QED
        BY <2>1, <2>2, Zenon DEF IsAsWritten, ListIsOpen, ListsAreLists, KeysAreHeld, LinesStand
<1>2. Z = {}
    <2> SUFFICES ASSUME Z # {} PROVE FALSE
        OBVIOUS
    <2>1. PICK n \in Z : \A m \in Z : n <= m
        <3>1. Z \in SUBSET Nat
            OBVIOUS
        <3> HIDE DEF Z
        <3> QED BY <3>1, LeastNumber
    <2>2. n # 0
        BY <1>1, ReadLineByLine
    <2>3. PICK k \in Nat : n = k + 1 /\ ~(n <= k)
        BY <2>2, SMT
    <2>4. IsAsWritten(lines, k, ReadOver(lines, 1..k))
        BY <2>1, <2>3
    <2>5. ReadOver(lines, 1..n) = ReadLine(ReadOver(lines, 1..k), lines[k + 1])
        BY <2>3, ReadLineByLine
    <2>6. IsAsWritten(lines, n, ReadOver(lines, 1..n))
        BY <2>3, <2>4, <2>5, NextLineIsAsWritten
    <2> QED
        BY <2>6
<1>3. Len(lines) \in Nat /\ DOMAIN lines = 1..Len(lines)
    BY SMT
<1>4. IsAsWritten(lines, Len(lines), ReadOver(lines, 1..Len(lines)))
    BY <1>2, <1>3
<1> QED
    BY <1>3, <1>4, ReadIsChosen

-----------------------------------------------------------------------------
(* The readers of a file. *)
ReadAsLoaded == /\ wrapped \in {<<>>, <<loadPolicyForWrap>>}
                /\ gated \in {<<>>, <<resolveStateGateForRun>>}
PolicyKept == policyFiles \in PolicyFilePairs /\ ReadAsLoaded

LEMMA DecidingFile ==
    ASSUME policyFiles \in PolicyFilePairs
    PROVE  /\ Deciding.form \in FileForms
           /\ Deciding.lines \in Seq([shape : LineShapes, key : STRING, value : STRING])
BY PolicyAssumption DEF Deciding

(* A list that is in force holds the rule of every line under it. *)
LEMMA AcceptedIsInForce ==
    ASSUME NEW E, NEW lines \in Seq(E), parsePolicyStrict(lines).ok, NEW n \in RuleLines(lines)
    PROVE  Repeated(lines, n) \/ InForce(lines, n, [deny |-> parsePolicyStrict(lines).deny,
                                                   dryRun |-> parsePolicyStrict(lines).dryRun])
<1> DEFINE r == parseYamlSubset(lines)
           RulesOf(list) == IF list \in DOMAIN r.object THEN ToSet(r.object[list].rules) ELSE {}
           policy == [deny |-> RulesOf("deny"), dryRun |-> RulesOf("dry_run")]
<1>1. ~r.failed /\ validatePolicyObject(r.object)
      /\ parsePolicyStrict(lines).deny = RulesOf("deny") /\ parsePolicyStrict(lines).dryRun = RulesOf("dry_run")
    <2> HIDE DEF r
    <2>1. ~(r.failed \/ ~validatePolicyObject(r.object))
        BY DEF parsePolicyStrict, r
    <2>2. parsePolicyStrict(lines) = [ok |-> TRUE, deny |-> RulesOf("deny"), dryRun |-> RulesOf("dry_run"),
                                      stateGate |-> "state_gate" \in DOMAIN r.object]
        BY <2>1, Zenon DEF parsePolicyStrict, r
    <2> QED BY <2>1, <2>2
<1> HIDE DEF r
<1>2. n \in 1..Len(lines) /\ DOMAIN lines = 1..Len(lines) /\ lines[n].shape \in {"item", "more"} /\ n \in Nat
    BY SMT DEF RuleLines
<1>3. LineIsHeld(lines, Len(lines), r.object, n)
    BY <1>1, <1>2, FileIsAsWritten DEF r, IsAsWritten, LinesStand
<1>4. PICK o \in 1..n : /\ Opens(lines, o, n)
                       /\ \/ \E m \in 1..Len(lines) : /\ m > n /\ lines[m].shape = "top"
                                                       /\ lines[m].key = lines[o].key
                          \/ /\ lines[o].key \in DOMAIN r.object /\ r.object[lines[o].key].text = ""
                             /\ LineSays(r.object[lines[o].key].rules, lines[n])
    BY <1>3 DEF LineIsHeld
<1>5. OpenerOf(lines, n) = o
    BY <1>2, <1>4, OpenerIsLast
<1>6. CASE \E m \in 1..Len(lines) : m > n /\ lines[m].shape = "top" /\ lines[m].key = lines[o].key
    BY <1>2, <1>5, <1>6 DEF Repeated
<1>7. CASE /\ lines[o].key \in DOMAIN r.object /\ r.object[lines[o].key].text = ""
           /\ LineSays(r.object[lines[o].key].rules, lines[n])
    <2>1. lines[o].key \in {"deny", "dry_run"}
        BY <1>1, <1>7 DEF validatePolicyObject, KnownTopKeys
    <2>2. \E rule \in RulesOf(lines[o].key) : lines[n].key \in DOMAIN rule /\ rule[lines[n].key] = lines[n].value
        BY <1>7 DEF LineSays, ToSet
    <2> HIDE DEF RulesOf
    <2>3. (IF lines[o].key = "deny" THEN policy.deny ELSE policy.dryRun) = RulesOf(lines[o].key)
        BY <2>1
    <2> HIDE DEF policy
    <2>4. InForce(lines, n, policy)
        BY <1>5, <2>2, <2>3, Zenon DEF InForce
    <2> QED BY <1>1, <2>4 DEF policy
<1> QED
    BY <1>4, <1>6, <1>7

(* A gate that is declared is found, and when its file is accepted it is on. *)
LEMMA DeclaredGateIsOn ==
    ASSUME NEW E, NEW lines \in Seq(E), DeclaresGate(lines)
    PROVE  /\ detectStateGateKey(lines)
           /\ parsePolicyStrict(lines).ok => parsePolicyStrict(lines).stateGate
<1> DEFINE r == parseYamlSubset(lines)
<1>1. PICK n \in DOMAIN lines : lines[n].key = "state_gate" /\ lines[n].shape \in {"top", "spaced"}
    BY DEF DeclaresGate, ToSet
<1>2. detectStateGateKey(lines)
    BY <1>1 DEF detectStateGateKey
<1>3. ASSUME parsePolicyStrict(lines).ok
      PROVE  parsePolicyStrict(lines).stateGate
    <2> HIDE DEF r
    <2>1. ~(r.failed \/ ~validatePolicyObject(r.object))
        BY <1>3 DEF parsePolicyStrict, r
    <2>2. parsePolicyStrict(lines).stateGate = ("state_gate" \in DOMAIN r.object)
        BY <2>1 DEF parsePolicyStrict, r
    <2>3. n \in 1..Len(lines)
        BY SMT
    <2>4. KeysAreHeld(lines, Len(lines), r)
        BY <2>1, FileIsAsWritten DEF IsAsWritten, r
    <2>5. "state_gate" \in DOMAIN r.object
        BY <1>1, <2>3, <2>4 DEF KeysAreHeld
    <2> QED BY <2>2, <2>5
<1> QED
    BY <1>2, <1>3

LEMMA LoadedIsAsWritten ==
    ASSUME PolicyKept
    PROVE  PolicyAsWritten
<1> DEFINE lines == Deciding.lines
           parsed == parsePolicyStrict(lines)
<1>1. Deciding.form \in {"missing", "unreadable", "text"}
      /\ lines \in Seq([shape : LineShapes, key : STRING, value : STRING])
    BY DecidingFile DEF PolicyKept, FileForms
<1>2. ASSUME Enforcing
      PROVE  \A n \in RuleLines(lines) : Repeated(lines, n) \/ InForce(lines, n, wrapped[1].policy)
    <2>1. wrapped[1] = loadPolicyForWrap /\ wrapped[1].status = "verified"
        BY <1>2 DEF PolicyKept, ReadAsLoaded, Enforcing
    <2>2. parsed.ok /\ wrapped[1].policy = [deny |-> parsed.deny, dryRun |-> parsed.dryRun]
        BY <1>1, <2>1 DEF loadPolicyForWrap
    <2> HIDE DEF lines
    <2> QED BY <1>1, <2>2, AcceptedIsInForce
<1>3. ASSUME gated # <<>>, Deciding.form = "text", DeclaresGate(lines)
      PROVE  gated[1].mode # "off"
    <2>1. gated[1] = resolveStateGateForRun
        BY <1>3 DEF PolicyKept, ReadAsLoaded
    <2>2. detectStateGateKey(lines) /\ (parsed.ok => parsed.stateGate)
        <3> HIDE DEF lines
        <3> QED BY <1>1, <1>3, DeclaredGateIsOn
    <2> QED BY <1>3, <2>1, <2>2 DEF resolveStateGateForRun
<1>4. ASSUME gated # <<>>, wrapped # <<>>
      PROVE  gated[1].status = wrapped[1].status
    <2>1. gated[1] = resolveStateGateForRun /\ wrapped[1] = loadPolicyForWrap
        BY <1>4 DEF PolicyKept, ReadAsLoaded
    <2> QED BY <1>1, <2>1 DEF resolveStateGateForRun, loadPolicyForWrap
<1> QED
    BY <1>2, <1>3, <1>4 DEF PolicyAsWritten

(* No line of a file that the proxy calls verified is lost or overruled, but above a           *)
(* repetition of its list's key; a gate that the file declares at the margin is never off;     *)
(* and the proxy and the run say the same of the file (parseYamlSubset, validatePolicyObject,   *)
(* detectStateGateKey, resolveStateGateForRun, loadPolicyForWrap).                              *)
THEOREM PolicyIsAsWritten == PolicySpec => []PolicyAsWritten
<1>1. PolicyInit => PolicyKept
    BY DEF PolicyInit, PolicyInitWith, PolicyKept, ReadAsLoaded
<1>2. PolicyKept /\ [PolicyNext]_policyVars => PolicyKept'
    <2> SUFFICES ASSUME PolicyKept, [PolicyNext]_policyVars PROVE PolicyKept'
        OBVIOUS
    <2>1. policyFiles' = policyFiles
        BY DEF PolicyNext, StartProxy, ResolveGate, policyVars
    <2>2. loadPolicyForWrap' = loadPolicyForWrap /\ resolveStateGateForRun' = resolveStateGateForRun
        BY <2>1, Zenon DEF loadPolicyForWrap, resolveStateGateForRun, Deciding
    <2>3. wrapped' \in {wrapped, <<loadPolicyForWrap>>} /\ gated' \in {gated, <<resolveStateGateForRun>>}
        BY DEF PolicyNext, StartProxy, ResolveGate, policyVars
    <2> QED BY <2>1, <2>2, <2>3 DEF PolicyKept, ReadAsLoaded
<1> QED
    BY <1>1, <1>2, LoadedIsAsWritten, PTL DEF PolicySpec

-----------------------------------------------------------------------------
(* What stands on a certification stands on one reading of one workspace: whatever operators   *)
(* prepare, edit and sign, every answer names the published commitment and every signed plan   *)
(* hangs together; and every permit of the dispatch speaks for the reading it was drawn from, *)
(* of an activation that is the only one of its time (workspace, dispatch permits).            *)
THEOREM CertifiedStandsTheorem == WorkspaceSpec /\ PermitSpec => []CertifiedStands
<1>1. WorkspaceStands /\ SignedIsCoherent /\ ActivationIsOne /\ PermitsAreCurrent => CertifiedStands
    BY DEF CertifiedStands
<1> QED
    BY <1>1, WorkspaceIsKept, PermitsAreKept, PTL
=================================================================================
