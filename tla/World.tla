------------------------------- MODULE World -------------------------------
(***************************************************************************)
(* The world map of a project (src/lib/world/world-builder.mjs) and the    *)
(* doctor's reading of it (readWorldIntegrity of doctor-readers.mjs).      *)
(*                                                                         *)
(* The manifest points at sections of the project's documents; the lock    *)
(* keeps the hash of each section and the operational claims read from     *)
(* configuration.  `refine' proposes a manifest and a lock, `apply'        *)
(* writes them when the caller confirms the digest of that very proposal,  *)
(* `ack' takes the present content of a section into the lock, and the     *)
(* doctor tells whether the documents still are what the lock says.        *)
(* Authors edit the documents at any time, no lock is taken, and an        *)
(* operator may be interrupted between two writes.                         *)
(*                                                                         *)
(* A document is abstracted to the sections found under each address: none *)
(* when the heading is gone, two when the address is ambiguous.  A text is *)
(* a model value, and a hash is the text.                                  *)
(***************************************************************************)
EXTENDS Naturals, FiniteSets, Sequences

CONSTANTS
  Slugs,          \* addresses of sections in the scanned documents
  Regions,        \* OPENRIG_REGIONS, in their order
  CoreRegions,    \* the regions a map has to cover
  Texts,          \* texts an author may write under a heading
  HeadHits,       \* [address -> [region -> keywords of the region in the heading]]
  BodyHits,       \* [text -> [region -> keywords of the region in the body only]]
  Settings,       \* values of a configuration key a claim is made of
  Operators,      \* those who run refine, apply and ack
  MaxEdits,       \* bound on the edits of authors
  MaxRefines      \* bound on the proposals asked for

VARIABLES
  docs,           \* [Slugs -> the texts found under the address]
  gaps,           \* .agentflow/world/gaps.md: [region -> text], or NoFile
  config,         \* what claims are read from: [key, cargo]
  manifest,       \* manifest.yaml: [address -> atom], or NoFile
  lock,           \* world-lock.json: [atoms, claims], or NoFile
  op,             \* each operator's progress: [pc, plan]
  confirmed,      \* the proposal each operator has been shown last
  agreed,         \* history: <<address, text>> pairs confirmed or acknowledged
  quiet,          \* history: whose apply alone has touched the project since it began
  edits, refines

worldVars == <<docs, gaps, config, manifest, lock, op, confirmed, agreed, quiet,
          edits, refines>>

RegionSet == {Regions[i] : i \in 1..Len(Regions)}
Stub == "stub"
Todo == "todo"
Undefined == "undefined"
Nobody == "nobody"
NoFile == [missing |-> TRUE]
NoPlan == NoFile

\* A gap section's slug is the name of its region.
GapSlugs == CoreRegions
Addresses == Slugs \cup GapSlugs
AllTexts == Texts \cup {Stub, Todo}

ASSUME WorldAssumption ==
  /\ Slugs \cap GapSlugs = {} /\ Nobody \notin Operators /\ "missing" \notin RegionSet
  /\ CoreRegions \subseteq RegionSet
  /\ HeadHits \in [Addresses -> [RegionSet -> Nat]]
  /\ BodyHits \in [AllTexts -> [RegionSet -> Nat]]

IndexOf(r) == CHOOSE i \in 1..Len(Regions) : Regions[i] = r
Merge(f, g) == [x \in DOMAIN f \cup DOMAIN g |-> IF x \in DOMAIN f THEN f[x] ELSE g[x]]

-----------------------------------------------------------------------------
(* Scanning.                                                               *)

\* Only the two regions with the highest score are a section's regions: a
\* long text can crowd the region of its own heading out.
classifySection(a, text) ==
  LET score(r) == 4 * HeadHits[a][r] + BodyHits[text][r]
      Before(q, r) == \/ score(q) > score(r)
                      \/ score(q) = score(r) /\ IndexOf(q) < IndexOf(r)
  IN  {r \in RegionSet : /\ score(r) > 0
                         /\ Cardinality({q \in RegionSet : Before(q, r)}) < 2}

\* The gaps file answers from the proposal when it is to be written.
parseMarkdownSections(gapsText) ==
  [a \in Addresses |->
     IF a \in Slugs THEN docs[a]
     ELSE IF a \in DOMAIN gapsText THEN {gapsText[a]} ELSE {}]

GapsText == IF gaps = NoFile THEN << >> ELSE gaps

Sections == parseMarkdownSections(GapsText)

Resolves(sections, a) == Cardinality(sections[a]) = 1

\* Of two sections under one address the scan keeps the first.
resolveAddress(sections, a) == CHOOSE t \in sections[a] : TRUE

Scanned == {a \in Addresses : Sections[a] # {}}

missingCoreRegions ==
  CoreRegions \ UNION {UNION {classifySection(a, t) : t \in Sections[a]} : a \in Addresses}

extractOperationalClaims ==
  (IF config.key # Undefined THEN {[id |-> "key", expected |-> config.key]} ELSE {})
    \cup (IF config.cargo THEN {[id |-> "cargo", expected |-> "present"]} ELSE {})

brokenClaims(claims) ==
  {c \in claims : IF c.id = "key" THEN config.key # c.expected ELSE ~config.cargo}

-----------------------------------------------------------------------------
(* Refining: the proposal is a function of the files and of the options.   *)

buildGapStubMarkdown(regions, todoStubs) ==
  [r \in regions |-> IF todoStubs THEN Todo ELSE Stub]

VirtualGaps(o) ==
  IF o.stubGaps THEN buildGapStubMarkdown(missingCoreRegions, o.todoStubs) ELSE << >>

\* A section found on disk comes before the stub of the same address.
manifestAtoms(stubs) ==
  Merge([a \in Scanned |->
           [regions |-> classifySection(a, resolveAddress(Sections, a)), sound |-> TRUE]],
        [a \in DOMAIN stubs |-> [regions |-> {a}, sound |-> TRUE]])

lockAtoms(stubs) ==
  Merge([a \in Scanned |-> resolveAddress(Sections, a)], stubs)

digestPayload(o) ==
  LET stubs == VirtualGaps(o)
  IN  [manifest |-> manifestAtoms(stubs),
       lock |-> [atoms |-> lockAtoms(stubs), claims |-> extractOperationalClaims],
       stubGaps |-> o.stubGaps,
       gaps |-> stubs]

plan(o) == digestPayload(o)

unresolvedAddresses(p) ==
  LET text == parseMarkdownSections(IF p.stubGaps /\ p.gaps # << >> THEN p.gaps ELSE GapsText)
  IN  {a \in DOMAIN p.manifest : ~Resolves(text, a)}

unresolvedGapTodo(p) ==
  \E a \in GapSlugs :
    LET text == IF p.stubGaps /\ p.gaps # << >> THEN p.gaps ELSE GapsText
    IN  a \in DOMAIN text /\ text[a] = Todo

uncoveredRegions(p) ==
  CoreRegions \ UNION {p.manifest[a].regions : a \in DOMAIN p.manifest}

\* Mutant: addresses are looked up on disk, the stubs to come included.
validateWorldQualityOnDisk(p, allowStubs) ==
  /\ {a \in DOMAIN p.manifest \ DOMAIN p.gaps : ~Resolves(Sections, a)} = {}
  /\ allowStubs \/ ~unresolvedGapTodo(p)
  /\ uncoveredRegions(p) = {}
  /\ brokenClaims(p.lock.claims) = {}

validateWorldQuality(p, allowStubs) ==
  /\ unresolvedAddresses(p) = {}
  /\ allowStubs \/ ~unresolvedGapTodo(p)
  /\ uncoveredRegions(p) = {}
  /\ brokenClaims(p.lock.claims) = {}

-----------------------------------------------------------------------------
(* The doctor.                                                             *)

pointerFindings == {a \in DOMAIN manifest : ~Resolves(Sections, a)}

atomFindings == {a \in DOMAIN manifest : ~manifest[a].sound}

\* An atom without an entry in the lock, or a lock that is missing, is passed over.
driftFindings ==
  IF lock = NoFile THEN {}
  ELSE {a \in DOMAIN manifest \cap DOMAIN lock.atoms :
          Resolves(Sections, a) /\ resolveAddress(Sections, a) # lock.atoms[a]}

claimFindings == IF lock = NoFile THEN {} ELSE brokenClaims(lock.claims)

\* 'World manifest pointers, probes, section hashes, and operational claims are aligned.'
readWorldIntegrity ==
  /\ manifest # NoFile
  /\ pointerFindings = {} /\ atomFindings = {}
  /\ driftFindings = {} /\ claimFindings = {}

-----------------------------------------------------------------------------
(* Authors.                                                                *)

InitWorld ==
  /\ docs \in [Slugs -> {{t} : t \in Texts}]
  /\ gaps = NoFile /\ manifest = NoFile /\ lock = NoFile
  /\ config \in [key : Settings, cargo : {TRUE}]
  /\ op = [o \in Operators |-> [pc |-> "idle", plan |-> NoPlan]]
  /\ confirmed = [o \in Operators |-> NoPlan]
  /\ agreed = {} /\ quiet = Nobody
  /\ edits = 0 /\ refines = 0

Edit == /\ edits < MaxEdits /\ edits' = edits + 1
        /\ quiet' = Nobody
        /\ UNCHANGED <<lock, op, confirmed, agreed, refines>>

EditSection(a) ==
  /\ Edit
  /\ \E found \in ({{}, Texts} \cup {{t} : t \in Texts}) \ {docs[a]} :
       docs' = [docs EXCEPT ![a] = found]
  /\ UNCHANGED <<gaps, config, manifest>>

EditGaps ==
  /\ Edit
  /\ gaps # NoFile
  /\ \/ \E r \in GapSlugs, t \in Texts : gaps' = Merge([x \in {r} |-> t], gaps)
     \/ gaps' = NoFile
  /\ UNCHANGED <<docs, config, manifest>>

EditConfig ==
  /\ Edit
  /\ \/ \E v \in (Settings \cup {Undefined}) \ {config.key} : config' = [config EXCEPT !.key = v]
     \/ config' = [config EXCEPT !.cargo = ~@]
  /\ UNCHANGED <<docs, gaps, manifest>>

EditManifest ==
  /\ Edit
  /\ manifest # NoFile
  /\ \E a \in DOMAIN manifest : manifest' = [manifest EXCEPT ![a].sound = FALSE]
  /\ UNCHANGED <<docs, gaps, config>>

-----------------------------------------------------------------------------
(* Operators.                                                              *)

RefineOptions == {o \in [stubGaps : BOOLEAN, todoStubs : BOOLEAN] : o.todoStubs => o.stubGaps}

refineWorld(o) ==
  /\ op[o].pc = "idle"
  /\ refines < MaxRefines /\ refines' = refines + 1
  /\ \E options \in RefineOptions : confirmed' = [confirmed EXCEPT ![o] = plan(options)]
  /\ UNCHANGED <<docs, gaps, config, manifest, lock, op, agreed, quiet, edits>>

PairsOf(atoms) == {<<a, atoms[a]>> : a \in DOMAIN atoms}

\* Mutant: the caller confirms, whatever the proposal has become.
applyWorldAny(o) ==
  /\ op[o].pc = "idle"
  /\ confirmed[o] # NoPlan
  /\ \E options \in RefineOptions, allowStubs \in BOOLEAN :
       LET p == plan(options) IN
       /\ options.stubGaps = confirmed[o].stubGaps
       /\ validateWorldQuality(p, allowStubs)
       /\ op' = [op EXCEPT ![o] = [pc |-> IF p.gaps = << >> THEN "manifest" ELSE "gaps",
                                   plan |-> p]]
       /\ agreed' = agreed \cup PairsOf(confirmed[o].lock.atoms)
  /\ quiet' = o
  /\ UNCHANGED <<docs, gaps, config, manifest, lock, confirmed, edits, refines>>

\* The proposal is made again: it has to be the confirmed one and of quality.
applyWorld(o) ==
  /\ op[o].pc = "idle"
  /\ confirmed[o] # NoPlan
  /\ \E options \in RefineOptions, allowStubs \in BOOLEAN :
       LET p == plan(options) IN
       /\ p = confirmed[o]
       /\ validateWorldQuality(p, allowStubs)
       /\ op' = [op EXCEPT ![o] = [pc |-> IF p.gaps = << >> THEN "manifest" ELSE "gaps",
                                   plan |-> p]]
       /\ agreed' = agreed \cup PairsOf(confirmed[o].lock.atoms)
  /\ quiet' = o
  /\ UNCHANGED <<docs, gaps, config, manifest, lock, confirmed, edits, refines>>

Touch(o) == quiet' = IF quiet = o THEN o ELSE Nobody

writeGaps(o) ==
  /\ op[o].pc = "gaps"
  /\ gaps' = op[o].plan.gaps
  /\ op' = [op EXCEPT ![o].pc = "manifest"]
  /\ Touch(o)
  /\ UNCHANGED <<docs, config, manifest, lock, confirmed, agreed, edits, refines>>

writeManifest(o) ==
  /\ op[o].pc = "manifest"
  /\ manifest' = op[o].plan.manifest
  /\ op' = [op EXCEPT ![o].pc = "lock"]
  /\ Touch(o)
  /\ UNCHANGED <<docs, gaps, config, lock, confirmed, agreed, edits, refines>>

writeLock(o) ==
  /\ op[o].pc = "lock"
  /\ lock' = op[o].plan.lock
  /\ op' = [op EXCEPT ![o].pc = "applied"]
  /\ Touch(o)
  /\ UNCHANGED <<docs, gaps, config, manifest, confirmed, agreed, edits, refines>>

\* One atom or all: the lock with the present content of the sections, to be written.
ackWorld(o) ==
  /\ op[o].pc = "idle"
  /\ manifest # NoFile /\ lock # NoFile
  /\ \E targets \in {DOMAIN manifest} \cup {{a} : a \in DOMAIN manifest} :
       /\ \A a \in targets : Resolves(Sections, a)
       /\ LET present == [a \in targets |-> resolveAddress(Sections, a)] IN
          /\ op' = [op EXCEPT ![o] =
                      [pc |-> "ack",
                       plan |-> [lock EXCEPT !.atoms = Merge(present, @)]]]
          /\ agreed' = agreed \cup PairsOf(present)
  /\ UNCHANGED <<docs, gaps, config, manifest, lock, confirmed, quiet, edits, refines>>

writeAcknowledged(o) ==
  /\ op[o].pc = "ack"
  /\ lock' = op[o].plan
  /\ op' = [op EXCEPT ![o] = [pc |-> "idle", plan |-> NoPlan]]
  /\ quiet' = Nobody
  /\ UNCHANGED <<docs, gaps, config, manifest, confirmed, agreed, edits, refines>>

\* The command returns, or ends between two writes.
endCommand(o) ==
  /\ op[o].pc # "idle"
  /\ op' = [op EXCEPT ![o] = [pc |-> "idle", plan |-> NoPlan]]
  /\ confirmed' = [confirmed EXCEPT ![o] = NoPlan]
  /\ UNCHANGED <<docs, gaps, config, manifest, lock, agreed, quiet, edits, refines>>

NextWorld ==
  \/ \E a \in Slugs : EditSection(a)
  \/ EditGaps \/ EditConfig \/ EditManifest
  \/ \E o \in Operators :
       \/ refineWorld(o) \/ applyWorld(o)
       \/ writeGaps(o) \/ writeManifest(o) \/ writeLock(o)
       \/ ackWorld(o) \/ writeAcknowledged(o)
       \/ endCommand(o)

WorldSpec == InitWorld /\ [][NextWorld]_worldVars

-----------------------------------------------------------------------------
(* Properties.                                                             *)

\* When the doctor reports the world aligned, the text of every section it
\* compared is one an operator confirmed in a digest or acknowledged: an edit
\* between refine and apply, or after them, is never taken for reviewed
\* content, whoever else applies or acknowledges meanwhile.
AlignedMeansAgreed ==
  readWorldIntegrity /\ lock # NoFile =>
    \A a \in DOMAIN manifest \cap DOMAIN lock.atoms :
      <<a, resolveAddress(Sections, a)>> \in agreed

Replaced(p) == {a \in DOMAIN p.gaps : p.lock.atoms[a] # p.gaps[a]}

\* An apply that nobody disturbed leaves a world in which every pointer
\* resolves, every claim holds and every core region is covered; only a gap
\* section that its stub has just replaced shows as drift.  In particular the
\* new gaps file never leaves an atom of the old one dangling.
AppliedIsSound ==
  \A o \in Operators :
    quiet = o /\ op[o].pc = "applied" =>
      /\ pointerFindings = {} /\ atomFindings = {} /\ claimFindings = {}
      /\ driftFindings \subseteq Replaced(op[o].plan)
      /\ CoreRegions \subseteq UNION {manifest[a].regions : a \in DOMAIN manifest}
=============================================================================
