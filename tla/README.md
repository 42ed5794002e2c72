# A verification project for twinmodel

TLA+ models of twinmodel's draft service, web editor, command line and language
tools, model-checked with TLC on small instances and, for the modules that have a
`_proofs` companion, proved with TLAPS for every value of the constants.  Every
definition is translated from the source; `PROJECT.json` names the lines each one
stands for.

## The system

twinmodel is one Go program.  It edits *models* (YAML files describing OPC UA
types and instances), checks them, and turns them into other formats.  Its
command line works on a directory; its server keeps *drafts* of a Git
repository's model files in memory, for a web editor (REST) and for agents (MCP),
and proposes a draft as a GitHub pull request.

### Inventory

| component | state | operations | interacts with |
|---|---|---|---|
| **Draft store** (`core/store.go`, `app/core.go`) | map id -> draft (files, base files, `UpdatedAt`) behind one mutex; a ticker | Create (evicts at capacity), Get, Update, Mutate, List, Discard, Sweep | called by the service; its sweeper is a goroutine of its own |
| **Draft editing** (`core/patch.go`, `core/service.go`) | none of its own | add/remove tools (read, splice, validate, write in one critical section), UpdateDraft (whole files), the reads | store, parser, validator; callers are MCP tools and REST handlers, concurrently |
| **File selection** (`core/files.go`) | none | which key of a draft a file name means, for reads, writes and diffs | draft editing |
| **Proposing and the Git host** (`core/service.go`, `core/github.go`, `propose_pr`) | none that survives a call; the remote's branches and pull requests | lint a copy, clone, commit, push, POST; describe what failed | store, validator, GitHub |
| **Web editor state** (`ui/app/stores/draft.ts`, and the components that guard its actions) | selected draft and file, the shown model, `saving`, `frozen` | load, switch file, edit = save + reload, undo = save an older copy, switch branch, propose, bootstrap | REST API, with requests that overtake each other and fail |
| **DSL validator** (`dsl/validate*.go`, `isa95.go`, `resolve*.go`) | none | inheritance, members, hierarchy, perspectives, member resolution | gate of all strict writes and proposals |
| **DSL parser and formatter** (`dsl/parse.go`, `format.go`) | none | YAML to AST and back; every text of a draft, and every file `fmt -w` writes, is the formatter's | everything |
| **Companion specifications** (`nodeset/`) | a catalog loaded once; the files `nodesets/` of an output directory | dependency closure of imports, materialising, search | validator, command line |
| **Semantic diff** (`semdiff/`) | none | change list between two models | DraftDiff, command line |
| **Emitters** (`modeldesign/`, `i3x/`, `mermaid/`) | none | model to XML, JSON, diagram | command line, editor |
| **Command line** (`cmd/twinmodel/`) | an input and an output directory | build, export, lint, fmt, compile: list, read, load, lint, then write or call the ModelCompiler | all pure parts; the user's editor, the file system |
| **REST and MCP servers** (`api/`, `mcp/`, `app/serve.go`) | none | routing, argument checks | the service |

### What is hard, and what makes each part correct

* *Store.*  Clients, sweeper and restarts interleave; eviction and expiry compete.
  Correct: bounded in number, bounded in idle time, a draft is lost for a reason
  only, expired drafts go first, abandoned drafts are reclaimed.
* *Editing.*  Two add tools on one draft, an agent writing whole files, a web
  editor, a proposal and the loss of the draft may all interleave.  Correct: patches
  are atomic and none is lost to another, strict writes leave no error, what is
  proposed was linted.
* *File selection.*  A request's files are written in Go's random map order and
  each name is resolved against what is there by then.  Correct: the order does not
  matter and no file is changed under another's name.
* *Proposing.*  Three exchanges with a remote that others use, each of which may
  fail, or succeed unheard.  Correct: no branch loses commits, the base is not
  moved, an open pull request shows what was linted, answers say what happened, no
  orphaned drafts.
* *Editor.*  A single thread, but every `await` lets another action start, and answers arrive in
  any order; a toast may undo an edit long after it.  Correct: what is shown is what is stored,
  a file never receives another's text, no acknowledged edit is lost, controls are disabled
  exactly while a save is under way.
* *Command line.*  Several inputs, each of which may be unreadable or in error; files that
  are emptied before they are filled, by commands that may be killed, over what earlier
  commands left, while the user saves.  Correct: nothing is written unless all inputs are
  clean, nothing is emitted that does not build, formatting changes no model that the
  formatter can write, and the
  compiler is given whole files that belong together.
* *Parser and formatter.*  What the formatter writes is parsed again by everybody, for
  ever.  Correct: it parses, to the same model, and formatting it again changes nothing.
* *Companion specifications.*  Names are resolved in one closure of the imports and the
  compiler is given another.  Correct: they agree, and each spec comes after its
  requirements.
* *Pure parts.*  A file under edit may be cyclic in three ways, declare a name twice,
  or refer to what is not there, and the same model is judged with one catalog and
  built with another.  Correct: all walks end and cycles are reported, the two
  judgements agree, what is built refers to what there is and has its levels in
  order, a diff reports what changes the result.

`PROJECT.json` lists the hazards at their lines with the properties that cover
them.

## The modules

| module | models | correspondence |
|---|---|---|
| `DraftStore` | lifetime of drafts | `idle` is the map, with now - `UpdatedAt` for each id; one action per method (each holds the mutex throughout), `Sweep`, `Tick`, `Restart` |
| `ModelText` | what a file's text is to its editors | nodes with references and a flag for a text that does not parse; `Clean` is "parses and has no error", `Spliced` an add or remove tool, `Formatted` what `Format` may make of a text (below), `JudgedOf` what the gate of a patch looks at |
| `AtomicEdits` | what editing promises | abstract specification: each patch is one step on the text of that moment, and what is stored is one of its `Formatted` texts |
| `DraftEdits` | one file of one draft under all its clients | the mutex is a variable; a patch is lock, splice, store or refuse; whole-file clients read and write in two critical sections; every write stores what `Format` makes of the text, which need not be what was judged; `Snapshot`/`OpenPR` work on a copy; the history `frail` keeps which nodes `Format` may not have kept |
| `FileKeys` | file names and keys | `resolvePath`, `resolveWriteKey`; one step per iteration of UpdateDraft's loop |
| `ProposePR` | from a draft to a pull request | one step per exchange with the remote; heads are ancestor-closed sets of commits, so a fast-forward is set inclusion |
| `Registry` | the bundled companion specifications | the work list of `LoadForImports` (`want`, `sets`) and the recursion of `Dependencies` (a frame on `stack` per open call of `visit`), which run on the same imports |
| `CommandLine` | build, export, lint, fmt and compile on two directories | extends `Registry`, whose two closures are taken step by step as commands load and compile; `disk` is the content of each file; a write is two steps, emptying and filling, and between any two steps the user may save and the process be killed; `Judge` may also end with an error of the emitter; `fmt` writes what `Format` makes of the model, and `garbled` keeps for which files that may not be the model |
| `Syntax` | parsing and formatting one file | a text is the tree YAML reads in it; one operator per `parse...` and `format...` function; `Parses` is "no error"; a file is saved by a user, formatted by `fmt -w` or a draft, or gets a declaration spliced in |
| `Dsl` | a parsed model and what its names mean | a model is a record of sequences in file order; `Walk` is every loop over references with its `seen` map, `Loaded` and `Required` are `LoadForImports`, `ResolveType` and `MembersOf` the resolvers |
| `Lint` | the linter | one `Check...` operator per method of the validator; `Validate` is a set of a code and a path; the perspective search keeps its colours and its stack |
| `Emitters` | ModelDesign and i3X output | which nodes there are and which names they refer to (`Design`, `Bundle`), without layout |
| `SemDiff` | the change list | one `Diff...` operator per function |
| `ModelTools` | a draft's model under the tools that edit it | one action per add or remove tool, strict or forced, and whole-file writes; `Judged` is the model with the service's catalog, `Built` with the command line's |
| `DraftEditor` | the editor's store and the server it talks to | an action up to its `await` is one step, its continuation another; requests in flight are served and answered at separate moments, and one whose failure the editor has seen may be served still (`ServeStray`); a removal's toast holds the model before it (`undos`), and `Undo` saves that into whatever is selected; the history `mishaps` keeps what the user did in haste, undid elsewhere or late, and which kinds of request failed, and each property names the mishaps it excepts |

`ModelText` and `CommandLine` do not take `Format` for the identity, which it is not, and
leave to `Syntax` when it is.  Two constants name the exceptions.  A *bare* declaration (a
type `{}`) is written as a key with nothing under it: the result does not parse.  A
*misquoted* string (one that YAML has a meaning for and that `needsQuote` misses) is written
without quotes: the result may be any text at all, parsable or not.  In `DraftEdits` they
are nodes of a file, in `CommandLine` models.  `patch.go:94-97` judges the model when the
formatted text does not parse, `service.go:392-395` stores a formatted text that nobody
judged, and `main.go:369-377` writes one over the user's file.

`DraftStore` and `DraftEdits` split the store: the first has the ids and the
ages and no contents, the second has the contents of one draft and reduces the
others' effect to `Lose`.  `CommandLine` composes the command line with `Registry`: the
closures of the imports advance as one of its commands runs, and the properties of
`Registry` are checked and proved of the composition.  `ProposePR` again takes a draft's
text as one value and lets `Edit` and `Lose` change it at any time, which is all that
`DraftEdits` lets other clients do.  `DraftEditor` takes the server's answers from the same
operations (`ServeLoad`, `ServePut`, `ServePropose`).  `DraftEdits` instantiates
`AtomicEdits` with a refinement mapping: the snapshot of a proposer is its copy while
it lints.

`ModelTools` is on top of `SemDiff`, `Emitters`, `Lint` and `Dsl`, which have no
variables: they are operators on a model, and `ModelTools` supplies the models by
running the tools.  It is the same file as that of `DraftEdits`, seen from inside:
there a text is nodes that refer to each other and is clean or not, here cleanness is
what the linter says.

Definitions under a comment "Mutant" are wrong versions of the definition below
them, each a bug the code could plausibly have; every property of a passing run
fails under one of them, so none holds by the shape of the model.

## The runs

| run | instance | shows |
|---|---|---|
| `draft_store` | 4 ids, capacity 3, TTL 2, sweep every 2 | all store properties, `Reclaimed` under fairness |
| `edits` | 2 patchers, 1 agent, 1 web editor, 1 proposer, 1 creator; a type, an instance of it and a bare type | strict writes stay clean until a bare node is formatted, no patch lost to another even then, proposals linted, refinement of `AtomicEdits` |
| `edits_gate` | 1 patcher; the same nodes | **violation**: a strict patch adds the bare type and stores a text that does not parse |
| `edits_race` | a creator and a patcher | **violation**: CreateDraft reads the published draft's map without the mutex |
| `file_keys` | 2 bare names, 2 directories with a namesake of one of them; every initial draft, every request, every order | order irrelevant unless entangled, no foreign writes, diff against own base |
| `commands` | 8 of the 13 bundled specs with the RequiredModels of their files, ns0 and a spec not bundled; a model for every list of up to 2 imports; directories of two files, in error, unparsable, bare, misquoted, or asking for one output name; kills, failed writes and saves at any moment | dependencies come first and once, the compiler gets what was judged, no spec more and none less, only buildable models are emitted, a refused command leaves no trace, success means all is written, formatting keeps every model that `Format` can write |
| `format` | 25 files, from the size of the examples down to every declaration with nothing in it, and strings that YAML has a meaning for; 7 declarations to add; 3 writings | what the formatter writes parses to the same model and is a fixed point, except where it does not |
| `models` | the examples' furnace and plant in small and a model of a companion type; 4 bundled specs; every sequence of 2 tool calls or whole-file writes out of 3 imports, 2 enums, 5 types, 10 instances, 2 perspectives | cycles are found and only they, the two catalogs judge alike, levels descend, outputs refer to what there is, an empty diff means an equal result |
| `propose` | 1 call on a shared draft, 1 with inline files; 3 branches (base, a stale one, a new one); 3 commits beyond the first | pushes are safe (no rewrite, base unmoved), branch held between push and POST, open is clean, truthful answers, no orphaned drafts |
| `editor` | 2 drafts, 2 files, 2 edits and their undoing, 3 requests in flight; up to 2 mishaps: actions that do not wait for an answer, edits undone in another file or after a later edit, requests that fail, failed ones served late | which of shown is stored, own text, own edits kept, undoing restores and proposed is final survive which mishaps; `saving` is true exactly while a save is under way, whatever the user does |
| `editor_undo` | 1 draft, 2 files, 1 edit | **violation**: an edit undone with the other file selected is not undone, and the other file gets this one's text |
| `editor_reorder` | 1 draft, 2 files, 3 requests in flight | **violation**: two switches of file answered in the other order |

### Bounds, and why they are enough

* `DraftStore`: one id more than places makes eviction happen; a TTL and an interval
  of two units give drafts that are fresh, at the TTL, expired and not yet swept.
  Ages are bounded by the model itself (`IdleBounded`), so no bound is imposed.
* `DraftEdits`: two patchers for patch against patch, one client of each other kind
  for every pair of kinds; two nodes, one referring to the other, so that a removal
  may break what an addition relies on, and a bare one.  No step count is bounded.
  `Misquoted` is empty in the runs: a text that may turn into any other makes the instance
  too large for nothing, as `PatchesKept` and `StrictStaysClean` except it.  The proofs are
  for every `Misquoted`, and so is `Refinement`, where it does matter.
* `FileKeys`: names interact only through equal basenames; four names have every
  case: exact, unique namesake, ambiguous, none, and an unrelated name.
* `CommandLine`: the specs around Machinery have every shape the others have, with the only
  diamonds; two imports are one needing the other, both needing a third, one named twice, or
  unrelated.  Each initial directory has bounds of its own: one command for the directories of
  one model, which vary the imports, and two commands and a save for those that vary what the
  files say, so that a second command meets what a killed first one left.  A bare model
  (`Hollow`) and a misquoted one (`Dated`) are formatted, alone and before a file that formats
  well.  Two models are enough for one to be in error, or to have the other's output name.
* `Syntax`: `MaxSteps` bounds behaviours, and `Depth` how deep the trees nest that users write:
  8 is what members of members take (the code has no limit, and the theorems hold for every
  `Depth`).  What `Format` writes may nest deeper than what was read, by no more than twice the
  depth of the members and 8 (`Trees`).  The second writing shows that the first is a fixed
  point, the third adds a declaration to what was formatted or formats what was added. Every
  section and every optional key is in some file, and each kind of emptiness and of a string
  that needs quotes at least once.
* `ModelTools`: `MaxEdits` is the bound.  The seeds are one edit away from each kind of
  defect, so two edits make two defects that could hide each other, a cycle entered
  from outside, a forced edit followed by a strict one, or a level moved on both of its
  sides.  Of 7071 models 240 are clean and edited, 206 of them free of what
  `OutputsClose` excepts; 26 have a cycle of bases and 238 one of nesting; and 128 differ
  from their base with an empty change list, 61 of them in nothing that `DiffHonest`
  excepts.  Members of members have no members,
  which bounds nesting at two; the examples have no more.  The slice of the bundle
  has an abstract type, a chain of three bases across three specs, a placeholder inherited
  through it, an object that is no type, and ISA-95's `EquipmentLevel`.
* `ProposePR`: `MaxCommits` is the only bound on behaviours.  Three commits allow
  two pushes and an upstream commit or a merge between any two exchanges.
* `DraftEditor`: `MaxEdits`, `MaxCalls` and `MaxMishaps` bound edits, requests in flight and
  mishaps.  Two edits make a later one for an undoing to overwrite, in the same file or another;
  each may be undone.  Two requests suffice for any overtaking of two, three for a switch there
  and back; two mishaps are a failure met in haste, or two failures.

Deadlock checking is off for `edits`, `edits_gate`, `edits_race`, `commands`, `models` and `format`:
there the system may stop, since the draft may be gone and every client idle, or the
commands, the edits or the writings used up.

### Fairness

Only `Reclaimed` needs it: weak fairness of `Tick` (time does not stop) and of
`Sweep` (the goroutine of `StartSweeper` is scheduled by the Go runtime and only waits
for a mutex that is held for microseconds).  Nothing is assumed of clients, and no
other property is a liveness property.  `SavingIsTrue` says as a safety property that
controls are not disabled when no save is in flight; that a request in flight ends is
up to the browser.

## The proofs

For every value of the constants that satisfies the named assumptions (`Nat`
bounds, `Nobody` not a client, `Base` idempotent, acyclic requirements, distinct names for
distinct files):

* `DraftStore_proofs`: `TypeCorrect`, `IdleBound`, `Capacity`, `OnlyJustifiedLoss`,
  `ExpiredAreFirst`.
  `IdleBounded` is not inductive: `IInv` adds `IdleSinceSweep`, that an age exceeds the
  TTL by at most the time since the last sweep (a strengthening of the proof, stated
  there), without which a sweep would not be
  known to come in time.  `Capacity` additionally needs the set of live drafts to be
  finite, as it counts them.
* `DraftEdits_proofs`: `TypeCorrect`, `Sections`, `StrictWritesStayClean`, `NoPatchLost`,
  `NothingBrokenProposed`, `Refinement`.  `IInv` is `TypeOK /\ SectionInv`: who is inside a
  patch holds the mutex of a live draft, and what it has spliced is one node away from what is
  *still* stored.  That clause is what mutual exclusion gives, and `NoPatchLost` and
  `Refinement` follow from it.  What `Format` does to the text enters by two lemmas: it keeps a
  text in which nothing is frail (`FormattedSame`), and the nodes of one in which nothing is
  misquoted (`FormattedNodes`). Hence `StrictStaysClean` holds until a frail node is formatted,
  `PatchesKept` until a misquoted one is, and `Refinement` always, as `AtomicEdits` stores a
  formatted text too.  `SectionInv` is not among the properties of the run, as it is about the
  model's own stages.
* `FileKeys_proofs`: `TypeCorrect`, `OrderIrrelevant`, `OnlyNamedChange`,
  `DiffOfOwnBase`.  `OrderIrrelevant` compares the files at each point of a request with
  those of writing the same names at once against the files there were before; the
  lemmas show that distinct names have distinct keys and that earlier writes do not
  change what a later name means, both unless one name is another's basename.

* `CommandLine_proofs`, on `Registry` alone: `WellFormed`, `NoExtraSpec`, `InOrder`,
  `SameClosure`.  `IInv` says of each open call of `visit` that what it has gone over was
  entered and the rest is still on its frame, that what was entered is in the result or on the
  stack, and that frames go down in the order of the requirements (this uses
  `AcyclicAssumption`, true of the bundled files): so a requirement found entered is in the
  result already.

* `CommandLine_proofs`, on the commands: `CommandsTyped`, `CommandsNoExtra`, `CommandsInOrder`,
  `EmitsOnlyBuildable`, `AllOrNothing`, `FormattingKeeps`, `CompilerGetsAll`, `OkMeansWhole`.  The
  invariant `Inv` carries that of `Registry` through every command, including the ones
  that end in the middle of a closure, and says at each stage what of the disk is still
  as it was, what is written, and that what is queued comes from clean models.  `FormattingKeeps`
  and `OkMeansWhole` except the files in `garbled`: those formatted from a model that is bare
  or misquoted and not saved since, of which nothing can be promised.  `NothingExtra` is
  proved and not among the properties of the run, as `CompilerFed` has its consequence.
* `ProposePR_proofs`: `TypeCorrect`, `TruthfulAnswers`, `BranchIsHeld`, `OpenStaysClean`,
  `SafePushing`, and `InlineIsDiscarded` under `MayBeEmpty = FALSE`, which is how the run is
  set; with `TRUE` TLC finds a draft that stays.  `TruthfulAnswers` is about a URL, about "the
  branch and commit were created" and about refusals; the answer that pushing failed is no
  part of it, as it is also given after a push that landed.  The heart of `IInv` is `Own`: a branch
  that a call has pushed, or that has an open pull request, has a commit no other branch
  has.  What is pushed descends from a clone of the base, and the base does not have that
  commit, so the remote refuses anybody else's push to the branch until it is merged.
* `DraftEditor_proofs`: `TypeCorrect`, `SavingHolds`, `PatientSees`, `TextsAreOwn`,
  `EditsAreKept`, `ProposalsAreFinal`.  `OwnText` is claimed of a user who waits and undoes
  nothing with another file or draft selected, `OwnEditsKept` of one who also undoes nothing
  after a later edit of the file, and whose failed saves are not served late; without these
  provisos both are false of the code.  `SavingHolds` rests on there being one save at a
  time unless two overlapped, and holds for a user as hasty as one likes; the others rest on
  `Alone`, that a user who waits has one request in flight, and each has an invariant of
  its own on what that request carries, or one that was given up (`Strays`).

* `ModelTools_proofs`: `LoopsAreFound`, `ServiceAndCommandAgree`, `LevelsAreOrdered`,
  `NamesAreThere`, `NothingIsHidden`, from `SpecsAssumption` (a finite bundle in which a spec
  requires every spec that its nodes are based on) and `InputsAssumption` (what clients may
  write has the shape of a model).  The invariant is the type invariant, `ModelTypes`: each of
  the five properties is about the one model or the two that a state has, and is shown for
  *every* model, so the work is in what the operators compute.

That point asks for induction over data, and the library's induction theorems take a
predicate, which the provers cannot instantiate.  `ModelTools_proofs` does without:

* A recursive function over `Nat` is reasoned about through the *set* of numbers for which
  the claim holds (`Induction`, from the least element of its complement), and exists by
  `Recursion`, whose operators are functions.  `FirstNamedIs`, `UnrepeatedIs`, `FlattenIs` and
  `RequiredIs` come from it.
* `WalkIs` says of every loop over references what it needs of `seen`: the walk repeats no
  name, follows the references, and ends where there is none or at a name seen before.  It
  ends because a longer path has more names of a finite set.  With it `EndlessIff` equates
  what the linter asks (does the walk come back?) with a definition that mentions no walk:
  the largest set from which one can always go on.
* The depth-first search of a perspective is a loop with colours and a stack.  `Good` is its
  invariant (what is done with has no endless way on, what is open lies on the way to the
  node in hand, the stack has what is still to see); a step takes a pair of a node and an
  index which was not taken before (`Grows`), and the pairs are finite, so `SearchSteps` is
  enough.
* `BuiltSame` and `ResolvedSame`: in the closure of the imports every reference of the file
  resolves as it does in the whole bundle, because a companion node's bases are in its spec or
  in what that requires.  `ServiceAndCommandAgree` goes through the checks one by one.
* `LevelsAreOrdered` is an induction along the walk over the nodes above; `CheckTiers` is
  about one step of it.
* `NamesAreThere` reads off each rule of the linter what it lets pass (`CleanBase`,
  `MemberPasses`, `UnderKnown`, `PerspectiveClean`) and follows it through the emitters;
  `NothingIsHidden` reads each part of an empty change list (`TypesUnchanged`, ...) and shows
  that declarations which are alike resolve, inherit and are exported alike
  (`AlikeResolve`, `AlikeMembers`).  The proofs found exceptions that the instance of
  `models` does not reach; they are in `Emittable`, `Unique` and `AlikeInside`: an own
  namespace URI among the imports, a method with a type, members of what is no object, and
  names declared twice.

`DoneIsWhole` of the commands (`OkMeansWhole`) is proved with three invariants on how far a
command is: the files read so far are those not in `todo`, what is left in `queue` is the end
of what was emitted, and of the entries of one name that were reached a later one is on the
disk, whole, or is the one being written.  `ExpiredGoFirst` of the store
(`ExpiredAreFirst`) needs the set of drafts to be finite, to count it.

### The round trip of the formatter

`Syntax_proofs` proves `FormattingIsKept`, that is `FormatKeeps` for all texts of all depths,
from three assumptions: `StringsAssumption` (what `cleanDoc`, `splitPlaceholder`,
`strconv.ParseBool` and `strconv.Atoi` are known to return; the empty string is quoted
properly or not written), `WordsAssumption` (the keywords of the language are strings, which
the provers must be told) and `TextsAssumption` (users save trees, nested at most `Depth`
deep).  In the order of the module:

* Trees and members nest, so the reader and the writer of members are recursive functions.
  Each is shown to exist and to satisfy its equation (`LevelsExist`, `AlongExists`,
  `MembersOKIs`, `ReadMemberIs`, `WriteMemberIs`, `CanonicalIs`), by one argument for all of
  them: what it says of things of depth d fixes what it says of those of depth d + 1.
  TLA+ gives a recursive function no meaning before that is shown.
* Blocks are put together line by line, most of them conditional.  `Longer` says what a
  block with one line more has under each key, so a block is read off by following its lines.
* `MembersKept` is the induction over depth: of a member of any depth, what is written is in
  `Trees`, is accepted, and is read as the member's canonical form.  It holds of *proper*
  members, whose names and documentation could have been read: a doc that `cleanDoc` leaves
  alone, and a key that `splitPlaceholder` splits as it was split.  `ReadIsProper` says that
  whatever is read is proper, at every depth.
* `ImportKept`, `EnumKept`, `TypeKept`, `InstanceKept`, `PerspectiveKept` and `HeaderKept` do
  each kind of declaration, `ImportsKept` and its like each section, and `ModelKept` the model:
  what `Format` writes of a model `m` parses exactly if `~Bare(m)`, and then to
  `CanonicalModel(m)`.
* `ModelAlike`: the canonical form of a model is written like the model.  This is where the
  instances' values come in, whose quotes depend on the types of members looked up along the
  bases (`TypeAlike`): the canonical form must answer each lookup alike.
* The invariant is `TextInv`: a file is one that a user saved, or `Format(meant)` for a `meant`
  that is a model (`ModelIn`: what `Parse` may return, `ParseIn`).  `FormatKeeps` alone is not
  inductive, since it says nothing of a text that is garbled or was just saved.

`TextInv` is not among the properties of the run: `ModelIn` speaks of all sets of members.

Only model-checked: `Reclaimed`, since the prover does not do liveness under fairness, and
`TimelyUndoRestores`, which needs one more invariant (on what a toast on show holds).

## What the models show of the code

Four violations, each with its run and its quotation in `PROJECT.json`:

1. `CreateDraft` (service.go:347) sorts the keys of the live map of a draft
   that is already published (`list_drafts` shows its id), outside the mutex.
2. `mutateDraftFile` (patch.go:96) judges the model when the formatted text does not parse,
   and stores the text, so a strict patch leaves a file that no tool can read: README.md:447
   says that such a write "is refused and stores nothing".
3. `loadModel` (draft.ts:122) applies an answer whatever file is selected by then.
4. The Undo of a toast (TypeView.vue:67, InstanceView.vue:193, EnumView.vue:73) saves the
   model as it was before the removal into the file and draft selected at the click, so the
   removal stays and the other file gets this one's text.

Disagreements that show as an exception of a property and have no run of their own:

* `UpdateDraft` (service.go:392) loses a file of a request with both a bare name and a
  new path ending in it, in one of the two map orders, where service.go:385 has each file
  kept: the entangled requests that `Simultaneous` excepts.
* `propose_pr` (tools_draft.go:284) keeps the draft it created if `UpdateDraft` fails on an
  empty `files`, against the comment at tools_draft.go:288: `MayBeEmpty`, for `InlineDiscarded`.
* A POST that ends without a status is described as a failed push (service.go:583), although
  the push succeeded and the pull request may be open, where service.go:569 wants the user told
  that the work landed: the answer that `AnswersAreTrue` leaves out.
* `fmt -w` (main.go:377) ends with status 0 after writing a text that does not parse, or that
  reads as another model: the files in `garbled`, which `DoneIsWhole` and `InputsKept` except.
* An undo clicked after a later edit of the same file takes that edit back too (`late`, which
  `OwnEditsKept` excepts), and so does a save that failed for the editor and reaches
  the server after the next one (`stray`).

Behaviour the models contain and no property objects to, as no document promises
otherwise or the promise is only implied (see the notes of the hazards): a whole-file
write takes back patches its author never saw; a proposal under the name of an existing
branch the base descends from fast-forwards it; `frozen` survives a switch of branch
(draft.ts:498); "Add instance..." is not disabled while saving (TreePane.vue:262); a new
bare file may be diffed with a namesake's base (service.go:473).

Of the pure parts, the properties of `models` hold with the exceptions they name, and
each exception is something the code does that a document or a comment reads
otherwise, or nobody decided:

* `machine-under-machine` is reported by the service for models that do not import
  ISA-95, and not by the command line (validate.go:542 asks the catalog, and the service's
  has everything).
* `typeRefElementID` puts a companion type found in the catalog into the namespace of
  OPC UA itself (i3x/emit.go:519-537), where its comment says the import's.  So is a
  companion *object* that an instance is under, which becomes a stub type, and the
  instance's parent is no object of the bundle.
* An instance without `under:` or without a type, and an enum as an instance's type, pass
  the linter; the outputs then have an empty target or type.
* Children of instances of companion types are checked, but have no type in i3X and
  are left out of ModelDesign, as are such instances' values.
* An organizational node under equipment is not reported, and a `level:` together with a
  value for `EquipmentLevel` exports that child twice.
* `instance-cycle` is also said of instances that only lead into a cycle.
* The change list is blind to levels, perspectives, `hierarchy:`, the URI of an import,
  members of members, what a child stands for, name, prefix and date, order, and an
  empty value that is added.

Of the command line and the formatter, again as exceptions that the properties name:

* A declaration with nothing in it (a type `{}`, an enum without values, a node of a
  perspective `{}`) parses, and `Format` writes it as a key with nothing under it, which does
  not.  `add_type` and `add_instance` accept such a fragment, and `fmt -w` writes it over the
  user's file; patch.go:91 has it that "Format's output should always re-parse cleanly".
  These are the bare nodes and models of `DraftEdits` and `CommandLine`.
* `needsQuote` (format.go:255) quotes no leading `- ` or `? `, no line break and no date,
  and the values of numbers and Booleans are written verbatim whatever they are.  These are
  the misquoted ones.
* Of a section that comes twice the parser takes the last, except of the header, and
  formatting drops the rest.
* Two models whose prefixes end alike get one output name, and `export` has fixed names:
  the later model overwrites the earlier and the exit status is 0, where main.go:140 says
  that build "emits every model in the input directory".
* `fmt -w` loses a text saved between its read and its write, and the file it is
  writing at a kill.
* Two compiles into one directory share `nodesets/`; the model has one command at a time.

The editor's previews emit a third variant, with no catalog at all; `OutputsClose` is
about what the command line builds.

## Not modelled, and why

* YAML itself: what tree a text has is the library's business, and `Syntax` starts from
  the tree.  Comments, positions and the wording of messages.
* Mermaid, XML and JSON layout, DTO conversions, the JSON schema: pure conversions
  without state, field by field.
* The commands that only print (catalog, diff, diagram, schema, version), the paths of
  Docker, and the NodeId CSV, which the ModelCompiler reads and writes.
* The catalog's listings and searches, and the reading of NodeSet XML.
* Authentication, limits of request bodies, routing, static files.
* The editor's derived views and its `loading` flag, which no control looks at; its
  bootstrap (planned).
* Git's objects: a commit is a number, a tree the one text of its model files.
  Files changed upstream after a draft was made and put back by its proposal are
  therefore not visible; this is listed as a hazard.
* Clients that push to the service's branches behind its back.

## Plan

What was planned first is done: the core and its proofs, the command line composed with
`Registry`, the parser and formatter, the proofs of `ProposePR`, `DraftEditor`,
`ModelTools` and `Syntax`.  Left, in order of importance:

1. **`DraftEditor`**: a proof of `TimelyUndoRestores`; bootstrap and `recoverOrCreate` (a draft
   id that has been lost, against `DraftStore`'s restart).
2. **`ProposePR`** with several files per commit, so that a proposal which puts back files
   changed upstream (github.go:158) can be told from one that does not.
3. `DraftEdits` with a misquoted node and fewer clients, should a run become free.
4. The catalog's listings, on the slice of the bundle of `models`; two commands at a time.

An abstract specification worth stating beyond `AtomicEdits` is an atomic pull request
(branch and request appear together or not at all), which `ProposePR` does *not*
implement and whose exceptions are worth naming.  The whole is kept to twelve runs, one per
question: the items above extend runs there are.
