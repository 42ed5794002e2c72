----------------------------- MODULE CommandLine ------------------------------
(* The commands of cmd/twinmodel that judge, emit, format and compile model   *)
(* files: build, export, lint and fmt of main.go, compile of compile.go, and  *)
(* Materialize of nodeset/registry.go.  The catalog of a model and the specs  *)
(* its compilation needs are Registry's two closures, taken step by step.     *)
(*                                                                            *)
(* One command runs at a time, in a process of its own.  os.WriteFile and     *)
(* os.Create empty a file and then fill it, two steps here: between them a    *)
(* write may fail or the process be killed.  All the while the user may save  *)
(* or remove model files.                                                     *)
(*                                                                            *)
(* Of a model only that is said which decides how a command treats it: what   *)
(* it imports, the specs its names resolve in, whether the linter finds an    *)
(* error even so (Red), what Format makes of it (Bare, Misquoted), and the    *)
(* name of its ModelDesign.  What is emitted is a function of the model, and  *)
(* the model stands for it.                                                   *)
(*                                                                            *)
(* External: the user, the ModelCompiler, and the file system.  Left out: the *)
(* NodeId CSV, which only the ModelCompiler writes, and the paths of Docker.  *)
EXTENDS Registry

CONSTANTS
    Order,        \* the files of the input directory, sorted
    Models,       \* what a model file may say: [imports, uses, red, name]
    Imported,     \* what each model imports
    Uses,         \* the bundled specs its names resolve in
    Red,          \* the models with an error of another kind
    Bare,         \* those with a declaration that Format leaves empty
    Misquoted,    \* those with a string that Format should quote and does not
    Names,        \* the file names of ModelDesigns
    Name,         \* outputName: the one each model gets
    Documents,    \* i3x.FileNames
    Cases,        \* what the input directory may hold at the start, and the
                  \*   bounds, for TLC, on the commands and the saves to come
    Saved,        \* what the user may save in a file, or Absent to remove it
    Unparsable,   \* a text that is no model
    Torn,         \* the content of a file that was emptied and not filled
    Absent        \* of a file that is not there

Files == Range(Order)
Outputs == Names \cup Range(Documents) \cup Specs

\* What Format writes of these may not be read, or not as the same model, so a
\* text that is canonical is of another model.
Frail == Bare \cup Misquoted
Readable == {t \in [model : Models, canonical : BOOLEAN] : t.canonical => t.model \notin Frail}
Texts == Readable \cup {Unparsable}

ASSUME ModelsAssumption ==
    /\ Imported \in [Models -> Lists] /\ Uses \in [Models -> SUBSET Specs]
    /\ Red \cup Frail \subseteq Models /\ Name \in [Models -> Names]
ASSUME PathsAssumption ==
    /\ Order \in Seq(Files) /\ Documents \in Seq(Range(Documents))
    /\ Files \cap Outputs = {} /\ Names \cap Range(Documents) = {}
    /\ (Names \cup Range(Documents)) \cap Specs = {}
ASSUME ContentsAssumption ==
    /\ {Torn, Absent, Unparsable} \cap (Models \cup Specs) = {}
    /\ {Torn, Absent} \cap Texts = {} /\ Torn # Absent
    /\ Unparsable \notin [model : Models, canonical : BOOLEAN]
    /\ Models \cap Specs = {}
ASSUME InputsAssumption ==
    /\ \A c \in Cases :
        /\ c.dir \in [Files -> Texts \cup {Absent}]
        /\ c.commands \in Nat /\ c.saves \in Nat
    /\ Saved \subseteq Texts \cup {Absent}
    /\ <<>> \in Lists

VARIABLES
    disk,    \* the content of each file, of the input and of the output directory
    cmd,     \* the last command
    pc,      \* where it is
    todo,    \* the files it has still to read
    model,   \* the model it read last
    failed,  \* whether it has met an error
    queue,   \* what it has still to write
    open,    \* whether the file it is writing is empty as yet
    built,   \* the models it found clean
    answer,  \* how the last command ended
    listed,  \* history: the files it listed
    before,  \* history: the disk when it started
    saved,   \* history: the files the user has saved since
    kept,    \* history: the text of each file that formatting must keep
    garbled, \* history: the files that were formatted from a frail model
    left     \* how many commands and how many saves there are to come

command == <<cmd, pc, todo, model, failed, queue, open, built, answer>>
history == <<listed, before, saved, kept, garbled>>
vars == <<disk, command, history, left, registryVars>>

Judging == {"build", "export", "lint", "compile"}
Formatting == {"fmt", "fmt -w"}
Stages == {"idle", "reading", "loading", "writing", "rewriting", "visiting",
           "materializing", "compiling"}
Answers == {"none", "ok", "errors", "misuse", "failed", "killed"}

Content(p) ==
    IF p \in Files THEN Texts \cup {Torn, Absent}
    ELSE IF p \in Specs THEN {p, Torn, Absent}
    ELSE Models \cup {Torn, Absent}
Entries ==
    {e \in [path : Files \cup Outputs, content : Texts \cup Models \cup Specs] :
        e.content \in Content(e.path)}

TypeOK ==
    /\ TypeOKRegistry
    /\ DOMAIN disk = Files \cup Outputs
    /\ \A p \in DOMAIN disk : disk[p] \in Content(p)
    /\ cmd \in Judging \cup Formatting /\ pc \in Stages
    /\ todo \in Seq(Files)
    /\ model \in Models \cup {Absent}
    /\ failed \in BOOLEAN /\ open \in BOOLEAN
    /\ queue \in Seq(Entries)
    /\ built \in Seq(Models)
    /\ answer \in Answers
    /\ listed \in Seq(Files) /\ saved \subseteq Files
    /\ before \in [Outputs -> Models \cup Specs \cup {Torn, Absent}]
    /\ kept \in [Files -> Texts \cup {Torn, Absent}]
    /\ garbled \subseteq Files
    /\ left \in [commands : Nat, saves : Nat]

Init ==
    /\ \E c \in Cases :
        /\ disk = [p \in Files \cup Outputs |-> IF p \in Files THEN c.dir[p] ELSE Absent]
        /\ kept = c.dir
        /\ left = [commands |-> c.commands, saves |-> c.saves]
    /\ cmd = "lint" /\ pc = "idle" /\ todo = <<>>
    /\ model = Absent /\ failed = FALSE
    /\ queue = <<>> /\ open = FALSE /\ built = <<>>
    /\ answer = "none"
    /\ listed = <<>> /\ saved = {} /\ garbled = {}
    /\ before = [p \in Outputs |-> Absent]
    /\ InitRegistry /\ imports = <<>>

-------------------------------------------------------------------------------
(* Both closures anew, for a list of imports.                                 *)
Ask(list) ==
    /\ imports' = list
    /\ want' = Range(list) \cap Specs /\ sets' = {}
    /\ stack' = <<Frame(Nobody, list)>> /\ seen' = {} /\ out' = <<>>

Writing == pc \in {"writing", "rewriting", "materializing"} /\ queue # <<>>

(* A file that is left empty, or that was saved while it was being rewritten, *)
(* is lost.                                                                   *)
Lost(f) == IF f \in Files THEN [kept EXCEPT ![f] = Torn] ELSE kept

(* The process ends; its memory is gone.                                      *)
Exit(how) ==
    /\ pc' = "idle" /\ answer' = how
    /\ todo' = <<>> /\ model' = Absent /\ failed' = FALSE
    /\ queue' = <<>> /\ open' = FALSE
    /\ kept' = IF open THEN Lost(Head(queue).path) ELSE kept
    /\ Ask(<<>>)
    /\ UNCHANGED <<disk, cmd, built, listed, before, saved, garbled, left>>

(* modelFiles: the files that are there, sorted.                              *)
Sorted(s) ==
    \A i, j \in DOMAIN s : i < j =>
        \E k, l \in DOMAIN Order : k < l /\ Order[k] = s[i] /\ Order[l] = s[j]
Listings ==
    {s \in UNION {[1 .. n -> Files] : n \in 0 .. Len(Order)} :
        Sorted(s) /\ Range(s) = {f \in Files : disk[f] # Absent}}

(* No file to read, or for compile not exactly one; fmt does not mind.        *)
Misused(c, s) ==
    \/ c \in Judging /\ s = <<>>
    \/ c = "compile" /\ Len(s) # 1

Start(c) ==
    /\ pc = "idle" /\ left.commands > 0
    /\ cmd' = c
    /\ before' = [p \in Outputs |-> disk[p]]
    /\ saved' = {} /\ built' = <<>>
    /\ left' = [left EXCEPT !.commands = @ - 1]
    /\ \E s \in Listings :
        /\ listed' = s
        /\ IF Misused(c, s)
           THEN pc' = "idle" /\ answer' = "misuse" /\ todo' = <<>>
           ELSE pc' = "reading" /\ answer' = "none" /\ todo' = s
    /\ UNCHANGED <<disk, model, failed, queue, open, kept, garbled, registryVars>>

-------------------------------------------------------------------------------
(* Reading and judging.  A file that was torn may hold any beginning of what  *)
(* was to be in it, which may be a text of its own.                           *)
ReadIn(f) == IF disk[f] = Torn THEN Texts ELSE {disk[f]}

Advance == todo' = Tail(todo)

(* loadModel fails.  compile, which has one file, ends at once.               *)
Unreadable ==
    /\ pc = "reading" /\ cmd \in Judging /\ todo # <<>>
    /\ ReadIn(Head(todo)) \cap {Unparsable, Absent} # {}
    /\ failed' = TRUE
    /\ Advance
    /\ UNCHANGED <<disk, cmd, pc, model, queue, open, built, answer, history, left, registryVars>>

(* loadModel as far as the list for LoadForImports.                           *)
Read ==
    /\ pc = "reading" /\ cmd \in Judging /\ todo # <<>>
    /\ \E t \in ReadIn(Head(todo)) \ {Unparsable, Absent} :
        /\ model' = t.model
        /\ Ask(Imported[t.model])
    /\ pc' = "loading"
    /\ Advance
    /\ UNCHANGED <<disk, cmd, failed, queue, open, built, answer, history, left>>

LoadForImports ==
    /\ pc = "loading"
    /\ \E s \in Specs : Load(s)
    /\ UNCHANGED <<disk, command, history, left, imports, visitVars>>

(* printDiagnostics counts an error.                                          *)
Blocked == model \in Red \/ ~(Uses[model] \subseteq sets)

(* Mutants: the errors of the last file only; no look at the diagnostics;     *)
(* each model written as soon as it is judged.                                *)
JudgeLast ==
    /\ pc = "loading" /\ Loaded
    /\ failed' = Blocked
    /\ built' = IF Blocked THEN built ELSE Append(built, model)
    /\ pc' = "reading"
    /\ UNCHANGED <<disk, cmd, todo, model, queue, open, answer, history, left, registryVars>>
JudgeNothing ==
    /\ pc = "loading" /\ Loaded
    /\ built' = Append(built, model)
    /\ pc' = "reading"
    /\ UNCHANGED <<disk, cmd, todo, model, failed, queue, open, answer, history, left, registryVars>>
JudgeAndWrite ==
    /\ pc = "loading" /\ Loaded
    /\ failed' = (failed \/ Blocked)
    /\ built' = IF Blocked THEN built ELSE Append(built, model)
    /\ disk' = IF Blocked THEN disk ELSE [disk EXCEPT ![Name[model]] = model]
    /\ pc' = "reading"
    /\ UNCHANGED <<cmd, todo, model, queue, open, answer, history, left, registryVars>>

(* Whether there is something to write: the linter finds no error, and Emit   *)
(* returns none.                                                              *)
Outcomes ==
    IF Blocked THEN {FALSE} ELSE IF cmd = "lint" THEN {TRUE} ELSE BOOLEAN

Judge ==
    /\ pc = "loading" /\ Loaded
    /\ \E ok \in Outcomes :
        /\ failed' = (failed \/ ~ok)
        /\ built' = IF ok THEN Append(built, model) ELSE built
    /\ pc' = "reading"
    /\ UNCHANGED <<disk, cmd, todo, model, queue, open, answer, history, left, registryVars>>

(* The end of lint, and of fmt; and of the others if there was an error.      *)
Verdict ==
    /\ pc = "reading" /\ todo = <<>>
    /\ failed \/ cmd \in {"lint"} \cup Formatting
    /\ Exit(IF failed THEN "errors" ELSE "ok")

-------------------------------------------------------------------------------
(* Writing.                                                                   *)
Entry(p, c) == [path |-> p, content |-> c]

(* One ModelDesign for each model, or one document of each name.              *)
Emitted ==
    IF cmd = "export"
    THEN LET k == Len(Documents)
         IN  [i \in 1 .. Len(built) * k |->
                 Entry(Documents[1 + ((i - 1) % k)], built[1 + ((i - 1) \div k)])]
    ELSE [i \in DOMAIN built |-> Entry(Name[built[i]], built[i])]

Emit ==
    /\ pc = "reading" /\ todo = <<>>
    /\ ~failed /\ cmd \in {"build", "export", "compile"}
    /\ queue' = Emitted
    /\ pc' = "writing"
    /\ UNCHANGED <<disk, cmd, todo, model, failed, open, built, answer, history, left, registryVars>>

Truncate ==
    /\ Writing /\ ~open
    /\ disk' = [disk EXCEPT ![Head(queue).path] = Torn]
    /\ open' = TRUE
    /\ UNCHANGED <<cmd, pc, todo, model, failed, queue, built, answer, history, left, registryVars>>

Fill ==
    /\ Writing /\ open
    /\ disk' = [disk EXCEPT ![Head(queue).path] = Head(queue).content]
    /\ open' = FALSE
    /\ queue' = Tail(queue)
    /\ UNCHANGED <<cmd, pc, todo, model, failed, built, answer, history, left, registryVars>>

(* MkdirAll, os.Create, the write or the close fails.                         *)
WriteFails == Writing /\ Exit("failed")

Written ==
    /\ pc = "writing" /\ queue = <<>> /\ cmd # "compile"
    /\ Exit("ok")

-------------------------------------------------------------------------------
(* compile goes on with Dependencies, Materialize and the ModelCompiler.      *)
Resolve ==
    /\ pc = "writing" /\ queue = <<>> /\ cmd = "compile"
    /\ pc' = "visiting"
    /\ UNCHANGED <<disk, cmd, todo, model, failed, queue, open, built, answer, history, left, registryVars>>

Dependencies ==
    /\ pc = "visiting"
    /\ Visit
    /\ UNCHANGED <<disk, command, history, left, imports, loadVars>>

Materialize ==
    /\ pc = "visiting" /\ Visited
    /\ queue' = [i \in DOMAIN out |-> Entry(out[i], out[i])]
    /\ pc' = "materializing"
    /\ UNCHANGED <<disk, cmd, todo, model, failed, open, built, answer, history, left, registryVars>>

Assemble ==
    /\ pc = "materializing" /\ queue = <<>>
    /\ pc' = "compiling"
    /\ UNCHANGED <<disk, cmd, todo, model, failed, queue, open, built, answer, history, left, registryVars>>

(* The ModelCompiler runs, well or not; or its command line is only printed;  *)
(* or there is no ModelCompiler.                                              *)
Compile ==
    /\ pc = "compiling"
    /\ Exit("ok") \/ Exit("failed")

-------------------------------------------------------------------------------
(* cmdFmt: read, parse, format and compare, file by file.                     *)
FmtStops ==
    /\ pc = "reading" /\ cmd \in Formatting /\ todo # <<>>
    /\ ReadIn(Head(todo)) \cap {Unparsable, Absent} # {}
    /\ Exit("errors")

(* The file is canonical; or it is not, and fmt is only to say so.            *)
FmtPasses ==
    /\ pc = "reading" /\ cmd \in Formatting /\ todo # <<>>
    /\ \E t \in ReadIn(Head(todo)) \ {Unparsable, Absent} :
        /\ t.canonical \/ cmd = "fmt"
        /\ failed' = (failed \/ ~t.canonical)
    /\ Advance
    /\ UNCHANGED <<disk, cmd, pc, model, queue, open, built, answer, history, left, registryVars>>

(* What Format makes of a text's model, which may be something that does not  *)
(* parse, or that is read as another model.  (Syntax shows that these are all *)
(* the cases there are.)                                                      *)
Formatted(t) ==
    IF t.model \in Misquoted THEN Texts
    ELSE IF t.model \in Bare THEN {Unparsable}
    ELSE {[t EXCEPT !.canonical = TRUE]}

Garbling(f, t) == garbled' = IF t.model \in Frail THEN garbled \cup {f} ELSE garbled

(* Mutant: it is the first file that is rewritten.                            *)
FmtRewritesFirst ==
    /\ pc = "reading" /\ cmd = "fmt -w" /\ todo # <<>>
    /\ \E t \in ReadIn(Head(todo)) \ {Unparsable, Absent} :
        /\ ~t.canonical
        /\ \E u \in Formatted(t) : queue' = <<Entry(Head(listed), u)>>
        /\ Garbling(Head(todo), t)
    /\ pc' = "rewriting"
    /\ Advance
    /\ UNCHANGED <<disk, cmd, model, failed, open, built, answer,
                   listed, before, saved, kept, left, registryVars>>

FmtRewrites ==
    /\ pc = "reading" /\ cmd = "fmt -w" /\ todo # <<>>
    /\ \E t \in ReadIn(Head(todo)) \ {Unparsable, Absent} :
        /\ ~t.canonical
        /\ \E u \in Formatted(t) : queue' = <<Entry(Head(todo), u)>>
        /\ Garbling(Head(todo), t)
    /\ pc' = "rewriting"
    /\ Advance
    /\ UNCHANGED <<disk, cmd, model, failed, open, built, answer,
                   listed, before, saved, kept, left, registryVars>>

FmtGoesOn ==
    /\ pc = "rewriting" /\ queue = <<>>
    /\ pc' = "reading"
    /\ UNCHANGED <<disk, cmd, todo, model, failed, queue, open, built, answer, history, left, registryVars>>

-------------------------------------------------------------------------------
Kill == pc # "idle" /\ Exit("killed")

(* The user saves or removes a model file.  Saved after fmt has read it and   *)
(* before fmt has written it, the text is lost.                               *)
Save(f, t) ==
    /\ left.saves > 0
    /\ left' = [left EXCEPT !.saves = @ - 1]
    /\ disk' = [disk EXCEPT ![f] = t]
    /\ saved' = saved \cup {f}
    /\ garbled' = IF Writing /\ Head(queue).path = f THEN garbled ELSE garbled \ {f}
    /\ kept' = IF Writing /\ Head(queue).path = f THEN Lost(f)
               ELSE [kept EXCEPT ![f] = t]
    /\ UNCHANGED <<command, listed, before, registryVars>>

Step ==
    \/ Unreadable \/ Read \/ LoadForImports \/ Judge \/ Verdict
    \/ Emit \/ Truncate \/ Fill \/ WriteFails \/ Written
    \/ Resolve \/ Dependencies \/ Materialize \/ Assemble \/ Compile
    \/ FmtStops \/ FmtPasses \/ FmtRewrites \/ FmtGoesOn

Next ==
    \/ \E c \in Judging \cup Formatting : Start(c)
    \/ Step
    \/ Kill
    \/ \E f \in Files, t \in Saved : Save(f, t)

Spec == Init /\ [][Next]_vars

-------------------------------------------------------------------------------
(* A model the linter finds no error in with the catalog of its own imports.  *)
Buildable ==
    {m \in Models :
        /\ m \notin Red
        /\ \A C \in ClosedSets :
            Range(Imported[m]) \cap Specs \subseteq C => Uses[m] \subseteq C}

Empties(p) == open /\ Head(queue).path = p

(* cmdBuild, cmdExport: "don't emit an invalid model".  Whatever is in the    *)
(* output directory was emitted from a model that builds, however the command *)
(* that wrote it ended.                                                       *)
OnlyBuildable ==
    \A p \in Outputs : disk[p] \in Models => disk[p] \in Buildable

(* A command that finds an error in any of its inputs has not touched the     *)
(* output directory, nor has one that is misused, lint or fmt.                *)
RefusedLeaves ==
    answer \in {"errors", "misuse"} \/ cmd \in {"lint"} \cup Formatting
        => \A p \in Outputs : disk[p] = before[p]

(* Exit status 0 means all of it was done: every file was read and emitted,   *)
(* and is there whole, unless a later model has the same file name; every     *)
(* file is in canonical form that was not saved meanwhile, unless its model   *)
(* is one that Format does not keep.                                          *)
DoneIsWhole ==
    answer = "ok" =>
        /\ cmd \in {"build", "compile", "export"} =>
            /\ Len(built) = Len(listed)
            /\ \A i \in DOMAIN built :
                IF cmd = "export"
                THEN i = Len(built) => \A p \in Range(Documents) : disk[p] = built[i]
                ELSE (\A j \in (i + 1) .. Len(built) : Name[built[j]] # Name[built[i]])
                        => disk[Name[built[i]]] = built[i]
        /\ cmd \in Formatting =>
            \A i \in DOMAIN listed :
                \/ listed[i] \in saved \cup garbled \/ disk[listed[i]] = Torn
                \/ disk[listed[i]] \in Readable /\ disk[listed[i]].canonical

(* What the ModelCompiler is given: the ModelDesign of the model that was     *)
(* judged, then the specs, all there and whole; they are the very specs that  *)
(* the model was judged with, so every name of it resolves for the compiler   *)
(* too.  (DependenciesFirst is their order.)                                  *)
CompilerFed ==
    pc = "compiling" =>
        /\ disk[Name[model]] = model
        /\ \A i \in DOMAIN out : disk[out[i]] = out[i]
        /\ Range(out) = sets /\ Uses[model] \subseteq Range(out)

(* Formatting changes no model that Format keeps.  A file says what its user  *)
(* left in it, except the one that is being filled, which is going to; the    *)
(* one that a failure or a kill left empty; one saved while it was being      *)
(* rewritten; and one formatted from a frail model.                           *)
SameModel(t, u) ==
    t = u \/ ({t, u} \subseteq Readable /\ t.model = u.model)
InputsKept ==
    \A f \in Files \ garbled : kept[f] # Torn =>
        SameModel(kept[f], IF Empties(f) THEN Head(queue).content ELSE disk[f])
===============================================================================
