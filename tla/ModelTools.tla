------------------------------- MODULE ModelTools ------------------------------
(* A draft's model under the tools that edit it (core/patch.go), and what the *)
(* program makes of it on its three ways: the service judges it with every    *)
(* bundled spec loaded, the command line judges and builds it with what its   *)
(* imports need, and the editor previews it with no catalog.                  *)
EXTENDS SemDiff

CONSTANTS
    Seeds,          \* committed models a draft may start from
    SomeHeaders, SomeImports, SomeEnums, SomeTypes, SomeInstances, SomePerspectives,
                    \* what a client may write
    MaxEdits        \* bound: edits of a draft

VARIABLES
    base,           \* the committed model
    draft,          \* the draft's model, as parsed: without a catalog
    edits           \* how many edits it had

toolVars == <<base, draft, edits>>

ASSUME InputsAssumption ==
    /\ \A m \in Seeds : m \in Models /\ m.catalog = {}
    /\ SomeHeaders \subseteq Headers /\ SomeImports \subseteq Imports
    /\ SomeEnums \subseteq Enums /\ SomeTypes \subseteq Types
    /\ SomeInstances \subseteq Instances /\ SomePerspectives \subseteq Perspectives
    /\ MaxEdits \in Nat

TypeOK ==
    /\ \A m \in {base, draft} : m \in Models /\ m.catalog = {}
    /\ edits \in 0 .. MaxEdits

WithCatalog(m, uris) == [m EXCEPT !.catalog = uris]

(* Service.Catalog, and loadModel of the command line.                        *)
Judged(m) == WithCatalog(m, Loaded(DOMAIN Specs))
Built(m) == WithCatalog(m, Loaded({im.uri : im \in ToSet(m.imports)}))

-------------------------------------------------------------------------------
Init == base \in Seeds /\ draft = base /\ edits = 0

Put(m) == draft' = m /\ edits' = edits + 1 /\ UNCHANGED base

(* mutateDraftFile: strict unless forced.                                     *)
Mutate(m, force) ==
    /\ edits < MaxEdits
    /\ force \/ Clean(Judged(m))
    /\ Put(m)

AddImport(im, force) ==
    /\ im.name \notin Names(draft.imports)
    /\ Mutate([draft EXCEPT !.imports = Append(@, im)], force)
AddType(ot, force) ==
    /\ ot.name \notin Names(draft.types)
    /\ Mutate([draft EXCEPT !.types = Append(@, ot)], force)
AddInstance(inst, force) ==
    /\ inst.name \notin Names(draft.instances)
    /\ Mutate([draft EXCEPT !.instances = Append(@, inst)], force)

Without(decls, n) == RemoveFirstMatch(decls, LAMBDA d : d.name = n)
RemoveImport(n, force) == Mutate([draft EXCEPT !.imports = Without(@, n)], force)
RemoveType(n, force) == Mutate([draft EXCEPT !.types = Without(@, n)], force)
RemoveInstance(n, force) == Mutate([draft EXCEPT !.instances = Without(@, n)], force)

(* UpdateDraft: a client writes the whole file, here with one declaration     *)
(* other than it was.  Nothing is judged, and a name may come twice.          *)
Rewritten(decls, some) ==
    {Append(decls, d) : d \in some} \cup {[decls EXCEPT ![i] = d] : i \in DOMAIN decls, d \in some}
UpdateDraft(m) == edits < MaxEdits /\ m # draft /\ Put(m)

Next ==
    \/ \E force \in BOOLEAN :
        \/ \E im \in SomeImports : AddImport(im, force)
        \/ \E ot \in SomeTypes : AddType(ot, force)
        \/ \E inst \in SomeInstances : AddInstance(inst, force)
        \/ \E n \in Names(draft.imports) : RemoveImport(n, force)
        \/ \E n \in Names(draft.types) : RemoveType(n, force)
        \/ \E n \in Names(draft.instances) : RemoveInstance(n, force)
    \/ \E s \in Rewritten(draft.imports, SomeImports) : UpdateDraft([draft EXCEPT !.imports = s])
    \/ \E s \in Rewritten(draft.enums, SomeEnums) : UpdateDraft([draft EXCEPT !.enums = s])
    \/ \E s \in Rewritten(draft.types, SomeTypes) : UpdateDraft([draft EXCEPT !.types = s])
    \/ \E s \in Rewritten(draft.instances, SomeInstances) : UpdateDraft([draft EXCEPT !.instances = s])
    \/ \E s \in Rewritten(draft.perspectives, SomePerspectives) :
            UpdateDraft([draft EXCEPT !.perspectives = s])
    \/ \E h \in SomeHeaders : UpdateDraft([draft EXCEPT !.header = h])
    \/ UpdateDraft([draft EXCEPT !.skip = ~@])

Spec == Init /\ [][Next]_toolVars

-------------------------------------------------------------------------------
(* The elements from which a function to sets leads on forever.  A cycle is   *)
(* one of the sets whose every element leads to an element of the set.        *)
Endless(next) ==
    UNION {T \in SUBSET DOMAIN next : \A x \in T : next[x] \cap T # {}}

(* What is said of a model, against all the cycles it has.                     *)
Blamed(said, code) == {d[2][1] : d \in {x \in said : x[1] = code}}
LocalName(ref) == IF ref.alias = "" THEN {ref.name} ELSE {}
BasesSaid(m, said) ==
    Repeated(m.types) = {} =>
        (Blamed(said, "inheritance-cycle") = {}
         <=> Endless([t \in Names(m.types) |-> LocalName(FirstNamed(m.types, t).base) \ Builtin]) = {})
NestingSaid(m, said) ==
    Repeated(m.instances) = {} =>
        Blamed(said, "instance-cycle")
        = Endless([n \in Names(m.instances) |-> LocalName(FirstNamed(m.instances, n).under)])
PerspectivesSaid(m, said) ==
    \A p \in ToSet(m.perspectives) :
        p.name \in Blamed(said, "perspective-node-cycle")
        <=> \E q \in ToSet(m.perspectives) : q.name = p.name
                /\ Endless([n \in Names(q.nodes) |-> ToSet(LastNamed(q.nodes, n).children)]) # {}
ChainsSaid(m, said) == BasesSaid(m, said) /\ NestingSaid(m, said) /\ PerspectivesSaid(m, said)

(* The three searches for cycles find all there are and no others: bases      *)
(* (checkInheritance), nesting (checkInstanceCycles, which reports every      *)
(* instance that cannot be reached from a root) and the nodes of a            *)
(* perspective (checkPerspectiveCycles), whatever else is wrong in the file,  *)
(* but for names declared twice.  A loop missed here is one that member       *)
(* resolution and emission then walk.                                         *)
ChainsJudged == ChainsSaid(Judged(draft), Validate(Judged(draft)))

(* What the service lets pass is what the command line lets pass, and what it *)
(* reports the command line reports: the catalog of everything bundled says   *)
(* of a model what the closure of its imports says.  Except that the service  *)
(* always has ISA-95 loaded, and so reports a machine under a machine in      *)
(* models which do not import it.                                             *)
JudgedAlike ==
    Validate(Built(draft))
    = {d \in Validate(Judged(draft)) :
           d[1] = "machine-under-machine" => ISA95 \in Built(draft).catalog}

(* The levels emitted for nodes, against those of the nodes above.             *)
NodeNamed(nodes, n) == CHOOSE x \in nodes : x.name = n
Nested(nodes, x) == x.under.prefix = "" /\ \E y \in nodes : y.name = x.under.name
Above(nodes) ==
    [n \in {x.name : x \in {y \in nodes : Nested(nodes, y)}} |-> NodeNamed(nodes, n).under.name]
TiersOf(nodes, n) ==
    {Tier[o.value] : o \in {p \in NodeNamed(nodes, n).overrides :
                                p.name = "EquipmentLevel" /\ p.value \in DOMAIN Tier}}
Descending(skip, nodes) ==
    \A x \in nodes :
        /\ \A t \in TiersOf(nodes, x.name), k \in 2..Len(Walk(Above(nodes), x.name)) :
               \A above \in TiersOf(nodes, Walk(Above(nodes), x.name)[k]) :
                   above < t /\ (skip \/ above = t - (k - 1))
        /\ TiersOf(nodes, x.name) = {} /\ Nested(nodes, x) =>
               \A above \in TiersOf(nodes, x.under.name) : above >= 3

(* What is built from a model the service lets pass has the organizational    *)
(* levels in order: the EquipmentLevel exported for a node is above those of  *)
(* all nodes below it, by one tier a step unless the model may skip; and      *)
(* equipment hangs from a work center or a work unit.  Except that nothing    *)
(* keeps an organizational node from being under equipment, or a value from   *)
(* being given for EquipmentLevel besides a level.                            *)
Ordered(m, inst) ==
    /\ HasParent(m, inst) /\ IsOrg(inst) => IsOrg(LastNamed(m.instances, inst.under.name))
    /\ "EquipmentLevel" \notin Names(inst.values)
LevelsDescend ==
    Clean(Judged(draft)) /\ (\A inst \in ToSet(draft.instances) : Ordered(draft, inst)) =>
        \A d \in {Design(Built(draft))} : Descending(draft.skip, d.instances)

(* What the linter lets pass and the emitters leave open: an enum for the     *)
(* type of a node, members of what is no object, a method's type, the model's *)
(* own namespace among the imports; an instance without a type or a parent,   *)
(* one under a node of a companion spec, children of a type that is not       *)
(* local, and a level where ISA-95 is not imported.                           *)
NotEnum(m, ref) == Kind(m, ref) = "local" => ref.name \in Names(m.types)
EmittableType(m, ot) ==
    /\ \A mem \in ToSet(ot.members) : mem.kind # "object" => mem.children = <<>>
    /\ \A mem \in ToSet(Preorder(ot.members)) :
        /\ mem.kind = "method" => mem.type = NoRef
        /\ mem.kind = "object" \/ mem.placeholder => NotEnum(m, mem.type)
EmittableInstance(m, inst) ==
    /\ inst.type # NoRef /\ NotEnum(m, inst.type)
    /\ inst.under # NoRef /\ Kind(m, inst.under) # "importResolved"
    /\ Kind(m, inst.type) # "local" => inst.children = <<>>
    /\ inst.level # "" => LevelAlias(m) \in KnownPrefixes(m) \ {""}
Emittable(m) ==
    /\ NotEnum(m, NoRef) /\ "own" \notin {im.uri : im \in ToSet(m.imports)}
    /\ \A ot \in ToSet(m.types) : EmittableType(m, ot)
    /\ \A inst \in ToSet(m.instances) : EmittableInstance(m, inst)

(* Every qualified name in a design is ns0's, an import's or declared.         *)
DesignCloses(m, d) ==
    LET Declared == Names(m.types) \cup Names(m.enums)
        Known(q) == q = NoQName \/ (q.prefix \in KnownPrefixes(m) /\ (q.prefix = "" => q.name \in Declared))
    IN  /\ \A t \in d.types : \A q \in {t.base} \cup t.uses : Known(q)
        /\ \A x \in d.instances :
            /\ \A q \in {x.type} \cup {o.type : o \in x.overrides \cup x.children} : Known(q)
            /\ x.under.prefix \in KnownPrefixes(m)
            /\ x.under.prefix = "" => x.under.name \in Names(m.instances)
        /\ \A g \in d.groups : g.organizes \subseteq {h.name : h \in d.groups} \cup Names(m.instances)

(* Every id a bundle's elements refer to is that of an element.               *)
BundleCloses(b) ==
    LET types == {t.id : t \in b.types}
    IN  /\ \A t \in b.types : t.uses \subseteq types /\ t.source \in types \cup {NoID}
        /\ \A o \in b.objects : o.type \in types /\ o.parent \in {p.id : p \in b.objects} \cup {NoID}

(* Every name in what is built from a model the service lets pass is that of  *)
(* a node which is there.  In ModelDesign: unprefixed names are declared in   *)
(* the model, the other prefixes are imports, and groups organize what there  *)
(* is.  In the i3X bundle: every source, type and parent is an element of it. *)
(* Excepted is what the linter lets pass and the emitters leave open.         *)
OutputsClose ==
    Clean(Judged(draft)) =>
        \A m \in {Built(draft)} :
            Emittable(m) => /\ \A d \in {Design(m)} : DesignCloses(m, d)
                            /\ \A b \in {Bundle(m)} : BundleCloses(b)

(* The part of a design that the change list is about.                        *)
Reviewed(d) ==
    [header |-> <<d.header.ns, d.header.version>>,
     enums |-> d.enums,
     types |-> {[name |-> t.name, base |-> t.base, abstract |-> t.abstract,
                 members |-> {[mem EXCEPT !.children = <<>>, !.args = {}] : mem \in ToSet(t.members)}] :
                t \in d.types},
     instances |-> {[name |-> x.name, type |-> x.type, under |-> x.under,
                     children |-> {c.name : c \in x.children},
                     values |-> {<<o.name, o.value>> :
                                    o \in {p \in x.overrides : p.name # "EquipmentLevel" /\ p.value # ""}}] :
                    x \in d.instances}]

(* No name is declared twice in a model.                                      *)
Unique(m) ==
    /\ Repeated(m.imports) = {} /\ Repeated(m.enums) = {}
    /\ Repeated(m.types) = {} /\ Repeated(m.instances) = {}
    /\ \A ot \in ToSet(m.types) : Repeated(ot.members) = {}
    /\ \A inst \in ToSet(m.instances) : Repeated(inst.values) = {}

(* What the change list does not look at in the members and the children that *)
(* two models have in common is alike.                                        *)
AlikeInside(m, n) ==
    /\ \A t \in ToSet(m.types), u \in ToSet(n.types) : t.name = u.name =>
        \A x \in ToSet(t.members), y \in ToSet(u.members) : x.name = y.name =>
            x.placeholder = y.placeholder /\ x.children = y.children
    /\ \A i \in ToSet(m.instances), j \in ToSet(n.instances) : i.name = j.name =>
        \A c \in ToSet(i.children), e \in ToSet(j.children) : c.name = e.name => c.of = e.of

(* A draft without changes to review builds what the base builds.  Excepted   *)
(* is what the change list does not look at: the model's name and date, where *)
(* an import leads, levels, what makes a member a placeholder, the members of *)
(* members, what a child stands for, values set to nothing, and perspectives; *)
(* and names declared twice.                                                  *)
DiffHonest ==
    /\ draft # base /\ Unique(base) /\ Unique(draft)
    /\ ToSet(base.imports) = ToSet(draft.imports) /\ AlikeInside(base, draft)
    /\ Diff(base, draft) = {}
    => \A b \in {Design(Built(base))}, d \in {Design(Built(draft))} : Reviewed(b) = Reviewed(d)
================================================================================
