---------------------------------- MODULE Dsl ----------------------------------
(* A parsed model (dsl/ast.go) and what its names mean.  Declarations are     *)
(* sequences in file order, since nothing keeps a file from declaring a name  *)
(* twice: some readers then take the first declaration, some the last.  A     *)
(* model carries the namespaces its catalog has loaded, none if it has none.  *)
EXTENDS Integers, Sequences, FiniteSets, SequencesExt, TLC

CONSTANTS
    Specs,      \* bundled specs: namespace -> [requires, nodes], nodes: name ->
                \*   [class, abstract, base, members]
    Builtin,    \* the data types of ns0 that need no prefix
    Numeric,    \*   and of these, the ones a unit goes with
    Units       \* the unit symbols the linter knows

UA == "ua"
ISA95 == "isa95"
NoRef == [alias |-> "", name |-> ""]

SpecNodes == UNION {{<<u, n>> : n \in DOMAIN Specs[u].nodes} : u \in DOMAIN Specs}
Node(key) == Specs[key[1]].nodes[key[2]]

(* The bundle has ns0, which requires nothing, and all that its specs         *)
(* require, their nodes' bases among it.                                      *)
ASSUME SpecsAssumption ==
    /\ IsFiniteSet(DOMAIN Specs) /\ IsFiniteSet(SpecNodes)
    /\ UA \in DOMAIN Specs /\ Specs[UA].requires = {}
    /\ \A u \in DOMAIN Specs : Specs[u].requires \subseteq DOMAIN Specs
    /\ \A k \in SpecNodes :
        /\ k[2] # ""
        /\ Node(k).members \in Seq([name : STRING, kind : STRING, placeholder : BOOLEAN])
        /\ Node(k).base \in SpecNodes => Node(k).base[1] \in {k[1]} \cup Specs[k[1]].requires

(* What a file may declare.  Members nest to any depth in a file; here an     *)
(* object member's own members have none.                                     *)
Refs == [alias : STRING, name : STRING]
Headers == [name : STRING, ns : STRING, version : STRING, date : STRING]
Imports == [name : STRING, uri : STRING]
Enums == [name : STRING, values : Seq([name : STRING, id : Int])]
MembersWith(inner) ==
    [name : STRING, kind : STRING, rule : STRING, placeholder : BOOLEAN, access : STRING,
     type : Refs, unit : STRING, args : SUBSET Refs, children : inner]
Members == MembersWith(Seq(MembersWith({<<>>})))
Types == [name : STRING, base : Refs, abstract : BOOLEAN, members : Seq(Members)]
Instances ==
    [name : STRING, type : Refs, under : Refs, level : STRING,
     values : Seq([name : STRING, raw : STRING]), children : Seq([name : STRING, of : STRING])]
Perspectives ==
    [name : STRING, membership : STRING, export : BOOLEAN, symbolic : BOOLEAN,
     nodes : Seq([name : STRING, children : Seq(STRING), members : Seq(STRING)])]
Models ==
    [header : Headers, skip : BOOLEAN, imports : Seq(Imports), enums : Seq(Enums),
     types : Seq(Types), instances : Seq(Instances), perspectives : Seq(Perspectives),
     catalog : SUBSET DOMAIN Specs]

Kinds == {"property", "variable", "object", "method"}
PlaceholderRules == {"optional_placeholder", "mandatory_placeholder"}
Rules == {"mandatory", "optional"} \cup PlaceholderRules

(* ISA-95 levels: the organizational ones with their tier, and the others.    *)
Tier == [Enterprise |-> 0, Site |-> 1, Area |-> 2,
         ProcessCell |-> 3, ProductionLine |-> 3, StorageZone |-> 3, WorkCenter |-> 3,
         Unit |-> 4, WorkCell |-> 4, ProductionUnit |-> 4, StorageUnit |-> 4, WorkUnit |-> 4]
Tierless == {"EquipmentModule", "ControlModule", "Other"}

Names(decls) == {decls[i].name : i \in DOMAIN decls}
FirstNamed(decls, n) ==
    decls[CHOOSE i \in DOMAIN decls : decls[i].name = n /\ \A j \in 1..i-1 : decls[j].name # n]
LastNamed(decls, n) ==
    decls[CHOOSE i \in DOMAIN decls :
              decls[i].name = n /\ \A j \in i+1..Len(decls) : decls[j].name # n]
Repeated(decls) == {decls[k].name : k \in {k \in DOMAIN decls :
                        \E j \in 1..k-1 : decls[j].name = decls[k].name}}
Unrepeated(decls) ==
    LET seen[i \in 0..Len(decls)] ==
            IF i = 0 THEN <<>>
            ELSE IF decls[i].name \in Names(seen[i - 1]) THEN seen[i - 1]
            ELSE Append(seen[i - 1], decls[i])
    IN  seen[Len(decls)]

(* The first of some declarations that passes a test, if any does.            *)
FirstWhere(decls, Test(_)) ==
    {decls[i] : i \in {i \in DOMAIN decls : Test(decls[i]) /\ \A j \in 1..i-1 : ~Test(decls[j])}}

-------------------------------------------------------------------------------
(* The walk from x along the partial function up, which ends where up does or *)
(* where it would repeat itself.  All walks over references are such: they    *)
(* stop at a name seen before, since the file may be cyclic.                  *)
Walk(up, x) ==
    LET n == Cardinality(DOMAIN up)
        walk[k \in 0..n] ==
            IF k = 0 THEN <<x>>
            ELSE LET w == walk[k - 1]
                 IN  IF Last(w) \in DOMAIN up /\ ~Contains(w, up[Last(w)])
                     THEN Append(w, up[Last(w)]) ELSE w
    IN  walk[n]

(* Mutant: only a walk that comes back to where it began is a loop.           *)
LoopsToStart(up, x) ==
    LET last == Last(Walk(up, x)) IN last \in DOMAIN up /\ up[last] = x
Loops(up, x) == Last(Walk(up, x)) \in DOMAIN up

-------------------------------------------------------------------------------
(* What the loaded specs say (nodeset/catalog.go).                            *)

(* Mutant: only what is imported is loaded.                                   *)
LoadedImports(uris) == {UA} \cup (uris \cap DOMAIN Specs)
(* A bundled namespace with all it requires, and what is loaded for some      *)
(* imports: ns0, and the bundled ones with all they require.                  *)
Required ==
    LET upTo[n \in 0..Cardinality(DOMAIN Specs)] ==
            IF n = 0 THEN [u \in DOMAIN Specs |-> {u} \cup Specs[u].requires]
            ELSE LET r == upTo[n - 1] IN [u \in DOMAIN Specs |-> UNION {r[v] : v \in r[u]}]
    IN  upTo[Cardinality(DOMAIN Specs)]
Loaded(uris) == {UA} \cup UNION {Required[u] : u \in uris \cap DOMAIN Specs}

InCatalog(m, uri, name) == uri \in m.catalog /\ name \in DOMAIN Specs[uri].nodes

(* A node's members with the inherited ones, as far as its bases are loaded.  *)
(* The nearest declaration of a name wins.                                    *)
LoadedBases(m) ==
    [k \in {k \in SpecNodes : /\ Node(k).base \in SpecNodes
                              /\ {k[1], Node(k).base[1]} \subseteq m.catalog} |-> Node(k).base]
Flattened(walk) == Unrepeated(FlattenSeq([i \in DOMAIN walk |-> Node(walk[i]).members]))

-------------------------------------------------------------------------------
(* Names (dsl/resolve.go).                                                    *)
ImportKnown(m, alias) == alias = "OpcUa" \/ alias \in Names(m.imports)
ImportURI(m, alias) == IF alias = "OpcUa" THEN UA ELSE FirstNamed(m.imports, alias).uri

Resolved(m, ref, uri) ==
    [uri |-> uri, name |-> ref.name, kind |->
     CASE ref.alias = "" /\ ref.name \in Builtin -> "builtin"
       [] ref.alias = "" /\ ref.name \notin Builtin ->
              IF ref.name \in Names(m.enums) \cup Names(m.types) THEN "local" ELSE "unknownName"
       [] ref.alias # "" /\ ~ImportKnown(m, ref.alias) -> "unknownAlias"
       [] ref.alias # "" /\ ImportKnown(m, ref.alias) ->
              IF m.catalog = {} THEN "import"
              ELSE IF ~InCatalog(m, uri, ref.name) THEN "importUnknown"
              ELSE IF uri = UA THEN "import" ELSE "importResolved"]
ResolveType(m, ref) ==
    Resolved(m, ref, IF ref.alias # "" /\ ImportKnown(m, ref.alias)
                     THEN ImportURI(m, ref.alias) ELSE "")

Kind(m, ref) == ResolveType(m, ref).kind
CatalogKey(m, ref) == <<ResolveType(m, ref).uri, ref.name>>

(* A companion node's members as members of this model: no rule and no type.  *)
Synthesized(far) ==
    [i \in DOMAIN far |-> [name |-> far[i].name, kind |-> far[i].kind,
                           placeholder |-> far[i].placeholder, type |-> NoRef, children |-> <<>>]]

-------------------------------------------------------------------------------
(* Inheritance and members (dsl/resolve_members.go).                          *)
HasLocalBase(m, ot) == Kind(m, ot.base) = "local" /\ ot.base.name \in Names(m.types)
Bases(m) ==
    [t \in {t \in Names(m.types) : HasLocalBase(m, FirstNamed(m.types, t))} |->
         FirstNamed(m.types, t).base.name]

(* The members of a local type with the inherited ones, the most derived      *)
(* declaration of each name; a base found in a loaded spec adds its own.      *)
FarMembers(m, ref) ==
    IF Kind(m, ref) # "importResolved" THEN <<>>
    ELSE Synthesized(Flattened(Walk(LoadedBases(m), CatalogKey(m, ref))))
MembersAlong(m, walk) ==
    Unrepeated(FlattenSeq([i \in DOMAIN walk |-> FirstNamed(m.types, walk[i]).members])
               \o FarMembers(m, FirstNamed(m.types, Last(walk)).base))
ResolveMembers(m, t) == MembersAlong(m, Walk(Bases(m), t))

(* What an instance of a type may set and fill: nothing is known of the       *)
(* members of an enum, of ns0's types and of unknown names.                   *)
Opaque(m, ref) ==
    \/ Kind(m, ref) \notin {"local", "importResolved"}
    \/ Kind(m, ref) = "local" /\ ref.name \notin Names(m.types)
MembersOf(m, ref) ==
    IF Kind(m, ref) = "local" /\ ref.name \in Names(m.types)
    THEN ResolveMembers(m, ref.name) ELSE FarMembers(m, ref)
TypeHasMember(m, ref, n) == n \in Names(MembersOf(m, ref))
================================================================================
