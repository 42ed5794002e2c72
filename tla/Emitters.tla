-------------------------------- MODULE Emitters -------------------------------
(* What a model is turned into: ModelDesign XML (modeldesign/emit*.go) and    *)
(* the i3X documents (i3x/emit.go), each as far as names go: which nodes      *)
(* there are, and which names they refer to.                                  *)
EXTENDS Lint

Joined(a, b) == a \o "_" \o b
ObjectMembers(mems) == {mem \in ToSet(mems) : mem.kind = "object"}
Exported(m) == {p \in ToSet(m.perspectives) : p.export}

(* The members of a local type, and none of others'.                          *)
LocalMembers(m, ref) == IF Kind(m, ref) = "local" THEN MembersOf(m, ref) ELSE <<>>
(* The type of the placeholder that a child stands for, if there is one to be *)
(* found: the first of its name, be it a member of the type or of a member.   *)
StandsFor(mems, ch) ==
    {mem.type : mem \in FirstWhere(Preorder(mems), LAMBDA x : x.placeholder /\ x.name = ch.of)}

-------------------------------------------------------------------------------
(* ModelDesign: qualified names.  A companion type found in the catalog takes *)
(* the default of qname, which is the name as written.                        *)
QName(m, ref) ==
    LET kind == Kind(m, ref)
    IN  [name |-> ref.name, prefix |->
         CASE kind = "builtin" -> "ua"
           [] kind \in {"import", "importUnknown"} /\ ImportURI(m, ref.alias) = UA -> "ua"
           [] OTHER -> ref.alias]
NoQName == [name |-> "", prefix |-> ""]

AdditionalImports(m) == {im \in ToSet(m.imports) : im.name # "OpcUa" /\ im.uri # UA}
KnownPrefixes(m) == {"ua", ""} \cup {im.name : im \in AdditionalImports(m)}

(* The names a type's members refer to, with those of their own members.      *)
MemberQNames(m, mems) ==
    UNION {(IF mem.kind = "method" THEN {} ELSE {QName(m, mem.type)})
           \cup {QName(m, arg) : arg \in mem.args} :
           mem \in ToSet(mems) \cup UNION {ToSet(mem.children) : mem \in ObjectMembers(mems)}}

(* An instance's overrides: its level, its values of members of a local type, *)
(* and the children whose placeholder has a type.                             *)
LevelAlias(m) ==
    IF \A im \in ToSet(m.imports) : im.uri # ISA95 THEN ""
    ELSE (CHOOSE im \in FirstWhere(m.imports, LAMBDA x : x.uri = ISA95) : TRUE).name
LevelOverride(m, inst) ==
    IF TypeHasMember(m, inst.type, "EquipmentLevel") /\ inst.level \in DOMAIN Tier \cup Tierless
    THEN {[name |-> "EquipmentLevel", value |-> inst.level,
           type |-> [name |-> "ISA95EquipmentElementLevelEnum", prefix |-> LevelAlias(m)]]}
    ELSE {}
ValueOverrides(m, inst, mems) ==
    {[name |-> val.name, value |-> val.raw, type |-> QName(m, FirstNamed(mems, val.name).type)] :
        val \in {v \in ToSet(inst.values) : v.name \in Names(mems)}}
DesignChildren(m, inst, mems) ==
    LET typed(of) == FirstWhere(Preorder(mems),
                         LAMBDA x : x.placeholder /\ x.type # NoRef /\ x.name = of)
    IN  UNION {{[name |-> ch.name, type |-> QName(m, mem.type)] : mem \in typed(ch.of)} :
               ch \in ToSet(inst.children)}

InstanceTarget(m, under) ==
    IF Kind(m, under) = "unknownName" THEN [name |-> under.name, prefix |-> ""] ELSE QName(m, under)

PerspectiveRoots(p) ==
    {nd.name : nd \in {x \in ToSet(p.nodes) : \A y \in ToSet(p.nodes) : x.name \notin ToSet(y.children)}}
PerspectiveDesign(p) ==
    {[name |-> Joined(p.name, nd.name), root |-> nd.name \in PerspectiveRoots(p),
      organizes |-> {Joined(p.name, c) : c \in ToSet(nd.children)} \cup ToSet(nd.members)] :
        nd \in ToSet(p.nodes)}

Design(m) ==
    [header |-> m.header,
     prefixes |-> {<<im.name, im.uri>> : im \in AdditionalImports(m)},
     enums |-> {[name |-> e.name, values |-> e.values] : e \in ToSet(m.enums)},
     types |-> {[name |-> ot.name, base |-> QName(m, ot.base), abstract |-> ot.abstract,
                 uses |-> MemberQNames(m, ot.members), members |-> ot.members] : ot \in ToSet(m.types)},
     instances |-> {[name |-> inst.name, type |-> QName(m, inst.type),
                     under |-> InstanceTarget(m, inst.under),
                     overrides |-> LevelOverride(m, inst)
                                   \cup ValueOverrides(m, inst, LocalMembers(m, inst.type)),
                     children |-> DesignChildren(m, inst, LocalMembers(m, inst.type))] : inst \in ToSet(m.instances)},
     groups |-> UNION {PerspectiveDesign(p) : p \in Exported(m)}]

-------------------------------------------------------------------------------
(* i3X: element ids are a namespace and a symbolic id.  The model's own       *)
(* namespace is "own".                                                        *)
ElementID(ns, name) == [ns |-> ns, name |-> name]
NoID == ElementID("", "")
BaseObjectType == ElementID(UA, "BaseObjectType")
FolderType == ElementID(UA, "FolderType")

(* The namespace of an alias, here as the emitter has it: OpcUa may be bound  *)
(* to another.                                                                *)
EmittedURI(m, alias) ==
    IF alias \in Names(m.imports) THEN FirstNamed(m.imports, alias).uri
    ELSE IF alias = "OpcUa" THEN UA ELSE ""

(* A companion type found in the catalog takes the default, ns0.              *)
TypeID(m, ref) ==
    CASE Kind(m, ref) = "local" -> ElementID("own", ref.name)
      [] Kind(m, ref) = "import" -> ElementID(EmittedURI(m, ref.alias), ref.name)
      [] OTHER -> ElementID(UA, ref.name)

ParentID(m, under) ==
    CASE Kind(m, under) \in {"import", "importUnknown"} ->
            ElementID(EmittedURI(m, under.alias), under.name)
      [] Kind(m, under) = "unknownName" -> ElementID("own", under.name)
      [] OTHER -> TypeID(m, under)

(* Objects: every instance, the object members of its type if that is local,  *)
(* and its children.                                                          *)
Part(inst, name, type) ==
    [id |-> ElementID("own", Joined(inst.name, name)), type |-> type,
     parent |-> ElementID("own", inst.name)]
ChildType(m, refs) == IF refs = {} THEN NoID ELSE TypeID(m, CHOOSE ref \in refs : TRUE)
Composed(m, inst, mems) ==
    {Part(inst, mem.name, TypeID(m, mem.type)) : mem \in ObjectMembers(mems)}
    \cup {Part(inst, ch.name, ChildType(m, StandsFor(mems, ch))) : ch \in ToSet(inst.children)}
OwnObjects(m) ==
    UNION {{[id |-> ElementID("own", inst.name), type |-> TypeID(m, inst.type),
             parent |-> ParentID(m, inst.under)]}
           \cup Composed(m, inst, LocalMembers(m, inst.type)) : inst \in ToSet(m.instances)}

(* Types: what a schema refers to are its object members' types and, of each, *)
(* the type of its first placeholder.                                         *)
SchemaIDs(m, ot) ==
    UNION {{TypeID(m, mem.type)}
           \cup {TypeID(m, ch.type) : ch \in FirstWhere(mem.children, LAMBDA x : x.placeholder)} :
           mem \in ObjectMembers(ot.members)}
OwnTypes(m) ==
    {[id |-> ElementID("own", ot.name), source |-> TypeID(m, ot.base), uses |-> SchemaIDs(m, ot)] :
        ot \in ToSet(m.types)}

(* Stubs for all that is referred to elsewhere, and for the bases and types   *)
(* the stubs have themselves.  Nothing is recorded for an empty type.         *)
ExtTypes(m) ==
    {id \in (UNION {{t.source} \cup t.uses : t \in OwnTypes(m)}) \cup {o.type : o \in OwnObjects(m)}
            \cup {ParentID(m, u) : u \in {i.under : i \in {x \in ToSet(m.instances) :
                                              Kind(m, x.under) = "importResolved"}}} :
        id.ns # "own" /\ id # NoID}
ExtObjects(m) ==
    {ParentID(m, inst.under) : inst \in {x \in ToSet(m.instances) :
                                             Kind(m, x.under) \in {"import", "importUnknown"}}}
StubType(id) == IF id = ElementID(UA, "ObjectsFolder") THEN FolderType ELSE BaseObjectType
StubTypes(m) ==
    UNION {{id, BaseObjectType} : id \in ExtTypes(m) \cup {StubType(id) : id \in ExtObjects(m)}}

(* Mutant: the types of the stub objects get no stubs.                        *)
BundleUntyped(m) ==
    [namespaces |-> {"own"} \cup {im.uri : im \in ToSet(m.imports)},
     types |-> OwnTypes(m)
               \cup {[id |-> id, source |-> IF id = BaseObjectType THEN NoID ELSE BaseObjectType,
                      uses |-> {}] : id \in ExtTypes(m)},
     objects |-> OwnObjects(m)
                 \cup {[id |-> id, type |-> StubType(id), parent |-> NoID] : id \in ExtObjects(m)}]
Bundle(m) ==
    [namespaces |-> {"own"} \cup {im.uri : im \in ToSet(m.imports)},
     types |-> OwnTypes(m)
               \cup {[id |-> id, source |-> IF id = BaseObjectType THEN NoID ELSE BaseObjectType,
                      uses |-> {}] : id \in StubTypes(m)},
     objects |-> OwnObjects(m)
                 \cup {[id |-> id, type |-> StubType(id), parent |-> NoID] : id \in ExtObjects(m)}]
================================================================================
