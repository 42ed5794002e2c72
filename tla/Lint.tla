---------------------------------- MODULE Lint ---------------------------------
(* What the linter says of a model (dsl/validate.go): a set of pairs of a     *)
(* code and the path of names to what it is about.  Every code is an error,   *)
(* so a model is clean when there is none.                                    *)
EXTENDS Dsl

(* The codes of the rows whose condition holds, said of x.                    *)
Said(x, rows) == {<<row[1], x>> : row \in {r \in rows : r[2]}}

-------------------------------------------------------------------------------
(* A header value is "" (missing), "bad" (of the wrong form) or right.        *)
CheckHeader(m) ==
    Said(<<"model">>,
        {<<"missing-name", m.header.name = "">>,
         <<"missing-namespace", m.header.ns = "">>,
         <<"namespace-trailing-slash", m.header.ns = "bad">>,
         <<"missing-version", m.header.version = "">>,
         <<"version-semver", m.header.version = "bad">>,
         <<"missing-publication-date", m.header.date = "">>,
         <<"publication-date-format", m.header.date = "bad">>})

CheckImports(m) ==
    UNION {Said(<<im.name>>, {<<"import-not-bundled",
                            /\ m.catalog # {} /\ im.uri # UA /\ im.name # "OpcUa"
                            /\ im.uri \notin m.catalog>>}) : im \in ToSet(m.imports)}

CheckDuplicateTypes(m) ==
    {<<"duplicate-type", <<n>>>> :
        n \in Repeated([i \in DOMAIN m.enums |-> [name |-> m.enums[i].name]]
                       \o [i \in DOMAIN m.types |-> [name |-> m.types[i].name]])}

CheckEnum(e) ==
    Said(<<e.name>>,
        {<<"empty-enum", e.values = <<>>>>,
         <<"duplicate-enum-value", Repeated(e.values) # {}>>,
         <<"negative-enum-id", \E i \in DOMAIN e.values : e.values[i].id < 0>>,
         <<"duplicate-enum-id", \E i, j \in DOMAIN e.values : i < j /\ e.values[i].id = e.values[j].id>>})

Unresolved(m, x, r) ==
    Said(x, {<<"unknown-import-alias", r.kind = "unknownAlias">>,
             <<"unknown-import-type", r.kind = "importUnknown" /\ r.uri \in m.catalog>>})
CheckTypeRef(m, x, ref) ==
    IF ref = NoRef THEN {}
    ELSE Unresolved(m, x, ResolveType(m, ref))
         \cup Said(x, {<<"unknown-type", Kind(m, ref) = "unknownName">>})

(* The walk to the bases of one type.  Another declaration of its name may    *)
(* have other bases.                                                          *)
BasesFrom(m, ot) ==
    [t \in (DOMAIN Bases(m) \ {ot.name}) \cup (IF HasLocalBase(m, ot) THEN {ot.name} ELSE {}) |->
         IF t = ot.name THEN ot.base.name ELSE Bases(m)[t]]
UnknownBase(m, ot, r) ==
    \/ r.kind \in {"builtin", "unknownName"}
    \/ r.kind = "local" /\ ~HasLocalBase(m, ot)
    \/ r.kind = "importResolved" /\ Node(<<r.uri, r.name>>).class # "ObjectType"
CheckBase(m, ot) ==
    IF ot.base = NoRef THEN {}
    ELSE Unresolved(m, <<ot.name>>, ResolveType(m, ot.base))
         \cup Said(<<ot.name>>, {<<"unknown-base", UnknownBase(m, ot, ResolveType(m, ot.base))>>})
CheckInheritance(m) ==
    UNION {CheckBase(m, ot)
           \cup IF Loops(BasesFrom(m, ot), ot.name)
                THEN {<<"inheritance-cycle", <<Last(Walk(BasesFrom(m, ot), ot.name))>>>>} ELSE {} :
           ot \in ToSet(m.types)}

-------------------------------------------------------------------------------
CheckMember(m, owner, mem) ==
    LET x == Append(owner, mem.name)
    IN  Said(x,
            {<<"invalid-kind", mem.kind \notin Kinds>>,
             <<"invalid-rule", mem.rule \notin Rules>>,
             <<"invalid-access", mem.kind \in {"variable", "property"} /\ mem.access \notin {"r", "rw"}>>,
             <<"placeholder-without-rule", mem.placeholder /\ mem.rule \notin PlaceholderRules>>,
             <<"rule-without-placeholder", ~mem.placeholder /\ mem.rule \in PlaceholderRules>>,
             <<"missing-type", mem.kind # "method" /\ mem.type = NoRef>>,
             <<"unknown-unit", mem.unit # "" /\ mem.kind = "variable" /\ mem.unit \notin Units>>,
             <<"unit-on-non-numeric",
               /\ mem.unit # "" /\ mem.kind = "variable"
               /\ ~(mem.type.alias = "" /\ mem.type.name \in Numeric)>>,
             <<"unit-on-property", mem.unit # "" /\ mem.kind = "property">>,
             <<"unit-requires-variable", mem.unit # "" /\ mem.kind \notin {"variable", "property"}>>})
        \cup (IF mem.kind = "method" THEN {} ELSE CheckTypeRef(m, x, mem.type))
        \cup UNION {CheckTypeRef(m, x, arg) : arg \in mem.args}

CheckMembers(m, owner, mems) ==
    LET check(o, s) == {<<"duplicate-member", Append(o, n)>> : n \in Repeated(s)}
                       \cup UNION {CheckMember(m, o, mem) : mem \in ToSet(s)}
    IN  check(owner, mems)
        \cup UNION {check(Append(owner, mem.name), mem.children) :
                        mem \in {x \in ToSet(mems) : x.kind = "object"}}

-------------------------------------------------------------------------------
(* The declared instance that one is under.                                   *)
HasParent(m, inst) == inst.under.alias = "" /\ inst.under.name \in Names(m.instances)
Parents(m) ==
    [n \in {n \in Names(m.instances) : HasParent(m, LastNamed(m.instances, n))} |->
         LastNamed(m.instances, n).under.name]
ParentsFrom(m, inst) ==
    [n \in (DOMAIN Parents(m) \ {inst.name}) \cup (IF HasParent(m, inst) THEN {inst.name} ELSE {}) |->
         IF n = inst.name THEN inst.under.name ELSE Parents(m)[n]]

CheckUnder(m, inst) ==
    LET kind == Kind(m, inst.under)
    IN  IF inst.under = NoRef THEN {}
        ELSE Said(<<inst.name>>,
            {<<"unknown-import-alias", kind = "unknownAlias">>,
             <<"unknown-under", \/ kind \in {"builtin", "local"}
                                \/ kind = "unknownName" /\ inst.under.name \notin Names(m.instances)>>})

Abstract(m, ref) ==
    \/ Kind(m, ref) = "local" /\ \E ot \in ToSet(m.types) : ot.name = ref.name /\ ot.abstract
    \/ Kind(m, ref) = "importResolved" /\ Node(CatalogKey(m, ref)).abstract

(* The members in file order, each before its own members.                    *)
Preorder(mems) == FlattenSeq([i \in DOMAIN mems |-> <<mems[i]>> \o mems[i].children])
Placeholders(mems) == {mem \in ToSet(Preorder(mems)) : mem.placeholder}

CheckValue(x, mems, n) ==
    Said(x, {<<"unknown-value-member", n \notin Names(mems)>>,
             <<"value-not-value-bearing",
               n \in Names(mems) /\ FirstNamed(mems, n).kind \notin {"property", "variable"}>>})
CheckFilled(inst, mems) ==
    (UNION {CheckValue(<<inst.name, val.name>>, mems, val.name) : val \in ToSet(inst.values)})
    \cup {<<"unknown-placeholder", <<inst.name, ch.name>>>> :
              ch \in {c \in ToSet(inst.children) : c.of \notin {mem.name : mem \in Placeholders(mems)}}}
CheckInstanceMembers(m, inst) ==
    IF Opaque(m, inst.type) THEN {} ELSE CheckFilled(inst, MembersOf(m, inst.type))

(* An organizational instance has a level with a tier; the others, equipment. *)
IsOrg(inst) == inst.level \in DOMAIN Tier

(* Mutants: a tier may nest in itself; equipment may be one tier higher.      *)
CheckTiersLoosely(m, inst, parent) ==
    Said(<<inst.name>>,
        {<<"hierarchy-level-order", IsOrg(inst) /\ IsOrg(parent) /\ Tier[inst.level] < Tier[parent.level]>>,
         <<"hierarchy-level-skip",
           /\ IsOrg(inst) /\ IsOrg(parent)
           /\ Tier[inst.level] > Tier[parent.level] + 1 /\ ~m.skip>>,
         <<"equipment-parent", ~IsOrg(inst) /\ IsOrg(parent) /\ Tier[parent.level] < 3>>,
         <<"machine-under-machine", ~IsOrg(inst) /\ ~IsOrg(parent) /\ ISA95 \in m.catalog>>})

CheckTiers(m, inst, parent) ==
    Said(<<inst.name>>,
        {<<"hierarchy-level-order", IsOrg(inst) /\ IsOrg(parent) /\ Tier[inst.level] <= Tier[parent.level]>>,
         <<"hierarchy-level-skip",
           /\ IsOrg(inst) /\ IsOrg(parent)
           /\ Tier[inst.level] > Tier[parent.level] + 1 /\ ~m.skip>>,
         <<"equipment-parent", ~IsOrg(inst) /\ IsOrg(parent) /\ Tier[parent.level] < 3>>,
         <<"machine-under-machine", ~IsOrg(inst) /\ ~IsOrg(parent) /\ ISA95 \in m.catalog>>})

CheckHierarchy(m, inst) ==
    LET known == IsOrg(inst) \/ inst.level \in Tierless
    IN  Said(<<inst.name>>,
            {<<"unknown-level", inst.level # "" /\ ~known>>,
             <<"level-on-unsupported-type",
               known /\ ~TypeHasMember(m, inst.type, "EquipmentLevel")>>})
        \cup IF HasParent(m, inst)
             THEN CheckTiers(m, inst, LastNamed(m.instances, inst.under.name)) ELSE {}

CheckInstances(m) ==
    {<<"duplicate-instance", <<n>>>> : n \in Repeated(m.instances)}
    \cup UNION {CheckTypeRef(m, <<inst.name>>, inst.type)
                \cup Said(<<inst.name>>,
                         {<<"abstract-instance", Abstract(m, inst.type)>>,
                          <<"instance-cycle", Loops(ParentsFrom(m, inst), inst.name)>>})
                \cup CheckUnder(m, inst)
                \cup CheckInstanceMembers(m, inst)
                \cup CheckHierarchy(m, inst) : inst \in ToSet(m.instances)}

-------------------------------------------------------------------------------
(* Perspectives (dsl/validate_perspectives.go).                               *)

(* checkPerspectiveCycles: a depth-first search with a colour per node and a  *)
(* stack of open calls, each with the children it has still to look at.  A    *)
(* child whose call is open closes a cycle.                                   *)
SearchStep(p, s) ==
    LET top == Last(s.stack)
        todo == [s EXCEPT !.stack[Len(s.stack)].children = Tail(@)]
        Open(n) == [name |-> n, children |-> LastNamed(p.nodes, n).children]
        unseen == {i \in DOMAIN p.nodes : s.color[p.nodes[i].name] = 0}
    IN  CASE s.found -> s
          [] ~s.found /\ s.stack = <<>> ->
                 IF unseen = {} THEN s
                 ELSE LET n == p.nodes[CHOOSE i \in unseen : \A j \in unseen : i <= j].name
                      IN  [s EXCEPT !.color[n] = 1, !.stack = <<Open(n)>>]
          [] ~s.found /\ s.stack # <<>> ->
                 IF top.children = <<>>
                 THEN [s EXCEPT !.color[top.name] = 2, !.stack = Front(@)]
                 ELSE LET c == Head(top.children)
                      IN  CASE c \notin Names(p.nodes) -> todo
                            [] c \in Names(p.nodes) /\ s.color[c] = 1 -> [s EXCEPT !.found = TRUE]
                            [] c \in Names(p.nodes) /\ s.color[c] = 2 -> todo
                            [] c \in Names(p.nodes) /\ s.color[c] = 0 ->
                                   [todo EXCEPT !.color[c] = 1, !.stack = Append(@, Open(c))]

(* The opening of each node, a look at each of its children, and its end: of  *)
(* these, every step of the search takes one or more.                         *)
SearchSteps(p) ==
    UNION {{n} \X (0 .. Len(LastNamed(p.nodes, n).children) + 1) : n \in Names(p.nodes)}

PerspectiveCyclic(p) ==
    LET steps == Cardinality(SearchSteps(p))
        search[k \in 0..steps] ==
            IF k = 0 THEN [color |-> [n \in Names(p.nodes) |-> 0], stack |-> <<>>, found |-> FALSE]
            ELSE SearchStep(p, search[k - 1])
    IN  search[steps].found

(* A member of an exclusive perspective may be listed once, in one node.      *)
Listed(p) == FlattenSeq([i \in DOMAIN p.nodes |-> p.nodes[i].members])
CheckPerspective(m, p) ==
    Said(<<p.name>>,
        {<<"unknown-membership-mode", p.membership \notin {"", "exclusive", "overlapping"}>>,
         <<"unknown-perspective-node",
           \E nd \in ToSet(p.nodes) : ~(ToSet(nd.children) \subseteq Names(p.nodes))>>,
         <<"perspective-node-cycle", PerspectiveCyclic(p)>>,
         <<"perspective-id-not-exportable", p.export /\ ~p.symbolic>>})
    \cup {<<"dangling-member", <<n>>>> : n \in ToSet(Listed(p)) \ Names(m.instances)}
    \cup {<<"exclusive-membership", <<n>>>> :
             n \in {x \in Names(m.instances) :
                        /\ p.membership # "overlapping"
                        /\ \E i, j \in DOMAIN Listed(p) : i < j /\ Listed(p)[i] = x /\ Listed(p)[j] = x}}

Validate(m) ==
    CheckHeader(m) \cup CheckImports(m) \cup CheckDuplicateTypes(m)
    \cup (UNION {CheckEnum(e) : e \in ToSet(m.enums)})
    \cup CheckInheritance(m)
    \cup (UNION {CheckMembers(m, <<ot.name>>, ot.members) : ot \in ToSet(m.types)})
    \cup CheckInstances(m)
    \cup (UNION {CheckPerspective(m, p) : p \in ToSet(m.perspectives)})

Clean(m) == Validate(m) = {}
================================================================================
