-------------------------------- MODULE Syntax --------------------------------
(* The text of a model file: Parse (dsl/parse.go), Format (dsl/format.go),    *)
(* and the three ways in which a text is stored that Format wrote:            *)
(* canonicalize of core/files.go and mutateDraftFile of core/patch.go for the *)
(* files of a draft, and fmt -w of cmd/twinmodel.                             *)
(*                                                                            *)
(* A text is the tree that YAML reads in it (external).  What Format writes   *)
(* is so too: a scalar that it quotes is read as it is; one that it does not  *)
(* quote, and that YAML takes for something else, garbles the text, and what  *)
(* is garbled is read no further; a key with nothing under it is read as      *)
(* null.  Left out: comments, positions, and the wording of errors.           *)
EXTENDS Integers, Sequences

CONSTANTS
    Saved,       \* the texts a user may save
    Fragments,   \* what add_type and add_instance may be given: [section, name, body]
    Depth,       \* bound: how deep what a user writes is nested
    MaxSteps,    \* bound: how often a file is written
    Unsafe,      \* the strings that YAML reads as something else, unless quoted
    Quotable,    \* needsQuote: those that Format quotes if it quotes at all
    Cleaned,     \* cleanDoc, of those that it changes
    Suffixed,    \* splitPlaceholder: the keys Name<Suffix>, with the two parts
    Prefixed,    \* parseTypeRef: the references alias:Name, with the two parts
    Bools,       \* strconv.ParseBool, where it is defined
    Ints,        \* strconv.Atoi, where it is defined
    Builtin,     \* the data types of ns0
    Verbatim,    \*   and of these, the numbers and Boolean
    NoModel

-------------------------------------------------------------------------------
(* YAML trees: a mapping has entries, a sequence items.                       *)
Kinds == {"scalar", "mapping", "sequence"}
TreesTo[d \in Nat] ==
    LET Below == IF d = 0 THEN {} ELSE TreesTo[d - 1]
    IN  [kind : Kinds, value : STRING,
         entries : Seq([key : STRING, val : Below]), items : Seq(Below)]

(* Numbers and the like need no quotes, but get them.  What cleanDoc returns, *)
(* it does not change; a placeholder has a suffix.                            *)
ASSUME StringsAssumption ==
    /\ Verbatim \subseteq Builtin /\ "" \notin Unsafe \cup Quotable
    /\ \A d \in DOMAIN Cleaned : Cleaned[d] \in STRING \ DOMAIN Cleaned
    /\ "" \notin DOMAIN Cleaned
    /\ \A k \in DOMAIN Suffixed : Suffixed[k] \in STRING \X (STRING \ {""})
    /\ \A t \in DOMAIN Bools : Bools[t] \in BOOLEAN
    /\ {"true", "false"} \subseteq DOMAIN Bools /\ Bools["true"] /\ ~Bools["false"]
    /\ \A t \in DOMAIN Ints : Ints[t] \in Int
    /\ DOMAIN Suffixed \cup DOMAIN Ints \subseteq STRING
ASSUME WordsAssumption ==   \* what the provers do not know of literals
    {"", "variable", "mandatory", "r", "name", "kind", "type", "rule", "access", "unit", "doc", "children",
     "in", "out"} \subseteq STRING
ASSUME TextsAssumption ==
    /\ Depth \in Nat
    /\ Saved \subseteq TreesTo[Depth]
    /\ \A f \in Fragments : f.name \in STRING /\ f.body \in TreesTo[Depth]

VARIABLES
    text,     \* the file
    meant,    \* the model it was written for
    steps     \* how often it was written

vars == <<text, meant, steps>>

-------------------------------------------------------------------------------
Scalar(t) == [kind |-> "scalar", value |-> t, entries |-> <<>>, items |-> <<>>]
Mapping(entries) == [kind |-> "mapping", value |-> "", entries |-> entries, items |-> <<>>]
List(items) == [kind |-> "sequence", value |-> "", entries |-> <<>>, items |-> items]
Garbled == [kind |-> "garbled", value |-> "", entries |-> <<>>, items |-> <<>>]

(* What Format writes of members that nest Depth deep is no deeper.           *)
Trees == TreesTo[2 * Depth + 8]

Pair(k, n) == [key |-> k, val |-> n]
In(s) == {s[i] : i \in DOMAIN s}
Keys(n) == {e.key : e \in In(n.entries)}
Under(n, k) == {e.val : e \in {x \in In(n.entries) : x.key = k}}

(* The last of the entries with a key counts; a value that is no scalar has   *)
(* the empty string for its Value.                                            *)
At(n, k, default) ==
    IF k \notin Keys(n) THEN default
    ELSE n.entries[CHOOSE i \in DOMAIN n.entries :
             /\ n.entries[i].key = k
             /\ \A j \in DOMAIN n.entries : j > i => n.entries[j].key # k].val
Value(n, k, default) == At(n, k, Scalar(default)).value
Children(n, k) == At(n, k, Mapping(<<>>)).entries

-------------------------------------------------------------------------------
(* What Parse accepts: the shapes, and no key it does not know.               *)
MapOf(n, keys) == n.kind = "mapping" /\ Keys(n) \subseteq keys
Named(n, keys) == n.kind = "mapping" /\ \A e \in In(n.entries) : MapOf(e.val, keys)

ImportsOK(n) ==
    /\ n.kind = "mapping"
    /\ \A e \in In(n.entries) :
        \/ e.val.kind = "scalar"
        \/ MapOf(e.val, {"uri", "version"}) /\ Value(e.val, "uri", "") # ""

EnumValueOK(n) ==
    \/ n.kind = "scalar"
    \/ n.kind = "mapping" /\ Len(n.entries) = 1 /\ n.entries[1].val.value \in DOMAIN Ints
EnumsOK(n) ==
    /\ Named(n, {"doc", "values"})
    /\ \A e \in In(n.entries) : \A v \in Under(e.val, "values") :
        v.kind = "sequence" /\ \A x \in In(v.items) : EnumValueOK(x)

ArgumentsOK(n) == n.kind = "sequence" /\ \A a \in In(n.items) : MapOf(a, {"name", "type"})
MemberKeys == {"kind", "type", "rule", "access", "unit", "doc", "children", "in", "out"}
MembersOK[n \in Trees] ==
    /\ Named(n, MemberKeys)
    /\ \A e \in In(n.entries) :
        /\ \A v \in Under(e.val, "in") \cup Under(e.val, "out") : ArgumentsOK(v)
        /\ \A v \in Under(e.val, "children") : MembersOK[v]
TypesOK(n) ==
    /\ Named(n, {"doc", "base", "abstract", "members"})
    /\ \A e \in In(n.entries) :
        /\ \A v \in Under(e.val, "abstract") : v.value \in DOMAIN Bools
        /\ \A v \in Under(e.val, "members") : MembersOK[v]

InstancesOK(n) ==
    /\ Named(n, {"type", "under", "level", "values", "children"})
    /\ \A e \in In(n.entries) :
        /\ \A v \in Under(e.val, "values") :
            v.kind = "mapping" /\ \A x \in In(v.entries) : x.val.kind = "scalar"
        /\ \A v \in Under(e.val, "children") :
            Named(v, {"of"}) /\ \A x \in In(v.entries) : Value(x.val, "of", "") # ""

PerspectivesOK(n) ==
    /\ Named(n, {"label", "membership", "export", "nodes"})
    /\ \A e \in In(n.entries) : \A v \in Under(e.val, "nodes") :
        Named(v, {"label", "children", "members"})

HeaderKeys == {"name", "namespace", "prefix", "version", "publication_date"}
SectionOK(k, n) ==
    \/ k = "model" /\ MapOf(n, HeaderKeys)
    \/ k = "hierarchy" /\ MapOf(n, {"allowLevelSkip"})
    \/ k = "imports" /\ ImportsOK(n)
    \/ k = "enums" /\ EnumsOK(n)
    \/ k = "object_types" /\ TypesOK(n)
    \/ k = "instances" /\ InstancesOK(n)
    \/ k = "perspectives" /\ PerspectivesOK(n)
Parses(t) ==
    /\ t.kind = "mapping" /\ "model" \in Keys(t)
    /\ \A e \in In(t.entries) : SectionOK(e.key, e.val)

-------------------------------------------------------------------------------
(* The model in a text that parses.                                           *)
CleanDoc(n) ==
    LET d == Value(n, "doc", "") IN IF d \in DOMAIN Cleaned THEN Cleaned[d] ELSE d
Texts(n) == IF n.kind = "sequence" THEN [i \in DOMAIN n.items |-> n.items[i].value] ELSE <<>>
Each(entries, Read(_)) == [i \in DOMAIN entries |-> Read(entries[i])]

ReadImport(e) ==
    IF e.val.kind = "scalar" THEN [alias |-> e.key, uri |-> e.val.value, version |-> ""]
    ELSE [alias |-> e.key, uri |-> Value(e.val, "uri", ""), version |-> Value(e.val, "version", "")]

ReadEnum(e) ==
    LET items == At(e.val, "values", List(<<>>)).items
        Entry(i) ==
            IF items[i].kind = "scalar"
            THEN [name |-> items[i].value, id |-> i - 1, explicit |-> FALSE]
            ELSE LET x == items[i].entries[1]
                 IN  [name |-> x.key, id |-> Ints[x.val.value], explicit |-> TRUE]
    IN  [name |-> e.key, doc |-> CleanDoc(e.val), values |-> [i \in DOMAIN items |-> Entry(i)]]

ReadArgument(n) == [name |-> Value(n, "name", ""), type |-> Value(n, "type", "")]
ReadArguments(n, k) == Each(At(n, k, List(<<>>)).items, ReadArgument)
ReadMember[e \in [key : STRING, val : Trees]] ==
    [name |-> IF e.key \in DOMAIN Suffixed THEN Suffixed[e.key][1] ELSE e.key,
     suffix |-> IF e.key \in DOMAIN Suffixed THEN Suffixed[e.key][2] ELSE "",
     kind |-> Value(e.val, "kind", "variable"),
     type |-> Value(e.val, "type", ""),
     rule |-> Value(e.val, "rule", "mandatory"),
     access |-> Value(e.val, "access", "r"),
     unit |-> Value(e.val, "unit", ""),
     doc |-> CleanDoc(e.val),
     in |-> ReadArguments(e.val, "in"),
     out |-> ReadArguments(e.val, "out"),
     children |-> Each(Children(e.val, "children"), LAMBDA x : ReadMember[x])]
ReadType(e) ==
    [name |-> e.key, doc |-> CleanDoc(e.val), base |-> Value(e.val, "base", ""),
     abstract |-> Bools[Value(e.val, "abstract", "false")],
     members |-> Each(Children(e.val, "members"), LAMBDA x : ReadMember[x])]

ReadInstance(e) ==
    LET ReadValue(x) == [member |-> x.key, raw |-> x.val.value]
        ReadChild(x) == [name |-> x.key, of |-> Value(x.val, "of", "")]
    IN  [name |-> e.key, type |-> Value(e.val, "type", ""), under |-> Value(e.val, "under", ""),
         level |-> Value(e.val, "level", ""),
         values |-> Each(Children(e.val, "values"), ReadValue),
         children |-> Each(Children(e.val, "children"), ReadChild)]

ReadPerspective(e) ==
    LET ReadNode(x) ==
            [id |-> x.key, label |-> Value(x.val, "label", ""),
             children |-> Texts(At(x.val, "children", List(<<>>))),
             members |-> Texts(At(x.val, "members", List(<<>>)))]
    IN  [id |-> e.key, label |-> Value(e.val, "label", ""),
         membership |-> Value(e.val, "membership", ""),
         export |-> Value(e.val, "export", "") = "true",
         nodes |-> Each(Children(e.val, "nodes"), ReadNode)]

(* The header gathers what all its sections say; of another section that      *)
(* comes twice, the last one counts.                                          *)
HeaderField(t, k) ==
    LET Gives(i) == t.entries[i].key = "model" /\ k \in Keys(t.entries[i].val)
    IN  IF ~\E i \in DOMAIN t.entries : Gives(i) THEN ""
        ELSE Value(t.entries[CHOOSE i \in DOMAIN t.entries :
                       Gives(i) /\ \A j \in DOMAIN t.entries : j > i => ~Gives(j)].val, k, "")
Parse(t) ==
    [header |-> [k \in HeaderKeys |-> HeaderField(t, k)],
     hierarchy |-> [set |-> "hierarchy" \in Keys(t),
                    skip |-> Value(At(t, "hierarchy", Mapping(<<>>)), "allowLevelSkip", "") = "true"],
     imports |-> Each(Children(t, "imports"), ReadImport),
     enums |-> Each(Children(t, "enums"), ReadEnum),
     types |-> Each(Children(t, "object_types"), ReadType),
     instances |-> Each(Children(t, "instances"), ReadInstance),
     perspectives |-> Each(Children(t, "perspectives"), ReadPerspective)]

-------------------------------------------------------------------------------
(* How YAML reads what Format writes of a model: a string as it stands, one   *)
(* that needsQuote quotes, and one of a list in brackets.                     *)
Plain(t) == IF t \in Unsafe THEN Garbled ELSE Scalar(t)
Quoted(t) == IF t \in Quotable THEN Scalar(t) ELSE Plain(t)
Item(t) == IF t = "" THEN Garbled ELSE Plain(t)

(* A key is never quoted (but for the brackets of a placeholder).             *)
Line(k, n) == Pair(k, IF k \in Unsafe THEN Garbled ELSE n)
LineIf(cond, k, n) == IF cond THEN <<Line(k, n)>> ELSE <<>>
Braces(lines) == IF \E e \in In(lines) : e.val = Garbled THEN Garbled ELSE Mapping(lines)
Block(lines) == IF lines = <<>> THEN Scalar("") ELSE Braces(lines)
Listed(items) == IF Garbled \in In(items) THEN Garbled ELSE List(items)
Section(k, decls, Write(_)) == LineIf(decls # <<>>, k, Block(Each(decls, Write)))

WriteImport(im) ==
    Line(im.alias,
         IF im.version = "" THEN Quoted(im.uri)
         ELSE Block(<<Line("uri", Quoted(im.uri)), Line("version", Quoted(im.version))>>))

(* Mutant: the id of an enum value is not written.                            *)
WriteEnumNames(en) ==
    Line(en.name, Block(LineIf(en.doc # "", "doc", Quoted(en.doc)) \o
        <<Line("values", IF en.values = <<>> THEN Scalar("")
                         ELSE Listed(Each(en.values, LAMBDA v : Plain(v.name))))>>))

WriteEnum(en) ==
    LET WriteValue(v) ==
            IF ~v.explicit THEN Plain(v.name)
            ELSE Braces(<<Line(v.name, Scalar(CHOOSE t \in DOMAIN Ints : Ints[t] = v.id))>>)
    IN  Line(en.name, Block(LineIf(en.doc # "", "doc", Quoted(en.doc)) \o
            <<Line("values", IF en.values = <<>> THEN Scalar("")
                             ELSE Listed(Each(en.values, WriteValue)))>>))

WriteArgument(a) == Braces(<<Line("name", Plain(a.name)), Line("type", Plain(a.type))>>)
ArgumentLines(k, args) == LineIf(args # <<>>, k, Listed(Each(args, WriteArgument)))

(* The fields of a member that are not what Parse would take anyway; all in   *)
(* one line, in braces, if it has no others.                                  *)
InlineFields(mem) ==
    LineIf(mem.kind # "variable", "kind", Plain(mem.kind))
    \o LineIf(mem.type # "", "type", Plain(mem.type))
    \o LineIf(mem.rule # "mandatory", "rule", Plain(mem.rule))
    \o LineIf(mem.kind \in {"variable", "property"} /\ mem.access # "r", "access", Plain(mem.access))
    \o LineIf(mem.unit # "", "unit", Quoted(mem.unit))
    \o LineIf(mem.doc # "", "doc", Quoted(mem.doc))
MemberKey(mem) ==
    IF mem.suffix = "" THEN mem.name
    ELSE CHOOSE k \in DOMAIN Suffixed : Suffixed[k] = <<mem.name, mem.suffix>>

Arguments == [name : STRING, type : STRING]
MembersTo[d \in Nat] ==
    LET Below == IF d = 0 THEN {} ELSE MembersTo[d - 1]
    IN  [name : STRING, suffix : STRING, kind : STRING, type : STRING, rule : STRING,
         access : STRING, unit : STRING, doc : STRING, in : Seq(Arguments),
         out : Seq(Arguments), children : Seq(Below)]
Members == MembersTo[Depth]
WriteMember[mem \in Members] ==
    Line(MemberKey(mem), Braces(
        InlineFields(mem) \o ArgumentLines("in", mem.in) \o ArgumentLines("out", mem.out)
        \o Section("children", mem.children, LAMBDA x : WriteMember[x])))

WriteType(ot) ==
    Line(ot.name, Block(
        LineIf(ot.doc # "", "doc", Quoted(ot.doc))
        \o LineIf(ot.base # "", "base", Plain(ot.base))
        \o LineIf(ot.abstract, "abstract", Scalar("true"))
        \o Section("members", ot.members, LAMBDA x : WriteMember[x])))

(* valueMemberTypes: the type of a member, looked for along the bases.  After *)
(* as many steps as there are types, the walk repeats itself if it goes on.   *)
Ref(t) == IF t \in DOMAIN Prefixed THEN Prefixed[t] ELSE <<"", t>>
NamesOf(s) == {d.name : d \in In(s)}
TypeNames(m) == NamesOf(m.types)
FirstNamed(s, n) ==
    s[CHOOSE i \in DOMAIN s : s[i].name = n /\ \A j \in DOMAIN s : j < i => s[j].name # n]
Bases(m) ==
    [n \in TypeNames(m) |->
        LET base == FirstNamed(m.types, n).base
        IN  IF base # "" /\ Ref(base)[1] = "" /\ Ref(base)[2] \notin Builtin THEN Ref(base)[2] ELSE n]
Declared(m) ==
    [n \in TypeNames(m) |->
        LET members == FirstNamed(m.types, n).members
        IN  [x \in NamesOf(members) |-> FirstNamed(members, x).type]]
TypeAlong(bases, declared, limit, typeName, n) ==
    LET along[i \in 0 .. limit] ==
            IF i = 0 THEN typeName
            ELSE IF along[i - 1] \in DOMAIN bases THEN bases[along[i - 1]] ELSE along[i - 1]
        Has(i) == along[i] \in DOMAIN declared /\ n \in DOMAIN declared[along[i]]
    IN  IF ~\E i \in 0 .. limit : Has(i) THEN ""
        ELSE declared[along[CHOOSE i \in 0 .. limit : Has(i) /\ \A j \in 0 .. limit : j < i => ~Has(j)]][n]
MemberType(m, typeName, n) == TypeAlong(Bases(m), Declared(m), Len(m.types), typeName, n)

(* valueLiteral: numbers, Booleans and the values of enums are.               *)
ValueLiteral(m, type, raw) ==
    LET ref == Ref(type)
        enum == ref[2] \notin Builtin /\ \E i \in DOMAIN m.enums : m.enums[i].name = ref[2]
    IN  IF raw # "" /\ ref[1] = "" /\ (ref[2] \in Verbatim \/ enum)
        THEN Plain(raw) ELSE Quoted(raw)

WriteInstance(m, inst) ==
    LET WriteValue(v) ==
            Line(v.member, ValueLiteral(m, MemberType(m, Ref(inst.type)[2], v.member), v.raw))
        WriteChild(ch) == Line(ch.name, Braces(<<Line("of", Quoted(ch.of))>>))
    IN  Line(inst.name, Block(
            <<Line("type", Plain(inst.type)), Line("under", Plain(inst.under))>>
            \o LineIf(inst.level # "", "level", Plain(inst.level))
            \o Section("values", inst.values, WriteValue)
            \o Section("children", inst.children, WriteChild)))

WritePerspective(p) ==
    LET Ids(k, ids) == LineIf(ids # <<>>, k, Listed(Each(ids, Item)))
        WriteNode(nd) ==
            Line(nd.id, Block(LineIf(nd.label # "", "label", Quoted(nd.label))
                              \o Ids("children", nd.children) \o Ids("members", nd.members)))
    IN  Line(p.id, Block(
            LineIf(p.label # "", "label", Quoted(p.label))
            \o LineIf(p.membership # "", "membership", Plain(p.membership))
            \o <<Line("export", Scalar(IF p.export THEN "true" ELSE "false"))>>
            \o Section("nodes", p.nodes, WriteNode)))

WriteHeader(h) ==
    Block(<<Line("name", Quoted(h.name)), Line("namespace", Quoted(h.namespace))>>
          \o LineIf(h.prefix # "", "prefix", Quoted(h.prefix))
          \o <<Line("version", Quoted(h.version)),
               Line("publication_date", Quoted(h.publication_date))>>)

Format(m) ==
    Braces(
        <<Line("model", WriteHeader(m.header))>>
        \o LineIf(m.hierarchy.set, "hierarchy",
                  Braces(<<Line("allowLevelSkip", Scalar(IF m.hierarchy.skip THEN "true" ELSE "false"))>>))
        \o Section("imports", m.imports, WriteImport)
        \o Section("enums", m.enums, WriteEnum)
        \o Section("object_types", m.types, WriteType)
        \o Section("instances", m.instances, LAMBDA inst : WriteInstance(m, inst))
        \o Section("perspectives", m.perspectives, WritePerspective))

-------------------------------------------------------------------------------
(* Storing.  What the linter may refuse is left open: the file may also stay  *)
(* as it is.                                                                  *)
Init ==
    /\ text \in Saved /\ meant = NoModel
    /\ steps = 0

Store(m) == text' = Format(m) /\ meant' = m
Step == steps < MaxSteps /\ steps' = steps + 1

(* A user saves the file in the editor of texts: canonicalize.                *)
Canonicalize(t) ==
    /\ Step
    /\ IF Parses(t) THEN Store(Parse(t)) ELSE text' = t /\ meant' = NoModel

(* fmt -w: what does not parse is left alone.                                 *)
Fmt ==
    /\ Step
    /\ Parses(text) /\ Store(Parse(text))

(* AddType and AddInstance: the body is parsed in a model of its own.         *)
AddDeclaration(f) ==
    /\ Step
    /\ Parses(text)
    /\ SectionOK(f.section, Mapping(<<Pair(f.name, f.body)>>))
    /\ LET m == Parse(text)
           e == Pair(f.name, f.body)
       IN  \/ /\ f.section = "object_types"
              /\ f.name \notin TypeNames(m)
              /\ Store([m EXCEPT !.types = Append(@, ReadType(e))])
           \/ /\ f.section = "instances"
              /\ \A i \in DOMAIN m.instances : m.instances[i].name # f.name
              /\ Store([m EXCEPT !.instances = Append(@, ReadInstance(e))])

Next ==
    \/ \E t \in Saved : Canonicalize(t)
    \/ Fmt
    \/ \E f \in Fragments : AddDeclaration(f)

Spec == Init /\ [][Next]_vars

-------------------------------------------------------------------------------
Legible(t) == t # Garbled

(* Declarations that leave nothing to write under their names.                *)
Bare(m) ==
    \/ \E i \in DOMAIN m.enums : m.enums[i].values = <<>>
    \/ \E i \in DOMAIN m.types : LET ot == m.types[i] IN
          ot.doc = "" /\ ot.base = "" /\ ~ot.abstract /\ ot.members = <<>>
    \/ \E i \in DOMAIN m.perspectives : \E j \in DOMAIN m.perspectives[i].nodes :
          LET nd == m.perspectives[i].nodes[j]
          IN  nd.label = "" /\ nd.children = <<>> /\ nd.members = <<>>

(* Access is written of variables and properties only.                        *)
Canonical[mem \in Members] ==
    [mem EXCEPT !.access = IF mem.kind \in {"variable", "property"} THEN @ ELSE "r",
                !.children = Each(@, LAMBDA x : Canonical[x])]
CanonicalModel(m) ==
    [m EXCEPT !.types = Each(@, LAMBDA ot : [ot EXCEPT !.members = Each(@, LAMBDA x : Canonical[x])])]

(* Format is "deterministic and idempotent", and its "output should always    *)
(* re-parse cleanly" (core/patch.go).  What is stored is the model it was     *)
(* stored for, and formatting it again changes nothing.  Excepted are texts   *)
(* that are garbled, by a string that needs quotes and gets none; and         *)
(* declarations with nothing in them, which Parse takes as {} and Format      *)
(* writes as null: those, and no others, do not parse any more.               *)
FormatKeeps ==
    meant # NoModel /\ Legible(text) =>
        /\ Parses(text) <=> ~Bare(meant)
        /\ Parses(text) =>
            /\ Parse(text) = CanonicalModel(meant)
            /\ Format(Parse(text)) = text
===============================================================================
