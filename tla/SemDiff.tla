-------------------------------- MODULE SemDiff --------------------------------
(* The change list between two models (semdiff/semdiff.go), as a set: each    *)
(* change is a tuple of its kind and what it is about.                        *)
EXTENDS Emitters

(* The fields of two records that differ.                                     *)
Differ(kind, x, b, d, fields) == {<<kind, x, f>> : f \in {f \in fields : b[f] # d[f]}}

DiffHeader(base, draft) ==
    Differ("HeaderChanged", "model", base.header, draft.header, {"ns", "version"})

DiffImports(base, draft) ==
    {<<"ImportAdded", a>> : a \in Names(draft.imports) \ Names(base.imports)}
    \cup {<<"ImportRemoved", a>> : a \in Names(base.imports) \ Names(draft.imports)}

(* Mutant: only the members of the draft are looked at.                       *)
DiffMembersOneWay(t, base, draft) ==
    {<<"MemberAdded", t, n>> : n \in Names(draft) \ Names(base)}
    \cup UNION {Differ("MemberChanged", <<t, mem.name>>, LastNamed(base, mem.name), mem,
                       {"kind", "type", "rule", "access", "unit"}) :
                mem \in {x \in ToSet(draft) : x.name \in Names(base)}}

(* Of two declarations of a name, the index has the last of the base; those   *)
(* of the draft are all compared with it.                                     *)
DiffMembers(t, base, draft) ==
    {<<"MemberAdded", t, n>> : n \in Names(draft) \ Names(base)}
    \cup (UNION {Differ("MemberChanged", <<t, mem.name>>, LastNamed(base, mem.name), mem,
                        {"kind", "type", "rule", "access", "unit"}) :
                 mem \in {x \in ToSet(draft) : x.name \in Names(base)}})
    \cup {<<"MemberRemoved", t, n>> : n \in Names(base) \ Names(draft)}

DiffTypes(base, draft) ==
    {<<"TypeAdded", n>> : n \in Names(draft.types) \ Names(base.types)}
    \cup (UNION {LET b == LastNamed(base.types, ot.name)
                 IN  Differ("TypeChanged", ot.name, b, ot, {"base", "abstract"})
                     \cup DiffMembers(ot.name, b.members, ot.members) :
                 ot \in {x \in ToSet(draft.types) : x.name \in Names(base.types)}})
    \cup {<<"TypeRemoved", n>> : n \in Names(base.types) \ Names(draft.types)}

DiffEnums(base, draft) ==
    {<<"EnumAdded", n>> : n \in Names(draft.enums) \ Names(base.enums)}
    \cup (UNION {Differ("EnumChanged", e.name, LastNamed(base.enums, e.name), e, {"values"}) :
                 e \in {x \in ToSet(draft.enums) : x.name \in Names(base.enums)}})
    \cup {<<"EnumRemoved", n>> : n \in Names(base.enums) \ Names(draft.enums)}

(* A member without a value reads as "", and so does one set to "".           *)
ValueOf(values, n) == IF n \in Names(values) THEN LastNamed(values, n).raw ELSE ""
DiffValues(b, d) ==
    {<<"ValueChanged", d.name, val.name>> :
        val \in {v \in ToSet(d.values) : ValueOf(b.values, v.name) # v.raw}}
    \cup {<<"ValueChanged", d.name, n>> : n \in Names(b.values) \ Names(d.values)}
DiffChildren(b, d) ==
    {<<"ChildAdded", d.name, n>> : n \in Names(d.children) \ Names(b.children)}
    \cup {<<"ChildRemoved", d.name, n>> : n \in Names(b.children) \ Names(d.children)}

DiffInstances(base, draft) ==
    (UNION {{<<"InstanceAdded", inst.name>>}
            \cup {<<"ValueChanged", inst.name, n>> : n \in Names(inst.values)}
            \cup {<<"ChildAdded", inst.name, n>> : n \in Names(inst.children)} :
            inst \in {x \in ToSet(draft.instances) : x.name \notin Names(base.instances)}})
    \cup (UNION {LET b == LastNamed(base.instances, inst.name)
                 IN  Differ("InstanceChanged", inst.name, b, inst, {"type", "under"})
                     \cup DiffValues(b, inst) \cup DiffChildren(b, inst) :
                 inst \in {x \in ToSet(draft.instances) : x.name \in Names(base.instances)}})
    \cup {<<"InstanceRemoved", n>> : n \in Names(base.instances) \ Names(draft.instances)}

Diff(base, draft) ==
    DiffHeader(base, draft) \cup DiffImports(base, draft) \cup DiffTypes(base, draft)
    \cup DiffEnums(base, draft) \cup DiffInstances(base, draft)
================================================================================
