------------------------------- MODULE MCSyntax -------------------------------
(* Files of the size of examples/equipment.yaml, and others that only a user  *)
(* would write: a section twice, a key unknown or in another shape, strings   *)
(* YAML has a meaning for, declarations with nothing in them.                 *)
EXTENDS Syntax, TLC

Of(k, t) == Pair(k, Scalar(t))
Map(k, entries) == Pair(k, Mapping(entries))
Seqn(k, items) == Pair(k, List(items))
Header == Map("model", <<Of("name", "Plant"), Of("namespace", "urn:plant"),
                         Of("version", "1.0"), Of("publication_date", "2026-07-04")>>)
File(sections) == Mapping(<<Header>> \o sections)

Imports == Map("imports", <<Of("OpcUa", "urn:ua"),
                            Map("DI", <<Of("uri", "urn:di"), Of("version", "1.04")>>)>>)
ImportOfNothing == Map("imports", <<Map("DI", <<Of("version", "1.04")>>)>>)

Enum(name, fields) == Map("enums", <<Map(name, fields)>>)
Modes == Enum("Mode", <<Of("doc", "in\ntwo lines"),
                        Seqn("values", <<Scalar("Off"), Mapping(<<Of("On", "2")>>), Scalar("Auto")>>)>>)
ModesUnnumbered == Enum("Mode", <<Seqn("values", <<Mapping(<<Of("On", "two")>>)>>)>>)
NoModes == Enum("Mode", <<>>)

Types(decls) == Map("object_types", decls)
UnitType ==
    Map("UnitType",
        <<Of("base", "OpcUa:BaseObjectType"), Of("abstract", "True"),
          Map("members", <<Map("State", <<Of("type", "Mode")>>),
                           Map("Serial", <<Of("type", "String"), Of("kind", "property")>>)>>)>>)
FurnaceType ==
    Map("FurnaceType",
        <<Of("base", "UnitType"),
          Map("members",
              <<Map("Temp", <<Of("type", "Double"), Of("unit", "%"), Of("access", "rw")>>),
                Map("Zones", <<Of("kind", "object"), Of("access", "rw"),
                               Map("children", <<Map("Zone<No>", <<Of("type", "UnitType"),
                                                                   Of("rule", "optional_placeholder")>>)>>)>>),
                Map("Start", <<Of("kind", "method"),
                               Seqn("in", <<Mapping(<<Of("name", "Mode"), Of("type", "Mode")>>)>>),
                               Seqn("out", <<Mapping(<<Of("type", "Double")>>)>>)>>),
                Map("Any", <<>>)>>)>>)
TypeUnknownKey == Map("T", <<Of("base", "UnitType"), Of("bases", "UnitType")>>)
BareType == Map("T", <<>>)
EmptyType == Map("T", <<Of("abstract", "false"), Map("members", <<>>)>>)
DashedType == Map("T", <<Of("doc", "- the type")>>)
MemberOfNoShape == Map("T", <<Map("members", <<Of("X", "5")>>)>>)

Instances(decls) == Map("instances", decls)
Furnace(temp) ==
    Map("F1", <<Of("type", "FurnaceType"), Of("under", "OpcUa:ObjectsFolder"), Of("level", "Unit"),
                Map("values", <<Of("Temp", temp), Of("State", "On"), Of("Serial", "42")>>),
                Map("children", <<Map("Z1", <<Of("of", "Zone")>>)>>)>>)
ChildOfNothing == Map("F1", <<Of("type", "FurnaceType"), Map("children", <<Map("Z1", <<>>)>>)>>)
Orphan == Map("F2", <<>>)

Groups(nodes) ==
    Map("perspectives", <<Map("zones", <<Of("label", "zones: all"), Of("membership", "exclusive"),
                                         Of("export", "true"), Map("nodes", nodes)>>)>>)
Halls == Groups(<<Map("hall", <<Of("label", "the\nhall"), Seqn("children", <<Scalar("bay")>>)>>),
                  Map("bay", <<Seqn("members", <<Scalar("F1"), Scalar("F2")>>)>>)>>)
Bay(fields) == Groups(<<Map("bay", fields)>>)
Skipping(how) == Map("hierarchy", <<Of("allowLevelSkip", how)>>)

Whole == File(<<Imports, Modes, Types(<<UnitType, FurnaceType>>), Instances(<<Furnace("42")>>),
                Bay(<<Seqn("members", <<Scalar("F1")>>)>>), Skipping("true")>>)
Files ==
    {Whole, Mapping(<<>>), Mapping(<<Imports>>), Scalar("model"), File(<<Of("imports", "")>>)}
    \cup {File(<<s>>) : s \in {Imports, ImportOfNothing, Modes, ModesUnnumbered, NoModes, Halls,
                               Bay(<<>>), Skipping("yes"), Map("import", <<>>)}}
    \cup {File(<<Modes, Types(<<t>>)>>) : t \in {TypeUnknownKey, BareType, EmptyType, DashedType,
                                                 MemberOfNoShape, UnitType}}
    \cup {File(<<Types(<<UnitType, FurnaceType>>), Instances(<<i>>)>>) :
             i \in {Furnace("warm # about"), Furnace("4: 2"), ChildOfNothing, Orphan}}
    \cup {File(<<Types(<<UnitType>>), Modes, Types(<<FurnaceType>>), Map("model", <<Of("version", "- 1")>>)>>)}
NewDeclarations ==
    {[section |-> "object_types", name |-> "T", body |-> t.val] :
        t \in {BareType, DashedType, FurnaceType, TypeUnknownKey}}
    \cup {[section |-> "instances", name |-> "F2", body |-> i.val] :
             i \in {Furnace("42"), Orphan, ChildOfNothing}}

UnsafeStrings == {"in\ntwo lines", "the\nhall", "- the type", "- 1", "warm # about", "4: 2",
                  "zones: all", "%"}
QuotableStrings == {"warm # about", "4: 2", "zones: all", "%", "42", "1.04", "1.0", "true",
                    "urn:plant", "urn:ua", "urn:di"}
CleanedStrings == "in\ntwo lines" :> "in two lines"
Placeholders == "Zone<No>" :> <<"Zone", "No">>
References == "OpcUa:BaseObjectType" :> <<"OpcUa", "BaseObjectType">>
              @@ "OpcUa:ObjectsFolder" :> <<"OpcUa", "ObjectsFolder">>
Booleans == "true" :> TRUE @@ "True" :> TRUE @@ "false" :> FALSE
Numbers == "2" :> 2
===============================================================================
