------------------------------ MODULE MCModelTools -----------------------------
(* Models and edits of the size of the repository's examples, with a slice of *)
(* the bundled specs.                                                         *)
EXTENDS ModelTools

Ref(alias, name) == [alias |-> alias, name |-> name]
Import(name, uri) == [name |-> name, uri |-> uri]

(* Members: mandatory and read-only, unless placeholders.                     *)
Mem(kind, name, type, children) ==
    [name |-> name, kind |-> kind, rule |-> "mandatory", placeholder |-> FALSE, access |-> "r",
     type |-> type, unit |-> "", args |-> {}, children |-> children]
Var(name, type) == Mem("variable", name, type, <<>>)
Obj(name, type, children) == Mem("object", name, type, children)
Slot(name, type) ==
    [Mem("object", name, type, <<>>) EXCEPT !.rule = "optional_placeholder", !.placeholder = TRUE]
Call(name, args) == [Mem("method", name, NoRef, <<>>) EXCEPT !.args = args]

Type(name, baseRef, members) ==
    [name |-> name, base |-> baseRef, abstract |-> FALSE, members |-> members]
Inst(name, type, under, level) ==
    [name |-> name, type |-> type, under |-> under, level |-> level,
     values |-> <<>>, children |-> <<>>]
Value(name, raw) == [name |-> name, raw |-> raw]
Child(name, of) == [name |-> name, of |-> of]
Group(name, children, members) == [name |-> name, children |-> children, members |-> members]
Perspective(name, nodes) ==
    [name |-> name, membership |-> "exclusive", export |-> TRUE, symbolic |-> TRUE, nodes |-> nodes]

-------------------------------------------------------------------------------
NoBase == <<"", "">>
SpecNode(class, baseKey, members) ==
    [class |-> class, abstract |-> FALSE, base |-> baseKey, members |-> members]
SpecMem(kind, name, placeholder) == [name |-> name, kind |-> kind, placeholder |-> placeholder]

MCSpecs ==
    "ua" :> [requires |-> {}, nodes |->
                "BaseObjectType" :> SpecNode("ObjectType", NoBase, <<>>)
                @@ "FolderType" :> SpecNode("ObjectType", <<UA, "BaseObjectType">>, <<>>)
                @@ "ObjectsFolder" :> SpecNode("Object", NoBase, <<>>)]
    @@ "di" :> [requires |-> {UA}, nodes |->
                "DeviceType" :> [SpecNode("ObjectType", <<UA, "BaseObjectType">>,
                                    <<SpecMem("property", "SerialNumber", FALSE)>>)
                                 EXCEPT !.abstract = TRUE]
                @@ "FunctionalGroupType" :> SpecNode("ObjectType", <<UA, "FolderType">>,
                                               <<SpecMem("object", "GroupIdentifier", TRUE)>>)
                @@ "DeviceSet" :> SpecNode("Object", NoBase, <<>>)]
    @@ "machinery" :> [requires |-> {UA, "di"}, nodes |->
                "MachineIdentificationType"
                :> SpecNode("ObjectType", <<"di", "FunctionalGroupType">>,
                            <<SpecMem("property", "Location", FALSE)>>)]
    @@ "isa95" :> [requires |-> {UA}, nodes |->
                "EquipmentType" :> SpecNode("ObjectType", <<UA, "BaseObjectType">>,
                                      <<SpecMem("property", "EquipmentLevel", FALSE)>>)]
MCBuiltin == {"Double", "String"}
MCNumeric == {"Double"}
MCUnits == {"ml"}

-------------------------------------------------------------------------------
OpcUa == Import("OpcUa", UA)
ObjectsFolder == Ref("OpcUa", "ObjectsFolder")
Equipment == Ref("ISA95", "EquipmentType")
Header == [name |-> "right", ns |-> "right", version |-> "right", date |-> "right"]
Model(imports, types, instances) ==
    [header |-> Header, skip |-> FALSE, imports |-> imports, enums |-> <<>>, types |-> types,
     instances |-> instances, perspectives |-> <<>>, catalog |-> {}]

(* examples/equipment.yaml, in small.                                         *)
FurnaceType ==
    Type("FurnaceType", Ref("", "UnitType"),
         <<Obj("Zones", Ref("OpcUa", "FolderType"), <<Slot("Zone", Ref("", "ZoneType"))>>),
           Call("Start", {Ref("", "Double"), Ref("", "Mode")})>>)
Furnace ==
    [Model(<<OpcUa>>,
           <<[Type("UnitType", Ref("OpcUa", "BaseObjectType"), <<Var("State", Ref("", "Mode"))>>)
              EXCEPT !.abstract = TRUE],
             Type("ZoneType", Ref("OpcUa", "BaseObjectType"),
                  <<[Var("Temp", Ref("", "Double")) EXCEPT !.unit = "ml"]>>),
             FurnaceType>>,
           <<[Inst("F1", Ref("", "FurnaceType"), ObjectsFolder, "")
              EXCEPT !.values = <<Value("State", "0")>>, !.children = <<Child("Z1", "Zone")>>]>>)
     EXCEPT !.enums = <<[name |-> "Mode", values |-> <<[name |-> "Off", id |-> 0], [name |-> "On", id |-> 1]>>]>>]

(* examples/isa95/plant.yaml, with one site less.                             *)
FillerType ==
    Type("FillerType", Ref("DI", "DeviceType"),
         <<Obj("Identification", Ref("Machinery", "MachineIdentificationType"), <<>>)>>)
Plant ==
    [Model(<<OpcUa, Import("DI", "di"), Import("Machinery", "machinery"), Import("ISA95", "isa95")>>,
           <<FillerType>>,
           <<Inst("Berlin", Equipment, ObjectsFolder, "Site"),
             Inst("Packing", Equipment, Ref("", "Berlin"), "Area"),
             Inst("Line", Equipment, Ref("", "Packing"), "WorkCenter"),
             Inst("Filler", Ref("", "FillerType"), Ref("", "Line"), "")>>)
     EXCEPT !.perspectives = <<Perspective("zones", <<Group("hall", <<"bay">>, <<"Line">>),
                                                      Group("bay", <<>>, <<"Filler">>)>>)>>]

(* A model of a companion spec's types, which itself imports just one spec.   *)
Ident ==
    Model(<<OpcUa, Import("Machinery", "machinery")>>,
          <<Type("IdType", Ref("Machinery", "MachineIdentificationType"), <<>>)>>,
          <<[Inst("Id", Ref("", "IdType"), ObjectsFolder, "")
             EXCEPT !.children = <<Child("Group1", "GroupIdentifier")>>]>>)
MCSeeds == {Furnace, Plant, Ident}

-------------------------------------------------------------------------------
MCImports == {Import("ISA95", "isa95"), Import("DI", "machinery"), Import("Mine", "other")}
MCEnums ==
    {[name |-> "Mode", values |-> <<[name |-> "Off", id |-> 0], [name |-> "On", id |-> 2]>>],
     [name |-> "FillerType", values |-> <<[name |-> "Off", id |-> 0], [name |-> "On", id |-> 0]>>]}
MCTypes ==
    {Type("ZoneType", Ref("", "FurnaceType"), <<Var("State", Ref("", "Double"))>>),
     Type("UnitType", Ref("", "ZoneType"), <<Var("State", Ref("", "Mode"))>>),
     Type("FurnaceType", Ref("", "ZoneType"), <<>>),
     Type("FillerType", Ref("DI", "DeviceType"), <<>>),
     Type("FillerType", Ref("ISA95", "EquipmentType"),
          <<Obj("Identification", Ref("DI", "DeviceSet"), <<>>)>>)}
MCInstances ==
    {Inst("Berlin", Equipment, Ref("", "Line"), "Site"),
     Inst("Packing", Equipment, Ref("", "Berlin"), "Site"),
     Inst("Line", Equipment, Ref("", "Packing"), "Enterprise"),
     Inst("Line", Equipment, Ref("OpcUa", "ObjectsFolder"), "WorkUnit"),
     Inst("Cell", Equipment, Ref("", "Berlin"), "Other"),
     Inst("Filler2", Ref("", "FillerType"), Ref("", "Filler"), ""),
     Inst("F1", Ref("", "Mode"), NoRef, ""),
     Inst("F2", Ref("", "FurnaceType"), Ref("", "F1"), ""),
     [Inst("F1", Ref("", "FurnaceType"), Ref("", "F2"), "") EXCEPT !.values = <<Value("State", "")>>],
     [Inst("Id", Ref("Machinery", "MachineIdentificationType"), Ref("DI", "DeviceSet"), "")
      EXCEPT !.children = <<Child("Group1", "GroupIdentifier")>>]}
MCPerspectives ==
    {Perspective("zones", <<Group("hall", <<"bay", "yard">>, <<>>), Group("yard", <<"bay">>, <<"Line">>),
                            Group("bay", <<>>, <<"Filler">>)>>),
     Perspective("zones", <<Group("hall", <<"bay">>, <<>>), Group("bay", <<"bay">>, <<"F1", "F1">>)>>)}
MCHeaders == {[Header EXCEPT !.version = "bad"]}
================================================================================
