---------------------------- MODULE MCCommandLine -----------------------------
(* The bundled specs around Machinery, with the RequiredModels of their files *)
(* under internal/nodeset/specs; a directory of one file that imports any two *)
(* of what there is, and directories of two files like those of examples/.    *)
EXTENDS CommandLine, TLC

CONSTANTS DI, IA, PackML, ISA95JobControl, Jobs, Machinery, MachineTool, Scales,
          ns0, unbundled, f1, f2, n1, n2, d1, d2

BundledSpecs == {DI, IA, PackML, ISA95JobControl, Jobs, Machinery, MachineTool, Scales}
KnownUris == BundledSpecs \cup {ns0, unbundled}
RequiredModels ==
    (DI :> <<ns0>>) @@ (PackML :> <<ns0>>) @@ (ISA95JobControl :> <<ns0>>)
    @@ (IA :> <<ns0, DI>>) @@ (Machinery :> <<ns0, DI, IA>>)
    @@ (Jobs :> <<ns0, ISA95JobControl>>)
    @@ (MachineTool :> <<ns0, DI, Machinery, IA, ISA95JobControl, Jobs>>)
    @@ (Scales :> <<ns0, DI, IA, Machinery, PackML>>)
RequiredDepth ==
    (DI :> 0) @@ (PackML :> 0) @@ (ISA95JobControl :> 0) @@ (IA :> 1)
    @@ (Machinery :> 2) @@ (Jobs :> 1) @@ (MachineTool :> 3) @@ (Scales :> 3)
UpToTwo == UNION {[1 .. n -> KnownUris] : n \in 0 .. 2}

(* The models: one for each list of imports, with a machine that has a        *)
(* component IA declares; and six to go into directories of two files, one    *)
(* with a declaration that has nothing in it and one with a string that wants *)
(* quotes.                                                                    *)
Model(kind, list) == [kind |-> kind, imports |-> list]
Alone == {Model("alone", list) : list \in UpToTwo}
Plain == Model("plain", <<>>)
Twin == Model("twin", <<IA>>)
Other == Model("other", <<DI>>)
Wrong == Model("wrong", <<>>)
Hollow == Model("hollow", <<>>)
Dated == Model("dated", <<>>)
AllModels == Alone \cup {Plain, Twin, Other, Wrong, Hollow, Dated}
ModelImports == [m \in AllModels |-> m.imports]
ModelUses == [m \in AllModels |->
    IF m.kind = "alone" THEN {IA} ELSE IF m.kind \in {"twin", "other"} THEN {DI} ELSE {}]
ModelsRed == {Wrong}
ModelsBare == {Hollow}
ModelsMisquoted == {Dated}
ModelName == [m \in AllModels |-> IF m \in {Other, Wrong} THEN n2 ELSE n1]

Text(m) == [model |-> m, canonical |-> TRUE]
Draft(m) == [model |-> m, canonical |-> FALSE]
Case(t, u, commands, saves) ==
    [dir |-> (f1 :> t) @@ (f2 :> u), commands |-> commands, saves |-> saves]
AllCases ==
    {Case(Text(m), Absent, 1, 0) : m \in Alone}
    \cup {Case(Text(Model("alone", <<MachineTool>>)), Absent, 2, 0), Case(Absent, Absent, 1, 0)}
    \cup {Case(Text(Plain), t, 2, 1) : t \in {Draft(Other), Text(Twin), Text(Wrong), Unparsable}}
    \cup {Case(Draft(Plain), Draft(Other), 2, 1), Case(Text(Wrong), Text(Plain), 1, 0)}
    \cup {Case(Draft(Hollow), Draft(Other), 2, 1), Case(Draft(Dated), Draft(Other), 1, 1)}
SomeSaves == {Draft(Twin), Absent}
SortedFiles == <<f1, f2>>
BundleFiles == <<d1, d2>>
===============================================================================
