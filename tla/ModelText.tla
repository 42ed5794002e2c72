----------------------------- MODULE ModelText ------------------------------
(***************************************************************************)
(* The text of one model file, as far as editing it concurrently is        *)
(* concerned.  A file declares nodes: import aliases, object types and     *)
(* instances.  A node refers to others (a type to the alias of its base,   *)
(* an instance to its type and its parent), and the validator of           *)
(* internal/dsl reports an error of severity "error" when a reference does *)
(* not resolve.  A text may also fail to parse; it then still holds the    *)
(* nodes somebody wrote into it.                                           *)
(*                                                                         *)
(* Whatever is stored has gone through Format, which does not always give  *)
(* back what it was given (Syntax and its FormatKeeps say when).           *)
(***************************************************************************)
CONSTANTS
    Names,      \* the nodes a file may declare
    Needs,      \* Needs[n]: the nodes n refers to
    Base,       \* the nodes of the committed file the draft starts from
    Bare,       \* nodes that declare nothing, such as a type Pump: {}
    Misquoted   \* nodes with a string that YAML wants quoted and Format does not
                \* quote: a name, a reference, a value taken for a number

ASSUME NeedsAssumption == Needs \in [Names -> SUBSET Names]
ASSUME BaseAssumption == Base \subseteq Names
ASSUME BareAssumption == Bare \subseteq Names
ASSUME MisquotedAssumption == Misquoted \subseteq Names

Texts == [nodes : SUBSET Names, broken : BOOLEAN]

Text(nodes, broken) == [nodes |-> nodes, broken |-> broken]

BaseText == Text(Base, FALSE)

\* dsl.Parse succeeds and dsl.Validate reports no error.
Clean(t) == ~t.broken /\ \A n \in t.nodes : Needs[n] \subseteq t.nodes

\* What Format may make of t.  A text that does not parse is kept as it is.  A
\* bare node becomes a key with nothing under it, which is no mapping: the
\* formatted text does not parse.  A string written without the quotes it
\* needs may be read as anything.
Formatted(t) ==
    IF t.broken \/ t.nodes \cap (Bare \cup Misquoted) = {} THEN {t}
    ELSE IF t.nodes \cap Misquoted # {} THEN Texts
    ELSE {Text(t.nodes, TRUE)}

\* What the gate of a patch judges: the formatted text, or the model it was
\* formatted from when that text does not parse.
JudgedOf(t, out) == IF out.broken THEN t ELSE out

\* The result of add_* when n is absent and of remove_* when it is present.
Spliced(t, n) ==
    Text(IF n \in t.nodes THEN t.nodes \ {n} ELSE t.nodes \cup {n}, t.broken)
=============================================================================
