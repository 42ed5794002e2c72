---------------------------- MODULE MCDraftEdits ----------------------------
(* A type and an instance of it, the type being in the committed file: a    *)
(* removal can break what an addition relies on.  A third node is a bare    *)
(* type, which Format does not give back.                                   *)
EXTENDS DraftEdits, TLC

CONSTANTS type, inst, odd

ThreeNames == {type, inst, odd}
ThreeNeeds == (type :> {}) @@ (inst :> {type}) @@ (odd :> {})
TypeBase == {type}
=============================================================================
