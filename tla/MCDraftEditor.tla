--------------------------- MODULE MCDraftEditor ----------------------------
(* Instances of DraftEditor for TLC: up to two drafts of up to two files,   *)
(* and up to three requests in flight at once.                              *)
EXTENDS DraftEditor
=============================================================================
