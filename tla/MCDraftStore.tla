---------------------------- MODULE MCDraftStore ----------------------------
(* Instance of DraftStore for TLC: four ids compete for three places, and a *)
(* TTL of two units swept every two, so that a draft can be expired and not *)
(* yet swept, and evictions meet expired drafts.                            *)
EXTENDS DraftStore
=============================================================================
