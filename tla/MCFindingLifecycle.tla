------------------------ MODULE MCFindingLifecycle ------------------------
(* FindingLifecycle on a few fingerprints, for TLC. *)
EXTENDS FindingLifecycle
=============================================================================
