---------------------------- MODULE MCAuditChain ----------------------------
(* AuditChain on small sets.  Entries and keys are only ever compared, so     *)
(* states that differ by renaming them are the same.                          *)
EXTENDS AuditChain, TLC

Symmetry == Permutations(Entry) \cup Permutations(Key)
=============================================================================
