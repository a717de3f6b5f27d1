---------------------------- MODULE MCSecretStore ----------------------------
(* SecretStore on a small instance.                                          *)
EXTENDS SecretStore, Sequences, TLC

CONSTANTS a, b

\* Two exports of other stores: one with a wider window whose current version
\* was rolled back, one whose every version has been deleted.
History(s) == [v \in Version |-> IF v <= Len(s) THEN s[v] ELSE "none"]
Sealing(s) == [v \in Version |-> IF v <= Len(s) THEN s[v] ELSE NoValue]

RolledBack == [row |-> History(<<"active", "deleted", "active">>),
               payload |-> Sealing(<<a, b, b>>), current |-> 1, limit |-> 3]
AllDeleted == [row |-> History(<<"destroyed", "deleted">>),
               payload |-> Sealing(<<NoValue, a>>), current |-> 0, limit |-> 1]

MCBundle == {RolledBack, AllDeleted}
Symmetry == Permutations(Path)
=============================================================================
