---------------------------- MODULE PolicyEngine ----------------------------
(***************************************************************************)
(* What a token may do: the pure functions of sbae-policy.  A path is the  *)
(* sequence of its segments, a pattern the sequence of its own, two of     *)
(* which are wildcards.  A policy document is a record of two sets, rules  *)
(* and deny: their order only picks which rule the log would name.         *)
(***************************************************************************)
EXTENDS Naturals, Sequences

CONSTANTS None     \* an Option that is not there

AnyOne  == "*"
AnyMany == "**"

Capability == {"read", "write", "delete", "list", "admin"}
-----------------------------------------------------------------------------
(* Glob matching, as the table the code fills row by row.                   *)

\* Row 0: nothing of the pattern is consumed, nothing of the path either.
Start(path) == [j \in 0..Len(path) |-> j = 0]

\* Mutation: a many-segment wildcard that needs at least one segment.
Consume_greedy(segment, path, reachable) ==
    [j \in 0..Len(path) |->
        IF segment = AnyMany THEN \E i \in 0..j : i < j /\ reachable[i]
        ELSE /\ j > 0
             /\ reachable[j - 1]
             /\ segment \in {AnyOne, path[j]}]

\* The next row: reachable[j] says the pattern so far can end at path segment j.
Consume(segment, path, reachable) ==
    [j \in 0..Len(path) |->
        IF segment = AnyMany THEN \E i \in 0..j : reachable[i]
        ELSE /\ j > 0
             /\ reachable[j - 1]
             /\ segment \in {AnyOne, path[j]}]

matches(pattern, path) ==
    LET table[n \in 0..Len(pattern)] ==
            IF n = 0 THEN Start(path)
                     ELSE Consume(pattern[n], path, table[n - 1])
    IN  table[Len(pattern)][Len(path)]

\* What a match is: the path can be cut into one piece per pattern segment.
MatchesReference(pattern, path) ==
    \E cut \in [0..Len(pattern) -> 0..Len(path)] :
        /\ cut[0] = 0 /\ cut[Len(pattern)] = Len(path)
        /\ \A n \in 1..Len(pattern) :
              \/ pattern[n] = AnyMany /\ cut[n - 1] <= cut[n]
              \/ /\ cut[n] = cut[n - 1] + 1
                 /\ pattern[n] \in {AnyOne, path[cut[n]]}
-----------------------------------------------------------------------------
(* Policies.                                                                *)

\* Without capabilities a deny rule covers every one of them.
covers(deny, capability) ==
    deny.capabilities = None \/ capability \in deny.capabilities

Denies(document, capability, path) ==
    \E deny \in document.deny :
        covers(deny, capability) /\ matches(deny.path, path)

\* Mutation: a secret without tags is not asked for any.
Grants_untagged(document, capability, path, tags) ==
    \E rule \in document.rules :
        /\ capability \in rule.capabilities
        /\ matches(rule.path, path)
        /\ tags = {} \/ rule.require_tags \subseteq tags

Grants(document, capability, path, tags) ==
    \E rule \in document.rules :
        /\ capability \in rule.capabilities
        /\ matches(rule.path, path)
        /\ rule.require_tags \subseteq tags

\* Mutation: a document's deny rules only restrain its own grants.
evaluate_per_policy(documents, capability, path, tags) ==
    \E d \in documents : /\ ~Denies(d, capability, path)
                         /\ Grants(d, capability, path, tags)

\* Deny rules of every document come before any grant.
evaluate(documents, capability, path, tags) ==
    /\ ~ \E d \in documents : Denies(d, capability, path)
    /\ \E d \in documents : Grants(d, capability, path, tags)

\* Routes without a path: any rule that carries the capability.
grants_without_path(documents, capability) ==
    \E d \in documents : \E rule \in d.rules : capability \in rule.capabilities

required_capability(route) ==
    CASE route \in {"read", "resolve"} -> "read"
      [] route \in {"write", "tag_add", "tag_remove"} -> "write"
      [] route \in {"delete", "rollback"} -> "delete"
      [] route \in {"list", "versions", "status"} -> "list"
      [] OTHER -> "admin"
-----------------------------------------------------------------------------
(* Tokens.  A caller presents a lookup prefix, a secret and its uid;        *)
(* `genuine' says the secret has the digest the record stores.              *)

Past(at, now) == at # None /\ at <= now

\* Mutation: a token revoked this very second still passes.
authenticate_late(record, caller, now) ==
    /\ caller.genuine
    /\ ~(record.revoked_at # None /\ record.revoked_at < now)
    /\ ~Past(record.expires_at, now)
    /\ record.bound_uid \in {None, caller.uid}

authenticate(record, caller, now) ==
    /\ caller.genuine
    /\ ~Past(record.revoked_at, now)
    /\ ~Past(record.expires_at, now)
    /\ record.bound_uid \in {None, caller.uid}
=============================================================================
