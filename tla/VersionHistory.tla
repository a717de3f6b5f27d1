--------------------------- MODULE VersionHistory ---------------------------
(***************************************************************************)
(* What the versioned store promises its callers, with no tables, no row   *)
(* states and no statements: every path has a history of numbered values   *)
(* and a head.  A number is used once and its value never changes; a value *)
(* may become unavailable, oldest first or because someone withdrew it; and *)
(* the head always names an available value, or nothing when none is left. *)
(*                                                                         *)
(* SecretStore is shown to implement this specification.                   *)
(***************************************************************************)
EXTENDS Integers

CONSTANTS Path,        \* secret paths
          Value,       \* the plaintexts a caller may store
          MaxVersion,  \* the largest version number
          Unused,      \* a number no version has had yet
          Gone         \* a number whose value can no longer be read

VARIABLES value,       \* value[p][v]: what reading version v of p returns
          head         \* head[p]: the version a read of p returns, or 0

vars == <<value, head>>

Version == 1..MaxVersion

Available(h) == {v \in Version : h[v] \in Value}

\* n is the greatest element of S, or 0 when S is empty.
IsNewest(S, n) == \/ S = {} /\ n = 0
                  \/ n \in S /\ \A m \in S : m <= n

Init == /\ value = [p \in Path |-> [v \in Version |-> Unused]]
        /\ head = [p \in Path |-> 0]

\* A new value gets a number above every number ever used and becomes the
\* head.  Older values may fall away at the same time, the oldest first.
Publish(p, v, x) ==
    /\ \A u \in Version : u >= v => value[p][u] = Unused
    /\ \E floor \in 0..(v - 1) :
          value' = [value EXCEPT ![p] =
                      [u \in Version |->
                         IF u = v THEN x
                         ELSE IF u <= floor /\ value[p][u] \in Value THEN Gone
                         ELSE value[p][u]]]
    /\ head' = [head EXCEPT ![p] = v]

\* The head moves to an available version and nothing else changes.
Point(p, v) == /\ value[p][v] \in Value
               /\ head' = [head EXCEPT ![p] = v]
               /\ UNCHANGED value

\* A version is withdrawn; the head becomes the newest version left.
Withdraw(p, v) ==
    /\ value[p][v] # Unused
    /\ value' = [value EXCEPT ![p][v] = Gone]
    /\ \E n \in 0..MaxVersion :
          /\ IsNewest(Available(value'[p]), n)
          /\ head' = [head EXCEPT ![p] = n]

\* A whole history arrives at a path that has none, its head readable.
Load(p) ==
    /\ \A v \in Version : value[p][v] = Unused
    /\ value' = [value EXCEPT ![p] = value'[p]]
    /\ value'[p] \in [Version -> Value \cup {Unused, Gone}]
    /\ head' = [head EXCEPT ![p] = head'[p]]
    /\ IF head'[p] = 0 THEN Available(value'[p]) = {}
                      ELSE head'[p] \in Available(value'[p])

Next == \E p \in Path :
           \/ \E v \in Version :
                 \/ \E x \in Value : Publish(p, v, x)
                 \/ Point(p, v)
                 \/ Withdraw(p, v)
           \/ Load(p)

Spec == Init /\ [][Next]_vars
=============================================================================
