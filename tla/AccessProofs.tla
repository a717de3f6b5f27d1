---------------------------- MODULE AccessProofs ----------------------------
(***************************************************************************)
(* Proofs about Access: for any tokens, policies, secrets, requests and    *)
(* number of workers.                                                      *)
(*                                                                         *)
(* A request that passed its gate was entitled to its path at that moment, *)
(* and what a request was entitled to once it is never withheld from it    *)
(* again; a listing repeats the argument for each row when it filters.     *)
(* Attachments name ids in use, so an id that is given again is attached   *)
(* to nothing.                                                             *)
(***************************************************************************)
EXTENDS Access, WellFoundedInduction, FiniteSetTheorems, TLAPS

TokenRow == [bound_uid : Nat \cup {None}, expires_at : Nat \cup {None},
             revoked_at : Nat \cup {None}, used : BOOLEAN]
SecretRow == [path : Path, tags : SUBSET Tag]
Serving == [at : Places, req : Requests \cup {None}, seen : SUBSET SecretRow]

\* What a worker serves, at every stage.
Served ==
    /\ request \in [Worker -> Serving]
    /\ \A r \in Worker :
          /\ request[r].at # "idle" => request[r].req \in Requests
          /\ request[r].at \notin {"filter", "record"} => request[r].seen = {}
          /\ request[r].at = "filter" => request[r].req.route = "list"

\* The rows of the tables.
Tables ==
    /\ tokens \in [DOMAIN tokens -> TokenRow]
    /\ secrets \in [DOMAIN secrets -> Summary]
    /\ \A n \in DOMAIN policies : policies[n].id \in Nat
    /\ \E b \in Nat : \A n \in DOMAIN policies : policies[n].id <= b
    /\ DOMAIN issued = DOMAIN tokens

\* Every entry is of a request that was accepted and is answered.
Busy == {r \in Worker : ~At(r, "idle")}
Counts ==
    /\ changes \in Nat /\ failed \in Nat /\ audit \in Nat
    /\ audit + Cardinality(Busy) <= accepted

IInv == /\ TypeOK /\ Served /\ Tables /\ Counts
        /\ AllowedAtSomeMoment /\ GrantsOnlyAsIssued /\ ChangesAreAccountedFor
-----------------------------------------------------------------------------
(* Sets of numbers.                                                         *)

\* A set of naturals that is not empty has a least element.
LEMMA LeastNat ==
    ASSUME NEW S, S \subseteq Nat, S # {}
    PROVE  \E x \in S : \A y \in S : x <= y
<1>1. PICK x \in S : \A y \in S : ~(<<y, x>> \in OpToRel(<, Nat))
  BY NatLessThanWellFounded, WFMin, Zenon
<1>2. \A y \in S : <<y, x>> \in Nat \X Nat
  OBVIOUS
<1>3. \A y \in S : ~(y < x)
  BY <1>1, <1>2, Zenon DEF OpToRel
<1>4. QED
  BY <1>3

\* A bounded one has a greatest element: the least distance to the bound.
LEMMA GreatestNat ==
    ASSUME NEW S, NEW n \in Nat, S \subseteq 0..n, S # {}
    PROVE  \E x \in S : \A y \in S : y <= x
<1>1. \A x \in S : x \in Nat /\ n - x \in Nat
  OBVIOUS
<1>2. PICK t \in {n - x : x \in S} : \A u \in {n - x : x \in S} : t <= u
  <2>1. {n - x : x \in S} \subseteq Nat /\ {n - x : x \in S} # {}
    BY <1>1, Zenon
  <2>2. QED
    BY <2>1, LeastNat, Zenon
<1>3. PICK x \in S : t = n - x
  BY Zenon
<1>4. \A y \in S : n - x <= n - y
  BY <1>2, <1>3, Zenon
<1>5. QED
  BY <1>1, <1>4
-----------------------------------------------------------------------------
(* The policy engine.                                                       *)

\* More tags never take a grant away.
LEMMA MoreTags ==
    ASSUME NEW documents, NEW c, NEW p, NEW few, NEW many, few \subseteq many,
           evaluate(documents, c, p, few)
    PROVE  evaluate(documents, c, p, many)
<1>1. \A d \in documents : Grants(d, c, p, few) => Grants(d, c, p, many)
  BY Zenon DEF Grants
<1>2. QED
  BY <1>1, Zenon DEF evaluate

\* What evaluate allows, the path is open to.
LEMMA EvaluatedIsOpen ==
    ASSUME NEW caller, NEW c, NEW p, NEW tags, NEW all, tags \subseteq all,
           evaluate(policies_for_token(caller.prefix), c, p, tags)
    PROVE  PathOpen(caller, c, p, all)
<1> DEFINE docs == policies_for_token(caller.prefix)
<1>1. docs = Attached(caller)
  BY Zenon DEF policies_for_token, policy_names_for_token, Attached
<1> HIDE DEF docs
<1>2. (\A d \in docs : ~Denies(d, c, p)) /\ \E d \in docs : Grants(d, c, p, tags)
  BY Zenon DEF evaluate, docs
<1>3. \A d \in docs : \A n \in d.deny : ~covers(n, c) \/ ~matches(n.path, p)
  BY <1>2, Zenon DEF Denies
<1>4. \A n \in UNION {d.deny : d \in docs} : ~covers(n, c) \/ ~matches(n.path, p)
  BY <1>3, Zenon
<1>5. PICK d \in docs : \E n \in d.rules : /\ c \in n.capabilities
                                           /\ matches(n.path, p)
                                           /\ n.require_tags \subseteq tags
  BY <1>2, Zenon DEF Grants
<1>6. \E n \in UNION {e.rules : e \in docs} : /\ c \in n.capabilities
                                              /\ matches(n.path, p)
                                              /\ n.require_tags \subseteq all
  BY <1>5, Zenon
<1>7. QED
  BY <1>1, <1>4, <1>6, Zenon DEF PathOpen, covers

\* Losing a tag never opens a secret to anyone, in any state.
THEOREM TagsOnlyNarrow == Spec => []MissingTagsOnlyNarrow
<1>1. MissingTagsOnlyNarrow
  <2>1. ASSUME NEW t \in DOMAIN tokens, NEW p \in DOMAIN secrets, NEW c \in Capability,
               NEW x \in Tag, evaluate(policies_for_token(t), c, p, secrets[p].tags)
        PROVE  evaluate(policies_for_token(t), c, p, secrets[p].tags \cup {x})
    BY <2>1, MoreTags
  <2>2. QED
    BY <2>1, Zenon DEF MissingTagsOnlyNarrow
<1>2. QED
  BY <1>1, PTL
-----------------------------------------------------------------------------
(* Glob matching.  The rows of the table are what they are meant to be: row *)
(* n holds, for each j, whether the first j segments of the path can be cut *)
(* to fit the first n of the pattern.                                       *)

\* Pattern segment n takes the path's segments from+1 to `to'.
Fits(pattern, path, n, from, to) ==
    \/ pattern[n] = AnyMany /\ from <= to
    \/ /\ to = from + 1
       /\ pattern[n] \in {AnyOne, path[to]}

\* The ways to cut j segments of the path into n pieces that fit.
Cuts(pattern, path, n, j) ==
    {cut \in [0..n -> 0..Len(path)] :
        /\ cut[0] = 0 /\ cut[n] = j
        /\ \A m \in 1..n : Fits(pattern, path, m, cut[m - 1], cut[m])}

\* The table by its meaning.
Reach(pattern, path) ==
    [n \in 0..Len(pattern) |-> [j \in 0..Len(path) |-> Cuts(pattern, path, n, j) # {}]]

\* A cut goes on with a piece that fits.
LEMMA CutLonger ==
    ASSUME NEW pattern, NEW path, Len(pattern) \in Nat, Len(path) \in Nat,
           NEW n \in 1..Len(pattern), NEW i \in 0..Len(path), NEW j \in 0..Len(path),
           Cuts(pattern, path, n - 1, i) # {}, Fits(pattern, path, n, i, j)
    PROVE  Cuts(pattern, path, n, j) # {}
<1>1. PICK cut \in [0..(n-1) -> 0..Len(path)] :
        /\ cut[0] = 0 /\ cut[n-1] = i
        /\ \A m \in 1..(n-1) : Fits(pattern, path, m, cut[m - 1], cut[m])
  BY Zenon DEF Cuts
<1> DEFINE more == [m \in 0..n |-> IF m = n THEN j ELSE cut[m]]
<1>2. more \in [0..n -> 0..Len(path)] /\ more[0] = 0 /\ more[n] = j
  BY <1>1
<1>3. ASSUME NEW m \in 1..n
      PROVE  Fits(pattern, path, m, more[m - 1], more[m])
  <2>1. CASE m = n
    <3>1. more[m - 1] = i /\ more[m] = j
      BY <1>1, <2>1
    <3>2. QED
      BY <2>1, <3>1
  <2>2. CASE m # n
    <3>1. m \in 1..(n-1) /\ more[m - 1] = cut[m - 1] /\ more[m] = cut[m]
      BY <1>1, <2>2
    <3> HIDE DEF more
    <3>2. QED
      BY <1>1, <3>1
  <2>3. QED
    BY <2>1, <2>2
<1> HIDE DEF more
<1>4. QED
  BY <1>2, <1>3, Zenon DEF Cuts

\* A cut without its last piece is a cut.
LEMMA CutShorter ==
    ASSUME NEW pattern, NEW path, Len(pattern) \in Nat, Len(path) \in Nat,
           NEW n \in 1..Len(pattern), NEW j \in 0..Len(path),
           Cuts(pattern, path, n, j) # {}
    PROVE  \E i \in 0..Len(path) : /\ Cuts(pattern, path, n - 1, i) # {}
                                   /\ Fits(pattern, path, n, i, j)
<1>1. PICK cut \in [0..n -> 0..Len(path)] :
        /\ cut[0] = 0 /\ cut[n] = j
        /\ \A m \in 1..n : Fits(pattern, path, m, cut[m - 1], cut[m])
  BY Zenon DEF Cuts
<1> DEFINE less == [m \in 0..(n - 1) |-> cut[m]]
           i == cut[n - 1]
<1>2. /\ less \in [0..(n - 1) -> 0..Len(path)] /\ less[0] = 0 /\ less[n - 1] = i
      /\ i \in 0..Len(path)
  BY <1>1
<1>3. \A m \in 1..(n - 1) : m \in 1..n /\ less[m - 1] = cut[m - 1] /\ less[m] = cut[m]
  OBVIOUS
<1>4. \A m \in 1..(n - 1) : Fits(pattern, path, m, less[m - 1], less[m])
  <2> HIDE DEF less
  <2>1. QED
    BY <1>1, <1>3
<1>5. Fits(pattern, path, n, i, j)
  BY <1>1
<1> HIDE DEF less, i
<1>6. less \in Cuts(pattern, path, n - 1, i)
  BY <1>2, <1>4, Zenon DEF Cuts
<1>7. QED
  BY <1>2, <1>5, <1>6, Zenon

\* Nothing of the pattern takes nothing of the path: row 0.
LEMMA ReachStarts ==
    ASSUME NEW pattern, NEW path, Len(pattern) \in Nat, Len(path) \in Nat
    PROVE  Reach(pattern, path)[0] = Start(path)
<1>1. ASSUME NEW j \in 0..Len(path)
      PROVE  (Cuts(pattern, path, 0, j) # {}) = (j = 0)
  <2>1. CASE j = 0
    <3> DEFINE cut == [m \in 0..0 |-> 0]
    <3>1. cut \in Cuts(pattern, path, 0, j)
      BY <2>1 DEF Cuts
    <3>2. QED
      BY <2>1, <3>1
  <2>2. CASE j # 0
    BY <2>2 DEF Cuts
  <2>3. QED
    BY <2>1, <2>2
<1>2. QED
  BY <1>1 DEF Reach, Start

\* Each row follows from the one before as the code computes it.
LEMMA ReachConsumes ==
    ASSUME NEW pattern, NEW path, Len(pattern) \in Nat, Len(path) \in Nat,
           NEW n \in 1..Len(pattern)
    PROVE  Reach(pattern, path)[n] = Consume(pattern[n], path, Reach(pattern, path)[n - 1])
<1> DEFINE before == Reach(pattern, path)[n - 1]
<1>1. \A i \in 0..Len(path) : before[i] = (Cuts(pattern, path, n - 1, i) # {})
  BY DEF Reach
<1> HIDE DEF before
<1>2. ASSUME NEW j \in 0..Len(path)
      PROVE  (Cuts(pattern, path, n, j) # {})
             <=> \E i \in 0..Len(path) : before[i] /\ Fits(pattern, path, n, i, j)
  BY <1>1, CutLonger, CutShorter
<1>3. ASSUME NEW j \in 0..Len(path)
      PROVE  Consume(pattern[n], path, before)[j]
             <=> \E i \in 0..Len(path) : before[i] /\ Fits(pattern, path, n, i, j)
  <2>1. CASE pattern[n] = AnyMany
    BY <2>1 DEF Consume, Fits, AnyMany, AnyOne
  <2>2. CASE pattern[n] # AnyMany
    BY <2>2 DEF Consume, Fits
  <2>3. QED
    BY <2>1, <2>2
<1>4. \A j \in 0..Len(path) :
         Reach(pattern, path)[n][j] = (Cuts(pattern, path, n, j) # {})
  BY DEF Reach
<1>5. \A j \in 0..Len(path) : Consume(pattern[n], path, before)[j] \in BOOLEAN
  BY DEF Consume
<1>6. \A j \in 0..Len(path) :
         Reach(pattern, path)[n][j] = Consume(pattern[n], path, before)[j]
  BY <1>2, <1>3, <1>4, <1>5
<1>7. Reach(pattern, path)[n] = [j \in 0..Len(path) |-> Reach(pattern, path)[n][j]]
  <2>1. Reach(pattern, path)[n] = [j \in 0..Len(path) |-> Cuts(pattern, path, n, j) # {}]
    BY DEF Reach
  <2>2. QED
    BY <1>4, <2>1
<1>8. Consume(pattern[n], path, before)
        = [j \in 0..Len(path) |-> Consume(pattern[n], path, before)[j]]
  BY DEF Consume
<1>9. Reach(pattern, path)[n] = Consume(pattern[n], path, before)
  BY <1>6, <1>7, <1>8
<1>10. QED
  BY <1>9 DEF before

\* The table the code fills.
Fills(pattern, path, table) ==
    table = [n \in 0..Len(pattern) |->
                IF n = 0 THEN Start(path) ELSE Consume(pattern[n], path, table[n - 1])]

\* The table by its meaning is one ...
LEMMA ReachFills ==
    ASSUME NEW pattern, NEW path, Len(pattern) \in Nat, Len(path) \in Nat
    PROVE  Fills(pattern, path, Reach(pattern, path))
<1>1. \A n \in 0..Len(pattern) :
         Reach(pattern, path)[n] =
            IF n = 0 THEN Start(path) ELSE Consume(pattern[n], path, Reach(pattern, path)[n - 1])
  BY ReachStarts, ReachConsumes
<1>2. Reach(pattern, path) = [n \in 0..Len(pattern) |-> Reach(pattern, path)[n]]
  BY DEF Reach
<1>3. QED
  BY <1>1, <1>2 DEF Fills

\* ... and there is only one: two would first differ in a row that both compute
\* from the same row before.
LEMMA FillsOneWay ==
    ASSUME NEW pattern, NEW path, Len(pattern) \in Nat, Len(path) \in Nat,
           NEW s, NEW t, Fills(pattern, path, s), Fills(pattern, path, t)
    PROVE  s = t
<1> DEFINE bad == {n \in 0..Len(pattern) : s[n] # t[n]}
<1>0. /\ \A n \in 0..Len(pattern) :
            s[n] = IF n = 0 THEN Start(path) ELSE Consume(pattern[n], path, s[n - 1])
      /\ \A n \in 0..Len(pattern) :
            t[n] = IF n = 0 THEN Start(path) ELSE Consume(pattern[n], path, t[n - 1])
  BY DEF Fills
<1>1. bad = {}
  <2>1. SUFFICES ASSUME bad # {} PROVE FALSE
    OBVIOUS
  <2>2. PICK n \in bad : \A m \in bad : n <= m
    <3>1. bad \subseteq Nat
      OBVIOUS
    <3> HIDE DEF bad
    <3>2. QED
      BY <2>1, <3>1, LeastNat
  <2>3. n # 0
    BY <1>0
  <2>4. n - 1 \in 0..Len(pattern) /\ n - 1 \notin bad
    BY <2>2, <2>3
  <2>5. QED
    BY <1>0, <2>3, <2>4
<1>2. QED
  BY <1>1 DEF Fills

\* So that is the one the code ends up with.
LEMMA TableIsReach ==
    ASSUME NEW pattern, NEW path, Len(pattern) \in Nat, Len(path) \in Nat
    PROVE  matches(pattern, path) <=> Reach(pattern, path)[Len(pattern)][Len(path)]
<1> DEFINE table == CHOOSE t : Fills(pattern, path, t)
<1>1. Fills(pattern, path, table)
  BY ReachFills, Zenon
<1>2. table = Reach(pattern, path)
  BY <1>1, ReachFills, FillsOneWay
<1>3. matches(pattern, path) = table[Len(pattern)][Len(path)]
  BY Zenon DEF matches, Fills
<1>4. QED
  BY <1>2, <1>3, Zenon

\* The code's answer is the reference's, for every pattern and path.
LEMMA GlobSound ==
    ASSUME NEW pattern, NEW path, Len(pattern) \in Nat, Len(path) \in Nat
    PROVE  matches(pattern, path) <=> MatchesReference(pattern, path)
<1>1. Reach(pattern, path)[Len(pattern)][Len(path)]
      <=> Cuts(pattern, path, Len(pattern), Len(path)) # {}
  <2>1. Len(pattern) \in 0..Len(pattern) /\ Len(path) \in 0..Len(path)
    OBVIOUS
  <2>2. QED
    BY <2>1, Zenon DEF Reach
<1>2. MatchesReference(pattern, path) <=> Cuts(pattern, path, Len(pattern), Len(path)) # {}
  BY Zenon DEF MatchesReference, Cuts, Fits
<1>3. QED
  BY <1>1, <1>2, TableIsReach

\* A pattern matches a path exactly when the path can be cut into pieces that
\* fit its segments (glob.rs:18), for patterns and paths of any length.
THEOREM GlobIsExact == Spec => []GlobMatchesReference
<1>1. GlobMatchesReference
  <2>1. ASSUME NEW pattern \in Patterns, NEW path \in Candidates
        PROVE  matches(pattern, path) <=> MatchesReference(pattern, path)
    <3>1. pattern \in Seq(STRING) /\ path \in Seq(STRING)
      BY GlobAssumption, Zenon
    <3>2. Len(pattern) \in Nat /\ Len(path) \in Nat
      BY <3>1
    <3>3. QED
      BY <3>2, GlobSound
  <2>2. QED
    BY <2>1, Zenon DEF GlobMatchesReference
<1>2. QED
  BY <1>1, PTL
-----------------------------------------------------------------------------
(* Requests.                                                                *)

\* The fields a route brings, where a handler stores them.
LEMMA RouteFields ==
    ASSUME NEW q \in Requests
    PROVE  /\ q.path \in Path \cup {None}
           /\ q.route = "list" => q.path = None
           /\ q.route \in {"write", "tag_add", "tag_remove"} =>
                 q.path \in Path /\ q.tags \subseteq Tag
           /\ q.route \in {"rollback", "delete"} => q.path \in Path
           /\ q.route = "token_create" =>
                 q.bind_uid \in Nat \cup {None} /\ q.ttl \in Nat \cup {None}
<1> DEFINE P == /\ q.path \in Path \cup {None}
                /\ q.route = "list" => q.path = None
                /\ q.route \in {"write", "tag_add", "tag_remove"} =>
                      q.path \in Path /\ q.tags \subseteq Tag
                /\ q.route \in {"rollback", "delete"} => q.path \in Path
                /\ q.route = "token_create" =>
                      q.bind_uid \in Nat \cup {None} /\ q.ttl \in Nat \cup {None}
<1>1. ASSUME NEW route \in {"read", "versions", "rollback", "delete"}, q \in PathRequest(route)
      PROVE  P
  BY <1>1 DEF PathRequest
<1>2. ASSUME NEW route \in {"write", "tag_add", "tag_remove"}, q \in TagRequest(route) PROVE P
  BY <1>2 DEF TagRequest
<1>3. ASSUME q \in ListRequest PROVE P
  BY <1>3 DEF ListRequest
<1>4. ASSUME NEW route \in {"status", "token_list", "policy_list", "audit_verify"},
             q \in EmptyRequest(route)
      PROVE  P
  BY <1>4 DEF EmptyRequest
<1>5. ASSUME q \in TokenCreateRequest PROVE P
  BY <1>5 DEF TokenCreateRequest
<1>6. ASSUME q \in TokenRevokeRequest PROVE P
  BY <1>6 DEF TokenRevokeRequest
<1>7. ASSUME q \in PolicyPutRequest PROVE P
  BY <1>7 DEF PolicyPutRequest
<1>8. ASSUME q \in NameRequest PROVE P
  BY <1>8 DEF NameRequest
<1> HIDE DEF P
<1>9. q \in SecretCommand \cup TagCommand \cup TokenCommand \cup PolicyCommand \cup AuditCommand
  BY RequestAssumption, Zenon
<1>10. P
  BY <1>1, <1>2, <1>3, <1>4, <1>5, <1>6, <1>7, <1>8, <1>9
     DEF SecretCommand, TagCommand, TokenCommand, PolicyCommand, AuditCommand
<1>11. QED
  BY <1>10 DEF P

\* The idle worker.
LEMMA IdleFields ==
    Idle \in Serving /\ Idle.at = "idle" /\ Idle.seen = {}
  BY DEF Idle, Serving, Places

\* What a worker has in hand.
LEMMA ServingFields ==
    ASSUME Served, NEW r \in Worker
    PROVE  /\ request[r] \in Serving /\ request[r].at \in Places
           /\ request[r].seen \in SUBSET SecretRow
           /\ request[r].req \in Requests \cup {None}
<1>1. request[r] \in Serving
  BY DEF Served
<1>2. QED
  BY <1>1 DEF Serving

\* One worker moves.
Turns(r, row) == row \in Serving /\ request' = [request EXCEPT ![r] = row]

\* What a turn does to the others.
LEMMA TurnFacts ==
    ASSUME Served, NEW r \in Worker, NEW row, Turns(r, row)
    PROVE  /\ request' \in [Worker -> Serving] /\ request'[r] = row
           /\ \A s \in Worker : s # r => request'[s] = request[s]
  BY DEF Served, Turns

\* A worker goes on with its request.
LEMMA GoesOn ==
    ASSUME Served, NEW r \in Worker, NEW place \in Places, NEW rows \in SUBSET SecretRow,
           (GoesTo(r, place) /\ rows = request[r].seen) \/ Sees(r, place, rows)
    PROVE  \E row : /\ Turns(r, row) /\ row.at = place /\ row.req = request[r].req
                    /\ row.seen = rows
<1>1. request[r] \in Serving
  BY ServingFields
<1>2. CASE GoesTo(r, place) /\ rows = request[r].seen
  <2>1. PICK row : row = [request[r] EXCEPT !.at = place]
    OBVIOUS
  <2>2. /\ row \in Serving /\ row.at = place /\ row.req = request[r].req
        /\ row.seen = request[r].seen
    BY <1>1, <2>1 DEF Serving
  <2>3. request' = [request EXCEPT ![r] = row]
    BY <1>2, <2>1 DEF GoesTo
  <2>4. QED
    BY <1>2, <2>2, <2>3 DEF Turns
<1>3. CASE Sees(r, place, rows)
  <2>1. PICK row : row = [request[r] EXCEPT !.at = place, !.seen = rows]
    OBVIOUS
  <2>2. /\ row \in Serving /\ row.at = place /\ row.req = request[r].req
        /\ row.seen = rows
    BY <1>1, <2>1 DEF Serving
  <2>3. request' = [request EXCEPT ![r] = row]
    BY <1>3, <2>1 DEF Sees
  <2>4. QED
    BY <2>2, <2>3 DEF Turns
<1>4. QED
  BY <1>2, <1>3

-----------------------------------------------------------------------------
(* What a step can do, to the tables and to its request.                    *)

Leaves == UNCHANGED <<tokens, policies, token_policies, secrets>>
Touches == /\ \E t \in DOMAIN tokens : touch_token(t)
           /\ UNCHANGED <<policies, token_policies, secrets>>
Stores == /\ \E p \in Path, s \in Summary : Puts(p, s)
          /\ UNCHANGED <<tokens, policies, token_policies>>
Creates == /\ \E t \in Token, row \in TokenRow : \E names :
                 row.revoked_at = None /\ create_token(t, row, names)
           /\ UNCHANGED <<policies, secrets>>
Revokes == /\ \E t \in DOMAIN tokens : revoke_token(t)
           /\ UNCHANGED <<policies, token_policies, secrets>>
PutsPolicy == /\ \E name, document : put_policy(name, document)
              /\ UNCHANGED <<tokens, token_policies, secrets>>
DeletesPolicy == /\ \E name : delete_policy(name)
                 /\ UNCHANGED <<tokens, secrets>>
Effect == Leaves \/ Touches \/ Stores \/ Creates \/ Revokes \/ PutsPolicy \/ DeletesPolicy

Passes(r, row) ==
    /\ At(r, "gate") /\ row.at \in {"act", "refused"}
    /\ row.req = request[r].req /\ row.seen = {}
    /\ row.at = "act" => check(request[r].req)
    /\ Leaves \/ Touches
    /\ audit' = audit /\ failed' = failed
Records(r, row) ==
    /\ At(r, "act") /\ row.at = "record"
    /\ row.req = request[r].req /\ row.seen = {}
    /\ Effect /\ audit' = audit /\ failed' = failed
GivesUp(r, row) ==
    /\ request[r].at \in {"act", "refused"} /\ row = Idle
    /\ Leaves \/ (Stores /\ failed' = failed + 1)
    /\ audit' = audit /\ failed' \in {failed, failed + 1}
Completes(r, row) ==
    /\ At(r, "record") /\ row = Idle
    /\ Leaves
    /\ \/ audit' = audit + 1 /\ failed' = failed
       \/ audit' = audit /\ failed' = failed + 1
Lists(r, row) ==
    /\ At(r, "act") /\ row.at = "filter"
    /\ row.req = request[r].req /\ row.req.route = "list"
    /\ Leaves /\ audit' = audit /\ failed' = failed
Filters(r, row) ==
    /\ At(r, "filter") /\ row.at = "record" /\ row.req = request[r].req
    /\ \A x \in row.seen :
          evaluate(policies_for_token(request[r].req.caller.prefix), "list", x.path, x.tags)
    /\ Leaves /\ audit' = audit /\ failed' = failed
Course(r, row) == \/ Passes(r, row) \/ Records(r, row) \/ GivesUp(r, row)
                  \/ Completes(r, row) \/ Lists(r, row) \/ Filters(r, row)

\* A request ends.
LEMMA Ending ==
    ASSUME NEW r \in Worker, Ends(r)
    PROVE  Turns(r, Idle)
  BY IdleFields DEF Ends, Turns

\* A handler goes on to record what it did.
LEMMA ToRecord ==
    ASSUME IInv, NEW r \in Worker, At(r, "act"), GoesTo(r, "record"), Effect,
           audit' = audit
    PROVE  \E row : Turns(r, row) /\ Records(r, row)
<1>1. request[r].seen = {} /\ "record" \in Places /\ {} \in SUBSET SecretRow
  BY DEF IInv, Served, At, Places
<1>2. PICK row : /\ Turns(r, row) /\ row.at = "record" /\ row.req = request[r].req
                 /\ row.seen = {}
  BY <1>1, GoesOn DEF IInv
<1>3. failed' = failed
  BY DEF GoesTo
<1>4. QED
  BY <1>2, <1>3 DEF Records

\* The gate.
LEMMA GateShape ==
    ASSUME IInv, NEW r \in Worker, gate(r)
    PROVE  \E row : Turns(r, row) /\ Passes(r, row)
<1>1. /\ At(r, "gate") /\ policies' = policies /\ token_policies' = token_policies
      /\ secrets' = secrets /\ audit' = audit
  BY DEF gate
<1>2. request[r].seen = {} /\ {"act", "refused"} \subseteq Places /\ {} \in SUBSET SecretRow
  BY <1>1 DEF IInv, Served, At, Places
<1>3. CASE check(request[r].req)
  <2>1. GoesTo(r, "act") /\ touch_token(request[r].req.caller.prefix)
    BY <1>3 DEF gate
  <2>2. request[r].req.caller.prefix \in DOMAIN tokens
    BY <1>3 DEF check, token_by_prefix
  <2>3. PICK row : /\ Turns(r, row) /\ row.at = "act" /\ row.req = request[r].req
                   /\ row.seen = {}
    BY <1>2, <2>1, GoesOn DEF IInv
  <2>4. Touches
    BY <1>1, <2>1, <2>2 DEF Touches
  <2>5. failed' = failed
    BY <2>1 DEF GoesTo
  <2>6. QED
    BY <1>1, <1>3, <2>3, <2>4, <2>5 DEF Passes
<1>4. CASE ~check(request[r].req)
  <2>1. GoesTo(r, "refused") /\ tokens' = tokens
    BY <1>4 DEF gate
  <2>2. PICK row : /\ Turns(r, row) /\ row.at = "refused" /\ row.req = request[r].req
                   /\ row.seen = {}
    BY <1>2, <2>1, GoesOn DEF IInv
  <2>3. Leaves
    BY <1>1, <2>1 DEF Leaves
  <2>4. failed' = failed
    BY <2>1 DEF GoesTo
  <2>5. QED
    BY <1>1, <2>2, <2>3, <2>4 DEF Passes
<1>5. QED
  BY <1>3, <1>4

\* The steps that touch no table.
LEMMA QuietShape ==
    ASSUME IInv, NEW r \in Worker,
           \/ record_denial(r) \/ record(r) \/ fail(r) \/ read(r) \/ versions(r)
           \/ status(r) \/ token_list(r) \/ policy_list(r) \/ audit_verify(r)
    PROVE  \E row : Turns(r, row) /\ Course(r, row)
<1>1. CASE read(r) \/ versions(r)
  <2>1. At(r, "act") /\ GoesTo(r, "record") /\ audit' = audit /\ Leaves
    BY <1>1 DEF read, versions, Acting, OnlyRequest, tables, Leaves
  <2>2. QED
    BY <2>1, ToRecord DEF Effect, Course
<1>2. CASE record_denial(r) \/ fail(r)
  <2>1. /\ request[r].at \in {"act", "refused"} /\ Ends(r) /\ audit' = audit /\ Leaves
        /\ failed' \in {failed, failed + 1}
    BY <1>2 DEF record_denial, fail, At, Answers, Fails, tables, Leaves
  <2>2. QED
    BY <2>1, Ending DEF GivesUp, Course
<1>3. CASE status(r) \/ token_list(r) \/ policy_list(r) \/ audit_verify(r)
  <2>1. /\ request[r].at = "act" /\ Ends(r) /\ audit' = audit /\ Leaves /\ failed' = failed
    BY <1>3 DEF status, token_list, policy_list, audit_verify, Inspects, Acting, At, Answers,
                OnlyRequest, tables, Leaves
  <2>2. QED
    BY <2>1, Ending DEF GivesUp, Course
<1>4. CASE record(r)
  <2>1. At(r, "record") /\ Ends(r) /\ Leaves
    BY <1>4 DEF record, Answers, Fails, Leaves
  <2>2. \/ audit' = audit + 1 /\ failed' = failed
        \/ audit' = audit /\ failed' = failed + 1
    BY <1>4 DEF record, Answers, Fails
  <2>3. QED
    BY <2>1, <2>2, Ending DEF Completes, Course
<1>5. QED
  BY <1>1, <1>2, <1>3, <1>4

\* What a worker that acts has been asked for.
LEMMA ActingFields ==
    ASSUME IInv, NEW r \in Worker, NEW route, Acting(r, route)
    PROVE  /\ At(r, "act") /\ request[r].req \in Requests /\ request[r].req.route = route
  BY DEF Acting, At, IInv, Served

\* A summary with other tags, or another current version.
LEMMA SummaryChanges ==
    ASSUME NEW s \in Summary, NEW T \in SUBSET Tag, NEW c \in BOOLEAN
    PROVE  /\ [s EXCEPT !.tags = T] \in Summary
           /\ [s EXCEPT !.current = c] \in Summary
           /\ [current |-> c, tags |-> T] \in Summary
           /\ s.tags \in SUBSET Tag /\ s.current \in BOOLEAN
  BY DEF Summary

\* The steps that write a secret's row.
LEMMA SecretShape ==
    ASSUME IInv, NEW r \in Worker,
           write(r) \/ rollback(r) \/ delete(r) \/ tag_add(r) \/ tag_remove(r)
    PROVE  \E row : Turns(r, row) /\ Course(r, row)
<1>1. \A p \in DOMAIN secrets : secrets[p] \in Summary /\ secrets[p].tags \in SUBSET Tag
  BY SummaryChanges DEF IInv, Tables
<1>2. TagsOf(Target(r)) \in SUBSET Tag
  BY <1>1 DEF TagsOf, Exists
<1>3. ASSUME NEW s \in Summary, Puts(Target(r), s), Target(r) \in Path, OnlySecrets,
             At(r, "act"), GoesTo(r, "record") \/ Fails(r)
      PROVE  \E row : Turns(r, row) /\ Course(r, row)
  <2>1. Stores /\ audit' = audit
    BY <1>3 DEF Stores, OnlySecrets
  <2>2. CASE GoesTo(r, "record")
    BY <1>3, <2>1, <2>2, ToRecord DEF Effect, Course
  <2>3. CASE Fails(r)
    BY <1>3, <2>1, <2>3, Ending DEF Fails, GivesUp, Course, At
  <2>4. QED
    BY <1>3, <2>2, <2>3
<1>4. ASSUME NEW s \in Summary, request[r].req.tags \subseteq Tag, add_tags(r, s)
      PROVE  \E x \in Summary : Puts(Target(r), x) /\ (GoesTo(r, "record") \/ Fails(r))
  <2>1. PICK added \in SUBSET request[r].req.tags :
           /\ Puts(Target(r), [s EXCEPT !.tags = s.tags \cup added])
           /\ GoesTo(r, "record") \/ Fails(r)
    BY <1>4 DEF add_tags
  <2>2. s.tags \cup added \in SUBSET Tag
    BY <1>4, SummaryChanges
  <2>3. [s EXCEPT !.tags = s.tags \cup added] \in Summary
    BY <2>2, SummaryChanges
  <2>4. QED
    BY <2>1, <2>3
<1>5. CASE write(r)
  <2>1. /\ At(r, "act") /\ Target(r) \in Path /\ request[r].req.tags \subseteq Tag
        /\ OnlySecrets
    BY <1>5, ActingFields, RouteFields DEF write, Target
  <2>2. [current |-> TRUE, tags |-> TagsOf(Target(r))] \in Summary
    BY <1>2 DEF Summary
  <2>3. QED
    BY <1>3, <1>4, <1>5, <2>1, <2>2 DEF write
<1>6. CASE tag_add(r)
  <2>1. /\ At(r, "act") /\ Target(r) \in Path /\ request[r].req.tags \subseteq Tag
        /\ OnlySecrets /\ Target(r) \in DOMAIN secrets
    BY <1>6, ActingFields, RouteFields DEF tag_add, Target, Exists
  <2>2. QED
    BY <1>1, <1>3, <1>4, <1>6, <2>1 DEF tag_add
<1>7. CASE tag_remove(r)
  <2>1. /\ At(r, "act") /\ Target(r) \in Path /\ OnlySecrets /\ Target(r) \in DOMAIN secrets
    BY <1>7, ActingFields, RouteFields DEF tag_remove, Target, Exists
  <2> DEFINE s == secrets[Target(r)]
  <2>2. s \in Summary /\ s.tags \in SUBSET Tag
    BY <1>1, <2>1
  <2>3. PICK removed \in SUBSET request[r].req.tags :
           /\ Puts(Target(r), [s EXCEPT !.tags = s.tags \ removed])
           /\ GoesTo(r, "record") \/ Fails(r)
    BY <1>7 DEF tag_remove, remove_tags
  <2>4. s.tags \ removed \in SUBSET Tag
    BY <2>2
  <2>5. [s EXCEPT !.tags = s.tags \ removed] \in Summary
    BY <2>2, <2>4, SummaryChanges
  <2>6. QED
    BY <1>3, <2>1, <2>3, <2>5
<1>8. CASE rollback(r) \/ delete(r)
  <2>1. /\ At(r, "act") /\ Target(r) \in Path /\ OnlySecrets /\ Target(r) \in DOMAIN secrets
        /\ GoesTo(r, "record")
    BY <1>8, ActingFields, RouteFields DEF rollback, delete, Target, Exists
  <2>2. secrets[Target(r)] \in Summary /\ secrets[Target(r)].current \in BOOLEAN
    BY <1>1, <2>1, SummaryChanges
  <2>3. PICK c \in BOOLEAN : Puts(Target(r), [secrets[Target(r)] EXCEPT !.current = c])
    BY <1>8, <2>2 DEF rollback, delete
  <2>4. [secrets[Target(r)] EXCEPT !.current = c] \in Summary
    BY <2>2, SummaryChanges
  <2>5. QED
    BY <1>3, <2>1, <2>3, <2>4
<1>9. QED
  BY <1>5, <1>6, <1>7, <1>8

\* A listing: its rows, and what is left of them.
LEMMA ListShape ==
    ASSUME IInv, NEW r \in Worker, list(r) \/ filter_visible(r)
    PROVE  \E row : Turns(r, row) /\ Course(r, row)
<1>1. \A p \in DOMAIN secrets : p \in Path /\ secrets[p].tags \in SUBSET Tag
  BY SummaryChanges DEF IInv, Tables, TypeOK
<1>2. {"filter", "record"} \subseteq Places
  BY DEF Places
<1>3. CASE list(r)
  <2>1. /\ At(r, "act") /\ request[r].req.route = "list" /\ Leaves /\ audit' = audit
        /\ Sees(r, "filter", Listed(request[r].req.tags))
    BY <1>3 DEF list, Acting, OnlyRequest, tables, Leaves
  <2>2. Listed(request[r].req.tags) \in SUBSET SecretRow
    <3>1. ASSUME NEW p \in DOMAIN secrets
          PROVE  [path |-> p, tags |-> secrets[p].tags] \in SecretRow
      BY <1>1, <3>1 DEF SecretRow
    <3>2. QED
      BY <3>1, Zenon DEF Listed
  <2>3. PICK row : Turns(r, row) /\ row.at = "filter" /\ row.req = request[r].req
    BY <1>2, <2>1, <2>2, GoesOn DEF IInv
  <2>4. QED
    BY <2>1, <2>3 DEF Sees, Lists, Course
<1>4. CASE filter_visible(r)
  <2> DEFINE shown == {row \in request[r].seen :
                evaluate(policies_for_token(request[r].req.caller.prefix),
                         "list", row.path, row.tags)}
  <2>1. At(r, "filter") /\ Leaves /\ audit' = audit /\ Sees(r, "record", shown)
    BY <1>4 DEF filter_visible, OnlyRequest, tables, Leaves
  <2>2. shown \in SUBSET SecretRow
    BY ServingFields DEF IInv
  <2>3. PICK row : /\ Turns(r, row) /\ row.at = "record" /\ row.req = request[r].req
                   /\ row.seen = shown
    <3> HIDE DEF shown
    <3>1. QED
      BY <1>2, <2>1, <2>2, GoesOn DEF IInv
  <2>4. failed' = failed
    BY <2>1 DEF Sees
  <2>5. QED
    BY <2>1, <2>3, <2>4 DEF Filters, Course
<1>5. QED
  BY <1>3, <1>4

\* The steps that change who may do what.
LEMMA AdminShape ==
    ASSUME IInv, NEW r \in Worker,
           token_create(r) \/ token_revoke(r) \/ policy_put(r) \/ policy_delete(r)
    PROVE  \E row : Turns(r, row) /\ Course(r, row)
<1>1. CASE token_create(r)
  <2> DEFINE q == request[r].req
             row == Fresh(q.bind_uid, Expiry(q.ttl))
  <2>1. /\ At(r, "act") /\ q.bind_uid \in Nat \cup {None} /\ q.ttl \in Nat \cup {None}
    BY <1>1, ActingFields, RouteFields DEF token_create
  <2>2. Expiry(q.ttl) \in Nat \cup {None}
    <3>1. clock \in Nat
      BY AccessBoundsAssumption DEF IInv, TypeOK
    <3>2. QED
      BY <2>1, <3>1 DEF Expiry
  <2>3. row \in TokenRow /\ row.revoked_at = None
    BY <2>1, <2>2 DEF Fresh, TokenRow
  <2>4. /\ \E t \in Token : create_token(t, row, q.policies)
        /\ GoesTo(r, "record") /\ policies' = policies /\ secrets' = secrets /\ audit' = audit
    BY <1>1 DEF token_create
  <2> HIDE DEF row
  <2>5. Creates
    BY <2>3, <2>4 DEF Creates
  <2>6. QED
    BY <2>1, <2>4, <2>5, ToRecord DEF Effect, Course
<1>2. CASE token_revoke(r)
  <2>1. /\ At(r, "act") /\ revoke_token(request[r].req.prefix) /\ GoesTo(r, "record")
        /\ policies' = policies /\ token_policies' = token_policies /\ secrets' = secrets
        /\ audit' = audit
    BY <1>2 DEF token_revoke, Acting
  <2>2. request[r].req.prefix \in DOMAIN tokens
    BY <2>1 DEF revoke_token, token_by_prefix
  <2>3. Revokes
    BY <2>1, <2>2 DEF Revokes
  <2>4. QED
    BY <2>1, <2>3, ToRecord DEF Effect, Course
<1>3. CASE policy_put(r)
  <2>1. /\ At(r, "act") /\ PutsPolicy /\ GoesTo(r, "record") /\ audit' = audit
    BY <1>3 DEF policy_put, Acting, PutsPolicy
  <2>2. QED
    BY <2>1, ToRecord DEF Effect, Course
<1>4. CASE policy_delete(r)
  <2>1. /\ At(r, "act") /\ DeletesPolicy /\ GoesTo(r, "record") /\ audit' = audit
    BY <1>4 DEF policy_delete, Acting, DeletesPolicy
  <2>2. QED
    BY <2>1, ToRecord DEF Effect, Course
<1>5. QED
  BY <1>1, <1>2, <1>3, <1>4

\* Every step of a worker takes one of these courses.
LEMMA StepShape ==
    ASSUME IInv, NEW r \in Worker, Step(r)
    PROVE  clock' = clock /\ \E row : Turns(r, row) /\ Course(r, row)
<1>1. clock' = clock
  BY DEF Step, gate, record_denial, record, fail, read, versions, write, rollback, delete,
         tag_add, tag_remove, list, filter_visible, token_create, token_revoke, policy_put,
         policy_delete, status, token_list, policy_list, audit_verify, Inspects, OnlyRequest,
         OnlySecrets
<1>2. QED
  BY <1>1, GateShape, QuietShape, SecretShape, ListShape, AdminShape DEF Step, Course

-----------------------------------------------------------------------------
(* The tables.                                                              *)

Ids == {policies[n].id : n \in DOMAIN policies}
TokenTable == /\ DOMAIN tokens \subseteq Token
              /\ \A t \in DOMAIN tokens : /\ tokens[t].expires_at \in Nat \cup {None}
                                          /\ tokens[t].revoked_at \in 0..clock \cup {None}
              /\ tokens \in [DOMAIN tokens -> TokenRow]
SecretTable == /\ DOMAIN secrets \subseteq Path
               /\ \A p \in DOMAIN secrets : /\ secrets[p].current \in BOOLEAN
                                            /\ secrets[p].tags \subseteq Tag
               /\ secrets \in [DOMAIN secrets -> Summary]
PolicyTable == /\ \A m, n \in DOMAIN policies : policies[m].id = policies[n].id => m = n
               /\ \A n \in DOMAIN policies : policies[n].id \in Nat
               /\ \E b \in Nat : \A n \in DOMAIN policies : policies[n].id <= b
Attachments == token_policies \subseteq (DOMAIN tokens) \X Ids
AllTables == /\ TokenTable /\ SecretTable /\ PolicyTable /\ Attachments
             /\ DOMAIN issued = DOMAIN tokens /\ GrantsOnlyAsIssued

\* They are a part of the invariant.
LEMMA TableFacts ==
    ASSUME IInv
    PROVE  AllTables /\ clock \in Nat
  BY AccessBoundsAssumption
     DEF IInv, TypeOK, Tables, AllTables, TokenTable, SecretTable, PolicyTable, Attachments, Ids

\* What the history says of a token after a step.
LEMMA IssuedFacts ==
    ASSUME HistoryNext, DOMAIN issued = DOMAIN tokens
    PROVE  /\ DOMAIN issued' = DOMAIN tokens'
           /\ \A t \in DOMAIN tokens' :
                 issued'[t] = IF t \in DOMAIN tokens THEN issued[t] \cap DOMAIN policies'
                              ELSE policy_names_for_token(t)'
  BY DEF HistoryNext, Issued

\* A token that gains no policy keeps to what it was issued with.
LEMMA GrantsKept ==
    ASSUME AllTables, HistoryNext,
           \A t \in DOMAIN tokens' : t \in DOMAIN tokens =>
               policy_names_for_token(t)' \subseteq policy_names_for_token(t)
    PROVE  DOMAIN issued' = DOMAIN tokens' /\ GrantsOnlyAsIssued'
<1>1. /\ DOMAIN issued' = DOMAIN tokens'
      /\ \A t \in DOMAIN tokens' :
            issued'[t] = IF t \in DOMAIN tokens THEN issued[t] \cap DOMAIN policies'
                         ELSE policy_names_for_token(t)'
  BY IssuedFacts DEF AllTables
<1>2. ASSUME NEW t \in DOMAIN tokens' PROVE policy_names_for_token(t)' \subseteq issued'[t]
  <2>1. policy_names_for_token(t)' \subseteq DOMAIN policies'
    BY DEF policy_names_for_token
  <2>2. t \in DOMAIN tokens => policy_names_for_token(t) \subseteq issued[t]
    BY DEF AllTables, GrantsOnlyAsIssued
  <2>3. QED
    BY <1>1, <2>1, <2>2
<1>3. QED
  BY <1>1, <1>2 DEF GrantsOnlyAsIssued

\* Tokens are touched or revoked, one at a time.
LEMMA TokenChanged ==
    ASSUME AllTables, clock \in Nat, clock' = clock, Touches \/ Revokes
    PROVE  TokenTable' /\ DOMAIN tokens' = DOMAIN tokens
<1>1. tokens \in [DOMAIN tokens -> TokenRow]
  BY DEF AllTables, TokenTable
<1>2. PICK t \in DOMAIN tokens, row \in TokenRow :
          /\ tokens' = [tokens EXCEPT ![t] = row]
          /\ row.expires_at = tokens[t].expires_at
          /\ row.revoked_at \in {tokens[t].revoked_at, clock}
  <2>1. CASE Touches
    <3>1. PICK t \in DOMAIN tokens : tokens' = [tokens EXCEPT ![t].used = TRUE]
      BY <2>1 DEF Touches, touch_token
    <3>2. tokens[t] \in TokenRow
      BY <1>1
    <3>3. PICK row : row = [tokens[t] EXCEPT !.used = TRUE]
      OBVIOUS
    <3>4. /\ row \in TokenRow /\ row.expires_at = tokens[t].expires_at
          /\ row.revoked_at = tokens[t].revoked_at
      BY <3>2, <3>3 DEF TokenRow
    <3>5. tokens' = [tokens EXCEPT ![t] = row]
      BY <3>1, <3>3
    <3>6. QED
      BY <3>4, <3>5
  <2>2. CASE Revokes
    <3>1. PICK t \in DOMAIN tokens :
             tokens' = [tokens EXCEPT ![t].revoked_at =
                           IF tokens[t].revoked_at = None THEN clock ELSE tokens[t].revoked_at]
      BY <2>2 DEF Revokes, revoke_token
    <3>2. tokens[t] \in TokenRow
      BY <1>1
    <3>3. PICK at : at = IF tokens[t].revoked_at = None THEN clock ELSE tokens[t].revoked_at
      OBVIOUS
    <3>4. PICK row : row = [tokens[t] EXCEPT !.revoked_at = at]
      OBVIOUS
    <3>5. at \in Nat \cup {None} /\ at \in {tokens[t].revoked_at, clock}
      BY <3>2, <3>3 DEF TokenRow
    <3>6. /\ row \in TokenRow /\ row.expires_at = tokens[t].expires_at
          /\ row.revoked_at = at
      BY <3>2, <3>4, <3>5 DEF TokenRow
    <3>7. tokens' = [tokens EXCEPT ![t] = row]
      BY <3>1, <3>3, <3>4
    <3>8. QED
      BY <3>5, <3>6, <3>7
  <2>3. QED
    BY <2>1, <2>2
<1>3. /\ DOMAIN tokens' = DOMAIN tokens /\ tokens' \in [DOMAIN tokens -> TokenRow]
      /\ tokens'[t] = row /\ \A u \in DOMAIN tokens : u # t => tokens'[u] = tokens[u]
  BY <1>1, <1>2
<1>4. \A u \in DOMAIN tokens : /\ tokens'[u].expires_at \in Nat \cup {None}
                               /\ tokens'[u].revoked_at \in 0..clock \cup {None}
  BY <1>2, <1>3 DEF AllTables, TokenTable
<1>5. QED
  BY <1>3, <1>4 DEF AllTables, TokenTable

\* A policy that is new gets an id that no policy has.
LEMMA NextIdFresh ==
    ASSUME PolicyTable
    PROVE  NextId \in Nat /\ \A n \in DOMAIN policies : policies[n].id < NextId
<1> DEFINE S == {0} \cup {policies[n].id : n \in DOMAIN policies}
<1>1. PICK b \in Nat : \A n \in DOMAIN policies : policies[n].id <= b
  BY DEF PolicyTable
<1>2. S \subseteq 0..b /\ S # {} /\ \A n \in DOMAIN policies : policies[n].id \in S
  BY <1>1 DEF PolicyTable
<1> HIDE DEF S
<1>3. \E x \in S : \A y \in S : y <= x
  BY <1>2, GreatestNat
<1>4. \A x, y \in S : x >= y <=> y <= x
  BY <1>2
<1>5. \E x \in S : \A y \in S : x >= y
  BY <1>3, <1>4
<1>6. Max(S) \in S /\ \A y \in S : Max(S) >= y
  BY <1>5 DEF Max
<1>7. NextId = 1 + Max(S)
  BY DEF NextId, S
<1>8. \A y \in S : y \in Nat
  BY <1>2
<1>9. PICK m : m = Max(S)
  OBVIOUS
<1>10. m \in Nat /\ NextId = 1 + m /\ \A y \in S : m >= y
  BY <1>6, <1>7, <1>8, <1>9, Zenon
<1>11. \A y \in S : y < 1 + m
  BY <1>8, <1>10
<1>12. 1 + m \in Nat
  BY <1>10
<1>13. \A n \in DOMAIN policies : policies[n].id < 1 + m
  BY <1>2, <1>11, Zenon
<1>14. QED
  BY <1>10, <1>12, <1>13, Zenon

\* A policy is stored: under the id it had, or under a new one that is attached
\* to no token.
LEMMA PolicyPut ==
    ASSUME AllTables, HistoryNext, PutsPolicy, clock' = clock
    PROVE  AllTables'
<1>1. PICK name, document : put_policy(name, document)
  BY DEF PutsPolicy
<1>2. PICK id : id = IF name \in DOMAIN policies THEN policies[name].id ELSE NextId
  OBVIOUS
<1>3. PICK row : row = [id |-> id, document |-> document]
  OBVIOUS
<1>4. row.id = id
  BY <1>3
<1>5. policies' = Put(policies, name, row)
  BY <1>1, <1>2, <1>3 DEF put_policy
<1>6. /\ DOMAIN policies' = DOMAIN policies \cup {name} /\ policies'[name].id = id
      /\ \A n \in DOMAIN policies : policies'[n].id = policies[n].id
  <2>1. /\ DOMAIN policies' = DOMAIN policies \cup {name} /\ policies'[name] = row
        /\ \A n \in DOMAIN policies : n # name => policies'[n] = policies[n]
    BY <1>5 DEF Put
  <2>2. name \in DOMAIN policies => policies[name].id = id
    BY <1>2
  <2>3. ASSUME NEW n \in DOMAIN policies PROVE policies'[n].id = policies[n].id
    <3>1. CASE n = name
      BY <1>4, <2>1, <2>2, <3>1
    <3>2. CASE n # name
      BY <2>1, <3>2
    <3>3. QED
      BY <3>1, <3>2
  <2>4. QED
    BY <1>4, <2>1, <2>3
<1>7. /\ id \in Nat
      /\ name \notin DOMAIN policies => \A n \in DOMAIN policies : policies[n].id < id
  BY <1>2, NextIdFresh DEF AllTables, PolicyTable
<1>8. tokens' = tokens /\ token_policies' = token_policies /\ secrets' = secrets
  BY DEF PutsPolicy
<1>9. PolicyTable'
  <2>1. \A m, n \in DOMAIN policies' : policies'[m].id = policies'[n].id => m = n
    <3> SUFFICES ASSUME NEW m \in DOMAIN policies', NEW n \in DOMAIN policies',
                        policies'[m].id = policies'[n].id
                 PROVE  m = n
      OBVIOUS
    <3>1. CASE name \in DOMAIN policies
      BY <1>6, <3>1 DEF AllTables, PolicyTable
    <3>2. CASE name \notin DOMAIN policies
      <4>1. \A x \in DOMAIN policies : policies[x].id \in Nat /\ policies[x].id # id
        BY <1>7, <3>2 DEF AllTables, PolicyTable
      <4>2. QED
        BY <1>6, <4>1 DEF AllTables, PolicyTable
    <3>3. QED
      BY <3>1, <3>2
  <2>2. \A n \in DOMAIN policies' : policies'[n].id \in Nat
    BY <1>6, <1>7 DEF AllTables, PolicyTable
  <2>3. \E b \in Nat : \A n \in DOMAIN policies' : policies'[n].id <= b
    <3>1. PICK b \in Nat : \A n \in DOMAIN policies : policies[n].id <= b
      BY DEF AllTables, PolicyTable
    <3>2. b + id \in Nat
      BY <1>7
    <3>3. \A n \in DOMAIN policies' : policies'[n].id <= b + id
      BY <1>6, <1>7, <3>1 DEF AllTables, PolicyTable
    <3>4. QED
      BY <3>2, <3>3
  <2>4. QED
    BY <2>1, <2>2, <2>3 DEF PolicyTable
<1>10. Ids \subseteq Ids'
  BY <1>6 DEF Ids
<1>11. Attachments'
  BY <1>8, <1>10 DEF AllTables, Attachments
<1>12. ASSUME NEW t \in DOMAIN tokens
       PROVE  policy_names_for_token(t)' \subseteq policy_names_for_token(t)
  <2> SUFFICES ASSUME NEW n \in DOMAIN policies', <<t, policies'[n].id>> \in token_policies
               PROVE  n \in policy_names_for_token(t)
    BY <1>8 DEF policy_names_for_token
  <2>1. policies'[n].id \in Ids
    BY DEF AllTables, Attachments
  <2>2. n \in DOMAIN policies
    <3> SUFFICES ASSUME n \notin DOMAIN policies PROVE FALSE
      OBVIOUS
    <3>1. policies'[n].id = id /\ name \notin DOMAIN policies
      BY <1>6
    <3>2. PICK m \in DOMAIN policies : policies[m].id = id
      BY <2>1, <3>1 DEF Ids
    <3>3. QED
      BY <1>7, <3>1, <3>2
  <2>3. QED
    BY <1>6, <2>2 DEF policy_names_for_token
<1>13. DOMAIN issued' = DOMAIN tokens' /\ GrantsOnlyAsIssued'
  BY <1>8, <1>12, GrantsKept
<1>14. TokenTable' /\ SecretTable'
  BY <1>8 DEF AllTables, TokenTable, SecretTable
<1>15. QED
  BY <1>9, <1>11, <1>13, <1>14 DEF AllTables

\* A policy is deleted, and with it its attachments.
LEMMA PolicyDeleted ==
    ASSUME AllTables, HistoryNext, DeletesPolicy, clock' = clock
    PROVE  AllTables'
<1>1. PICK name : delete_policy(name)
  BY DEF DeletesPolicy
<1>2. /\ name \in DOMAIN policies
      /\ DOMAIN policies' = DOMAIN policies \ {name}
      /\ \A n \in DOMAIN policies' : policies'[n] = policies[n]
      /\ token_policies' = {a \in token_policies : a[2] # policies[name].id}
  BY <1>1 DEF delete_policy, Restrict
<1>3. tokens' = tokens /\ secrets' = secrets
  BY DEF DeletesPolicy
<1>4. PolicyTable'
  <2>1. PICK b \in Nat : \A n \in DOMAIN policies : policies[n].id <= b
    BY DEF AllTables, PolicyTable
  <2>2. \A n \in DOMAIN policies' : policies'[n].id <= b
    BY <1>2, <2>1
  <2>3. QED
    BY <1>2, <2>2 DEF AllTables, PolicyTable
<1>5. Attachments'
  <2>1. ASSUME NEW a \in token_policies' PROVE a \in (DOMAIN tokens) \X Ids'
    <3>1. a \in (DOMAIN tokens) \X Ids /\ a[2] # policies[name].id
      BY <1>2, <2>1 DEF AllTables, Attachments
    <3>2. PICK n \in DOMAIN policies : a[2] = policies[n].id
      BY <3>1 DEF Ids
    <3>3. n \in DOMAIN policies' /\ policies'[n].id = a[2]
      BY <1>2, <3>1, <3>2
    <3>4. a[2] \in Ids'
      BY <3>3 DEF Ids
    <3>5. QED
      BY <3>1, <3>4
  <2>2. QED
    BY <1>3, <2>1 DEF Attachments
<1>6. \A t : policy_names_for_token(t)' \subseteq policy_names_for_token(t)
  BY <1>2 DEF policy_names_for_token
<1>7. DOMAIN issued' = DOMAIN tokens' /\ GrantsOnlyAsIssued'
  BY <1>6, GrantsKept
<1>8. TokenTable' /\ SecretTable'
  BY <1>3 DEF AllTables, TokenTable, SecretTable
<1>9. QED
  BY <1>4, <1>5, <1>7, <1>8 DEF AllTables

\* A token is created with its attachments.
LEMMA TokenCreated ==
    ASSUME AllTables, HistoryNext, Creates, clock' = clock
    PROVE  AllTables'
<1>0. PICK t \in Token, row \in TokenRow : \E names :
        row.revoked_at = None /\ create_token(t, row, names)
  BY DEF Creates
<1>1. PICK names : row.revoked_at = None /\ create_token(t, row, names)
  BY <1>0
<1>2. /\ t \notin DOMAIN tokens /\ names \subseteq DOMAIN policies
      /\ tokens' = Put(tokens, t, row)
      /\ token_policies' = token_policies \cup {<<t, policies[n].id>> : n \in names}
  BY <1>1 DEF create_token
<1>3. policies' = policies /\ secrets' = secrets
  BY DEF Creates
<1>4. tokens \in [DOMAIN tokens -> TokenRow]
  BY DEF AllTables, TokenTable
<1>5. /\ DOMAIN tokens' = DOMAIN tokens \cup {t} /\ tokens'[t] = row
      /\ \A x \in DOMAIN tokens : tokens'[x] = tokens[x]
  <2>1. /\ DOMAIN tokens' = DOMAIN tokens \cup {t} /\ tokens'[t] = row
        /\ \A x \in DOMAIN tokens : x # t => tokens'[x] = tokens[x]
    BY <1>2 DEF Put
  <2>2. QED
    BY <1>2, <2>1
<1>6. tokens' \in [DOMAIN tokens' -> TokenRow]
  BY <1>1, <1>2, <1>4 DEF Put
<1>7. row.expires_at \in Nat \cup {None}
  BY DEF TokenRow
<1>8. TokenTable'
  BY <1>1, <1>5, <1>6, <1>7 DEF AllTables, TokenTable
<1>9. Attachments'
  <2>1. Ids' = Ids
    BY <1>3 DEF Ids
  <2>2. \A n \in names : policies[n].id \in Ids
    BY <1>2 DEF Ids
  <2>3. QED
    BY <1>2, <1>5, <2>1, <2>2 DEF AllTables, Attachments
<1>10. ASSUME NEW u \in DOMAIN tokens
       PROVE  policy_names_for_token(u)' \subseteq policy_names_for_token(u)
  <2>1. u # t
    BY <1>2
  <2>2. \A x : <<u, x>> \in token_policies' => <<u, x>> \in token_policies
    BY <1>2, <2>1
  <2>3. QED
    BY <1>3, <2>2 DEF policy_names_for_token
<1>11. DOMAIN issued' = DOMAIN tokens' /\ GrantsOnlyAsIssued'
  BY <1>10, GrantsKept
<1>12. PolicyTable' /\ SecretTable'
  BY <1>3 DEF AllTables, PolicyTable, SecretTable
<1>13. QED
  BY <1>8, <1>9, <1>11, <1>12 DEF AllTables

\* Every effect of a step keeps the tables in order, and so does time.
LEMMA TablesKept ==
    ASSUME AllTables, clock \in Nat, HistoryNext,
           \/ Effect /\ clock' = clock
           \/ Leaves /\ clock' = clock + 1
    PROVE  AllTables'
<1>1. ASSUME policies' = policies, token_policies' = token_policies,
             DOMAIN tokens' = DOMAIN tokens, TokenTable', SecretTable'
      PROVE  AllTables'
  <2>1. PolicyTable' /\ Attachments'
    BY <1>1 DEF AllTables, PolicyTable, Attachments, Ids
  <2>2. \A t : policy_names_for_token(t)' = policy_names_for_token(t)
    BY <1>1 DEF policy_names_for_token
  <2>3. DOMAIN issued' = DOMAIN tokens' /\ GrantsOnlyAsIssued'
    BY <2>2, GrantsKept
  <2>4. QED
    BY <1>1, <2>1, <2>3 DEF AllTables
<1>2. CASE Leaves
  <2>1. tokens' = tokens /\ policies' = policies /\ token_policies' = token_policies
        /\ secrets' = secrets
    BY <1>2 DEF Leaves
  <2>2. 0..clock \subseteq 0..clock'
    BY DEF TokenTable
  <2>3. TokenTable' /\ SecretTable'
    BY <2>1, <2>2 DEF AllTables, TokenTable, SecretTable
  <2>4. QED
    BY <1>1, <2>1, <2>3
<1>3. CASE (Touches \/ Revokes) /\ clock' = clock
  <2>1. TokenTable' /\ DOMAIN tokens' = DOMAIN tokens
    BY <1>3, TokenChanged
  <2>2. policies' = policies /\ token_policies' = token_policies /\ secrets' = secrets
    BY <1>3 DEF Touches, Revokes
  <2>3. SecretTable'
    BY <2>2 DEF AllTables, SecretTable
  <2>4. QED
    BY <1>1, <2>1, <2>2, <2>3
<1>4. CASE Stores /\ clock' = clock
  <2>1. PICK p \in Path, s \in Summary : secrets' = Put(secrets, p, s)
    BY <1>4 DEF Stores, Puts
  <2>2. tokens' = tokens /\ policies' = policies /\ token_policies' = token_policies
    BY <1>4 DEF Stores
  <2>3. secrets \in [DOMAIN secrets -> Summary]
    BY DEF AllTables, SecretTable
  <2>4. DOMAIN secrets' = DOMAIN secrets \cup {p} /\ secrets' \in [DOMAIN secrets' -> Summary]
    BY <2>1, <2>3 DEF Put
  <2>5. \A x \in DOMAIN secrets' : /\ secrets'[x].current \in BOOLEAN
                                   /\ secrets'[x].tags \subseteq Tag
    BY <2>4 DEF Summary
  <2>6. SecretTable' /\ TokenTable'
    BY <1>4, <2>2, <2>4, <2>5 DEF AllTables, SecretTable, TokenTable
  <2>7. QED
    BY <1>1, <2>2, <2>6
<1>5. QED
  BY <1>2, <1>3, <1>4, PolicyPut, PolicyDeleted, TokenCreated DEF Effect

-----------------------------------------------------------------------------
(* The requests on their way.                                               *)

\* A worker that takes a turn has a request in hand, at every stage it reaches.
LEMMA ServedKept ==
    ASSUME Served, NEW r \in Worker, NEW row, Turns(r, row),
           /\ row.at # "idle" => row.req \in Requests
           /\ row.at \notin {"filter", "record"} => row.seen = {}
           /\ row.at = "filter" => row.req.route = "list"
    PROVE  Served'
<1>1. /\ request' \in [Worker -> Serving] /\ request'[r] = row
      /\ \A s \in Worker : s # r => request'[s] = request[s]
  BY TurnFacts
<1>2. QED
  BY <1>1 DEF Served

\* Every course keeps what a worker serves in order.
LEMMA CourseServed ==
    ASSUME Served, NEW r \in Worker, NEW row, Turns(r, row), Course(r, row)
    PROVE  Served'
<1>1. /\ row.at # "idle" => row.req \in Requests
      /\ row.at \notin {"filter", "record"} => row.seen = {}
      /\ row.at = "filter" => row.req.route = "list"
  BY IdleFields DEF Served, Course, Passes, Records, GivesUp, Completes, Lists, Filters, At
<1>2. QED
  BY <1>1, ServedKept

\* A worker joins a group, leaves it, or neither.
LEMMA Counting ==
    ASSUME NEW S \in SUBSET Worker, NEW r \in Worker
    PROVE  /\ Cardinality(S) \in Nat
           /\ r \notin S => Cardinality(S \cup {r}) = Cardinality(S) + 1
           /\ r \in S => Cardinality(S \ {r}) = Cardinality(S) - 1
<1>1. IsFiniteSet(S)
  BY WorkerAssumption, FS_Subset
<1>2. QED
  BY <1>1, FS_CardinalityType, FS_AddElement, FS_RemoveElement

Recording == {s \in Worker : At(s, "record")}

\* Who is busy and who is about to record, after a turn.
LEMMA GroupsAfter ==
    ASSUME Served, NEW r \in Worker, NEW row, Turns(r, row)
    PROVE  /\ Busy' = IF row.at = "idle" THEN Busy \ {r} ELSE Busy \cup {r}
           /\ Recording' = IF row.at = "record" THEN Recording \cup {r} ELSE Recording \ {r}
           /\ r \in Busy <=> ~At(r, "idle")
           /\ r \in Recording <=> At(r, "record")
<1>1. /\ request'[r] = row
      /\ \A s \in Worker : s # r => request'[s] = request[s]
  BY TurnFacts
<1>2. QED
  BY <1>1 DEF Busy, Recording, At

\* A token that is used has the same contents.
LEMMA ContentsKept ==
    ASSUME AllTables, Leaves \/ Touches
    PROVE  Contents' = Contents
<1>1. policies' = policies /\ token_policies' = token_policies /\ secrets' = secrets
  BY DEF Leaves, Touches
<1>2. CASE Leaves
  BY <1>2 DEF Leaves, Contents
<1>3. CASE Touches
  <2>1. PICK t \in DOMAIN tokens : tokens' = [tokens EXCEPT ![t].used = TRUE]
    BY <1>3 DEF Touches, touch_token
  <2>2. DOMAIN tokens' = DOMAIN tokens
    BY <2>1
  <2>3. ASSUME NEW u \in DOMAIN tokens
        PROVE  [tokens'[u] EXCEPT !.used = TRUE] = [tokens[u] EXCEPT !.used = TRUE]
    <3>1. tokens[u] \in TokenRow
      BY DEF AllTables, TokenTable
    <3>2. CASE u # t
      BY <2>1, <3>2
    <3>3. CASE u = t
      <4>1. tokens'[u] = [tokens[u] EXCEPT !.used = TRUE]
        BY <2>1, <3>3
      <4>2. QED
        BY <3>1, <4>1 DEF TokenRow
    <3>4. QED
      BY <3>2, <3>3
  <2>4. [u \in DOMAIN tokens' |-> [tokens'[u] EXCEPT !.used = TRUE]]
         = [u \in DOMAIN tokens |-> [tokens[u] EXCEPT !.used = TRUE]]
    BY <2>2, <2>3
  <2>5. QED
    BY <1>1, <2>4, Zenon DEF Contents
<1>4. QED
  BY <1>2, <1>3

\* How many changes there are after a step.
LEMMA ChangesAfter ==
    ASSUME AllTables, HistoryNext, changes \in Nat
    PROVE  /\ changes' \in {changes, changes + 1}
           /\ Leaves \/ Touches => changes' = changes
  BY ContentsKept DEF HistoryNext

\* A turn keeps the numbers in step.
LEMMA CountsKept ==
    ASSUME Served, AllTables, HistoryNext, Counts, ChangesAreAccountedFor, accepted \in Nat,
           NEW r \in Worker, NEW row, Turns(r, row), Course(r, row), accepted' = accepted
    PROVE  Counts' /\ ChangesAreAccountedFor'
<1>1. /\ Busy' = IF row.at = "idle" THEN Busy \ {r} ELSE Busy \cup {r}
      /\ Recording' = IF row.at = "record" THEN Recording \cup {r} ELSE Recording \ {r}
      /\ r \in Busy <=> ~At(r, "idle")
      /\ r \in Recording <=> At(r, "record")
  BY GroupsAfter
<1>2. Busy \in SUBSET Worker /\ Recording \in SUBSET Worker
  BY DEF Busy, Recording
<1>3. /\ Cardinality(Busy) \in Nat
      /\ r \in Busy => Cardinality(Busy \ {r}) = Cardinality(Busy) - 1
  BY <1>2, Counting
<1>4. /\ Cardinality(Recording) \in Nat
      /\ r \notin Recording => Cardinality(Recording \cup {r}) = Cardinality(Recording) + 1
      /\ r \in Recording => Cardinality(Recording \ {r}) = Cardinality(Recording) - 1
  BY <1>2, Counting
<1>5. changes' \in {changes, changes + 1} /\ (Leaves \/ Touches => changes' = changes)
  BY ChangesAfter DEF Counts
<1>6. r \in Busy /\ (row.at = "idle" \/ Busy \cup {r} = Busy)
  <2>1. ~At(r, "idle")
    BY DEF Course, Passes, Records, GivesUp, Completes, Lists, Filters, At
  <2>2. QED
    BY <1>1, <2>1
<1>7. /\ changes \in Nat /\ failed \in Nat /\ audit \in Nat
      /\ audit + Cardinality(Busy) <= accepted
      /\ changes <= audit + failed + Cardinality(Recording)
  BY DEF Counts, ChangesAreAccountedFor, Recording
<1> DEFINE b == Cardinality(Busy)
           n == Cardinality(Recording)
           b1 == Cardinality(Busy')
           n1 == Cardinality(Recording')
<1> SUFFICES /\ changes' \in Nat /\ failed' \in Nat /\ audit' \in Nat
             /\ audit' + b1 <= accepted
             /\ changes' <= audit' + failed' + n1
  BY DEF Counts, ChangesAreAccountedFor, Recording
<1>8. CASE Passes(r, row) \/ Lists(r, row)
  <2>1. /\ (Leaves \/ Touches) /\ audit' = audit /\ failed' = failed
        /\ row.at \notin {"idle", "record"} /\ ~At(r, "record")
    BY <1>8 DEF Passes, Lists, At
  <2>2. b1 = b /\ n1 = n
    BY <1>1, <1>6, <2>1
  <2>3. changes' = changes /\ audit' = audit /\ failed' = failed
    BY <1>5, <1>8 DEF Passes, Lists
  <2>4. QED
    BY <1>7, <2>2, <2>3
<1>9. CASE Records(r, row) \/ Filters(r, row)
  <2>1. audit' = audit /\ failed' = failed /\ row.at = "record" /\ ~At(r, "record")
    BY <1>9 DEF Records, Filters, At
  <2>2. b1 = b /\ n1 = n + 1
    BY <1>1, <1>4, <1>6, <2>1
  <2> HIDE DEF b1, n1, b, n
  <2>3. b \in Nat /\ n \in Nat
    BY <1>3, <1>4 DEF b, n
  <2>4. audit + b <= accepted /\ changes <= audit + failed + n
    BY <1>7 DEF b, n
  <2>5. QED
    BY <1>5, <1>7, <2>1, <2>2, <2>3, <2>4
<1>10. CASE GivesUp(r, row)
  <2>1. /\ audit' = audit /\ row.at = "idle" /\ ~At(r, "record")
        /\ failed' \in {failed, failed + 1} /\ (Leaves \/ failed' = failed + 1)
    BY <1>10, IdleFields DEF GivesUp, At
  <2>2. b1 = b - 1 /\ n1 = n
    BY <1>1, <1>3, <1>6, <2>1
  <2> HIDE DEF b1, n1, b, n
  <2>3. b \in Nat /\ n \in Nat
    BY <1>3, <1>4 DEF b, n
  <2>4. audit + b <= accepted /\ changes <= audit + failed + n
    BY <1>7 DEF b, n
  <2>5. changes' \in {changes, changes + 1} /\ (changes' = changes \/ failed' = failed + 1)
    BY <1>5, <2>1
  <2>6. changes \in Nat /\ failed \in Nat /\ audit \in Nat
    BY <1>7
  <2>7. CASE failed' = failed /\ changes' = changes
    BY <2>1, <2>2, <2>3, <2>4, <2>6, <2>7
  <2>8. CASE failed' = failed + 1 /\ changes' = changes
    BY <2>1, <2>2, <2>3, <2>4, <2>6, <2>8
  <2>9. CASE failed' = failed + 1 /\ changes' = changes + 1
    BY <2>1, <2>2, <2>3, <2>4, <2>6, <2>9
  <2>10. QED
    BY <2>1, <2>5, <2>7, <2>8, <2>9
<1>11. CASE Completes(r, row)
  <2>1. /\ row.at = "idle" /\ At(r, "record") /\ Leaves
        /\ \/ audit' = audit + 1 /\ failed' = failed
           \/ audit' = audit /\ failed' = failed + 1
    BY <1>11, IdleFields DEF Completes
  <2>2. b1 = b - 1 /\ n1 = n - 1
    BY <1>1, <1>3, <1>4, <1>6, <2>1
  <2> HIDE DEF b1, n1, b, n
  <2>3. b \in Nat /\ n \in Nat
    BY <1>3, <1>4 DEF b, n
  <2>4. audit + b <= accepted /\ changes <= audit + failed + n
    BY <1>7 DEF b, n
  <2>5. changes' = changes
    BY <1>5, <2>1
  <2>6. changes \in Nat /\ failed \in Nat /\ audit \in Nat
    BY <1>7
  <2>7. CASE audit' = audit + 1 /\ failed' = failed
    BY <2>2, <2>3, <2>4, <2>5, <2>6, <2>7
  <2>8. CASE audit' = audit /\ failed' = failed + 1
    BY <2>2, <2>3, <2>4, <2>5, <2>6, <2>8
  <2>9. QED
    BY <2>1, <2>7, <2>8
<1>12. QED
  BY <1>8, <1>9, <1>10, <1>11 DEF Course

-----------------------------------------------------------------------------
(* What a request was entitled to.                                          *)

\* Policies that stay as they are open the same paths.
LEMMA SamePolicies ==
    ASSUME policies' = policies, token_policies' = token_policies,
           NEW caller, NEW c, NEW p, NEW tags
    PROVE  PathOpen(caller, c, p, tags) => PathOpen(caller, c, p, tags)'
<1>1. Attached(caller)' = Attached(caller)
  BY DEF Attached
<1>2. QED
  BY <1>1, Zenon DEF PathOpen

\* Time and use apart, a token is as live as it was.
LEMMA AuthenticatedIsLive ==
    ASSUME IInv, NEW caller, caller.prefix \in DOMAIN tokens,
           authenticate(tokens[caller.prefix], caller, clock), clock' = clock, Leaves \/ Touches
    PROVE  Live(caller)'
<1> DEFINE t == caller.prefix
<1>1. /\ tokens[t] \in TokenRow /\ tokens[t].expires_at \in Nat \cup {None}
      /\ tokens[t].revoked_at \in 0..clock \cup {None} /\ clock \in Nat
  BY TableFacts DEF AllTables, TokenTable
<1>2. PICK old : old = tokens[t]
  OBVIOUS
<1>3. /\ caller.genuine /\ old.revoked_at = None
      /\ old.expires_at = None \/ clock < old.expires_at
      /\ old.bound_uid = None \/ old.bound_uid = caller.uid
  BY <1>1, <1>2 DEF authenticate, Past
<1>4. /\ t \in DOMAIN tokens' /\ tokens'[t].revoked_at = old.revoked_at
      /\ tokens'[t].expires_at = old.expires_at /\ tokens'[t].bound_uid = old.bound_uid
  <2>1. CASE Leaves
    BY <1>2, <2>1 DEF Leaves
  <2>2. CASE Touches
    <3>1. PICK u \in DOMAIN tokens : tokens' = [tokens EXCEPT ![u].used = TRUE]
      BY <2>2 DEF Touches, touch_token
    <3>2. CASE u # t
      BY <1>2, <3>1, <3>2
    <3>3. CASE u = t
      <4>1. t \in DOMAIN tokens' /\ tokens'[t] = [old EXCEPT !.used = TRUE]
        BY <1>2, <3>1, <3>3
      <4>2. QED
        BY <1>1, <1>2, <4>1 DEF TokenRow
    <3>4. QED
      BY <3>2, <3>3
  <2>3. QED
    BY <2>1, <2>2
<1>5. QED
  BY <1>3, <1>4 DEF Live

\* The gate opens only to what the caller is entitled to.
LEMMA GateEntitles ==
    ASSUME IInv, NEW q \in Requests, check(q), clock' = clock, Leaves \/ Touches
    PROVE  Entitled(q, q.path)'
<1> DEFINE c == required_capability(q.route)
<1>1. policies' = policies /\ token_policies' = token_policies /\ secrets' = secrets
  BY DEF Leaves, Touches
<1>2. /\ q.caller.prefix \in DOMAIN tokens
      /\ authenticate(tokens[q.caller.prefix], q.caller, clock)
  BY DEF check, token_by_prefix
<1>3. Live(q.caller)'
  BY <1>2, AuthenticatedIsLive
<1>4. q.route = "list" => q.path = None
  BY RouteFields
<1>5. CASE q.path = None
  <2>1. grants_without_path(policies_for_token(q.caller.prefix), c)
    BY <1>5 DEF check
  <2>2. policies_for_token(q.caller.prefix) = Attached(q.caller)
    BY Zenon DEF policies_for_token, policy_names_for_token, Attached
  <2>3. q.route \in ManagementRoutes => c = "admin"
    BY DEF ManagementRoutes, required_capability
  <2>4. q.route \in ManagementRoutes => Administers(q.caller)
    BY <2>1, <2>2, <2>3, Zenon DEF grants_without_path, Administers
  <2>5. Attached(q.caller)' = Attached(q.caller)
    BY <1>1 DEF Attached
  <2>6. q.route \in ManagementRoutes => Administers(q.caller)'
    BY <2>4, <2>5, Zenon DEF Administers
  <2>7. QED
    BY <1>3, <1>5, <2>6 DEF Entitled
<1>6. CASE q.path # None
  <2>1. evaluate(policies_for_token(q.caller.prefix), c, q.path, TagsOf(q.path))
    BY <1>6 DEF check
  <2>2. PathOpen(q.caller, c, q.path, TagsOf(q.path))
    BY <2>1, EvaluatedIsOpen
  <2>3. PICK tags : tags = TagsOf(q.path)
    OBVIOUS
  <2>4. TagsOf(q.path)' = tags
    BY <1>1, <2>3 DEF TagsOf, Exists
  <2>5. PathOpen(q.caller, c, q.path, tags)'
    BY <1>1, <2>2, <2>3, SamePolicies
  <2>6. PathOpen(q.caller, c, q.path, TagsOf(q.path))'
    BY <2>4, <2>5 DEF PathOpen
  <2>7. QED
    BY <1>3, <1>4, <1>6, <2>6 DEF Entitled
<1>7. QED
  BY <1>5, <1>6

\* A listing shows only paths that are open to its caller.
LEMMA FilterEntitles ==
    ASSUME NEW q \in Requests, q.route = "list", NEW x \in SecretRow,
           evaluate(policies_for_token(q.caller.prefix), "list", x.path, x.tags), Leaves
    PROVE  Entitled(q, x.path)'
<1>1. policies' = policies /\ token_policies' = token_policies
  BY DEF Leaves
<1>2. x.path # None /\ x.tags \subseteq Tag
  BY NoneAssumption DEF SecretRow
<1>3. required_capability("list") = "list"
  BY DEF required_capability
<1>4. PathOpen(q.caller, "list", x.path, Tag)
  BY <1>2, EvaluatedIsOpen
<1>5. PathOpen(q.caller, "list", x.path, Tag)'
  BY <1>1, <1>4, SamePolicies
<1>6. QED
  BY <1>2, <1>3, <1>5 DEF Entitled

\* What a request on its way is denied only shrinks.
LEMMA WithheldShrinks ==
    ASSUME HistoryNext, NEW s \in Worker, request[s].at # "idle",
           request'[s].at \notin {"idle", "refused"}, NEW q, request'[s].req = q
    PROVE  /\ withheld'[s] \subseteq withheld[s]
           /\ \A x \in withheld'[s] : ~Entitled(q, x)'
<1>1. withheld'[s] = Withheld(s)
  BY DEF HistoryNext
<1>2. Withheld(s) = {x \in withheld[s] : ~Entitled(request[s].req, x)'}
  BY DEF Withheld, At
<1>3. \A x : Entitled(request[s].req, x)' <=> Entitled(q, x)'
  BY DEF Entitled
<1>4. QED
  BY <1>1, <1>2, <1>3

\* What holds of one request.
AllowedFor(r) ==
    /\ request[r].at \in {"act", "filter", "record"} => request[r].req.path \notin withheld[r]
    /\ At(r, "record") => {row.path : row \in request[r].seen} \cap withheld[r] = {}

\* A worker that does not move keeps to it.
LEMMA AllowedElsewhere ==
    ASSUME AllowedAtSomeMoment, HistoryNext, NEW s \in Worker, request'[s] = request[s]
    PROVE  AllowedFor(s)'
<1>1. AllowedFor(s)
  BY DEF AllowedAtSomeMoment, AllowedFor
<1>2. SUFFICES ASSUME request[s].at \in {"act", "filter", "record"} PROVE AllowedFor(s)'
  BY DEF AllowedFor, At
<1>3. withheld'[s] \subseteq withheld[s]
  BY <1>2, WithheldShrinks
<1>4. QED
  BY <1>1, <1>3 DEF AllowedFor, At

\* A worker that moves acts on what its caller was entitled to.
LEMMA AllowedHere ==
    ASSUME IInv, HistoryNext, clock' = clock, NEW r \in Worker, NEW row,
           Turns(r, row), Course(r, row)
    PROVE  AllowedFor(r)'
<1>1. request'[r] = row /\ request[r].seen \in SUBSET SecretRow /\ row \in Serving
  BY TurnFacts, ServingFields DEF IInv, Turns
<1>2. AllowedFor(r)
  BY DEF IInv, AllowedAtSomeMoment, AllowedFor
<1>3. SUFFICES ASSUME row.at \in {"act", "filter", "record"} PROVE AllowedFor(r)'
  BY <1>1 DEF AllowedFor, At
<1>4. PICK q : q = request[r].req
  OBVIOUS
<1>5. /\ row.req = q /\ ~At(r, "idle") /\ q \in Requests
  BY <1>3, <1>4, IdleFields
     DEF Course, Passes, Records, GivesUp, Completes, Lists, Filters, At, IInv, Served
<1>6. withheld'[r] \subseteq withheld[r] /\ \A x \in withheld'[r] : ~Entitled(q, x)'
  BY <1>1, <1>3, <1>5, WithheldShrinks DEF At
<1>7. CASE Passes(r, row)
  <2>1. row.at = "act" /\ check(q) /\ (Leaves \/ Touches)
    BY <1>3, <1>4, <1>7 DEF Passes
  <2>2. Entitled(q, q.path)'
    BY <1>5, <2>1, GateEntitles
  <2>3. q.path \notin withheld'[r]
    BY <1>6, <2>2
  <2>4. QED
    BY <1>1, <1>5, <2>1, <2>3 DEF AllowedFor, At
<1>8. CASE Records(r, row) \/ Lists(r, row)
  <2>1. At(r, "act") /\ (row.at = "record" => row.seen = {})
    BY <1>8 DEF Records, Lists
  <2>2. q.path \notin withheld[r]
    BY <1>2, <1>4, <2>1 DEF AllowedFor, At
  <2>3. QED
    BY <1>1, <1>5, <1>6, <2>1, <2>2 DEF AllowedFor, At
<1>9. CASE Filters(r, row)
  <2>1. /\ At(r, "filter") /\ row.at = "record" /\ Leaves
        /\ \A x \in row.seen :
              evaluate(policies_for_token(q.caller.prefix), "list", x.path, x.tags)
    BY <1>4, <1>9 DEF Filters
  <2>2. q.path \notin withheld[r]
    BY <1>2, <1>4, <2>1 DEF AllowedFor, At
  <2>3. q.route = "list" /\ row.seen \in SUBSET SecretRow
    BY <1>1, <1>4, <2>1 DEF IInv, Served, At, Serving
  <2>4. ASSUME NEW x \in row.seen PROVE x.path \notin withheld'[r]
    <3>1. Entitled(q, x.path)'
      BY <1>5, <2>1, <2>3, FilterEntitles
    <3>2. QED
      BY <1>6, <3>1
  <2>5. QED
    BY <1>1, <1>5, <1>6, <2>1, <2>2, <2>4 DEF AllowedFor, At
<1>10. CASE GivesUp(r, row) \/ Completes(r, row)
  BY <1>3, <1>10, IdleFields DEF GivesUp, Completes
<1>11. QED
  BY <1>7, <1>8, <1>9, <1>10 DEF Course

-----------------------------------------------------------------------------
(* The steps of the system.                                                 *)

\* The pieces of the invariant make TypeOK.
LEMMA TypesFromPieces ==
    ASSUME AllTables, Served, Counts, clock \in 0..MaxClock, accepted \in 0..MaxRequests
    PROVE  TypeOK /\ Tables
<1>1. Tables
  BY DEF AllTables, Tables, TokenTable, SecretTable, PolicyTable
<1>2. audit \in 0..accepted
  <2>1. Cardinality(Busy) \in Nat
    BY WorkerAssumption, FS_Subset, FS_CardinalityType DEF Busy
  <2>2. QED
    BY <2>1, AccessBoundsAssumption DEF Counts
<1>3. \A r \in Worker : request[r].at \in Places
  BY ServingFields
<1>4. QED
  BY <1>1, <1>2, <1>3
     DEF AllTables, TypeOK, TokenTable, SecretTable, PolicyTable, Attachments, Ids

\* A worker takes a step.
LEMMA WorkerStep ==
    ASSUME IInv, HistoryNext, NEW r \in Worker, Step(r), accepted' = accepted
    PROVE  IInv'
<1>1. PICK row : Turns(r, row) /\ Course(r, row)
  BY StepShape
<1>2. clock' = clock
  BY StepShape
<1>3. AllTables /\ clock \in Nat
  BY TableFacts
<1>4. Effect
  BY <1>1 DEF Course, Passes, Records, GivesUp, Completes, Lists, Filters, Effect
<1>5. AllTables'
  BY <1>2, <1>3, <1>4, TablesKept
<1>6. Served'
  BY <1>1, CourseServed DEF IInv
<1>7. accepted \in Nat
  BY AccessBoundsAssumption DEF IInv, TypeOK
<1>8. Counts' /\ ChangesAreAccountedFor'
  BY <1>1, <1>3, <1>7, CountsKept DEF IInv
<1>9. ASSUME NEW s \in Worker PROVE AllowedFor(s)'
  <2>1. CASE s = r
    BY <1>1, <1>2, <2>1, AllowedHere
  <2>2. CASE s # r
    <3>1. request'[s] = request[s]
      BY <1>1, <2>2, TurnFacts DEF IInv
    <3>2. QED
      BY <3>1, AllowedElsewhere DEF IInv
  <2>3. QED
    BY <2>1, <2>2
<1>10. AllowedAtSomeMoment'
  BY <1>9 DEF AllowedAtSomeMoment, AllowedFor
<1>11. clock' \in 0..MaxClock /\ accepted' \in 0..MaxRequests
  BY <1>2 DEF IInv, TypeOK
<1>12. TypeOK' /\ Tables'
  <2>1. clock \in 0..MaxClock /\ accepted \in 0..MaxRequests
    BY DEF IInv, TypeOK
  <2>2. (AllTables /\ Served /\ Counts /\ clock \in 0..MaxClock /\ accepted \in 0..MaxRequests)'
    BY <1>5, <1>6, <1>8, <1>11
  <2>3. QED
    BY <2>2, TypesFromPieces, PTL
<1>13. GrantsOnlyAsIssued'
  BY <1>5 DEF AllTables
<1>14. QED
  BY <1>6, <1>8, <1>10, <1>12, <1>13 DEF IInv

\* A worker takes a request.
LEMMA AcceptStep ==
    ASSUME IInv, HistoryNext, NEW r \in Worker, NEW q \in Requests, accept(r, q)
    PROVE  IInv'
<1>1. PICK row : row = [at |-> "gate", req |-> q, seen |-> {}]
  OBVIOUS
<1>2. row \in Serving /\ row.at = "gate" /\ row.req = q /\ row.seen = {}
  BY <1>1 DEF Serving, Places
<1>3. Turns(r, row)
  BY <1>1, <1>2 DEF accept, Turns
<1>4. /\ At(r, "idle") /\ accepted' = accepted + 1 /\ accepted < MaxRequests
      /\ clock' = clock /\ failed' = failed /\ audit' = audit /\ Leaves
  BY DEF accept, tables, Leaves
<1>5. AllTables /\ clock \in Nat
  BY TableFacts
<1>6. AllTables'
  BY <1>4, <1>5, TablesKept DEF Effect
<1>7. Served'
  BY <1>2, <1>3, ServedKept DEF IInv
<1>8. accepted \in Nat
  BY AccessBoundsAssumption DEF IInv, TypeOK
<1>9. Counts' /\ ChangesAreAccountedFor'
  <2>1. Busy' = Busy \cup {r} /\ Recording' = Recording \ {r} /\ r \notin Busy /\ r \notin Recording
    BY <1>2, <1>3, <1>4, GroupsAfter DEF IInv, At
  <2>2. Busy \in SUBSET Worker /\ Recording' = Recording
    BY <2>1 DEF Busy
  <2>3. Cardinality(Busy') = Cardinality(Busy) + 1 /\ Cardinality(Busy) \in Nat
    BY <2>1, <2>2, Counting
  <2>4. changes' = changes
    BY <1>4, <1>5, ChangesAfter DEF IInv, Counts
  <2>5. Counts'
    BY <1>4, <1>8, <2>3, <2>4 DEF IInv, Counts
  <2>6. changes <= audit + failed + Cardinality(Recording)
    BY DEF IInv, ChangesAreAccountedFor, Recording
  <2>7. changes' <= audit' + failed' + Cardinality(Recording')
    BY <1>4, <2>2, <2>4, <2>6
  <2>8. QED
    BY <2>5, <2>7 DEF ChangesAreAccountedFor, Recording
<1>10. ASSUME NEW s \in Worker PROVE AllowedFor(s)'
  <2>1. request'[r] = row /\ (s # r => request'[s] = request[s])
    BY <1>3, TurnFacts DEF IInv
  <2>2. CASE s = r
    BY <1>2, <2>1, <2>2 DEF AllowedFor, At
  <2>3. CASE s # r
    BY <2>1, <2>3, AllowedElsewhere DEF IInv
  <2>4. QED
    BY <2>2, <2>3
<1>11. AllowedAtSomeMoment'
  BY <1>10 DEF AllowedAtSomeMoment, AllowedFor
<1>12. TypeOK' /\ Tables'
  <2>1. clock \in 0..MaxClock /\ accepted \in 0..MaxRequests
    BY DEF IInv, TypeOK
  <2>2. clock' \in 0..MaxClock /\ accepted' \in 0..MaxRequests
    BY <1>4, <1>8, <2>1, AccessBoundsAssumption
  <2>3. (AllTables /\ Served /\ Counts /\ clock \in 0..MaxClock /\ accepted \in 0..MaxRequests)'
    BY <1>6, <1>7, <1>9, <2>2
  <2>4. QED
    BY <2>3, TypesFromPieces, PTL
<1>13. GrantsOnlyAsIssued'
  BY <1>6 DEF AllTables
<1>14. QED
  BY <1>7, <1>9, <1>11, <1>12, <1>13 DEF IInv

\* Nothing moves, but the history is written: time passes, or a stutter.
LEMMA ClockStep ==
    ASSUME IInv, HistoryNext, Tick
    PROVE  IInv'
<1>1. /\ clock' = clock + 1 /\ clock < MaxClock /\ request' = request /\ accepted' = accepted
      /\ failed' = failed /\ audit' = audit /\ Leaves
  BY DEF Tick, tables, Leaves
<1>2. AllTables /\ clock \in Nat
  BY TableFacts
<1>3. AllTables'
  BY <1>1, <1>2, TablesKept
<1>4. Served'
  BY <1>1 DEF IInv, Served
<1>5. changes' = changes
  BY <1>1, <1>2, ChangesAfter DEF IInv, Counts
<1>6. Counts' /\ ChangesAreAccountedFor'
  BY <1>1, <1>5 DEF IInv, Counts, ChangesAreAccountedFor, Busy, At
<1>7. ASSUME NEW s \in Worker PROVE AllowedFor(s)'
  BY <1>1, AllowedElsewhere DEF IInv
<1>8. AllowedAtSomeMoment'
  BY <1>7 DEF AllowedAtSomeMoment, AllowedFor
<1>9. TypeOK' /\ Tables'
  <2>1. clock \in 0..MaxClock /\ accepted \in 0..MaxRequests
    BY DEF IInv, TypeOK
  <2>2. clock' \in 0..MaxClock /\ accepted' \in 0..MaxRequests
    BY <1>1, <1>2, <2>1, AccessBoundsAssumption
  <2>3. (AllTables /\ Served /\ Counts /\ clock \in 0..MaxClock /\ accepted \in 0..MaxRequests)'
    BY <1>3, <1>4, <1>6, <2>2
  <2>4. QED
    BY <2>3, TypesFromPieces, PTL
<1>10. GrantsOnlyAsIssued'
  BY <1>3 DEF AllTables
<1>11. QED
  BY <1>4, <1>6, <1>8, <1>9, <1>10 DEF IInv

\* The invariant does not depend on anything but the variables.
LEMMA StutterStep ==
    ASSUME IInv, UNCHANGED vars
    PROVE  IInv'
<1>1. /\ tokens' = tokens /\ policies' = policies /\ token_policies' = token_policies
      /\ secrets' = secrets /\ audit' = audit /\ clock' = clock /\ request' = request
      /\ accepted' = accepted /\ withheld' = withheld /\ issued' = issued
      /\ failed' = failed /\ changes' = changes
  BY DEF vars, tables, history
<1>2. TypeOK' /\ Served' /\ Tables'
  BY <1>1 DEF IInv, TypeOK, Served, Tables
<1>3. Counts' /\ ChangesAreAccountedFor'
  BY <1>1 DEF IInv, Counts, Busy, At, ChangesAreAccountedFor
<1>4. AllowedAtSomeMoment' /\ GrantsOnlyAsIssued'
  BY <1>1 DEF IInv, AllowedAtSomeMoment, At, GrantsOnlyAsIssued, policy_names_for_token
<1>5. QED
  BY <1>2, <1>3, <1>4 DEF IInv

\* It holds at the start.
LEMMA InitInv ==
    ASSUME Init
    PROVE  IInv
<1>1. /\ DOMAIN tokens = {RootToken, AppToken} /\ tokens \in [DOMAIN tokens -> TokenRow]
      /\ \A t \in DOMAIN tokens : tokens[t].expires_at = None /\ tokens[t].revoked_at = None
  <2>1. ASSUME NEW u \in Nat
        PROVE  /\ Fresh(u, None) \in TokenRow /\ Fresh(u, None).expires_at = None
               /\ Fresh(u, None).revoked_at = None
    BY <2>1 DEF Fresh, TokenRow
  <2>2. \A t \in {RootToken, AppToken} : (IF t = RootToken THEN 0 ELSE 1) \in Nat
    OBVIOUS
  <2>3. /\ DOMAIN tokens = {RootToken, AppToken}
        /\ \A t \in {RootToken, AppToken} :
              tokens[t] = Fresh(IF t = RootToken THEN 0 ELSE 1, None)
        /\ tokens = [t \in DOMAIN tokens |-> tokens[t]]
    BY DEF Init
  <2>4. \A t \in DOMAIN tokens : /\ tokens[t] \in TokenRow /\ tokens[t].expires_at = None
                                 /\ tokens[t].revoked_at = None
    BY <2>1, <2>2, <2>3
  <2>5. QED
    BY <2>3, <2>4
<1>2. /\ DOMAIN policies = {"root", "unrestricted", "app"}
      /\ policies["root"].id = 1 /\ policies["unrestricted"].id = 2 /\ policies["app"].id = 3
  BY DEF Init
<1>3. token_policies = {<<RootToken, 1>>, <<AppToken, 3>>}
  BY DEF Init
<1>4. TokenTable
  BY <1>1, TokenAssumption DEF TokenTable
<1>5. SecretTable
  <2>1. secrets = Stored
    BY DEF Init
  <2>2. \A s \in Summary : s.current \in BOOLEAN /\ s.tags \subseteq Tag
    BY DEF Summary
  <2>3. QED
    BY <2>1, <2>2, StoredAssumption DEF SecretTable
<1>6. PolicyTable
  <2>1. \A n \in DOMAIN policies : policies[n].id \in Nat /\ policies[n].id <= 3
    BY <1>2
  <2>2. \A m, n \in DOMAIN policies : policies[m].id = policies[n].id => m = n
    BY <1>2
  <2>3. QED
    BY <2>1, <2>2 DEF PolicyTable
<1>7. Attachments
  <2>1. 1 \in Ids /\ 3 \in Ids
    BY <1>2 DEF Ids
  <2>2. QED
    BY <1>1, <1>3, <2>1 DEF Attachments
<1>8. /\ DOMAIN issued = {RootToken, AppToken}
      /\ \A t \in DOMAIN issued : issued[t] = policy_names_for_token(t)
  BY DEF Init
<1>9. AllTables
  BY <1>1, <1>4, <1>5, <1>6, <1>7, <1>8 DEF AllTables, GrantsOnlyAsIssued
<1>10. /\ request = [w \in Worker |-> Idle] /\ clock = 0 /\ accepted = 0 /\ audit = 0
       /\ failed = 0 /\ changes = 0
  BY DEF Init
<1>11. \A r \in Worker : /\ request[r].at = "idle" /\ request[r].seen = {}
                         /\ request[r] \in Serving
  BY <1>10, IdleFields
<1>12. Served
  BY <1>10, <1>11 DEF Served
<1>13. Busy = {}
  BY <1>11 DEF Busy, At
<1>14. Counts
  BY <1>10, <1>13, FS_EmptySet DEF Counts
<1>15. {r \in Worker : At(r, "record")} = {}
  BY <1>11 DEF At
<1>16. ChangesAreAccountedFor
  BY <1>10, <1>15, FS_EmptySet DEF ChangesAreAccountedFor
<1>17. AllowedAtSomeMoment
  BY <1>11 DEF AllowedAtSomeMoment, At
<1>18. clock \in 0..MaxClock /\ accepted \in 0..MaxRequests
  BY <1>10, AccessBoundsAssumption
<1>19. TypeOK /\ Tables
  BY <1>9, <1>12, <1>14, <1>18, TypesFromPieces
<1>20. QED
  BY <1>9, <1>12, <1>14, <1>16, <1>17, <1>19 DEF IInv, AllTables

\* The inductive invariant: the tables, what every worker serves, the numbers
\* and the three properties of the handlers, for any tokens, policies and workers.
THEOREM Invariant == Spec => []IInv
<1>1. Init => IInv
  BY InitInv
<1>2. IInv /\ [Next]_vars => IInv'
  <2> SUFFICES ASSUME IInv, [Next]_vars PROVE IInv'
    OBVIOUS
  <2>1. CASE UNCHANGED vars
    BY <2>1, StutterStep
  <2>2. CASE Next
    BY <2>2, ClockStep, WorkerStep, AcceptStep DEF Next
  <2>3. QED
    BY <2>1, <2>2
<1>3. QED
  BY <1>1, <1>2, PTL DEF Spec

\* The tables keep their shape.
THEOREM TypeCorrect == Spec => []TypeOK
<1>1. IInv => TypeOK
  BY DEF IInv
<1>2. QED
  BY <1>1, Invariant, PTL

\* A request acts only on what its caller was entitled to at some moment after it
\* was sent, and a listing shows no path the policies kept from it all along.
THEOREM NoUnentitledAct == Spec => []AllowedAtSomeMoment
<1>1. IInv => AllowedAtSomeMoment
  BY DEF IInv
<1>2. QED
  BY <1>1, Invariant, PTL

\* No token ever carries a policy it was not issued with.
THEOREM NoGrantReturns == Spec => []GrantsOnlyAsIssued
<1>1. IInv => GrantsOnlyAsIssued
  BY DEF IInv
<1>2. QED
  BY <1>1, Invariant, PTL

\* No change to the tables goes unaccounted for.
THEOREM AuditAccounts == Spec => []ChangesAreAccountedFor
<1>1. IInv => ChangesAreAccountedFor
  BY DEF IInv
<1>2. QED
  BY <1>1, Invariant, PTL
-----------------------------------------------------------------------------
(* Refusals are final.                                                      *)

\* What may become of a token's row: it is used or revoked, once.
Ages(t) ==
    /\ t \in DOMAIN tokens'
    /\ tokens'[t].expires_at = tokens[t].expires_at
    /\ tokens'[t].bound_uid = tokens[t].bound_uid
    /\ tokens[t].revoked_at # None => tokens'[t].revoked_at = tokens[t].revoked_at

\* A caller its token does not authenticate now is never let in with it again,
\* while the clock does not go back.
RefusedForGood ==
    [][\A t \in DOMAIN tokens, caller \in Caller :
          /\ t \in DOMAIN tokens'
          /\ ~authenticate(tokens[t], caller, clock)
                => ~authenticate(tokens'[t], caller, clock')]_vars

\* Every effect on the tables lets tokens age, and nothing else.
LEMMA EffectAges ==
    ASSUME IInv, Effect, NEW t \in DOMAIN tokens
    PROVE  Ages(t)
<1>1. tokens \in [DOMAIN tokens -> TokenRow] /\ tokens[t] \in TokenRow
  BY DEF IInv, Tables
<1>2. CASE tokens' = tokens
  BY <1>2 DEF Ages
<1>3. CASE Touches
  <2>1. PICK u \in DOMAIN tokens : tokens' = [tokens EXCEPT ![u].used = TRUE]
    BY <1>3 DEF Touches, touch_token
  <2>2. /\ DOMAIN tokens' = DOMAIN tokens
        /\ tokens'[t] = IF t = u THEN [tokens[t] EXCEPT !.used = TRUE] ELSE tokens[t]
    BY <1>1, <2>1
  <2>3. QED
    BY <1>1, <2>2 DEF Ages, TokenRow
<1>4. CASE Revokes
  <2>1. PICK u \in DOMAIN tokens :
           tokens' = [tokens EXCEPT ![u].revoked_at =
                         IF tokens[u].revoked_at = None THEN clock ELSE tokens[u].revoked_at]
    BY <1>4 DEF Revokes, revoke_token
  <2>2. PICK at : at = IF tokens[u].revoked_at = None THEN clock ELSE tokens[u].revoked_at
    OBVIOUS
  <2>3. /\ DOMAIN tokens' = DOMAIN tokens
        /\ tokens'[t] = IF t = u THEN [tokens[t] EXCEPT !.revoked_at = at] ELSE tokens[t]
    BY <1>1, <2>1, <2>2
  <2>4. QED
    BY <1>1, <2>2, <2>3 DEF Ages, TokenRow
<1>5. CASE Creates
  <2>1. PICK u, row : u \notin DOMAIN tokens /\ tokens' = Put(tokens, u, row)
    BY <1>5, Zenon DEF Creates, create_token
  <2>2. t \in DOMAIN tokens' /\ tokens'[t] = tokens[t]
    BY <2>1 DEF Put
  <2>3. QED
    BY <2>2 DEF Ages
<1>6. QED
  BY <1>2, <1>3, <1>4, <1>5
     DEF Effect, Leaves, Stores, PutsPolicy, DeletesPolicy

\* A token that has aged lets no one in whom it kept out.
LEMMA AgedKeepsOut ==
    ASSUME NEW row \in TokenRow, NEW aged, NEW caller, NEW now \in Nat, NEW later \in Nat,
           now <= later,
           aged.expires_at = row.expires_at, aged.bound_uid = row.bound_uid,
           row.revoked_at # None => aged.revoked_at = row.revoked_at,
           ~authenticate(row, caller, now)
    PROVE  ~authenticate(aged, caller, later)
<1>1. \A x \in Nat \cup {None} : Past(x, now) => Past(x, later)
  BY NoneAssumption DEF Past
<1>2. row.expires_at \in Nat \cup {None} /\ row.revoked_at \in Nat \cup {None}
  BY DEF TokenRow
<1>3. Past(row.revoked_at, now) => Past(aged.revoked_at, later)
  BY <1>1, <1>2 DEF Past
<1>4. Past(row.expires_at, now) => Past(aged.expires_at, later)
  BY <1>1, <1>2
<1>5. QED
  BY <1>3, <1>4, Zenon DEF authenticate

\* A token that was revoked (tokens.rs:148), has expired or is bound to another
\* uid never authenticates that caller again, whatever else is served.
THEOREM RefusalIsFinal == Spec => RefusedForGood
<1>1. ASSUME IInv, Next
      PROVE  clock' \in {clock, clock + 1} /\ \A t \in DOMAIN tokens : Ages(t)
  <2>1. CASE Tick
    BY <2>1 DEF Tick, tables, Ages
  <2>2. ASSUME NEW r \in Worker, NEW q \in Requests, accept(r, q)
        PROVE  clock' = clock /\ \A t \in DOMAIN tokens : Ages(t)
    BY <2>2 DEF accept, tables, Ages
  <2>3. ASSUME NEW r \in Worker, Step(r)
        PROVE  clock' = clock /\ \A t \in DOMAIN tokens : Ages(t)
    <3>1. PICK row : Course(r, row)
      BY <1>1, <2>3, StepShape
    <3>2. Effect
      BY <3>1 DEF Course, Passes, Records, GivesUp, Completes, Lists, Filters, Effect
    <3>3. QED
      BY <1>1, <2>3, <3>2, StepShape, EffectAges
  <2>4. QED
    BY <1>1, <2>1, <2>2, <2>3 DEF Next
<1>2. ASSUME IInv, Next, NEW t \in DOMAIN tokens, NEW caller \in Caller
      PROVE  /\ t \in DOMAIN tokens'
             /\ ~authenticate(tokens[t], caller, clock)
                   => ~authenticate(tokens'[t], caller, clock')
  <2>1. tokens[t] \in TokenRow /\ clock \in Nat
    BY <1>2, TableFacts DEF IInv, Tables
  <2>2. Ages(t) /\ clock' \in Nat /\ clock <= clock'
    BY <1>1, <1>2, <2>1
  <2>3. QED
    BY <2>1, <2>2, AgedKeepsOut DEF Ages
<1>3. IInv /\ [Next]_vars =>
        [\A t \in DOMAIN tokens, caller \in Caller :
            /\ t \in DOMAIN tokens'
            /\ ~authenticate(tokens[t], caller, clock)
                  => ~authenticate(tokens'[t], caller, clock')]_vars
  BY <1>2
<1>4. QED
  BY Invariant, <1>3, PTL DEF Spec, RefusedForGood
=============================================================================
