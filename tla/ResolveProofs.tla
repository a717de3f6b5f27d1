--------------------------- MODULE ResolveProofs ----------------------------
(***************************************************************************)
(* Proofs about Resolve: for any number of callers, any paths, policies,   *)
(* profiles and bounds.                                                    *)
(*                                                                         *)
(* Everything a caller is promised depends on its own exchange, its audit  *)
(* entries, its child and the moments it saw; what others do can only add  *)
(* moments.  So the invariant is one predicate per caller, and a step has  *)
(* to establish it for the caller that moves.                              *)
(***************************************************************************)
EXTENDS Resolve, WellFoundedInduction, FiniteSetTheorems, SequenceTheorems, TLAPS

Place == {"new", "request", "line", "gate", "path", "fetch", "answering", "refusing", "list",
          "closed", "failed", "started"}
Call == [at : Place, via : {None, "socket", "exec"}, token : Token \cup {None},
         left : 0..MaxPaths, from : Seq(SUBSET Path), mapped : Seq(Binding),
         targets : Seq(Target), resolved : Seq(Item), sent : Nat]
Seen == [readable : SUBSET Path, current : SUBSET Item]

\* What an exchange has in hand, at every stage.
Stage(k) ==
    /\ k.at \in {"request", "line"} => k.via = "socket"
    /\ k.at = "line" => k.left >= 1
    /\ k.at \in {"new", "request", "list"} => k.targets = <<>>
    /\ k.at \in {"new", "request", "line", "list", "gate"} => k.resolved = <<>>
    /\ k.at \in {"new", "request", "line", "list", "gate", "path", "fetch"} => k.sent = 0
    /\ k.sent <= Len(k.resolved) /\ Len(k.resolved) <= Len(k.targets)
    /\ k.at = "fetch" => Len(k.resolved) < Len(k.targets)
    /\ k.at \in {"answering", "started"} \/ k.sent > 0 => Len(k.resolved) = Len(k.targets)
    /\ k.at \in {"gate", "path", "fetch", "answering"} /\ k.via = "exec" =>
          check_no_duplicate_env_names(k.mapped)
    /\ k.via = "exec" => \A i \in 1..Len(k.targets) : k.targets[i].version = 0

\* An item answers its target by what was so at the moments seen.
Answered(item, target, seen) ==
    /\ item.path = target.path
    /\ item.path \in seen.readable
    /\ IF target.version = 0 THEN item \in seen.current ELSE item.version = target.version

Found(k, seen) ==
    /\ \A i \in 1..Len(k.resolved) : Answered(k.resolved[i], k.targets[i], seen)
    /\ k.at = "fetch" => k.targets[Len(k.resolved) + 1].path \in seen.readable

Noted(k, entries) ==
    (k.at \in {"answering", "started"} \/ k.sent > 0) /\ k.targets # <<>> => "resolve" \in entries

Fits(k, env, seen) ==
    /\ \A i \in DOMAIN k.mapped :
          LET b == k.mapped[i]
          IN  /\ b.name \in DOMAIN env
              /\ env[b.name].path = b.path
              /\ env[b.name] \in seen.current
              /\ b.version \in {0, env[b.name].version}
    /\ \A n \in DOMAIN env \ {b.name : b \in ToSet(k.mapped)} :
          env[n] = Parent[n] /\ env[n] # k.token

Sound(k, seen, entries, env) ==
    /\ Stage(k) /\ Found(k, seen) /\ Noted(k, entries)
    /\ k.at = "started" => Fits(k, env, seen)

\* The tables the others change.
Store == /\ active \in [Path -> SUBSET Version]
         /\ highest \in [Path -> Version]
         /\ current \in [Path -> 0..MaxVersion]
         /\ policy \in Policies /\ revoked \in BOOLEAN /\ changed \in 0..MaxChanges

Exchanges == /\ call \in [Caller -> Call]
             /\ trace \in [Caller -> SUBSET {"denied", "resolve"}]
             /\ moments \in [Caller -> Seen]
             /\ DOMAIN child = Caller

IInv == /\ Store /\ Exchanges
        /\ \A c \in Caller : Sound(call[c], moments[c], trace[c], child[c])
-----------------------------------------------------------------------------
(* Sets of numbers.                                                         *)

\* A set of naturals that is not empty has a least element.
LEMMA LeastNat ==
    ASSUME NEW S, S \subseteq Nat, S # {}
    PROVE  \E x \in S : \A y \in S : x <= y
<1>1. PICK x \in S : \A y \in S : ~(<<y, x>> \in OpToRel(<, Nat))
  BY NatLessThanWellFounded, WFMin, Zenon
<1>2. \A y \in S : <<y, x>> \in Nat \X Nat
  OBVIOUS
<1>3. \A y \in S : ~(y < x)
  BY <1>1, <1>2, Zenon DEF OpToRel
<1>4. QED
  BY <1>3

\* A bounded one has a greatest element: the least distance to the bound.
LEMMA GreatestNat ==
    ASSUME NEW S, NEW n \in Nat, S \subseteq 0..n, S # {}
    PROVE  \E x \in S : \A y \in S : y <= x
<1>1. \A x \in S : x \in Nat /\ n - x \in Nat
  OBVIOUS
<1>2. PICK t \in {n - x : x \in S} : \A u \in {n - x : x \in S} : t <= u
  <2>1. {n - x : x \in S} \subseteq Nat /\ {n - x : x \in S} # {}
    BY <1>1, Zenon
  <2>2. QED
    BY <2>1, LeastNat, Zenon
<1>3. PICK x \in S : t = n - x
  BY Zenon
<1>4. \A y \in S : n - x <= n - y
  BY <1>2, <1>3, Zenon
<1>5. QED
  BY <1>1, <1>4
-----------------------------------------------------------------------------
(* What the others do.                                                      *)

\* Each of their steps keeps the tables in order.
LEMMA StoreKept ==
    ASSUME Store, Change \/ UNCHANGED others
    PROVE  Store'
<1>1. CASE UNCHANGED others
  BY <1>1 DEF others, store, Store
<1>2. ASSUME NEW p \in Path, write(p) PROVE Store'
  <2>1. highest[p] + 1 \in Version /\ highest'[p] = highest[p] + 1
    BY <1>2, ResolveBoundsAssumption DEF write, Store, Version
  <2>2. highest' \in [Path -> Version]
    BY <1>2, <2>1 DEF write, Store
  <2>3. active' \in [Path -> SUBSET Version]
    BY <1>2, <2>1 DEF write, Store
  <2>4. current' \in [Path -> 0..MaxVersion]
    BY <1>2, <2>1, ResolveBoundsAssumption DEF write, Store, Version
  <2>5. changed' \in 0..MaxChanges /\ policy' = policy /\ revoked' = revoked
    BY <1>2, ResolveBoundsAssumption DEF write, Changes, Store
  <2>6. QED
    BY <2>2, <2>3, <2>4, <2>5 DEF Store
<1>3. ASSUME NEW p \in Path, NEW v \in Version, rollback(p, v) PROVE Store'
  <2>1. v \in 0..MaxVersion
    BY ResolveBoundsAssumption DEF Version
  <2>2. changed' \in 0..MaxChanges
    BY <1>3, ResolveBoundsAssumption DEF rollback, Changes, Store
  <2>3. QED
    BY <1>3, <2>1, <2>2 DEF rollback, Store
<1>4. ASSUME NEW p \in Path, NEW v \in Version, delete(p, v) PROVE Store'
  <2>1. PICK left : left = active[p] \ {v}
    OBVIOUS
  <2>2. left \subseteq Version /\ active' = [active EXCEPT ![p] = left] /\ active'[p] = left
    BY <1>4, <2>1 DEF delete, Store
  <2>3. left # {} => Max(left) \in 0..MaxVersion
    <3> SUFFICES ASSUME left # {} PROVE Max(left) \in 0..MaxVersion
      OBVIOUS
    <3>1. left \subseteq 0..MaxVersion
      BY <2>2, ResolveBoundsAssumption DEF Version
    <3>2. \E x \in left : \A y \in left : y <= x
      BY <3>1, GreatestNat, ResolveBoundsAssumption
    <3>3. \A x, y \in left : y <= x <=> x >= y
      BY <3>1
    <3>4. \E x \in left : \A y \in left : x >= y
      BY <3>2, <3>3
    <3>5. Max(left) \in left
      BY <3>4 DEF Max
    <3>6. QED
      BY <3>1, <3>5
  <2>4. PICK n : n = IF left = {} THEN 0 ELSE Max(left)
    OBVIOUS
  <2>5. n \in 0..MaxVersion
    BY <2>3, <2>4, ResolveBoundsAssumption
  <2>6. current' = [current EXCEPT ![p] = n]
    BY <1>4, <2>2, <2>4 DEF delete
  <2>7. changed' \in 0..MaxChanges /\ highest' = highest /\ policy' = policy /\ revoked' = revoked
    BY <1>4, ResolveBoundsAssumption DEF delete, Changes, Store
  <2>8. active' \in [Path -> SUBSET Version] /\ current' \in [Path -> 0..MaxVersion]
    BY <2>2, <2>5, <2>6 DEF Store
  <2>9. QED
    BY <2>7, <2>8 DEF Store
<1>5. ASSUME NEW g \in Policies, policy_put(g) PROVE Store'
  BY <1>5, ResolveBoundsAssumption DEF policy_put, Changes, store, Store
<1>6. CASE token_revoke
  BY <1>6, ResolveBoundsAssumption DEF token_revoke, Changes, store, Store
<1>7. QED
  BY <1>1, <1>2, <1>3, <1>4, <1>5, <1>6 DEF Change

\* What is readable and current is always of paths and items.
LEMMA NowFacts ==
    ASSUME Store
    PROVE  Readable \in SUBSET Path /\ Current \in SUBSET Item
<1>1. policy \in Policies
  BY DEF Store
<1>2. policy \in [anywhere : SUBSET {"read", "list"}, read : SUBSET Path, list : SUBSET Path]
  BY <1>1, PolicyAssumption
<1>3. Readable \in SUBSET Path
  BY <1>2 DEF Readable
<1>4. ASSUME NEW p \in Path, current[p] # 0
      PROVE  [path |-> p, version |-> current[p]] \in Item
  <2>1. current[p] \in Version
    BY <1>4, ResolveBoundsAssumption DEF Store, Version
  <2>2. QED
    BY <2>1 DEF Item
<1>5. Current \in SUBSET Item
  BY <1>4, Zenon DEF Current
<1>6. QED
  BY <1>3, <1>5

\* One record of moments holds at least those of another.
Wider(m, n) == m.readable \subseteq n.readable /\ m.current \subseteq n.current

\* Moments are only added, and a batch under way adds this one.
LEMMA MomentsGrow ==
    ASSUME Exchanges, Store', Observe
    PROVE  /\ moments' \in [Caller -> Seen]
           /\ \A c \in Caller : Wider(moments[c], moments'[c])
           /\ \A c \in Caller : Resolving(c) => /\ Readable' \subseteq moments'[c].readable
                                                /\ Current' \subseteq moments'[c].current
<1>0. Store'
  OBVIOUS
<1>1. (Readable \in SUBSET Path /\ Current \in SUBSET Item)'
  BY <1>0, NowFacts, PTL
<1>2. ASSUME NEW c \in Caller
      PROVE  /\ moments'[c] \in Seen /\ Wider(moments[c], moments'[c])
             /\ Resolving(c) => /\ Readable' \subseteq moments'[c].readable
                                /\ Current' \subseteq moments'[c].current
  <2>1. moments[c] \in Seen
    BY DEF Exchanges
  <2>2. CASE Resolving(c)
    <3>1. PICK m : m = [readable |-> moments[c].readable \cup Readable',
                        current |-> moments[c].current \cup Current']
      OBVIOUS
    <3>2. moments'[c] = m
      BY <2>2, <3>1 DEF Observe
    <3>3. m.readable = moments[c].readable \cup Readable' /\ m.current = moments[c].current \cup Current'
      BY <3>1
    <3>4. m \in Seen
      BY <1>1, <2>1, <3>1 DEF Seen
    <3>5. QED
      BY <3>2, <3>3, <3>4 DEF Wider
  <2>3. CASE ~Resolving(c)
    BY <2>1, <2>3 DEF Observe, Wider
  <2>4. QED
    BY <2>2, <2>3
<1>3. moments' \in [Caller -> Seen]
  <2>1. DOMAIN moments' = Caller /\ moments' = [c \in Caller |-> moments'[c]]
    BY DEF Observe
  <2>2. QED
    BY <1>2, <2>1
<1>4. QED
  BY <1>2, <1>3

\* More moments never take an answer back.
LEMMA WiderKeeps ==
    ASSUME NEW k, NEW m, NEW n, NEW entries, NEW env, Wider(m, n), Sound(k, m, entries, env)
    PROVE  Sound(k, n, entries, env)
  BY DEF Wider, Sound, Found, Answered, Fits
-----------------------------------------------------------------------------
(* The turn of one caller.                                                  *)

Turn(c, k) == /\ k \in Call /\ Becomes(c, k)
              /\ Sound(k, moments'[c], trace'[c], child'[c])
Elsewhere(c) == /\ trace' \in [Caller -> SUBSET {"denied", "resolve"}]
                /\ DOMAIN child' = Caller
                /\ \A d \in Caller : d # c => trace'[d] = trace[d] /\ child'[d] = child[d]

\* It is enough that the caller that moves is in order.
LEMMA OneTurn ==
    ASSUME IInv, Observe, UNCHANGED others, NEW c \in Caller, NEW k, Turn(c, k), Elsewhere(c)
    PROVE  IInv'
<1>1. Store' /\ Exchanges
  BY StoreKept DEF IInv
<1>2. /\ moments' \in [Caller -> Seen]
      /\ \A d \in Caller : Wider(moments[d], moments'[d])
  BY <1>1, MomentsGrow
<1>3. call' \in [Caller -> Call] /\ call'[c] = k /\ \A d \in Caller : d # c => call'[d] = call[d]
  BY <1>1 DEF Exchanges, Turn, Becomes
<1>4. ASSUME NEW d \in Caller PROVE Sound(call'[d], moments'[d], trace'[d], child'[d])
  <2>1. CASE d = c
    BY <1>3, <2>1 DEF Turn
  <2>2. CASE d # c
    <3>1. Sound(call[d], moments[d], trace[d], child[d])
      BY DEF IInv
    <3>2. Sound(call[d], moments'[d], trace[d], child[d])
      BY <1>2, <3>1, WiderKeeps
    <3>3. QED
      BY <1>3, <2>2, <3>2 DEF Elsewhere
  <2>3. QED
    BY <2>1, <2>2
<1>5. Exchanges'
  BY <1>2, <1>3 DEF Exchanges, Elsewhere
<1>6. QED
  BY <1>1, <1>4, <1>5 DEF IInv

\* The steps of the others leave every caller in order.
LEMMA OthersStep ==
    ASSUME IInv, Observe, Change
    PROVE  IInv'
<1>1. Store' /\ Exchanges
  BY StoreKept DEF IInv
<1>2. /\ moments' \in [Caller -> Seen]
      /\ \A d \in Caller : Wider(moments[d], moments'[d])
  BY <1>1, MomentsGrow
<1>3. call' = call /\ trace' = trace /\ child' = child
  BY DEF Change, write, rollback, delete, policy_put, token_revoke, Changes
<1>4. ASSUME NEW d \in Caller PROVE Sound(call'[d], moments'[d], trace'[d], child'[d])
  BY <1>2, <1>3, WiderKeeps DEF IInv
<1>5. Exchanges'
  BY <1>1, <1>2, <1>3 DEF Exchanges
<1>6. QED
  BY <1>1, <1>4, <1>5 DEF IInv

\* A caller in order.
LEMMA CallerFacts ==
    ASSUME IInv, NEW c \in Caller
    PROVE  /\ call[c] \in Call /\ trace[c] \in SUBSET {"denied", "resolve"}
           /\ Sound(call[c], moments[c], trace[c], child[c])
  BY DEF IInv, Exchanges

\* What of it is left alone.
LEMMA Untouched ==
    ASSUME IInv, NEW c \in Caller
    PROVE  /\ trace' = trace /\ child' = child => Elsewhere(c)
           /\ record_denial(c) /\ child' = child =>
                 Elsewhere(c) /\ trace[c] \subseteq trace'[c]
<1>1. CASE trace' = trace /\ child' = child
  BY <1>1 DEF IInv, Exchanges, Elsewhere
<1>2. CASE trace' = [trace EXCEPT ![c] = @ \cup {"denied"}] /\ child' = child
  BY <1>2 DEF IInv, Exchanges, Elsewhere
<1>3. QED
  BY <1>1, <1>2 DEF record_denial

\* An exchange that is over, or about to be refused, keeps what it had.
LEMMA Leaves ==
    ASSUME IInv, Observe, UNCHANGED others, child' = child, NEW c \in Caller,
           NEW place \in {"closed", "failed", "refusing"}, GoesTo(c, place),
           trace' = trace \/ record_denial(c)
    PROVE  IInv'
<1>1. /\ call[c] \in Call /\ Sound(call[c], moments[c], trace[c], child[c])
  BY CallerFacts
<1>2. Elsewhere(c) /\ trace[c] \subseteq trace'[c]
  BY Untouched
<1>3. PICK k : k = [call[c] EXCEPT !.at = place]
  OBVIOUS
<1>4. k \in Call
  BY <1>1, <1>3 DEF Call, Place
<1>5. /\ k.at = place /\ k.via = call[c].via /\ k.token = call[c].token /\ k.left = call[c].left
      /\ k.mapped = call[c].mapped /\ k.targets = call[c].targets
      /\ k.resolved = call[c].resolved /\ k.sent = call[c].sent
  BY <1>1, <1>3 DEF Call
<1>6. Becomes(c, k)
  BY <1>3 DEF GoesTo
<1>7. Store' /\ Exchanges
  BY StoreKept DEF IInv
<1>8. Sound(k, moments[c], trace'[c], child'[c])
  BY <1>1, <1>2, <1>5 DEF Sound, Stage, Found, Noted
<1>9. Wider(moments[c], moments'[c])
  BY <1>7, MomentsGrow
<1>10. Sound(k, moments'[c], trace'[c], child'[c])
  BY <1>8, <1>9, WiderKeeps
<1>11. QED
  BY <1>2, <1>4, <1>6, <1>10, OneTurn DEF Turn

\* An exchange that goes on to a place, all else the same.
Moved(c, k, place) ==
    /\ k \in Call /\ Becomes(c, k) /\ k.at = place /\ k.via = call[c].via
    /\ k.token = call[c].token /\ k.mapped = call[c].mapped /\ k.targets = call[c].targets
    /\ k.resolved = call[c].resolved /\ k.sent = call[c].sent

\* GoesTo does that.
LEMMA GoesOn ==
    ASSUME IInv, NEW c \in Caller, NEW place \in Place, GoesTo(c, place)
    PROVE  \E k : Moved(c, k, place)
<1>1. call[c] \in Call
  BY CallerFacts
<1>2. PICK k : k = [call[c] EXCEPT !.at = place]
  OBVIOUS
<1>3. k \in Call
  BY <1>1, <1>2 DEF Call
<1>4. /\ k.at = place /\ k.via = call[c].via /\ k.token = call[c].token
      /\ k.mapped = call[c].mapped /\ k.targets = call[c].targets
      /\ k.resolved = call[c].resolved /\ k.sent = call[c].sent
  BY <1>1, <1>2 DEF Call
<1>5. Becomes(c, k)
  BY <1>2 DEF GoesTo
<1>6. QED
  BY <1>3, <1>4, <1>5 DEF Moved

\* What a batch under way sees of this moment.
LEMMA SeesNow ==
    ASSUME IInv, Observe, UNCHANGED others, NEW c \in Caller, NEW k, Becomes(c, k),
           k.at \in {"gate", "path", "fetch", "answering"}, ~At(c, "answering")
    PROVE  /\ Wider(moments[c], moments'[c])
           /\ Readable \subseteq moments'[c].readable
           /\ Current \subseteq moments'[c].current
<1>1. Store' /\ Exchanges
  BY StoreKept DEF IInv
<1>2. Readable' = Readable /\ Current' = Current
  BY DEF others, store, Readable, Current
<1>3. call'[c] = k
  BY <1>1 DEF Exchanges, Becomes
<1>4. Resolving(c)
  BY <1>3 DEF Resolving
<1>5. QED
  BY <1>1, <1>2, <1>4, MomentsGrow

\* Moments grow whatever the step.
LEMMA SeesMore ==
    ASSUME IInv, Observe, UNCHANGED others, NEW c \in Caller
    PROVE  Wider(moments[c], moments'[c])
<1>1. Store' /\ Exchanges
  BY StoreKept DEF IInv
<1>2. QED
  BY <1>1, MomentsGrow

\* A caller that moves on in order with its own entries and child as they were.
LEMMA TurnAlone ==
    ASSUME IInv, Observe, UNCHANGED others, trace' = trace, child' = child, NEW c \in Caller,
           NEW k \in Call, Becomes(c, k), k.at # "started",
           Stage(k), Found(k, moments'[c]), Noted(k, trace[c])
    PROVE  IInv'
<1>1. Elsewhere(c)
  BY Untouched
<1>2. Turn(c, k)
  BY DEF Turn, Sound
<1>3. QED
  BY <1>1, <1>2, OneTurn

\* The connection is accepted.
LEMMA AcceptStep ==
    ASSUME IInv, Observe, NEW c \in Caller, accept(c)
    PROVE  IInv'
<1>1. /\ call[c] \in Call /\ Sound(call[c], moments[c], trace[c], child[c])
  BY CallerFacts
<1>2. At(c, "new") /\ UNCHANGED others /\ trace' = trace /\ child' = child
  BY DEF accept, OnlyCall
<1>3. PICK k : k = [call[c] EXCEPT !.at = "request", !.via = "socket"]
  OBVIOUS
<1>4. k \in Call
  BY <1>1, <1>3 DEF Call, Place
<1>5. /\ k.at = "request" /\ k.via = "socket" /\ k.targets = call[c].targets
      /\ k.resolved = call[c].resolved /\ k.sent = call[c].sent
  BY <1>1, <1>3 DEF Call
<1>6. Becomes(c, k)
  BY <1>3 DEF accept
<1>7. /\ call[c].targets = <<>> /\ call[c].resolved = <<>> /\ call[c].sent = 0
  BY <1>1, <1>2 DEF Sound, Stage, At
<1>8. Stage(k) /\ Found(k, moments'[c]) /\ Noted(k, trace[c])
  BY <1>5, <1>7, EmptySeq DEF Stage, Found, Noted
<1>9. QED
  BY <1>2, <1>4, <1>5, <1>6, <1>8, TurnAlone

\* A batch begins with nothing resolved.
LEMMA BeginStep ==
    ASSUME IInv, Observe, UNCHANGED others, trace' = trace, child' = child, NEW c \in Caller,
           NEW t \in Token \cup {None}, NEW batch \in Seq(Target), Begins(c, t, batch),
           call[c].resolved = <<>>, call[c].sent = 0,
           call[c].via = "exec" => /\ check_no_duplicate_env_names(call[c].mapped)
                                   /\ \A i \in 1..Len(batch) : batch[i].version = 0
    PROVE  IInv'
<1>1. call[c] \in Call
  BY CallerFacts
<1>2. PICK k : k = [call[c] EXCEPT !.at = "gate", !.token = t, !.left = 0, !.targets = batch]
  OBVIOUS
<1>3. k \in Call
  <2>1. 0 \in 0..MaxPaths /\ "gate" \in Place
    BY ResolveBoundsAssumption DEF Place
  <2>2. QED
    BY <1>1, <1>2, <2>1 DEF Call
<1>4. /\ k.at = "gate" /\ k.via = call[c].via /\ k.targets = batch /\ k.mapped = call[c].mapped
      /\ k.resolved = call[c].resolved /\ k.sent = call[c].sent
  BY <1>1, <1>2 DEF Call
<1>5. Becomes(c, k)
  BY <1>2 DEF Begins
<1>6. Len(batch) \in Nat
  OBVIOUS
<1>7. Stage(k) /\ Found(k, moments'[c]) /\ Noted(k, trace[c])
  BY <1>4, <1>6, EmptySeq DEF Stage, Found, Noted
<1>8. QED
  BY <1>3, <1>4, <1>5, <1>7, TurnAlone

\* The parser.
LEMMA ParserStep ==
    ASSUME IInv, Observe, NEW c \in Caller,
           \/ \E t \in Token, n \in 0..(MaxPaths + 1) : read_request(c, t, n)
           \/ \E target \in Target : read_target(c, target)
    PROVE  IInv'
<1>1. /\ call[c] \in Call /\ Sound(call[c], moments[c], trace[c], child[c])
  BY CallerFacts
<1>2. ASSUME NEW t \in Token, NEW n \in 0..(MaxPaths + 1), read_request(c, t, n) PROVE IInv'
  <2>1. /\ At(c, "request") /\ n <= MaxPaths /\ UNCHANGED others /\ trace' = trace
        /\ child' = child
    BY <1>2 DEF read_request, OnlyCall
  <2>2. /\ call[c].targets = <<>> /\ call[c].resolved = <<>> /\ call[c].sent = 0
        /\ call[c].via = "socket"
    BY <1>1, <2>1 DEF Sound, Stage, At
  <2>3. CASE n = 0
    <3>1. Begins(c, t, <<>>)
      BY <1>2, <2>3 DEF read_request
    <3>2. <<>> \in Seq(Target)
      BY EmptySeq
    <3>3. QED
      BY <2>1, <2>2, <3>1, <3>2, BeginStep
  <2>4. CASE n # 0
    <3>1. PICK k : k = [call[c] EXCEPT !.at = "line", !.token = t, !.left = n]
      OBVIOUS
    <3>2. n \in 0..MaxPaths /\ n >= 1
      BY <2>1, <2>4, ResolveBoundsAssumption
    <3>3. k \in Call
      BY <1>1, <3>1, <3>2 DEF Call, Place
    <3>4. /\ k.at = "line" /\ k.via = call[c].via /\ k.targets = call[c].targets /\ k.left = n
          /\ k.resolved = call[c].resolved /\ k.sent = call[c].sent
      BY <1>1, <3>1 DEF Call
    <3>5. Becomes(c, k)
      BY <1>2, <2>4, <3>1 DEF read_request
    <3>6. Stage(k) /\ Found(k, moments'[c]) /\ Noted(k, trace[c])
      BY <2>2, <3>2, <3>4, EmptySeq DEF Stage, Found, Noted
    <3>7. QED
      BY <2>1, <3>3, <3>4, <3>5, <3>6, TurnAlone
  <2>5. QED
    BY <2>3, <2>4
<1>3. ASSUME NEW target \in Target, read_target(c, target) PROVE IInv'
  <2>1. At(c, "line") /\ UNCHANGED others /\ trace' = trace /\ child' = child
    BY <1>3 DEF read_target, OnlyCall
  <2>2. /\ call[c].resolved = <<>> /\ call[c].sent = 0 /\ call[c].left >= 1
        /\ call[c].via = "socket"
    BY <1>1, <2>1 DEF Sound, Stage, At
  <2>3. call[c].targets \in Seq(Target) /\ call[c].left \in 0..MaxPaths
        /\ call[c].token \in Token \cup {None}
    BY <1>1 DEF Call
  <2>4. PICK batch : batch = Append(call[c].targets, target)
    OBVIOUS
  <2>5. batch \in Seq(Target) /\ Len(batch) \in Nat
    BY <2>3, <2>4
  <2>6. CASE call[c].left = 1
    <3>1. Begins(c, call[c].token, batch)
      BY <1>3, <2>4, <2>6 DEF read_target
    <3>2. QED
      BY <2>1, <2>2, <2>3, <2>5, <3>1, BeginStep
  <2>7. CASE call[c].left # 1
    <3>1. PICK l : l = call[c].left - 1
      OBVIOUS
    <3>2. l \in 0..MaxPaths /\ l >= 1
      BY <2>2, <2>3, <2>7, <3>1, ResolveBoundsAssumption
    <3>3. PICK k : k = [call[c] EXCEPT !.left = l, !.targets = batch]
      OBVIOUS
    <3>4. k \in Call
      BY <1>1, <2>5, <3>2, <3>3 DEF Call
    <3>5. /\ k.at = call[c].at /\ k.via = call[c].via /\ k.targets = batch /\ k.left = l
          /\ k.resolved = call[c].resolved /\ k.sent = call[c].sent
      BY <1>1, <3>3 DEF Call
    <3>6. Becomes(c, k)
      BY <1>3, <2>4, <2>7, <3>1, <3>3 DEF read_target
    <3>7. Stage(k) /\ Found(k, moments'[c]) /\ Noted(k, trace[c])
      BY <2>1, <2>2, <2>5, <3>2, <3>5, EmptySeq DEF Stage, Found, Noted, At
    <3>8. QED
      BY <2>1, <3>4, <3>5, <3>6, <3>7, TurnAlone DEF At
  <2>8. QED
    BY <2>6, <2>7
<1>4. QED
  BY <1>2, <1>3

\* The gates of the batch and of its paths.
LEMMA GateStep ==
    ASSUME IInv, Observe, NEW c \in Caller, authorize_batch(c) \/ authorize_path(c)
    PROVE  IInv'
<1>1. /\ call[c] \in Call /\ Sound(call[c], moments[c], trace[c], child[c])
  BY CallerFacts
<1>2. UNCHANGED others /\ child' = child
  BY DEF authorize_batch, authorize_path, Keeps
<1>3. Refused(c) \in {"closed", "failed", "refusing"} /\ {"path", "fetch"} \subseteq Place
  BY DEF Refused, Place
<1>4. CASE GoesTo(c, Refused(c)) /\ record_denial(c)
  BY <1>2, <1>3, <1>4, Leaves
<1>5. CASE At(c, "gate") /\ GoesTo(c, "path") /\ trace' = trace
  <2>1. PICK k : Moved(c, k, "path")
    BY <1>3, <1>5, GoesOn
  <2>2. Wider(moments[c], moments'[c])
    BY <1>2, SeesMore
  <2>3. Sound(call[c], moments'[c], trace[c], child[c])
    BY <1>1, <2>2, WiderKeeps
  <2>4. Stage(k) /\ Found(k, moments'[c]) /\ Noted(k, trace[c])
    BY <1>5, <2>1, <2>3 DEF Sound, Stage, Found, Noted, At, Moved
  <2>5. QED
    BY <1>2, <1>5, <2>1, <2>4, TurnAlone DEF Moved
<1>6. CASE /\ At(c, "path") /\ ~Complete(c) /\ GoesTo(c, "fetch") /\ trace' = trace
           /\ authorize(c, NextTarget(c).path)
  <2>1. PICK k : Moved(c, k, "fetch")
    BY <1>3, <1>6, GoesOn
  <2>2. call[c].targets \in Seq(Target) /\ call[c].resolved \in Seq(Item)
    BY <1>1 DEF Call
  <2>3. Len(call[c].resolved) < Len(call[c].targets)
    BY <1>1, <1>6, <2>2 DEF Sound, Stage, Complete, Batch
  <2>4. NextTarget(c) \in Target
    BY <2>2, <2>3 DEF NextTarget, Batch
  <2>5. NextTarget(c).path \in Path
    BY <2>4 DEF Target
  <2>6. NextTarget(c).path \in Readable
    BY <1>6, <2>5, PathsAssumption DEF authorize, Readable
  <2>7. Wider(moments[c], moments'[c]) /\ Readable \subseteq moments'[c].readable
    BY <1>2, <1>6, <2>1, SeesNow DEF Moved, At
  <2>8. Sound(call[c], moments'[c], trace[c], child[c])
    BY <1>1, <2>7, WiderKeeps
  <2>9. Stage(k) /\ Noted(k, trace[c])
    BY <1>6, <2>1, <2>3, <2>8 DEF Sound, Stage, Noted, At, Moved
  <2>10. Found(k, moments'[c])
    <3>1. k.targets[Len(k.resolved) + 1].path \in moments'[c].readable
      BY <2>1, <2>6, <2>7 DEF Moved, NextTarget, Batch
    <3>2. QED
      BY <2>1, <2>8, <3>1 DEF Sound, Found, Moved
  <2>11. QED
    BY <1>2, <1>6, <2>1, <2>9, <2>10, TurnAlone DEF Moved
<1>7. QED
  BY <1>4, <1>5, <1>6 DEF authorize_batch, authorize_path

\* A value is read and opened, under the policies and rows of this moment.
LEMMA ReadStep ==
    ASSUME IInv, Observe, NEW c \in Caller, read_version(c)
    PROVE  IInv'
<1>1. /\ call[c] \in Call /\ Sound(call[c], moments[c], trace[c], child[c])
  BY CallerFacts
<1>2. At(c, "fetch") /\ UNCHANGED others /\ child' = child /\ trace' = trace
  BY DEF read_version, OnlyCall
<1> DEFINE target == NextTarget(c)
           n == Len(call[c].resolved)
<1>3. PICK v : v = Selected(target)
  OBVIOUS
<1>4. call[c].targets \in Seq(Target) /\ call[c].resolved \in Seq(Item)
  BY <1>1 DEF Call
<1>5. n \in Nat /\ n < Len(call[c].targets) /\ target.path \in moments[c].readable
  BY <1>1, <1>2, <1>4 DEF Sound, Stage, Found, At, NextTarget, Batch
<1>6. target \in Target /\ target = call[c].targets[n + 1]
  BY <1>4, <1>5 DEF NextTarget, Batch
<1>7. target.path \in Path /\ target.version \in 0..MaxVersion
  BY <1>6 DEF Target
<1>8. CASE v \notin active[target.path]
  <2>1. GoesTo(c, Refused(c))
    BY <1>3, <1>8 DEF read_version
  <2>2. Refused(c) \in {"closed", "failed", "refusing"}
    BY DEF Refused
  <2>3. QED
    BY <1>2, <2>1, <2>2, Leaves
<1>9. CASE v \in active[target.path]
  <2>1. v \in Version
    BY <1>7, <1>9 DEF IInv, Store
  <2>2. PICK item : item = [path |-> target.path, version |-> v]
    OBVIOUS
  <2>3. item \in Item /\ item.path = target.path /\ item.version = v
    BY <1>7, <2>1, <2>2 DEF Item
  <2>4. PICK items : items = Append(call[c].resolved, item)
    OBVIOUS
  <2>5. /\ items \in Seq(Item) /\ Len(items) = n + 1 /\ items[n + 1] = item
        /\ \A i \in 1..n : items[i] = call[c].resolved[i]
    BY <1>4, <2>3, <2>4
  <2>6. PICK k : k = [call[c] EXCEPT !.at = "path", !.resolved = items]
    OBVIOUS
  <2>7. k \in Call
    BY <1>1, <2>5, <2>6 DEF Call, Place
  <2>8. /\ k.at = "path" /\ k.via = call[c].via /\ k.targets = call[c].targets
        /\ k.resolved = items /\ k.sent = call[c].sent /\ k.mapped = call[c].mapped
    BY <1>1, <2>6 DEF Call
  <2>9. Becomes(c, k)
    BY <1>3, <1>9, <2>2, <2>4, <2>6 DEF read_version
  <2>10. Wider(moments[c], moments'[c]) /\ Current \subseteq moments'[c].current
    BY <1>2, <2>8, <2>9, SeesNow DEF At
  <2>11. target.version = 0 => item \in Current
    <3> SUFFICES ASSUME target.version = 0 PROVE item \in Current
      OBVIOUS
    <3>1. v = current[target.path] /\ v # 0
      BY <1>3, <2>1, ResolveBoundsAssumption DEF Selected, Version
    <3>2. item = [path |-> target.path, version |-> current[target.path]]
      BY <2>2, <3>1
    <3>3. QED
      BY <1>7, <3>1, <3>2, Zenon DEF Current
  <2>12. Answered(item, target, moments'[c])
    BY <1>3, <1>5, <2>3, <2>10, <2>11 DEF Answered, Wider, Selected
  <2>13. Sound(call[c], moments'[c], trace[c], child[c])
    BY <1>1, <2>10, WiderKeeps
  <2>14. Stage(k) /\ Noted(k, trace[c])
    BY <1>2, <1>4, <1>5, <2>5, <2>8, <2>13 DEF Sound, Stage, Noted, At
  <2>15. Found(k, moments'[c])
    <3>1. ASSUME NEW i \in 1..Len(items)
          PROVE  Answered(items[i], call[c].targets[i], moments'[c])
      <4>1. CASE i = n + 1
        BY <1>6, <2>5, <2>12, <4>1
      <4>2. CASE i # n + 1
        <5>1. i \in 1..n
          BY <1>5, <2>5, <4>2
        <5>2. QED
          BY <2>5, <2>13, <5>1 DEF Sound, Found
      <4>3. QED
        BY <4>1, <4>2
    <3>2. QED
      BY <2>8, <3>1 DEF Found
  <2>16. QED
    BY <1>2, <2>7, <2>8, <2>9, <2>14, <2>15, TurnAlone
<1>10. QED
  BY <1>8, <1>9

\* The entry comes before the answer.
LEMMA RecordStep ==
    ASSUME IInv, Observe, NEW c \in Caller, record(c)
    PROVE  IInv'
<1>1. /\ call[c] \in Call /\ Sound(call[c], moments[c], trace[c], child[c])
  BY CallerFacts
<1>2. At(c, "path") /\ Complete(c) /\ UNCHANGED others /\ child' = child
  BY DEF record, Keeps
<1>3. CASE GoesTo(c, Refused(c)) /\ trace' = trace
  <2>1. Refused(c) \in {"closed", "failed", "refusing"}
    BY DEF Refused
  <2>2. QED
    BY <1>2, <1>3, <2>1, Leaves
<1>4. CASE GoesTo(c, "answering") /\ trace' = [trace EXCEPT ![c] = @ \cup {"resolve"}]
  <2>1. PICK k : Moved(c, k, "answering")
    BY <1>4, GoesOn DEF Place
  <2>2. Elsewhere(c) /\ "resolve" \in trace'[c]
    BY <1>2, <1>4 DEF IInv, Exchanges, Elsewhere
  <2>3. Wider(moments[c], moments'[c])
    BY <1>2, SeesMore
  <2>4. Sound(call[c], moments'[c], trace[c], child[c])
    BY <1>1, <2>3, WiderKeeps
  <2>5. Stage(k) /\ Found(k, moments'[c])
    BY <1>2, <2>1, <2>4 DEF Sound, Stage, Found, At, Moved, Complete, Batch
  <2>6. Turn(c, k)
    BY <2>1, <2>2, <2>5 DEF Turn, Sound, Moved, Noted
  <2>7. QED
    BY <1>2, <2>2, <2>6, OneTurn
<1>5. QED
  BY <1>3, <1>4 DEF record

\* A block of the answer.
LEMMA RespondStep ==
    ASSUME IInv, Observe, NEW c \in Caller, respond(c)
    PROVE  IInv'
<1>1. /\ call[c] \in Call /\ Sound(call[c], moments[c], trace[c], child[c])
  BY CallerFacts
<1>2. /\ At(c, "answering") /\ call[c].sent < Len(call[c].resolved) /\ UNCHANGED others
      /\ child' = child /\ trace' = trace
  BY DEF respond, OnlyCall
<1>3. PICK n : n = call[c].sent + 1
  OBVIOUS
<1>4. call[c].sent \in Nat /\ call[c].resolved \in Seq(Item)
  BY <1>1 DEF Call
<1>5. n \in Nat /\ n <= Len(call[c].resolved)
  BY <1>2, <1>3, <1>4
<1>6. PICK k : k = [call[c] EXCEPT !.sent = n]
  OBVIOUS
<1>7. k \in Call
  BY <1>1, <1>5, <1>6 DEF Call
<1>8. /\ k.at = call[c].at /\ k.via = call[c].via /\ k.targets = call[c].targets /\ k.sent = n
      /\ k.resolved = call[c].resolved /\ k.mapped = call[c].mapped
  BY <1>1, <1>6 DEF Call
<1>9. Becomes(c, k)
  BY <1>3, <1>6 DEF respond
<1>10. Wider(moments[c], moments'[c])
  BY <1>2, SeesMore
<1>11. Sound(call[c], moments'[c], trace[c], child[c])
  BY <1>1, <1>10, WiderKeeps
<1>12. Stage(k) /\ Found(k, moments'[c]) /\ Noted(k, trace[c])
  BY <1>2, <1>5, <1>8, <1>11 DEF Sound, Stage, Found, Noted, At
<1>13. QED
  BY <1>2, <1>7, <1>8, <1>9, <1>12, TurnAlone DEF At
-----------------------------------------------------------------------------
(* `secretbae exec'.                                                        *)

\* The elements of a finite set, in some order.
LEMMA SetInOrder ==
    ASSUME NEW T, NEW S \in SUBSET T, IsFiniteSet(S)
    PROVE  SetToSeq(S) \in Seq(T)
<1> DEFINE n == Cardinality(S)
<1>1. n \in Nat /\ ExistsBijection(1..n, S)
  BY FS_CardinalityType
<1>2. PICK f \in [1..n -> S] : IsInjective(f)
  BY <1>1 DEF ExistsBijection, Bijection, Injection
<1>3. SetToSeq(S) \in [1..n -> S]
  BY <1>2 DEF SetToSeq
<1>4. SetToSeq(S) \in [1..n -> T]
  BY <1>3
<1>5. QED
  BY <1>1, <1>4, SeqDef

\* The image of a finite set.
LEMMA FiniteImage ==
    ASSUME NEW S, NEW f, DOMAIN f = S, f = [x \in S |-> f[x]], IsFiniteSet(S)
    PROVE  IsFiniteSet({f[x] : x \in S})
<1> DEFINE T == {f[x] : x \in S}
<1>1. f \in Surjection(S, T)
  BY DEF Surjection
<1>2. QED
  BY <1>1, FS_Surjection

\* The token a run finds is one a caller can present, or there is none.
LEMMA TokenFound ==
    ASSUME NEW places \in Sources
    PROVE  resolve_token_with_sources(places) \in Token \cup {"refused"}
<1> DEFINE given == {i \in DOMAIN places : places[i] \notin {"absent", "blank"}}
<1>1. places \in Seq(Token \cup {"absent", "blank", "refused"})
  BY SourceAssumption
<1>2. \A i \in DOMAIN places : i \in Nat /\ places[i] \in Token \cup {"absent", "blank", "refused"}
  BY <1>1
<1>3. given \subseteq Nat /\ \A i \in given : places[i] \in Token \cup {"refused"}
  BY <1>2
<1>4. resolve_token_with_sources(places) = IF given = {} THEN "refused" ELSE places[Min(given)]
  BY DEF resolve_token_with_sources
<1> HIDE DEF given
<1>5. given # {} => Min(given) \in given
  <2> SUFFICES ASSUME given # {} PROVE Min(given) \in given
    OBVIOUS
  <2>1. \E x \in given : \A y \in given : x <= y
    BY <1>3, LeastNat
  <2>2. QED
    BY <2>1 DEF Min
<1>6. QED
  BY <1>3, <1>4, <1>5

\* The profile is read.
LEMMA ExecStarts ==
    ASSUME IInv, Observe, NEW c \in Caller, NEW profile \in Profiles, NEW places \in Sources,
           run_exec(c, profile, places)
    PROVE  IInv'
<1>1. /\ call[c] \in Call /\ Sound(call[c], moments[c], trace[c], child[c])
  BY CallerFacts
<1>2. At(c, "new") /\ UNCHANGED others /\ trace' = trace /\ child' = child
  BY DEF run_exec, OnlyCall
<1>3. /\ call[c].targets = <<>> /\ call[c].resolved = <<>> /\ call[c].sent = 0
  BY <1>1, <1>2 DEF Sound, Stage, At
<1>4. PICK t : t = resolve_token_with_sources(places)
  OBVIOUS
<1>5. t \in Token \cup {"refused"}
  BY <1>4, TokenFound
<1>6. profile.env \in Seq(Binding) /\ profile.env_from \in Seq(SUBSET Path)
  <2>1. profile \in [env : Seq(Binding), env_from : Seq(SUBSET Path)]
    BY ProfileAssumption
  <2>2. QED
    BY <2>1
<1>7. CASE t = "refused"
  <2>1. PICK k : k = [call[c] EXCEPT !.at = "failed", !.via = "exec"]
    OBVIOUS
  <2>2. k \in Call
    BY <1>1, <2>1 DEF Call, Place
  <2>3. /\ k.at = "failed" /\ k.targets = call[c].targets /\ k.resolved = call[c].resolved
        /\ k.sent = call[c].sent
    BY <1>1, <2>1 DEF Call
  <2>4. Becomes(c, k)
    BY <1>4, <1>7, <2>1 DEF run_exec
  <2>5. Stage(k) /\ Found(k, moments'[c]) /\ Noted(k, trace[c])
    BY <1>3, <2>3, EmptySeq DEF Stage, Found, Noted
  <2>6. QED
    BY <1>2, <2>2, <2>3, <2>4, <2>5, TurnAlone
<1>8. CASE t # "refused"
  <2>1. PICK k : k = [call[c] EXCEPT !.at = "list", !.via = "exec", !.token = t,
                                     !.from = profile.env_from, !.mapped = profile.env]
    OBVIOUS
  <2>2. t \in Token \cup {None} /\ "list" \in Place
    BY <1>5, <1>8 DEF Place
  <2>3. k \in Call
    BY <1>1, <1>6, <2>1, <2>2 DEF Call
  <2>4. /\ k.at = "list" /\ k.targets = call[c].targets /\ k.resolved = call[c].resolved
        /\ k.sent = call[c].sent
    BY <1>1, <2>1 DEF Call
  <2>5. Becomes(c, k)
    BY <1>4, <1>8, <2>1 DEF run_exec
  <2>6. Stage(k) /\ Found(k, moments'[c]) /\ Noted(k, trace[c])
    BY <1>3, <2>4, EmptySeq DEF Stage, Found, Noted
  <2>7. QED
    BY <1>2, <2>3, <2>4, <2>5, <2>6, TurnAlone
<1>9. QED
  BY <1>7, <1>8

\* One prefix is listed.
LEMMA ListStep ==
    ASSUME IInv, Observe, NEW c \in Caller, list(c)
    PROVE  IInv'
<1>1. /\ call[c] \in Call /\ Sound(call[c], moments[c], trace[c], child[c])
  BY CallerFacts
<1>2. At(c, "list") /\ call[c].from # <<>> /\ UNCHANGED others /\ child' = child
  BY DEF list, Keeps
<1>3. CASE GoesTo(c, "failed") /\ record_denial(c)
  BY <1>2, <1>3, Leaves
<1>4. CASE ~(GoesTo(c, "failed") /\ record_denial(c))
  <2> DEFINE found == {p \in Head(call[c].from) \cap policy.list : current[p] # 0}
             bindings == {[name |-> Leaf[p], path |-> p, version |-> 0] : p \in found}
  <2>1. /\ trace' = trace
        /\ Becomes(c, [call[c] EXCEPT !.from = Tail(call[c].from),
                                      !.mapped = call[c].mapped \o SetToSeq(bindings)])
    BY <1>4 DEF list
  <2>2. call[c].from \in Seq(SUBSET Path) /\ call[c].mapped \in Seq(Binding)
    BY <1>1 DEF Call
  <2>3. Head(call[c].from) \in SUBSET Path /\ Tail(call[c].from) \in Seq(SUBSET Path)
    BY <1>2, <2>2, HeadTailProperties
  <2>4. found \subseteq Path /\ IsFiniteSet(found)
    <3>1. found \subseteq Path
      BY <2>3
    <3>2. QED
      BY <3>1, PathsAssumption, FS_Subset
  <2>5. bindings \in SUBSET Binding /\ IsFiniteSet(bindings)
    <3> HIDE DEF found
    <3>1. PICK f : f = [p \in found |-> [name |-> Leaf[p], path |-> p, version |-> 0]]
      OBVIOUS
    <3>2. bindings = {f[p] : p \in found}
      BY <3>1
    <3>3. DOMAIN f = found /\ f = [p \in found |-> f[p]]
      BY <3>1
    <3>4. IsFiniteSet({f[p] : p \in found})
      BY <2>4, <3>3, FiniteImage
    <3>5. ASSUME NEW p \in found
          PROVE  [name |-> Leaf[p], path |-> p, version |-> 0] \in Binding
      <4>1. p \in Path /\ Leaf[p] \in STRING /\ 0 \in 0..MaxVersion
        BY <2>4, ProfileAssumption, ResolveBoundsAssumption
      <4>2. QED
        BY <4>1 DEF Binding
    <3>6. bindings \in SUBSET Binding
      BY <3>5
    <3>7. QED
      BY <3>2, <3>4, <3>6
  <2> HIDE DEF bindings
  <2>6. SetToSeq(bindings) \in Seq(Binding)
    BY <2>5, SetInOrder
  <2>7. PICK more : more = call[c].mapped \o SetToSeq(bindings)
    OBVIOUS
  <2>8. more \in Seq(Binding)
    BY <2>2, <2>6, <2>7, ConcatProperties
  <2>9. PICK k : k = [call[c] EXCEPT !.from = Tail(call[c].from), !.mapped = more]
    OBVIOUS
  <2>10. k \in Call
    BY <1>1, <2>3, <2>8, <2>9 DEF Call
  <2>11. /\ k.at = "list" /\ k.targets = call[c].targets /\ k.resolved = call[c].resolved
         /\ k.sent = call[c].sent
    BY <1>1, <1>2, <2>9 DEF Call, At
  <2>12. Becomes(c, k)
    BY <2>1, <2>7, <2>9
  <2>13. /\ call[c].targets = <<>> /\ call[c].resolved = <<>> /\ call[c].sent = 0
    BY <1>1, <1>2 DEF Sound, Stage, At
  <2>14. Stage(k) /\ Found(k, moments'[c]) /\ Noted(k, trace[c])
    BY <2>11, <2>13, EmptySeq DEF Stage, Found, Noted
  <2>15. QED
    BY <1>2, <2>1, <2>10, <2>11, <2>12, <2>14, TurnAlone
<1>5. QED
  BY <1>3, <1>4

\* The batch is sent, or there is nothing to ask for.
LEMMA BatchStep ==
    ASSUME IInv, Observe, NEW c \in Caller, request_batch(c)
    PROVE  IInv'
<1>1. /\ call[c] \in Call /\ Sound(call[c], moments[c], trace[c], child[c])
  BY CallerFacts
<1>2. At(c, "list") /\ UNCHANGED others /\ trace' = trace /\ child' = child
  BY DEF request_batch, OnlyCall
<1>3. /\ call[c].targets = <<>> /\ call[c].resolved = <<>> /\ call[c].sent = 0
  BY <1>1, <1>2 DEF Sound, Stage, At
<1> DEFINE mapped == call[c].mapped
<1>4. CASE ~check_no_duplicate_env_names(mapped)
  <2>1. GoesTo(c, "failed")
    BY <1>4 DEF request_batch
  <2>2. QED
    BY <1>2, <2>1, Leaves
<1>5. CASE check_no_duplicate_env_names(mapped) /\ mapped = <<>>
  <2>1. GoesTo(c, "answering")
    BY <1>5 DEF request_batch
  <2>2. PICK k : Moved(c, k, "answering")
    BY <2>1, GoesOn DEF Place
  <2>3. Stage(k) /\ Found(k, moments'[c]) /\ Noted(k, trace[c])
    BY <1>3, <1>5, <2>2, EmptySeq DEF Stage, Found, Noted, Moved
  <2>4. QED
    BY <1>2, <2>2, <2>3, TurnAlone DEF Moved
<1>6. CASE check_no_duplicate_env_names(mapped) /\ mapped # <<>>
  <2>1. Begins(c, call[c].token, unique_paths(mapped))
    BY <1>6 DEF request_batch
  <2>2. mapped \in Seq(Binding) /\ call[c].token \in Token \cup {None}
    BY <1>1 DEF Call
  <2>3. PICK f : f = [i \in DOMAIN mapped |-> [path |-> mapped[i].path, version |-> 0]]
    OBVIOUS
  <2>4. {[path |-> b.path, version |-> 0] : b \in ToSet(mapped)} = {f[i] : i \in DOMAIN mapped}
    BY <2>3 DEF ToSet
  <2>5. IsFiniteSet(DOMAIN mapped)
    <3>1. DOMAIN mapped = 1..Len(mapped) /\ Len(mapped) \in Nat
      BY <2>2
    <3>2. QED
      BY <3>1, FS_Interval
  <2>6. IsFiniteSet({f[i] : i \in DOMAIN mapped})
    BY <2>3, <2>5, FiniteImage
  <2>7. {f[i] : i \in DOMAIN mapped} \in SUBSET Target
    <3>1. ASSUME NEW i \in DOMAIN mapped PROVE f[i] \in Target
      <4>1. mapped[i] \in Binding
        BY <2>2
      <4>2. mapped[i].path \in Path /\ 0 \in 0..MaxVersion
        BY <4>1, ResolveBoundsAssumption DEF Binding
      <4>3. QED
        BY <2>3, <4>2 DEF Target
    <3>2. QED
      BY <3>1
  <2>8. unique_paths(mapped) \in Seq(Target)
    BY <2>4, <2>6, <2>7, SetInOrder DEF unique_paths
  <2>9. ASSUME NEW i \in 1..Len(unique_paths(mapped))
        PROVE  unique_paths(mapped)[i].version = 0
    <3>1. unique_paths(mapped) \in Seq({f[j] : j \in DOMAIN mapped})
      BY <2>4, <2>6, SetInOrder DEF unique_paths
    <3>2. PICK S : S = {f[j] : j \in DOMAIN mapped}
      OBVIOUS
    <3>3. PICK s \in Seq(S) : s = unique_paths(mapped)
      BY <3>1, <3>2
    <3>4. s[i] \in S
      BY <3>3
    <3>5. QED
      BY <2>3, <3>2, <3>3, <3>4
  <2>10. QED
    BY <1>2, <1>3, <1>6, <2>1, <2>2, <2>8, <2>9, BeginStep
<1>7. QED
  BY <1>4, <1>5, <1>6

\* What the answer holds for a path is a value of that path, and one of the batch.
LEMMA ResolvedFacts ==
    ASSUME NEW c \in Caller, NEW p \in DOMAIN resolved_map(c)
    PROVE  resolved_map(c)[p].path = p /\ resolved_map(c)[p] \in ToSet(call[c].resolved)
<1>1. DOMAIN resolved_map(c) = {i.path : i \in ToSet(call[c].resolved)}
  BY DEF resolved_map
<1>2. \E i \in ToSet(call[c].resolved) : i.path = p
  BY <1>1
<1>3. resolved_map(c)[p] = CHOOSE i \in ToSet(call[c].resolved) : i.path = p
  BY <1>1 DEF resolved_map
<1>4. QED
  BY <1>2, <1>3

\* An environment built from acceptable bindings with distinct names.
LEMMA EnvironmentFits ==
    ASSUME NEW c \in Caller, check_no_duplicate_env_names(call[c].mapped),
           \A b \in ToSet(call[c].mapped) : Acceptable(c, b),
           NEW env, env = build_child_env(call[c].token, Variables(c)),
           NEW k, k.mapped = call[c].mapped, k.token = call[c].token,
           NEW seen, ToSet(call[c].resolved) \subseteq seen.current
    PROVE  Fits(k, env, seen)
<1> DEFINE mapped == call[c].mapped
           V == Variables(c)
           names == {b.name : b \in ToSet(mapped)}
<1>1. DOMAIN V = names
  BY DEF Variables
<1>2. /\ DOMAIN V \subseteq DOMAIN env
      /\ \A n \in DOMAIN V : env[n] = V[n]
      /\ \A n \in DOMAIN env \ DOMAIN V : env[n] = Parent[n] /\ env[n] # call[c].token
  <2> HIDE DEF V
  <2>1. PICK kept : kept = {n \in DOMAIN Parent \ {"SECRETBAE_TOKEN", "SECRETBAE_TOKEN_FILE"} :
                               Parent[n] # call[c].token}
    OBVIOUS
  <2>2. env = [n \in DOMAIN V \cup kept |-> IF n \in DOMAIN V THEN V[n] ELSE Parent[n]]
    BY <2>1 DEF build_child_env, V
  <2>3. QED
    BY <2>1, <2>2
<1>3. ASSUME NEW i \in DOMAIN mapped
      PROVE  /\ mapped[i].name \in DOMAIN env
             /\ env[mapped[i].name].path = mapped[i].path
             /\ env[mapped[i].name] \in seen.current
             /\ mapped[i].version \in {0, env[mapped[i].name].version}
  <2>1. PICK b : b = mapped[i]
    OBVIOUS
  <2>2. b \in ToSet(mapped)
    BY <2>1 DEF ToSet
  <2>3. b.name \in names
    BY <2>2
  <2>4. ASSUME NEW d \in ToSet(mapped), d.name = b.name PROVE d = b
    <3>1. PICK j \in DOMAIN mapped : d = mapped[j]
      BY DEF ToSet
    <3>2. i = j
      BY <2>1, <2>4, <3>1 DEF check_no_duplicate_env_names
    <3>3. QED
      BY <2>1, <3>1, <3>2
  <2>5. (CHOOSE d \in ToSet(mapped) : d.name = b.name) = b
    BY <2>2, <2>4
  <2>6. V[b.name] = resolved_map(c)[(CHOOSE d \in ToSet(mapped) : d.name = b.name).path]
    BY <2>3 DEF Variables
  <2>7. V[b.name] = resolved_map(c)[b.path]
    BY <2>5, <2>6
  <2>8. b.path \in DOMAIN resolved_map(c) /\ b.version \in {0, resolved_map(c)[b.path].version}
    BY <2>2 DEF Acceptable
  <2>9. resolved_map(c)[b.path].path = b.path /\ resolved_map(c)[b.path] \in seen.current
    BY <2>8, ResolvedFacts
  <2>10. env[b.name] = V[b.name] /\ b.name \in DOMAIN env
    BY <1>1, <1>2, <2>3
  <2>11. QED
    BY <2>1, <2>7, <2>8, <2>9, <2>10
<1>4. \A n \in DOMAIN env \ names : env[n] = Parent[n] /\ env[n] # call[c].token
  BY <1>1, <1>2
<1>5. QED
  BY <1>3, <1>4 DEF Fits

\* The command is started with the whole profile, or not at all.
LEMMA StartStep ==
    ASSUME IInv, Observe, NEW c \in Caller, start_child(c)
    PROVE  IInv'
<1>1. /\ call[c] \in Call /\ Sound(call[c], moments[c], trace[c], child[c])
  BY CallerFacts
<1>2. At(c, "answering") /\ call[c].via = "exec" /\ UNCHANGED others /\ trace' = trace
  BY DEF start_child
<1>3. CASE GoesTo(c, "failed") /\ child' = child
  BY <1>2, <1>3, Leaves
<1>4. CASE ~(GoesTo(c, "failed") /\ child' = child)
  <2>1. /\ \A b \in ToSet(call[c].mapped) : Acceptable(c, b)
        /\ GoesTo(c, "started")
        /\ child' = [child EXCEPT ![c] = build_child_env(call[c].token, Variables(c))]
    BY <1>4 DEF start_child
  <2>2. PICK env : env = build_child_env(call[c].token, Variables(c))
    OBVIOUS
  <2>3. child'[c] = env /\ Elsewhere(c)
    BY <1>2, <2>1, <2>2 DEF IInv, Exchanges, Elsewhere
  <2>4. PICK k : Moved(c, k, "started")
    BY <2>1, GoesOn DEF Place
  <2>5. check_no_duplicate_env_names(call[c].mapped)
    BY <1>1, <1>2 DEF Sound, Stage, At
  <2>6. Wider(moments[c], moments'[c])
    BY <1>2, SeesMore
  <2>7. Sound(call[c], moments'[c], trace[c], child[c])
    BY <1>1, <2>6, WiderKeeps
  <2>8. ASSUME NEW i \in 1..Len(call[c].resolved)
        PROVE  call[c].resolved[i] \in moments'[c].current
    <3>1. i \in 1..Len(call[c].targets)
      BY <1>1, <1>2 DEF Sound, Stage, At, Call
    <3>2. call[c].targets[i].version = 0
      BY <1>1, <1>2, <3>1 DEF Sound, Stage
    <3>3. QED
      BY <2>7, <3>2 DEF Sound, Found, Answered
  <2>9. ToSet(call[c].resolved) \subseteq moments'[c].current
    <3>1. call[c].resolved \in Seq(Item)
      BY <1>1 DEF Call
    <3>2. DOMAIN call[c].resolved = 1..Len(call[c].resolved)
      BY <3>1
    <3>3. QED
      BY <2>8, <3>2 DEF ToSet
  <2>10. Fits(k, env, moments'[c])
    BY <2>1, <2>2, <2>4, <2>5, <2>9, EnvironmentFits DEF Moved
  <2>11. Stage(k) /\ Found(k, moments'[c]) /\ Noted(k, trace'[c])
    BY <1>2, <2>4, <2>7 DEF Sound, Stage, Found, Noted, At, Moved
  <2>12. Turn(c, k)
    BY <2>3, <2>4, <2>10, <2>11 DEF Turn, Sound, Moved
  <2>13. QED
    BY <1>2, <2>3, <2>12, OneTurn
<1>5. QED
  BY <1>3, <1>4

\* The exchange is over, whoever ended it.
LEMMA EndStep ==
    ASSUME IInv, Observe, NEW c \in Caller,
           \/ disconnects(c) \/ violation(c) \/ fails(c) \/ flush(c) \/ respond_error(c)
           \/ connection_timeout(c) \/ post_fails(c)
    PROVE  IInv'
<1>1. UNCHANGED others /\ child' = child /\ (trace' = trace \/ record_denial(c))
  BY DEF disconnects, violation, fails, flush, respond_error, connection_timeout, post_fails,
         OnlyCall, Keeps
<1>2. PICK place \in {"closed", "failed", "refusing"} : GoesTo(c, place)
  BY DEF disconnects, violation, fails, flush, respond_error, connection_timeout, post_fails,
         Refused
<1>3. QED
  BY <1>1, <1>2, Leaves
-----------------------------------------------------------------------------
\* Nothing has been asked for yet.
LEMMA InitInv ==
    ASSUME Init
    PROVE  IInv
<1>1. Store
  <2>1. 1 \in Version /\ 1 \in 0..MaxVersion /\ 0 \in 0..MaxChanges
    BY ResolveBoundsAssumption DEF Version
  <2>2. QED
    BY <2>1 DEF Init, Store
<1>2. New \in Call
  <2>1. 0 \in 0..MaxPaths
    BY ResolveBoundsAssumption
  <2>2. /\ <<>> \in Seq(SUBSET Path) /\ <<>> \in Seq(Binding) /\ <<>> \in Seq(Target)
        /\ <<>> \in Seq(Item)
    BY EmptySeq
  <2>3. QED
    BY <2>1, <2>2 DEF New, Call, Place
<1>3. /\ New.at = "new" /\ New.targets = <<>> /\ New.resolved = <<>> /\ New.sent = 0
  BY DEF New
<1>4. Never \in Seen
  BY DEF Never, Seen
<1>5. Exchanges
  BY <1>2, <1>4 DEF Init, Exchanges
<1>6. Sound(New, Never, {}, None)
  BY <1>3, EmptySeq DEF Sound, Stage, Found, Noted
<1>7. \A c \in Caller : Sound(call[c], moments[c], trace[c], child[c])
  BY <1>6 DEF Init
<1>8. QED
  BY <1>1, <1>5, <1>7 DEF IInv

\* The inductive invariant: the tables, and every caller's exchange in order.
THEOREM Invariant == Spec => []IInv
<1>1. Init => IInv
  BY InitInv
<1>2. IInv /\ [Next]_vars => IInv'
  <2> SUFFICES ASSUME IInv, [Next]_vars PROVE IInv'
    OBVIOUS
  <2>1. CASE UNCHANGED vars
    <3>1. UNCHANGED others /\ call' = call /\ trace' = trace /\ child' = child /\ moments' = moments
      BY <2>1 DEF vars
    <3>2. Store'
      BY <3>1, StoreKept DEF IInv
    <3>3. Exchanges' /\ \A c \in Caller : Sound(call'[c], moments'[c], trace'[c], child'[c])
      BY <3>1 DEF IInv, Exchanges
    <3>4. QED
      BY <3>2, <3>3 DEF IInv
  <2>2. CASE Change /\ Observe
    BY <2>2, OthersStep
  <2>3. ASSUME NEW c \in Caller, Step(c), Observe PROVE IInv'
    BY <2>3, AcceptStep, ParserStep, GateStep, ReadStep, RecordStep, RespondStep, ExecStarts,
       ListStep, BatchStep, StartStep, EndStep
       DEF Step, DaemonStep, ExecStep
  <2>4. QED
    BY <2>1, <2>2, <2>3 DEF Next
<1>3. QED
  BY <1>1, <1>2, PTL DEF Spec

\* Every variable stays in its domain, at the announced limit of paths too.
THEOREM TypeCorrect == Spec => []TypeOK
<1>1. IInv => TypeOK
  <2> SUFFICES ASSUME IInv PROVE TypeOK
    OBVIOUS
  <2>1. ASSUME NEW c \in Caller
        PROVE  /\ call[c].at \in Place
               /\ call[c].via \in {None, "socket", "exec"}
               /\ call[c].token \in Token \cup {None}
               /\ call[c].left \in 0..MaxPaths
               /\ call[c].mapped \in Seq(Binding)
               /\ call[c].targets \in Seq(Target) /\ call[c].resolved \in Seq(Item)
               /\ call[c].sent <= Len(call[c].resolved)
    <3>1. call[c] \in Call /\ Stage(call[c])
      BY CallerFacts DEF Sound
    <3>2. QED
      BY <3>1 DEF Call, Stage
  <2>2. QED
    BY <2>1 DEF TypeOK, IInv, Store, Exchanges, Place, Ended, Seen
<1>2. QED
  BY <1>1, Invariant, PTL

\* What resolve_secrets hands out was readable and current at moments of the batch.
THEOREM AnswersWereSo == Spec => []DeliveredWasSo
<1>1. IInv => DeliveredWasSo
  <2> SUFFICES ASSUME IInv, NEW c \in Caller, Delivered(c)
               PROVE  /\ Complete(c)
                      /\ \A i \in DOMAIN Batch(c) :
                            Answered(call[c].resolved[i], Batch(c)[i], moments[c])
    BY DEF DeliveredWasSo, Answered
  <2>1. call[c] \in Call /\ Sound(call[c], moments[c], trace[c], child[c])
    BY CallerFacts
  <2>2. call[c].targets \in Seq(Target) /\ call[c].resolved \in Seq(Item)
    BY <2>1 DEF Call
  <2>3. Complete(c)
    BY <2>1 DEF Delivered, At, Sound, Stage, Complete, Batch
  <2>4. DOMAIN Batch(c) = 1..Len(call[c].resolved)
    BY <2>2, <2>3 DEF Complete, Batch
  <2>5. QED
    BY <2>1, <2>3, <2>4 DEF Sound, Found, Batch
<1>2. QED
  BY <1>1, Invariant, PTL

\* Nobody has plaintext that the audit log has no Resolve entry for.
THEOREM AuditedFirst == Spec => []NothingUnaudited
<1>1. IInv => NothingUnaudited
  <2> SUFFICES ASSUME IInv, NEW c \in Caller, Delivered(c) PROVE "resolve" \in trace[c]
    BY DEF NothingUnaudited
  <2>1. call[c] \in Call /\ Sound(call[c], moments[c], trace[c], child[c])
    BY CallerFacts
  <2>2. call[c].targets \in Seq(Target) /\ call[c].resolved \in Seq(Item) /\ call[c].sent \in Nat
    BY <2>1 DEF Call
  <2>3. call[c].sent > 0 => call[c].targets # <<>>
    BY <2>1, <2>2, EmptySeq DEF Sound, Stage
  <2>4. QED
    BY <2>1, <2>3 DEF Delivered, At, Sound, Noted
<1>2. QED
  BY <1>1, Invariant, PTL

\* A command is started with a value that was current during the batch for every
\* binding, pinned ones at their pin, and without the token.
THEOREM ChildrenFit == Spec => []ChildEnvironment
<1>1. IInv => ChildEnvironment
  BY DEF IInv, Sound, ChildEnvironment, Fits, At
<1>2. QED
  BY <1>1, Invariant, PTL
=============================================================================
