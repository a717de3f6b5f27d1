-------------------------- MODULE AuditChainProofs --------------------------
(***************************************************************************)
(* Proofs about AuditChain: for every set of entries and keys, and every   *)
(* sequence of appends, rotations and direct writes.                       *)
(*                                                                         *)
(* That nothing is forged is a fact about hashes: one that begins with a   *)
(* pair of the daemon's stands for entries it appended, in their order,    *)
(* wherever it was put.  That nothing is missing is a fact about numbers:  *)
(* the last row has the last number given, or the anchor counts a row that *)
(* is gone.  What a verdict tells of its causes is one fact for each check *)
(* of verify: which writes leave what it checks alone.                     *)
(***************************************************************************)
EXTENDS AuditChain, AuditLogProofs

\* None of these kinds of direct writes happened.
Free(kinds) == damage \cap kinds = {}

\* The entries a hash stands for.
Hashed(h) == [j \in 1..Len(h) |-> h[j][2]]

\* No key gave it, or it stands for entries the daemon appended, in their order.
Genuine(h, entries) == \/ h # <<>> /\ h[1] = <<Foreign, Garbled>>
                       \/ Subsequence(Hashed(h), entries)

\* Every hash in the table, and every hash the writer can put there.
Hashes ==
    /\ \A a \in anchors : Genuine(a.tail, ledger)
    /\ \A i \in 1..Len(log) : Genuine(log[i].hash, ledger)

\* The anchor is missing, under a key the daemon never held, or one it wrote.
Trusted == anchor # NoAnchor /\ anchor.key # Foreign
Authentic ==
    /\ \A a \in anchors : a.key # Foreign
    /\ Trusted => anchor \in anchors
    /\ Trusted /\ Free({"anchor_restored"}) => anchor.key = key
    /\ anchor # NoAnchor => Trusted \/ ~Free({"anchor_rewritten"})
    /\ anchor = NoAnchor => log = <<>> \/ ~Free({"anchor_lost", "insert"})

\* Which writes leave the columns of the rows as the daemon filled them.
Columns ==
    /\ Free({"garble", "insert"}) => \A i \in 1..Len(log) : log[i].entry # Garbled
    /\ Free({"edit", "relink", "rehash", "insert"}) =>
          \A i \in 1..Len(log) : log[i].entry # Garbled =>
              log[i].hash = Append(log[i].prev, <<key, log[i].entry>>)

\* Which writes leave the rows numbered without a gap.
Numbered ==
    Free({"remove", "renumber", "insert", "sequence"}) =>
        rowid = Len(log) /\ \A i \in 1..Len(log) : log[i].seq = i

\* Which writes leave rows with consecutive numbers linked.
Links ==
    Free({"relink", "rehash", "renumber", "insert"}) =>
        /\ \A i \in 1..Len(log) : log[i].seq > 0
        /\ \A i \in 2..Len(log) : log[i].seq = log[i - 1].seq + 1 =>
              log[i].prev = log[i - 1].hash
        /\ Len(log) > 0 /\ log[1].seq = 1 => log[1].prev = Genesis

\* Without a removal no anchor counts more rows than there are; and while the
\* hashes stay in their rows, the anchor describes the longest there can be.
Counts ==
    /\ Free({"remove"}) => \A a \in anchors : a.entries <= Len(log)
    /\ Free({"remove", "insert", "rehash"}) =>
          \A i \in 1..Len(log) : Len(log[i].hash) <= Len(log)
    /\ Free({"remove", "insert", "rehash", "anchor_restored"}) /\ Trusted =>
          /\ anchor.entries = Len(log)
          /\ \A i \in 1..Len(log) : Len(log[i].hash) = Len(log) => log[i].hash = anchor.tail

\* As long as no number, row or anchor was put back, the anchor counts a row
\* that is gone, or the last row has the last number given.
Whole ==
    Free({"renumber", "insert", "sequence", "anchor_restored"}) =>
        /\ rowid = Len(ledger)
        /\ \A i \in 1..Len(log) : log[i].seq <= rowid
        /\ Trusted => /\ Len(log) <= anchor.entries
                      /\ Len(log) = anchor.entries => LastSeq = rowid

IInv == /\ TypeOK /\ Hashes /\ Authentic /\ Columns
        /\ Numbered /\ Links /\ Counts /\ Whole
-----------------------------------------------------------------------------
\* Nothing is a subsequence of anything.
LEMMA SubsequenceEmpty ==
    ASSUME NEW t, Len(t) \in Nat
    PROVE  Subsequence(<<>>, t)
<1>1. Len(<<>>) = 0 /\ 1..0 = {}
  OBVIOUS
<1>2. [x \in 1..0 |-> 1] \in [1..0 -> 1..Len(t)]
  BY <1>1
<1>3. QED
  BY <1>1, <1>2 DEF Subsequence

\* A longer sequence has the subsequences of the shorter one.
LEMMA SubsequenceLonger ==
    ASSUME NEW S, NEW s \in Seq(S), NEW t \in Seq(S), NEW e \in S, Subsequence(s, t)
    PROVE  Subsequence(s, Append(t, e))
<1>1. PICK f \in [1..Len(s) -> 1..Len(t)] :
         /\ \A i, j \in 1..Len(s) : i < j => f[i] < f[j]
         /\ \A i \in 1..Len(s) : s[i] = t[f[i]]
  BY DEF Subsequence
<1>2. /\ Len(t) \in Nat /\ Len(s) \in Nat /\ Len(Append(t, e)) = Len(t) + 1
      /\ \A k \in 1..Len(t) : Append(t, e)[k] = t[k]
  OBVIOUS
<1>3. f \in [1..Len(s) -> 1..(Len(t) + 1)]
  BY <1>1, <1>2
<1>4. \A i \in 1..Len(s) : s[i] = Append(t, e)[f[i]]
  BY <1>1, <1>2
<1>5. QED
  BY <1>1, <1>2, <1>3, <1>4 DEF Subsequence

\* Both grow by the same element.
LEMMA SubsequenceGrows ==
    ASSUME NEW S, NEW s \in Seq(S), NEW t \in Seq(S), NEW e \in S, Subsequence(s, t)
    PROVE  Subsequence(Append(s, e), Append(t, e))
<1>1. PICK f \in [1..Len(s) -> 1..Len(t)] :
         /\ \A i, j \in 1..Len(s) : i < j => f[i] < f[j]
         /\ \A i \in 1..Len(s) : s[i] = t[f[i]]
  BY DEF Subsequence
<1> DEFINE m == Len(s)
           n == Len(t)
           g == [i \in 1..(m + 1) |-> IF i = m + 1 THEN n + 1 ELSE f[i]]
<1>0. m \in Nat /\ n \in Nat
  OBVIOUS
<1>2. /\ Len(Append(s, e)) = m + 1 /\ Len(Append(t, e)) = n + 1
      /\ \A k \in 1..m : Append(s, e)[k] = s[k]
      /\ \A k \in 1..n : Append(t, e)[k] = t[k]
      /\ Append(s, e)[m + 1] = e /\ Append(t, e)[n + 1] = e
  OBVIOUS
<1>3. \A i \in 1..m : f[i] \in 1..n
  BY <1>1
<1> HIDE DEF m, n
<1>4. g \in [1..(m + 1) -> 1..(n + 1)]
  BY <1>0, <1>3
<1>5. /\ g[m + 1] = n + 1
      /\ \A i \in 1..m : g[i] = f[i]
  BY <1>0
<1> HIDE DEF g
<1>6. \A i, j \in 1..(m + 1) : i < j => g[i] < g[j]
  <2> SUFFICES ASSUME NEW i \in 1..(m + 1), NEW j \in 1..(m + 1), i < j PROVE g[i] < g[j]
    OBVIOUS
  <2>1. i \in 1..m /\ g[i] = f[i] /\ f[i] \in 1..n
    BY <1>0, <1>3, <1>5
  <2>2. CASE j \in 1..m
    <3>1. f[i] < f[j]
      BY <1>1, <2>1, <2>2 DEF m
    <3>2. QED
      BY <1>5, <2>1, <2>2, <3>1
  <2>3. CASE j = m + 1
    BY <1>0, <1>5, <2>1, <2>3
  <2>4. QED
    BY <1>0, <2>2, <2>3
<1>7. \A i \in 1..(m + 1) : Append(s, e)[i] = Append(t, e)[g[i]]
  <2> SUFFICES ASSUME NEW i \in 1..(m + 1) PROVE Append(s, e)[i] = Append(t, e)[g[i]]
    OBVIOUS
  <2>1. CASE i \in 1..m
    <3>1. f[i] \in 1..n /\ g[i] = f[i] /\ s[i] = t[f[i]]
      BY <1>1, <1>3, <1>5, <2>1 DEF m
    <3>2. Append(s, e)[i] = s[i] /\ Append(t, e)[f[i]] = t[f[i]]
      BY <1>2, <2>1, <3>1
    <3>3. QED
      BY <3>1, <3>2
  <2>2. CASE i = m + 1
    BY <1>2, <1>5, <2>2
  <2>3. i \in 1..m \/ i = m + 1
    BY <1>0
  <2>4. QED
    BY <2>1, <2>2, <2>3
<1>8. QED
  BY <1>2, <1>4, <1>6, <1>7 DEF Subsequence

\* The beginning of a subsequence.
LEMMA SubsequencePrefix ==
    ASSUME NEW s, NEW t, NEW r, Len(s) \in Nat, NEW n \in 0..Len(s), Len(r) = n,
           \A i \in 1..n : r[i] = s[i], Subsequence(s, t)
    PROVE  Subsequence(r, t)
<1>1. PICK f \in [1..Len(s) -> 1..Len(t)] :
         /\ \A i, j \in 1..Len(s) : i < j => f[i] < f[j]
         /\ \A i \in 1..Len(s) : s[i] = t[f[i]]
  BY DEF Subsequence
<1>2. \A i \in 1..n : i \in 1..Len(s)
  OBVIOUS
<1> DEFINE g == [i \in 1..n |-> f[i]]
<1>3. g \in [1..n -> 1..Len(t)]
  BY <1>1, <1>2
<1>4. \A i \in 1..n : g[i] = f[i]
  OBVIOUS
<1> HIDE DEF g
<1>5. \A i, j \in 1..n : i < j => g[i] < g[j]
  <2> SUFFICES ASSUME NEW i \in 1..n, NEW j \in 1..n, i < j PROVE g[i] < g[j]
    OBVIOUS
  <2>1. f[i] < f[j]
    BY <1>1, <1>2
  <2>2. QED
    BY <1>4, <2>1
<1>6. \A i \in 1..n : r[i] = t[g[i]]
  BY <1>1, <1>2, <1>4
<1>7. g \in [1..Len(r) -> 1..Len(t)]
  BY <1>3
<1>8. QED
  BY <1>5, <1>6, <1>7 DEF Subsequence

\* A subsequence as long as the sequence is the sequence: the first position
\* that came from another one would have had to come from before its place.
LEMMA SubsequenceFull ==
    ASSUME NEW S, NEW s \in Seq(S), NEW t \in Seq(S), Len(s) = Len(t), Subsequence(s, t)
    PROVE  s = t
<1>1. PICK f \in [1..Len(s) -> 1..Len(t)] :
         /\ \A i, j \in 1..Len(s) : i < j => f[i] < f[j]
         /\ \A i \in 1..Len(s) : s[i] = t[f[i]]
  BY DEF Subsequence
<1> DEFINE n == Len(s)
<1>2. n \in Nat /\ \A i \in 1..n : f[i] \in 1..n /\ i \in Nat /\ f[i] \in Nat
  BY <1>1
<1> HIDE DEF n
<1>3. \A i \in 1..n : i <= f[i]
  <2> DEFINE low == {i \in 1..n : f[i] < i}
  <2>1. SUFFICES ASSUME low # {} PROVE FALSE
    BY <1>2
  <2>2. PICK i \in low : \A j \in low : i <= j
    <3>1. low \subseteq Nat
      BY <1>2
    <3> HIDE DEF low
    <3>2. QED
      BY <2>1, <3>1, LeastNat
  <2>3. CASE i = 1
    BY <1>2, <2>2, <2>3
  <2>4. CASE i # 1
    <3>1. i - 1 \in 1..n /\ i \in 1..n /\ i - 1 < i /\ i - 1 \notin low
      BY <1>2, <2>2, <2>4
    <3>2. i - 1 <= f[i - 1] /\ f[i - 1] < f[i] /\ f[i] < i
      BY <1>1, <1>2, <2>2, <3>1 DEF n
    <3>3. QED
      BY <1>2, <3>1, <3>2
  <2>5. QED
    BY <2>3, <2>4
<1>4. \A i \in 1..n : f[i] <= i
  <2> DEFINE high == {k \in 0..n : n - k \in 1..n /\ n - k < f[n - k]}
  <2>1. SUFFICES ASSUME high # {} PROVE FALSE
    <3>1. ASSUME NEW i \in 1..n, ~(f[i] <= i) PROVE high # {}
      <4>1. n - i \in 0..n /\ n - (n - i) = i
        BY <1>2
      <4>2. i < f[i]
        BY <1>2, <3>1
      <4>3. n - i \in high
        BY <4>1, <4>2
      <4>4. QED
        BY <4>3
    <3>2. QED
      BY <2>1, <3>1
  <2>2. PICK k \in high : \A j \in high : k <= j
    <3>1. high \subseteq Nat
      BY <1>2
    <3> HIDE DEF high
    <3>2. QED
      BY <2>1, <3>1, LeastNat
  <2> DEFINE i == n - k
  <2>3. i \in 1..n /\ i < f[i] /\ k \in 0..n
    BY <2>2
  <2>4. CASE k = 0
    BY <1>2, <2>3, <2>4
  <2>5. CASE k # 0
    <3>1. i + 1 \in 1..n /\ k - 1 \in 0..n /\ n - (k - 1) = i + 1 /\ ~(k <= k - 1)
      BY <1>2, <2>3, <2>5
    <3>2. ~(i + 1 < f[i + 1])
      BY <2>2, <3>1
    <3> HIDE DEF i
    <3>3. i < i + 1
      BY <1>2, <2>3
    <3>4. f[i] < f[i + 1]
      BY <1>1, <2>3, <3>1, <3>3 DEF n
    <3>5. f[i] \in Nat /\ f[i + 1] \in Nat /\ i \in Nat
      BY <1>2, <2>3, <3>1
    <3>6. QED
      BY <2>3, <3>2, <3>4, <3>5
  <2>6. QED
    BY <2>4, <2>5
<1>5. \A i \in 1..n : f[i] = i
  BY <1>2, <1>3, <1>4
<1>6. \A i \in 1..Len(s) : s[i] = t[i]
  BY <1>1, <1>5 DEF n
<1>7. QED
  BY <1>6

\* A hash that grows by a pair stands for one entry more.
LEMMA HashGrows ==
    ASSUME NEW h \in Hash, NEW k \in Key \cup {Foreign}, NEW e \in Entry \cup {Garbled}
    PROVE  /\ Append(h, <<k, e>>) \in Hash
           /\ Len(Append(h, <<k, e>>)) = Len(h) + 1
           /\ Hashed(Append(h, <<k, e>>)) = Append(Hashed(h), e)
<1>1. /\ Append(h, <<k, e>>) \in Hash
      /\ Len(Append(h, <<k, e>>)) = Len(h) + 1
  BY DEF Hash
<1>2. Len(h) \in Nat
  BY DEF Hash
<1> DEFINE new == Append(h, <<k, e>>)
<1>3. /\ \A j \in 1..Len(h) : new[j][2] = h[j][2]
      /\ new[Len(h) + 1][2] = e
  BY DEF Hash
<1> HIDE DEF new
<1>4. Hashed(new) = [j \in 1..(Len(h) + 1) |-> IF j = Len(h) + 1 THEN e ELSE h[j][2]]
  BY <1>1, <1>2, <1>3 DEF Hashed, new
<1>5. Append(Hashed(h), e) = [j \in 1..(Len(h) + 1) |-> IF j = Len(h) + 1 THEN e ELSE h[j][2]]
  BY <1>2 DEF Hashed
<1>6. QED
  BY <1>1, <1>4, <1>5 DEF new

\* The entries a hash stands for.
LEMMA HashedSeq ==
    ASSUME NEW h \in Hash
    PROVE  /\ Hashed(h) \in Seq(Entry \cup {Garbled}) /\ Len(Hashed(h)) = Len(h)
           /\ Len(h) \in Nat /\ (h = <<>> <=> Len(h) = 0)
           /\ \A j \in 1..Len(h) : /\ Hashed(h)[j] = h[j][2] /\ h[j][2] \in Entry \cup {Garbled}
                                   /\ h[j] \in (Key \cup {Foreign}) \X (Entry \cup {Garbled})
<1>1. Len(h) \in Nat /\ h \in Seq((Key \cup {Foreign}) \X (Entry \cup {Garbled}))
  BY DEF Hash
<1>2. \A j \in 1..Len(h) : /\ h[j] \in (Key \cup {Foreign}) \X (Entry \cup {Garbled})
                           /\ h[j][2] \in Entry \cup {Garbled}
  BY <1>1
<1>3. QED
  BY <1>1, <1>2 DEF Hashed

\* The beginning of a hash.
LEMMA HashPrefix ==
    ASSUME NEW h \in Hash, NEW n \in 0..Len(h)
    PROVE  /\ SubSeq(h, 1, n) \in Hash /\ Len(SubSeq(h, 1, n)) = n
           /\ \A j \in 1..n : SubSeq(h, 1, n)[j] = h[j]
           /\ Genuine(h, ledger) /\ n > 0 => Genuine(SubSeq(h, 1, n), ledger)
<1> DEFINE r == SubSeq(h, 1, n)
<1>1. r \in Hash /\ Len(r) = n /\ \A j \in 1..n : r[j] = h[j]
  BY DEF Hash
<1> HIDE DEF r
<1>2. ASSUME Genuine(h, ledger), n > 0 PROVE Genuine(r, ledger)
  <2>1. 1 \in 1..n /\ n \in Nat
    BY <1>2, HashedSeq
  <2>2. r # <<>> /\ r[1] = h[1]
    BY <1>1, <2>1, HashedSeq
  <2>3. CASE h[1] = <<Foreign, Garbled>>
    BY <2>2, <2>3 DEF Genuine
  <2>4. CASE Subsequence(Hashed(h), ledger)
    <3>1. Len(Hashed(h)) = Len(h) /\ Len(h) \in Nat /\ Len(Hashed(r)) = n
      BY <1>1, HashedSeq
    <3>2. \A j \in 1..n : Hashed(r)[j] = Hashed(h)[j]
      <4> SUFFICES ASSUME NEW j \in 1..n PROVE Hashed(r)[j] = Hashed(h)[j]
        OBVIOUS
      <4>1. j \in 1..Len(h) /\ j \in 1..Len(r)
        BY <1>1, <3>1
      <4>2. Hashed(r)[j] = r[j][2] /\ Hashed(h)[j] = h[j][2]
        BY <1>1, <4>1, HashedSeq
      <4>3. QED
        BY <1>1, <4>2
    <3>3. Subsequence(Hashed(r), ledger)
      BY <2>4, <3>1, <3>2, SubsequencePrefix
    <3>4. QED
      BY <3>3 DEF Genuine
  <2>5. QED
    BY <1>2, <2>3, <2>4 DEF Genuine
<1>3. QED
  BY <1>1, <1>2 DEF r

\* The first hash.
LEMMA GenesisGenuine ==
    ASSUME TypeOK
    PROVE  Genesis \in Hash /\ Genuine(Genesis, ledger)
<1>1. Genesis \in Hash /\ Hashed(Genesis) = <<>>
  BY DEF Genesis, Hash, Hashed
<1>2. Len(ledger) \in Nat
  BY DEF TypeOK
<1>3. QED
  BY <1>1, <1>2, SubsequenceEmpty DEF Genuine

\* Whatever the writer puts in a hash column is genuine.
LEMMA KnownGenuine ==
    ASSUME IInv, NEW h \in Known
    PROVE  h \in Hash /\ Genuine(h, ledger) /\ (h # Genesis => Len(h) \in 1..Len(h))
<1>1. CASE h = Genesis
  BY <1>1, GenesisGenuine DEF IInv
<1>2. CASE h = Noise
  <2>1. <<Foreign, Garbled>> \in (Key \cup {Foreign}) \X (Entry \cup {Garbled})
    OBVIOUS
  <2>2. Noise \in Hash /\ Len(Noise) = 1 /\ Noise # <<>> /\ Noise[1] = <<Foreign, Garbled>>
    BY <2>1 DEF Noise, Hash
  <2>3. QED
    BY <1>2, <2>2 DEF Genuine
<1>3. ASSUME NEW a \in anchors, NEW n \in 1..Len(a.tail), h = SubSeq(a.tail, 1, n)
      PROVE  h \in Hash /\ Genuine(h, ledger) /\ Len(h) \in 1..Len(h)
  <2>1. a.tail \in Hash /\ Genuine(a.tail, ledger)
    BY DEF IInv, TypeOK, Hashes, Anchor
  <2>2. n \in 0..Len(a.tail) /\ n > 0 /\ n \in Nat
    BY <2>1, HashedSeq
  <2>3. QED
    BY <1>3, <2>1, <2>2, HashPrefix
<1>4. QED
  BY <1>1, <1>2, <1>3 DEF Known

\* The fields of a row and of an anchor.
LEMMA RowFields ==
    ASSUME TypeOK, NEW i \in 1..Len(log)
    PROVE  /\ log[i] \in Row
           /\ log[i].seq \in Nat /\ log[i].entry \in Entry \cup {Garbled}
           /\ log[i].prev \in Hash /\ log[i].hash \in Hash
           /\ Len(log[i].hash) \in Nat
<1>1. log[i] \in Row
  BY DEF TypeOK
<1>2. /\ log[i].seq \in Nat /\ log[i].entry \in Entry \cup {Garbled}
      /\ log[i].prev \in Hash /\ log[i].hash \in Hash
  BY <1>1 DEF Row
<1>3. QED
  BY <1>1, <1>2, HashedSeq

\* The tail of the table.
LEMMA TailFacts ==
    ASSUME IInv
    PROVE  TailHash(log) \in Hash /\ Genuine(TailHash(log), ledger)
<1>1. CASE log = <<>>
  BY <1>1, GenesisGenuine DEF TailHash, IInv
<1>2. CASE log # <<>>
  <2>1. Len(log) \in 1..Len(log) /\ TailHash(log) = log[Len(log)].hash
    BY <1>2, EmptySeq DEF TailHash, IInv, TypeOK
  <2>2. QED
    BY <2>1, RowFields DEF IInv, Hashes
<1>3. QED
  BY <1>1, <1>2

\* A direct write is remembered.
LEMMA DamageGrows ==
    ASSUME NEW kind, Damages(kind), NEW kinds
    PROVE  Free(kinds)' <=> Free(kinds) /\ kind \notin kinds
  BY DEF Damages, Free
-----------------------------------------------------------------------------
\* In a sound log the hash of row i stands for i entries.
LEMMA SoundLengths ==
    ASSUME TypeOK, Sound(log, key)
    PROVE  /\ \A i \in 1..Len(log) : Len(log[i].hash) = i
           /\ Hashed(TailHash(log)) = Contents(log)
<1>1. \A i \in Nat : Len(Chain(log, key, i)) = i
  BY DEF Chain
<1>2. TailHash(log) = Chain(log, key, Len(log))
  BY SoundTail DEF TypeOK
<1>3. Hashed(Chain(log, key, Len(log))) = Contents(log)
  <2>1. Len(log) \in Nat
    BY DEF TypeOK
  <2>2. Len(Chain(log, key, Len(log))) = Len(log)
    BY <1>1, <2>1
  <2>3. \A j \in 1..Len(log) : Chain(log, key, Len(log))[j][2] = log[j].entry
    BY DEF Chain
  <2>4. QED
    BY <2>2, <2>3 DEF Hashed, Contents
<1>4. QED
  BY <1>1, <1>2, <1>3 DEF Sound

\* A clean verdict: the rows are sound and stand for entries of the ledger, and
\* the table is empty or the anchor describes it.
LEMMA CleanFacts ==
    ASSUME IInv, Verdict = "valid"
    PROVE  /\ Sound(log, key)
           /\ Subsequence(Contents(log), ledger)
           /\ log = <<>> => anchor = NoAnchor
           /\ log # <<>> => /\ Trusted /\ anchor.key = key
                            /\ anchor.entries = Len(log)
                            /\ anchor.tail = TailHash(log)
<1>1. Sound(log, key) /\ AnchorVerdict(log, anchor, key) = "valid"
  BY VerifyValid, ValidIsSound DEF IInv, TypeOK, Verdict
<1>2. log = <<>> => anchor = NoAnchor
  <2>1. log = <<>> => Len(log) = 0
    OBVIOUS
  <2>2. QED
    BY <1>1, <2>1 DEF AnchorVerdict
<1>3. log # <<>> => /\ anchor # NoAnchor /\ anchor.key = key
                    /\ anchor.entries = Len(log) /\ anchor.tail = TailHash(log)
  BY <1>1 DEF AnchorVerdict
<1>4. log # <<>> => Trusted
  BY <1>3, KeyAssumption DEF Trusted, IInv, TypeOK
<1>5. Subsequence(Contents(log), ledger)
  <2>1. Hashed(TailHash(log)) = Contents(log)
    BY <1>1, SoundLengths DEF IInv
  <2>2. Genuine(TailHash(log), ledger)
    BY TailFacts
  <2>3. ~(TailHash(log) # <<>> /\ TailHash(log)[1] = <<Foreign, Garbled>>)
    <3>1. CASE log = <<>>
      BY <3>1 DEF TailHash, Genesis
    <3>2. CASE log # <<>>
      <4>1. Len(log) \in 1..Len(log) /\ TailHash(log) = log[Len(log)].hash
        BY <3>2, EmptySeq DEF TailHash, IInv, TypeOK
      <4>2. log[Len(log)].hash[1] = <<key, log[1].entry>>
        BY <4>1, ValidMeansSound DEF IInv, TypeOK, Verdict
      <4>3. key # Foreign
        BY KeyAssumption DEF IInv, TypeOK
      <4>4. QED
        BY <4>1, <4>2, <4>3
    <3>3. QED
      BY <3>1, <3>2
  <2>4. QED
    BY <2>1, <2>2, <2>3 DEF Genuine
<1>6. QED
  BY <1>1, <1>2, <1>3, <1>4, <1>5

\* A clean verdict where no number, row or anchor was put back.
LEMMA CompleteFacts ==
    ASSUME IInv, Verdict = "valid", log # <<>>,
           Free({"renumber", "insert", "sequence", "anchor_restored"})
    PROVE  Contents(log) = ledger
<1>1. /\ Sound(log, key) /\ Subsequence(Contents(log), ledger)
      /\ Trusted /\ anchor.entries = Len(log)
  BY CleanFacts
<1>2. rowid = Len(ledger) /\ LastSeq = rowid
  BY <1>1 DEF IInv, Whole
<1>3. Len(log) \in 1..Len(log) /\ Len(log) \in Nat /\ log \in Seq(Row)
  BY EmptySeq DEF IInv, TypeOK
<1>4. LastSeq = Len(log)
  BY <1>1, <1>3 DEF LastSeq, Sound
<1>5. Len(Contents(log)) = Len(ledger)
  BY <1>2, <1>3, <1>4 DEF Contents
<1>6. \A i \in 1..Len(log) : log[i].entry \in Entry \cup {Garbled}
  BY RowFields DEF IInv
<1>7. Contents(log) \in Seq(Entry \cup {Garbled})
  BY <1>3, <1>6 DEF Contents
<1>8. ledger \in Seq(Entry \cup {Garbled})
  <2>1. ledger \in Seq(Entry)
    BY DEF IInv, TypeOK
  <2>2. QED
    BY <2>1
<1>9. QED
  BY <1>1, <1>5, <1>7, <1>8, SubsequenceFull

\* The verdicts of a row and of the anchor.
LEMMA VerdictRange ==
    ASSUME NEW i
    PROVE  /\ RowVerdict(log, key, i) \in {"corrupt", "gap", "broken_link", "modified", "valid"}
           /\ AnchorVerdict(log, anchor, key) \in {"error", "truncated", "anchor_invalid", "valid"}
  BY DEF RowVerdict, AnchorVerdict

\* Why each verdict is given.
Explained ==
    /\ Verdict = "corrupt" => ~Free({"garble", "insert"})
    /\ Verdict = "modified" => ~Free({"edit", "relink", "rehash", "insert"})
    /\ Verdict = "gap" => ~Free({"remove", "renumber", "insert", "sequence"})
    /\ Verdict = "broken_link" => ~Free({"relink", "rehash", "renumber", "insert"})
    /\ Verdict = "truncated" => ~Free({"remove"})
    /\ Verdict = "anchor_invalid" =>
          ~Free({"anchor_lost", "anchor_restored", "remove", "insert", "rehash"})
    /\ Verdict = "error" => ~Free({"anchor_rewritten", "anchor_restored"})

\* The walk stops at a row for a reason.
LEMMA RowCauses ==
    ASSUME IInv, NEW i \in 1..Len(log), Verdict = RowVerdict(log, key, i),
           RowVerdict(log, key, i) # "valid",
           \A j \in 1..Len(log) : j < i => RowVerdict(log, key, j) = "valid"
    PROVE  Explained /\ Verdict \in {"corrupt", "gap", "broken_link", "modified"}
<1>1. Verdict = "corrupt" => ~Free({"garble", "insert"})
  BY DEF IInv, Columns, RowVerdict
<1>2. Verdict = "gap" => ~Free({"remove", "renumber", "insert", "sequence"})
  BY DEF IInv, Numbered, RowVerdict
<1>3. Verdict = "modified" => ~Free({"edit", "relink", "rehash", "insert"})
  BY DEF IInv, Columns, RowVerdict, compute_entry_hash
<1>4. ASSUME Verdict = "broken_link", Free({"relink", "rehash", "renumber", "insert"}) PROVE FALSE
  <2>1. /\ log[i].seq = i /\ log[i].prev # TailHash(SubSeq(log, 1, i - 1))
    BY <1>4 DEF RowVerdict
  <2>2. log \in Seq(Row) /\ Len(log) \in Nat /\ i \in Nat
    BY DEF IInv, TypeOK
  <2>3. CASE i = 1
    <3>1. Len(log) > 0
      BY <2>2
    <3>2. QED
      BY <1>4, <2>1, <2>2, <2>3, <3>1, TailOfPrefix DEF IInv, Links
  <2>4. CASE i # 1
    <3>1. i - 1 \in 1..Len(log) /\ i \in 2..Len(log) /\ i - 1 < i
      BY <2>2, <2>4
    <3>2. log[i - 1].seq = i - 1
      BY <3>1 DEF RowVerdict
    <3>3. log[i].seq = log[i - 1].seq + 1
      BY <2>1, <2>2, <3>2
    <3>4. log[i].prev = log[i - 1].hash
      BY <1>4, <3>1, <3>3 DEF IInv, Links
    <3>5. QED
      BY <2>1, <2>2, <2>4, <3>4, TailOfPrefix
  <2>5. QED
    BY <2>3, <2>4
<1>5. Verdict \in {"corrupt", "gap", "broken_link", "modified"}
  BY VerdictRange
<1>6. QED
  BY <1>1, <1>2, <1>3, <1>4, <1>5 DEF Explained

\* The anchor is refused for a reason.
LEMMA AnchorCauses ==
    ASSUME IInv, Sound(log, key), Verdict = AnchorVerdict(log, anchor, key)
    PROVE  Explained
<1>1. Len(log) \in Nat /\ log \in Seq(Row) /\ (log = <<>> <=> Len(log) = 0)
  BY EmptySeq DEF IInv, TypeOK
<1>2. anchor # NoAnchor => anchor.entries \in Nat \ {0}
  BY DEF IInv, TypeOK, Anchor
<1>3. ASSUME Verdict = "error", Free({"anchor_rewritten", "anchor_restored"}) PROVE FALSE
  <2>1. anchor # NoAnchor /\ anchor.key # key
    BY <1>3 DEF AnchorVerdict
  <2>2. Free({"anchor_rewritten"}) /\ Free({"anchor_restored"})
    BY <1>3 DEF Free
  <2>3. QED
    BY <2>1, <2>2 DEF IInv, Authentic
<1>4. ASSUME Verdict = "truncated", Free({"remove"}) PROVE FALSE
  <2>1. anchor # NoAnchor /\ anchor.key = key /\ anchor.entries > Len(log)
    BY <1>4 DEF AnchorVerdict
  <2>2. Trusted
    BY <2>1, KeyAssumption DEF Trusted, IInv, TypeOK
  <2>3. anchor.entries <= Len(log)
    BY <1>4, <2>2 DEF IInv, Authentic, Counts
  <2>4. QED
    BY <1>1, <1>2, <2>1, <2>3
<1>5. ASSUME Verdict = "anchor_invalid",
             Free({"anchor_lost", "anchor_restored", "remove", "insert", "rehash"})
      PROVE  FALSE
  <2>1. /\ Free({"anchor_lost", "insert"})
        /\ Free({"remove", "insert", "rehash", "anchor_restored"})
        /\ Free({"remove", "insert", "rehash"})
    BY <1>5 DEF Free
  <2>2. anchor # NoAnchor
    BY <1>5, <2>1 DEF AnchorVerdict, IInv, Authentic
  <2>3. /\ anchor.key = key /\ ~(anchor.entries > Len(log))
        /\ anchor.entries # Len(log) \/ log = <<>> \/ anchor.tail # TailHash(log)
    BY <1>5, <2>2 DEF AnchorVerdict
  <2>4. Trusted
    BY <2>2, <2>3, KeyAssumption DEF Trusted, IInv, TypeOK
  <2>5. /\ anchor.entries = Len(log)
        /\ \A i \in 1..Len(log) : Len(log[i].hash) = Len(log) => log[i].hash = anchor.tail
    BY <2>1, <2>4 DEF IInv, Counts
  <2>6. log # <<>> /\ Len(log) \in 1..Len(log)
    BY <1>1, <1>2, <2>2, <2>5
  <2>7. Len(log[Len(log)].hash) = Len(log)
    BY <2>6, SoundLengths DEF IInv
  <2>8. anchor.tail = TailHash(log)
    BY <2>5, <2>6, <2>7 DEF TailHash
  <2>9. QED
    BY <2>3, <2>5, <2>6, <2>8
<1>6. Verdict \in {"error", "truncated", "anchor_invalid", "valid"}
  BY VerdictRange
<1>7. QED
  BY <1>3, <1>4, <1>5, <1>6 DEF Explained

\* Every verdict other than valid has its cause.
LEMMA CauseFacts ==
    ASSUME IInv
    PROVE  /\ Explained
           /\ Verdict \in {"corrupt", "gap", "broken_link", "modified", "error", "truncated",
                           "anchor_invalid", "valid"}
<1> DEFINE broken == {i \in 1..Len(log) : RowVerdict(log, key, i) # "valid"}
<1>1. CASE broken # {}
  <2>1. \E i \in broken : \A j \in broken : i <= j
    <3>1. broken \subseteq Nat
      OBVIOUS
    <3> HIDE DEF broken
    <3>2. QED
      BY <1>1, <3>1, LeastNat
  <2>2. PICK i \in broken : i = CHOOSE x \in broken : \A j \in broken : x <= j
    BY <2>1
  <2>3. \A j \in broken : i <= j
    BY <2>1, <2>2
  <2>4. /\ Verdict = RowVerdict(log, key, i)
        /\ \A j \in 1..Len(log) : j < i => RowVerdict(log, key, j) = "valid"
        /\ i \in 1..Len(log) /\ RowVerdict(log, key, i) # "valid"
    BY <1>1, <2>2, <2>3 DEF Verdict, verify
  <2>5. QED
    BY <2>4, RowCauses
<1>2. CASE broken = {}
  <2>1. Verdict = AnchorVerdict(log, anchor, key)
    BY <1>2 DEF Verdict, verify
  <2>2. Sound(log, key)
    BY <1>2, ValidIsSound DEF RowsValid, IInv, TypeOK
  <2>3. QED
    BY <2>1, <2>2, AnchorCauses, VerdictRange
<1>3. QED
  BY <1>1, <1>2
-----------------------------------------------------------------------------
\* The number an append gives is above every other.
LEMMA SeqFacts ==
    ASSUME TypeOK
    PROVE  /\ LastSeq \in Nat /\ NextSeq \in Nat /\ NextSeq > 0
           /\ NextSeq > LastSeq /\ NextSeq > rowid
           /\ LastSeq <= rowid => NextSeq = rowid + 1
           /\ \A i \in 1..Len(log) : log[i].seq <= LastSeq
<1>1. Len(log) \in Nat /\ rowid \in Nat /\ (log = <<>> <=> Len(log) = 0)
  BY EmptySeq DEF TypeOK
<1>2. LastSeq \in Nat
  <2>1. log # <<>> => Len(log) \in 1..Len(log)
    BY <1>1
  <2>2. QED
    BY <2>1, RowFields DEF LastSeq
<1>3. \A i \in 1..Len(log) : log[i].seq <= LastSeq
  <2> SUFFICES ASSUME NEW i \in 1..Len(log) PROVE log[i].seq <= LastSeq
    OBVIOUS
  <2>1. Len(log) \in 1..Len(log) /\ log # <<>> /\ LastSeq = log[Len(log)].seq
    BY <1>1 DEF LastSeq
  <2>2. log[i].seq \in Nat /\ log[Len(log)].seq \in Nat
    BY <2>1, RowFields
  <2>3. i < Len(log) => log[i].seq < log[Len(log)].seq
    BY <2>1 DEF TypeOK
  <2>4. QED
    BY <1>1, <2>1, <2>2, <2>3
<1>4. QED
  BY <1>1, <1>2, <1>3 DEF NextSeq

\* The facts about an append that the rest is about.
LEMMA AppendFacts ==
    ASSUME IInv, NEW e \in Entry, append(e)
    PROVE  /\ Len(log) \in Nat /\ Len(log') = Len(log) + 1
           /\ \A i \in 1..Len(log) : log'[i] = log[i]
           /\ log'[Len(log) + 1].seq = NextSeq
           /\ log'[Len(log) + 1].entry = e
           /\ log'[Len(log) + 1].prev = TailHash(log)
           /\ log'[Len(log) + 1].hash = Append(TailHash(log), <<key, e>>)
           /\ log' \in Seq(Row) /\ log' # <<>> /\ LastSeq' = NextSeq
           /\ anchor' \in Anchor /\ anchor' # NoAnchor /\ Trusted'
           /\ anchor'.entries = Len(log) + 1
           /\ anchor'.tail = Append(TailHash(log), <<key, e>>)
           /\ anchor'.key = key
           /\ anchors' = anchors \cup {anchor'}
           /\ rowid' = NextSeq /\ ledger' = Append(ledger, e)
           /\ key' = key /\ damage' = damage /\ writes' = writes
<1>1. log \in Seq(Row) /\ key \in Key /\ NextSeq \in Nat
  BY SeqFacts DEF IInv, TypeOK
<1>2. PICK row : row = [seq |-> NextSeq, entry |-> e, prev |-> TailHash(log),
                        hash |-> Append(TailHash(log), <<key, e>>)]
  OBVIOUS
<1>3. /\ row.seq = NextSeq /\ row.entry = e /\ row.prev = TailHash(log)
      /\ row.hash = Append(TailHash(log), <<key, e>>)
  BY <1>2
<1>4. Append(TailHash(log), <<key, e>>) \in Hash /\ TailHash(log) \in Hash
  BY <1>1, TailFacts, HashGrows
<1>5. row \in Row
  <2>1. NextSeq \in Nat /\ e \in Entry \cup {Garbled}
    BY <1>1
  <2>2. QED
    BY <1>2, <1>4, <2>1 DEF Row
<1>6. log' = Append(log, row)
  BY <1>2 DEF append, Extended, compute_entry_hash
<1>7. /\ Len(log) \in Nat /\ Len(log') = Len(log) + 1 /\ log' \in Seq(Row) /\ log' # <<>>
      /\ \A i \in 1..Len(log) : log'[i] = log[i]
      /\ log'[Len(log) + 1] = row
  BY <1>1, <1>5, <1>6
<1>8. TailHash(log') = Append(TailHash(log), <<key, e>>) /\ LastSeq' = NextSeq
  BY <1>3, <1>7 DEF TailHash, LastSeq
<1>9. PICK a : a = [entries |-> Len(log) + 1, tail |-> Append(TailHash(log), <<key, e>>),
                    key |-> key]
  OBVIOUS
<1>10. anchor' = a
  BY <1>7, <1>8, <1>9 DEF append, Anchored
<1>11. a \in Anchor
  <2>1. Len(log) + 1 \in Nat \ {0} /\ key \in Key \cup {Foreign}
    BY <1>1, <1>7
  <2>2. QED
    BY <1>4, <1>9, <2>1 DEF Anchor
<1>12. /\ a.entries = Len(log) + 1 /\ a.tail = Append(TailHash(log), <<key, e>>) /\ a.key = key
  BY <1>9
<1>13. a # NoAnchor /\ Trusted'
  BY <1>1, <1>10, <1>11, <1>12, KeyAssumption, NoAnchorAssumption DEF Trusted
<1>14. /\ rowid' = NextSeq /\ ledger' = Append(ledger, e) /\ anchors' = anchors \cup {anchor'}
       /\ key' = key /\ damage' = damage /\ writes' = writes
  BY DEF append
<1>15. QED
  BY <1>3, <1>7, <1>8, <1>10, <1>11, <1>12, <1>13, <1>14

\* A hash stays genuine when an entry is appended, and one that continues it
\* with the entry is genuine too.
LEMMA GenuineGrows ==
    ASSUME TypeOK, NEW h \in Hash, Genuine(h, ledger), NEW e \in Entry, NEW k \in Key
    PROVE  /\ Genuine(h, Append(ledger, e))
           /\ Genuine(Append(h, <<k, e>>), Append(ledger, e))
<1> DEFINE g == Append(h, <<k, e>>)
           E == Entry \cup {Garbled}
<1>1. /\ g \in Hash /\ Hashed(g) = Append(Hashed(h), e) /\ Len(g) = Len(h) + 1
  BY HashGrows DEF TypeOK
<1>2. Hashed(h) \in Seq(E) /\ Len(h) \in Nat /\ e \in E
  BY HashedSeq
<1>3. ledger \in Seq(E)
  <2>1. ledger \in Seq(Entry)
    BY DEF TypeOK
  <2>2. QED
    BY <2>1
<1>4. CASE h # <<>> /\ h[1] = <<Foreign, Garbled>>
  <2>1. 1 \in 1..Len(h) /\ h \in Seq((Key \cup {Foreign}) \X (Entry \cup {Garbled}))
    BY <1>4, HashedSeq DEF Hash
  <2>2. g # <<>> /\ g[1] = h[1]
    BY <2>1
  <2> HIDE DEF g
  <2>3. QED
    BY <1>4, <2>2 DEF Genuine, g
<1>5. CASE Subsequence(Hashed(h), ledger)
  <2> HIDE DEF g, E
  <2>1. Subsequence(Hashed(h), Append(ledger, e))
    BY <1>2, <1>3, <1>5, SubsequenceLonger
  <2>2. Subsequence(Append(Hashed(h), e), Append(ledger, e))
    BY <1>2, <1>3, <1>5, SubsequenceGrows
  <2>3. QED
    BY <1>1, <2>1, <2>2 DEF Genuine, g
<1>6. QED
  BY <1>4, <1>5 DEF Genuine

\* An append keeps the invariant: its number is the last, its hash the longest.
LEMMA AppendInv ==
    ASSUME IInv, NEW e \in Entry, append(e)
    PROVE  IInv'
<1> DEFINE n == Len(log) + 1
           T == TailHash(log)
           H == Append(T, <<key, e>>)
<1>1. /\ Len(log) \in Nat /\ Len(log') = n
      /\ \A i \in 1..Len(log) : log'[i] = log[i]
      /\ log'[n].seq = NextSeq /\ log'[n].entry = e /\ log'[n].prev = T /\ log'[n].hash = H
      /\ log' \in Seq(Row) /\ log' # <<>> /\ LastSeq' = NextSeq
  BY AppendFacts
<1>2. /\ anchor' \in Anchor /\ anchor' # NoAnchor /\ Trusted'
      /\ anchor'.entries = n /\ anchor'.tail = H /\ anchor'.key = key
      /\ anchors' = anchors \cup {anchor'}
  BY AppendFacts
<1>3. /\ rowid' = NextSeq /\ ledger' = Append(ledger, e)
      /\ key' = key /\ damage' = damage /\ writes' = writes
  BY AppendFacts
<1>4. T \in Hash /\ Genuine(T, ledger) /\ Len(T) \in Nat /\ Len(H) = Len(T) + 1
  <2>1. T \in Hash /\ Genuine(T, ledger) /\ key \in Key \cup {Foreign} /\ e \in Entry \cup {Garbled}
    BY TailFacts DEF IInv, TypeOK
  <2> HIDE DEF T
  <2>2. QED
    BY <2>1, HashGrows, HashedSeq
<1>5. /\ LastSeq \in Nat /\ NextSeq \in Nat /\ NextSeq > 0 /\ NextSeq > LastSeq
      /\ LastSeq <= rowid => NextSeq = rowid + 1
      /\ \A i \in 1..Len(log) : log[i].seq <= LastSeq /\ log[i].seq \in Nat
      /\ rowid \in Nat
  BY SeqFacts, RowFields DEF IInv, TypeOK
<1> HIDE DEF n, T, H
<1>6. n \in Nat /\ \A i \in 1..n : i \in 1..Len(log) \/ i = n
  BY <1>1 DEF n
<1>7. n \notin 1..Len(log) /\ n \in 1..n
  BY <1>1 DEF n
<1>8. TypeOK'
  <2>1. \A i, j \in 1..Len(log') : i < j => log'[i].seq < log'[j].seq
    <3> SUFFICES ASSUME NEW i \in 1..n, NEW j \in 1..n, i < j
                 PROVE  log'[i].seq < log'[j].seq
      BY <1>1
    <3>1. i \in 1..Len(log)
      BY <1>1 DEF n
    <3>2. CASE j \in 1..Len(log)
      <4>1. log[i].seq < log[j].seq
        BY <3>1, <3>2 DEF IInv, TypeOK
      <4>2. QED
        BY <1>1, <3>1, <3>2, <4>1
    <3>3. CASE j = n
      <4>1. log[i].seq < NextSeq
        BY <1>5, <3>1
      <4>2. QED
        BY <1>1, <3>1, <3>3, <4>1
    <3>4. QED
      BY <1>6, <3>2, <3>3
  <2>2. ledger' \in Seq(Entry)
    BY <1>3 DEF IInv, TypeOK
  <2>3. QED
    BY <1>1, <1>2, <1>3, <1>5, <2>1, <2>2 DEF IInv, TypeOK
<1>9. Hashes'
  <2>1. Genuine(H, ledger')
    BY <1>3, <1>4, GenuineGrows DEF IInv, TypeOK, H
  <2>2. \A a \in anchors : Genuine(a.tail, ledger')
    <3> SUFFICES ASSUME NEW a \in anchors PROVE Genuine(a.tail, ledger')
      OBVIOUS
    <3>1. a.tail \in Hash /\ Genuine(a.tail, ledger)
      BY DEF IInv, TypeOK, Anchor, Hashes
    <3>2. QED
      BY <1>3, <3>1, GenuineGrows DEF IInv, TypeOK
  <2>3. \A i \in 1..Len(log) : Genuine(log'[i].hash, ledger')
    <3> SUFFICES ASSUME NEW i \in 1..Len(log) PROVE Genuine(log'[i].hash, ledger')
      OBVIOUS
    <3>1. log[i].hash \in Hash /\ Genuine(log[i].hash, ledger) /\ log'[i] = log[i]
      BY <1>1, RowFields DEF IInv, Hashes
    <3>2. QED
      BY <1>3, <3>1, GenuineGrows DEF IInv, TypeOK
  <2>4. QED
    BY <1>1, <1>2, <1>6, <2>1, <2>2, <2>3 DEF Hashes
<1>10. \A S : Free(S)' <=> Free(S)
  BY <1>3 DEF Free
<1>11. Authentic'
  BY <1>1, <1>2, <1>3 DEF IInv, Authentic, Trusted
<1>12. Columns'
  <2>1. e # Garbled
    BY KeyAssumption
  <2>2. log'[n].hash = Append(log'[n].prev, <<key, log'[n].entry>>)
    BY <1>1 DEF H
  <2>3. QED
    BY <1>1, <1>3, <1>6, <1>10, <2>1, <2>2 DEF IInv, Columns
<1>13. Numbered'
  <2> SUFFICES ASSUME Free({"remove", "renumber", "insert", "sequence"})
               PROVE  NextSeq = n /\ \A i \in 1..n : log'[i].seq = i
    BY <1>1, <1>3, <1>10 DEF Numbered
  <2>1. rowid = Len(log) /\ \A i \in 1..Len(log) : log[i].seq = i
    BY DEF IInv, Numbered
  <2>2. LastSeq <= rowid
    <3>1. log # <<>> => Len(log) \in 1..Len(log)
      BY EmptySeq DEF IInv, TypeOK
    <3>2. QED
      BY <1>1, <1>5, <2>1, <3>1 DEF LastSeq
  <2>3. NextSeq = n
    BY <1>5, <2>1, <2>2 DEF n
  <2>4. QED
    BY <1>1, <1>6, <2>1, <2>3
<1>14. Links'
  <2> SUFFICES ASSUME Free({"relink", "rehash", "renumber", "insert"})
               PROVE  /\ \A i \in 1..n : log'[i].seq > 0
                      /\ \A i \in 2..n : log'[i].seq = log'[i - 1].seq + 1 =>
                            log'[i].prev = log'[i - 1].hash
                      /\ log'[1].seq = 1 => log'[1].prev = Genesis
    BY <1>1, <1>10 DEF Links
  <2>1. /\ \A i \in 1..Len(log) : log[i].seq > 0
        /\ \A i \in 2..Len(log) : log[i].seq = log[i - 1].seq + 1 =>
              log[i].prev = log[i - 1].hash
        /\ Len(log) > 0 /\ log[1].seq = 1 => log[1].prev = Genesis
    BY DEF IInv, Links
  <2>2. \A i \in 1..n : log'[i].seq > 0
    BY <1>1, <1>5, <1>6, <2>1
  <2>3. ASSUME NEW i \in 2..n, log'[i].seq = log'[i - 1].seq + 1
        PROVE  log'[i].prev = log'[i - 1].hash
    <3>1. i - 1 \in 1..Len(log) /\ i \in 1..n
      BY <1>1, <2>3 DEF n
    <3>2. CASE i \in 1..Len(log)
      <4>1. i \in 2..Len(log)
        BY <3>2, <2>3
      <4>2. QED
        BY <1>1, <2>1, <2>3, <3>1, <3>2, <4>1
    <3>3. CASE i = n
      <4>1. i - 1 = Len(log) /\ log # <<>>
        BY <1>1, <3>1, <3>3 DEF n
      <4>2. T = log[i - 1].hash
        BY <4>1 DEF T, TailHash
      <4>3. QED
        BY <1>1, <3>1, <3>3, <4>2
    <3>4. QED
      BY <1>6, <3>1, <3>2, <3>3
  <2>4. ASSUME log'[1].seq = 1 PROVE log'[1].prev = Genesis
    <3>1. CASE log = <<>>
      <4>1. n = 1 /\ T = Genesis
        BY <3>1 DEF n, T, TailHash
      <4>2. QED
        BY <1>1, <4>1
    <3>2. CASE log # <<>>
      <4>1. 1 \in 1..Len(log) /\ Len(log) > 0
        BY <3>2, EmptySeq DEF IInv, TypeOK
      <4>2. QED
        BY <1>1, <2>1, <2>4, <4>1
    <3>3. QED
      BY <3>1, <3>2
  <2>5. QED
    BY <2>2, <2>3, <2>4
<1>15. Counts'
  <2>1. ASSUME Free({"remove"}) PROVE \A a \in anchors' : a.entries <= n
    <3>1. \A a \in anchors : a.entries <= Len(log) /\ a.entries \in Nat
      BY <2>1 DEF IInv, Counts, TypeOK, Anchor
    <3>2. \A a \in anchors : a.entries <= n
      BY <1>1, <3>1 DEF n
    <3>3. QED
      BY <1>2, <1>6, <3>2
  <2>2. ASSUME Free({"remove", "insert", "rehash"})
        PROVE  \A i \in 1..n : /\ Len(log'[i].hash) <= n
                               /\ Len(log'[i].hash) = n => i = n
    <3>1. \A i \in 1..Len(log) : Len(log[i].hash) <= Len(log) /\ Len(log[i].hash) \in Nat
      BY <2>2, RowFields DEF IInv, Counts
    <3>2. Len(T) <= Len(log)
      <4>1. CASE log = <<>>
        BY <4>1 DEF T, TailHash, Genesis
      <4>2. CASE log # <<>>
        <5>1. Len(log) \in 1..Len(log)
          BY <4>2, EmptySeq DEF IInv, TypeOK
        <5>2. QED
          BY <3>1, <4>2, <5>1 DEF T, TailHash
      <4>3. QED
        BY <4>1, <4>2
    <3>3. Len(H) <= n
      BY <1>1, <1>4, <3>2 DEF n
    <3>4. \A i \in 1..Len(log) : Len(log'[i].hash) < n
      BY <1>1, <3>1 DEF n
    <3> SUFFICES ASSUME NEW i \in 1..n
                 PROVE  Len(log'[i].hash) <= n /\ (Len(log'[i].hash) = n => i = n)
      OBVIOUS
    <3>5. CASE i \in 1..Len(log)
      <4>1. Len(log'[i].hash) < n /\ Len(log'[i].hash) \in Nat
        BY <1>1, <3>1, <3>4, <3>5
      <4>2. QED
        BY <1>6, <4>1
    <3>6. CASE i = n
      BY <1>1, <3>3, <3>6
    <3>7. QED
      BY <1>6, <3>5, <3>6
  <2>3. Free({"remove", "insert", "rehash", "anchor_restored"}) => Free({"remove", "insert", "rehash"})
    BY DEF Free
  <2>4. QED
    BY <1>1, <1>2, <1>10, <2>1, <2>2, <2>3 DEF Counts
<1>16. Whole'
  <2> SUFFICES ASSUME Free({"renumber", "insert", "sequence", "anchor_restored"})
               PROVE  /\ NextSeq = Len(ledger')
                      /\ \A i \in 1..n : log'[i].seq <= NextSeq
    BY <1>1, <1>2, <1>3, <1>6, <1>10 DEF Whole
  <2>1. rowid = Len(ledger) /\ \A i \in 1..Len(log) : log[i].seq <= rowid
    BY DEF IInv, Whole
  <2>2. LastSeq <= rowid
    <3>1. log # <<>> => Len(log) \in 1..Len(log)
      BY EmptySeq DEF IInv, TypeOK
    <3>2. QED
      BY <1>5, <2>1, <3>1 DEF LastSeq
  <2>3. NextSeq = Len(ledger')
    <3>1. Len(ledger') = Len(ledger) + 1
      BY <1>3 DEF IInv, TypeOK
    <3>2. QED
      BY <1>5, <2>1, <2>2, <3>1
  <2>4. \A i \in 1..n : log'[i].seq <= NextSeq
    BY <1>1, <1>5, <1>6
  <2>5. QED
    BY <2>3, <2>4
<1>17. QED
  BY <1>8, <1>9, <1>11, <1>12, <1>13, <1>14, <1>15, <1>16 DEF IInv

\* A rotation rewrites a chain that verified under the new key.
LEMMA RekeyInv ==
    ASSUME IInv, NEW new \in Key, rekey_chain(new)
    PROVE  /\ IInv'
           /\ Contents(log') = Contents(log)
           /\ Verdict = "valid" /\ Verdict' = "valid"
<1>1. /\ Verdict = "valid" /\ log' = Rekeyed(log, new) /\ key' = new
      /\ anchor' = (IF log = <<>> THEN anchor ELSE Anchored(log', new))
      /\ anchors' = (IF log = <<>> THEN anchors ELSE anchors \cup {anchor'})
      /\ rowid' = rowid /\ ledger' = ledger /\ damage' = damage /\ writes' = writes
  BY DEF rekey_chain, Verdict
<1>2. log \in Seq(Row) /\ Len(log) \in Nat /\ rowid \in Nat
  BY DEF IInv, TypeOK
<1>3. /\ Len(log') = Len(log)
      /\ \A i \in 1..Len(log) : /\ log'[i].seq = log[i].seq
                                /\ log'[i].entry = log[i].entry
                                /\ log'[i].prev = Chain(log, new, i - 1)
                                /\ log'[i].hash = Chain(log, new, i)
  BY <1>1, <1>2, RekeyedRows
<1>4. /\ Sound(log, key) /\ Subsequence(Contents(log), ledger)
      /\ log = <<>> => anchor = NoAnchor
      /\ log # <<>> => Trusted /\ anchor.entries = Len(log)
  BY <1>1, CleanFacts
<1>5. \A i \in 1..Len(log) : log[i].entry \in Entry /\ log[i].seq = i /\ log[i].entry # Garbled
  BY <1>4, RowFields DEF Sound, IInv
<1>6. \A i \in 0..Len(log) : /\ Chain(log, new, i) \in Hash
                             /\ Len(Chain(log, new, i)) = i
                             /\ Genuine(Chain(log, new, i), ledger)
  <2> SUFFICES ASSUME NEW i \in 0..Len(log)
               PROVE  /\ Chain(log, new, i) \in Hash /\ Len(Chain(log, new, i)) = i
                      /\ Genuine(Chain(log, new, i), ledger)
    OBVIOUS
  <2>1. i \in Nat /\ \A j \in 1..i : j \in 1..Len(log)
    BY <1>2
  <2>2. \A j \in 1..i : <<new, log[j].entry>> \in (Key \cup {Foreign}) \X (Entry \cup {Garbled})
    BY <1>5, <2>1
  <2>3. Chain(log, new, i) \in Hash /\ Len(Chain(log, new, i)) = i
    BY <2>1, <2>2 DEF Chain, Hash
  <2>4. \A j \in 1..i : Chain(log, new, i)[j][2] = log[j].entry
    BY DEF Chain
  <2>5. /\ Len(Hashed(Chain(log, new, i))) = i
        /\ \A j \in 1..i : Hashed(Chain(log, new, i))[j] = log[j].entry
    BY <2>1, <2>3, <2>4 DEF Hashed
  <2>6. /\ Len(Contents(log)) = Len(log)
        /\ \A j \in 1..i : Contents(log)[j] = log[j].entry
    BY <1>2, <2>1 DEF Contents
  <2>7. Subsequence(Hashed(Chain(log, new, i)), ledger)
    <3>1. PICK r, s : r = Hashed(Chain(log, new, i)) /\ s = Contents(log)
      OBVIOUS
    <3>2. /\ Len(s) \in Nat /\ i \in 0..Len(s) /\ Len(r) = i
          /\ \A j \in 1..i : r[j] = s[j]
          /\ Subsequence(s, ledger)
      BY <1>2, <1>4, <2>5, <2>6, <3>1
    <3>3. Subsequence(r, ledger)
      BY <3>2, SubsequencePrefix
    <3>4. QED
      BY <3>1, <3>3
  <2>8. QED
    BY <2>3, <2>7 DEF Genuine
<1>7. log' \in Seq(Row)
  <2>1. ASSUME NEW i \in 1..Len(log)
        PROVE  [seq |-> log[i].seq, entry |-> log[i].entry,
                prev |-> Chain(log, new, i - 1), hash |-> Chain(log, new, i)] \in Row
    <3>1. i - 1 \in 0..Len(log) /\ i \in 0..Len(log)
      BY <1>2
    <3>2. /\ log[i].seq \in Nat /\ log[i].entry \in Entry \cup {Garbled}
          /\ Chain(log, new, i - 1) \in Hash /\ Chain(log, new, i) \in Hash
      BY <1>5, <1>6, <3>1
    <3>3. QED
      BY <3>2 DEF Row
  <2>2. log' = [i \in 1..Len(log) |-> [seq |-> log[i].seq, entry |-> log[i].entry,
                   prev |-> Chain(log, new, i - 1), hash |-> Chain(log, new, i)]]
    BY <1>1, Zenon DEF Rekeyed, Chain
  <2>3. \A i \in 1..Len(log) : log'[i] \in Row
    BY <2>1, <2>2
  <2>4. QED
    BY <1>2, <2>2, <2>3
<1>8. Contents(log') = Contents(log)
  BY <1>3 DEF Contents
<1>9. Sound(log', new)
  BY <1>1, <1>2, <1>5, RekeyedSound
<1>10. \A S : Free(S)' <=> Free(S)
  BY <1>1 DEF Free
<1>11. ASSUME NEW i \in 1..Len(log)
       PROVE  /\ log'[i].seq = i /\ i \in Nat /\ Len(log'[i].hash) = i
              /\ Genuine(log'[i].hash, ledger)
              /\ log'[i].entry # Garbled
              /\ log'[i].hash = Append(log'[i].prev, <<new, log'[i].entry>>)
              /\ i > 1 => log'[i].prev = log'[i - 1].hash
  <2>1. /\ log'[i].seq = i /\ i \in Nat /\ Len(log'[i].hash) = i /\ log'[i].entry # Garbled
        /\ Genuine(log'[i].hash, ledger)
    <3>1. i \in 0..Len(log) /\ i \in Nat
      BY <1>2
    <3>2. QED
      BY <1>3, <1>5, <1>6, <3>1
  <2>2. log'[i].hash = Append(log'[i].prev, <<new, log'[i].entry>>)
    BY <1>2, <1>3, ChainStep
  <2>3. i > 1 => log'[i].prev = log'[i - 1].hash
    <3>1. i > 1 => i - 1 \in 1..Len(log)
      BY <1>2
    <3>2. QED
      BY <1>3, <3>1
  <2>4. QED
    BY <2>1, <2>2, <2>3
<1>12. CASE log = <<>>
  <2>1. Len(log) = 0 /\ log' = <<>> /\ anchor' = NoAnchor /\ anchors' = anchors /\ log' = log
        /\ anchor' = anchor /\ LastSeq' = LastSeq /\ ~Trusted' /\ Len(log') = 0
    BY <1>1, <1>3, <1>4, <1>7, <1>12, EmptySeq DEF LastSeq, Trusted
  <2>2. TypeOK'
    BY <1>1, <2>1 DEF IInv, TypeOK
  <2>3. Hashes' /\ Authentic' /\ Columns' /\ Links'
    BY <1>1, <1>10, <2>1 DEF IInv, Hashes, Authentic, Columns, Links
  <2>4. Numbered' /\ Counts' /\ Whole'
    BY <1>1, <1>10, <2>1 DEF IInv, Numbered, Counts, Whole
  <2>5. Verdict' = "valid"
    BY <2>1, <1>9, <1>7, <1>1, ValidIsSound, VerifyValid DEF Verdict, AnchorVerdict
  <2>6. QED
    BY <1>1, <1>8, <2>2, <2>3, <2>4, <2>5 DEF IInv
<1>13. CASE log # <<>>
  <2>1. Len(log) \in 1..Len(log) /\ log' # <<>> /\ Len(log) \in 0..Len(log)
    BY <1>2, <1>3, <1>13, EmptySeq
  <2> DEFINE C == Chain(log, new, Len(log))
  <2>2. TailHash(log') = C /\ C \in Hash /\ Len(C) = Len(log) /\ Genuine(C, ledger)
        /\ log'[Len(log)].hash = C
    BY <1>2, <1>3, <1>6, <2>1 DEF TailHash
  <2> HIDE DEF C
  <2>3. PICK a : a = [entries |-> Len(log), tail |-> C, key |-> new]
    OBVIOUS
  <2>4. a.entries = Len(log) /\ a.tail = C /\ a.key = new
    BY <2>3
  <2>5. a \in Anchor
    <3>1. Len(log) \in Nat \ {0} /\ new \in Key \cup {Foreign}
      BY <1>2, <2>1
    <3>2. QED
      BY <2>2, <2>3, <3>1 DEF Anchor
  <2>6. anchor' = a /\ anchor' = Anchored(log', new) /\ anchors' = anchors \cup {a}
    BY <1>1, <1>3, <1>13, <2>2, <2>3 DEF Anchored
  <2>7. a # NoAnchor /\ new # Foreign /\ Trusted'
    BY <2>4, <2>5, <2>6, NoAnchorAssumption, KeyAssumption DEF Trusted
  <2>8. TypeOK'
    <3>1. \A i, j \in 1..Len(log') : i < j => log'[i].seq < log'[j].seq
      BY <1>3, <1>11
    <3>2. QED
      BY <1>1, <1>7, <2>5, <2>6, <3>1 DEF IInv, TypeOK
  <2>9. Hashes'
    BY <1>1, <1>3, <1>11, <2>2, <2>4, <2>6 DEF IInv, Hashes
  <2>10. Authentic'
    BY <1>1, <2>4, <2>6, <2>7 DEF IInv, Authentic
  <2>11. Columns'
    BY <1>1, <1>3, <1>11 DEF Columns
  <2>12. Numbered'
    BY <1>1, <1>3, <1>10, <1>11 DEF IInv, Numbered
  <2>13. Links'
    <3>1. \A i \in 1..Len(log) : log'[i].seq > 0
      BY <1>11
    <3>2. \A i \in 2..Len(log) : log'[i].prev = log'[i - 1].hash
      <4> SUFFICES ASSUME NEW i \in 2..Len(log) PROVE log'[i].prev = log'[i - 1].hash
        OBVIOUS
      <4>1. i \in 1..Len(log) /\ i > 1
        BY <1>2
      <4>2. QED
        BY <1>11, <4>1
    <3>3. log'[1].prev = Genesis
      <4>1. 1 \in 1..Len(log) /\ 1 - 1 = 0
        BY <1>2, <2>1
      <4>2. QED
        BY <1>3, <4>1, ChainZero DEF Genesis
    <3>4. QED
      BY <1>3, <3>1, <3>2, <3>3 DEF Links
  <2>14. Counts'
    <3>1. Free({"remove"}) => \A b \in anchors' : b.entries <= Len(log)
      <4>1. Free({"remove"}) => \A b \in anchors : b.entries <= Len(log)
        BY DEF IInv, Counts
      <4>2. a.entries <= Len(log)
        BY <1>2, <2>4
      <4>3. QED
        BY <2>6, <4>1, <4>2
    <3>2. \A i \in 1..Len(log) : Len(log'[i].hash) <= Len(log)
      BY <1>2, <1>11
    <3>3. \A i \in 1..Len(log) : Len(log'[i].hash) = Len(log) => log'[i].hash = C
      BY <1>11, <2>2
    <3>4. QED
      BY <1>3, <1>10, <2>4, <2>6, <3>1, <3>2, <3>3 DEF Counts
  <2>15. LastSeq' = LastSeq
    BY <1>3, <1>13, <2>1 DEF LastSeq
  <2>16. Whole'
    <3>1. Free({"renumber", "insert", "sequence", "anchor_restored"}) =>
             /\ rowid = Len(ledger)
             /\ \A i \in 1..Len(log) : log[i].seq <= rowid
             /\ LastSeq = rowid
      BY <1>4, <1>13 DEF IInv, Whole
    <3>2. Len(log) <= Len(log)
      BY <1>2
    <3>3. QED
      BY <1>1, <1>3, <1>10, <2>4, <2>6, <2>15, <3>1, <3>2 DEF Whole
  <2>17. Verdict' = "valid"
    BY <1>1, <1>7, <1>9, <2>1, <2>6, <2>7, SoundVerifies DEF Verdict
  <2>18. QED
    BY <1>1, <1>8, <2>8, <2>9, <2>10, <2>11, <2>12, <2>13, <2>14, <2>16, <2>17 DEF IInv
<1>14. QED
  BY <1>12, <1>13

\* Columns of a row change, and not its number.
LEMMA ChangeInv ==
    ASSUME IInv, NEW i \in 1..Len(log), NEW row \in Row,
           NEW kind \in {"edit", "garble", "relink", "rehash"}, ChangeRow(i, row, kind),
           row.seq = log[i].seq, Genuine(row.hash, ledger),
           kind \in {"edit", "garble", "relink"} => row.hash = log[i].hash,
           kind \in {"edit", "garble"} => row.prev = log[i].prev,
           kind = "garble" => row.entry = Garbled,
           kind # "garble" => row.entry # Garbled \/ log[i].entry = Garbled
    PROVE  IInv'
<1>1. /\ log' = [log EXCEPT ![i] = row] /\ anchor' = anchor /\ rowid' = rowid
      /\ key' = key /\ ledger' = ledger /\ anchors' = anchors
      /\ damage' = damage \cup {kind} /\ writes' = writes + 1
  BY DEF ChangeRow, Damages
<1>2. log \in Seq(Row) /\ Len(log) \in Nat
  BY DEF IInv, TypeOK
<1>3. /\ log' \in Seq(Row) /\ Len(log') = Len(log) /\ log'[i] = row
      /\ \A j \in 1..Len(log) : j # i => log'[j] = log[j]
  BY <1>1, <1>2
<1>4. /\ \A j \in 1..Len(log) : log'[j].seq = log[j].seq
      /\ log # <<>> /\ log' # <<>> /\ LastSeq' = LastSeq
  <2>1. \A j \in 1..Len(log) : log'[j].seq = log[j].seq
    BY <1>3
  <2>2. log # <<>> /\ log' # <<>> /\ Len(log) \in 1..Len(log)
    BY <1>2, <1>3
  <2>3. QED
    BY <1>3, <2>1, <2>2 DEF LastSeq
<1>5. \A S : Free(S)' <=> Free(S) /\ kind \notin S
  BY DamageGrows DEF ChangeRow
<1>6. (Trusted' <=> Trusted)
  BY <1>1 DEF Trusted
<1>7. TypeOK'
  <2>1. damage' \subseteq DamageKind
    BY <1>1 DEF IInv, TypeOK, DamageKind
  <2>2. QED
    BY <1>1, <1>3, <1>4, <2>1 DEF IInv, TypeOK
<1>8. Hashes'
  BY <1>1, <1>3 DEF IInv, Hashes
<1>9. Authentic'
  BY <1>1, <1>4, <1>5, <1>6 DEF IInv, Authentic
<1>10. Columns'
  <2>1. Free({"garble", "insert"})' => \A j \in 1..Len(log) : log'[j].entry # Garbled
    BY <1>3, <1>5 DEF IInv, Columns
  <2>2. Free({"edit", "relink", "rehash", "insert"})' =>
          kind = "garble" /\ Free({"edit", "relink", "rehash", "insert"})
    BY <1>5
  <2>3. QED
    BY <1>1, <1>3, <2>1, <2>2 DEF IInv, Columns
<1>11. Numbered'
  BY <1>1, <1>3, <1>4, <1>5 DEF IInv, Numbered
<1>12. Links'
  <2> SUFFICES ASSUME Free({"relink", "rehash", "renumber", "insert"})'
               PROVE  /\ \A j \in 1..Len(log) : log'[j].seq > 0
                      /\ \A j \in 2..Len(log) : log'[j].seq = log'[j - 1].seq + 1 =>
                            log'[j].prev = log'[j - 1].hash
                      /\ Len(log) > 0 /\ log'[1].seq = 1 => log'[1].prev = Genesis
    BY <1>3 DEF Links
  <2>1. kind \in {"edit", "garble"} /\ Free({"relink", "rehash", "renumber", "insert"})
    BY <1>5
  <2>2. \A j \in 1..Len(log) : log'[j].prev = log[j].prev /\ log'[j].hash = log[j].hash
    BY <1>3, <2>1
  <2>3. \A j \in 2..Len(log) : j \in 1..Len(log) /\ j - 1 \in 1..Len(log)
    BY <1>2
  <2>4. Len(log) > 0 => 1 \in 1..Len(log)
    BY <1>2
  <2>5. QED
    BY <1>4, <2>1, <2>2, <2>3, <2>4 DEF IInv, Links
<1>13. Counts'
  <2>1. kind # "rehash" => \A j \in 1..Len(log) : log'[j].hash = log[j].hash
    BY <1>3
  <2>2. QED
    BY <1>1, <1>3, <1>5, <1>6, <2>1 DEF IInv, Counts
<1>14. Whole'
  BY <1>1, <1>3, <1>4, <1>5, <1>6 DEF IInv, Whole
<1>15. QED
  BY <1>7, <1>8, <1>9, <1>10, <1>11, <1>12, <1>13, <1>14 DEF IInv

\* A row is altered, made unreadable, relinked or given another hash.
LEMMA EditInv ==
    ASSUME IInv, NEW i \in 1..Len(log),
           \/ \E e \in Entry \cup {Garbled} : EditRow(i, e)
           \/ \E h \in Known : Relink(i, h) \/ Rehash(i, h)
    PROVE  IInv'
<1>1. /\ log[i] \in Row /\ log[i].hash \in Hash /\ log[i].prev \in Hash
      /\ log[i].entry \in Entry \cup {Garbled} /\ Genuine(log[i].hash, ledger)
  BY RowFields DEF IInv, Hashes
<1>2. ASSUME NEW e \in Entry \cup {Garbled}, EditRow(i, e) PROVE IInv'
  <2>1. PICK row : row = [log[i] EXCEPT !.entry = e]
    OBVIOUS
  <2>2. /\ row \in Row /\ row.entry = e /\ row.seq = log[i].seq
        /\ row.prev = log[i].prev /\ row.hash = log[i].hash
    BY <1>1, <2>1 DEF Row
  <2>3. PICK kind : kind = IF e = Garbled THEN "garble" ELSE "edit"
    OBVIOUS
  <2>4. ChangeRow(i, row, kind)
    BY <1>2, <2>1, <2>3 DEF EditRow
  <2>5. kind \in {"edit", "garble"} /\ (kind = "garble" <=> e = Garbled)
    BY <2>3
  <2>6. QED
    BY <1>1, <2>2, <2>4, <2>5, ChangeInv
<1>3. ASSUME NEW h \in Known, Relink(i, h) PROVE IInv'
  <2>1. PICK row : row = [log[i] EXCEPT !.prev = h]
    OBVIOUS
  <2>2. /\ row \in Row /\ row.entry = log[i].entry /\ row.seq = log[i].seq
        /\ row.hash = log[i].hash
    BY <1>1, <2>1, KnownGenuine DEF Row
  <2>3. ChangeRow(i, row, "relink")
    BY <1>3, <2>1 DEF Relink
  <2>4. QED
    BY <1>1, <2>2, <2>3, ChangeInv
<1>4. ASSUME NEW h \in Known, Rehash(i, h) PROVE IInv'
  <2>1. PICK row : row = [log[i] EXCEPT !.hash = h]
    OBVIOUS
  <2>2. /\ row \in Row /\ row.entry = log[i].entry /\ row.seq = log[i].seq
        /\ row.hash = h /\ Genuine(h, ledger)
    BY <1>1, <2>1, KnownGenuine DEF Row
  <2>3. ChangeRow(i, row, "rehash")
    BY <1>4, <2>1 DEF Rehash
  <2>4. QED
    BY <1>1, <2>2, <2>3, ChangeInv
<1>5. QED
  BY <1>2, <1>3, <1>4

\* The rows get other numbers, and with them another order.
LEMMA RenumberInv ==
    ASSUME IInv, NEW p \in Orders(Len(log)), NEW s \in Numbers(Len(log)), Renumber(p, s)
    PROVE  IInv'
<1>0. log' = [i \in 1..Len(log) |-> [log[p[i]] EXCEPT !.seq = s[i]]]
  BY DEF Renumber
<1>1. /\ anchor' = anchor /\ rowid' = rowid
      /\ key' = key /\ ledger' = ledger /\ anchors' = anchors
      /\ damage' = damage \cup {"renumber"} /\ writes' = writes + 1
  BY DEF Renumber, Damages
<1>2. log \in Seq(Row) /\ Len(log) \in Nat
  BY DEF IInv, TypeOK
<1>3. \A i \in 1..Len(log) : p[i] \in 1..Len(log)
  BY DEF Orders
<1>4. /\ \A i \in 1..Len(log) : s[i] \in Nat
      /\ \A i, j \in 1..Len(log) : i < j => s[i] < s[j]
  BY ChainBoundsAssumption DEF Numbers
<1>5. ASSUME NEW i \in 1..Len(log)
      PROVE  /\ log'[i] \in Row /\ log'[i].seq = s[i]
             /\ log'[i].entry = log[p[i]].entry /\ log'[i].prev = log[p[i]].prev
             /\ log'[i].hash = log[p[i]].hash
  <2>1. PICK row : row = [log[p[i]] EXCEPT !.seq = s[i]]
    OBVIOUS
  <2>2. log'[i] = row
    BY <1>0, <2>1
  <2>3. log[p[i]] \in Row /\ s[i] \in Nat
    BY <1>3, <1>4, RowFields DEF IInv
  <2>4. /\ row \in Row /\ row.seq = s[i] /\ row.entry = log[p[i]].entry
        /\ row.prev = log[p[i]].prev /\ row.hash = log[p[i]].hash
    BY <2>1, <2>3 DEF Row
  <2>5. QED
    BY <2>2, <2>4
<1>6. Len(log') = Len(log) /\ log' \in Seq(Row) /\ (log' = <<>> <=> log = <<>>)
  <2>1. log' = [i \in 1..Len(log) |-> log'[i]]
    BY <1>0, Zenon
  <2>2. Len(log') = Len(log) /\ log' \in Seq(Row)
    BY <1>2, <1>5, <2>1
  <2>3. QED
    BY <1>2, <2>2, EmptySeq
<1>7. \A S : Free(S)' <=> Free(S) /\ "renumber" \notin S
  BY DamageGrows DEF Renumber
<1>8. (Trusted' <=> Trusted)
  BY <1>1 DEF Trusted
<1>9. TypeOK'
  <2>1. \A i, j \in 1..Len(log') : i < j => log'[i].seq < log'[j].seq
    BY <1>4, <1>5, <1>6
  <2>2. damage' \subseteq DamageKind
    BY <1>1 DEF IInv, TypeOK, DamageKind
  <2>3. QED
    BY <1>1, <1>6, <2>1, <2>2 DEF IInv, TypeOK
<1>10. Hashes'
  BY <1>1, <1>3, <1>5, <1>6 DEF IInv, Hashes
<1>11. Authentic'
  BY <1>1, <1>6, <1>7, <1>8 DEF IInv, Authentic
<1>12. Columns'
  <2>1. Free({"garble", "insert"}) => \A i \in 1..Len(log) : log'[i].entry # Garbled
    BY <1>3, <1>5 DEF IInv, Columns
  <2>2. ASSUME Free({"edit", "relink", "rehash", "insert"}), NEW i \in 1..Len(log),
               log'[i].entry # Garbled
        PROVE  log'[i].hash = Append(log'[i].prev, <<key, log'[i].entry>>)
    <3>1. p[i] \in 1..Len(log) /\ log[p[i]].entry # Garbled
      BY <1>3, <1>5, <2>2
    <3>2. log[p[i]].hash = Append(log[p[i]].prev, <<key, log[p[i]].entry>>)
      BY <2>2, <3>1 DEF IInv, Columns
    <3>3. QED
      BY <1>5, <3>2
  <2>3. QED
    BY <1>1, <1>6, <1>7, <2>1, <2>2 DEF Columns
<1>13. Numbered' /\ Links' /\ Whole'
  BY <1>7 DEF Numbered, Links, Whole
<1>14. Counts'
  BY <1>1, <1>3, <1>5, <1>6, <1>7, <1>8 DEF IInv, Counts
<1>15. QED
  BY <1>9, <1>10, <1>11, <1>12, <1>13, <1>14 DEF IInv

\* A row is taken away.
LEMMA RemoveInv ==
    ASSUME IInv, NEW i \in 1..Len(log), RemoveRow(i)
    PROVE  IInv'
<1> DEFINE m == Len(log) - 1
           from(j) == IF j < i THEN j ELSE j + 1
<1>0. log' = [j \in 1..m |-> IF j < i THEN log[j] ELSE log[j + 1]]
  BY DEF RemoveRow
<1>1. /\ anchor' = anchor /\ rowid' = rowid
      /\ key' = key /\ ledger' = ledger /\ anchors' = anchors
      /\ damage' = damage \cup {"remove"} /\ writes' = writes + 1
  BY DEF RemoveRow, Damages
<1>2. log \in Seq(Row) /\ Len(log) \in Nat /\ m \in Nat /\ i \in Nat /\ log # <<>>
  BY DEF IInv, TypeOK
<1>3. \A j \in 1..m : from(j) \in 1..Len(log) /\ j \in Nat /\ log'[j] = log[from(j)]
  BY <1>0, <1>2
<1>4. \A j, l \in 1..m : j < l => from(j) < from(l)
  BY <1>2
<1>5. Len(log') = m /\ log' \in Seq(Row)
  <2>1. \A j \in 1..m : log'[j] \in Row
    BY <1>2, <1>3
  <2>2. QED
    BY <1>0, <1>2, <2>1
<1>6. \A S : Free(S)' <=> Free(S) /\ "remove" \notin S
  BY DamageGrows DEF RemoveRow
<1>7. (Trusted' <=> Trusted)
  BY <1>1 DEF Trusted
<1>8. TypeOK'
  <2>1. \A j, l \in 1..Len(log') : j < l => log'[j].seq < log'[l].seq
    <3> SUFFICES ASSUME NEW j \in 1..m, NEW l \in 1..m, j < l
                 PROVE  log'[j].seq < log'[l].seq
      BY <1>5
    <3>1. /\ from(j) \in 1..Len(log) /\ from(l) \in 1..Len(log) /\ from(j) < from(l)
          /\ log'[j] = log[from(j)] /\ log'[l] = log[from(l)]
      BY <1>3, <1>4
    <3> HIDE DEF from
    <3>2. QED
      BY <3>1 DEF IInv, TypeOK
  <2>2. damage' \subseteq DamageKind
    BY <1>1 DEF IInv, TypeOK, DamageKind
  <2> HIDE DEF m, from
  <2>3. QED
    BY <1>1, <1>5, <2>1, <2>2 DEF IInv, TypeOK
<1>9. Hashes'
  <2> HIDE DEF from
  <2>1. QED
    BY <1>1, <1>3, <1>5 DEF IInv, Hashes
<1>10. Authentic'
  BY <1>1, <1>2, <1>6, <1>7 DEF IInv, Authentic
<1>11. Columns'
  <2> HIDE DEF from
  <2>1. QED
    BY <1>1, <1>3, <1>5, <1>6 DEF IInv, Columns
<1>12. Numbered' /\ Counts'
  BY <1>6 DEF Numbered, Counts
<1>13. Links'
  <2> SUFFICES ASSUME Free({"relink", "rehash", "renumber", "insert"})'
               PROVE  /\ \A j \in 1..m : log'[j].seq > 0
                      /\ \A j \in 2..m : log'[j].seq = log'[j - 1].seq + 1 =>
                            log'[j].prev = log'[j - 1].hash
                      /\ m > 0 /\ log'[1].seq = 1 => log'[1].prev = Genesis
    BY <1>5 DEF Links
  <2>1. /\ \A j \in 1..Len(log) : log[j].seq > 0
        /\ \A j \in 2..Len(log) : log[j].seq = log[j - 1].seq + 1 =>
              log[j].prev = log[j - 1].hash
        /\ Len(log) > 0 /\ log[1].seq = 1 => log[1].prev = Genesis
    BY <1>6 DEF IInv, Links
  <2>2. \A j \in 1..m : log'[j].seq > 0
    BY <1>3, <2>1
  <2>3. /\ \A j, l \in 1..Len(log) : j < l => log[j].seq < log[l].seq
        /\ \A j \in 1..Len(log) : log[j].seq \in Nat
    BY RowFields DEF IInv, TypeOK
  <2>4. ASSUME NEW j \in 2..m, log'[j].seq = log'[j - 1].seq + 1
        PROVE  log'[j].prev = log'[j - 1].hash
    <3>1. j - 1 \in 1..m /\ j \in 1..m /\ j \in Nat
      BY <1>2
    <3>2. /\ log'[j] = log[from(j)] /\ log'[j - 1] = log[from(j - 1)]
          /\ from(j) \in 1..Len(log) /\ from(j - 1) \in 1..Len(log)
      BY <1>3, <3>1
    <3>3. CASE j = i
      <4>1. from(j) = i + 1 /\ from(j - 1) = i - 1
        BY <1>2, <3>1, <3>3
      <4>2. /\ i - 1 \in 1..Len(log) /\ i + 1 \in 1..Len(log)
            /\ log[i + 1].seq = log[i - 1].seq + 1
        BY <2>4, <3>2, <4>1
      <4>3. log[i - 1].seq < log[i].seq /\ log[i].seq < log[i + 1].seq
        BY <1>2, <2>3, <4>2
      <4>4. QED
        BY <2>3, <4>2, <4>3
    <3>4. CASE j # i
      <4>1. from(j - 1) = from(j) - 1 /\ from(j) \in 2..Len(log)
        BY <1>2, <3>1, <3>2, <3>4
      <4> HIDE DEF from
      <4>2. log[from(j)].prev = log[from(j) - 1].hash
        BY <2>1, <2>4, <3>2, <4>1
      <4>3. QED
        BY <3>2, <4>1, <4>2
    <3>5. QED
      BY <3>3, <3>4
  <2>5. ASSUME m > 0, log'[1].seq = 1 PROVE log'[1].prev = Genesis
    <3>1. 1 \in 1..m /\ 1 \in 1..Len(log) /\ 2 \in 1..Len(log) /\ Len(log) > 0
      BY <1>2, <2>5
    <3>2. CASE i = 1
      <4>1. log'[1] = log[2]
        BY <1>0, <3>1, <3>2
      <4>2. log[1].seq < log[2].seq /\ log[1].seq > 0
        BY <2>1, <2>3, <3>1
      <4>3. QED
        BY <2>3, <2>5, <3>1, <4>1, <4>2
    <3>3. CASE i # 1
      <4>1. log'[1] = log[1]
        BY <1>0, <1>2, <3>1, <3>3
      <4>2. QED
        BY <2>1, <2>5, <3>1, <4>1
    <3>4. QED
      BY <3>2, <3>3
  <2>6. QED
    BY <2>2, <2>4, <2>5
<1>14. Whole'
  <2> SUFFICES ASSUME Free({"renumber", "insert", "sequence", "anchor_restored"})
               PROVE  /\ rowid = Len(ledger)
                      /\ \A j \in 1..m : log'[j].seq <= rowid
                      /\ Trusted => m <= anchor.entries /\ m # anchor.entries
    BY <1>1, <1>5, <1>6, <1>7 DEF Whole
  <2>1. /\ rowid = Len(ledger)
        /\ \A j \in 1..Len(log) : log[j].seq <= rowid
        /\ Trusted => Len(log) <= anchor.entries
    BY DEF IInv, Whole
  <2>2. Trusted => anchor.entries \in Nat
    BY DEF IInv, TypeOK, Trusted, Anchor
  <2>3. \A j \in 1..m : log'[j].seq <= rowid
    <3> HIDE DEF from
    <3>1. QED
      BY <1>3, <2>1
  <2>4. QED
    BY <1>2, <2>1, <2>2, <2>3
<1>15. QED
  BY <1>8, <1>9, <1>10, <1>11, <1>12, <1>13, <1>14 DEF IInv

\* A row comes back.
LEMMA InsertInv ==
    ASSUME IInv, NEW k \in 1..(Len(log) + 1), NEW n \in 0..MaxSeq, NEW h \in Known \ {Genesis},
           InsertRow(k, n, h)
    PROVE  IInv'
<1>1. PICK row : row = [seq |-> n, entry |-> h[Len(h)][2],
                        prev |-> SubSeq(h, 1, Len(h) - 1), hash |-> h]
  OBVIOUS
<1> DEFINE m == Len(log) + 1
<1>2. /\ log' = [j \in 1..m |-> IF j < k THEN log[j] ELSE IF j = k THEN row ELSE log[j - 1]]
      /\ rowid' = (IF n > rowid THEN n ELSE rowid) /\ anchor' = anchor
      /\ key' = key /\ ledger' = ledger /\ anchors' = anchors
      /\ damage' = damage \cup {"insert"} /\ writes' = writes + 1
      /\ k > 1 => log[k - 1].seq < n
      /\ k <= Len(log) => n < log[k].seq
  BY <1>1 DEF InsertRow, Damages
<1>3. log \in Seq(Row) /\ Len(log) \in Nat /\ m \in Nat /\ k \in Nat /\ n \in Nat /\ rowid \in Nat
  BY ChainBoundsAssumption DEF IInv, TypeOK
<1>4. h \in Hash /\ Genuine(h, ledger) /\ Len(h) \in 1..Len(h)
  BY KnownGenuine
<1>5. row \in Row /\ row.seq = n /\ row.hash = h
  <2>1. h[Len(h)][2] \in Entry \cup {Garbled} /\ Len(h) - 1 \in 0..Len(h)
    BY <1>4, HashedSeq
  <2>2. SubSeq(h, 1, Len(h) - 1) \in Hash
    BY <1>4, <2>1, HashPrefix
  <2>3. QED
    BY <1>1, <1>3, <1>4, <2>1, <2>2 DEF Row
<1>6. \A j \in 1..m : \/ j < k /\ j \in 1..Len(log) /\ log'[j] = log[j]
                      \/ j = k /\ log'[j] = row
                      \/ j > k /\ j - 1 \in 1..Len(log) /\ log'[j] = log[j - 1]
  BY <1>2, <1>3
<1>7. Len(log') = m /\ log' \in Seq(Row)
  <2>1. \A j \in 1..Len(log) : log[j] \in Row
    BY <1>3
  <2>2. \A j \in 1..m : log'[j] \in Row
    BY <1>5, <1>6, <2>1
  <2>3. QED
    BY <1>2, <1>3, <2>2
<1>8. \A S : Free(S)' <=> Free(S) /\ "insert" \notin S
  BY DamageGrows DEF InsertRow
<1>9. (Trusted' <=> Trusted)
  BY <1>2 DEF Trusted
<1>10. TypeOK'
  <2>1. /\ \A j, l \in 1..Len(log) : j < l => log[j].seq < log[l].seq
        /\ \A j \in 1..Len(log) : log[j].seq \in Nat
    BY RowFields DEF IInv, TypeOK
  <2>2. \A j \in 1..Len(log) : j < k => log[j].seq < n
    <3> SUFFICES ASSUME NEW j \in 1..Len(log), j < k PROVE log[j].seq < n
      OBVIOUS
    <3>1. k - 1 \in 1..Len(log) /\ k > 1 /\ j <= k - 1
      BY <1>3
    <3>2. CASE j = k - 1
      BY <1>2, <3>1, <3>2
    <3>3. CASE j < k - 1
      BY <1>2, <1>3, <2>1, <3>1, <3>3
    <3>4. QED
      BY <1>3, <3>1, <3>2, <3>3
  <2>3. \A j \in 1..Len(log) : j >= k => n < log[j].seq
    <3> SUFFICES ASSUME NEW j \in 1..Len(log), j >= k PROVE n < log[j].seq
      OBVIOUS
    <3>1. k \in 1..Len(log) /\ k <= Len(log)
      BY <1>3
    <3>2. CASE j = k
      BY <1>2, <3>1, <3>2
    <3>3. CASE j > k
      BY <1>2, <1>3, <2>1, <3>1, <3>3
    <3>4. QED
      BY <1>3, <3>1, <3>2, <3>3
  <2>4. ASSUME NEW j \in 1..m, NEW l \in 1..m, j < l
        PROVE  log'[j].seq < log'[l].seq
    <3>1. j \in Nat /\ l \in Nat
      BY <1>3
    <3>2. CASE l < k
      BY <1>2, <1>3, <1>6, <2>1, <2>4, <3>1, <3>2
    <3>3. CASE l = k
      <4>1. j < k /\ j \in 1..Len(log) /\ log'[j] = log[j] /\ log'[l] = row
        BY <1>3, <1>6, <2>4, <3>1, <3>3
      <4>2. QED
        BY <1>5, <2>2, <4>1
    <3>4. CASE l > k
      <4>1. l - 1 \in 1..Len(log) /\ log'[l] = log[l - 1] /\ l - 1 >= k
        BY <1>3, <1>6, <3>1, <3>4
      <4>2. CASE j < k
        <5>1. j \in 1..Len(log) /\ log'[j] = log[j] /\ j < l - 1
          BY <1>3, <1>6, <3>1, <4>1, <4>2
        <5>2. QED
          BY <2>1, <4>1, <5>1
      <4>3. CASE j = k
        BY <1>5, <1>6, <2>3, <4>1, <4>3
      <4>4. CASE j > k
        <5>1. j - 1 \in 1..Len(log) /\ log'[j] = log[j - 1] /\ j - 1 < l - 1
          BY <1>3, <1>6, <2>4, <3>1, <4>4
        <5>2. QED
          BY <2>1, <4>1, <5>1
      <4>5. QED
        BY <1>3, <3>1, <4>2, <4>3, <4>4
    <3>5. QED
      BY <1>3, <3>1, <3>2, <3>3, <3>4
  <2>5. damage' \subseteq DamageKind
    BY <1>2 DEF IInv, TypeOK, DamageKind
  <2>6. QED
    BY <1>2, <1>3, <1>7, <2>4, <2>5 DEF IInv, TypeOK
<1>11. Hashes'
  <2>1. \A j \in 1..Len(log) : Genuine(log[j].hash, ledger)
    BY DEF IInv, Hashes
  <2>2. \A j \in 1..m : Genuine(log'[j].hash, ledger)
    BY <1>4, <1>5, <1>6, <2>1
  <2>3. QED
    BY <1>2, <1>7, <2>2 DEF IInv, Hashes
<1>12. Authentic'
  BY <1>2, <1>8, <1>9 DEF IInv, Authentic
<1>13. Columns' /\ Numbered' /\ Links' /\ Whole'
  BY <1>8 DEF Columns, Numbered, Links, Whole
<1>14. Counts'
  <2>1. ASSUME Free({"remove"}) PROVE \A a \in anchors : a.entries <= m
    <3>1. \A a \in anchors : a.entries <= Len(log) /\ a.entries \in Nat
      BY <2>1 DEF IInv, Counts, TypeOK, Anchor
    <3>2. QED
      BY <1>3, <3>1
  <2>2. QED
    BY <1>2, <1>7, <1>8, <2>1 DEF Counts
<1>15. QED
  BY <1>10, <1>11, <1>12, <1>13, <1>14 DEF IInv

\* The counter moves.
LEMMA SequenceInv ==
    ASSUME IInv, NEW n \in 0..MaxSeq, WriteSequence(n)
    PROVE  IInv'
<1>1. /\ log' = log /\ anchor' = anchor /\ rowid' = n
      /\ key' = key /\ ledger' = ledger /\ anchors' = anchors
      /\ damage' = damage \cup {"sequence"} /\ writes' = writes + 1
  BY DEF WriteSequence, Damages
<1>2. \A S : Free(S)' <=> Free(S) /\ "sequence" \notin S
  BY DamageGrows DEF WriteSequence
<1>3. (Trusted' <=> Trusted) /\ n \in Nat /\ damage' \subseteq DamageKind
  BY <1>1, ChainBoundsAssumption DEF Trusted, IInv, TypeOK, DamageKind
<1>4. TypeOK'
  BY <1>1, <1>3 DEF IInv, TypeOK
<1>5. Hashes' /\ Authentic' /\ Columns' /\ Links' /\ Counts'
  BY <1>1, <1>2, <1>3 DEF IInv, Hashes, Authentic, Columns, Links, Counts
<1>6. Numbered' /\ Whole'
  BY <1>2 DEF Numbered, Whole
<1>7. QED
  BY <1>4, <1>5, <1>6 DEF IInv

\* The anchor is lost, replaced by one under a key the daemon never held, or by
\* one the daemon wrote.
LEMMA AnchorInv ==
    ASSUME IInv, LoseAnchor \/ RewriteAnchor \/ \E a \in anchors : RestoreAnchor(a)
    PROVE  IInv'
<1>1. ASSUME NEW kind \in {"anchor_lost", "anchor_rewritten", "anchor_restored"},
             ReplaceAnchor(anchor', kind), anchor' \in Anchor \cup {NoAnchor},
             kind = "anchor_lost" <=> anchor' = NoAnchor,
             kind = "anchor_rewritten" => ~Trusted',
             kind = "anchor_restored" => anchor' \in anchors /\ (anchor'.key # Foreign)
      PROVE  IInv'
  <2>1. /\ log' = log /\ rowid' = rowid
        /\ key' = key /\ ledger' = ledger /\ anchors' = anchors
        /\ damage' = damage \cup {kind} /\ writes' = writes + 1
    BY <1>1 DEF ReplaceAnchor, Damages
  <2>2. \A S : Free(S)' <=> Free(S) /\ kind \notin S
    BY <1>1, DamageGrows DEF ReplaceAnchor
  <2>3. damage' \subseteq DamageKind
    BY <1>1, <2>1 DEF IInv, TypeOK, DamageKind
  <2>4. TypeOK'
    BY <1>1, <2>1, <2>3 DEF IInv, TypeOK
  <2>5. kind = "anchor_restored" <=> Trusted'
    BY <1>1 DEF Trusted
  <2>6. Authentic'
    BY <1>1, <2>1, <2>2, <2>5 DEF IInv, Authentic
  <2>7. Hashes' /\ Columns' /\ Numbered' /\ Links'
    BY <2>1, <2>2 DEF IInv, Hashes, Columns, Numbered, Links
  <2>8. Counts'
    BY <2>1, <2>2, <2>5 DEF IInv, Counts
  <2>9. Whole'
    BY <2>1, <2>2, <2>5 DEF IInv, Whole
  <2>10. QED
    BY <2>4, <2>6, <2>7, <2>8, <2>9 DEF IInv
<1>2. CASE LoseAnchor
  <2>1. anchor' = NoAnchor /\ ReplaceAnchor(NoAnchor, "anchor_lost")
    BY <1>2 DEF LoseAnchor, ReplaceAnchor
  <2>2. QED
    BY <1>1, <2>1
<1>3. CASE RewriteAnchor
  <2>1. PICK a : a = [entries |-> 1, tail |-> Noise, key |-> Foreign]
    OBVIOUS
  <2>2. ReplaceAnchor(a, "anchor_rewritten") /\ anchor' = a
    BY <1>3, <2>1 DEF RewriteAnchor, ReplaceAnchor
  <2>3. Noise \in Hash
    BY KnownGenuine DEF Known
  <2>4. a \in Anchor /\ a.key = Foreign
    BY <2>1, <2>3 DEF Anchor
  <2>5. a # NoAnchor /\ ~Trusted'
    BY <2>2, <2>4, NoAnchorAssumption DEF Trusted
  <2>6. QED
    BY <1>1, <2>2, <2>4, <2>5
<1>4. ASSUME NEW a \in anchors, RestoreAnchor(a) PROVE IInv'
  <2>1. ReplaceAnchor(a, "anchor_restored") /\ anchor' = a
    BY <1>4 DEF RestoreAnchor, ReplaceAnchor
  <2>2. a \in Anchor /\ a # NoAnchor /\ a.key # Foreign
    BY NoAnchorAssumption DEF IInv, TypeOK, Authentic
  <2>3. QED
    BY <1>1, <2>1, <2>2
<1>5. QED
  BY <1>2, <1>3, <1>4
-----------------------------------------------------------------------------
\* The empty table.
LEMMA InitInv == Init => IInv
<1> SUFFICES ASSUME Init PROVE IInv
  OBVIOUS
<1>1. /\ log = <<>> /\ anchor = NoAnchor /\ rowid = 0 /\ key \in Key
      /\ ledger = <<>> /\ anchors = {} /\ damage = {} /\ writes = 0
      /\ Len(log) = 0 /\ Len(ledger) = 0
  BY DEF Init
<1>2. TypeOK
  BY <1>1 DEF TypeOK
<1>3. Hashes /\ Authentic /\ Columns /\ Numbered /\ Links /\ Counts /\ Whole
  BY <1>1 DEF Hashes, Authentic, Columns, Numbered, Links, Counts, Whole, Trusted
<1>4. QED
  BY <1>2, <1>3 DEF IInv

\* Every step keeps the invariant, and a step that changes the key is a
\* rotation.
LEMMA StepInv ==
    ASSUME IInv, [Next]_vars
    PROVE  IInv' /\ (key' # key => /\ Contents(log') = Contents(log)
                                   /\ Verdict = "valid" /\ Verdict' = "valid")
<1>1. CASE \E e \in Entry : append(e)
  BY <1>1, AppendInv, AppendFacts
<1>2. CASE \E new \in Key : rekey_chain(new)
  BY <1>2, RekeyInv
<1>3. ASSUME NEW i \in 1..Len(log),
             \/ \E e \in Entry \cup {Garbled} : EditRow(i, e)
             \/ \E h \in Known : Relink(i, h) \/ Rehash(i, h)
      PROVE  IInv' /\ key' = key
  BY <1>3, EditInv DEF EditRow, Relink, Rehash, ChangeRow, Damages
<1>4. ASSUME NEW i \in 1..Len(log), RemoveRow(i) PROVE IInv' /\ key' = key
  BY <1>4, RemoveInv DEF RemoveRow, Damages
<1>5. ASSUME NEW p \in Orders(Len(log)), NEW s \in Numbers(Len(log)), Renumber(p, s)
      PROVE  IInv' /\ key' = key
  BY <1>5, RenumberInv DEF Renumber, Damages
<1>6. ASSUME NEW k \in 1..(Len(log) + 1), NEW n \in 0..MaxSeq, NEW h \in Known \ {Genesis},
             InsertRow(k, n, h)
      PROVE  IInv' /\ key' = key
  BY <1>6, InsertInv DEF InsertRow, Damages
<1>7. ASSUME NEW n \in 0..MaxSeq, WriteSequence(n) PROVE IInv' /\ key' = key
  BY <1>7, SequenceInv DEF WriteSequence, Damages
<1>8. ASSUME LoseAnchor \/ RewriteAnchor \/ \E a \in anchors : RestoreAnchor(a)
      PROVE  IInv' /\ key' = key
  BY <1>8, AnchorInv DEF LoseAnchor, RewriteAnchor, RestoreAnchor, ReplaceAnchor, Damages
<1>9. CASE UNCHANGED vars
  <2>1. /\ log' = log /\ anchor' = anchor /\ rowid' = rowid /\ key' = key
        /\ ledger' = ledger /\ anchors' = anchors /\ damage' = damage /\ writes' = writes
    BY <1>9 DEF vars
  <2>2. (\A S : Free(S)' <=> Free(S)) /\ (Trusted' <=> Trusted) /\ LastSeq' = LastSeq
    BY <2>1 DEF Free, Trusted, LastSeq
  <2>3. TypeOK' /\ Hashes' /\ Authentic' /\ Columns'
    BY <2>1, <2>2 DEF IInv, TypeOK, Hashes, Authentic, Columns
  <2>4. Numbered' /\ Links' /\ Counts' /\ Whole'
    BY <2>1, <2>2 DEF IInv, Numbered, Links, Counts, Whole
  <2>5. QED
    BY <2>1, <2>3, <2>4 DEF IInv
<1>10. QED
  BY <1>1, <1>2, <1>3, <1>4, <1>5, <1>6, <1>7, <1>8, <1>9 DEF Next, DirectWrite

\* The inductive invariant holds of every reachable state.
THEOREM Invariant == Spec => []IInv
<1>1. IInv /\ [Next]_vars => IInv'
  BY StepInv
<1>2. QED
  BY InitInv, <1>1, PTL DEF Spec

\* Every column of the audit table, the anchor and the counter stay in their
\* domains, and the table in its order, under any direct writes.
THEOREM TypeCorrect == Spec => []TypeOK
<1>1. IInv => TypeOK
  BY DEF IInv
<1>2. QED
  BY Invariant, <1>1, PTL

\* What verify reports clean holds only entries the daemon appended, unaltered,
\* none twice and in their order, whatever was written to the database.
THEOREM CleanIsGenuine == Spec => []CleanMeansGenuine
<1>1. IInv => CleanMeansGenuine
  BY CleanFacts DEF CleanMeansGenuine
<1>2. QED
  BY Invariant, <1>1, PTL

\* What verify reports clean holds every entry the daemon ever appended, in
\* order, unless a number, a row or an anchor was put back or the table and the
\* anchor are both empty.
THEOREM CleanIsComplete == Spec => []CleanMeansComplete
<1>1. IInv => CleanMeansComplete
  <2> SUFFICES ASSUME IInv, Verdict = "valid",
                      damage \cap {"renumber", "insert", "sequence", "anchor_restored"} = {}
               PROVE  \/ Contents(log) = ledger
                      \/ log = <<>> /\ anchor = NoAnchor
    BY DEF CleanMeansComplete
  <2>1. Free({"renumber", "insert", "sequence", "anchor_restored"})
    BY DEF Free
  <2>2. QED
    BY <2>1, CleanFacts, CompleteFacts
<1>2. QED
  BY Invariant, <1>1, PTL

\* verify raises no false alarm on a chain nobody wrote to directly.
THEOREM NoFalseAlarm == Spec => []UntouchedVerifies
<1>1. IInv => UntouchedVerifies
  <2> SUFFICES ASSUME IInv, damage = {} PROVE Verdict = "valid"
    BY DEF UntouchedVerifies
  <2>1. \A S : Free(S)
    BY DEF Free
  <2>2. QED
    BY <2>1, CauseFacts DEF Explained
<1>2. QED
  BY Invariant, <1>1, PTL

\* Each verdict of verify is explained by a direct write of a kind that causes
\* it, however many kinds of damage, appends and rotations are mixed.
THEOREM VerdictsHaveCauses == Spec => []VerdictNamesCause
<1>1. IInv => VerdictNamesCause
  BY CauseFacts DEF VerdictNamesCause, Explained, Free
<1>2. QED
  BY Invariant, <1>1, PTL

\* A rotation keeps the entries, their order and a clean verdict.
THEOREM RotationKeepsHistory == Spec => RekeyKeepsHistory
<1>1. IInv /\ [Next]_vars =>
        [key' # key => /\ Contents(log') = Contents(log)
                       /\ verify(log', anchor', key') = "valid"
                       /\ Verdict = "valid"]_vars
  BY StepInv DEF Verdict
<1>2. QED
  BY Invariant, <1>1, PTL DEF Spec, RekeyKeepsHistory
=============================================================================
