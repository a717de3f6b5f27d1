--------------------------- MODULE AuditLogProofs ---------------------------
(***************************************************************************)
(* What verify, append and re-key compute, for every log: verify says      *)
(* valid exactly of a chain whose every hash stands for all the entries    *)
(* before it, under the key it is given.                                   *)
(***************************************************************************)
EXTENDS AuditLog, WellFoundedInduction, SequenceTheorems, TLAPS

\* The hash of row i when every entry up to it was hashed under k.
Chain(log, k, i) == [j \in 1..i |-> <<k, log[j].entry>>]

Sound(log, k) ==
    \A i \in 1..Len(log) : /\ log[i].entry # Garbled
                           /\ log[i].seq = i
                           /\ log[i].prev = Chain(log, k, i - 1)
                           /\ log[i].hash = Chain(log, k, i)

RowsValid(log, k) == \A i \in 1..Len(log) : RowVerdict(log, k, i) = "valid"

\* A set of naturals that is not empty has a least element.
LEMMA LeastNat ==
    ASSUME NEW S, S \subseteq Nat, S # {}
    PROVE  \E x \in S : \A y \in S : x <= y
<1>1. PICK x \in S : \A y \in S : ~(<<y, x>> \in OpToRel(<, Nat))
  BY NatLessThanWellFounded, WFMin, Zenon
<1>2. \A y \in S : <<y, x>> \in Nat \X Nat
  OBVIOUS
<1>3. \A y \in S : ~(y < x)
  BY <1>1, <1>2, Zenon DEF OpToRel
<1>4. QED
  BY <1>3

\* verify reports the first row that is not sound, so it says valid only when
\* there is none and the anchor agrees.
LEMMA VerifyValid ==
    ASSUME NEW R, NEW log \in Seq(R), NEW anchor, NEW k
    PROVE  verify(log, anchor, k) = "valid" <=>
               RowsValid(log, k) /\ AnchorVerdict(log, anchor, k) = "valid"
<1> DEFINE broken == {i \in 1..Len(log) : RowVerdict(log, k, i) # "valid"}
<1>1. CASE broken = {}
  BY <1>1 DEF verify, RowsValid
<1>2. CASE broken # {}
  <2>1. \E i \in broken : \A j \in broken : i <= j
    <3>1. broken \subseteq Nat
      OBVIOUS
    <3> HIDE DEF broken
    <3>2. QED
      BY <1>2, <3>1, LeastNat
  <2>2. PICK i \in broken : i = CHOOSE x \in broken : \A j \in broken : x <= j
    BY <2>1
  <2>3. verify(log, anchor, k) = RowVerdict(log, k, i)
    BY <1>2, <2>2 DEF verify
  <2>4. QED
    BY <2>2, <2>3 DEF RowsValid
<1>3. QED
  BY <1>1, <1>2

\* The link of a row is the hash of the row before it.
LEMMA TailOfPrefix ==
    ASSUME NEW R, NEW log \in Seq(R), NEW i \in 1..Len(log)
    PROVE  TailHash(SubSeq(log, 1, i - 1)) = IF i = 1 THEN Genesis ELSE log[i - 1].hash
<1>1. i - 1 \in 0..Len(log)
  OBVIOUS
<1>2. /\ SubSeq(log, 1, i - 1) \in Seq(R)
      /\ Len(SubSeq(log, 1, i - 1)) = i - 1
      /\ i # 1 => SubSeq(log, 1, i - 1)[i - 1] = log[i - 1]
  OBVIOUS
<1>3. CASE i = 1
  BY <1>2, <1>3 DEF TailHash
<1>4. CASE i # 1
  BY <1>2, <1>4 DEF TailHash
<1>5. QED
  BY <1>3, <1>4

\* A chain grows by one pair.
LEMMA ChainStep ==
    ASSUME NEW R, NEW log \in Seq(R), NEW k, NEW i \in 1..Len(log)
    PROVE  Append(Chain(log, k, i - 1), <<k, log[i].entry>>) = Chain(log, k, i)
  BY DEF Chain

\* A chain of no entries is the genesis hash.
LEMMA ChainZero ==
    ASSUME NEW log, NEW k
    PROVE  Chain(log, k, 0) = <<>>
  BY DEF Chain

\* It depends on the entries alone.
LEMMA ChainSame ==
    ASSUME NEW a, NEW b, NEW k, NEW i \in Nat, \A j \in 1..i : a[j].entry = b[j].entry
    PROVE  Chain(a, k, i) = Chain(b, k, i)
  BY DEF Chain

\* Rows that pass every check of the walk hold all the entries before them: the
\* first one that did not would have the wrong link or the wrong hash.
LEMMA ValidIsSound ==
    ASSUME NEW R, NEW log \in Seq(R), NEW k
    PROVE  RowsValid(log, k) <=> Sound(log, k)
<1>1. ASSUME RowsValid(log, k) PROVE Sound(log, k)
  <2>1. \A i \in 1..Len(log) :
           /\ log[i].entry # Garbled /\ log[i].seq = i
           /\ log[i].prev = (IF i = 1 THEN Genesis ELSE log[i - 1].hash)
           /\ log[i].hash = Append(log[i].prev, <<k, log[i].entry>>)
    BY <1>1, TailOfPrefix DEF RowsValid, RowVerdict, compute_entry_hash
  <2> DEFINE odd == {i \in 1..Len(log) : log[i].hash # Chain(log, k, i)}
  <2>2. odd = {}
    <3>1. SUFFICES ASSUME odd # {} PROVE FALSE
      OBVIOUS
    <3>2. PICK i \in odd : \A j \in odd : i <= j
      <4>1. odd \subseteq Nat
        OBVIOUS
      <4> HIDE DEF odd
      <4>2. QED
        BY <3>1, <4>1, LeastNat
    <3>3. log[i].prev = Chain(log, k, i - 1)
      <4>1. CASE i = 1
        BY <2>1, <4>1, ChainZero DEF Genesis
      <4>2. CASE i # 1
        <5>1. i - 1 \in 1..Len(log) /\ i - 1 \notin odd
          BY <3>2, <4>2
        <5>2. QED
          BY <2>1, <4>2, <5>1
      <4>3. QED
        BY <4>1, <4>2
    <3>4. log[i].hash = Chain(log, k, i)
      <4>1. i \in 1..Len(log) /\ log[i].hash = Append(Chain(log, k, i - 1), <<k, log[i].entry>>)
        BY <2>1, <3>3
      <4>2. QED
        BY <4>1, ChainStep
    <3>5. QED
      BY <3>4
  <2>3. \A i \in 1..Len(log) : log[i].prev = Chain(log, k, i - 1)
    <3> SUFFICES ASSUME NEW i \in 1..Len(log) PROVE log[i].prev = Chain(log, k, i - 1)
      OBVIOUS
    <3>1. CASE i = 1
      BY <2>1, <3>1, ChainZero DEF Genesis
    <3>2. CASE i # 1
      <4>1. i - 1 \in 1..Len(log)
        BY <3>2
      <4>2. log[i - 1].hash = Chain(log, k, i - 1)
        BY <2>2, <4>1
      <4>3. QED
        BY <2>1, <3>2, <4>2
    <3>3. QED
      BY <3>1, <3>2
  <2>4. QED
    BY <2>1, <2>2, <2>3 DEF Sound
<1>2. ASSUME Sound(log, k), NEW i \in 1..Len(log) PROVE RowVerdict(log, k, i) = "valid"
  <2>1. log[i].prev = TailHash(SubSeq(log, 1, i - 1))
    <3>1. CASE i = 1
      BY <1>2, <3>1, TailOfPrefix, ChainZero DEF Sound, Genesis
    <3>2. CASE i # 1
      <4>1. i - 1 \in 1..Len(log)
        BY <1>2, <3>2
      <4>2. log[i].prev = Chain(log, k, i - 1) /\ log[i - 1].hash = Chain(log, k, i - 1)
        BY <1>2, <4>1 DEF Sound
      <4>3. TailHash(SubSeq(log, 1, i - 1)) = log[i - 1].hash
        BY <1>2, <3>2, TailOfPrefix
      <4>4. QED
        BY <4>2, <4>3
    <3>3. QED
      BY <3>1, <3>2
  <2>2. log[i].hash = Append(log[i].prev, <<k, log[i].entry>>)
    <3>1. log[i].prev = Chain(log, k, i - 1) /\ log[i].hash = Chain(log, k, i)
      BY <1>2 DEF Sound
    <3>2. QED
      BY <1>2, <3>1, ChainStep
  <2>3. QED
    BY <1>2, <2>1, <2>2 DEF Sound, RowVerdict, compute_entry_hash
<1>3. QED
  BY <1>1, <1>2 DEF RowsValid

\* The tail of a sound chain stands for all of it.
LEMMA SoundTail ==
    ASSUME NEW R, NEW log \in Seq(R), NEW k, Sound(log, k)
    PROVE  TailHash(log) = Chain(log, k, Len(log))
<1>1. CASE log = <<>>
  BY <1>1, ChainZero DEF TailHash, Genesis
<1>2. CASE log # <<>>
  BY <1>2 DEF TailHash, Sound
<1>3. QED
  BY <1>1, <1>2

\* What an append adds to a log.
LEMMA ExtendedRows ==
    ASSUME NEW R, NEW log \in Seq(R), NEW seq, NEW k, NEW e
    PROVE  /\ Len(Extended(log, seq, k, e)) = Len(log) + 1
           /\ \A i \in 1..Len(log) : Extended(log, seq, k, e)[i] = log[i]
           /\ Extended(log, seq, k, e)[Len(log) + 1] =
                 [seq |-> seq, entry |-> e, prev |-> TailHash(log),
                  hash |-> Append(TailHash(log), <<k, e>>)]
  BY DEF Extended, compute_entry_hash

\* An append with the next number keeps a chain sound.
LEMMA ExtendedSound ==
    ASSUME NEW R, NEW log \in Seq(R), NEW k, NEW e, e # Garbled, Sound(log, k)
    PROVE  Sound(Extended(log, Len(log) + 1, k, e), k)
<1> DEFINE new == Extended(log, Len(log) + 1, k, e)
<1>1. /\ Len(new) = Len(log) + 1
      /\ \A i \in 1..Len(log) : new[i] = log[i]
      /\ new[Len(log) + 1] = [seq |-> Len(log) + 1, entry |-> e, prev |-> TailHash(log),
                              hash |-> Append(TailHash(log), <<k, e>>)]
  BY ExtendedRows
<1> HIDE DEF new
<1>2. \A i \in 0..Len(log) : Chain(new, k, i) = Chain(log, k, i)
  BY <1>1, ChainSame
<1>3. /\ TailHash(log) = Chain(log, k, Len(log))
      /\ TailHash(log) = Chain(new, k, Len(log))
  BY <1>2, SoundTail
<1>4. Append(Chain(log, k, Len(log)), <<k, e>>) = Chain(new, k, Len(log) + 1)
  <2>1. new[Len(log) + 1].entry = e
    BY <1>1
  <2>2. Append(Chain(new, k, Len(log)), <<k, e>>) = Chain(new, k, Len(log) + 1)
    BY <2>1 DEF Chain
  <2>3. QED
    BY <1>3, <2>2
<1>5. ASSUME NEW i \in 1..Len(new)
      PROVE  /\ new[i].entry # Garbled /\ new[i].seq = i
             /\ new[i].prev = Chain(new, k, i - 1) /\ new[i].hash = Chain(new, k, i)
  <2>1. CASE i \in 1..Len(log)
    <3>1. i \in 0..Len(log) /\ i - 1 \in 0..Len(log)
      BY <2>1
    <3>2. new[i] = log[i]
      BY <1>1, <2>1
    <3>3. /\ log[i].entry # Garbled /\ log[i].seq = i
          /\ log[i].prev = Chain(log, k, i - 1) /\ log[i].hash = Chain(log, k, i)
      BY <2>1 DEF Sound
    <3>4. QED
      BY <1>2, <3>1, <3>2, <3>3
  <2>2. CASE i = Len(log) + 1
    <3>1. /\ new[i].entry = e /\ new[i].seq = i /\ new[i].prev = TailHash(log)
          /\ new[i].hash = Append(TailHash(log), <<k, e>>)
      BY <1>1, <2>2
    <3>2. i - 1 = Len(log)
      BY <2>2
    <3>3. QED
      BY <1>3, <1>4, <2>2, <3>1, <3>2
  <2>3. QED
    BY <1>1, <1>5, <2>1, <2>2
<1>6. Sound(new, k)
  BY <1>5 DEF Sound
<1>7. QED
  BY <1>6 DEF new

\* A re-key keeps the entries and their numbers, and seals them under the key.
LEMMA RekeyedRows ==
    ASSUME NEW R, NEW log \in Seq(R), NEW k
    PROVE  /\ Len(Rekeyed(log, k)) = Len(log)
           /\ \A i \in 1..Len(log) : /\ Rekeyed(log, k)[i].seq = log[i].seq
                                     /\ Rekeyed(log, k)[i].entry = log[i].entry
                                     /\ Rekeyed(log, k)[i].prev = Chain(log, k, i - 1)
                                     /\ Rekeyed(log, k)[i].hash = Chain(log, k, i)
<1>1. Rekeyed(log, k) =
         [i \in 1..Len(log) |-> [seq |-> log[i].seq, entry |-> log[i].entry,
                                 prev |-> Chain(log, k, i - 1), hash |-> Chain(log, k, i)]]
  BY Zenon DEF Rekeyed, Chain
<1>2. Len(Rekeyed(log, k)) = Len(log)
  BY <1>1
<1>3. ASSUME NEW i \in 1..Len(log)
      PROVE  /\ Rekeyed(log, k)[i].seq = log[i].seq
             /\ Rekeyed(log, k)[i].entry = log[i].entry
             /\ Rekeyed(log, k)[i].prev = Chain(log, k, i - 1)
             /\ Rekeyed(log, k)[i].hash = Chain(log, k, i)
  <2>1. PICK row : row = [seq |-> log[i].seq, entry |-> log[i].entry,
                          prev |-> Chain(log, k, i - 1), hash |-> Chain(log, k, i)]
    OBVIOUS
  <2>2. Rekeyed(log, k)[i] = row
    BY <1>1, <2>1
  <2>3. QED
    BY <2>1, <2>2
<1>4. QED
  BY <1>2, <1>3

\* A re-keyed log whose rows are readable and numbered from 1 is sound.
LEMMA RekeyedSound ==
    ASSUME NEW R, NEW log \in Seq(R), NEW k,
           \A i \in 1..Len(log) : log[i].entry # Garbled /\ log[i].seq = i
    PROVE  Sound(Rekeyed(log, k), k)
<1> DEFINE new == Rekeyed(log, k)
<1>1. Len(new) = Len(log)
  BY RekeyedRows
<1>2. \A i \in 1..Len(log) : /\ new[i].entry = log[i].entry /\ new[i].seq = log[i].seq
                             /\ new[i].prev = Chain(log, k, i - 1)
                             /\ new[i].hash = Chain(log, k, i)
  BY RekeyedRows
<1> HIDE DEF new
<1>3. \A i \in 0..Len(log) : Chain(new, k, i) = Chain(log, k, i)
  BY <1>2, ChainSame
<1>4. ASSUME NEW i \in 1..Len(log)
      PROVE  Chain(new, k, i) = Chain(log, k, i) /\ Chain(new, k, i - 1) = Chain(log, k, i - 1)
  <2>1. i \in 0..Len(log) /\ i - 1 \in 0..Len(log)
    OBVIOUS
  <2>2. QED
    BY <1>3, <2>1
<1>5. Sound(new, k)
  BY <1>1, <1>2, <1>4 DEF Sound
<1>6. QED
  BY <1>5 DEF new

\* The anchor the daemon writes agrees with the log it writes it for.
LEMMA AnchoredValid ==
    ASSUME NEW R, NEW log \in Seq(R), NEW k, log # <<>>, Anchored(log, k) # NoAnchor
    PROVE  AnchorVerdict(log, Anchored(log, k), k) = "valid"
  BY DEF AnchorVerdict, Anchored

\* A sound log with its anchor is reported valid.
THEOREM SoundVerifies ==
    ASSUME NEW R, NEW log \in Seq(R), NEW k, log # <<>>, Anchored(log, k) # NoAnchor,
           Sound(log, k)
    PROVE  verify(log, Anchored(log, k), k) = "valid"
  BY VerifyValid, ValidIsSound, AnchoredValid

\* A log that is reported valid is sound, and under no other key.
THEOREM ValidMeansSound ==
    ASSUME NEW R, NEW log \in Seq(R), NEW anchor, NEW k, verify(log, anchor, k) = "valid"
    PROVE  /\ Sound(log, k)
           /\ \A i \in 1..Len(log) : log[i].hash[1] = <<k, log[1].entry>>
<1>1. Sound(log, k)
  BY VerifyValid, ValidIsSound
<1>2. ASSUME NEW i \in 1..Len(log) PROVE log[i].hash[1] = <<k, log[1].entry>>
  <2>1. log[i].hash = Chain(log, k, i)
    BY <1>1 DEF Sound
  <2>2. 1 \in 1..i
    OBVIOUS
  <2>3. Chain(log, k, i)[1] = <<k, log[1].entry>>
    BY <2>2 DEF Chain
  <2>4. QED
    BY <2>1, <2>3
<1>3. QED
  BY <1>1, <1>2
=============================================================================
