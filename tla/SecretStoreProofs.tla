-------------------------- MODULE SecretStoreProofs --------------------------
(***************************************************************************)
(* Proofs about SecretStore, for every set of paths, every number of       *)
(* versions, every retention default and every bundle of healthy secrets.  *)
(***************************************************************************)
EXTENDS SecretStore, WellFoundedInduction, TLAPS

USE DEF Version

\* What begin_write reserved is above every number a row has: the part of the
\* state between begin_write and commit that the properties depend on.
ReservedAboveAll ==
    job.op = "write" =>
        \A v \in Version : row[job.path][v] # "none" => v < job.version

IInv == TypeOK /\ ReservedAboveAll /\ CiphertextIffHeld /\ RetentionWindow

\* The operation a job stands for determines its other fields.
LEMMA JobShape ==
    ASSUME TypeOK
    PROVE  /\ job.op = "write" => job \in [op : {"write"}, path : Path,
                                           version : Version, value : Value]
           /\ job.op = "delete" => job \in [op : {"delete"}, path : Path]
           /\ job.op \in {"idle", "write", "delete"}
           /\ job.op = "idle" => job = Idle
  BY DEF TypeOK, Job, Idle

-----------------------------------------------------------------------------
\* The initial tables are well typed and hold nothing.
LEMMA InitOK == Init => IInv
  BY NoValueAssumption, BoundsAssumption
  DEF Init, IInv, TypeOK, ReservedAboveAll, CiphertextIffHeld, RetentionWindow,
      Idle, Job, RowState, Held

\* Every step of every operation keeps the variables in their domains.
LEMMA TypeStep == TypeOK /\ [Next]_vars => TypeOK'
<1> SUFFICES ASSUME TypeOK, [Next]_vars PROVE TypeOK'
  OBVIOUS
<1> USE DEF TypeOK, RowState, Held
<1>1. ASSUME NEW p \in Path, NEW x \in Value, begin_write(p, x) PROVE TypeOK'
  BY <1>1 DEF begin_write, tables, Job
<1>2. CASE commit
  BY <1>2, JobShape, BoundsAssumption DEF commit, prune, Job, Idle
<1>3. ASSUME NEW p \in Path, NEW to \in Version, rollback(p, to) PROVE TypeOK'
  BY <1>3, BoundsAssumption DEF rollback
<1>4. ASSUME NEW p \in Path, NEW selector \in 0..MaxVersion,
             NEW mode \in {"soft", "destroy"}, delete_version(p, selector, mode)
      PROVE  TypeOK'
  BY <1>4 DEF delete_version, Job
<1>5. CASE repoint
  BY <1>5, JobShape DEF repoint, Job, Idle
<1>6. ASSUME NEW p \in Path, NEW b \in Bundle, import_secret_with_id(p, b)
      PROVE  TypeOK'
  BY <1>6, BundleAssumption DEF import_secret_with_id, ExportedSecret
<1>7. CASE Crash
  BY <1>7 DEF Crash, tables, Job, Idle
<1>8. CASE UNCHANGED vars
  BY <1>8 DEF vars
<1>9. QED
  BY <1>1, <1>2, <1>3, <1>4, <1>5, <1>6, <1>7, <1>8 DEF Next

\* begin_write reserves the next number and nothing is numbered before the
\* commit, because no other operation starts while the slot is open.
LEMMA ReservedStep == IInv /\ [Next]_vars => ReservedAboveAll'
<1> SUFFICES ASSUME IInv, [Next]_vars PROVE ReservedAboveAll'
  OBVIOUS
<1> USE DEF IInv, ReservedAboveAll
<1>1. ASSUME NEW p \in Path, NEW x \in Value, begin_write(p, x)
      PROVE  ReservedAboveAll'
  <2>1. PICK v \in Version :
           /\ IsMax(Numbered(row[p]), v - 1)
           /\ job' = [op |-> "write", path |-> p, version |-> v, value |-> x]
    BY <1>1 DEF begin_write
  <2>2. \A u \in Version : row[p][u] # "none" => u < v
    BY <2>1, BoundsAssumption DEF IsMax, Numbered
  <2>3. QED
    BY <1>1, <2>1, <2>2 DEF begin_write, tables
<1>2. CASE commit
  BY <1>2 DEF commit, Idle
<1>3. ASSUME NEW p \in Path, NEW to \in Version, rollback(p, to)
      PROVE  ReservedAboveAll'
  BY <1>3 DEF rollback, Idle
<1>4. ASSUME NEW p \in Path, NEW selector \in 0..MaxVersion,
             NEW mode \in {"soft", "destroy"}, delete_version(p, selector, mode)
      PROVE  ReservedAboveAll'
  BY <1>4 DEF delete_version
<1>5. CASE repoint
  BY <1>5 DEF repoint, Idle
<1>6. ASSUME NEW p \in Path, NEW b \in Bundle, import_secret_with_id(p, b)
      PROVE  ReservedAboveAll'
  BY <1>6 DEF import_secret_with_id, Idle
<1>7. CASE Crash
  BY <1>7 DEF Crash, Idle
<1>8. CASE UNCHANGED vars
  BY <1>8 DEF vars
<1>9. QED
  BY <1>1, <1>2, <1>3, <1>4, <1>5, <1>6, <1>7, <1>8 DEF Next

\* Destroying and pruning clear the sealed columns with the state, a write sets
\* both, and an import brings rows for which it already held.
LEMMA CiphertextStep == IInv /\ [Next]_vars => CiphertextIffHeld'
<1> SUFFICES ASSUME IInv, [Next]_vars PROVE CiphertextIffHeld'
  OBVIOUS
<1> USE NoValueAssumption DEF IInv, CiphertextIffHeld, Held
<1>1. ASSUME NEW p \in Path, NEW x \in Value, begin_write(p, x)
      PROVE  CiphertextIffHeld'
  BY <1>1 DEF begin_write, tables
<1>2. CASE commit
  BY <1>2, JobShape DEF commit, prune, TypeOK
<1>3. ASSUME NEW p \in Path, NEW to \in Version, rollback(p, to)
      PROVE  CiphertextIffHeld'
  BY <1>3 DEF rollback
<1>4. ASSUME NEW p \in Path, NEW selector \in 0..MaxVersion,
             NEW mode \in {"soft", "destroy"}, delete_version(p, selector, mode)
      PROVE  CiphertextIffHeld'
  <2>1. CASE mode = "soft"
    BY <1>4, <2>1 DEF delete_version, Matches, TypeOK
  <2>2. CASE mode = "destroy"
    BY <1>4, <2>2 DEF delete_version, Matches, TypeOK
  <2>3. QED
    BY <2>1, <2>2
<1>5. CASE repoint
  BY <1>5 DEF repoint
<1>6. ASSUME NEW p \in Path, NEW b \in Bundle, import_secret_with_id(p, b)
      PROVE  CiphertextIffHeld'
  BY <1>6, BundleAssumption DEF import_secret_with_id, Healthy, TypeOK
<1>7. CASE Crash
  BY <1>7 DEF Crash, tables
<1>8. CASE UNCHANGED vars
  BY <1>8 DEF vars
<1>9. QED
  BY <1>1, <1>2, <1>3, <1>4, <1>5, <1>6, <1>7, <1>8 DEF Next

\* Only a commit adds a number, and it prunes what the new number pushes out
\* of the window; deletes only shrink what is held.
LEMMA RetentionStep == IInv /\ [Next]_vars => RetentionWindow'
<1> SUFFICES ASSUME IInv, [Next]_vars PROVE RetentionWindow'
  OBVIOUS
<1> USE BoundsAssumption DEF IInv, RetentionWindow, Held
<1>1. ASSUME NEW p \in Path, NEW x \in Value, begin_write(p, x)
      PROVE  RetentionWindow'
  BY <1>1 DEF begin_write, tables
<1>2. CASE commit
  <2>1. /\ job.path \in Path
        /\ job.version \in Version
        /\ limit[job.path] \in Nat
    BY <1>2, JobShape DEF commit, TypeOK
  <2>2. \A v \in Version : row[job.path][v] # "none" => v < job.version
    BY <1>2 DEF commit, ReservedAboveAll
  <2> DEFINE p == job.path
             w == job.version
  <2>3. ASSUME NEW u \in Version, NEW v \in Version, u # v,
               row'[p][u] \in Held, row'[p][v] # "none"
        PROVE  u > v - limit[p]
    <3>1. /\ v # w => row[p][v] # "none"
          /\ u # w => row[p][u] \in Held /\ u > w - limit[p]
      BY <1>2, <2>1, <2>3 DEF commit, prune, TypeOK
    <3>2. CASE u = w
      BY <2>1, <2>2, <2>3, <3>1, <3>2
    <3>3. CASE v = w
      BY <2>3, <3>1, <3>3
    <3>4. CASE u # w /\ v # w
      BY <2>1, <2>3, <3>1, <3>4
    <3>5. QED
      BY <3>2, <3>3, <3>4
  <2>4. QED
    BY <1>2, <2>1, <2>3 DEF commit, TypeOK
<1>3. ASSUME NEW p \in Path, NEW to \in Version, rollback(p, to)
      PROVE  RetentionWindow'
  BY <1>3 DEF rollback
<1>4. ASSUME NEW p \in Path, NEW selector \in 0..MaxVersion,
             NEW mode \in {"soft", "destroy"}, delete_version(p, selector, mode)
      PROVE  RetentionWindow'
  BY <1>4 DEF delete_version, Matches, TypeOK
<1>5. CASE repoint
  BY <1>5 DEF repoint
<1>6. ASSUME NEW p \in Path, NEW b \in Bundle, import_secret_with_id(p, b)
      PROVE  RetentionWindow'
  <2>1. row' = [row EXCEPT ![p] = b.row] /\ limit' = [limit EXCEPT ![p] = b.limit]
    BY <1>6 DEF import_secret_with_id
  <2>2. Healthy(b.row, b.payload, b.current, b.limit)
    BY BundleAssumption
  <2>3. QED
    BY <2>1, <2>2 DEF Healthy, TypeOK
<1>7. CASE Crash
  BY <1>7 DEF Crash, tables
<1>8. CASE UNCHANGED vars
  BY <1>8 DEF vars
<1>9. QED
  BY <1>1, <1>2, <1>3, <1>4, <1>5, <1>6, <1>7, <1>8 DEF Next
-----------------------------------------------------------------------------
\* The inductive invariant holds in every reachable state.
THEOREM Inductive == Spec => []IInv
<1>1. IInv /\ [Next]_vars => IInv'
  BY TypeStep, ReservedStep, CiphertextStep, RetentionStep DEF IInv
<1>2. QED
  BY InitOK, <1>1, PTL DEF Spec

\* Every operation of the store keeps every column in its domain, the number
\* a write reserves included: at the last number a write is refused.
THEOREM TypeCorrect == Spec => []TypeOK
<1>1. IInv => TypeOK
  BY DEF IInv
<1>2. QED
  BY Inductive, <1>1, PTL

\* Ciphertext and wrapped keys are there exactly for the versions that are not
\* destroyed, in every reachable state, crashes at any point included.
THEOREM CiphertextCorrect == Spec => []CiphertextIffHeld
<1>1. IInv => CiphertextIffHeld
  BY DEF IInv
<1>2. QED
  BY Inductive, <1>1, PTL

\* Retention holds for every max_versions a secret may have, 0 included.
THEOREM RetentionCorrect == Spec => []RetentionWindow
<1>1. IInv => RetentionWindow
  BY DEF IInv
<1>2. QED
  BY Inductive, <1>1, PTL
-----------------------------------------------------------------------------
\* No step of any operation reuses a number, replaces what a version sealed,
\* or brings a hidden or destroyed version back.
THEOREM FinalVersions == Spec => VersionsAreFinal
<1> DEFINE Final(p, v) ==
       row[p][v] # "none" =>
          /\ row'[p][v] # "none"
          /\ payload'[p][v] \in {payload[p][v], NoValue}
          /\ row[p][v] # "active" => row'[p][v] \in {row[p][v], "destroyed"}
<1>1. IInv /\ [Next]_vars => \A p \in Path, v \in Version : Final(p, v)
  <2> SUFFICES ASSUME IInv, [Next]_vars, NEW p \in Path, NEW v \in Version
               PROVE  Final(p, v)
    OBVIOUS
  <2> USE DEF IInv, TypeOK, Held
  <2>1. ASSUME NEW q \in Path, NEW x \in Value, begin_write(q, x)
        PROVE  Final(p, v)
    BY <2>1 DEF begin_write, tables
  <2>2. CASE commit
    <3>1. job.path \in Path /\ job.version \in Version
      BY <2>2, JobShape DEF commit
    <3>2. p = job.path /\ row[p][v] # "none" => v # job.version
      BY <2>2, <3>1 DEF commit, ReservedAboveAll
    <3>3. QED
      BY <2>2, <3>1, <3>2 DEF commit, prune
  <2>3. ASSUME NEW q \in Path, NEW to \in Version, rollback(q, to)
        PROVE  Final(p, v)
    BY <2>3 DEF rollback
  <2>4. ASSUME NEW q \in Path, NEW selector \in 0..MaxVersion,
               NEW mode \in {"soft", "destroy"}, delete_version(q, selector, mode)
        PROVE  Final(p, v)
    BY <2>4 DEF delete_version, Matches
  <2>5. CASE repoint
    BY <2>5 DEF repoint
  <2>6. ASSUME NEW q \in Path, NEW b \in Bundle, import_secret_with_id(q, b)
        PROVE  Final(p, v)
    BY <2>6 DEF import_secret_with_id, Exists
  <2>7. CASE Crash
    BY <2>7 DEF Crash, tables
  <2>8. CASE UNCHANGED vars
    BY <2>8 DEF vars
  <2>9. QED
    BY <2>1, <2>2, <2>3, <2>4, <2>5, <2>6, <2>7, <2>8 DEF Next
<1>2. QED
  BY Inductive, <1>1, PTL DEF Spec, VersionsAreFinal
-----------------------------------------------------------------------------
\* Where delete_version cannot be cut between its statements, every step
\* leaves current_version on a readable version.
LEMMA CurrentStep ==
    ASSUME "delete" \notin CrashPoints
    PROVE  IInv /\ CurrentNamesReadable /\ [Next]_vars => CurrentNamesReadable'
<1> SUFFICES ASSUME IInv, CurrentNamesReadable, [Next]_vars
             PROVE  CurrentNamesReadable'
  OBVIOUS
<1> USE DEF IInv, TypeOK, CurrentNamesReadable, Settled, Active, Idle
<1>1. ASSUME NEW p \in Path, NEW x \in Value, begin_write(p, x)
      PROVE  CurrentNamesReadable'
  BY <1>1 DEF begin_write, tables
<1>2. CASE commit
  <2>1. job.path \in Path /\ job.version \in Version /\ job.op = "write"
    BY <1>2, JobShape DEF commit
  <2>2. QED
    BY <1>2, <2>1, BoundsAssumption DEF commit
<1>3. ASSUME NEW p \in Path, NEW to \in Version, rollback(p, to)
      PROVE  CurrentNamesReadable'
  BY <1>3, BoundsAssumption DEF rollback
<1>4. ASSUME NEW p \in Path, NEW selector \in 0..MaxVersion,
             NEW mode \in {"soft", "destroy"}, delete_version(p, selector, mode)
      PROVE  CurrentNamesReadable'
  BY <1>4 DEF delete_version
<1>5. CASE repoint
  <2>1. job.op = "delete" /\ job.path \in Path
    BY <1>5, JobShape DEF repoint
  <2>2. PICK n \in 0..MaxVersion : /\ IsMax(Active(row[job.path]), n)
                                   /\ current' = [current EXCEPT ![job.path] = n]
    BY <1>5 DEF repoint
  <2>3. /\ n # 0 => row[job.path][n] = "active"
        /\ n = 0 => Active(row[job.path]) = {}
    BY <2>2, BoundsAssumption DEF IsMax
  <2>4. QED
    BY <1>5, <2>1, <2>2, <2>3 DEF repoint
<1>6. ASSUME NEW p \in Path, NEW b \in Bundle, import_secret_with_id(p, b)
      PROVE  CurrentNamesReadable'
  BY <1>6, BundleAssumption DEF import_secret_with_id, Healthy
<1>7. CASE Crash
  BY <1>7, JobShape DEF Crash, tables
<1>8. CASE UNCHANGED vars
  BY <1>8 DEF vars
<1>9. QED
  BY <1>1, <1>2, <1>3, <1>4, <1>5, <1>6, <1>7, <1>8 DEF Next

\* If nothing cuts delete_version between its two statements, current_version
\* names a readable version whenever there is one, and is NULL otherwise.
THEOREM CurrentCorrect ==
    ASSUME "delete" \notin CrashPoints
    PROVE  Spec => []CurrentNamesReadable
<1>1. Init => CurrentNamesReadable
  BY DEF Init, CurrentNamesReadable, Active, Settled
<1>2. QED
  BY Inductive, CurrentStep, <1>1, PTL DEF Spec
-----------------------------------------------------------------------------
(* The refinement: the state of VersionHistory, and one of its steps, or    *)
(* none, for every step of the tables.                                      *)

Values == [p \in Path |-> Readable(p)]
Heads == [p \in Path |-> CurrentReadable(p)]
Reading == Value \cup {"unused", "gone"}

ReadingsMatch ==
    /\ Values \in [Path -> [Version -> Reading]]
    /\ \A p \in Path, v \in Version :
          /\ row[p][v] \in RowState
          /\ Values[p][v] = "unused" <=> row[p][v] = "none"
          /\ Values[p][v] \in Value <=> row[p][v] = "active"
          /\ row[p][v] = "active" => Values[p][v] = payload[p][v]
          /\ row[p][v] \notin {"none", "active"} => Values[p][v] = "gone"
    /\ \A p \in Path : {v \in Version : Values[p][v] \in Value} = Active(row[p])

HeadsMatch ==
    /\ Heads \in [Path -> 0..MaxVersion]
    /\ \A p \in Path : Settled(p) => Heads[p] = current[p]
    /\ \A p \in Path : ~Settled(p) => IsMax(Active(row[p]), Heads[p])
    /\ \A p \in Path, n \in 0..MaxVersion :
          ~Settled(p) /\ IsMax(Active(row[p]), n) => Heads[p] = n

\* What reading a version says of its row.
LEMMA ReadingFacts ==
    ASSUME IInv
    PROVE  ReadingsMatch
<1>1. \A p \in Path, v \in Version :
         /\ row[p][v] \in RowState
         /\ row[p][v] = "active" => payload[p][v] \in Value
  BY DEF IInv, TypeOK, CiphertextIffHeld, Held
<1>2. \A p \in Path, v \in Version :
         Values[p][v] = IF row[p][v] = "none" THEN "unused"
                        ELSE IF row[p][v] = "active" THEN payload[p][v]
                        ELSE "gone"
  BY DEF Values, Readable
<1>3. \A p \in Path, v \in Version :
         /\ row[p][v] \in RowState
         /\ Values[p][v] = "unused" <=> row[p][v] = "none"
         /\ Values[p][v] \in Value <=> row[p][v] = "active"
         /\ row[p][v] = "active" => Values[p][v] = payload[p][v]
         /\ row[p][v] \notin {"none", "active"} => Values[p][v] = "gone"
         /\ Values[p][v] \in Reading
  BY <1>1, <1>2, OutcomeAssumption DEF Reading, RowState
<1>4. Values = [p \in Path |-> [v \in Version |-> Values[p][v]]]
  BY DEF Values, Readable
<1>5. Values \in [Path -> [Version -> Reading]]
  BY <1>3, <1>4
<1>6. QED
  BY <1>3, <1>5 DEF Active, ReadingsMatch

\* A set of naturals that is not empty has a least element.
LEMMA LeastNat ==
    ASSUME NEW S, S \subseteq Nat, S # {}
    PROVE  \E x \in S : \A y \in S : x <= y
<1>1. PICK x \in S : \A y \in S : ~(<<y, x>> \in OpToRel(<, Nat))
  BY NatLessThanWellFounded, WFMin, Zenon
<1>2. \A y \in S : <<y, x>> \in Nat \X Nat
  OBVIOUS
<1>3. \A y \in S : ~(y < x)
  BY <1>1, <1>2, Zenon DEF OpToRel
<1>4. QED
  BY <1>3

\* A bounded one has a greatest element: the least distance to the bound.
LEMMA GreatestNat ==
    ASSUME NEW S, NEW n \in Nat, S \subseteq 0..n, S # {}
    PROVE  \E x \in S : \A y \in S : y <= x
<1>1. \A x \in S : x \in Nat /\ n - x \in Nat
  OBVIOUS
<1>2. PICK t \in {n - x : x \in S} : \A u \in {n - x : x \in S} : t <= u
  <2>1. {n - x : x \in S} \subseteq Nat /\ {n - x : x \in S} # {}
    BY <1>1, Zenon
  <2>2. QED
    BY <2>1, LeastNat, Zenon
<1>3. PICK x \in S : t = n - x
  BY Zenon
<1>4. \A y \in S : n - x <= n - y
  BY <1>2, <1>3, Zenon
<1>5. QED
  BY <1>1, <1>4

\* There is one newest version, or none.
LEMMA NewestExists ==
    ASSUME NEW S \in SUBSET Version
    PROVE  \E n \in 0..MaxVersion : IsMax(S, n) /\ \A m \in 0..MaxVersion : IsMax(S, m) => m = n
<1>1. CASE S = {}
  BY <1>1, BoundsAssumption DEF IsMax
<1>2. CASE S # {}
  <2>1. S \subseteq 0..MaxVersion
    BY BoundsAssumption
  <2>2. PICK n \in S : \A m \in S : m <= n
    BY <1>2, <2>1, BoundsAssumption, GreatestNat
  <2>3. IsMax(S, n) /\ n \in 0..MaxVersion
    BY <2>1, <2>2 DEF IsMax
  <2>4. \A m \in 0..MaxVersion : IsMax(S, m) => m = n
    BY <1>2, <2>1, <2>2 DEF IsMax
  <2>5. QED
    BY <2>3, <2>4
<1>3. QED
  BY <1>1, <1>2

\* The head that callers see.
LEMMA HeadFacts ==
    ASSUME IInv
    PROVE  HeadsMatch
<1> TypeOK
  BY DEF IInv
<1>1. \A p \in Path : Active(row[p]) \in SUBSET Version
  BY DEF Active
<1>2. ASSUME NEW p \in Path
      PROVE  /\ CurrentReadable(p) \in 0..MaxVersion
             /\ Settled(p) => CurrentReadable(p) = current[p]
             /\ ~Settled(p) => IsMax(Active(row[p]), CurrentReadable(p))
  <2>1. CASE Settled(p)
    BY <2>1 DEF CurrentReadable, TypeOK
  <2>2. CASE ~Settled(p)
    <3>1. \E n \in 0..MaxVersion : IsMax(Active(row[p]), n)
      BY <1>1, NewestExists
    <3>2. CurrentReadable(p) = CHOOSE n \in 0..MaxVersion : IsMax(Active(row[p]), n)
      BY <2>2 DEF CurrentReadable
    <3>3. QED
      BY <2>2, <3>1, <3>2
  <2>3. QED
    BY <2>1, <2>2
<1>3. \A p \in Path : Heads[p] = CurrentReadable(p)
  BY DEF Heads
<1>4. Heads \in [Path -> 0..MaxVersion]
  BY <1>2 DEF Heads
<1>5. ASSUME NEW p \in Path, NEW n \in 0..MaxVersion, ~Settled(p), IsMax(Active(row[p]), n)
      PROVE  Heads[p] = n
  BY <1>1, <1>2, <1>3, <1>4, <1>5, NewestExists
<1>6. QED
  BY <1>2, <1>3, <1>4, <1>5 DEF HeadsMatch

\* One path's history changes, or none.
LEMMA OnePath ==
    ASSUME NEW S, NEW F \in [Path -> S], NEW G \in [Path -> S], NEW p \in Path,
           \A q \in Path : q # p => G[q] = F[q]
    PROVE  /\ G = [F EXCEPT ![p] = G[p]]
           /\ G[p] = F[p] => G = F
  OBVIOUS

\* The initial tables hold an empty history.
LEMMA InitHistory == Init => H!Init
<1> SUFFICES ASSUME Init PROVE H!Init
  OBVIOUS
<1>1. ReadingsMatch /\ HeadsMatch
  BY InitOK, ReadingFacts, HeadFacts
<1>2. \A p \in Path, v \in Version : Values[p][v] = "unused"
  BY <1>1 DEF Init, ReadingsMatch
<1>3. \A p \in Path : Settled(p)
  BY DEF Init, Settled, Idle
<1>4. \A p \in Path : Heads[p] = 0
  BY <1>1, <1>3 DEF Init, HeadsMatch
<1>5. \A p \in Path : Values[p] = [v \in Version |-> "unused"]
  BY <1>1, <1>2 DEF ReadingsMatch
<1>6. Values = [p \in Path |-> [v \in Version |-> "unused"]]
  BY <1>1, <1>5 DEF ReadingsMatch
<1>7. Heads = [p \in Path |-> 0]
  BY <1>1, <1>4 DEF HeadsMatch
<1>8. QED
  BY <1>6, <1>7 DEF H!Init, H!Version, Values, Heads

\* The invariant holds after a step, and with it what reading says.
LEMMA MatchesAfter ==
    ASSUME IInv, [Next]_vars
    PROVE  ReadingsMatch /\ HeadsMatch /\ ReadingsMatch' /\ HeadsMatch' /\ TypeOK /\ TypeOK'
<1>1. IInv'
  BY TypeStep, ReservedStep, CiphertextStep, RetentionStep DEF IInv
<1>2. ReadingsMatch /\ HeadsMatch
  BY ReadingFacts, HeadFacts
<1>3. ReadingsMatch' /\ HeadsMatch'
  BY <1>1, ReadingFacts, HeadFacts, PTL
<1>4. QED
  BY <1>1, <1>2, <1>3 DEF IInv

\* Readers see the same while rows, sealed columns and current versions stay.
LEMMA QuietHistory ==
    ASSUME IInv, [Next]_vars, row' = row, payload' = payload, current' = current,
           \A p \in Path : Settled(p) /\ Settled(p)'
    PROVE  Values' = Values /\ Heads' = Heads
<1>1. Values' = Values
  BY DEF Values, Readable
<1>2. Heads' = Heads
  BY MatchesAfter DEF HeadsMatch
<1>3. QED
  BY <1>1, <1>2

\* A commit publishes the value the slot was opened for.
LEMMA CommitPublishes ==
    ASSUME IInv, [Next]_vars, commit
    PROVE  H!Publish(job.path, job.version, job.value)
<1> DEFINE p == job.path
           w == job.version
           x == job.value
           low == w - limit[p]
           floor == IF low < 0 THEN 0 ELSE IF low > w - 1 THEN w - 1 ELSE low
<1>1. ReadingsMatch /\ HeadsMatch /\ ReadingsMatch' /\ HeadsMatch' /\ TypeOK /\ TypeOK'
  BY MatchesAfter
<1>2. job.op = "write" /\ p \in Path /\ w \in Version /\ x \in Value /\ limit[p] \in Nat
  BY <1>1, JobShape DEF commit, TypeOK
<1>3. \A v \in Version : row[p][v] # "none" => v < w
  BY <1>2 DEF IInv, ReservedAboveAll
<1>4. /\ \A v \in Version : row'[p][v] = IF v = w THEN "active"
                                         ELSE IF row[p][v] \in Held /\ v <= w - limit[p]
                                              THEN "destroyed" ELSE row[p][v]
      /\ payload'[p][w] = x
      /\ \A v \in Version : row'[p][v] = "active" /\ v # w => payload'[p][v] = payload[p][v]
      /\ \A q \in Path : q # p => row'[q] = row[q] /\ payload'[q] = payload[q]
      /\ current' = [current EXCEPT ![p] = w] /\ job' = Idle
  BY <1>1, <1>2 DEF commit, prune, TypeOK
<1>5. floor \in 0..(w - 1) /\ \A v \in Version : v < w => (v <= low <=> v <= floor)
  BY <1>2, BoundsAssumption
<1> HIDE DEF floor
<1>6. ASSUME NEW v \in Version
      PROVE  Values'[p][v] = IF v = w THEN x
                             ELSE IF v <= floor /\ Values[p][v] \in Value THEN "gone"
                             ELSE Values[p][v]
  <2>1. CASE v = w
    BY <1>1, <1>2, <1>4, <2>1 DEF ReadingsMatch
  <2>2. CASE v # w /\ row[p][v] = "none"
    BY <1>1, <1>2, <1>4, <2>2 DEF ReadingsMatch, Held
  <2>3. CASE v # w /\ row[p][v] = "active"
    BY <1>1, <1>2, <1>3, <1>4, <1>5, <2>3 DEF ReadingsMatch, Held
  <2>4. CASE v # w /\ row[p][v] \notin {"none", "active"}
    <3>1. row'[p][v] \notin {"none", "active"}
      BY <1>4, <2>4
    <3>2. Values'[p][v] = "gone" /\ Values[p][v] = "gone"
      BY <1>1, <1>2, <2>4, <3>1 DEF ReadingsMatch
    <3>3. QED
      BY <2>4, <3>2
  <2>5. QED
    BY <2>1, <2>2, <2>3, <2>4
<1>7. \A q \in Path : q # p => Values'[q] = Values[q]
  BY <1>4 DEF Values, Readable
<1>8. Values'[p] = [v \in Version |-> IF v = w THEN x
                                      ELSE IF v <= floor /\ Values[p][v] \in Value THEN "gone"
                                      ELSE Values[p][v]]
  <2>1. Values' \in [Path -> [Version -> Reading]]
    BY <1>1 DEF ReadingsMatch
  <2>2. Values'[p] \in [Version -> Reading]
    BY <1>2, <2>1
  <2>3. QED
    BY <1>6, <2>2
<1>9. Values' = [Values EXCEPT ![p] = Values'[p]]
  <2>1. Values \in [Path -> [Version -> Reading]] /\ Values' \in [Path -> [Version -> Reading]]
    BY <1>1 DEF ReadingsMatch
  <2>2. QED
    BY <1>2, <1>7, <2>1, OnePath
<1>10. \A q \in Path : Settled(q) /\ Settled(q)'
  BY <1>2, <1>4 DEF Settled, Idle
<1>11. Heads' = [Heads EXCEPT ![p] = w]
  <2>1. \A q \in Path : Heads[q] = current[q] /\ Heads'[q] = current'[q]
    BY <1>1, <1>10 DEF HeadsMatch
  <2>2. Heads \in [Path -> 0..MaxVersion] /\ Heads' \in [Path -> 0..MaxVersion]
    BY <1>1 DEF HeadsMatch
  <2>3. Heads'[p] = w /\ \A q \in Path : q # p => Heads'[q] = Heads[q]
    BY <1>1, <1>2, <1>4, <2>1 DEF TypeOK
  <2>4. QED
    BY <1>2, <2>2, <2>3, OnePath
<1>12. \A v \in Version : v >= w => Values[p][v] = "unused"
  BY <1>1, <1>2, <1>3 DEF ReadingsMatch
<1>13. \E f \in 0..(w - 1) :
          Values' = [Values EXCEPT ![p] =
                       [v \in Version |-> IF v = w THEN x
                                          ELSE IF v <= f /\ Values[p][v] \in Value THEN "gone"
                                          ELSE Values[p][v]]]
  <2>1. floor \in 0..(w - 1)
    BY <1>5
  <2>2. QED
    BY <1>8, <1>9, <2>1, Zenon
<1>14. QED
  BY <1>11, <1>12, <1>13 DEF H!Publish, H!Version, Version, Values, Heads

\* rollback moves the head.
LEMMA RollbackPoints ==
    ASSUME IInv, [Next]_vars, NEW p \in Path, NEW to \in Version, rollback(p, to)
    PROVE  H!Point(p, to)
<1>1. ReadingsMatch /\ HeadsMatch /\ HeadsMatch' /\ TypeOK
  BY MatchesAfter
<1>2. /\ job = Idle /\ job' = job /\ row' = row /\ payload' = payload /\ row[p][to] = "active"
      /\ current' = [current EXCEPT ![p] = to]
  BY DEF rollback
<1>3. Values' = Values /\ Values[p][to] \in Value
  BY <1>1, <1>2 DEF Values, Readable, ReadingsMatch
<1>4. \A q \in Path : Settled(q) /\ Settled(q)'
  BY <1>2 DEF Settled, Idle
<1>5. \A q \in Path : Heads[q] = current[q] /\ Heads'[q] = current'[q]
  BY <1>1, <1>4 DEF HeadsMatch
<1>6. Heads'[p] = to /\ \A q \in Path : q # p => Heads'[q] = Heads[q]
  BY <1>1, <1>2, <1>5 DEF TypeOK
<1>7. Heads \in [Path -> 0..MaxVersion] /\ Heads' \in [Path -> 0..MaxVersion]
  BY <1>1 DEF HeadsMatch
<1>8. Heads' = [Heads EXCEPT ![p] = to]
  BY <1>6, <1>7, OnePath
<1>9. QED
  BY <1>3, <1>8 DEF H!Point, Values, Heads

\* The first statement of delete_version is already the whole withdrawal.
LEMMA DeleteWithdraws ==
    ASSUME IInv, [Next]_vars, NEW p \in Path, NEW selector \in 0..MaxVersion,
           NEW mode \in {"soft", "destroy"}, delete_version(p, selector, mode)
    PROVE  \E v \in Version : H!Withdraw(p, v)
<1>1. ReadingsMatch /\ HeadsMatch /\ ReadingsMatch' /\ HeadsMatch' /\ TypeOK /\ TypeOK'
  BY MatchesAfter
<1>2. PICK v \in Version :
         /\ row[p][v] \in Matches(mode)
         /\ row' = [row EXCEPT ![p][v] = IF mode = "soft" THEN "deleted" ELSE "destroyed"]
         /\ payload' = IF mode = "soft" THEN payload ELSE [payload EXCEPT ![p][v] = NoValue]
  BY DEF delete_version
<1>3. job = Idle /\ job' = [op |-> "delete", path |-> p] /\ current' = current
  BY DEF delete_version
<1>4. /\ row[p][v] # "none" /\ row'[p][v] \in {"deleted", "destroyed"}
      /\ \A u \in Version : u # v => row'[p][u] = row[p][u] /\ payload'[p][u] = payload[p][u]
      /\ \A q \in Path : q # p => row'[q] = row[q] /\ payload'[q] = payload[q]
  BY <1>1, <1>2 DEF Matches, Held, TypeOK
<1>5. Values[p][v] # "unused" /\ Values'[p][v] = "gone"
  BY <1>1, <1>4 DEF ReadingsMatch
<1>6. \A u \in Version : u # v => Values'[p][u] = Values[p][u]
  BY <1>4 DEF Values, Readable
<1>7. \A q \in Path : q # p => Values'[q] = Values[q]
  BY <1>4 DEF Values, Readable
<1>8. Values \in [Path -> [Version -> Reading]] /\ Values' \in [Path -> [Version -> Reading]]
  BY <1>1 DEF ReadingsMatch
<1>9. Values'[p] = [Values[p] EXCEPT ![v] = "gone"]
  <2>1. Values[p] \in [Version -> Reading] /\ Values'[p] \in [Version -> Reading]
    BY <1>8
  <2>2. QED
    BY <1>5, <1>6, <2>1
<1>10. Values' = [Values EXCEPT ![p][v] = "gone"]
  <2>1. Values' = [Values EXCEPT ![p] = Values'[p]]
    BY <1>7, <1>8, OnePath
  <2>2. QED
    BY <1>9, <2>1
<1>11. ~Settled(p)' /\ \A q \in Path : Settled(q) /\ (q # p => Settled(q)')
  BY <1>3 DEF Settled, Idle
<1>12. \A q \in Path : q # p => Heads'[q] = Heads[q]
  BY <1>1, <1>3, <1>11 DEF HeadsMatch
<1>13. Heads \in [Path -> 0..MaxVersion] /\ Heads' \in [Path -> 0..MaxVersion]
  BY <1>1 DEF HeadsMatch
<1>14. PICK n \in 0..MaxVersion : n = Heads'[p]
  BY <1>13
<1>15. Heads' = [Heads EXCEPT ![p] = n]
  BY <1>12, <1>13, <1>14, OnePath
<1>16. IsMax({u \in Version : Values'[p][u] \in Value}, n)
  <2>1. IsMax(Active(row'[p]), Heads'[p])
    BY <1>1, <1>11 DEF HeadsMatch
  <2>2. {u \in Version : Values'[p][u] \in Value} = Active(row'[p])
    BY <1>1 DEF ReadingsMatch
  <2>3. QED
    BY <1>14, <2>1, <2>2
<1>17. H!Withdraw(p, v)
  <2>1. H!IsNewest(H!Available(Values'[p]), n)
    BY <1>16 DEF H!IsNewest, H!Available, H!Version, IsMax
  <2>2. QED
    BY <1>5, <1>10, <1>15, <2>1 DEF H!Withdraw, Values, Heads
<1>18. QED
  BY <1>17

\* The second statement sets the head that readers are shown already.
LEMMA RepointIsQuiet ==
    ASSUME IInv, [Next]_vars, repoint
    PROVE  Values' = Values /\ Heads' = Heads
<1>1. HeadsMatch /\ HeadsMatch' /\ TypeOK /\ TypeOK'
  BY MatchesAfter
<1>2. job.op = "delete" /\ job.path \in Path /\ row' = row /\ payload' = payload /\ job' = Idle
  BY <1>1, JobShape DEF repoint
<1>3. PICK n \in 0..MaxVersion : /\ IsMax(Active(row[job.path]), n)
                                 /\ current' = [current EXCEPT ![job.path] = n]
  BY DEF repoint
<1>4. Values' = Values
  BY <1>2 DEF Values, Readable
<1>5. ~Settled(job.path) /\ \A q \in Path : Settled(q)' /\ (q # job.path => Settled(q))
  BY <1>2 DEF Settled, Idle
<1>6. Heads[job.path] = n
  BY <1>1, <1>2, <1>3, <1>5 DEF HeadsMatch
<1>7. \A q \in Path : Heads'[q] = current'[q]
  BY <1>1, <1>5 DEF HeadsMatch
<1>8. \A q \in Path : q # job.path => Heads[q] = current[q]
  BY <1>1, <1>5 DEF HeadsMatch
<1>9. \A q \in Path : Heads'[q] = Heads[q]
  BY <1>1, <1>2, <1>3, <1>6, <1>7, <1>8 DEF TypeOK
<1>10. Heads' = Heads
  BY <1>1, <1>9 DEF HeadsMatch
<1>11. QED
  BY <1>4, <1>10

\* An import loads a whole history.
LEMMA ImportLoads ==
    ASSUME IInv, [Next]_vars, NEW p \in Path, NEW b \in Bundle, import_secret_with_id(p, b)
    PROVE  H!Load(p)
<1>1. ReadingsMatch /\ HeadsMatch /\ ReadingsMatch' /\ HeadsMatch' /\ TypeOK /\ TypeOK'
  BY MatchesAfter
<1>2. /\ job = Idle /\ job' = job /\ \A v \in Version : row[p][v] = "none"
      /\ row' = [row EXCEPT ![p] = b.row] /\ payload' = [payload EXCEPT ![p] = b.payload]
      /\ current' = [current EXCEPT ![p] = b.current]
  BY DEF import_secret_with_id, Exists
<1>3. /\ row'[p] = b.row /\ current'[p] = b.current
      /\ \A q \in Path : q # p => /\ row'[q] = row[q] /\ payload'[q] = payload[q]
                                  /\ current'[q] = current[q]
  BY <1>1, <1>2 DEF TypeOK
<1>4. /\ current'[p] # 0 => row'[p][current'[p]] = "active"
      /\ current'[p] = 0 => Active(row'[p]) = {}
      /\ current'[p] \in 0..MaxVersion
  <2>1. Healthy(b.row, b.payload, b.current, b.limit)
    BY BundleAssumption
  <2>2. current'[p] \in 0..MaxVersion
    BY <1>1 DEF TypeOK
  <2>3. QED
    BY <1>3, <2>1, <2>2 DEF Healthy
<1>5. \A v \in Version : Values[p][v] = "unused"
  BY <1>1, <1>2 DEF ReadingsMatch
<1>6. \A q \in Path : q # p => Values'[q] = Values[q]
  BY <1>3 DEF Values, Readable
<1>7. Values \in [Path -> [Version -> Reading]] /\ Values' \in [Path -> [Version -> Reading]]
  BY <1>1 DEF ReadingsMatch
<1>8. Values' = [Values EXCEPT ![p] = Values'[p]]
  BY <1>6, <1>7, OnePath
<1>9. Values'[p] \in [Version -> Reading]
  BY <1>7
<1>10. \A q \in Path : Settled(q) /\ Settled(q)'
  BY <1>2 DEF Settled, Idle
<1>11. \A q \in Path : Heads[q] = current[q] /\ Heads'[q] = current'[q]
  BY <1>1, <1>10 DEF HeadsMatch
<1>12. Heads \in [Path -> 0..MaxVersion] /\ Heads' \in [Path -> 0..MaxVersion]
  BY <1>1 DEF HeadsMatch
<1>13. \A q \in Path : q # p => Heads'[q] = Heads[q]
  BY <1>3, <1>11
<1>14. Heads' = [Heads EXCEPT ![p] = Heads'[p]]
  BY <1>12, <1>13, OnePath
<1>15. {v \in Version : Values'[p][v] \in Value} = Active(row'[p])
  BY <1>1 DEF ReadingsMatch
<1>16. IF Heads'[p] = 0 THEN {v \in Version : Values'[p][v] \in Value} = {}
       ELSE Heads'[p] \in {v \in Version : Values'[p][v] \in Value}
  <2>1. CASE current'[p] = 0
    BY <1>4, <1>11, <1>15, <2>1
  <2>2. CASE current'[p] # 0
    <3>1. current'[p] \in Active(row'[p])
      BY <1>4, <2>2, BoundsAssumption DEF Active
    <3>2. QED
      BY <1>11, <1>15, <2>2, <3>1
  <2>3. QED
    BY <2>1, <2>2
<1>17. QED
  BY <1>5, <1>8, <1>9, <1>14, <1>16 DEF H!Load, H!Available, H!Version, Reading, Values, Heads

\* Every step of the tables is a step of the history, or none.
LEMMA StepHistory ==
    ASSUME "delete" \notin CrashPoints, IInv, [Next]_vars
    PROVE  [H!Next]_(H!vars)
<1>1. ASSUME Values' = Values /\ Heads' = Heads PROVE UNCHANGED H!vars
  BY <1>1 DEF H!vars, Values, Heads
<1>2. ASSUME row' = row, payload' = payload, current' = current,
             job.op # "delete", job'.op # "delete"
      PROVE  UNCHANGED H!vars
  <2>1. \A p \in Path : Settled(p) /\ Settled(p)'
    BY <1>2 DEF Settled
  <2>2. QED
    BY <1>1, <1>2, <2>1, QuietHistory
<1>3. ASSUME NEW p \in Path, NEW x \in Value, begin_write(p, x) PROVE UNCHANGED H!vars
  <2>1. job.op # "delete" /\ job'.op # "delete"
    BY <1>3 DEF begin_write, Idle
  <2>2. QED
    BY <1>2, <1>3, <2>1 DEF begin_write, tables
<1>4. CASE commit
  <2>1. job.path \in Path /\ job.version \in Version /\ job.value \in Value
    BY <1>4, JobShape DEF commit, IInv
  <2>2. H!Publish(job.path, job.version, job.value)
    BY <1>4, CommitPublishes
  <2>3. QED
    BY <2>1, <2>2 DEF H!Next, H!Version
<1>5. ASSUME NEW p \in Path, NEW to \in Version, rollback(p, to) PROVE H!Next
  BY <1>5, RollbackPoints DEF H!Next, H!Version
<1>6. ASSUME NEW p \in Path, NEW selector \in 0..MaxVersion,
             NEW mode \in {"soft", "destroy"}, delete_version(p, selector, mode)
      PROVE  H!Next
  BY <1>6, DeleteWithdraws DEF H!Next, H!Version
<1>7. CASE repoint
  BY <1>1, <1>7, RepointIsQuiet
<1>8. ASSUME NEW p \in Path, NEW b \in Bundle, import_secret_with_id(p, b) PROVE H!Next
  BY <1>8, ImportLoads DEF H!Next
<1>9. CASE Crash
  <2>1. job.op = "write" /\ job' = Idle /\ row' = row /\ payload' = payload /\ current' = current
    BY <1>9, JobShape, CrashPointsAssumption DEF Crash, tables, IInv
  <2>2. job.op # "delete" /\ job'.op # "delete"
    BY <2>1 DEF Idle
  <2>3. QED
    BY <1>2, <2>1, <2>2
<1>10. CASE UNCHANGED vars
  <2>1. Values' = Values /\ Heads' = Heads
    BY <1>10 DEF vars, Values, Heads, Readable, CurrentReadable, Settled
  <2>2. QED
    BY <1>1, <2>1
<1>11. QED
  BY <1>3, <1>4, <1>5, <1>6, <1>7, <1>8, <1>9, <1>10 DEF Next

\* Where delete_version cannot be cut between its statements, the tables implement
\* the history: values never change, numbers are used once, the head is always
\* readable, and every delete is one step.
THEOREM TablesImplementHistory ==
    ASSUME "delete" \notin CrashPoints
    PROVE  Spec => ImplementsHistory
<1>1. IInv /\ [Next]_vars => [H!Next]_(H!vars)
  BY StepHistory
<1>2. QED
  BY InitHistory, Inductive, <1>1, PTL DEF Spec, ImplementsHistory, H!Spec
==============================================================================
