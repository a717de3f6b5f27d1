----------------------------- MODULE SecretStore -----------------------------
(***************************************************************************)
(* The secrets half of sbae-store: the tables secrets and secret_versions  *)
(* and the operations that change them (begin_write, WriteSlot::commit,    *)
(* rollback, delete_version, import_secret_with_id).                       *)
(*                                                                         *)
(* One connection serves the whole daemon behind one mutex, so operations  *)
(* never interleave.  What can interrupt one is the process dying, or one  *)
(* of its statements failing, between two points at which SQLite commits:  *)
(* an open transaction is rolled back, a statement that committed on its   *)
(* own stays.  `job' is the operation the mutex is held for.               *)
(*                                                                         *)
(* Timestamps, provenance columns, comments and tags are left out: nothing *)
(* below depends on them.  A payload stands for the four sealed columns.   *)
(***************************************************************************)
EXTENDS Integers

CONSTANTS Path,               \* secret paths
          Value,              \* what a payload can seal
          NoValue,            \* the sealed columns are NULL
          MaxVersion,         \* the largest u32: the last version number
          DefaultMaxVersions, \* retention given to a secret on its first write
          Bundle,             \* exported secrets a restore may import
          CrashPoints         \* operations a crash or a failing statement can cut

ASSUME NoValueAssumption == NoValue \notin Value
ASSUME OutcomeAssumption == Value \cap {"unused", "gone"} = {}   \* what reading may say instead
ASSUME BoundsAssumption == MaxVersion \in Nat /\ DefaultMaxVersions \in Nat
ASSUME CrashPointsAssumption == CrashPoints \subseteq {"write", "delete"}

VARIABLES row,      \* row[p][v]: the state column, "none" without a row
          payload,  \* payload[p][v]: the sealed columns
          current,  \* current[p]: secrets.current_version, 0 for NULL
          limit,    \* limit[p]: secrets.max_versions
          job       \* the operation in progress

vars == <<row, payload, current, limit, job>>
tables == <<row, payload, current, limit>>

Version == 1..MaxVersion
RowState == {"none", "active", "deleted", "destroyed"}
Held == {"active", "deleted"}     \* state <> 'destroyed': ciphertext present

Idle == [op |-> "idle"]
Job == {Idle} \cup [op : {"write"}, path : Path, version : Version, value : Value]
              \cup [op : {"delete"}, path : Path]

Exists(p) == \E v \in Version : row[p][v] # "none"
Active(r) == {v \in Version : r[v] = "active"}
Numbered(r) == {v \in Version : r[v] # "none"}

\* SELECT COALESCE(MAX(version), 0): n is the greatest of S, 0 if there is none.
IsMax(S, n) == \/ S = {} /\ n = 0
               \/ n \in S /\ \A m \in S : m <= n
-----------------------------------------------------------------------------
(* What an exported secret looks like: the rows of one path of a store in   *)
(* which no operation was cut short.                                        *)
Healthy(r, pay, cur, max) ==
    /\ \A v \in Version : pay[v] \in Value <=> r[v] \in Held
    /\ cur # 0 => r[cur] = "active"
    /\ cur = 0 => Active(r) = {}
    /\ \A u, v \in Version : r[u] \in Held /\ r[v] # "none" /\ u # v => u > v - max

ExportedSecret == [row : [Version -> RowState],
                   payload : [Version -> Value \cup {NoValue}],
                   current : 0..MaxVersion, limit : Nat]

ASSUME BundleAssumption ==
    \A b \in Bundle : /\ b \in ExportedSecret
                      /\ Numbered(b.row) # {}
                      /\ Healthy(b.row, b.payload, b.current, b.limit)

Init == /\ row = [p \in Path |-> [v \in Version |-> "none"]]
        /\ payload = [p \in Path |-> [v \in Version |-> NoValue]]
        /\ current = [p \in Path |-> 0]
        /\ limit = [p \in Path |-> DefaultMaxVersions]
        /\ job = Idle
-----------------------------------------------------------------------------
\* Mutation: numbers are allocated above the live versions only.
begin_write_reusing(p, x) ==
    /\ job = Idle
    /\ \E v \in Version :
          /\ IsMax({u \in Version : row[p][u] \in Held}, v - 1)
          /\ job' = [op |-> "write", path |-> p, version |-> v, value |-> x]
    /\ UNCHANGED tables

\* Mutation: highest + 1 is used without being checked.
begin_write_unchecked(p, x) ==
    /\ job = Idle
    /\ \E v \in 1..(MaxVersion + 1) :
          /\ IsMax(Numbered(row[p]), v - 1)
          /\ job' = [op |-> "write", path |-> p, version |-> v, value |-> x]
    /\ UNCHANGED tables

(* Writing.  begin_write opens an IMMEDIATE transaction and reserves the    *)
(* number after the highest one any row has, destroyed rows included; the   *)
(* secrets row it may insert becomes visible only with the commit.  At the  *)
(* last number highest + 1 is no Version and the write is refused.          *)
begin_write(p, x) ==
    /\ job = Idle
    /\ \E v \in Version :
          /\ IsMax(Numbered(row[p]), v - 1)
          /\ job' = [op |-> "write", path |-> p, version |-> v, value |-> x]
    /\ UNCHANGED tables

\* Mutation: the window is one version too wide.
prune_late(r, keep, max) ==
    {v \in Version : r[v] \in Held /\ v # keep /\ v < keep - max}

\* The versions outside the retention window after `keep' was written.
prune(r, keep, max) ==
    {v \in Version : r[v] \in Held /\ v # keep /\ v <= keep - max}

commit ==
    /\ job.op = "write"
    /\ LET p == job.path
           v == job.version
           out == prune(row[p], v, limit[p])
       IN /\ row' = [row EXCEPT ![p] =
                       [u \in Version |-> IF u = v THEN "active"
                                          ELSE IF u \in out THEN "destroyed"
                                          ELSE row[p][u]]]
          /\ payload' = [payload EXCEPT ![p] =
                           [u \in Version |-> IF u = v THEN job.value
                                              ELSE IF u \in out THEN NoValue
                                              ELSE payload[p][u]]]
          /\ current' = [current EXCEPT ![p] = v]
    /\ job' = Idle
    /\ UNCHANGED limit
-----------------------------------------------------------------------------
\* Mutation: the target's state is not looked at.
rollback_unread(p, to) ==
    /\ job = Idle
    /\ row[p][to] # "none"
    /\ current' = [current EXCEPT ![p] = to]
    /\ UNCHANGED <<row, payload, limit, job>>

\* Move current_version to a version that exists and is readable.
rollback(p, to) ==
    /\ job = Idle
    /\ row[p][to] = "active"
    /\ current' = [current EXCEPT ![p] = to]
    /\ UNCHANGED <<row, payload, limit, job>>

\* The version a selector names; 0 selects the current one.
resolve(p, selector, v) ==
    /\ Exists(p)
    /\ v = IF selector = 0 THEN current[p] ELSE selector
    /\ v # 0

\* The rows each mode's UPDATE matches.
Matches(mode) == IF mode = "soft" THEN {"active"} ELSE Held

\* Mutation: destroying changes the state and forgets the sealed columns.
delete_version_keeping(p, selector, mode) ==
    /\ job = Idle
    /\ \E v \in Version :
          /\ resolve(p, selector, v)
          /\ row[p][v] \in Matches(mode)
          /\ row' = [row EXCEPT ![p][v] =
                       IF mode = "soft" THEN "deleted" ELSE "destroyed"]
    /\ job' = [op |-> "delete", path |-> p]
    /\ UNCHANGED <<payload, current, limit>>

\* First statement of delete_version, committed on its own.
delete_version(p, selector, mode) ==
    /\ job = Idle
    /\ \E v \in Version :
          /\ resolve(p, selector, v)
          /\ row[p][v] \in Matches(mode)
          /\ row' = [row EXCEPT ![p][v] =
                       IF mode = "soft" THEN "deleted" ELSE "destroyed"]
          /\ payload' = IF mode = "soft" THEN payload
                        ELSE [payload EXCEPT ![p][v] = NoValue]
    /\ job' = [op |-> "delete", path |-> p]
    /\ UNCHANGED <<current, limit>>

\* Mutation: the newest version that is not destroyed, readable or not.
repoint_held ==
    /\ job.op = "delete"
    /\ \E n \in 0..MaxVersion :
          /\ IsMax({v \in Version : row[job.path][v] \in Held}, n)
          /\ current' = [current EXCEPT ![job.path] = n]
    /\ job' = Idle
    /\ UNCHANGED <<row, payload, limit>>

\* Second statement: current_version becomes the newest active version.
repoint ==
    /\ job.op = "delete"
    /\ \E n \in 0..MaxVersion :
          /\ IsMax(Active(row[job.path]), n)
          /\ current' = [current EXCEPT ![job.path] = n]
    /\ job' = Idle
    /\ UNCHANGED <<row, payload, limit>>
-----------------------------------------------------------------------------
\* One transaction; a path that already has a row is refused, even when none
\* of its versions can be read.
import_secret_with_id(p, b) ==
    /\ job = Idle
    /\ ~Exists(p)
    /\ row' = [row EXCEPT ![p] = b.row]
    /\ payload' = [payload EXCEPT ![p] = b.payload]
    /\ current' = [current EXCEPT ![p] = b.current]
    /\ limit' = [limit EXCEPT ![p] = b.limit]
    /\ UNCHANGED job

\* The process dies, or the statement due next fails: the slot's transaction
\* is rolled back, what a single statement committed stays.
Crash == /\ job.op \in CrashPoints
         /\ job' = Idle
         /\ UNCHANGED tables

Next == \/ \E p \in Path :
              \/ \E x \in Value : begin_write(p, x)
              \/ \E to \in Version : rollback(p, to)
              \/ \E selector \in 0..MaxVersion, mode \in {"soft", "destroy"} :
                    delete_version(p, selector, mode)
              \/ \E b \in Bundle : import_secret_with_id(p, b)
        \/ commit
        \/ repoint
        \/ Crash

Spec == Init /\ [][Next]_vars
-----------------------------------------------------------------------------
\* Every variable stays in its domain.
TypeOK == /\ row \in [Path -> [Version -> RowState]]
          /\ payload \in [Path -> [Version -> Value \cup {NoValue}]]
          /\ current \in [Path -> 0..MaxVersion]
          /\ limit \in [Path -> Nat]
          /\ job \in Job

\* The statements of delete_version on p are both done, or neither.
Settled(p) == ~(job.op = "delete" /\ job.path = p)

\* Between operations current_version names a version that can be read, and is
\* NULL only when there is none: `ls' neither advertises a secret that nothing
\* can be read of nor hides one that can (the comment in delete_version).
CurrentNamesReadable ==
    \A p \in Path : Settled(p) =>
        /\ current[p] # 0 => row[p][current[p]] = "active"
        /\ current[p] = 0 => Active(row[p]) = {}

\* Ciphertext is kept exactly for the versions that are not destroyed: a
\* destroyed version leaves nothing to decrypt, and rotation, which rewraps
\* every row that is not destroyed, always finds a wrapped key there.
CiphertextIffHeld ==
    \A p \in Path, v \in Version :
        payload[p][v] \in Value <=> row[p][v] \in Held

\* Retention: whatever mix of writes, rollbacks, deletes and imports came
\* before, no version but the newest survives max_versions or more behind it.
RetentionWindow ==
    \A p \in Path : \A u, v \in Version :
        row[p][u] \in Held /\ row[p][v] # "none" /\ u # v => u > v - limit[p]

\* A version number, once taken, stays taken; what it sealed is never replaced;
\* a hidden version never returns and a destroyed one stays destroyed.
VersionsAreFinal ==
    [][\A p \in Path, v \in Version : row[p][v] # "none" =>
          /\ row'[p][v] # "none"
          /\ payload'[p][v] \in {payload[p][v], NoValue}
          /\ row[p][v] # "active" => row'[p][v] \in {row[p][v], "destroyed"}]_vars

\* What read_version returns, for each version and for the current one.  While
\* delete_version is between its statements no caller can look, so the head is
\* the one the second statement is about to set.
Readable(p) == [v \in Version |-> IF row[p][v] = "none" THEN "unused"
                                 ELSE IF row[p][v] = "active" THEN payload[p][v]
                                 ELSE "gone"]
CurrentReadable(p) == IF Settled(p) THEN current[p]
                      ELSE CHOOSE n \in 0..MaxVersion : IsMax(Active(row[p]), n)

H == INSTANCE VersionHistory WITH
        value <- [p \in Path |-> Readable(p)],
        head <- [p \in Path |-> CurrentReadable(p)],
        Unused <- "unused", Gone <- "gone"

\* Seen through read_version the tables behave as the abstract history: values
\* never change, numbers are used once, and every delete is one atomic step.
ImplementsHistory == H!Spec
=============================================================================
