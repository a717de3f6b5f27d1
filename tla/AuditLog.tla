------------------------------ MODULE AuditLog ------------------------------
(***************************************************************************)
(* The data of the audit chain and the functions sbae-audit computes on    *)
(* it: the hash that links entries, what an append and a re-key write, and *)
(* the verdict of verify.                                                  *)
(*                                                                         *)
(* The keyed hash is modelled as collision-free and unforgeable without    *)
(* the key, which is what BLAKE3 is used for here: the hash of an entry is *)
(* the sequence of (key, entry) pairs that were hashed into it, so two     *)
(* hashes are equal only if every key and every entry of the chain behind  *)
(* them are.                                                               *)
(***************************************************************************)
EXTENDS Integers, Sequences

CONSTANTS NoAnchor,   \* no audit_anchor row in meta
          Garbled     \* a row whose columns do not decode to an entry

Genesis == <<>>

compute_entry_hash(k, prev, e) == Append(prev, <<k, e>>)

TailHash(log) == IF log = <<>> THEN Genesis ELSE log[Len(log)].hash

\* The log after the row an append inserts, with the rowid SQLite gives it.
Extended(log, seq, k, e) ==
    Append(log, [seq |-> seq, entry |-> e, prev |-> TailHash(log),
                 hash |-> compute_entry_hash(k, TailHash(log), e)])

\* The anchor for a log: its length and tail, authenticated with the key.
Anchored(log, k) == [entries |-> Len(log), tail |-> TailHash(log), key |-> k]

\* Every hash recomputed under k from genesis, contents and order untouched.
Rekeyed(log, k) ==
    LET chain(i) == [j \in 1..i |-> <<k, log[j].entry>>]
    IN [i \in 1..Len(log) |-> [seq |-> log[i].seq, entry |-> log[i].entry,
                               prev |-> chain(i - 1), hash |-> chain(i)]]
-----------------------------------------------------------------------------
\* Mutation: the hash of a row is not recomputed.
RowVerdict_unhashed(log, k, i) ==
    IF log[i].entry = Garbled THEN "corrupt"
    ELSE IF log[i].seq # i THEN "gap"
    ELSE IF log[i].prev # TailHash(SubSeq(log, 1, i - 1)) THEN "broken_link"
    ELSE "valid"

\* The checks verify makes on row i, in their order, the rows before it being
\* sound (the walk stops at the first row that is not).
RowVerdict(log, k, i) ==
    IF log[i].entry = Garbled THEN "corrupt"
    ELSE IF log[i].seq # i THEN "gap"
    ELSE IF log[i].prev # TailHash(SubSeq(log, 1, i - 1)) THEN "broken_link"
    ELSE IF log[i].hash # compute_entry_hash(k, log[i].prev, log[i].entry) THEN "modified"
    ELSE "valid"

\* What the anchor says of a log whose rows are all sound.  An anchor under
\* another key does not decode, and verify returns an error instead of a verdict.
AnchorVerdict(log, anchor, k) ==
    IF anchor = NoAnchor THEN IF log = <<>> THEN "valid" ELSE "anchor_invalid"
    ELSE IF anchor.key # k THEN "error"
    ELSE IF anchor.entries > Len(log) THEN "truncated"
    ELSE IF anchor.entries # Len(log) \/ log = <<>> \/ anchor.tail # TailHash(log)
         THEN "anchor_invalid"
    ELSE "valid"

verify(log, anchor, k) ==
    LET broken == {i \in 1..Len(log) : RowVerdict(log, k, i) # "valid"}
    IN IF broken = {} THEN AnchorVerdict(log, anchor, k)
       ELSE RowVerdict(log, k, CHOOSE i \in broken : \A j \in broken : i <= j)
=============================================================================
