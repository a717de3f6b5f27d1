----------------------------- MODULE AuditChain -----------------------------
(***************************************************************************)
(* The audit chain as a state machine: the daemon appends entries and      *)
(* re-keys the chain, and something else writes to the database directly,  *)
(* one statement at a time, without the audit key: it changes, removes,    *)
(* renumbers and inserts rows, moves the AUTOINCREMENT counter, and loses, *)
(* rewrites or puts back the anchor.  It can store any hash and any anchor *)
(* the daemon ever wrote, or bytes no key gave, and never a new hash or    *)
(* anchor under a key of the daemon's.                                     *)
(*                                                                         *)
(* `ledger', `anchors' and `damage' are history variables: the entries and *)
(* the anchors the daemon wrote, and the kinds of direct writes there were.*)
(***************************************************************************)
EXTENDS AuditLog

CONSTANTS Entry,       \* audit entries
          Key,         \* audit keys the daemon may come to hold
          Foreign,     \* a key the daemon never held
          MaxEntries,  \* bound on the entries appended
          MaxDamage,   \* bound on the direct writes
          MaxSeq       \* bound on the numbers a direct write gives

Hash == Seq((Key \cup {Foreign}) \X (Entry \cup {Garbled}))
Anchor == [entries : Nat \ {0}, tail : Hash, key : Key \cup {Foreign}]

ASSUME KeyAssumption == Foreign \notin Key /\ Garbled \notin Entry
ASSUME NoAnchorAssumption == NoAnchor \notin Anchor
ASSUME ChainBoundsAssumption == MaxEntries \in Nat /\ MaxDamage \in Nat /\ MaxSeq \in Nat

VARIABLES log,      \* the audit table, by ascending seq
          anchor,   \* the audit_anchor row of meta
          rowid,    \* the counter of the table in sqlite_sequence
          key,      \* the audit key in the daemon's memory
          ledger,   \* every entry appended, in order
          anchors,  \* every anchor the daemon wrote
          damage,   \* the kinds of direct writes that happened
          writes    \* how many of them

vars == <<log, anchor, rowid, key, ledger, anchors, damage, writes>>

DamageKind == {"edit", "garble", "relink", "rehash", "renumber", "remove", "insert",
               "sequence", "anchor_lost", "anchor_rewritten", "anchor_restored"}

Init == /\ log = <<>>
        /\ anchor = NoAnchor
        /\ rowid = 0
        /\ key \in Key
        /\ ledger = <<>>
        /\ anchors = {}
        /\ damage = {}
        /\ writes = 0
-----------------------------------------------------------------------------
\* The highest number in the table.
LastSeq == IF log = <<>> THEN 0 ELSE log[Len(log)].seq

\* The number AUTOINCREMENT gives: above the counter and above every row, so
\* never one given before, even when the rows that had it are gone.
NextSeq == 1 + IF rowid > LastSeq THEN rowid ELSE LastSeq

\* Mutation: seq is a plain rowid, the highest one present plus one.
append_reusing(e) ==
    /\ Len(ledger) < MaxEntries
    /\ log' = Extended(log, LastSeq + 1, key, e)
    /\ anchor' = Anchored(log', key)
    /\ anchors' = anchors \cup {anchor'}
    /\ rowid' = rowid + 1
    /\ ledger' = Append(ledger, e)
    /\ UNCHANGED <<key, damage, writes>>

\* One IMMEDIATE transaction: the row continues the tail it finds, whatever it
\* is, and the anchor is rewritten to describe the result.
append(e) ==
    /\ Len(ledger) < MaxEntries
    /\ log' = Extended(log, NextSeq, key, e)
    /\ anchor' = Anchored(log', key)
    /\ anchors' = anchors \cup {anchor'}
    /\ rowid' = NextSeq
    /\ ledger' = Append(ledger, e)
    /\ UNCHANGED <<key, damage, writes>>

\* Mutation: the chain is re-keyed whatever state it is in.
rekey_chain_trusting(new) ==
    /\ new # key
    /\ log' = Rekeyed(log, new)
    /\ anchor' = IF log = <<>> THEN anchor ELSE Anchored(log', new)
    /\ anchors' = IF log = <<>> THEN anchors ELSE anchors \cup {anchor'}
    /\ key' = new
    /\ UNCHANGED <<rowid, ledger, damage, writes>>

\* Mutation: the anchor is left as it was.
rekey_chain_unanchored(new) ==
    /\ new # key
    /\ verify(log, anchor, key) = "valid"
    /\ log' = Rekeyed(log, new)
    /\ key' = new
    /\ UNCHANGED <<anchor, anchors, rowid, ledger, damage, writes>>

\* Mutation: an empty chain gets an anchor too.
rekey_chain_anchoring(new) ==
    /\ new # key
    /\ verify(log, anchor, key) = "valid"
    /\ log' = Rekeyed(log, new)
    /\ anchor' = Anchored(log', new)
    /\ anchors' = anchors \cup {anchor'}
    /\ key' = new
    /\ UNCHANGED <<rowid, ledger, damage, writes>>

\* The chain is verified under the old key first and refused if it is broken.
rekey_chain(new) ==
    /\ new # key
    /\ verify(log, anchor, key) = "valid"
    /\ log' = Rekeyed(log, new)
    /\ anchor' = IF log = <<>> THEN anchor ELSE Anchored(log', new)
    /\ anchors' = IF log = <<>> THEN anchors ELSE anchors \cup {anchor'}
    /\ key' = new
    /\ UNCHANGED <<rowid, ledger, damage, writes>>
-----------------------------------------------------------------------------
(* Direct writes to the database, one SQL statement each.                   *)

\* Bytes in a hash column that no key gave.
Noise == <<<<Foreign, Garbled>>>>

\* What the writer can put in a hash column: what the daemon ever put in one
\* (the hash of each entry behind an anchor it wrote), genesis, and noise.
Known == {Genesis, Noise} \cup
         UNION {{SubSeq(a.tail, 1, n) : n \in 1..Len(a.tail)} : a \in anchors}

Damages(kind) == /\ writes' = writes + 1
                 /\ damage' = damage \cup {kind}
                 /\ UNCHANGED <<key, ledger, anchors>>

ChangeRow(i, row, kind) == /\ row # log[i]
                           /\ log' = [log EXCEPT ![i] = row]
                           /\ UNCHANGED <<anchor, rowid>>
                           /\ Damages(kind)

\* The columns of the entry, its prev_hash, its entry_hash.
EditRow(i, e) == ChangeRow(i, [log[i] EXCEPT !.entry = e],
                           IF e = Garbled THEN "garble" ELSE "edit")
Relink(i, h) == ChangeRow(i, [log[i] EXCEPT !.prev = h], "relink")
Rehash(i, h) == ChangeRow(i, [log[i] EXCEPT !.hash = h], "rehash")

\* Any rows get any other numbers: the row now in place p[i] comes i-th, with
\* the i-th of the new numbers.  An UPDATE leaves sqlite_sequence alone.
Renumber(p, s) == /\ log' = [i \in 1..Len(log) |-> [log[p[i]] EXCEPT !.seq = s[i]]]
                  /\ log' # log
                  /\ UNCHANGED <<anchor, rowid>>
                  /\ Damages("renumber")

Orders(n) == {p \in [1..n -> 1..n] : \A i, j \in 1..n : i # j => p[i] # p[j]}
Numbers(n) == {s \in [1..n -> 0..MaxSeq] : \A i, j \in 1..n : i < j => s[i] < s[j]}

RemoveRow(i) == /\ log' = [j \in 1..(Len(log) - 1) |-> IF j < i THEN log[j] ELSE log[j + 1]]
                /\ UNCHANGED <<anchor, rowid>>
                /\ Damages("remove")

\* A row the daemon once wrote, or noise, comes back under a number that is free.
InsertRow(k, n, h) ==
    /\ k > 1 => log[k - 1].seq < n
    /\ k <= Len(log) => n < log[k].seq
    /\ LET row == [seq |-> n, entry |-> h[Len(h)][2],
                   prev |-> SubSeq(h, 1, Len(h) - 1), hash |-> h]
       IN log' = [j \in 1..(Len(log) + 1) |->
                    IF j < k THEN log[j] ELSE IF j = k THEN row ELSE log[j - 1]]
    /\ rowid' = IF n > rowid THEN n ELSE rowid
    /\ UNCHANGED anchor
    /\ Damages("insert")

WriteSequence(n) == /\ n # rowid
                    /\ rowid' = n
                    /\ UNCHANGED <<log, anchor>>
                    /\ Damages("sequence")

ReplaceAnchor(a, kind) == /\ a # anchor
                          /\ anchor' = a
                          /\ UNCHANGED <<log, rowid>>
                          /\ Damages(kind)

LoseAnchor == ReplaceAnchor(NoAnchor, "anchor_lost")
RewriteAnchor == ReplaceAnchor([entries |-> 1, tail |-> Noise, key |-> Foreign],
                               "anchor_rewritten")
RestoreAnchor(a) == ReplaceAnchor(a, "anchor_restored")

DirectWrite ==
    /\ writes < MaxDamage
    /\ \/ \E i \in 1..Len(log) : \/ \E e \in Entry \cup {Garbled} : EditRow(i, e)
                                 \/ \E h \in Known : Relink(i, h) \/ Rehash(i, h)
                                 \/ RemoveRow(i)
       \/ \E p \in Orders(Len(log)), s \in Numbers(Len(log)) : Renumber(p, s)
       \/ \E k \in 1..(Len(log) + 1), n \in 0..MaxSeq, h \in Known \ {Genesis} :
             InsertRow(k, n, h)
       \/ \E n \in 0..MaxSeq : WriteSequence(n)
       \/ LoseAnchor
       \/ RewriteAnchor
       \/ \E a \in anchors : RestoreAnchor(a)

Next == \/ \E e \in Entry : append(e)
        \/ \E new \in Key : rekey_chain(new)
        \/ DirectWrite

Spec == Init /\ [][Next]_vars
-----------------------------------------------------------------------------
Contents(l) == [i \in 1..Len(l) |-> l[i].entry]

Subsequence(s, t) ==
    \E f \in [1..Len(s) -> 1..Len(t)] :
        /\ \A i, j \in 1..Len(s) : i < j => f[i] < f[j]
        /\ \A i \in 1..Len(s) : s[i] = t[f[i]]

Row == [seq : Nat, entry : Entry \cup {Garbled}, prev : Hash, hash : Hash]

\* Every variable stays in its domain; an anchor always describes some entry,
\* and the table is in the order of its primary key.
TypeOK == /\ log \in Seq(Row)
          /\ \A i, j \in 1..Len(log) : i < j => log[i].seq < log[j].seq
          /\ anchor \in Anchor \cup {NoAnchor}
          /\ rowid \in Nat
          /\ key \in Key
          /\ ledger \in Seq(Entry)
          /\ anchors \subseteq Anchor
          /\ damage \subseteq DamageKind
          /\ writes \in Nat

Verdict == verify(log, anchor, key)

\* Nothing is forged: whatever was written to the database and whatever the
\* daemon appended or re-keyed on top of it, what `audit verify' reports clean
\* holds only entries the daemon appended, unaltered, none twice, in the order
\* it appended them.
CleanMeansGenuine == Verdict = "valid" => Subsequence(Contents(log), ledger)

\* Nothing is missing: what `audit verify' reports clean holds every entry ever
\* appended, after edits and losses, after more entries were appended on top of
\* them and after rotations, as long as no direct write put a number, a row or
\* an anchor back.  The number of a row is not hashed, so a chain written to in
\* those ways is not promised to be whole.  Nor is one whose table and anchor
\* are both empty.
CleanMeansComplete ==
    /\ Verdict = "valid"
    /\ damage \cap {"renumber", "insert", "sequence", "anchor_restored"} = {}
    => \/ Contents(log) = ledger
       \/ log = <<>> /\ anchor = NoAnchor

\* No false alarm: a chain nobody wrote to directly verifies, at every point of
\* any sequence of appends and rotations.
UntouchedVerifies == damage = {} => Verdict = "valid"

\* What an operator may conclude from a verdict, with any direct writes mixed
\* and appends and rotations between them: "modified" comes of a row's columns,
\* "broken_link" of a row's columns, number or place, "truncated" of rows
\* removed, "anchor_invalid" of the anchor or of rows other than the ones it was
\* written for, an error of an anchor under another key.
VerdictNamesCause ==
    LET Cause(kinds) == damage \cap kinds # {}
    IN /\ Verdict = "corrupt" => Cause({"garble", "insert"})
       /\ Verdict = "modified" => Cause({"edit", "relink", "rehash", "insert"})
       /\ Verdict = "gap" => Cause({"remove", "renumber", "insert", "sequence"})
       /\ Verdict = "broken_link" => Cause({"relink", "rehash", "renumber", "insert"})
       /\ Verdict = "truncated" => Cause({"remove"})
       /\ Verdict = "anchor_invalid" =>
             Cause({"anchor_lost", "anchor_restored", "remove", "insert", "rehash"})
       /\ Verdict = "error" => Cause({"anchor_rewritten", "anchor_restored"})

\* A rotation carries the whole history over: the entries and their order are
\* what they were, and what verified under the old key verifies under the new.
RekeyKeepsHistory ==
    [][key' # key => /\ Contents(log') = Contents(log)
                     /\ verify(log', anchor', key') = "valid"
                     /\ Verdict = "valid"]_vars
=============================================================================
