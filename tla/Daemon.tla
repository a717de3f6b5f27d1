------------------------------- MODULE Daemon -------------------------------
(***************************************************************************)
(* The daemon's request handlers as threads that share the unsealed key    *)
(* material (keys, a RwLock) and the store (one connection behind a Mutex) *)
(* and what master-key rotation does under them: two transactions, then    *)
(* the new key swapped into memory, with every lock released in between.   *)
(*                                                                         *)
(* A thread's `at' is the lock or transaction it is about to take.  Work   *)
(* done under the store lock that waits for nothing else is one step.      *)
(* Values, paths and tags are left out: a stored version is the master key *)
(* its data key is wrapped under, an audit entry has no content.           *)
(***************************************************************************)
EXTENDS AuditLog, FiniteSets

CONSTANTS Thread,         \* the runtime's worker threads
          Nobody,         \* the store lock is free
          Down,           \* the daemon is not running
          Requests,       \* the kinds of requests clients send
          CrashPoints,    \* where a crash or a failing transaction can hit
          MaxRequests,    \* bound on the requests accepted
          MaxRestarts,    \* bound on the restarts
          MaxGeneration   \* the largest u32: the last key generation

RequestKind == {"status", "read", "write", "delete", "audit_verify", "rekey"}
Place == {"idle", "gate", "keys", "store", "status", "rekey_with", "adopt",
          "waiting", "record", "append"}

ASSUME RequestsAssumption == Requests \subseteq RequestKind
ASSUME CrashPointsAssumption == CrashPoints \subseteq Place
ASSUME NobodyAssumption == Nobody \notin Thread
ASSUME DaemonBoundsAssumption ==
    MaxRequests \in Nat /\ MaxRestarts \in Nat /\ MaxGeneration \in Nat \ {0}

Entry == "entry"
Hash == Seq(Nat \X {Entry})
MasterKey == [key : Nat, generation : 0..MaxGeneration]
Task == [at : Place, req : RequestKind \cup {"none"}, successor : MasterKey]

ASSUME DownAssumption == Down \notin MasterKey
ASSUME NoAnchorAssumption == NoAnchor \notin [entries : Nat, tail : Hash, key : Nat]
ASSUME GarbledAssumption == Garbled # Entry

VARIABLES mem,       \* keys: the master key in memory and its generation
          sealed,    \* sealed_master_key in meta
          wrap,      \* the key each stored version is wrapped under
          log,       \* the audit table
          anchor,    \* audit_anchor in meta
          readers,   \* the threads that hold keys for reading
          owner,     \* the thread that holds store
          task,      \* what each thread is doing
          minted,    \* master keys generated so far
          accepted,  \* requests accepted so far
          restarts   \* restarts so far

disk == <<sealed, wrap, log, anchor>>
locks == <<readers, owner>>
counters == <<minted, accepted, restarts>>
vars == <<mem, disk, locks, task, counters>>

NoKey == 0                    \* a destroyed version, a task without a successor
Master(k, g) == [key |-> k, generation |-> g]
Idle == [at |-> "idle", req |-> "none", successor |-> Master(NoKey, 0)]

At(t) == task[t].at
GoesTo(t, place) == task' = [task EXCEPT ![t].at = place]
Ends(t) == task' = [task EXCEPT ![t] = Idle]

\* A fresh deployment after its first start: `initialise' and `run' appended
\* one entry each.
Init == /\ mem = Master(1, 1)
        /\ sealed = Master(1, 1)
        /\ wrap = <<>>
        /\ log = Extended(Extended(<<>>, 1, 1, Entry), 2, 1, Entry)
        /\ anchor = Anchored(log, 1)
        /\ readers = {}
        /\ owner = Nobody
        /\ task = [t \in Thread |-> Idle]
        /\ minted = 1 /\ accepted = 0 /\ restarts = 0
-----------------------------------------------------------------------------
(* The locks.  A waiting writer holds up new readers (std's RwLock on Linux). *)

WriterWaiting == \E t \in Thread : At(t) = "waiting"
StoreFree == owner = Nobody
DropsKeys(t) == readers' = readers \ {t}

Appends(k) == /\ log' = Extended(log, Len(log) + 1, k, Entry)
              /\ anchor' = Anchored(log', k)

accept(t, r) ==
    /\ mem # Down
    /\ At(t) = "idle"
    /\ accepted < MaxRequests
    /\ task' = [task EXCEPT ![t] = [at |-> "gate", req |-> r,
                                    successor |-> Master(NoKey, 0)]]
    /\ accepted' = accepted + 1
    /\ UNCHANGED <<mem, disk, locks, minted, restarts>>

\* Handlers that take keys before store; the others take the store only.
KeysFirst == {"read", "write", "audit_verify", "rekey"}

\* check and then touch_token (or nothing), each under the store lock alone.
\* What the policies say is not modelled: either answer is possible.
gate(t) ==
    /\ At(t) = "gate"
    /\ StoreFree
    /\ \/ /\ task[t].req # "rekey"
          /\ GoesTo(t, IF task[t].req \in KeysFirst THEN "keys" ELSE "store")
          /\ UNCHANGED minted
       \/ /\ task[t].req = "rekey"
          /\ minted' = minted + 1
          /\ task' = [task EXCEPT ![t].at = "keys",
                                  ![t].successor = Master(minted + 1, 0)]
       \/ /\ GoesTo(t, "record")       \* record_denial
          /\ UNCHANGED minted
    /\ UNCHANGED <<mem, disk, locks, accepted, restarts>>

\* state.keys(): the handler's read lock, or the one record takes.
keys(t) ==
    /\ At(t) \in {"keys", "record"}
    /\ ~WriterWaiting
    /\ readers' = readers \cup {t}
    /\ GoesTo(t, IF At(t) = "keys" THEN "store" ELSE "append")
    /\ UNCHANGED <<mem, disk, owner, counters>>

\* The last step of record, record_denial and their callers.
append(t) ==
    /\ At(t) = "append"
    /\ StoreFree
    /\ Appends(mem.key)
    /\ DropsKeys(t)
    /\ Ends(t)
    /\ UNCHANGED <<mem, sealed, wrap, owner, counters>>
-----------------------------------------------------------------------------
(* The handlers, once past the gate.                                        *)

Serving(t, r) == At(t) = "store" /\ task[t].req = r /\ StoreFree

\* A version that is not there, or does not open under the key in memory, is an
\* error, unaudited.
read(t) ==
    /\ Serving(t, "read")
    /\ DropsKeys(t)
    /\ \/ (\E i \in 1..Len(wrap) : wrap[i] = mem.key) /\ GoesTo(t, "record")
       \/ Ends(t)
    /\ UNCHANGED <<mem, disk, owner, counters>>

write(t) ==
    /\ Serving(t, "write")
    /\ wrap' = Append(wrap, mem.key)
    /\ DropsKeys(t)
    /\ GoesTo(t, "record")
    /\ UNCHANGED <<mem, sealed, log, anchor, owner, counters>>

\* A destroyed version loses its wrapped key; one that is not there is an error.
delete(t) ==
    /\ Serving(t, "delete")
    /\ \/ \E i \in 1..Len(wrap) : /\ wrap[i] # NoKey
                                  /\ wrap' = [wrap EXCEPT ![i] = NoKey]
                                  /\ GoesTo(t, "record")
       \/ Ends(t) /\ UNCHANGED wrap
    /\ UNCHANGED <<mem, sealed, log, anchor, locks, counters>>

audit_verify(t) ==
    /\ Serving(t, "audit_verify")
    /\ DropsKeys(t)
    /\ Ends(t)
    /\ UNCHANGED <<mem, disk, owner, counters>>

\* status holds the store while it asks for keys.
status_store(t) ==
    /\ Serving(t, "status")
    /\ owner' = t
    /\ GoesTo(t, "status")
    /\ UNCHANGED <<mem, disk, readers, counters>>

status(t) ==
    /\ At(t) = "status"
    /\ ~WriterWaiting
    /\ owner' = Nobody
    /\ Ends(t)
    /\ UNCHANGED <<mem, disk, readers, counters>>
-----------------------------------------------------------------------------
(* Rotation.                                                                *)

\* A handler that gives up: `?' drops the guards it holds.
Refused(t) == /\ owner' = IF owner = t THEN Nobody ELSE owner
              /\ DropsKeys(t)
              /\ Ends(t)
              /\ UNCHANGED <<mem, disk, counters>>

\* checked_add on the generation, before the store is locked.
generation_exhausted(t) ==
    /\ At(t) = "store" /\ task[t].req = "rekey"
    /\ mem.generation = MaxGeneration
    /\ Refused(t)

\* Mutation: the generation is not checked against its range.
rekey_chain_overflowing(t) ==
    /\ Serving(t, "rekey")
    /\ verify(log, anchor, mem.key) = "valid"
    /\ log' = Rekeyed(log, task[t].successor.key)
    /\ anchor' = Anchored(log', task[t].successor.key)
    /\ owner' = t
    /\ task' = [task EXCEPT ![t].at = "rekey_with",
                            ![t].successor.generation = mem.generation + 1]
    /\ UNCHANGED <<mem, sealed, wrap, readers, counters>>

\* Mutation: the chain is not verified under the key in memory first.
rekey_chain_trusting(t) ==
    /\ Serving(t, "rekey")
    /\ mem.generation < MaxGeneration
    /\ log' = Rekeyed(log, task[t].successor.key)
    /\ anchor' = Anchored(log', task[t].successor.key)
    /\ owner' = t
    /\ task' = [task EXCEPT ![t].at = "rekey_with",
                            ![t].successor.generation = mem.generation + 1]
    /\ UNCHANGED <<mem, sealed, wrap, readers, counters>>

\* First transaction, under both locks: the audit chain.
rekey_chain(t) ==
    /\ Serving(t, "rekey")
    /\ mem.generation < MaxGeneration
    /\ verify(log, anchor, mem.key) = "valid"
    /\ log' = Rekeyed(log, task[t].successor.key)
    /\ anchor' = Anchored(log', task[t].successor.key)
    /\ owner' = t
    /\ task' = [task EXCEPT ![t].at = "rekey_with",
                            ![t].successor.generation = mem.generation + 1]
    /\ UNCHANGED <<mem, sealed, wrap, readers, counters>>

rekey_refused(t) ==
    /\ Serving(t, "rekey")
    /\ mem.generation < MaxGeneration
    /\ verify(log, anchor, mem.key) # "valid"
    /\ Refused(t)

Rewrapped(k) == [i \in 1..Len(wrap) |-> IF wrap[i] = NoKey THEN NoKey ELSE k]
Openable(k) == \A i \in 1..Len(wrap) : wrap[i] \in {NoKey, k}

\* Mutation: the new master key is sealed, no data key is rewrapped.
rekey_with_sealing(t) ==
    /\ At(t) = "rekey_with"
    /\ sealed' = task[t].successor
    /\ owner' = Nobody
    /\ DropsKeys(t)
    /\ GoesTo(t, "adopt")
    /\ UNCHANGED <<mem, wrap, log, anchor, counters>>

\* Mutation: the store stays locked until the new key is in memory.
rekey_with_holding(t) ==
    /\ At(t) = "rekey_with"
    /\ Openable(mem.key)
    /\ wrap' = Rewrapped(task[t].successor.key)
    /\ sealed' = task[t].successor
    /\ DropsKeys(t)
    /\ GoesTo(t, "adopt")
    /\ UNCHANGED <<mem, log, anchor, owner, counters>>

\* Second transaction: every data key and the sealed master key.
rekey_with(t) ==
    /\ At(t) = "rekey_with"
    /\ Openable(mem.key)
    /\ wrap' = Rewrapped(task[t].successor.key)
    /\ sealed' = task[t].successor
    /\ owner' = Nobody
    /\ DropsKeys(t)
    /\ GoesTo(t, "adopt")
    /\ UNCHANGED <<mem, log, anchor, counters>>

\* Mutation: the error of rekey_with is swallowed and the key adopted.
rewrap_refused_late(t) ==
    /\ At(t) = "rekey_with"
    /\ ~Openable(mem.key)
    /\ owner' = Nobody
    /\ DropsKeys(t)
    /\ GoesTo(t, "adopt")
    /\ UNCHANGED <<mem, disk, counters>>

\* A version the key in memory does not open rolls the second transaction
\* back; the first stays.
rewrap_refused(t) ==
    /\ At(t) = "rekey_with"
    /\ ~Openable(mem.key)
    /\ Refused(t)

\* adopt_rotated_key asks for keys for writing ...
await_keys(t) ==
    /\ At(t) = "adopt"
    /\ GoesTo(t, "waiting")
    /\ UNCHANGED <<mem, disk, locks, counters>>

\* Mutation: the key material in memory is not replaced.
adopt_rotated_key_dropped(t) ==
    /\ At(t) = "waiting"
    /\ readers = {}
    /\ GoesTo(t, "record")
    /\ UNCHANGED <<mem, disk, locks, counters>>

\* ... and swaps the key material once no reader is left.
adopt_rotated_key(t) ==
    /\ At(t) = "waiting"
    /\ readers = {}
    /\ mem' = task[t].successor
    /\ GoesTo(t, "record")
    /\ UNCHANGED <<disk, locks, counters>>
-----------------------------------------------------------------------------
\* A thread's transaction fails: it is rolled back, the request is answered
\* with an error and its guards are dropped.
fail(t) ==
    /\ At(t) \in CrashPoints \cap {"store", "rekey_with", "append"}
    /\ At(t) = "rekey_with" \/ StoreFree
    /\ Refused(t)

Crash ==
    /\ mem # Down
    /\ \A t \in Thread : At(t) \in CrashPoints \cup {"idle"}
    /\ mem' = Down
    /\ readers' = {} /\ owner' = Nobody
    /\ task' = [t \in Thread |-> Idle]
    /\ UNCHANGED <<disk, counters>>

\* A restart unseals what the store records and audits that it did.
run ==
    /\ mem = Down
    /\ restarts < MaxRestarts
    /\ mem' = sealed
    /\ Appends(sealed.key)
    /\ restarts' = restarts + 1
    /\ UNCHANGED <<sealed, wrap, locks, task, minted, accepted>>

Step(t) ==
    \/ gate(t) \/ keys(t) \/ append(t)
    \/ read(t) \/ write(t) \/ delete(t) \/ audit_verify(t)
    \/ status_store(t) \/ status(t)
    \/ generation_exhausted(t) \/ rekey_chain(t) \/ rekey_refused(t)
    \/ rekey_with(t) \/ rewrap_refused(t)
    \/ await_keys(t) \/ adopt_rotated_key(t)

Next == \/ \E t \in Thread : \/ \E r \in Requests : accept(t, r)
                             \/ Step(t)
                             \/ fail(t)
        \/ Crash
        \/ run

\* The scheduler runs every thread that can go on, and a blocked lock() call
\* returns once the lock stays free.
Fairness == \A t \in Thread : WF_vars(Step(t))

Spec == Init /\ [][Next]_vars /\ Fairness
-----------------------------------------------------------------------------
\* Every variable stays in its domain, and the locks are held where the
\* handlers hold them: a guard that outlives its handler would break this.
TypeOK ==
    /\ mem \in MasterKey \cup {Down}
    /\ sealed \in MasterKey
    /\ wrap \in Seq(Nat)
    /\ task \in [Thread -> Task]
    /\ readers = {t \in Thread : \/ At(t) \in {"append", "rekey_with"}
                                 \/ At(t) = "store" /\ task[t].req \in KeysFirst}
    /\ \A t \in Thread : owner = t <=> At(t) \in {"status", "rekey_with"}
    /\ owner \in Thread \cup {Nobody}
    /\ minted \in Nat /\ accepted \in 0..MaxRequests /\ restarts \in 0..MaxRestarts

Adopting(t) == At(t) \in {"adopt", "waiting"}

\* Store and daemon agree on the master key, except while the one thread whose
\* rotation committed is on its way to adopt it: whatever failed, whatever else
\* runs, and however many rotations were asked for (the comment on rekey).
MemoryMatchesDisk ==
    /\ mem \in {sealed, Down} \/ \E t \in Thread : Adopting(t) /\ task[t].successor = sealed
    /\ Cardinality({t \in Thread : Adopting(t)}) <= 1

\* Rotations follow one another: each one replaces the key the daemon holds,
\* which is the one on disk, by the next generation, and memory only ever takes
\* the key on disk.  Of two concurrent rotations one is refused, not lost.
RotationsFollowEachOther ==
    [][/\ sealed' # sealed => /\ mem = sealed
                              /\ sealed'.generation = sealed.generation + 1
       /\ mem' \notin {mem, Down} => mem' = sealed]_vars

\* Every stored version can be opened by the key the store records (the comment
\* on rekey_with: the store is never "left holding versions wrapped under a key
\* it no longer records").
WrappedUnderRecordedKey == Openable(sealed.key)

\* With no rotation half way, the audit chain verifies under the key the store
\* records: nothing extends it under the previous key (the comment on
\* KeyMaterial), and a rotation that fails leaves it as it was.
ChainUnderRecordedKey ==
    (\A t \in Thread : At(t) # "rekey_with") =>
        verify(log, anchor, sealed.key) = "valid"

\* Every request is answered: no order of lock acquisitions leaves threads
\* waiting for each other (the comment on DaemonState).
RequestsAnswered == \A t \in Thread : At(t) # "idle" ~> At(t) = "idle"
=============================================================================
