# secretbae in TLA+

A verification project for secretbae, a single-host secrets daemon: TLA+ modules
translated from the Rust source, TLC runs on small instances, and TLAPS proofs that hold
for every instance. Paths below are relative to `crates/`.

## The system

| Component | State it keeps | Operations that change it | What makes it correct |
| :-- | :-- | :-- | :-- |
| Versioned secrets (`sbae-store/src/secrets.rs`) | tables `secrets` (current_version, max_versions) and `secret_versions` (state, sealed columns) | `begin_write`, `WriteSlot::commit` with `prune`, `rollback`, `delete_version`, `import_secret_with_id` | numbers are used once, the current version is readable, retention is exact, destroyed means gone |
| Audit chain (`sbae-audit`) | table `audit`, the `audit_anchor` row of `meta` | `append`, `rekey_chain`; `verify` reads | clean means genuine and, within limits, complete; no false alarm; a rotation keeps history |
| Master-key rotation (`sbae-daemon/src/maintenance.rs`, `state.rs`) | the key in memory, `sealed_master_key` in `meta`, the key each version is wrapped under | `rekey`, `rekey_with`, `adopt_rotated_key`, restart | memory, sealed key, wrapped keys and chain agree |
| Request handlers (`sbae-daemon/src/routes.rs`, `auth.rs`) | two locks: `keys` (RwLock) and `store` (Mutex) | twenty routes: gate, act, audit | every request is answered, what it read is still true when it acts |
| Access control (`sbae-policy`, `sbae-store/src/tokens.rs`, `tags.rs`) | tables `tokens`, `policies`, `token_policies`, `secret_tags` | token and policy management, tagging; `evaluate` and `authenticate` decide | deny by default, deny wins on every path, revocation is final, a token has only the policies it was issued with |
| Backup and restore (`sbae-daemon/src/maintenance.rs`, `sbae-store/src/maintenance.rs`) | the operator's bundle | secret by secret, tags after each, then policies | success means complete, a retry never merges histories, everything opens on the new host |
| Initialisation and startup (`startup.rs`, `keyfile.rs`, `privdrop.rs`, `schema.rs`) | keyfile, schema version, sealed master key, credentials of the process | `initialise`, `run` | no key is lost whichever inits overlap or die; privileges are gone before a request is served |
| Batches (`routes.rs` `resolve_secrets`, `resolve_socket.rs`, `sbae-cli/src/exec.rs`) | a connection, its request, its answer | a bounded line protocol under two timeouts; `exec` lists, resolves and starts a command | always ends, always audited before the first byte, a child has its whole profile, in current versions, or does not start |
| Command line (`sbae-cli`) | none | single requests | sends what the handlers expect |
| Dashboard (`sbae-cli/src/top`) | listing, filter, tag, order, two cursors, mode | keys and refreshes | cursors stay inside their lists, rows match what the screen says |

Handlers run on a multi-threaded runtime and block on the two locks. All database access
goes through one connection behind the store mutex, so database operations never interleave
with each other; what interleaves is everything between two acquisitions of that mutex.
The hard behaviours are therefore: the gap between a handler's critical sections (gate, act,
audit; and for rotation: commit, adopt), lock order, and crashes or failures between
transactions that the code treats as one operation. `PROJECT.json` lists them as hazards,
each at its line.

## Modules

**`SecretStore`** models the secrets tables. `row`, `payload`, `current` and `limit` are the
columns `state`, the sealed columns, `current_version` and `max_versions`; `job` is the
operation the mutex is held for. `begin_write` opens the transaction and reserves a number;
`commit` inserts, moves `current_version` and prunes. `delete_version` is two actions,
because its two statements commit separately: the one of that name and `repoint`. `Crash`
ends a job without its remaining statements, a crash and a failing statement alike.
Import takes any member of `Bundle`, which an assumption requires to be an export of a
store that was consistent. Timestamps, provenance, comments and tags are left out.

**`VersionHistory`** is the abstract specification: numbered values and a head per path, four
atomic operations, no tables and no statements. `SecretStore!ImplementsHistory` is the
refinement, through what `read_version` returns. `MCSecretStore` holds the small instance.

**`AuditLog`** holds the data of the chain and what `append`, `rekey_chain` and `verify`
compute from it. The keyed hash is taken to be free of collisions: a hash is the sequence of
(key, entry) pairs hashed into it. `verify` makes the code's checks in the code's order. An
anchor authenticated under another key makes `verify` return an error rather than a verdict,
as the code does (the operations guide lists it under `audit anchor is missing or was not
written by this store`).

**`AuditChain`** is the chain as a state machine. Rowids follow `AUTOINCREMENT`: one is never
given twice, not even after rows are gone (`rowid` is the counter of `sqlite_sequence`). The
environment is a writer of the database without the key (`docs/THREAT_MODEL.md:102`), one
statement at a time, before and after anything the daemon does: it changes the columns of an
entry, `prev_hash` or `entry_hash`, removes rows, gives any rows any other numbers in any
order, inserts rows, moves the counter, and loses, rewrites or restores the anchor. Since it
has no key, every hash and anchor it stores was once the daemon's or is noise. History
variables keep the entries and anchors the daemon wrote (`ledger`, `anchors`) and the kinds of
direct writes there were (`damage`). Several of them together put back an older state of the
table. `MCAuditChain` adds the symmetry of entries and keys.

**`Daemon`** composes the chain (through `AuditLog`) with the master key, the wrapped data
keys, the two locks and the threads that serve requests. A thread's `at` names the lock or
transaction it is about to take; work under the store lock that waits for nothing else is
one step. A rotation is `rekey_chain` and `rekey_with` (two transactions under both locks),
then, with no lock held, `await_keys` and `adopt_rotated_key`, then the audit entry every
handler ends with (`keys`, `append`). `gate` answers either way, a denial is audited.
`status` is two steps because it takes `keys` while it holds the store. The read-write lock
is the Linux one of the standard library: a waiting writer holds up new readers. A stored
version is the key it is wrapped under; which version of which secret it is does not matter
here and is the subject of `SecretStore`.

**`PolicyEngine`** holds the pure functions of `sbae-policy`: the glob table, `evaluate`,
`authenticate`, and which capability a route needs. A path is a sequence of segments;
`MatchesReference` says what a match is without the table. Nothing in it is stateful.

**`Access`** is who may do what while it changes. Each handler is gate, act, audit: three
acquisitions of the store lock, with every other worker's steps in between, and a listing is
four. Tokens, policies, attachments (by rowid, which SQLite hands out again after a delete),
tags and a clock are state; a secret is its tags and whether it has a readable version. Tags
are added one statement at a time, after the version was committed, and any statement may
fail. History variables record what each request's caller was never entitled to since it was
sent: on a path, a live token, no deny rule of any attached policy and a grant; to change
tokens or policies, a live token and a rule with `admin`; on the other routes without a path, a
live token. `MCAccess` is the instance: three callers (root, an application, a second token
that carries two policies), one forged token, one wrong uid. `backup`, `restore`,
`rekey` and `resolve` pass the same gate and are in the other modules.

**`Lifecycle`** is the life of a deployment. Every step of `secretbaed init` and of the start
of the daemon is one system call or one committed statement; a process may die, or fail and
exit, before any of them, and two run side by side. Keys are numbers from a counter: the
sealed master key remembers which keyfile sealed it, a secret which master key it is sealed
under. Once it serves, the daemon writes, deletes, edits policies, backs up and restores;
then the host may be lost, and only the bundle stays. `unseal`, `bind`, `setgroups`,
`setresgid`, `setresuid` and `verify_dropped` carry the credentials of the process. An
operator may also remove the keyfile, but not while an init runs: the check of
`initialise_master_key` and the statement after it are separate, and only the keyfile keeps
two inits apart. A request presents a token of the store (`authenticate`), so nobody edits,
backs up or restores before an init has shown one.

**`Resolve`** is a batch and its two clients: an application on the plain socket, and
`secretbae exec` over HTTP. The socket's parser is one step per line; `resolve_secrets`
authorises the batch and then each path, reads and opens, and writes one entry; the answer
goes out block by block. `connection_timeout` drops the handler at any await, and only there.
`exec` looks for its token, lists each prefix, asks for one batch, compares pins and builds
the environment. Meanwhile others write, roll back, delete, revoke and change policies.

**`Top`** is the dashboard's `App`: two cursors, a filter typed key by key, a tag and an
order, over listings that change between refreshes. Paths and tags are their ranks; row `i`
of the table is the shown secret with `i - 1` shown secrets before it.

**Proof modules.** `SecretStoreProofs`, `AuditChainProofs`, `DaemonProofs`, `AccessProofs`,
`LifecycleProofs`, `ResolveProofs` and `TopProofs` each extend the module they are named
after. `AuditLogProofs` holds what `AuditChain` and `Daemon` need of the chain's data. The
other `MC` modules hold small instances only.

Definitions named after a definition with a suffix and marked *Mutation* are plausible bugs.
They are not used by the specifications; each shows that a property would notice one.

## Runs

| Run | Instance | Shows |
| :-- | :-- | :-- |
| `store` | 2 paths, 2 values, 4 version numbers, default retention 2, two importable secrets with retention 3 and 1; writes may be cut | all six properties, the refinement included |
| `store_torn_delete` | the same, deletes may be cut too | **violation**: `current_version` keeps naming a deleted version |
| `audit` | 2 entries, 2 keys, 3 appends, 2 direct writes, numbers up to 4 | what `verify` calls clean holds only entries the daemon appended, in order, whatever was written; it holds all of them unless a number, a row or an anchor was put back; no false alarm; a verdict has a cause; a rotation keeps history |
| `daemon_alone` | 1 thread, all request kinds, 5 requests, 2 restarts, generations up to 3; failures and crashes everywhere but between the two rotation transactions | wrapped keys and chain always match the recorded key |
| `daemon_shared` | 3 threads, 3 requests, 1 restart, failures and crashes everywhere | memory and disk agree, rotations are serialised, every request is answered |
| `access` | 2 workers, 3 requests out of 25, 3 tokens, 3 paths, 2 tags, 2 seconds | nobody acts on a path that a dead token, a deny rule of any attached policy or the lack of a grant kept from them throughout the request, or manages tokens without `admin`; a token keeps only policies it was issued with; a lost tag only narrows; every change is audited or answered with an error; globs match their definition up to 3 segments |
| `lifecycle` | 2 processes, 5 starts, 2 secrets, 2 policies, 1 host lost, 2 edits | the keyfile opens the store whichever inits overlap or die; a printed token is complete; privileges; a restore that reported success is complete, one that did not never merges histories |
| `resolve` | 1 caller, 2 paths, 3 versions, 2 paths per batch, 2 changes meanwhile, 4 profiles, 3 ways to find a token | what is delivered was readable, and current or the version a client of the socket asked for, at some moment of the batch, and audited; a child gets versions that were current, pinned ones too; every exchange ends |
| `top` | 4 listings of up to 3 secrets, filters of up to 2 characters, 2 tags, 5 columns | cursors, rows and filters agree after any keys and refreshes |
| `rotation_window` | a write and a rotation | **violation**: a version sealed under the replaced key |
| `rotation_failure` | one rotation whose second transaction fails | **violation**: the chain is under a key nobody keeps |
| `lock_order` | `status`, a reader and a rotation | **violation**: all three wait forever |

The four violations are disagreements between the code and its own comments, quoted under
`findings`. An entry audited in the window of `rotation_window`, instead of a version written
in it, likewise ends up under the previous key (`ChainUnderRecordedKey` with a read and a
rotation). Their boundary is what the passing runs state: a rotation with nothing else in
flight is safe against every failure except one between its two transactions
(`daemon_alone`); a rotation under load never disagrees with the disk about the master key
and never loses another rotation, because the second one fails the chain check
(`daemon_shared`); and without `status` the locks cannot deadlock.

Two further behaviours are part of the models and pass, and are worth knowing: deleting any
version, even an old one, moves the head to the newest readable version and so undoes a
rollback (`VersionHistory!Withdraw`); and rows lost at the end of the log are reported as a
gap, not as a truncation, once something was appended after them.

Where the code and its documentation part without a run of their own:

- `init` creates "the keyfile, the store, the master key and a root token in one step"
  (`docs/OPERATIONS.md:34`). They are nine steps. A process that dies after the keyfile
  leaves a deployment that can neither be initialised again nor started; after the master
  key, one that starts and has no usable admin token; between the tables and
  `user_version`, a store every later open fails on. What does hold is `NoKeyIsLost` and
  `ShownTokenIsComplete`.
- Whole-store operations run "in a single transaction, so a crash part-way leaves the store
  exactly as it was rather than half-rotated or half-restored"
  (`sbae-store/src/maintenance.rs:3-4`). A restore imports secret by secret: one that fails
  half way leaves what it imported, and its retry is refused because the store is no longer
  empty (the rotation half is run `rotation_failure`). The guard counts readable secrets only; a store whose
  secrets are all deleted passes it, and the import then fails at the first path in common.
- The audit log "records the specific reason" behind `not found or not permitted`
  (`docs/OPERATIONS.md:310`). A path or version that is missing once the gate is passed
  leaves no entry (`read`, `versions`, `read_version` of `Resolve`), nor does a connection
  cut by the connection timeout.
- "Deny always wins" (`docs/OPERATIONS.md:80`), a deny rule "overrides every grant"
  (`sbae-policy/src/policy.rs:64`); on routes without a path, deny rules are not consulted
  (`grants_without_path`, `sbae-daemon/src/auth.rs:167`). No property claims it there:
  `AllowedAtSomeMoment` speaks of deny rules on paths only.
- A pin in a profile is used "instead of tracking current" (`docs/OPERATIONS.md:135`). `exec`
  asks for the current version of every path and gives up when a pin names another
  (`sbae-cli/src/exec.rs:72-95`), so a pin on an older version that is still readable starts
  nothing. What holds is `ChildEnvironment`: a child gets current versions only.
- The audit chain "cannot hide a deletion" (`docs/THREAT_MODEL.md:115`) and detects "a deleted
  entry" (`docs/OPERATIONS.md:268`). The number of a row is not hashed
  (`sbae-audit/src/hash.rs:78`) and `append` continues any tail it finds (`log.rs:36`), so the
  code does not keep this against a writer that also gives out numbers, inserts rows, moves
  the counter or restores an anchor: `CleanMeansComplete` names these four exceptions. What
  holds against every writer is `CleanMeansGenuine`: nothing is added, altered or reordered.
- A verdict other than a clean one is given one meaning each (`docs/OPERATIONS.md:271-278`):
  `entry modified` for changed contents, a gap for a deleted row, and so on.
  `VerdictNamesCause` lists the kinds of writes that each of them can really come from.
- `root` and `unrestricted` are said to be seeded on every startup
  (`sbae-store/src/tokens.rs:209`); only `unrestricted` is, `root` by init alone.
- A lifetime above the range of an i64 gives a token that never expires (`Expiry`).
- `cycle_tag` drops a tag that is no longer in any listing without recomputing the rows, so
  the table stays empty until the next refresh or key that recomputes; `ViewMatchesChips`
  names the exception.
- A profile without bindings starts its command without any request, so also without a
  valid token.

**Bounds.** Four version numbers let a secret fill its window, prune, lose its newest version
and reach the last number; retention 1, 2 and 3 are all present. Two direct writes with
appends and rotations around them produce every verdict and every pair of causes, and of the
four exceptions in `CleanMeansComplete` all but `"insert"` are needed within them (that one
takes three writes; the proof covers any number). Three entries let two follow what was lost. Deadlock
needs three threads (a reader, a writer, an inverted pair); three requests give one to each,
and are enough for a write in the window followed by a second rotation. The bounds sit in
the guards of `accept` and `run` only, so a bound never blocks a request half way.
In `access` three requests are what the longest scenarios need: delete a policy, put another
one that takes its rowid, use the token; issue a token with two policies of which one denies,
use it; or a request, and two that change what it depends
on while it is between its locks. Five starts in `lifecycle` are an init and a run on each of
two hosts and one restart, or two inits at once and what follows; the two policies are the
built-in ones, of which only one is seeded at a start; two edits let a secret be written and
deleted, or two written and restored one by one. In `resolve` two changes suffice for one
between the gate and the read of a path and one between two paths; batches of different
callers share nothing but the store, which the changes already move under the one caller.
The listings of `top` shrink, empty, lose their tags and change their order.

**Fairness.** `Daemon` assumes weak fairness of each thread's steps: the scheduler runs
runnable threads, and `lock()` returns once the lock stays free. The mutex is not fair, but
the requests are finitely many, so nothing relies on fairness among competitors. Arrivals,
failures, crashes and restarts are not fair. `Resolve` assumes weak fairness of the handler's
own steps (they await nothing; that they get the daemon's locks is presumed, and `lock_order`
is the case in which they do not), of `exec`, and of `connection_timeout` (the runtime's timer
fires). Clients of the socket owe nothing: they may stall at any line or leave an answer
unread, and `EveryCallEnds` still holds because the timeout covers the whole exchange. The
other modules state safety only.

Deadlock checking is off except in `top`: the store and the chain stop at their bounds, and
requests, processes and calls are finitely many. That threads and calls never stop earlier is
`RequestsAnswered` and `EveryCallEnds`.

## Proofs

The theorems hold for every value of the constants that satisfies the named assumptions:
any number of paths, versions, threads, workers, callers, requests, rotations, crashes and
lost hosts. What they state is also checked by a run, except for `LocksAreOrdered`,
`SomeoneGoesOn`, `RefusedForGood` and `ShownOnceInOrder`, which are defined beside their proofs.

| Module | Theorem | States | For |
| :-- | :-- | :-- | :-- |
| `SecretStoreProofs` | `TypeCorrect`, `CiphertextCorrect`, `RetentionCorrect` | `[]TypeOK`, `[]CiphertextIffHeld`, `[]RetentionWindow` | every instance |
| | `FinalVersions` | `VersionsAreFinal` | every instance |
| | `CurrentCorrect` | `[]CurrentNamesReadable` | `"delete" \notin CrashPoints` |
| | `TablesImplementHistory` | `ImplementsHistory` | `"delete" \notin CrashPoints` |
| `AuditLogProofs` | `SoundVerifies`, `ValidMeansSound` | what `verify` answers, and what its answer means | every log |
| `AuditChainProofs` | `TypeCorrect`, `CleanIsGenuine`, `CleanIsComplete`, `NoFalseAlarm`, `VerdictsHaveCauses` | `[]TypeOK`, `[]CleanMeansGenuine`, `[]CleanMeansComplete`, `[]UntouchedVerifies`, `[]VerdictNamesCause` | every instance |
| | `RotationKeepsHistory` | `RekeyKeepsHistory` | every instance |
| `DaemonProofs` | `TypeCorrect`, `MemoryAlwaysMatchesDisk` | `[]TypeOK`, `[]MemoryMatchesDisk` | every instance |
| | `RotationsAreSerial` | `RotationsFollowEachOther` | every instance |
| | `AloneEverythingOpens`, `AloneChainVerifies` | `[]WrappedUnderRecordedKey`, `[]ChainUnderRecordedKey` | one thread, `"rekey_with" \notin CrashPoints` |
| | `WaitsFormNoCycle`, `NeverAllWaiting` | `[]LocksAreOrdered`, `[]SomeoneGoesOn` | `"status" \notin Requests` |
| `AccessProofs` | `TypeCorrect`, `NoUnentitledAct`, `NoGrantReturns`, `AuditAccounts` | `[]TypeOK`, `[]AllowedAtSomeMoment`, `[]GrantsOnlyAsIssued`, `[]ChangesAreAccountedFor` | every instance |
| | `TagsOnlyNarrow` | `[]MissingTagsOnlyNarrow` | every instance |
| | `GlobIsExact` | `[]GlobMatchesReference` | any patterns and paths |
| | `RefusalIsFinal` | `RefusedForGood` | every instance |
| `LifecycleProofs` | `TypeCorrect`, `PrivilegeOrderHolds`, `NoKeyIsEverLost`, `ShownTokenIsAlwaysComplete`, `EverythingAlwaysOpens`, `RestoredIsComplete` | `[]` of the invariants of run `lifecycle` | every instance |
| | `HistoriesStayApart`, `CustomisedPoliciesSurvive` | `HistoriesNeverMerge`, `CustomisedSurvivesStart` | every instance |
| `ResolveProofs` | `TypeCorrect`, `AnswersWereSo`, `AuditedFirst`, `ChildrenFit` | `[]TypeOK`, `[]DeliveredWasSo`, `[]NothingUnaudited`, `[]ChildEnvironment` | every instance |
| `TopProofs` | `TypeCorrect`, `ViewAlwaysMatchesChips`, `RowsAreSorted` | `[]TypeOK`, `[]ViewMatchesChips`, `[]ShownOnceInOrder` | every instance |
| | `CancelAlwaysRestores` | `CancelRestores` | every instance |

The conditional theorems are conditional because of the runs that expect a violation:
`store_torn_delete`, `rotation_window`, `rotation_failure` and `lock_order` show that without
the hypothesis the property is false. `DaemonAlone.cfg` and `SecretStore.cfg` satisfy them.

**The tables.** The inductive invariant `IInv` adds one fact to the properties,
`ReservedAboveAll`: between `begin_write` and `commit` the reserved number is above every
number a row has. Without it a commit could overwrite a version, and the new row could sit
below a held one, so neither `VersionsAreFinal` nor `RetentionWindow` would be preserved. It
holds because nothing else starts while the slot is open. Retention is the one step with
arithmetic: after a commit of `w` a version `u` that survived the prune satisfies
`u > w - limit`, which bounds it against every older row too.

The refinement goes through what `read_version` returns (`Values`) and through what a read
without a version resolves to (`Heads`). `commit` publishes, `rollback` points, the first
statement of a delete withdraws, and `repoint` is a stutter: the abstract head is already the
newest readable version while `current_version` still names the deleted one. That is also
why the hypothesis is needed. That there is a newest version is `GreatestNat`.

**The audit chain.** Without a key a writer can move hashes and not make them. `Hashes` says
what that leaves: a hash is noise from its first pair on, or stands for entries the daemon
appended, in their order, wherever it was put, and an append to any tail keeps this. A log
that `verify` accepts starts from genesis, is linked and hashed under the daemon's key, so its
last hash is its contents, and these are a subsequence of the ledger (`CleanIsGenuine`). That
nothing is missing is a fact about numbers. Numbers are given once, so the last one given is
the number of entries ever appended; `Whole` says that the anchor counts a row that is gone,
or the last row has the last number. A valid log is as long as its anchor says and numbered
from one without a gap, so it is as long as the ledger, and a subsequence as long as the whole
is the whole. `Whole` is kept by every write but the four that put a number, a row or an
anchor back. `Columns`, `Numbered`, `Links`, `Counts` and `Authentic` say which kinds of
writes leave alone what each check of `verify` looks at; each verdict negates one.

**Rotation.** No lock is held between the second transaction of a rotation and the moment its
key is in memory. What keeps a second rotation out is the chain (`OneRotation`): it stands
under the successor's key from the first transaction on, no key is minted twice (`Keys`), and
a chain verifies under one key only (`ValidMeansSound`), so `rekey_chain` refuses everybody
who still has the old key. This is why the memory can lag behind by one rotation and never by
two. `Alone` is the stronger invariant that one thread without a failure between the two
transactions keeps: chain, wrapped keys and sealed key agree outside the window.

**The order of the locks.** `WaitsFor` says who has what a thread asks for, the queue of the
read-write lock included: a reader waits for the writer that waits, the writer for the
readers that are in. `Rank` orders the waits: a thread that has what others ask for is asking
for something of a lower rank, or for nothing. Only `status` asks for `keys` with the store in
its hands, which is the cycle `lock_order` shows. A busy thread of the lowest rank waits for nobody
(`SomeoneGoesOn`). That it then really takes its step is `ENABLED` and is left to TLC.

**Access.** Each of the twenty handlers is brought to one of six courses (pass the gate, record,
give up, complete, list, filter) with one of seven effects on the tables, and the invariant is shown
once per effect rather than once per handler. A gate that lets a request through shows the caller
entitled at that moment (`GateEntitles`, from `EvaluatedIsOpen`: what `evaluate` allows no
deny rule of any attached policy covers), and what is withheld from a request only ever shrinks. A listing
repeats this for each row when it filters. `GrantsOnlyAsIssued` rests on attachments naming
ids that are in use: an id that the database gives again is attached to nothing. The audit
count compares cardinalities of the workers about to record, hence `WorkerAssumption`.
`RefusedForGood` rests on what the seven effects do to a row of `tokens`: it is used or
revoked once, and its lifetime and uid never change.

**Globs.** The table is a recursive function of the pattern, and induction over it is out of
reach. Instead the table that the reference definition describes (`Reach`: which prefixes of
the path the first `n` segments match) is shown to fill every row from the one before as the
code does, and two tables that do cannot differ, since the least row in which they do would
follow from equal ones.

**Lifecycle.** `Fits` says for each point of the program what the process has done by then
(`DoneBy`), that an init past `create_new` owns the keyfile that is there (`OwnsKeyfile`), how
far the deployment has got (`Deployed`) and how much of a bundle is in (`Imports`). One
process owns the keyfile at a time, because `create_new` is exclusive; that alone keeps two
inits from sealing two master keys. `Assemble` reduces a step to the record of the process
that moves; another process keeps what it relies on, which is only in question for the few
steps that write shared files.

**Batches.** What a caller is promised depends on its own exchange, its entries, its child and
the moments it saw; the others can only add moments. So the invariant is one predicate per
caller, `Sound`: what an exchange has in hand at each stage, that each item answers its
target by what was so at a moment seen, that `exec` asks for current versions only, that the
entry precedes the answer, and that the environment was built from bindings with distinct
names.

**The dashboard.** The order is strict and total because a listing has one summary per path. A
row's place therefore determines it, the places are as many as the rows, and so each is taken
(`PlacesAreTaken`): the rows are a permutation in order. Every key then either computes the
rows anew or leaves them with the chips they were computed for. `Remembers` is what Escape
needs: while the filter is typed, the saved one is the one that was there.

**Numbers.** Induction over data is beyond the provers. `LeastNat` and `GreatestNat` give what
the proofs need of it, a least and a greatest element of a set of numbers, from the
well-foundedness of `<`.
Where an induction along the log seems called for, the invariant compares rows pairwise.

**Assumptions.** They bound nothing the code could exceed: limits are natural numbers; markers
for an absent value (`None`, `NoValue`, `NoAnchor`, `Down`, `Nobody`, `Garbled`, `Foreign`)
are none of the values they stand beside; what a read may say instead of a value is not a
value; workers and paths are finitely many; profiles, sources, policies, requests and stored
secrets have the shape the parsers produce; a bundle is the export of a consistent store; a
listing is finite and has one summary per path.
TLC evaluates each of them in a run.

**Only model-checked.** `RequestsAnswered` and `EveryCallEnds`, because liveness under fairness
is beyond the prover; `NeverAllWaiting` is the safety half of the first. Every
other property of a passing run is a theorem.

## Not modelled

- Cryptography, taken as ideal: keys, hashes, token digests, the encryption of a bundle.
- Syntax: paths, tags, durations, profiles and HTTP, argument parsing, formatting, and the
  audit entry's field types and length limits. They keep no state.
- The drawing of the dashboard, its messages and its quit flag.
- The serving loop and graceful shutdown of the HTTP library; the worker threads of `Daemon`
  and `Access` stand for what it schedules. A second daemon that takes over the socket of a
  running one (`server.rs:71`) is left to the service unit, which starts one at a time.
- A wall clock that is set back, which would make a revoked token valid again; the clock of
  `Access` only advances.
- The composition of everything in one state space: a version's number, its wrapping key and
  its tags are each followed by the module they matter to.
