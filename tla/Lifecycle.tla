----------------------------- MODULE Lifecycle ------------------------------
(***************************************************************************)
(* The life of a deployment: `secretbaed init', the privileged start of    *)
(* the daemon, backup, the loss of the host, and restore onto a new one.   *)
(* Each step is one system call or one committed statement whose effect    *)
(* outlives a crash; a process may die, or fail and exit, before any step. *)
(* Two processes run side by side: init against init, init against run.    *)
(***************************************************************************)
EXTENDS Naturals, FiniteSets

CONSTANTS Process,        \* process slots
          Path,           \* secret paths
          None,           \* a file, key or bundle that is not there
          PolicyName,     \* the policies an operator edits
          MaxStarts,      \* bound on the processes started
          MaxLosses,      \* bound on the hosts lost
          MaxEdits        \* bound on the requests that write, delete or edit

ASSUME NoneAssumption == None \notin Nat /\ None \notin [master : Nat, under : Nat]
ASSUME LifecycleBoundsAssumption == MaxStarts \in Nat /\ MaxLosses \in Nat /\ MaxEdits \in Nat

VARIABLES keyfile,    \* the keyfile: None, Empty or its key
          schema,     \* the store: None, torn (tables, no user_version), ready
          sealed,     \* sealed_master_key: the key, and the keyfile it needs
          policies,   \* the policies: name -> who wrote the document
          token,      \* the root token whose digest the store has
          secrets,    \* secrets: path -> summary
          entries,    \* audit: whether init has its entry
          bundle,     \* the operator's latest backup
          shown,      \* the root token init printed
          proc,       \* the processes
          restored,   \* history: the last restore was answered with success
          minted,     \* keys generated so far
          starts,     \* processes started so far
          losses,     \* hosts lost so far
          edits,      \* writes, deletes and policy edits so far
          removed     \* the operator took the keyfile away

store == <<schema, sealed, policies, token, secrets, entries>>
host == <<keyfile, store>>
operator == <<bundle, shown, restored, removed>>
counters == <<minted, starts, losses, edits>>
vars == <<host, operator, proc, counters>>

SealedMasterKey == [master : 1..minted, under : 1..minted]
Empty == 0                               \* created, nothing written to it yet

\* A process: what it does next, whether it is hardened, the keyfile's key and
\* the master key it holds, its credentials, and what a restore has left to do.
Privileged == [groups |-> "root", gid |-> "root", uid |-> "root", saved |-> "root"]
Dead == [pc |-> "none", kind |-> "none", hardened |-> FALSE, backend |-> None,
         master |-> None, ids |-> Privileged, todo |-> {}, tagging |-> None]

Init == /\ keyfile = None
        /\ schema = "none" /\ sealed = None /\ policies = <<>> /\ token = None
        /\ secrets = <<>> /\ entries = FALSE
        /\ bundle = None /\ shown = None /\ restored = FALSE /\ removed = FALSE
        /\ proc = [p \in Process |-> Dead]
        /\ minted = 0 /\ starts = 0 /\ losses = 0 /\ edits = 0

At(p, pc) == proc[p].pc = pc
GoesTo(p, pc) == proc' = [proc EXCEPT ![p].pc = pc]
Exits(p) == proc' = [proc EXCEPT ![p] = Dead]
Put(f, k, v) == [x \in DOMAIN f \cup {k} |-> IF x = k THEN v ELSE f[x]]
-----------------------------------------------------------------------------
(* Both commands start as root, and harden the process before anything.     *)

\* The unit runs one daemon at a time; nothing keeps an operator's init out.
start(p, kind) ==
    /\ At(p, "none")
    /\ starts < MaxStarts
    /\ kind = "run" => \A q \in Process : proc[q].kind # "run"
    /\ starts' = starts + 1
    /\ proc' = [proc EXCEPT ![p].pc = "harden", ![p].kind = kind]
    /\ UNCHANGED <<host, operator, minted, losses, edits>>

\* harden_process, and for run the check of the memlock limit.
harden_process(p) ==
    /\ At(p, "harden")
    /\ proc' = [proc EXCEPT ![p].pc = IF proc[p].kind = "init" THEN "create" ELSE "load",
                            ![p].hardened = TRUE]
    /\ UNCHANGED <<host, operator, counters>>

\* A crash, or an error: the process is gone, its sockets stay behind.
exit(p) ==
    /\ ~At(p, "none")
    /\ Exits(p)
    /\ UNCHANGED <<host, operator, counters>>
-----------------------------------------------------------------------------
(* The keyfile.                                                             *)

\* path.exists(): the early refusal; the file is only created later.
create_refused(p) ==
    /\ At(p, "create")
    /\ keyfile # None
    /\ Exits(p)
    /\ UNCHANGED <<host, operator, counters>>

create(p) ==
    /\ At(p, "create")
    /\ keyfile = None
    /\ GoesTo(p, "create_new")
    /\ UNCHANGED <<host, operator, counters>>

\* Mutation: open with create and truncate.
create_new_truncating(p) ==
    /\ At(p, "create_new")
    /\ keyfile' = Empty
    /\ GoesTo(p, "write_key")
    /\ UNCHANGED <<store, operator, counters>>

\* create_new: fails when another init was faster.
create_new(p) ==
    /\ At(p, "create_new")
    /\ IF keyfile = None THEN keyfile' = Empty /\ GoesTo(p, "write_key")
                         ELSE UNCHANGED keyfile /\ Exits(p)
    /\ UNCHANGED <<store, operator, counters>>

\* The first process with the file open writes and syncs its key.
write_key(p) ==
    /\ At(p, "write_key")
    /\ minted' = minted + 1
    /\ keyfile' = minted'
    /\ GoesTo(p, "load")
    /\ UNCHANGED <<store, operator, starts, losses, edits>>

\* The checks of its mode and owner are left out: nothing here changes them.
load(p) ==
    /\ At(p, "load")
    /\ IF keyfile \in {None, Empty} THEN Exits(p)
       ELSE proc' = [proc EXCEPT ![p].pc = "migrate", ![p].backend = keyfile]
    /\ UNCHANGED <<host, operator, counters>>
-----------------------------------------------------------------------------
(* The store.                                                               *)

AfterOpen(p) == IF proc[p].kind = "init" THEN "master" ELSE "seed"

\* The tables of the first migration are created one by one; a table that is
\* already there makes this and every later open fail.
migrate(p) ==
    /\ At(p, "migrate")
    /\ CASE schema = "none"  -> schema' = "torn" /\ GoesTo(p, "user_version")
         [] schema = "torn"  -> UNCHANGED schema /\ Exits(p)
         [] schema = "ready" -> UNCHANGED schema /\ GoesTo(p, AfterOpen(p))
    /\ UNCHANGED <<keyfile, sealed, policies, token, secrets, entries, operator, counters>>

user_version(p) ==
    /\ At(p, "user_version")
    /\ schema' = "ready"
    /\ GoesTo(p, AfterOpen(p))
    /\ UNCHANGED <<keyfile, sealed, policies, token, secrets, entries, operator, counters>>

\* Mutation: a second init replaces the master key.
initialise_master_key_again(p) ==
    /\ At(p, "master")
    /\ GoesTo(p, "set_master")
    /\ UNCHANGED <<host, operator, counters>>

\* The check, and the statement that stores the key, are two steps.
initialise_master_key(p) ==
    /\ At(p, "master")
    /\ IF sealed = None THEN GoesTo(p, "set_master") ELSE Exits(p)
    /\ UNCHANGED <<host, operator, counters>>

seal_master(backend, master) == [master |-> master, under |-> backend]

set_sealed_master_key(p) ==
    /\ At(p, "set_master")
    /\ minted' = minted + 1
    /\ sealed' = seal_master(proc[p].backend, minted')
    /\ proc' = [proc EXCEPT ![p].pc = "root_policy", ![p].master = minted']
    /\ UNCHANGED <<keyfile, schema, policies, token, secrets, entries, operator, starts, losses, edits>>

\* Replaces a document of that name.
put_policy(n, document) ==
    /\ policies' = Put(policies, n, document)
    /\ UNCHANGED <<keyfile, schema, sealed, token, secrets, entries>>

\* Mutation: put_policy instead.
ensure_policy_exists_overwriting(n, document) == put_policy(n, document)

\* Never replaces one.
ensure_policy_exists(n, document) ==
    IF n \in DOMAIN policies THEN UNCHANGED host ELSE put_policy(n, document)

root_policy(p) ==
    /\ At(p, "root_policy")
    /\ put_policy("root", "builtin")
    /\ GoesTo(p, "seed")
    /\ UNCHANGED <<operator, counters>>

seed_builtin_policies(p) ==
    /\ At(p, "seed")
    /\ ensure_policy_exists("unrestricted", "builtin")
    /\ GoesTo(p, IF proc[p].kind = "init" THEN "issue" ELSE "unseal")
    /\ UNCHANGED <<operator, counters>>

create_token(p) ==
    /\ At(p, "issue")
    /\ minted' = minted + 1
    /\ token' = minted'
    /\ GoesTo(p, "append")
    /\ UNCHANGED <<keyfile, schema, sealed, policies, secrets, entries, operator, starts, losses, edits>>

append(p) ==
    /\ At(p, "append")
    /\ entries' = TRUE
    /\ GoesTo(p, "print")
    /\ UNCHANGED <<keyfile, schema, sealed, policies, token, secrets, operator, counters>>

\* main prints what initialise returned; it cannot be shown again.
print(p) ==
    /\ At(p, "print")
    /\ shown' = token
    /\ Exits(p)
    /\ UNCHANGED <<host, bundle, restored, removed, counters>>
-----------------------------------------------------------------------------
(* The daemon: unseal, bind, drop privileges, serve.                        *)

\* The keyfile opens what it sealed.
unseal_master(backend) == IF sealed # None /\ sealed.under = backend THEN sealed.master ELSE None

\* Without a sealed key the store is not initialised.
unseal(p) ==
    /\ At(p, "unseal")
    /\ LET master == unseal_master(proc[p].backend)
       IN  IF master = None THEN Exits(p)
           ELSE proc' = [proc EXCEPT ![p].pc = "bind", ![p].master = master]
    /\ UNCHANGED <<host, operator, counters>>

\* Both sockets, as root; a file left by a process that died is replaced.
bind(p) ==
    /\ At(p, "bind")
    /\ IF proc[p].ids.uid = "root" THEN GoesTo(p, "setgroups") ELSE Exits(p)
    /\ UNCHANGED <<host, operator, counters>>

Drops(p, ids, pc) ==
    /\ proc' = [proc EXCEPT ![p].ids = ids, ![p].pc = pc]
    /\ UNCHANGED <<host, operator, counters>>

\* Mutation: the supplementary groups of root are kept.
setgroups_kept(p) ==
    /\ At(p, "setgroups")
    /\ Drops(p, proc[p].ids, "setresgid")

setgroups(p) ==
    /\ At(p, "setgroups")
    /\ Drops(p, [proc[p].ids EXCEPT !.groups = "none"], "setresgid")

\* Only root may change its gid: with the uid gone this fails.
setresgid(p) ==
    /\ At(p, "setresgid")
    /\ IF proc[p].ids.uid = "root"
       THEN Drops(p, [proc[p].ids EXCEPT !.gid = "service"], "setresuid")
       ELSE exit(p)

setresuid(p) ==
    /\ At(p, "setresuid")
    /\ Drops(p, [proc[p].ids EXCEPT !.uid = "service", !.saved = "service"], "verify")

\* The ids are read back, and going back to root must fail.
verify_dropped(p) ==
    /\ At(p, "verify")
    /\ IF /\ proc[p].ids.uid = "service" /\ proc[p].ids.gid = "service"
          /\ proc[p].ids.saved # "root"
       THEN GoesTo(p, "record_unseal")
       ELSE Exits(p)
    /\ UNCHANGED <<host, operator, counters>>

\* The listeners are only served once the unsealing is audited.
record_unseal(p) ==
    /\ At(p, "record_unseal")
    /\ GoesTo(p, "serving")
    /\ UNCHANGED <<host, operator, counters>>
-----------------------------------------------------------------------------
(* Requests to the daemon, one at a time: backup and restore hold the store *)
(* for all of their work.                                                   *)

Readable == {s \in DOMAIN secrets : secrets[s].current}
secret_count == Cardinality(Readable)

\* Every request presents a token of the store; the first is the one init shows.
authenticate == shown # None /\ shown = token

Edits == authenticate /\ edits < MaxEdits /\ edits' = edits + 1

write(p, s) ==
    /\ At(p, "serving") /\ Edits
    /\ secrets' = Put(secrets, s,
          IF s \in DOMAIN secrets THEN [secrets[s] EXCEPT !.current = TRUE]
          ELSE [origin |-> "host", current |-> TRUE, tagged |-> TRUE,
                key |-> proc[p].master])
    /\ UNCHANGED <<keyfile, schema, sealed, policies, token, entries, operator, proc, minted, starts, losses>>

delete(p, s) ==
    /\ At(p, "serving") /\ Edits
    /\ s \in Readable
    /\ secrets' = [secrets EXCEPT ![s].current = FALSE]
    /\ UNCHANGED <<keyfile, schema, sealed, policies, token, entries, operator, proc, minted, starts, losses>>

policy_put(p, n) ==
    /\ At(p, "serving") /\ Edits
    /\ put_policy(n, "custom")
    /\ UNCHANGED <<operator, proc, minted, starts, losses>>

policy_delete(p, n) ==
    /\ At(p, "serving") /\ Edits
    /\ n \in DOMAIN policies
    /\ policies' = [m \in DOMAIN policies \ {n} |-> policies[m]]
    /\ UNCHANGED <<keyfile, schema, sealed, token, secrets, entries, operator, proc, minted, starts, losses>>

\* Every secret, readable or not, with its tags.
export_secrets == [s \in DOMAIN secrets |-> [current |-> secrets[s].current,
                                              tagged |-> secrets[s].tagged]]

\* Decrypted, and sealed under the passphrase; a version the master key does not
\* open is an error.
backup(p) ==
    /\ At(p, "serving") /\ authenticate
    /\ \A s \in DOMAIN secrets : secrets[s].key = proc[p].master
    /\ bundle' = [secrets |-> export_secrets, policies |-> policies]
    /\ restored' = FALSE
    /\ UNCHANGED <<host, shown, removed, proc, counters>>

\* Refused while the store has a readable secret.
restore(p) ==
    /\ At(p, "serving") /\ authenticate
    /\ bundle # None
    /\ secret_count = 0
    /\ proc' = [proc EXCEPT ![p].pc = "import", ![p].todo = DOMAIN bundle.secrets]
    /\ restored' = FALSE
    /\ UNCHANGED <<host, bundle, shown, removed, counters>>

Restoring == {"import", "tag", "policies"}
GivesUp(p) == proc' = [proc EXCEPT ![p].pc = "serving", ![p].todo = {},
                                   ![p].tagging = None]
Imported(p, s) == [origin |-> "bundle", current |-> bundle.secrets[s].current,
                   tagged |-> FALSE, key |-> proc[p].master]

\* Mutation: a path that is already there is written over.
import_overwriting(p, s) ==
    /\ At(p, "import")
    /\ s \in proc[p].todo
    /\ secrets' = Put(secrets, s, Imported(p, s))
    /\ proc' = [proc EXCEPT ![p].todo = @ \ {s}, ![p].pc = "tag",
                                  ![p].tagging = s]
    /\ UNCHANGED <<keyfile, schema, sealed, policies, token, entries, operator, counters>>

\* Mutation: a path that is already there is passed over.
import_skipping(p, s) ==
    /\ At(p, "import")
    /\ s \in proc[p].todo
    /\ IF s \in DOMAIN secrets
       THEN /\ UNCHANGED secrets
            /\ proc' = [proc EXCEPT ![p].todo = @ \ {s}]
       ELSE /\ secrets' = Put(secrets, s, Imported(p, s))
            /\ proc' = [proc EXCEPT ![p].todo = @ \ {s}, ![p].pc = "tag",
                                  ![p].tagging = s]
    /\ UNCHANGED <<keyfile, schema, sealed, policies, token, entries, operator, counters>>

\* Mutation: the bundle's ciphertexts are stored as they are.
import_verbatim(p, s) ==
    /\ At(p, "import")
    /\ s \in proc[p].todo
    /\ s \notin DOMAIN secrets
    /\ secrets' = Put(secrets, s, [Imported(p, s) EXCEPT !.key = 0])
    /\ proc' = [proc EXCEPT ![p].todo = @ \ {s}, ![p].pc = "tag",
                                  ![p].tagging = s]
    /\ UNCHANGED <<keyfile, schema, sealed, policies, token, entries, operator, counters>>

\* import_secret_with_id: one transaction per secret, sealed under this host's
\* master key; a path that exists is an error and ends the restore.
import_secret_with_id(p, s) ==
    /\ At(p, "import")
    /\ s \in proc[p].todo
    /\ IF s \in DOMAIN secrets
       THEN /\ UNCHANGED secrets
            /\ GivesUp(p)
       ELSE /\ secrets' = Put(secrets, s, Imported(p, s))
            /\ proc' = [proc EXCEPT ![p].todo = @ \ {s}, ![p].pc = "tag",
                                  ![p].tagging = s]
    /\ UNCHANGED <<keyfile, schema, sealed, policies, token, entries, operator, counters>>

\* add_tags, after the secret's transaction.
import_tags(p) ==
    /\ At(p, "tag")
    /\ secrets' = [secrets EXCEPT ![proc[p].tagging].tagged =
                                      bundle.secrets[proc[p].tagging].tagged]
    /\ proc' = [proc EXCEPT ![p].pc = "import", ![p].tagging = None]
    /\ UNCHANGED <<keyfile, schema, sealed, policies, token, entries, operator, counters>>

imported(p) ==
    /\ At(p, "import")
    /\ proc[p].todo = {}
    /\ proc' = [proc EXCEPT ![p].pc = "policies", ![p].todo = DOMAIN bundle.policies]
    /\ UNCHANGED <<host, operator, counters>>

\* put_policy: a document of the bundle replaces the one of the same name.
import_policy(p, n) ==
    /\ At(p, "policies")
    /\ n \in proc[p].todo
    /\ put_policy(n, bundle.policies[n])
    /\ proc' = [proc EXCEPT ![p].todo = @ \ {n}]
    /\ UNCHANGED <<operator, counters>>

record_restore(p) ==
    /\ At(p, "policies")
    /\ proc[p].todo = {}
    /\ restored' = TRUE
    /\ GoesTo(p, "serving")
    /\ UNCHANGED <<host, bundle, shown, removed, counters>>

\* A statement of the restore fails: what was imported stays.
restore_fails(p) ==
    /\ proc[p].pc \in Restoring
    /\ GivesUp(p)
    /\ UNCHANGED <<host, operator, counters>>

\* The host is lost with everything on it; the operator has the bundle.
lose_host ==
    /\ losses < MaxLosses
    /\ losses' = losses + 1
    /\ keyfile' = None
    /\ schema' = "none" /\ sealed' = None /\ policies' = <<>> /\ token' = None
    /\ secrets' = <<>> /\ entries' = FALSE
    /\ shown' = None /\ restored' = FALSE /\ removed' = FALSE
    /\ proc' = [p \in Process |-> Dead]
    /\ UNCHANGED <<bundle, minted, starts, edits>>

\* An operator tries to start over, with no init under way: the keyfile goes, the
\* store stays.
remove_keyfile ==
    /\ keyfile # None
    /\ ~removed
    /\ \A p \in Process : proc[p].kind # "init"
    /\ removed' = TRUE
    /\ keyfile' = None
    /\ UNCHANGED <<store, bundle, shown, restored, proc, counters>>

Next ==
    \/ lose_host \/ remove_keyfile
    \/ \E p \in Process :
          \/ \E kind \in {"init", "run"} : start(p, kind)
          \/ harden_process(p) \/ exit(p)
          \/ create_refused(p) \/ create(p) \/ create_new(p) \/ write_key(p) \/ load(p)
          \/ migrate(p) \/ user_version(p)
          \/ initialise_master_key(p) \/ set_sealed_master_key(p)
          \/ root_policy(p) \/ seed_builtin_policies(p) \/ create_token(p) \/ append(p) \/ print(p)
          \/ unseal(p) \/ bind(p) \/ setgroups(p) \/ setresgid(p)
          \/ setresuid(p) \/ verify_dropped(p) \/ record_unseal(p)
          \/ \E s \in Path : write(p, s) \/ delete(p, s) \/ import_secret_with_id(p, s)
          \/ \E n \in PolicyName : \/ policy_put(p, n) \/ policy_delete(p, n)
          \/ \E n \in proc[p].todo : import_policy(p, n)
          \/ backup(p) \/ restore(p) \/ import_tags(p) \/ imported(p)
          \/ record_restore(p) \/ restore_fails(p)

Spec == Init /\ [][Next]_vars
-----------------------------------------------------------------------------
(* Properties.                                                              *)

Serving(p) == proc[p].pc \in {"serving"} \cup Restoring

TypeOK ==
    /\ keyfile \in 0..minted \cup {None}
    /\ schema \in {"none", "torn", "ready"}
    /\ sealed \in SealedMasterKey \cup {None}
    /\ sealed # None \/ DOMAIN policies # {} => schema = "ready"
    /\ token \in 1..minted \cup {None}
    /\ DOMAIN secrets \subseteq Path
    /\ \A s \in DOMAIN secrets :
          secrets[s] \in [origin : {"host", "bundle"}, current : BOOLEAN,
                         tagged : BOOLEAN, key : 1..minted]
    /\ \A p \in Process : /\ proc[p].kind \in {"none", "init", "run"}
                          /\ Serving(p) => proc[p].kind = "run"

\* The order of startup.rs:23 holds for every process: no key is in one that
\* could still be dumped or swapped (privdrop.rs:60), and requests are answered
\* only as the service account, without a group or a saved uid that leads back
\* to root (privdrop.rs:82).
PrivilegeOrder ==
    \A p \in Process :
        /\ proc[p].backend # None \/ proc[p].master # None => proc[p].hardened
        /\ Serving(p) => proc[p].ids = [groups |-> "none", gid |-> "service",
                                        uid |-> "service", saved |-> "service"]

\* Whatever inits run, in turn or at once, and wherever they stop: the keyfile
\* opens the master key in the store, unless the operator took it away.
NoKeyIsLost ==
    sealed # None /\ ~removed => keyfile = sealed.under

\* A root token that was printed belongs to a complete deployment: the digest,
\* the sealed key and the entry are in the store (startup.rs:138).
ShownTokenIsComplete ==
    shown # None => shown = token /\ sealed # None /\ entries /\ schema = "ready"

\* Every secret opens under the master key of the host it is on: a bundle is
\* sealed anew on the host that restores it (maintenance.rs:219).
EverythingOpens ==
    \A s \in DOMAIN secrets : sealed # None /\ secrets[s].key = sealed.master

\* A history comes from this host or from a bundle and never changes over, even
\* when a restore is repeated after a failure (store's maintenance.rs:197).
HistoriesNeverMerge ==
    [][\A s \in DOMAIN secrets \cap DOMAIN secrets' :
          secrets'[s].origin = secrets[s].origin]_vars

\* A restore that was answered with success brought every secret of the bundle
\* with its tags, although each came in steps of its own (maintenance.rs:240).
RestoredMeansComplete ==
    restored => \A s \in DOMAIN bundle.secrets :
        /\ s \in DOMAIN secrets
        /\ secrets[s].origin = "bundle"
        /\ secrets[s].tagged = bundle.secrets[s].tagged

\* A policy an operator wrote changes only by a request or with the host, never
\* because the daemon starts (tokens.rs:206).
CustomisedSurvivesStart ==
    [][\A n \in DOMAIN policies :
          policies[n] = "custom" =>
              \/ n \in DOMAIN policies' /\ policies'[n] = "custom"
              \/ \E p \in Process : Serving(p)
              \/ keyfile' = None]_vars
=============================================================================
