-------------------------- MODULE LifecycleProofs ---------------------------
(***************************************************************************)
(* Proofs about Lifecycle: for every number of processes, paths, policies, *)
(* starts, edits and lost hosts.                                           *)
(***************************************************************************)
EXTENDS Lifecycle, TLAPS

PolicyNames == PolicyName \cup {"root", "unrestricted"}

Credentials == [groups : {"root", "none"}, gid : {"root", "service"},
                uid : {"root", "service"}, saved : {"root", "service"}]
Dropped == [groups |-> "none", gid |-> "service", uid |-> "service", saved |-> "service"]

\* The points of the program, by the command that reaches them.
InitOnly == {"create", "create_new", "write_key", "master", "set_master",
             "root_policy", "issue", "append", "print"}
Unsealed == {"bind", "setgroups", "setresgid", "setresuid", "verify", "record_unseal",
             "serving"} \cup Restoring
RunOnly == Unsealed \cup {"unseal"}
Either == {"harden", "load", "migrate", "user_version", "seed"}

Program == [pc : {"none"} \cup InitOnly \cup RunOnly \cup Either,
            kind : {"none", "init", "run"}, hardened : BOOLEAN,
            backend : (Nat \ {0}) \cup {None}, master : (Nat \ {0}) \cup {None},
            ids : Credentials, todo : SUBSET (Path \cup PolicyNames),
            tagging : Path \cup {None}]

Secret == [origin : {"host", "bundle"}, current : BOOLEAN, tagged : BOOLEAN,
           key : Nat \ {0}]

-----------------------------------------------------------------------------
(* The inductive invariant, in parts.                                       *)

\* The domains of the files, the tables and what the operator has.
TypedHost ==
    /\ minted \in Nat
    /\ keyfile \in Nat \cup {None}
    /\ schema \in {"none", "torn", "ready"}
    /\ sealed \in [master : Nat \ {0}, under : Nat \ {0}] \cup {None}
    /\ token \in (Nat \ {0}) \cup {None}
    /\ shown \in (Nat \ {0}) \cup {None}
    /\ entries \in BOOLEAN /\ restored \in BOOLEAN /\ removed \in BOOLEAN
    /\ DOMAIN policies \subseteq PolicyNames
    /\ DOMAIN secrets \subseteq Path
    /\ \A s \in DOMAIN secrets : secrets[s] \in Secret
    /\ bundle # None =>
          /\ DOMAIN bundle.policies \subseteq PolicyNames
          /\ DOMAIN bundle.secrets \subseteq Path
          /\ \A s \in DOMAIN bundle.secrets : /\ bundle.secrets[s].current \in BOOLEAN
                                              /\ bundle.secrets[s].tagged \in BOOLEAN

\* No key exists that was not generated.
Minted ==
    /\ keyfile # None => keyfile <= minted
    /\ sealed # None => sealed.master <= minted /\ sealed.under <= minted
    /\ token # None => token <= minted

\* The tables come before what is in them, and nobody has customised a policy
\* before there was a token to do it with.
Deployment ==
    /\ sealed # None \/ DOMAIN policies # {} => schema = "ready"
    /\ shown = None => \A n \in DOMAIN policies : policies[n] # "custom"

HostInv ==
    /\ TypedHost /\ Minted /\ Deployment
    /\ NoKeyIsLost /\ ShownTokenIsComplete /\ EverythingOpens /\ RestoredMeansComplete

\* What a process has done by the point it is at.
DoneBy(r) ==
    /\ r.pc = "none" <=> r.kind = "none"
    /\ r.pc \in InitOnly => r.kind = "init"
    /\ r.pc \in RunOnly => r.kind = "run"
    /\ r.pc \in {"none", "harden"} => r.backend = None /\ r.master = None
    /\ r.pc \notin {"none", "harden"} => r.hardened
    /\ r.pc \in Unsealed => r.master # None
    /\ r.pc \in {"setresgid", "setresuid"} => r.ids.groups = "none"
    /\ r.pc = "setresuid" => r.ids.gid = "service"
    /\ r.pc \in {"verify", "record_unseal", "serving"} \cup Restoring => r.ids = Dropped

HoldsMinted(r) ==
    /\ r.backend # None => r.backend <= minted
    /\ r.master # None => r.master <= minted

\* An init that got past create_new created the keyfile that is there and holds
\* the key that is in it; while the file is empty nothing is sealed.
Owner(r) == r.kind = "init" /\ r.pc \notin {"harden", "create", "create_new"}
OwnsKeyfile(r) ==
    Owner(r) =>
        /\ keyfile # None
        /\ r.pc = "write_key" => keyfile = Empty /\ (removed \/ sealed = None)
        /\ r.pc \notin {"write_key", "load"} => r.backend # None /\ r.backend = keyfile

\* How far the deployment has got when a process is at a point.
Opened == {"master", "set_master", "root_policy", "seed", "issue", "append", "print"} \cup RunOnly
Deployed(r) ==
    /\ r.pc \in Opened => schema = "ready"
    /\ r.pc = "set_master" => sealed = None
    /\ Owner(r) /\ r.pc \in {"root_policy", "seed", "issue", "append", "print"} =>
          shown = None /\ sealed # None
    /\ r.pc \in {"append", "print"} => token # None
    /\ r.pc = "print" => entries
    /\ r.kind = "run" /\ r.master # None => sealed # None /\ r.master = sealed.master

\* What a daemon has restored so far is complete.
Complete(s) ==
    /\ s \in DOMAIN secrets
    /\ secrets[s].origin = "bundle"
    /\ secrets[s].tagged = bundle.secrets[s].tagged
Imports(r) ==
    r.pc \in Restoring =>
        /\ bundle # None /\ ~restored /\ shown # None
        /\ r.pc # "policies" => r.todo \subseteq DOMAIN bundle.secrets
        /\ r.pc = "import" => \A s \in DOMAIN bundle.secrets \ r.todo : Complete(s)
        /\ r.pc = "tag" =>
              /\ \A s \in DOMAIN bundle.secrets \ (r.todo \cup {r.tagging}) : Complete(s)
              /\ r.tagging \in DOMAIN bundle.secrets \cap DOMAIN secrets
              /\ secrets[r.tagging].origin = "bundle"
        /\ r.pc = "policies" => /\ r.todo \subseteq PolicyNames
                                /\ \A s \in DOMAIN bundle.secrets : Complete(s)

Fits(r) == DoneBy(r) /\ HoldsMinted(r) /\ OwnsKeyfile(r) /\ Deployed(r) /\ Imports(r)

TypedProc == proc \in [Process -> Program]
OneOwner == \A p, q \in Process : Owner(proc[p]) /\ Owner(proc[q]) => p = q
OneDaemon == \A p, q \in Process : proc[p].kind = "run" /\ proc[q].kind = "run" => p = q

IInv == HostInv /\ TypedProc /\ OneOwner /\ OneDaemon /\ \A p \in Process : Fits(proc[p])

-----------------------------------------------------------------------------
(* A step of one process, from the record r0 to the record r.               *)

\* Each of these depends on few variables.
LEMMA Frames ==
    ASSUME NEW s
    PROVE  /\ UNCHANGED minted /\ HoldsMinted(s) => HoldsMinted(s)'
           /\ UNCHANGED <<keyfile, removed, sealed>> /\ OwnsKeyfile(s) => OwnsKeyfile(s)'
           /\ UNCHANGED <<schema, sealed, shown, token, entries>> /\ Deployed(s) => Deployed(s)'
           /\ UNCHANGED <<bundle, restored, shown, secrets>> /\ Imports(s) => Imports(s)'
           /\ DoneBy(s) => DoneBy(s)'
  BY DEF HoldsMinted, OwnsKeyfile, Owner, Deployed, Imports, Complete, DoneBy

\* What two processes are not at once.
Apart(r, s) == ~(Owner(r) /\ Owner(s)) /\ ~(r.kind = "run" /\ s.kind = "run")

\* One process moves; the others are not what it is, and keep what they rely on.
LEMMA Assemble ==
    ASSUME IInv, NEW p \in Process, NEW r0 \in Program, NEW r \in Program,
           r0 = proc[p], proc' = [proc EXCEPT ![p] = r],
           HostInv', Fits(r)',
           \A s \in Program : Fits(s) /\ Apart(r0, s) => Fits(s)',
           Owner(r) => Owner(r0) \/ keyfile = None,
           r.kind = "run" => r0.kind = "run" \/ \A q \in Process : proc[q].kind # "run"
    PROVE  IInv'
<1>1. TypedProc' /\ proc'[p] = r /\ \A q \in Process \ {p} : proc'[q] = proc[q]
  BY DEF IInv, TypedProc
<1>2. \A q \in Process : proc[q] \in Program /\ Fits(proc[q])
  BY DEF IInv, TypedProc
<1>3. OneOwner'
  <2>1. keyfile = None => \A q \in Process : ~Owner(proc[q])
    BY <1>2 DEF Fits, OwnsKeyfile
  <2>2. QED
    BY <1>1, <2>1 DEF IInv, OneOwner, Owner
<1>4. OneDaemon'
  BY <1>1 DEF IInv, OneDaemon
<1>5. ASSUME NEW q \in Process PROVE Fits(proc[q])'
  <2>1. CASE q = p
    BY <1>1, <2>1
  <2>2. CASE q # p
    <3>1. Apart(r0, proc[q])
      BY <2>2 DEF IInv, OneOwner, OneDaemon, Apart
    <3>2. QED
      BY <1>1, <1>2, <2>2, <3>1
  <2>3. QED
    BY <2>1, <2>2
<1>6. QED
  BY <1>1, <1>3, <1>4, <1>5 DEF IInv

\* A step that changes nothing but the process.
LEMMA QuietStep ==
    ASSUME IInv, NEW p \in Process, NEW r0 \in Program, NEW r \in Program,
           r0 = proc[p], proc' = [proc EXCEPT ![p] = r], Fits(r),
           UNCHANGED <<host, operator, minted>>,
           Owner(r) => Owner(r0),
           r.kind = "run" => r0.kind = "run" \/ \A q \in Process : proc[q].kind # "run"
    PROVE  IInv'
<1>1. HostInv'
  BY DEF IInv, HostInv, TypedHost, Minted, Deployment, NoKeyIsLost, ShownTokenIsComplete,
         EverythingOpens, RestoredMeansComplete, host, store, operator
<1>2. \A s : Fits(s) => Fits(s)'
  BY Frames DEF Fits, host, store, operator
<1>3. QED
  BY <1>1, <1>2, Assemble

\* A process that exits leaves nothing behind in memory.
LEMMA DeadFits == Dead \in Program /\ Fits(Dead) /\ Fits(Dead)' /\ ~Owner(Dead) /\ Dead.kind = "none"
  BY DEF Dead, Privileged, Program, Credentials, Fits, DoneBy, HoldsMinted, OwnsKeyfile, Owner,
         Deployed, Imports, InitOnly, RunOnly, Unsealed, Opened, Restoring

\* An exit, clean or not, changes the process and nothing else.
LEMMA ExitStep ==
    ASSUME IInv, NEW p \in Process, Exits(p), UNCHANGED <<host, operator, minted>>
    PROVE  IInv'
<1>1. PICK r0 \in Program : r0 = proc[p]
  BY DEF IInv, TypedProc
<1>2. QED
  BY <1>1, DeadFits, QuietStep DEF Exits

\* The points a process moves to without touching the host.
LEMMA GoStep ==
    ASSUME IInv, NEW p \in Process, NEW x, GoesTo(p, x), UNCHANGED <<host, operator, minted>>,
           \/ proc[p].pc = "create" /\ x = "create_new"
           \/ proc[p].pc = "migrate" /\ x = AfterOpen(p) /\ schema = "ready"
           \/ proc[p].pc = "master" /\ x = "set_master" /\ sealed = None
           \/ proc[p].pc = "bind" /\ x = "setgroups"
           \/ proc[p].pc = "verify" /\ x = "record_unseal"
           \/ proc[p].pc = "record_unseal" /\ x = "serving"
    PROVE  IInv'
<1>1. PICK r0 \in Program : r0 = proc[p] /\ Fits(r0)
  BY DEF IInv, TypedProc
<1>2. PICK r : r = [r0 EXCEPT !.pc = x]
  OBVIOUS
<1>3. proc' = [proc EXCEPT ![p] = r]
  BY <1>1, <1>2 DEF GoesTo, IInv, TypedProc
<1>4. r \in Program
  BY <1>1, <1>2 DEF Program, AfterOpen, InitOnly, RunOnly, Unsealed, Either
<1>5. (Owner(r) => Owner(r0)) /\ r.kind = r0.kind
  BY <1>1, <1>2 DEF Program, Owner, AfterOpen
<1>6. Fits(r)
  <2>1. DoneBy(r) /\ HoldsMinted(r)
    BY <1>1, <1>2 DEF Fits, DoneBy, HoldsMinted, AfterOpen, InitOnly, RunOnly, Unsealed, Restoring, Program
  <2>2. OwnsKeyfile(r)
    BY <1>1, <1>2 DEF Fits, DoneBy, OwnsKeyfile, Owner, AfterOpen, RunOnly, Unsealed, Program
  <2>3. Deployed(r)
    BY <1>1, <1>2 DEF Fits, DoneBy, Deployed, Owner, AfterOpen, RunOnly, Unsealed, Restoring,
                        Opened, Program
  <2>4. Imports(r)
    BY <1>1, <1>2 DEF Imports, AfterOpen, Restoring, Program
  <2>5. QED
    BY <2>1, <2>2, <2>3, <2>4 DEF Fits
<1>7. QED
  BY <1>1, <1>3, <1>4, <1>5, <1>6, QuietStep

\* A second daemon is not started while one is there.
LEMMA StartStep ==
    ASSUME IInv, NEW p \in Process, NEW kind \in {"init", "run"}, start(p, kind)
    PROVE  IInv'
<1>1. PICK r0 \in Program : r0 = proc[p] /\ Fits(r0) /\ r0.pc = "none"
  BY DEF IInv, TypedProc, start, At
<1>2. PICK r : r = [r0 EXCEPT !.pc = "harden", !.kind = kind]
  OBVIOUS
<1>3. proc' = [proc EXCEPT ![p] = r]
  BY <1>1, <1>2 DEF start, IInv, TypedProc
<1>4. r \in Program /\ ~Owner(r) /\ r.pc = "harden" /\ r.kind = kind
  BY <1>1, <1>2 DEF Program, Either, Owner
<1>5. Fits(r)
  BY <1>1, <1>2 DEF Program, Fits, DoneBy, HoldsMinted, OwnsKeyfile, Owner, Deployed, Imports,
                    InitOnly, RunOnly, Unsealed, Restoring, Opened
<1>6. QED
  BY <1>1, <1>3, <1>4, <1>5, QuietStep DEF start

\* Hardening comes before the first key.
LEMMA HardenStep == ASSUME IInv, NEW p \in Process, harden_process(p) PROVE IInv'
<1>1. PICK r0 \in Program : r0 = proc[p] /\ Fits(r0) /\ r0.pc = "harden"
  BY DEF IInv, TypedProc, harden_process, At
<1>2. PICK r : r = [r0 EXCEPT !.pc = IF r0.kind = "init" THEN "create" ELSE "load",
                              !.hardened = TRUE]
  OBVIOUS
<1>3. proc' = [proc EXCEPT ![p] = r]
  BY <1>1, <1>2 DEF harden_process, IInv, TypedProc
<1>4. r \in Program /\ ~Owner(r) /\ r.kind = r0.kind
  <2>1. CASE r0.kind = "init"
    BY <1>1, <1>2, <2>1 DEF Program, InitOnly, Owner
  <2>2. CASE r0.kind # "init"
    BY <1>1, <1>2, <2>2 DEF Program, Either, Owner
  <2>3. QED
    BY <2>1, <2>2
<1>5. Fits(r)
  BY <1>1, <1>2 DEF Program, Fits, DoneBy, HoldsMinted, OwnsKeyfile, Owner, Deployed, Imports,
                    InitOnly, RunOnly, Unsealed, Restoring, Opened
<1>6. QED
  BY <1>1, <1>3, <1>4, <1>5, QuietStep DEF harden_process, counters

\* load takes the key from the keyfile, or ends the process.
LEMMA LoadStep == ASSUME IInv, NEW p \in Process, load(p) PROVE IInv'
<1>1. PICK r0 \in Program : r0 = proc[p] /\ Fits(r0) /\ r0.pc = "load"
  BY DEF IInv, TypedProc, load, At
<1>2. CASE keyfile \in {None, Empty}
  BY <1>2, ExitStep DEF load, counters
<1>3. CASE keyfile \notin {None, Empty}
  <2>1. keyfile \in Nat \ {0} /\ keyfile <= minted
    BY <1>3 DEF IInv, HostInv, TypedHost, Minted, Empty
  <2>2. PICK r : r = [r0 EXCEPT !.pc = "migrate", !.backend = keyfile]
    OBVIOUS
  <2>3. proc' = [proc EXCEPT ![p] = r]
    BY <1>1, <1>3, <2>2 DEF load, IInv, TypedProc
  <2>4. r \in Program /\ (Owner(r) => Owner(r0)) /\ r.kind = r0.kind
    BY <1>1, <2>1, <2>2 DEF Program, Either, Owner
  <2>5. Fits(r)
    BY <1>1, <2>1, <2>2, NoneAssumption
       DEF Program, Fits, DoneBy, HoldsMinted, OwnsKeyfile, Owner, Deployed, Imports,
           InitOnly, RunOnly, Unsealed, Restoring, Opened
  <2>6. QED
    BY <1>1, <2>3, <2>4, <2>5, QuietStep DEF load, counters
<1>4. QED
  BY <1>2, <1>3

\* unseal takes the master key that is in the store, or ends the process.
LEMMA UnsealStep == ASSUME IInv, NEW p \in Process, unseal(p) PROVE IInv'
<1>1. PICK r0 \in Program : r0 = proc[p] /\ Fits(r0) /\ r0.pc = "unseal"
  BY DEF IInv, TypedProc, unseal, At
<1>2. CASE unseal_master(proc[p].backend) = None
  BY <1>2, ExitStep DEF unseal, counters
<1>3. CASE unseal_master(proc[p].backend) # None
  <2>1. /\ sealed # None /\ unseal_master(proc[p].backend) = sealed.master
        /\ sealed.master \in Nat \ {0} /\ sealed.master <= minted
    BY <1>3 DEF unseal_master, IInv, HostInv, TypedHost, Minted
  <2>2. PICK r : r = [r0 EXCEPT !.pc = "bind", !.master = sealed.master]
    OBVIOUS
  <2>3. proc' = [proc EXCEPT ![p] = r]
    BY <1>1, <1>3, <2>1, <2>2 DEF unseal, IInv, TypedProc
  <2>4. r \in Program /\ ~Owner(r) /\ r.kind = r0.kind
    BY <1>1, <2>1, <2>2 DEF Program, RunOnly, Unsealed, Owner, Fits, DoneBy
  <2>5. Fits(r)
    BY <1>1, <2>1, <2>2, NoneAssumption
       DEF Program, Fits, DoneBy, HoldsMinted, OwnsKeyfile, Owner, Deployed, Imports,
           InitOnly, RunOnly, Unsealed, Restoring, Opened
  <2>6. QED
    BY <1>1, <2>3, <2>4, <2>5, QuietStep DEF unseal, counters
<1>4. QED
  BY <1>2, <1>3

\* The three calls that give up root, in their order.
LEMMA DropStep ==
    ASSUME IInv, NEW p \in Process, NEW ids, NEW x, Drops(p, ids, x),
           \/ /\ proc[p].pc = "setgroups" /\ x = "setresgid"
              /\ ids = [proc[p].ids EXCEPT !.groups = "none"]
           \/ /\ proc[p].pc = "setresgid" /\ x = "setresuid"
              /\ ids = [proc[p].ids EXCEPT !.gid = "service"]
           \/ /\ proc[p].pc = "setresuid" /\ x = "verify"
              /\ ids = [proc[p].ids EXCEPT !.uid = "service", !.saved = "service"]
    PROVE  IInv'
<1>1. PICK r0 \in Program : r0 = proc[p] /\ Fits(r0)
  BY DEF IInv, TypedProc
<1>2. PICK r : r = [r0 EXCEPT !.ids = ids, !.pc = x]
  OBVIOUS
<1>3. proc' = [proc EXCEPT ![p] = r]
  BY <1>1, <1>2 DEF Drops, IInv, TypedProc
<1>4. /\ ids \in Credentials
      /\ x = "setresgid" => ids.groups = "none"
      /\ x = "setresuid" => ids.groups = "none" /\ ids.gid = "service"
      /\ x = "verify" => ids = Dropped
  <2>1. /\ r0.ids \in Credentials
        /\ r0.pc \in {"setresgid", "setresuid"} => r0.ids.groups = "none"
        /\ r0.pc = "setresuid" => r0.ids.gid = "service"
    BY <1>1 DEF Program, Fits, DoneBy
  <2>2. CASE r0.pc = "setgroups" /\ x = "setresgid" /\ ids = [r0.ids EXCEPT !.groups = "none"]
    BY <2>1, <2>2 DEF Credentials
  <2>3. CASE r0.pc = "setresgid" /\ x = "setresuid" /\ ids = [r0.ids EXCEPT !.gid = "service"]
    BY <2>1, <2>3 DEF Credentials
  <2>4. CASE /\ r0.pc = "setresuid" /\ x = "verify"
             /\ ids = [r0.ids EXCEPT !.uid = "service", !.saved = "service"]
    BY <2>1, <2>4 DEF Credentials, Dropped
  <2>5. QED
    BY <1>1, <2>2, <2>3, <2>4
<1>5. r \in Program /\ ~Owner(r) /\ r.kind = r0.kind
  BY <1>1, <1>2, <1>4 DEF Program, RunOnly, Unsealed, Owner, Fits, DoneBy
<1>6. Fits(r)
  BY <1>1, <1>2, <1>4
     DEF Program, Fits, DoneBy, HoldsMinted, OwnsKeyfile, Owner, Deployed, Imports,
         InitOnly, RunOnly, Unsealed, Restoring, Opened
<1>7. QED
  BY <1>1, <1>3, <1>5, <1>6, QuietStep DEF Drops, counters

\* A restore that is given up, or is done with the secrets, touches no table.
LEMMA GivesUpStep ==
    ASSUME IInv, NEW p \in Process, proc[p].pc \in Restoring, GivesUp(p),
           UNCHANGED <<host, operator, minted>>
    PROVE  IInv'
<1>1. PICK r0 \in Program : r0 = proc[p] /\ Fits(r0)
  BY DEF IInv, TypedProc
<1>2. PICK r : r = [r0 EXCEPT !.pc = "serving", !.todo = {}, !.tagging = None]
  OBVIOUS
<1>3. proc' = [proc EXCEPT ![p] = r]
  BY <1>1, <1>2 DEF GivesUp, IInv, TypedProc
<1>4. r0.kind = "run"
  BY <1>1 DEF Fits, DoneBy, RunOnly, Unsealed
<1>5. r \in Program /\ ~Owner(r) /\ r.kind = r0.kind
  BY <1>1, <1>2, <1>4 DEF Program, RunOnly, Unsealed, Owner
<1>6. Fits(r)
  BY <1>1, <1>2, <1>4
     DEF Program, Fits, DoneBy, HoldsMinted, OwnsKeyfile, Owner, Deployed, Imports,
         InitOnly, RunOnly, Unsealed, Restoring, Opened
<1>7. QED
  BY <1>1, <1>3, <1>5, <1>6, QuietStep

\* After the last secret the whole bundle is in the store.
LEMMA ImportedStep == ASSUME IInv, NEW p \in Process, imported(p) PROVE IInv'
<1>1. PICK r0 \in Program : /\ r0 = proc[p] /\ Fits(r0)
                            /\ r0.pc = "import" /\ r0.todo = {} /\ r0.kind = "run"
  BY DEF IInv, TypedProc, imported, At, Fits, DoneBy, RunOnly, Unsealed, Restoring
<1>2. PICK r : r = [r0 EXCEPT !.pc = "policies", !.todo = DOMAIN bundle.policies]
  OBVIOUS
<1>3. proc' = [proc EXCEPT ![p] = r]
  BY <1>1, <1>2 DEF imported, IInv, TypedProc
<1>4. DOMAIN bundle.policies \subseteq PolicyNames /\ Imports(r0)
  BY <1>1 DEF IInv, HostInv, TypedHost, Fits, Imports, Restoring
<1>5. r \in Program /\ ~Owner(r) /\ r.kind = r0.kind
  BY <1>1, <1>2, <1>4 DEF Program, RunOnly, Unsealed, Restoring, Owner
<1>6. Fits(r)
  <2>1. DoneBy(r) /\ HoldsMinted(r) /\ OwnsKeyfile(r) /\ Deployed(r)
    BY <1>1, <1>2 DEF Program, Fits, DoneBy, HoldsMinted, OwnsKeyfile, Owner, Deployed,
                      InitOnly, RunOnly, Unsealed, Restoring, Opened
  <2>2. Imports(r)
    BY <1>1, <1>2, <1>4 DEF Program, Imports, Restoring
  <2>3. QED
    BY <2>1, <2>2 DEF Fits
<1>7. QED
  BY <1>1, <1>3, <1>5, <1>6, QuietStep DEF imported, counters

\* create_new makes one init the owner: a keyfile that is not there has none.
LEMMA CreateNewStep == ASSUME IInv, NEW p \in Process, create_new(p) PROVE IInv'
<1>1. PICK r0 \in Program : r0 = proc[p] /\ Fits(r0) /\ r0.pc = "create_new" /\ r0.kind = "init"
  BY DEF IInv, TypedProc, create_new, At, Fits, DoneBy, InitOnly
<1>2. CASE keyfile # None
  BY <1>2, ExitStep DEF create_new, counters, host
<1>3. CASE keyfile = None
  <2>1. PICK r : r = [r0 EXCEPT !.pc = "write_key"]
    OBVIOUS
  <2>2. proc' = [proc EXCEPT ![p] = r]
    BY <1>1, <1>3, <2>1 DEF create_new, GoesTo, IInv, TypedProc
  <2>3. r \in Program /\ r.kind = r0.kind /\ r.pc = "write_key"
    BY <1>1, <2>1 DEF Program, InitOnly
  <2>4. /\ keyfile' = Empty /\ Empty # None /\ Empty \in Nat
        /\ UNCHANGED <<store, operator, minted>>
    BY <1>3, NoneAssumption DEF create_new, counters, Empty
  <2>5. removed \/ sealed = None
    BY <1>3, NoneAssumption DEF IInv, HostInv, TypedHost, NoKeyIsLost
  <2>6. HostInv'
    BY <2>4, <2>5 DEF IInv, HostInv, TypedHost, Minted, Deployment, NoKeyIsLost, ShownTokenIsComplete,
         EverythingOpens, RestoredMeansComplete, store, operator, Empty
  <2>7. Fits(r)'
    BY <1>1, <2>1, <2>4, <2>5
       DEF Program, Fits, DoneBy, HoldsMinted, OwnsKeyfile, Owner, Deployed, Imports,
           InitOnly, RunOnly, Unsealed, Restoring, Opened, store, operator
  <2>8. \A s \in Program : Fits(s) /\ Apart(r0, s) => Fits(s)'
    <3>1. \A s \in Program : OwnsKeyfile(s) => OwnsKeyfile(s)'
      BY <1>3, <2>4 DEF OwnsKeyfile, Owner
    <3>2. QED
      BY <2>4, <3>1, Frames DEF Fits, store, operator
  <2>9. QED
    BY <1>1, <1>3, <2>2, <2>3, <2>6, <2>7, <2>8, Assemble
<1>4. QED
  BY <1>2, <1>3

\* The owner fills its own keyfile; nothing was sealed under another.
LEMMA WriteKeyStep == ASSUME IInv, NEW p \in Process, write_key(p) PROVE IInv'
<1>1. PICK r0 \in Program : /\ r0 = proc[p] /\ Fits(r0) /\ r0.pc = "write_key"
                            /\ r0.kind = "init" /\ Owner(r0)
  BY DEF IInv, TypedProc, write_key, At, Fits, DoneBy, InitOnly, Owner
<1>2. PICK r : r = [r0 EXCEPT !.pc = "load"]
  OBVIOUS
<1>3. proc' = [proc EXCEPT ![p] = r]
  BY <1>1, <1>2 DEF write_key, GoesTo, IInv, TypedProc
<1>4. r \in Program /\ r.kind = r0.kind /\ r.pc = "load"
  BY <1>1, <1>2 DEF Program, Either
<1>5. /\ minted' = minted + 1 /\ keyfile' = minted + 1
      /\ minted \in Nat /\ keyfile' \in Nat /\ keyfile' # None
      /\ UNCHANGED <<store, operator>>
  BY NoneAssumption DEF write_key, IInv, HostInv, TypedHost
<1>6. removed \/ sealed = None
  BY <1>1 DEF Fits, OwnsKeyfile
<1>7. HostInv'
  BY <1>5, <1>6
     DEF IInv, HostInv, TypedHost, Minted, Deployment, NoKeyIsLost, ShownTokenIsComplete,
         EverythingOpens, RestoredMeansComplete, store, operator
<1>8. \A s \in Program : HoldsMinted(s) => HoldsMinted(s)'
  BY <1>5 DEF HoldsMinted, Program
<1>9. Fits(r)'
  <2>1. DoneBy(r)' /\ HoldsMinted(r)'
    BY <1>1, <1>2, <1>8 DEF Fits, DoneBy, HoldsMinted, Program, InitOnly, RunOnly, Unsealed, Restoring
  <2>2. OwnsKeyfile(r)'
    BY <1>4, <1>5 DEF OwnsKeyfile
  <2>3. Deployed(r)' /\ Imports(r)'
    BY <1>1, <1>4 DEF Deployed, Imports, Opened, RunOnly, Unsealed, Restoring
  <2>4. QED
    BY <2>1, <2>2, <2>3 DEF Fits
<1>10. \A s \in Program : Fits(s) /\ Apart(r0, s) => Fits(s)'
  <2>1. \A s \in Program : Apart(r0, s) => OwnsKeyfile(s)'
    BY <1>1 DEF Apart, OwnsKeyfile, Owner
  <2>2. QED
    BY <1>5, <1>8, <2>1, Frames DEF Fits, store, operator
<1>11. QED
  BY <1>1, <1>3, <1>4, <1>7, <1>9, <1>10, Assemble

\* A step that changes the policies, keeps their names, and customises one only
\* when a token was shown.
LEMMA PolicyStep ==
    ASSUME IInv, NEW p \in Process, NEW r0 \in Program, NEW r \in Program,
           r0 = proc[p], proc' = [proc EXCEPT ![p] = r], Fits(r),
           Owner(r) => Owner(r0), r.kind = r0.kind,
           UNCHANGED <<keyfile, schema, sealed, token, secrets, entries, operator, minted>>,
           DOMAIN policies' \subseteq PolicyNames, schema = "ready",
           shown = None => \A n \in DOMAIN policies' : policies'[n] # "custom"
    PROVE  IInv'
<1>1. HostInv'
  BY DEF IInv, HostInv, TypedHost, Minted, Deployment, NoKeyIsLost, ShownTokenIsComplete,
         EverythingOpens, RestoredMeansComplete, operator
<1>2. \A s : Fits(s) => Fits(s)'
  BY Frames DEF Fits, operator
<1>3. QED
  BY <1>1, <1>2, Assemble

\* What put_policy does to the table of policies.
LEMMA PutPolicy ==
    ASSUME HostInv, NEW n \in PolicyNames, NEW d, put_policy(n, d)
    PROVE  /\ DOMAIN policies' \subseteq PolicyNames
           /\ UNCHANGED <<keyfile, schema, sealed, token, secrets, entries>>
           /\ shown = None /\ d # "custom" => \A m \in DOMAIN policies' : policies'[m] # "custom"
  BY DEF put_policy, Put, HostInv, TypedHost, Deployment

\* init writes its root policy before a token was shown.
LEMMA RootPolicyStep == ASSUME IInv, NEW p \in Process, root_policy(p) PROVE IInv'
<1>1. PICK r0 \in Program : /\ r0 = proc[p] /\ Fits(r0) /\ r0.pc = "root_policy"
                            /\ r0.kind = "init" /\ Owner(r0)
  BY DEF IInv, TypedProc, root_policy, At, Fits, DoneBy, InitOnly, Owner
<1>2. PICK r : r = [r0 EXCEPT !.pc = "seed"]
  OBVIOUS
<1>3. proc' = [proc EXCEPT ![p] = r]
  BY <1>1, <1>2 DEF root_policy, GoesTo, IInv, TypedProc
<1>4. r \in Program /\ r.kind = r0.kind /\ r.pc = "seed"
  BY <1>1, <1>2 DEF Program, Either
<1>5. Fits(r)
  BY <1>1, <1>2
     DEF Program, Fits, DoneBy, HoldsMinted, OwnsKeyfile, Owner, Deployed, Imports,
         InitOnly, RunOnly, Unsealed, Restoring, Opened
<1>6. shown = None /\ schema = "ready"
  BY <1>1 DEF Fits, Deployed, Opened
<1>7. /\ DOMAIN policies' \subseteq PolicyNames
      /\ UNCHANGED <<keyfile, schema, sealed, token, secrets, entries>>
      /\ \A m \in DOMAIN policies' : policies'[m] # "custom"
  <2>1. "root" \in PolicyNames /\ HostInv
    BY DEF PolicyNames, IInv
  <2>2. put_policy("root", "builtin")
    BY DEF root_policy
  <2>3. QED
    BY <1>6, <2>1, <2>2, PutPolicy
<1>8. QED
  BY <1>1, <1>3, <1>4, <1>5, <1>6, <1>7, PolicyStep DEF root_policy, counters

\* Seeding adds the builtin policy only where none has its name.
LEMMA SeedStep == ASSUME IInv, NEW p \in Process, seed_builtin_policies(p) PROVE IInv'
<1>1. PICK r0 \in Program : /\ r0 = proc[p] /\ Fits(r0) /\ r0.pc = "seed"
                            /\ r0.kind \in {"init", "run"}
  BY DEF IInv, TypedProc, seed_builtin_policies, At, Fits, DoneBy, Program
<1>2. PICK r : r = [r0 EXCEPT !.pc = IF r0.kind = "init" THEN "issue" ELSE "unseal"]
  OBVIOUS
<1>3. proc' = [proc EXCEPT ![p] = r]
  BY <1>1, <1>2 DEF seed_builtin_policies, GoesTo, IInv, TypedProc
<1>4. /\ r \in Program /\ r.kind = r0.kind
      /\ r.kind = "init" => r.pc = "issue"
      /\ r.kind = "run" => r.pc = "unseal"
  BY <1>1, <1>2 DEF Program, InitOnly, RunOnly
<1>5. Fits(r) /\ (Owner(r) => Owner(r0))
  <2>1. CASE r0.kind = "init"
    BY <1>1, <1>2, <2>1
       DEF Program, Fits, DoneBy, HoldsMinted, OwnsKeyfile, Owner, Deployed, Imports,
           InitOnly, RunOnly, Unsealed, Restoring, Opened
  <2>2. CASE r0.kind = "run"
    BY <1>1, <1>2, <2>2
       DEF Program, Fits, DoneBy, HoldsMinted, OwnsKeyfile, Owner, Deployed, Imports,
           InitOnly, RunOnly, Unsealed, Restoring, Opened
  <2>3. QED
    BY <1>1, <2>1, <2>2
<1>6. schema = "ready"
  BY <1>1 DEF Fits, Deployed, Opened
<1>7. /\ DOMAIN policies' \subseteq PolicyNames
      /\ UNCHANGED <<keyfile, schema, sealed, token, secrets, entries>>
      /\ shown = None => \A m \in DOMAIN policies' : policies'[m] # "custom"
  <2>1. CASE UNCHANGED host
    BY <2>1 DEF host, store, IInv, HostInv, TypedHost, Deployment
  <2>2. CASE put_policy("unrestricted", "builtin")
    BY <2>2, PutPolicy DEF PolicyNames, IInv
  <2>3. QED
    BY <2>1, <2>2 DEF seed_builtin_policies, ensure_policy_exists
<1>8. QED
  BY <1>1, <1>3, <1>4, <1>5, <1>6, <1>7, PolicyStep DEF seed_builtin_policies, counters

\* The requests that edit policies, and the policies of a restore.
LEMMA EditPolicyStep ==
    ASSUME IInv, NEW p \in Process,
           \/ \E n \in PolicyName : policy_put(p, n) \/ policy_delete(p, n)
           \/ \E n \in proc[p].todo : import_policy(p, n)
    PROVE  IInv'
<1>1. PICK r0 \in Program : /\ r0 = proc[p] /\ Fits(r0) /\ r0.pc \in {"serving", "policies"}
                            /\ r0.kind = "run"
  BY DEF IInv, TypedProc, policy_put, policy_delete, import_policy, At, Fits, DoneBy, RunOnly,
         Unsealed, Restoring
<1>2. schema = "ready" /\ Imports(r0)
  BY <1>1 DEF Fits, Deployed, Opened, RunOnly, Unsealed, Restoring
<1>3. CASE \E n \in PolicyName : policy_put(p, n) \/ policy_delete(p, n)
  <2>1. shown # None /\ UNCHANGED <<operator, minted, proc>>
    BY <1>3 DEF policy_put, policy_delete, Edits, authenticate
  <2>2. proc' = [proc EXCEPT ![p] = r0]
    BY <1>1, <2>1 DEF IInv, TypedProc
  <2>3. /\ DOMAIN policies' \subseteq PolicyNames
        /\ UNCHANGED <<keyfile, schema, sealed, token, secrets, entries>>
    <3>1. ASSUME NEW n \in PolicyName, policy_put(p, n)
          PROVE  /\ DOMAIN policies' \subseteq PolicyNames
                 /\ UNCHANGED <<keyfile, schema, sealed, token, secrets, entries>>
      BY <3>1, PutPolicy DEF policy_put, PolicyNames, IInv
    <3>2. ASSUME NEW n \in PolicyName, policy_delete(p, n)
          PROVE  /\ DOMAIN policies' \subseteq PolicyNames
                 /\ UNCHANGED <<keyfile, schema, sealed, token, secrets, entries>>
      BY <3>2 DEF policy_delete, IInv, HostInv, TypedHost
    <3>3. QED
      BY <1>3, <3>1, <3>2
  <2>4. QED
    BY <1>1, <1>2, <2>1, <2>2, <2>3, PolicyStep
<1>4. ASSUME NEW n \in proc[p].todo, import_policy(p, n) PROVE IInv'
  <2>1. r0.pc = "policies" /\ shown # None /\ n \in r0.todo
    BY <1>1, <1>2, <1>4 DEF import_policy, At, Imports, Restoring
  <2>2. PICK r : r = [r0 EXCEPT !.todo = @ \ {n}]
    OBVIOUS
  <2>3. proc' = [proc EXCEPT ![p] = r]
    BY <1>1, <1>4, <2>2 DEF import_policy, IInv, TypedProc
  <2>4. r \in Program /\ r.kind = r0.kind /\ r.pc = "policies" /\ r.ids = r0.ids
        /\ r.todo = r0.todo \ {n} /\ r.hardened = r0.hardened /\ r.backend = r0.backend /\ r.master = r0.master
    BY <1>1, <2>1, <2>2 DEF Program
  <2>5. Fits(r) /\ ~Owner(r)
    BY <1>1, <2>1, <2>4
       DEF Fits, DoneBy, HoldsMinted, OwnsKeyfile, Owner, Deployed, Imports,
           InitOnly, RunOnly, Unsealed, Restoring, Opened
  <2>6. PICK d : put_policy(n, d)
    BY <1>4 DEF import_policy
  <2>7. n \in PolicyNames
    BY <1>2, <2>1 DEF Imports, Restoring
  <2>8. QED
    BY <1>1, <1>2, <1>4, <2>1, <2>3, <2>4, <2>5, <2>6, <2>7, PutPolicy, PolicyStep
       DEF import_policy, counters, IInv
<1>5. QED
  BY <1>3, <1>4

\* The schema only goes from none to torn to ready.
LEMMA SchemaStep ==
    ASSUME IInv, NEW p \in Process, migrate(p) \/ user_version(p)
    PROVE  IInv'
<1>1. PICK r0 \in Program : /\ r0 = proc[p] /\ Fits(r0) /\ r0.pc \in {"migrate", "user_version"}
                            /\ r0.kind \in {"init", "run"}
  BY DEF IInv, TypedProc, migrate, user_version, At, Fits, DoneBy, Program
<1>2. CASE migrate(p) /\ schema = "torn"
  BY <1>2, ExitStep DEF migrate, host, store, counters
<1>3. CASE migrate(p) /\ schema = "ready"
  <2>1. GoesTo(p, AfterOpen(p)) /\ UNCHANGED <<host, operator, minted>> /\ proc[p].pc = "migrate"
    BY <1>3 DEF migrate, host, store, counters, At
  <2>2. QED
    BY <1>3, <2>1, GoStep
<1>4. ASSUME NEW x, GoesTo(p, x), UNCHANGED <<keyfile, sealed, policies, token, secrets, entries, operator, minted>>,
             \/ r0.pc = "migrate" /\ schema = "none" /\ schema' = "torn" /\ x = "user_version"
             \/ r0.pc = "user_version" /\ schema' = "ready" /\ x = AfterOpen(p)
      PROVE  IInv'
  <2>1. PICK r : r = [r0 EXCEPT !.pc = x]
    OBVIOUS
  <2>2. proc' = [proc EXCEPT ![p] = r]
    BY <1>1, <1>4, <2>1 DEF GoesTo, IInv, TypedProc
  <2>3. /\ r \in Program /\ r.kind = r0.kind /\ r.pc = x
        /\ x = "user_version" \/ (schema' = "ready" /\ x = IF r.kind = "init" THEN "master" ELSE "seed")
    BY <1>1, <1>4, <2>1 DEF Program, Either, InitOnly, AfterOpen
  <2>4. Owner(r) => Owner(r0)
    BY <1>1, <2>3 DEF Owner
  <2>5. HostInv'
    BY <1>4 DEF IInv, HostInv, TypedHost, Minted, Deployment, NoKeyIsLost, ShownTokenIsComplete,
         EverythingOpens, RestoredMeansComplete, operator
  <2>6. \A s \in Program : Deployed(s) => Deployed(s)'
    BY <1>4 DEF Deployed, operator
  <2>7. \A s \in Program : Fits(s) => Fits(s)'
    BY <1>4, <2>6, Frames DEF Fits, operator
  <2>8. Fits(r)'
    <3>1. DoneBy(r)' /\ HoldsMinted(r)'
      BY <1>1, <1>4, <2>1, <2>3 DEF Fits, DoneBy, HoldsMinted, Program, InitOnly, RunOnly, Unsealed, Restoring
    <3>2. OwnsKeyfile(r)'
      BY <1>1, <1>4, <2>1, <2>3 DEF Fits, OwnsKeyfile, Owner, Program, operator
    <3>3. Deployed(r)'
      BY <1>1, <1>4, <2>1, <2>3 DEF Fits, Deployed, Owner, Opened, RunOnly, Unsealed, Restoring, Program, operator
    <3>4. Imports(r)'
      BY <2>3 DEF Imports, Restoring
    <3>5. QED
      BY <3>1, <3>2, <3>3, <3>4 DEF Fits
  <2>9. QED
    BY <1>1, <2>2, <2>3, <2>4, <2>5, <2>7, <2>8, Assemble
<1>5. CASE migrate(p) /\ schema = "none"
  BY <1>1, <1>4, <1>5 DEF migrate, counters, At
<1>6. CASE user_version(p)
  BY <1>1, <1>4, <1>6 DEF user_version, counters, At
<1>7. schema \in {"none", "torn", "ready"}
  BY DEF IInv, HostInv, TypedHost
<1>8. QED
  BY <1>2, <1>3, <1>5, <1>6, <1>7

\* The owner of the keyfile seals the first master key: no process relies on
\* there being none, and no secret is there yet.
LEMMA SealStep == ASSUME IInv, NEW p \in Process, set_sealed_master_key(p) PROVE IInv'
<1>1. PICK r0 \in Program : /\ r0 = proc[p] /\ Fits(r0) /\ r0.pc = "set_master"
                            /\ r0.kind = "init" /\ Owner(r0)
  BY DEF IInv, TypedProc, set_sealed_master_key, At, Fits, DoneBy, InitOnly, Owner
<1>2. /\ minted \in Nat /\ minted' = minted + 1 /\ minted + 1 # None
      /\ sealed' = [master |-> minted + 1, under |-> r0.backend]
      /\ UNCHANGED <<keyfile, schema, policies, token, secrets, entries, operator>>
  BY <1>1, NoneAssumption
     DEF set_sealed_master_key, seal_master, IInv, HostInv, TypedHost
<1>3. /\ sealed = None /\ keyfile # None /\ r0.backend = keyfile /\ schema = "ready"
      /\ r0.backend \in Nat \ {0} /\ r0.backend <= minted
  BY <1>1 DEF Fits, Deployed, OwnsKeyfile, HoldsMinted, Opened, Program
<1>4. /\ sealed' \in [master : Nat \ {0}, under : Nat \ {0}]
      /\ sealed'.master = minted + 1 /\ sealed'.under = r0.backend
      /\ sealed' # None
  BY <1>2, <1>3, NoneAssumption
<1>5. shown = None /\ DOMAIN secrets = {}
  BY <1>3 DEF IInv, HostInv, ShownTokenIsComplete, EverythingOpens
<1>6. PICK r : r = [r0 EXCEPT !.pc = "root_policy", !.master = minted + 1]
  OBVIOUS
<1>7. proc' = [proc EXCEPT ![p] = r]
  BY <1>1, <1>2, <1>6 DEF set_sealed_master_key, IInv, TypedProc
<1>8. r \in Program /\ r.kind = "init" /\ r.pc = "root_policy" /\ r.backend = r0.backend
  <2>1. PICK m \in Nat \ {0} : m = minted + 1
    BY <1>2
  <2>2. QED
    BY <1>1, <1>6, <2>1 DEF Program, InitOnly
<1>9. HostInv'
  <2>1. TypedHost' /\ Minted'
    BY <1>2, <1>3, <1>4 DEF IInv, HostInv, TypedHost, Minted, operator
  <2>2. Deployment' /\ NoKeyIsLost' /\ ShownTokenIsComplete'
    BY <1>2, <1>3, <1>4, <1>5 DEF IInv, HostInv, Deployment, NoKeyIsLost, ShownTokenIsComplete, operator
  <2>3. EverythingOpens' /\ RestoredMeansComplete'
    BY <1>2, <1>5 DEF IInv, HostInv, EverythingOpens, RestoredMeansComplete, operator
  <2>4. QED
    BY <2>1, <2>2, <2>3 DEF HostInv
<1>10. Fits(r)'
  <2>1. DoneBy(r)' /\ HoldsMinted(r)'
    BY <1>1, <1>2, <1>3, <1>6 DEF Fits, DoneBy, HoldsMinted, Program, InitOnly, RunOnly, Unsealed, Restoring
  <2>2. OwnsKeyfile(r)'
    BY <1>2, <1>3, <1>8 DEF OwnsKeyfile
  <2>3. Deployed(r)' /\ Imports(r)'
    BY <1>2, <1>3, <1>4, <1>5, <1>8 DEF Deployed, Imports, Opened, RunOnly, Unsealed, Restoring, operator
  <2>4. QED
    BY <2>1, <2>2, <2>3 DEF Fits
<1>11. \A s \in Program : Fits(s) /\ Apart(r0, s) => Fits(s)'
  <2>1. ASSUME NEW s \in Program, Fits(s), Apart(r0, s) PROVE Fits(s)'
    <3>1. ~Owner(s)
      BY <1>1, <2>1 DEF Apart
    <3>2. HoldsMinted(s)'
      BY <1>2, <2>1 DEF Fits, HoldsMinted, Program
    <3>3. OwnsKeyfile(s)'
      BY <3>1 DEF OwnsKeyfile, Owner
    <3>4. Deployed(s)'
      BY <1>2, <1>3, <2>1, <3>1 DEF Fits, DoneBy, Deployed, Owner, InitOnly, operator
    <3>5. QED
      BY <1>2, <2>1, <3>2, <3>3, <3>4, Frames DEF Fits, operator
  <2>2. QED
    BY <2>1
<1>12. QED
  BY <1>1, <1>7, <1>8, <1>9, <1>10, <1>11, Assemble

\* The owner issues the token while none is shown.
LEMMA CreateTokenStep == ASSUME IInv, NEW p \in Process, create_token(p) PROVE IInv'
<1>1. PICK r0 \in Program : /\ r0 = proc[p] /\ Fits(r0) /\ r0.pc = "issue"
                            /\ r0.kind = "init" /\ Owner(r0)
  BY DEF IInv, TypedProc, create_token, At, Fits, DoneBy, InitOnly, Owner
<1>2. /\ minted \in Nat /\ minted' = minted + 1 /\ token' = minted + 1 /\ token' # None
      /\ UNCHANGED <<keyfile, schema, sealed, policies, secrets, entries, operator>>
  BY NoneAssumption DEF create_token, IInv, HostInv, TypedHost
<1>3. shown = None
  BY <1>1 DEF Fits, Deployed
<1>4. PICK r : r = [r0 EXCEPT !.pc = "append"]
  OBVIOUS
<1>5. proc' = [proc EXCEPT ![p] = r]
  BY <1>1, <1>4 DEF create_token, GoesTo, IInv, TypedProc
<1>6. r \in Program /\ r.kind = r0.kind /\ r.pc = "append"
  BY <1>1, <1>4 DEF Program, InitOnly
<1>7. HostInv'
  BY <1>2, <1>3 DEF IInv, HostInv, TypedHost, Minted, Deployment, NoKeyIsLost, ShownTokenIsComplete,
         EverythingOpens, RestoredMeansComplete, operator
<1>8. Fits(r)'
  BY <1>1, <1>2, <1>3, <1>4
     DEF Program, Fits, DoneBy, HoldsMinted, OwnsKeyfile, Owner, Deployed, Imports,
         InitOnly, RunOnly, Unsealed, Restoring, Opened, operator
<1>9. \A s \in Program : Fits(s) => Fits(s)'
  <2>1. \A s \in Program : HoldsMinted(s) => HoldsMinted(s)'
    BY <1>2 DEF HoldsMinted, Program
  <2>2. \A s \in Program : Deployed(s) => Deployed(s)'
    BY <1>2 DEF Deployed, operator
  <2>3. QED
    BY <1>2, <2>1, <2>2, Frames DEF Fits, operator
<1>10. QED
  BY <1>1, <1>5, <1>6, <1>7, <1>8, <1>9, Assemble

\* The entry of init comes before the token is printed.
LEMMA AppendStep == ASSUME IInv, NEW p \in Process, append(p) PROVE IInv'
<1>1. PICK r0 \in Program : /\ r0 = proc[p] /\ Fits(r0) /\ r0.pc = "append"
                            /\ r0.kind = "init" /\ Owner(r0)
  BY DEF IInv, TypedProc, append, At, Fits, DoneBy, InitOnly, Owner
<1>2. entries' = TRUE /\ UNCHANGED <<keyfile, schema, sealed, policies, token, secrets, operator, minted>>
  BY DEF append, counters
<1>3. PICK r : r = [r0 EXCEPT !.pc = "print"]
  OBVIOUS
<1>4. proc' = [proc EXCEPT ![p] = r]
  BY <1>1, <1>3 DEF append, GoesTo, IInv, TypedProc
<1>5. r \in Program /\ r.kind = r0.kind /\ r.pc = "print"
  BY <1>1, <1>3 DEF Program, InitOnly
<1>6. HostInv'
  BY <1>2 DEF IInv, HostInv, TypedHost, Minted, Deployment, NoKeyIsLost, ShownTokenIsComplete,
         EverythingOpens, RestoredMeansComplete, operator
<1>7. Fits(r)'
  BY <1>1, <1>2, <1>3
     DEF Program, Fits, DoneBy, HoldsMinted, OwnsKeyfile, Owner, Deployed, Imports,
         InitOnly, RunOnly, Unsealed, Restoring, Opened, operator
<1>8. \A s \in Program : Fits(s) => Fits(s)'
  <2>1. \A s \in Program : Deployed(s) => Deployed(s)'
    BY <1>2 DEF Deployed, operator
  <2>2. QED
    BY <1>2, <2>1, Frames DEF Fits, operator
<1>9. QED
  BY <1>1, <1>4, <1>5, <1>6, <1>7, <1>8, Assemble

\* print shows a token of a complete deployment, and the init is gone.
LEMMA PrintStep == ASSUME IInv, NEW p \in Process, print(p) PROVE IInv'
<1>1. PICK r0 \in Program : /\ r0 = proc[p] /\ Fits(r0) /\ r0.pc = "print"
                            /\ r0.kind = "init" /\ Owner(r0)
  BY DEF IInv, TypedProc, print, At, Fits, DoneBy, InitOnly, Owner
<1>2. shown' = token /\ UNCHANGED <<host, bundle, restored, removed, minted>>
  BY DEF print, counters
<1>3. sealed # None /\ schema = "ready" /\ token # None /\ entries
  BY <1>1 DEF Fits, Deployed, Opened
<1>4. proc' = [proc EXCEPT ![p] = Dead]
  BY DEF print, Exits
<1>5. HostInv'
  BY <1>2, <1>3 DEF IInv, HostInv, TypedHost, Minted, Deployment, NoKeyIsLost, ShownTokenIsComplete,
         EverythingOpens, RestoredMeansComplete, host, store
<1>6. \A s \in Program : Fits(s) /\ Apart(r0, s) => Fits(s)'
  <2>1. \A s \in Program : Imports(s) => Imports(s)'
    BY <1>2, <1>3 DEF Imports, Complete, host, store
  <2>2. \A s \in Program : Deployed(s) /\ Apart(r0, s) => Deployed(s)'
    BY <1>1, <1>2 DEF Deployed, Apart, Owner, host, store
  <2>3. QED
    BY <1>2, <2>1, <2>2, Frames DEF Fits, host, store
<1>7. QED
  BY <1>1, <1>4, <1>5, <1>6, DeadFits, Assemble

\* What the daemon does to the secrets while it serves, and while it restores.
LEMMA SecretsHost ==
    ASSUME HostInv, UNCHANGED <<keyfile, schema, sealed, policies, token, entries, operator, minted>>,
           sealed # None, DOMAIN secrets' \subseteq Path,
           \A s \in DOMAIN secrets' : secrets'[s] \in Secret /\ secrets'[s].key = sealed.master,
           restored => \A s \in DOMAIN secrets :
              /\ s \in DOMAIN secrets'
              /\ secrets'[s].origin = secrets[s].origin /\ secrets'[s].tagged = secrets[s].tagged
    PROVE  HostInv'
<1>1. TypedHost' /\ Minted' /\ Deployment' /\ NoKeyIsLost' /\ ShownTokenIsComplete' /\ EverythingOpens'
  BY DEF HostInv, TypedHost, Minted, Deployment, NoKeyIsLost, ShownTokenIsComplete,
         EverythingOpens, operator
<1>2. RestoredMeansComplete'
  BY DEF HostInv, RestoredMeansComplete, operator
<1>3. QED
  BY <1>1, <1>2 DEF HostInv

\* Writes and deletes keep where a history came from, and its tags.
LEMMA WriteStep ==
    ASSUME IInv, NEW p \in Process, NEW x \in Path, write(p, x) \/ delete(p, x)
    PROVE  IInv'
<1>1. PICK r0 \in Program : /\ r0 = proc[p] /\ Fits(r0) /\ r0.pc = "serving" /\ r0.kind = "run"
                            /\ r0.master # None
  BY DEF IInv, TypedProc, write, delete, At, Fits, DoneBy, RunOnly, Unsealed
<1>2. sealed # None /\ r0.master = sealed.master /\ r0.master \in Nat \ {0}
  BY <1>1 DEF Fits, Deployed, Program
<1>3. UNCHANGED <<keyfile, schema, sealed, policies, token, entries, operator, proc, minted>>
  BY DEF write, delete
<1>4. /\ DOMAIN secrets \subseteq Path
      /\ \A s \in DOMAIN secrets : secrets[s] \in Secret /\ secrets[s].key = sealed.master
  BY DEF IInv, HostInv, TypedHost, EverythingOpens
<1>5. /\ DOMAIN secrets' \subseteq Path
      /\ \A s \in DOMAIN secrets' : secrets'[s] \in Secret /\ secrets'[s].key = sealed.master
      /\ \A s \in DOMAIN secrets :
              /\ s \in DOMAIN secrets'
              /\ secrets'[s].origin = secrets[s].origin /\ secrets'[s].tagged = secrets[s].tagged
  <2>1. CASE write(p, x) /\ x \in DOMAIN secrets
    <3>1. PICK v : v = [secrets[x] EXCEPT !.current = TRUE]
      OBVIOUS
    <3>2. v \in Secret /\ v.key = sealed.master /\ v.origin = secrets[x].origin /\ v.tagged = secrets[x].tagged
      BY <1>4, <2>1, <3>1 DEF Secret
    <3>3. secrets' = Put(secrets, x, v)
      BY <2>1, <3>1 DEF write
    <3>4. QED
      BY <1>4, <2>1, <3>2, <3>3 DEF Put
  <2>2. CASE write(p, x) /\ x \notin DOMAIN secrets
    <3>1. PICK v : v = [origin |-> "host", current |-> TRUE, tagged |-> TRUE, key |-> r0.master]
      OBVIOUS
    <3>2. v \in Secret /\ v.key = sealed.master
      BY <1>2, <3>1 DEF Secret
    <3>3. secrets' = Put(secrets, x, v)
      BY <1>1, <2>2, <3>1 DEF write
    <3>4. QED
      BY <1>4, <2>2, <3>2, <3>3 DEF Put
  <2>3. CASE delete(p, x)
    <3>1. PICK v : v = [secrets[x] EXCEPT !.current = FALSE]
      OBVIOUS
    <3>2. x \in DOMAIN secrets
      BY <2>3 DEF delete, Readable
    <3>3. v \in Secret /\ v.key = sealed.master /\ v.origin = secrets[x].origin /\ v.tagged = secrets[x].tagged
      BY <1>4, <3>1, <3>2 DEF Secret
    <3>4. secrets' = [secrets EXCEPT ![x] = v]
      BY <2>3, <3>1 DEF delete
    <3>5. QED
      BY <1>4, <3>2, <3>3, <3>4
  <2>4. QED
    BY <2>1, <2>2, <2>3
<1>6. HostInv'
  BY <1>2, <1>3, <1>5, SecretsHost DEF IInv
<1>7. \A s \in Program : Fits(s) /\ (s = r0 \/ Apart(r0, s)) => Fits(s)'
  <2>1. \A s \in Program : Fits(s) /\ (s = r0 \/ Apart(r0, s)) => Imports(s)'
    BY <1>1 DEF Apart, Fits, DoneBy, Imports, RunOnly, Unsealed, Restoring
  <2>2. QED
    BY <1>3, <2>1, Frames DEF Fits, operator
<1>8. proc' = [proc EXCEPT ![p] = r0]
  BY <1>1, <1>3 DEF IInv, TypedProc
<1>9. QED
  BY <1>1, <1>6, <1>7, <1>8, Assemble

\* A backup forgets what the last restore brought.
LEMMA BackupStep == ASSUME IInv, NEW p \in Process, backup(p) PROVE IInv'
<1>1. PICK r0 \in Program : /\ r0 = proc[p] /\ Fits(r0) /\ r0.pc = "serving" /\ r0.kind = "run"
  BY DEF IInv, TypedProc, backup, At, Fits, DoneBy, RunOnly, Unsealed
<1>2. /\ bundle' = [secrets |-> export_secrets, policies |-> policies] /\ restored' = FALSE
      /\ UNCHANGED <<host, shown, removed, proc, minted>>
  BY DEF backup, counters
<1>3. HostInv'
  <2>1. TypedHost'
    BY <1>2 DEF IInv, HostInv, TypedHost, export_secrets, host, store, Secret
  <2>2. QED
    BY <1>2, <2>1 DEF IInv, HostInv, Minted, Deployment, NoKeyIsLost, ShownTokenIsComplete,
         EverythingOpens, RestoredMeansComplete, host, store
<1>4. \A s \in Program : Fits(s) /\ (s = r0 \/ Apart(r0, s)) => Fits(s)'
  <2>1. \A s \in Program : Fits(s) /\ (s = r0 \/ Apart(r0, s)) => Imports(s)'
    BY <1>1 DEF Apart, Fits, DoneBy, Imports, RunOnly, Unsealed, Restoring
  <2>2. QED
    BY <1>2, <2>1, Frames DEF Fits, host, store
<1>5. proc' = [proc EXCEPT ![p] = r0]
  BY <1>1, <1>2 DEF IInv, TypedProc
<1>6. QED
  BY <1>1, <1>3, <1>4, <1>5, Assemble

\* The start and the end of a restore.
LEMMA RestoreStep == ASSUME IInv, NEW p \in Process, restore(p) PROVE IInv'
<1>1. PICK r0 \in Program : /\ r0 = proc[p] /\ Fits(r0) /\ r0.pc = "serving" /\ r0.kind = "run"
  BY DEF IInv, TypedProc, restore, At, Fits, DoneBy, RunOnly, Unsealed
<1>2. /\ bundle # None /\ shown # None /\ restored' = FALSE
      /\ UNCHANGED <<host, bundle, shown, removed, minted>>
  BY DEF restore, authenticate, counters
<1>3. DOMAIN bundle.secrets \subseteq Path
  BY <1>2 DEF IInv, HostInv, TypedHost
<1>4. PICK r : r = [r0 EXCEPT !.pc = "import", !.todo = DOMAIN bundle.secrets]
  OBVIOUS
<1>5. proc' = [proc EXCEPT ![p] = r]
  BY <1>1, <1>4 DEF restore, IInv, TypedProc
<1>6. r \in Program /\ ~Owner(r) /\ r.kind = r0.kind
  BY <1>1, <1>3, <1>4 DEF Program, RunOnly, Unsealed, Restoring, Owner
<1>7. HostInv'
  BY <1>2 DEF IInv, HostInv, TypedHost, Minted, Deployment, NoKeyIsLost, ShownTokenIsComplete,
         EverythingOpens, RestoredMeansComplete, host, store
<1>8. Fits(r)'
  <2>1. DoneBy(r)' /\ HoldsMinted(r)' /\ OwnsKeyfile(r)' /\ Deployed(r)'
    BY <1>1, <1>2, <1>4 DEF Program, Fits, DoneBy, HoldsMinted, OwnsKeyfile, Owner, Deployed,
                      InitOnly, RunOnly, Unsealed, Restoring, Opened, host, store
  <2>2. Imports(r)'
    BY <1>1, <1>2, <1>4 DEF Program, Imports, Restoring
  <2>3. QED
    BY <2>1, <2>2 DEF Fits
<1>9. \A s \in Program : Fits(s) /\ Apart(r0, s) => Fits(s)'
  <2>1. \A s \in Program : Fits(s) /\ Apart(r0, s) => Imports(s)'
    BY <1>1 DEF Apart, Fits, DoneBy, Imports, RunOnly, Unsealed, Restoring
  <2>2. QED
    BY <1>2, <2>1, Frames DEF Fits, host, store
<1>10. QED
  BY <1>1, <1>5, <1>6, <1>7, <1>8, <1>9, Assemble

\* A restore is answered once every secret is complete.
LEMMA RecordRestoreStep == ASSUME IInv, NEW p \in Process, record_restore(p) PROVE IInv'
<1>1. PICK r0 \in Program : /\ r0 = proc[p] /\ Fits(r0) /\ r0.pc = "policies" /\ r0.kind = "run"
  BY DEF IInv, TypedProc, record_restore, At, Fits, DoneBy, RunOnly, Unsealed, Restoring
<1>2. restored' = TRUE /\ UNCHANGED <<host, bundle, shown, removed, minted>>
  BY DEF record_restore, counters
<1>3. PICK r : r = [r0 EXCEPT !.pc = "serving"]
  OBVIOUS
<1>4. proc' = [proc EXCEPT ![p] = r]
  BY <1>1, <1>3 DEF record_restore, GoesTo, IInv, TypedProc
<1>5. r \in Program /\ ~Owner(r) /\ r.kind = r0.kind
  BY <1>1, <1>3 DEF Program, RunOnly, Unsealed, Owner
<1>6. \A s \in DOMAIN bundle.secrets : Complete(s)
  BY <1>1 DEF Fits, Imports, Restoring
<1>7. HostInv'
  <2>1. RestoredMeansComplete'
    BY <1>2, <1>6 DEF RestoredMeansComplete, Complete, host, store
  <2>2. QED
    BY <1>2, <2>1 DEF IInv, HostInv, TypedHost, Minted, Deployment, NoKeyIsLost,
                      ShownTokenIsComplete, EverythingOpens, host, store
<1>8. Fits(r)'
  BY <1>1, <1>2, <1>3
     DEF Program, Fits, DoneBy, HoldsMinted, OwnsKeyfile, Owner, Deployed, Imports,
         InitOnly, RunOnly, Unsealed, Restoring, Opened, host, store
<1>9. \A s \in Program : Fits(s) /\ Apart(r0, s) => Fits(s)'
  <2>1. \A s \in Program : Fits(s) /\ Apart(r0, s) => Imports(s)'
    BY <1>1 DEF Apart, Fits, DoneBy, Imports, RunOnly, Unsealed, Restoring
  <2>2. QED
    BY <1>2, <2>1, Frames DEF Fits, host, store
<1>10. QED
  BY <1>1, <1>4, <1>5, <1>7, <1>8, <1>9, Assemble

\* One secret of the bundle, in two steps.
LEMMA ImportStep ==
    ASSUME IInv, NEW p \in Process, NEW x \in Path, import_secret_with_id(p, x)
    PROVE  IInv'
<1>1. PICK r0 \in Program : /\ r0 = proc[p] /\ Fits(r0) /\ r0.pc = "import" /\ r0.kind = "run"
                            /\ r0.master # None /\ x \in r0.todo
  BY DEF IInv, TypedProc, import_secret_with_id, At, Fits, DoneBy, RunOnly, Unsealed, Restoring
<1>2. CASE x \in DOMAIN secrets
  BY <1>1, <1>2, GivesUpStep DEF import_secret_with_id, host, store, counters, Restoring
<1>3. CASE x \notin DOMAIN secrets
  <2>1. sealed # None /\ r0.master = sealed.master /\ r0.master \in Nat \ {0} /\ Imports(r0)
    BY <1>1 DEF Fits, Deployed, Program
  <2>2. bundle # None /\ ~restored /\ x \in DOMAIN bundle.secrets /\ bundle.secrets[x].current \in BOOLEAN
    BY <1>1, <2>1 DEF Imports, Restoring, IInv, HostInv, TypedHost
  <2>3. /\ UNCHANGED <<keyfile, schema, sealed, policies, token, entries, operator, minted>>
        /\ secrets' = Put(secrets, x, Imported(p, x))
    BY <1>3 DEF import_secret_with_id, counters
  <2>4. PICK v : v = Imported(p, x)
    OBVIOUS
  <2>5. v \in Secret /\ v.key = sealed.master /\ v.origin = "bundle"
    BY <1>1, <2>1, <2>2, <2>4 DEF Imported, Secret
  <2>6. /\ DOMAIN secrets' = DOMAIN secrets \cup {x}
        /\ secrets'[x] = v /\ \A s \in DOMAIN secrets : secrets'[s] = secrets[s]
    BY <1>3, <2>3, <2>4 DEF Put
  <2>7. HostInv'
    BY <2>1, <2>2, <2>3, <2>5, <2>6, SecretsHost DEF IInv, HostInv, TypedHost, EverythingOpens
  <2>8. PICK r : r = [r0 EXCEPT !.todo = @ \ {x}, !.pc = "tag", !.tagging = x]
    OBVIOUS
  <2>9. proc' = [proc EXCEPT ![p] = r]
    BY <1>1, <1>3, <2>8 DEF import_secret_with_id, IInv, TypedProc
  <2>10. r \in Program /\ ~Owner(r) /\ r.kind = r0.kind
    BY <1>1, <2>8 DEF Program, RunOnly, Unsealed, Restoring, Owner
  <2>11. Fits(r)'
    <3>1. DoneBy(r)' /\ HoldsMinted(r)' /\ OwnsKeyfile(r)' /\ Deployed(r)'
      BY <1>1, <2>3, <2>8 DEF Program, Fits, DoneBy, HoldsMinted, OwnsKeyfile, Owner, Deployed,
                      InitOnly, RunOnly, Unsealed, Restoring, Opened, operator
    <3>2. r.pc = "tag" /\ r.tagging = x /\ r.todo = r0.todo \ {x}
      BY <2>8 DEF Program
    <3>3. Imports(r)'
      BY <1>1, <2>1, <2>2, <2>3, <2>5, <2>6, <3>2 DEF Imports, Complete, Restoring, operator
    <3>4. QED
      BY <3>1, <3>3 DEF Fits
  <2>12. \A s \in Program : Fits(s) /\ Apart(r0, s) => Fits(s)'
    <3>1. \A s \in Program : Fits(s) /\ Apart(r0, s) => Imports(s)'
      BY <1>1 DEF Apart, Fits, DoneBy, Imports, RunOnly, Unsealed, Restoring
    <3>2. QED
      BY <2>3, <3>1, Frames DEF Fits, operator
  <2>13. QED
    BY <1>1, <2>7, <2>9, <2>10, <2>11, <2>12, Assemble
<1>4. QED
  BY <1>2, <1>3

\* add_tags completes the secret of the last transaction.
LEMMA TagStep == ASSUME IInv, NEW p \in Process, import_tags(p) PROVE IInv'
<1>1. PICK r0 \in Program : /\ r0 = proc[p] /\ Fits(r0) /\ r0.pc = "tag" /\ r0.kind = "run"
                            /\ r0.master # None
  BY DEF IInv, TypedProc, import_tags, At, Fits, DoneBy, RunOnly, Unsealed, Restoring
<1>2. PICK x : x = r0.tagging
  OBVIOUS
<1>3. /\ sealed # None /\ Imports(r0) /\ bundle # None /\ ~restored
      /\ x \in DOMAIN bundle.secrets /\ x \in DOMAIN secrets /\ secrets[x].origin = "bundle"
  BY <1>1, <1>2 DEF Fits, Deployed, Imports, Restoring
<1>4. /\ bundle.secrets[x].tagged \in BOOLEAN /\ secrets[x] \in Secret
      /\ secrets[x].key = sealed.master
  BY <1>3 DEF IInv, HostInv, TypedHost, EverythingOpens
<1>5. PICK v : v = [secrets[x] EXCEPT !.tagged = bundle.secrets[x].tagged]
  OBVIOUS
<1>6. /\ v \in Secret /\ v.key = sealed.master /\ v.origin = "bundle"
      /\ v.tagged = bundle.secrets[x].tagged
  BY <1>3, <1>4, <1>5 DEF Secret
<1>7. /\ secrets' = [secrets EXCEPT ![x] = v]
      /\ UNCHANGED <<keyfile, schema, sealed, policies, token, entries, operator, minted>>
  BY <1>1, <1>2, <1>5 DEF import_tags, counters
<1>8. HostInv'
  BY <1>3, <1>6, <1>7, SecretsHost DEF IInv, HostInv, TypedHost, EverythingOpens
<1>9. PICK r : r = [r0 EXCEPT !.pc = "import", !.tagging = None]
  OBVIOUS
<1>10. proc' = [proc EXCEPT ![p] = r]
  BY <1>1, <1>9 DEF import_tags, IInv, TypedProc
<1>11. r \in Program /\ ~Owner(r) /\ r.kind = r0.kind
  BY <1>1, <1>9 DEF Program, RunOnly, Unsealed, Restoring, Owner
<1>12. Fits(r)'
  <2>1. DoneBy(r)' /\ HoldsMinted(r)' /\ OwnsKeyfile(r)' /\ Deployed(r)'
    BY <1>1, <1>7, <1>9 DEF Program, Fits, DoneBy, HoldsMinted, OwnsKeyfile, Owner, Deployed,
                      InitOnly, RunOnly, Unsealed, Restoring, Opened, operator
  <2>2. r.pc = "import" /\ r.todo = r0.todo
    BY <1>9 DEF Program
  <2>3. Imports(r)'
    BY <1>1, <1>2, <1>3, <1>6, <1>7, <2>2 DEF Imports, Complete, Restoring, operator
  <2>4. QED
    BY <2>1, <2>3 DEF Fits
<1>13. \A s \in Program : Fits(s) /\ Apart(r0, s) => Fits(s)'
  <2>1. \A s \in Program : Fits(s) /\ Apart(r0, s) => Imports(s)'
    BY <1>1 DEF Apart, Fits, DoneBy, Imports, RunOnly, Unsealed, Restoring
  <2>2. QED
    BY <1>7, <2>1, Frames DEF Fits, operator
<1>14. QED
  BY <1>1, <1>8, <1>10, <1>11, <1>12, <1>13, Assemble

\* A table without rows.
LEMMA EmptyTable == DOMAIN <<>> = {}
  OBVIOUS

\* A lost host leaves an empty one.
LEMMA LoseHostStep == ASSUME IInv, lose_host PROVE IInv'
<1>1. \A p \in Process : proc'[p] = Dead
  BY DEF lose_host
<1>2. TypedProc' /\ OneOwner' /\ OneDaemon'
  BY <1>1, DeadFits DEF TypedProc, OneOwner, OneDaemon, Owner, lose_host
<1>3. \A p \in Process : Fits(proc[p])'
  BY <1>1, DeadFits
<1>4. HostInv'
  <2>1. DOMAIN policies' = {} /\ DOMAIN secrets' = {}
    BY EmptyTable DEF lose_host
  <2>2. QED
    BY <2>1 DEF lose_host, IInv, HostInv, TypedHost, Minted, Deployment, NoKeyIsLost,
                ShownTokenIsComplete, EverythingOpens, RestoredMeansComplete
<1>5. QED
  BY <1>2, <1>3, <1>4 DEF IInv

\* Without an init under way nobody owns the keyfile that goes.
LEMMA RemoveKeyfileStep == ASSUME IInv, remove_keyfile PROVE IInv'
<1>1. /\ \A p \in Process : ~Owner(proc[p])
      /\ keyfile' = None /\ removed' = TRUE
      /\ UNCHANGED <<store, bundle, shown, restored, proc, minted>>
  BY DEF remove_keyfile, Owner, counters
<1>2. HostInv'
  BY <1>1 DEF IInv, HostInv, TypedHost, Minted, Deployment, NoKeyIsLost,
         ShownTokenIsComplete, EverythingOpens, RestoredMeansComplete, store
<1>3. TypedProc' /\ OneOwner' /\ OneDaemon'
  BY <1>1 DEF IInv, TypedProc, OneOwner, OneDaemon, Owner
<1>4. ASSUME NEW p \in Process PROVE Fits(proc[p])'
  <2>1. PICK r : r = proc[p]
    OBVIOUS
  <2>2. OwnsKeyfile(r)'
    BY <1>1, <2>1 DEF OwnsKeyfile, Owner
  <2>3. Fits(r)'
    BY <1>1, <2>1, <2>2, Frames DEF IInv, Fits, store
  <2>4. QED
    BY <1>1, <2>1, <2>3
<1>5. QED
  BY <1>2, <1>3, <1>4 DEF IInv

-----------------------------------------------------------------------------
(* The invariant, and the properties that follow from it.                   *)

\* The invariant holds on an empty host.
LEMMA InitInv == Init => IInv
<1> SUFFICES ASSUME Init PROVE IInv
  OBVIOUS
<1>1. TypedProc /\ OneOwner /\ OneDaemon /\ \A p \in Process : Fits(proc[p])
  BY DeadFits DEF Init, TypedProc, OneOwner, OneDaemon, Owner
<1>2. HostInv
  <2>1. DOMAIN policies = {} /\ DOMAIN secrets = {}
    BY EmptyTable DEF Init
  <2>2. QED
    BY <2>1, NoneAssumption
       DEF Init, HostInv, TypedHost, Minted, Deployment, NoKeyIsLost,
           ShownTokenIsComplete, EverythingOpens, RestoredMeansComplete
<1>3. QED
  BY <1>1, <1>2 DEF IInv

\* Every step keeps the invariant.
LEMMA StepInv == IInv /\ [Next]_vars => IInv'
<1> SUFFICES ASSUME IInv, [Next]_vars PROVE IInv'
  OBVIOUS
<1>1. CASE lose_host
  BY <1>1, LoseHostStep
<1>2. CASE remove_keyfile
  BY <1>2, RemoveKeyfileStep
<1>3. ASSUME NEW p \in Process, \E kind \in {"init", "run"} : start(p, kind) PROVE IInv'
  BY <1>3, StartStep
<1>4. ASSUME NEW p \in Process, harden_process(p) PROVE IInv'
  BY <1>4, HardenStep
<1>5. ASSUME NEW p \in Process, exit(p) \/ create_refused(p) PROVE IInv'
  BY <1>5, ExitStep DEF exit, create_refused, counters
<1>6. ASSUME NEW p \in Process, create(p) PROVE IInv'
  BY <1>6, GoStep DEF create, At, counters
<1>7. ASSUME NEW p \in Process, create_new(p) PROVE IInv'
  BY <1>7, CreateNewStep
<1>8. ASSUME NEW p \in Process, write_key(p) PROVE IInv'
  BY <1>8, WriteKeyStep
<1>9. ASSUME NEW p \in Process, load(p) PROVE IInv'
  BY <1>9, LoadStep
<1>10. ASSUME NEW p \in Process, migrate(p) \/ user_version(p) PROVE IInv'
  BY <1>10, SchemaStep
<1>11. ASSUME NEW p \in Process, initialise_master_key(p) PROVE IInv'
  BY <1>11, ExitStep, GoStep DEF initialise_master_key, At, counters
<1>12. ASSUME NEW p \in Process, set_sealed_master_key(p) PROVE IInv'
  BY <1>12, SealStep
<1>13. ASSUME NEW p \in Process, root_policy(p) PROVE IInv'
  BY <1>13, RootPolicyStep
<1>14. ASSUME NEW p \in Process, seed_builtin_policies(p) PROVE IInv'
  BY <1>14, SeedStep
<1>15. ASSUME NEW p \in Process, create_token(p) PROVE IInv'
  BY <1>15, CreateTokenStep
<1>16. ASSUME NEW p \in Process, append(p) PROVE IInv'
  BY <1>16, AppendStep
<1>17. ASSUME NEW p \in Process, print(p) PROVE IInv'
  BY <1>17, PrintStep
<1>18. ASSUME NEW p \in Process, unseal(p) PROVE IInv'
  BY <1>18, UnsealStep
<1>19. ASSUME NEW p \in Process, bind(p) PROVE IInv'
  BY <1>19, ExitStep, GoStep DEF bind, At, counters
<1>20. ASSUME NEW p \in Process, setgroups(p) \/ setresuid(p) PROVE IInv'
  BY <1>20, DropStep DEF setgroups, setresuid, At
<1>21. ASSUME NEW p \in Process, setresgid(p) PROVE IInv'
  <2>1. CASE exit(p)
    BY <1>5, <2>1
  <2>2. CASE Drops(p, [proc[p].ids EXCEPT !.gid = "service"], "setresuid")
    BY <1>21, <2>2, DropStep DEF setresgid, At
  <2>3. QED
    BY <1>21, <2>1, <2>2 DEF setresgid
<1>22. ASSUME NEW p \in Process, verify_dropped(p) PROVE IInv'
  BY <1>22, ExitStep, GoStep DEF verify_dropped, At, counters
<1>23. ASSUME NEW p \in Process, record_unseal(p) PROVE IInv'
  BY <1>23, GoStep DEF record_unseal, At, counters
<1>24. ASSUME NEW p \in Process, NEW s \in Path,
              write(p, s) \/ delete(p, s) \/ import_secret_with_id(p, s)
       PROVE  IInv'
  BY <1>24, WriteStep, ImportStep
<1>25. ASSUME NEW p \in Process,
              \/ \E n \in PolicyName : policy_put(p, n) \/ policy_delete(p, n)
              \/ \E n \in proc[p].todo : import_policy(p, n)
       PROVE  IInv'
  BY <1>25, EditPolicyStep
<1>26. ASSUME NEW p \in Process, backup(p) PROVE IInv'
  BY <1>26, BackupStep
<1>27. ASSUME NEW p \in Process, restore(p) PROVE IInv'
  BY <1>27, RestoreStep
<1>28. ASSUME NEW p \in Process, import_tags(p) PROVE IInv'
  BY <1>28, TagStep
<1>29. ASSUME NEW p \in Process, imported(p) PROVE IInv'
  BY <1>29, ImportedStep
<1>30. ASSUME NEW p \in Process, record_restore(p) PROVE IInv'
  BY <1>30, RecordRestoreStep
<1>31. ASSUME NEW p \in Process, restore_fails(p) PROVE IInv'
  BY <1>31, GivesUpStep DEF restore_fails, counters
<1>32. CASE UNCHANGED vars
  <2>1. UNCHANGED <<host, operator, minted, proc>>
    BY <1>32 DEF vars, counters
  <2>2. HostInv' /\ TypedProc' /\ OneOwner' /\ OneDaemon'
    BY <2>1 DEF IInv, HostInv, TypedHost, Minted, Deployment, NoKeyIsLost, ShownTokenIsComplete,
         EverythingOpens, RestoredMeansComplete, TypedProc, OneOwner, OneDaemon, Owner,
         host, store, operator
  <2>3. \A r : Fits(r) => Fits(r)'
    BY <2>1, Frames DEF Fits, host, store, operator
  <2>4. QED
    BY <2>1, <2>2, <2>3 DEF IInv
<1>33. QED
  BY <1>1, <1>2, <1>3, <1>4, <1>5, <1>6, <1>7, <1>8, <1>9, <1>10, <1>11, <1>12, <1>13, <1>14,
     <1>15, <1>16, <1>17, <1>18, <1>19, <1>20, <1>21, <1>22, <1>23, <1>24, <1>25, <1>26, <1>27,
     <1>28, <1>29, <1>30, <1>31, <1>32 DEF Next

\* The inductive invariant holds in every reachable state.
THEOREM Invariant == Spec => []IInv
  BY InitInv, StepInv, PTL DEF Spec

\* The columns, files and processes stay in their domains, whatever runs side by
\* side and wherever it stops.
THEOREM TypeCorrect == Spec => []TypeOK
<1>1. IInv => TypeOK
  <2> SUFFICES ASSUME IInv PROVE TypeOK
    OBVIOUS
  <2>1. /\ keyfile \in 0..minted \cup {None} /\ schema \in {"none", "torn", "ready"}
        /\ token \in 1..minted \cup {None} /\ DOMAIN secrets \subseteq Path
        /\ sealed \in SealedMasterKey \cup {None}
        /\ sealed # None \/ DOMAIN policies # {} => schema = "ready"
    BY DEF IInv, HostInv, TypedHost, Minted, Deployment, SealedMasterKey
  <2>2. ASSUME NEW s \in DOMAIN secrets
        PROVE  secrets[s] \in [origin : {"host", "bundle"}, current : BOOLEAN,
                               tagged : BOOLEAN, key : 1..minted]
    <3>1. sealed # None /\ secrets[s].key = sealed.master /\ secrets[s] \in Secret
      BY DEF IInv, HostInv, TypedHost, EverythingOpens
    <3>2. secrets[s].key \in 1..minted
      BY <3>1 DEF IInv, HostInv, TypedHost, Minted
    <3>3. QED
      BY <3>1, <3>2 DEF Secret
  <2>3. ASSUME NEW p \in Process
        PROVE  /\ proc[p].kind \in {"none", "init", "run"}
               /\ Serving(p) => proc[p].kind = "run"
    BY DEF IInv, TypedProc, Program, Fits, DoneBy, Serving, RunOnly, Unsealed
  <2>4. QED
    BY <2>1, <2>2, <2>3 DEF TypeOK
<1>2. QED
  BY <1>1, Invariant, PTL

\* No process holds a key before it is hardened, and none answers requests with
\* an identity that leads back to root: for any number of processes that start,
\* fail and die at any point of startup.rs.
THEOREM PrivilegeOrderHolds == Spec => []PrivilegeOrder
<1>1. IInv => PrivilegeOrder
  <2> SUFFICES ASSUME IInv, NEW p \in Process
               PROVE  /\ proc[p].backend # None \/ proc[p].master # None => proc[p].hardened
                      /\ Serving(p) => proc[p].ids = Dropped
    BY DEF PrivilegeOrder, Dropped
  <2>1. DoneBy(proc[p])
    BY DEF IInv, Fits
  <2>2. QED
    BY <2>1 DEF DoneBy, Serving
<1>2. QED
  BY <1>1, Invariant, PTL

\* However many inits race or stop half way, the keyfile opens the sealed master
\* key as long as the operator leaves it in place.
THEOREM NoKeyIsEverLost == Spec => []NoKeyIsLost
  BY Invariant, PTL DEF IInv, HostInv

\* A root token is printed only by an init whose every step is in the store.
THEOREM ShownTokenIsAlwaysComplete == Spec => []ShownTokenIsComplete
  BY Invariant, PTL DEF IInv, HostInv

\* Every secret opens under the master key of its host, restored ones too.
THEOREM EverythingAlwaysOpens == Spec => []EverythingOpens
  BY Invariant, PTL DEF IInv, HostInv

\* A restore that is answered with success brought every secret and its tags,
\* whatever failed, was retried or crashed before.
THEOREM RestoredIsComplete == Spec => []RestoredMeansComplete
  BY Invariant, PTL DEF IInv, HostInv

\* No step, and no repetition of a restore, mixes a history of the host with one
\* of the bundle.
THEOREM HistoriesStayApart == Spec => HistoriesNeverMerge
<1> DEFINE Kept == \A s \in DOMAIN secrets \cap DOMAIN secrets' :
                      secrets'[s].origin = secrets[s].origin
<1>1. IInv /\ [Next]_vars => [Kept]_vars
  <2> SUFFICES ASSUME IInv, Next PROVE Kept
    OBVIOUS
  <2>1. CASE UNCHANGED secrets
    BY <2>1
  <2>2. ASSUME NEW p \in Process, NEW x \in Path, write(p, x) PROVE Kept
    BY <2>2 DEF write, Put, IInv, HostInv, TypedHost, Secret
  <2>3. ASSUME NEW p \in Process, NEW x \in Path, delete(p, x) PROVE Kept
    BY <2>3 DEF delete, Readable, IInv, HostInv, TypedHost, Secret
  <2>4. ASSUME NEW p \in Process, NEW x \in Path, import_secret_with_id(p, x) PROVE Kept
    BY <2>4 DEF import_secret_with_id, Put
  <2>5. ASSUME NEW p \in Process, import_tags(p) PROVE Kept
    BY <2>5 DEF import_tags, IInv, HostInv, TypedHost, Secret
  <2>6. CASE lose_host
    BY <2>6, EmptyTable DEF lose_host
  <2>7. ASSUME NEW p \in Process,
               \/ \E kind \in {"init", "run"} : start(p, kind)
               \/ harden_process(p) \/ exit(p) \/ create_refused(p) \/ create(p) \/ create_new(p)
               \/ write_key(p) \/ load(p) \/ migrate(p) \/ user_version(p)
               \/ initialise_master_key(p) \/ set_sealed_master_key(p)
               \/ root_policy(p) \/ seed_builtin_policies(p) \/ create_token(p)
               \/ append(p) \/ print(p)
        PROVE  UNCHANGED secrets
    BY <2>7 DEF start, harden_process, exit, create_refused, create, create_new, write_key, load,
                migrate, user_version, initialise_master_key, set_sealed_master_key, root_policy,
                seed_builtin_policies, ensure_policy_exists, put_policy, create_token, append,
                print, host, store
  <2>8. ASSUME NEW p \in Process,
               \/ unseal(p) \/ bind(p) \/ setgroups(p) \/ setresgid(p) \/ setresuid(p)
               \/ verify_dropped(p) \/ record_unseal(p)
               \/ \E n \in PolicyName : policy_put(p, n) \/ policy_delete(p, n)
               \/ \E n \in proc[p].todo : import_policy(p, n)
               \/ backup(p) \/ restore(p) \/ imported(p) \/ record_restore(p) \/ restore_fails(p)
        PROVE  UNCHANGED secrets
    BY <2>8 DEF unseal, bind, setgroups, setresgid, setresuid, Drops, exit, verify_dropped,
                record_unseal, policy_put, policy_delete, import_policy, put_policy, backup,
                restore, imported, record_restore, restore_fails, host, store
  <2>9. CASE remove_keyfile
    BY <2>9 DEF remove_keyfile, store
  <2>10. QED
    BY <2>1, <2>2, <2>3, <2>4, <2>5, <2>6, <2>7, <2>8, <2>9 DEF Next
<1>2. QED
  BY <1>1, Invariant, PTL DEF Spec, HistoriesNeverMerge

\* A policy an operator wrote is replaced or removed only by a request or with
\* the host: init writes its root policy before anyone can hold a token, and the
\* start of the daemon replaces nothing.
THEOREM CustomisedPoliciesSurvive == Spec => CustomisedSurvivesStart
<1> DEFINE Kept == \A n \in DOMAIN policies :
                      policies[n] = "custom" =>
                          \/ n \in DOMAIN policies' /\ policies'[n] = "custom"
                          \/ \E p \in Process : Serving(p)
                          \/ keyfile' = None
<1>1. IInv /\ [Next]_vars => [Kept]_vars
  <2> SUFFICES ASSUME IInv, Next PROVE Kept
    OBVIOUS
  <2>1. CASE UNCHANGED policies
    BY <2>1
  <2>2. ASSUME NEW p \in Process, root_policy(p) PROVE Kept
    <3>1. proc[p].kind = "init" /\ Owner(proc[p]) /\ shown = None
      BY <2>2 DEF root_policy, At, IInv, Fits, DoneBy, InitOnly, Owner, Deployed
    <3>2. QED
      BY <3>1 DEF IInv, HostInv, Deployment
  <2>3. ASSUME NEW p \in Process, seed_builtin_policies(p) PROVE Kept
    BY <2>3 DEF seed_builtin_policies, ensure_policy_exists, put_policy, Put, host, store
  <2>4. ASSUME NEW p \in Process,
               \/ \E n \in PolicyName : policy_put(p, n) \/ policy_delete(p, n)
               \/ \E n \in proc[p].todo : import_policy(p, n)
        PROVE  Kept
    BY <2>4 DEF policy_put, policy_delete, import_policy, At, Serving, Restoring
  <2>5. CASE lose_host
    BY <2>5 DEF lose_host
  <2>6. CASE remove_keyfile
    BY <2>6 DEF remove_keyfile
  <2>7. ASSUME NEW p \in Process,
               \/ \E kind \in {"init", "run"} : start(p, kind)
               \/ harden_process(p) \/ exit(p) \/ create_refused(p) \/ create(p) \/ create_new(p)
               \/ write_key(p) \/ load(p) \/ migrate(p) \/ user_version(p)
               \/ initialise_master_key(p) \/ set_sealed_master_key(p)
               \/ create_token(p) \/ append(p) \/ print(p)
        PROVE  UNCHANGED policies
    BY <2>7 DEF start, harden_process, exit, create_refused, create, create_new, write_key, load,
                migrate, user_version, initialise_master_key, set_sealed_master_key,
                create_token, append, print, host, store
  <2>8. ASSUME NEW p \in Process,
               \/ unseal(p) \/ bind(p) \/ setgroups(p) \/ setresgid(p) \/ setresuid(p)
               \/ verify_dropped(p) \/ record_unseal(p)
               \/ \E s \in Path : write(p, s) \/ delete(p, s) \/ import_secret_with_id(p, s)
               \/ backup(p) \/ restore(p) \/ import_tags(p) \/ imported(p)
               \/ record_restore(p) \/ restore_fails(p)
        PROVE  UNCHANGED policies
    BY <2>8 DEF unseal, bind, setgroups, setresgid, setresuid, Drops, exit, verify_dropped,
                record_unseal, write, delete, import_secret_with_id, backup, restore,
                import_tags, imported, record_restore, restore_fails, host, store
  <2>9. QED
    BY <2>1, <2>2, <2>3, <2>4, <2>5, <2>6, <2>7, <2>8 DEF Next
<1>2. QED
  BY <1>1, Invariant, PTL DEF Spec, CustomisedSurvivesStart
=============================================================================
