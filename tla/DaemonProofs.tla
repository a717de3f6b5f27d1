---------------------------- MODULE DaemonProofs ----------------------------
(***************************************************************************)
(* Proofs about Daemon: for any number of worker threads, requests,        *)
(* crashes and restarts, rotations follow one another.                     *)
(*                                                                         *)
(* No lock is held between the second transaction of a rotation and the    *)
(* moment its key is in memory.  What keeps a second rotation out is the   *)
(* chain: it stands under the successor's key from the first transaction   *)
(* on, so it does not verify under the key in memory, and rekey_chain      *)
(* refuses.                                                                *)
(***************************************************************************)
EXTENDS Daemon, AuditLogProofs, FiniteSetTheorems

Row == [seq : Nat, entry : {Entry}, prev : Hash, hash : Hash]

\* A rotation past the gate that has not handed its key over yet.
Successor(u) == task[u].successor
HasSuccessor(u) == /\ At(u) \in {"keys", "store", "rekey_with", "adopt", "waiting"}
                   /\ task[u].req = "rekey"

\* A rotation past its first transaction.
Rotating(u) == At(u) \in {"rekey_with", "adopt", "waiting"}

\* Where a thread can be.
Places ==
    /\ mem = Down => \A t \in Thread : task[t] = Idle
    /\ \A t \in Thread : /\ At(t) = "keys" => task[t].req \in KeysFirst
                         /\ Rotating(t) => task[t].req = "rekey"

\* No master key is minted twice.
Keys ==
    /\ sealed.key \in 1..minted
    /\ mem # Down => mem.key \in 1..minted
    /\ \A u \in Thread : HasSuccessor(u) =>
          /\ Successor(u).key \in 1..minted
          /\ mem # Down => Successor(u).key # mem.key
          /\ \A v \in Thread : HasSuccessor(v) /\ v # u => Successor(v).key # Successor(u).key

\* One rotation at a time, the chain standing under its key.
OneRotation ==
    \A u \in Thread : Rotating(u) =>
        /\ \A v \in Thread : Rotating(v) => v = u
        /\ log[1].hash[1] = <<Successor(u).key, Entry>>
        /\ Successor(u).generation = mem.generation + 1
        /\ At(u) = "rekey_with" => mem = sealed
        /\ Adopting(u) => Successor(u) = sealed

Agreement == mem \in {sealed, Down} \/ \E u \in Thread : Adopting(u)

Logs == log \in Seq(Row) /\ log # <<>>

IInv == TypeOK /\ Places /\ Keys /\ OneRotation /\ Agreement /\ Logs
-----------------------------------------------------------------------------
(* Locks and types.                                                         *)

Reads(r) == \/ r.at \in {"append", "rekey_with"}
            \/ r.at = "store" /\ r.req \in KeysFirst
Owns(r) == r.at \in {"status", "rekey_with"}

\* One thread moves, and the locks follow it.
Moves(t, r) ==
    /\ r \in Task /\ task' = [task EXCEPT ![t] = r]
    /\ readers' = IF Reads(r) THEN readers \cup {t} ELSE readers \ {t}
    /\ owner' = IF Owns(r) THEN t ELSE IF owner = t THEN Nobody ELSE owner
    /\ Owns(r) => owner \in {Nobody, t}

\* The task of a thread and its parts.
LEMMA TaskFields ==
    ASSUME TypeOK, NEW t \in Thread
    PROVE  /\ task[t] \in Task /\ task[t].at \in Place
           /\ task[t].req \in RequestKind \cup {"none"}
           /\ task[t].successor \in MasterKey
           /\ task[t].successor.key \in Nat /\ task[t].successor.generation \in 0..MaxGeneration
<1>1. task[t] \in Task
  BY DEF TypeOK
<1>2. /\ task[t].at \in Place /\ task[t].req \in RequestKind \cup {"none"}
      /\ task[t].successor \in MasterKey
  BY <1>1 DEF Task
<1>3. QED
  BY <1>1, <1>2 DEF MasterKey

\* What a move does to the tasks.
LEMMA MoveTasks ==
    ASSUME TypeOK, NEW t \in Thread, NEW r, Moves(t, r)
    PROVE  /\ task' \in [Thread -> Task] /\ task'[t] = r
           /\ \A u \in Thread : u # t => task'[u] = task[u]
  BY DEF TypeOK, Moves

\* A move keeps the locks where the handlers hold them.
LEMMA MoveType ==
    ASSUME TypeOK, NEW t \in Thread, NEW r, Moves(t, r),
           mem' \in MasterKey \cup {Down}, sealed' \in MasterKey, wrap' \in Seq(Nat),
           minted' \in Nat, accepted' \in 0..MaxRequests, restarts' \in 0..MaxRestarts
    PROVE  TypeOK'
<1>1. /\ task' \in [Thread -> Task] /\ task'[t] = r
      /\ \A u \in Thread : u # t => task'[u] = task[u]
  BY MoveTasks
<1>2. /\ readers = {u \in Thread : Reads(task[u])}
      /\ \A u \in Thread : owner = u <=> Owns(task[u])
      /\ owner \in Thread \cup {Nobody}
  BY DEF TypeOK, At, Reads, Owns
<1>3. readers' = {u \in Thread : Reads(task'[u])}
  <2>1. ASSUME NEW u \in Thread PROVE u \in readers' <=> Reads(task'[u])
    <3>1. CASE u = t
      BY <1>1, <3>1 DEF Moves
    <3>2. CASE u # t
      BY <1>1, <1>2, <3>2 DEF Moves
    <3>3. QED
      BY <3>1, <3>2
  <2>2. readers' \subseteq Thread
    BY <1>2 DEF Moves
  <2>3. QED
    BY <2>1, <2>2
<1>4. ASSUME NEW u \in Thread PROVE owner' = u <=> Owns(task'[u])
  <2>1. CASE u = t
    BY <1>1, <2>1, NobodyAssumption DEF Moves
  <2>2. CASE u # t
    BY <1>1, <1>2, <2>2, NobodyAssumption DEF Moves
  <2>3. QED
    BY <2>1, <2>2
<1>5. owner' \in Thread \cup {Nobody}
  BY <1>2 DEF Moves
<1>6. QED
  BY <1>1, <1>3, <1>4, <1>5 DEF TypeOK, At, Reads, Owns

\* The idle task.
LEMMA IdleFields ==
    /\ Idle \in Task /\ Idle.at = "idle" /\ Idle.req = "none"
    /\ ~Reads(Idle) /\ ~Owns(Idle)
<1>1. Master(NoKey, 0) \in MasterKey
  BY DaemonBoundsAssumption DEF Master, NoKey, MasterKey
<1>2. "idle" \in Place /\ "none" \in RequestKind \cup {"none"}
  BY DEF Place
<1>3. Idle \in Task /\ Idle.at = "idle" /\ Idle.req = "none"
  BY <1>1, <1>2 DEF Idle, Task
<1>4. QED
  BY <1>3 DEF Reads, Owns

\* A handler that goes on keeps its request and its successor.
LEMMA Going ==
    ASSUME TypeOK, NEW t \in Thread, NEW place \in Place, GoesTo(t, place)
    PROVE  \E r \in Task : /\ r.at = place /\ r.req = task[t].req
                           /\ r.successor = task[t].successor
                           /\ task' = [task EXCEPT ![t] = r]
<1>1. task[t] \in Task
  BY DEF TypeOK
<1>2. PICK r : r = [task[t] EXCEPT !.at = place]
  OBVIOUS
<1>3. /\ r \in Task /\ r.at = place /\ r.req = task[t].req
      /\ r.successor = task[t].successor
  BY <1>1, <1>2 DEF Task
<1>4. task' = [task EXCEPT ![t] = r]
  BY <1>2 DEF GoesTo
<1>5. QED
  BY <1>3, <1>4

\* A handler that gives up lets go of everything.
LEMMA RefusedMoves ==
    ASSUME TypeOK, NEW t \in Thread, Refused(t)
    PROVE  Moves(t, Idle)
<1>1. /\ owner' = IF owner = t THEN Nobody ELSE owner
      /\ readers' = readers \ {t} /\ task' = [task EXCEPT ![t] = Idle]
  BY DEF Refused, DropsKeys, Ends
<1>2. QED
  BY <1>1, IdleFields DEF Moves
-----------------------------------------------------------------------------
(* Steps that are not about a rotation.                                     *)

\* A step of t that neither starts nor carries on a rotation: it may go on with
\* the successor it has, or give up.
Quiet(t, r) ==
    /\ Moves(t, r)
    /\ mem' = mem /\ mem # Down /\ sealed' = sealed /\ minted' = minted
    /\ wrap' \in Seq(Nat) /\ accepted' \in 0..MaxRequests /\ restarts' \in 0..MaxRestarts
    /\ r.at \notin {"rekey_with", "adopt", "waiting"}
    /\ task[t].at \notin {"adopt", "waiting"}
    /\ r.at = "keys" => r.req \in KeysFirst
    /\ r.at \in {"keys", "store"} /\ r.req = "rekey" =>
          HasSuccessor(t) /\ r.successor = task[t].successor
    /\ log' \in Seq(Row) /\ log' # <<>> /\ log'[1] = log[1]

\* Such a step keeps the invariant.
LEMMA QuietInv ==
    ASSUME IInv, NEW t \in Thread, NEW r, Quiet(t, r)
    PROVE  IInv'
<1>1. /\ task'[t] = r /\ \A u \in Thread : u # t => task'[u] = task[u]
  BY MoveTasks DEF IInv, Quiet
<1>2. /\ mem' = mem /\ mem # Down /\ sealed' = sealed /\ minted' = minted
      /\ r.at \notin {"rekey_with", "adopt", "waiting"}
      /\ task[t].at \notin {"adopt", "waiting"}
      /\ r.at = "keys" => r.req \in KeysFirst
      /\ r.at \in {"keys", "store"} /\ r.req = "rekey" =>
            HasSuccessor(t) /\ r.successor = task[t].successor
      /\ log' \in Seq(Row) /\ log' # <<>> /\ log'[1] = log[1]
  BY DEF Quiet
<1>3. TypeOK'
  <2>1. /\ Moves(t, r) /\ wrap' \in Seq(Nat)
        /\ accepted' \in 0..MaxRequests /\ restarts' \in 0..MaxRestarts
    BY DEF Quiet
  <2>2. mem \in MasterKey \cup {Down} /\ sealed \in MasterKey /\ minted \in Nat
    BY DEF IInv, TypeOK
  <2>3. QED
    BY <1>2, <2>1, <2>2, MoveType DEF IInv
<1>4. \A u \in Thread : Rotating(u)' => Rotating(u) /\ u # t /\ task'[u] = task[u]
  BY <1>1, <1>2 DEF Rotating, At
<1>5. \A u \in Thread : Adopting(u) => Adopting(u)'
  BY <1>1, <1>2 DEF Adopting, At
<1>6. \A u \in Thread : HasSuccessor(u)' =>
          HasSuccessor(u) /\ Successor(u)' = Successor(u)
  BY <1>1, <1>2 DEF HasSuccessor, Successor, At
<1>7. Places'
  <2>1. ASSUME NEW u \in Thread
        PROVE  /\ At(u)' = "keys" => task'[u].req \in KeysFirst
               /\ Rotating(u)' => task'[u].req = "rekey"
    BY <1>1, <1>2, <1>4 DEF IInv, Places, At
  <2>2. QED
    BY <1>2, <2>1 DEF Places
<1>8. Keys'
  BY <1>2, <1>6 DEF IInv, Keys
<1>9. OneRotation'
  <2> SUFFICES ASSUME NEW u \in Thread, Rotating(u)'
               PROVE  /\ \A v \in Thread : Rotating(v)' => v = u
                      /\ log'[1].hash[1] = <<Successor(u)'.key, Entry>>
                      /\ Successor(u)'.generation = mem'.generation + 1
                      /\ At(u)' = "rekey_with" => mem' = sealed'
                      /\ Adopting(u)' => Successor(u)' = sealed'
    BY DEF OneRotation
  <2>1. /\ Rotating(u) /\ Successor(u)' = Successor(u) /\ At(u)' = At(u)
        /\ Adopting(u)' = Adopting(u)
    BY <1>4 DEF Successor, At, Adopting
  <2>2. QED
    BY <1>2, <1>4, <2>1 DEF IInv, OneRotation
<1>10. Agreement'
  BY <1>2, <1>5 DEF IInv, Agreement
<1>11. Logs'
  BY <1>2 DEF Logs
<1>12. QED
  BY <1>3, <1>7, <1>8, <1>9, <1>10, <1>11 DEF IInv

\* A thread with a request runs in a daemon that is up.
LEMMA Busy ==
    ASSUME IInv, NEW t \in Thread, At(t) # "idle"
    PROVE  mem # Down /\ mem \in MasterKey /\ mem.key \in Nat /\ mem.generation \in 0..MaxGeneration
<1>1. mem # Down
  BY IdleFields DEF IInv, Places, At
<1>2. mem \in MasterKey
  BY <1>1 DEF IInv, TypeOK
<1>3. QED
  BY <1>1, <1>2 DEF MasterKey

\* What is left as it is by a step that does not touch the disk.
LEMMA Rest ==
    ASSUME IInv
    PROVE  /\ wrap \in Seq(Nat) /\ accepted \in 0..MaxRequests /\ restarts \in 0..MaxRestarts
           /\ log \in Seq(Row) /\ log # <<>>
  BY DEF IInv, TypeOK, Logs

\* The tail of the chain is a hash.
LEMMA TailTyped ==
    ASSUME NEW l \in Seq(Row)
    PROVE  TailHash(l) \in Hash
<1>1. CASE l = <<>>
  BY <1>1 DEF TailHash, Genesis, Hash
<1>2. CASE l # <<>>
  <2>1. Len(l) \in 1..Len(l)
    BY <1>2, EmptySeq
  <2>2. l[Len(l)] \in Row
    BY <2>1
  <2>3. l[Len(l)].hash \in Hash
    BY <2>2 DEF Row
  <2>4. QED
    BY <1>2, <2>3 DEF TailHash
<1>3. QED
  BY <1>1, <1>2

\* An entry is appended: the first row stays.
LEMMA AppendsRows ==
    ASSUME NEW l \in Seq(Row), NEW k \in Nat, NEW new, new = Extended(l, Len(l) + 1, k, Entry)
    PROVE  /\ new \in Seq(Row) /\ new # <<>>
           /\ l # <<>> => new[1] = l[1]
<1>1. PICK row : row = [seq |-> Len(l) + 1, entry |-> Entry, prev |-> TailHash(l),
                        hash |-> Append(TailHash(l), <<k, Entry>>)]
  OBVIOUS
<1>2. TailHash(l) \in Hash /\ Append(TailHash(l), <<k, Entry>>) \in Hash
  BY TailTyped DEF Hash
<1>3. row \in Row
  <2>1. Len(l) + 1 \in Nat /\ Entry \in {Entry}
    OBVIOUS
  <2>2. QED
    BY <1>1, <1>2, <2>1 DEF Row
<1>4. new = Append(l, row)
  BY <1>1 DEF Extended, compute_entry_hash
<1>5. QED
  BY <1>3, <1>4, EmptySeq

\* A client sends a request.
LEMMA AcceptInv ==
    ASSUME IInv, NEW t \in Thread, NEW q \in Requests, accept(t, q)
    PROVE  IInv'
<1>1. PICK r : r = [at |-> "gate", req |-> q, successor |-> Master(NoKey, 0)]
  OBVIOUS
<1>2. r \in Task /\ r.at = "gate"
  <2>1. Master(NoKey, 0) \in MasterKey
    BY DaemonBoundsAssumption DEF Master, NoKey, MasterKey
  <2>2. "gate" \in Place /\ q \in RequestKind \cup {"none"}
    BY RequestsAssumption DEF Place
  <2>3. QED
    BY <1>1, <2>1, <2>2 DEF Task
<1>3. /\ mem # Down /\ At(t) = "idle" /\ accepted < MaxRequests
      /\ task' = [task EXCEPT ![t] = r]
      /\ accepted' = accepted + 1 /\ mem' = mem /\ sealed' = sealed /\ wrap' = wrap
      /\ log' = log /\ readers' = readers /\ owner' = owner /\ minted' = minted
      /\ restarts' = restarts
  BY <1>1 DEF accept, disk, locks
<1>4. t \notin readers /\ owner # t
  BY <1>3 DEF IInv, TypeOK
<1>5. ~Reads(r) /\ ~Owns(r)
  BY <1>2 DEF Reads, Owns
<1>6. Moves(t, r)
  BY <1>2, <1>3, <1>4, <1>5 DEF Moves
<1>7. accepted' \in 0..MaxRequests
  BY <1>3, DaemonBoundsAssumption DEF IInv, TypeOK
<1>8. Quiet(t, r)
  BY <1>2, <1>3, <1>6, <1>7, Rest DEF Quiet, At
<1>9. QED
  BY <1>8, QuietInv

\* The gate lets a request through or sends it to record its denial; a rotation
\* gets a key nobody has.
LEMMA GateInv ==
    ASSUME IInv, NEW t \in Thread, gate(t)
    PROVE  IInv'
<1>1. /\ At(t) = "gate" /\ mem' = mem /\ sealed' = sealed /\ wrap' = wrap /\ log' = log
      /\ readers' = readers /\ owner' = owner /\ accepted' = accepted /\ restarts' = restarts
  BY DEF gate, disk, locks
<1>2. mem # Down
  BY <1>1, Busy
<1>3. t \notin readers /\ owner # t
  BY <1>1 DEF IInv, TypeOK
<1>4. CASE task[t].req # "rekey" /\ minted' = minted
           /\ GoesTo(t, IF task[t].req \in KeysFirst THEN "keys" ELSE "store")
  <2> DEFINE place == IF task[t].req \in KeysFirst THEN "keys" ELSE "store"
  <2>1. place \in Place
    BY DEF Place
  <2>2. PICK r \in Task : /\ r.at = place /\ r.req = task[t].req
                          /\ task' = [task EXCEPT ![t] = r]
    BY <1>4, <2>1, Going DEF IInv
  <2>3. ~Reads(r) /\ ~Owns(r)
    BY <2>2 DEF Reads, Owns
  <2>4. Moves(t, r)
    BY <1>1, <1>3, <2>2, <2>3 DEF Moves
  <2>5. Quiet(t, r)
    BY <1>1, <1>2, <1>4, <2>2, <2>4, Rest DEF Quiet, At
  <2>6. QED
    BY <2>5, QuietInv
<1>5. CASE minted' = minted /\ GoesTo(t, "record")
  <2>1. "record" \in Place
    BY DEF Place
  <2>2. PICK r \in Task : r.at = "record" /\ task' = [task EXCEPT ![t] = r]
    BY <1>5, <2>1, Going DEF IInv
  <2>3. ~Reads(r) /\ ~Owns(r)
    BY <2>2 DEF Reads, Owns
  <2>4. Moves(t, r)
    BY <1>1, <1>3, <2>2, <2>3 DEF Moves
  <2>5. Quiet(t, r)
    BY <1>1, <1>2, <1>5, <2>2, <2>4, Rest DEF Quiet, At
  <2>6. QED
    BY <2>5, QuietInv
<1>6. CASE /\ task[t].req = "rekey" /\ minted' = minted + 1
           /\ task' = [task EXCEPT ![t].at = "keys",
                                   ![t].successor = Master(minted + 1, 0)]
  <2>1. minted \in Nat
    BY DEF IInv, TypeOK
  <2>2. PICK m \in Nat \ {0} : m = minted + 1
    BY <2>1
  <2>3. PICK s : s = Master(m, 0)
    OBVIOUS
  <2>4. s \in MasterKey /\ s.key = m
    BY <2>2, <2>3, DaemonBoundsAssumption DEF Master, MasterKey
  <2>5. PICK r : r = [task[t] EXCEPT !.at = "keys", !.successor = s]
    OBVIOUS
  <2>6. task[t] \in Task /\ "keys" \in Place
    BY TaskFields DEF IInv, Place
  <2>7. r \in Task /\ r.at = "keys" /\ r.req = task[t].req /\ r.successor = s
    BY <2>4, <2>5, <2>6 DEF Task
  <2>8. task' = [task EXCEPT ![t] = r]
    BY <1>6, <2>2, <2>3, <2>5
  <2>9. ~Reads(r) /\ ~Owns(r)
    BY <2>7 DEF Reads, Owns
  <2>10. Moves(t, r)
    BY <1>1, <1>3, <2>7, <2>8, <2>9 DEF Moves
  <2>11. /\ task'[t] = r /\ \A u \in Thread : u # t => task'[u] = task[u]
    BY <2>10, MoveTasks DEF IInv
  <2>12. TypeOK'
    <3>1. mem' \in MasterKey \cup {Down} /\ sealed' \in MasterKey /\ minted' \in Nat
      BY <1>1, <1>6, <2>1 DEF IInv, TypeOK
    <3>2. QED
      BY <1>1, <2>10, <3>1, Rest, MoveType DEF IInv
  <2>13. Places'
    BY <1>1, <1>2, <1>6, <2>7, <2>11 DEF IInv, Places, At, Rotating, KeysFirst
  <2>14. \A u \in Thread : u # t => /\ HasSuccessor(u)' <=> HasSuccessor(u)
                                    /\ Successor(u)' = Successor(u)
    BY <2>11 DEF HasSuccessor, Successor, At
  <2>15. Successor(t)'.key = minted + 1
    BY <2>2, <2>4, <2>7, <2>11 DEF Successor
  <2>16. \A x \in 1..minted : x # minted + 1 /\ x \in 1..(minted + 1)
    BY <2>1
  <2>17. minted + 1 \in 1..(minted + 1)
    BY <2>1
  <2>18. Keys'
    <3>1. sealed'.key \in 1..minted'
      BY <1>1, <1>6, <2>16 DEF IInv, Keys
    <3>2. mem'.key \in 1..minted'
      BY <1>1, <1>2, <1>6, <2>16 DEF IInv, Keys
    <3>3. ASSUME NEW u \in Thread, HasSuccessor(u)'
          PROVE  /\ Successor(u)'.key \in 1..minted'
                 /\ Successor(u)'.key # mem'.key
                 /\ \A v \in Thread : HasSuccessor(v)' /\ v # u =>
                       Successor(v)'.key # Successor(u)'.key
      <4>1. CASE u = t
        BY <1>1, <1>2, <1>6, <2>14, <2>15, <2>16, <2>17, <4>1 DEF IInv, Keys
      <4>2. CASE u # t
        BY <1>1, <1>2, <1>6, <2>14, <2>15, <2>16, <2>17, <3>3, <4>2 DEF IInv, Keys
      <4>3. QED
        BY <4>1, <4>2
    <3>4. QED
      BY <3>1, <3>2, <3>3 DEF Keys
  <2>19. \A u \in Thread : /\ Rotating(u)' <=> Rotating(u)
                           /\ Adopting(u)' <=> Adopting(u)
                           /\ Rotating(u) => u # t
    BY <1>1, <2>7, <2>11 DEF Rotating, Adopting, At
  <2>20. OneRotation'
    BY <1>1, <2>11, <2>14, <2>19 DEF IInv, OneRotation, At
  <2>21. Agreement' /\ Logs'
    BY <1>1, <2>19 DEF IInv, Agreement, Logs
  <2>22. QED
    BY <2>12, <2>13, <2>18, <2>20, <2>21 DEF IInv
<1>7. QED
  BY <1>4, <1>5, <1>6 DEF gate

\* A handler takes the read lock on the keys.
LEMMA KeysInv ==
    ASSUME IInv, NEW t \in Thread, keys(t)
    PROVE  IInv'
<1>1. /\ At(t) \in {"keys", "record"} /\ mem' = mem /\ sealed' = sealed /\ wrap' = wrap
      /\ log' = log /\ readers' = readers \cup {t} /\ owner' = owner
      /\ accepted' = accepted /\ restarts' = restarts /\ minted' = minted
  BY DEF keys, disk, counters
<1>2. mem # Down /\ owner # t
  BY <1>1, Busy DEF IInv, TypeOK
<1> DEFINE place == IF At(t) = "keys" THEN "store" ELSE "append"
<1>3. place \in Place /\ GoesTo(t, place)
  BY DEF Place, keys
<1>4. PICK r \in Task : /\ r.at = place /\ r.req = task[t].req
                        /\ r.successor = task[t].successor
                        /\ task' = [task EXCEPT ![t] = r]
  BY <1>3, Going DEF IInv
<1>5. Reads(r) /\ ~Owns(r)
  BY <1>1, <1>4 DEF Reads, Owns, IInv, Places
<1>6. Moves(t, r)
  BY <1>1, <1>2, <1>4, <1>5 DEF Moves
<1>7. r.at \in {"keys", "store"} /\ r.req = "rekey" => HasSuccessor(t)
  BY <1>1, <1>4 DEF HasSuccessor
<1>8. Quiet(t, r)
  BY <1>1, <1>2, <1>4, <1>6, <1>7, Rest DEF Quiet, At
<1>9. QED
  BY <1>8, QuietInv

\* The end of a handler: the request is audited.
LEMMA AppendInv ==
    ASSUME IInv, NEW t \in Thread, append(t)
    PROVE  IInv'
<1>1. /\ At(t) = "append" /\ mem' = mem /\ sealed' = sealed /\ wrap' = wrap
      /\ log' = Extended(log, Len(log) + 1, mem.key, Entry)
      /\ readers' = readers \ {t} /\ owner' = owner /\ task' = [task EXCEPT ![t] = Idle]
      /\ accepted' = accepted /\ restarts' = restarts /\ minted' = minted
  BY DEF append, Appends, DropsKeys, Ends, counters
<1>2. mem # Down /\ mem.key \in Nat /\ owner # t
  BY <1>1, Busy DEF IInv, TypeOK
<1>3. log' \in Seq(Row) /\ log' # <<>> /\ log'[1] = log[1]
  BY <1>1, <1>2, Rest, AppendsRows
<1>4. Moves(t, Idle)
  BY <1>1, <1>2, IdleFields DEF Moves
<1>5. Quiet(t, Idle)
  BY <1>1, <1>2, <1>3, <1>4, Rest, IdleFields DEF Quiet, At
<1>6. QED
  BY <1>5, QuietInv

\* A read, a write or a verification lets go of the keys and ends or goes on to
\* record itself.
LEMMA KeysDropped ==
    ASSUME IInv, NEW t \in Thread, At(t) = "store", DropsKeys(t),
           Ends(t) \/ GoesTo(t, "record"),
           mem' = mem, sealed' = sealed, log' = log, owner' = owner, wrap' \in Seq(Nat),
           accepted' = accepted, restarts' = restarts, minted' = minted
    PROVE  IInv'
<1>1. mem # Down /\ owner # t
  BY Busy DEF IInv, TypeOK
<1>2. "record" \in Place
  BY DEF Place
<1>3. PICK r \in Task : r.at \in {"idle", "record"} /\ task' = [task EXCEPT ![t] = r]
  <2>1. CASE Ends(t)
    BY <2>1, IdleFields DEF Ends
  <2>2. CASE GoesTo(t, "record")
    BY <1>2, <2>2, Going DEF IInv
  <2>3. QED
    BY <2>1, <2>2
<1>4. ~Reads(r) /\ ~Owns(r)
  BY <1>3 DEF Reads, Owns
<1>5. Moves(t, r)
  BY <1>1, <1>3, <1>4 DEF Moves, DropsKeys
<1>6. Quiet(t, r)
  BY <1>1, <1>3, <1>5, Rest DEF Quiet, At
<1>7. QED
  BY <1>6, QuietInv

\* The handlers that hold no more than a read lock on the keys.
LEMMA HandlersInv ==
    ASSUME IInv, NEW t \in Thread, read(t) \/ write(t) \/ delete(t) \/ audit_verify(t)
    PROVE  IInv'
<1>1. CASE read(t)
  BY <1>1, KeysDropped, Rest DEF read, Serving, disk, counters
<1>2. CASE write(t)
  <2>1. At(t) = "store"
    BY <1>2 DEF write, Serving
  <2>2. mem.key \in Nat
    BY <2>1, Busy
  <2>3. wrap' \in Seq(Nat)
    BY <1>2, <2>2, Rest DEF write
  <2>4. QED
    BY <1>2, <2>1, <2>3, KeysDropped DEF write, counters
<1>3. CASE delete(t)
  <2>1. /\ At(t) = "store" /\ task[t].req = "delete" /\ readers' = readers
        /\ Ends(t) \/ GoesTo(t, "record")
        /\ mem' = mem /\ sealed' = sealed /\ log' = log /\ owner' = owner
        /\ accepted' = accepted /\ restarts' = restarts /\ minted' = minted
    BY <1>3 DEF delete, Serving, locks, counters
  <2>2. t \notin readers
    BY <2>1 DEF IInv, TypeOK, KeysFirst
  <2>3. DropsKeys(t)
    BY <2>1, <2>2 DEF DropsKeys
  <2>4. wrap' \in Seq(Nat)
    BY <1>3, Rest DEF delete, NoKey
  <2>5. QED
    BY <2>1, <2>3, <2>4, KeysDropped
<1>4. CASE audit_verify(t)
  BY <1>4, KeysDropped, Rest DEF audit_verify, Serving, disk, counters
<1>5. QED
  BY <1>1, <1>2, <1>3, <1>4

\* status takes the store, then looks at the keys.
LEMMA StatusInv ==
    ASSUME IInv, NEW t \in Thread, status_store(t) \/ status(t)
    PROVE  IInv'
<1>1. CASE status_store(t)
  <2>1. /\ At(t) = "store" /\ task[t].req = "status" /\ owner = Nobody
        /\ mem' = mem /\ sealed' = sealed /\ log' = log /\ wrap' = wrap /\ owner' = t
        /\ readers' = readers /\ GoesTo(t, "status")
        /\ accepted' = accepted /\ restarts' = restarts /\ minted' = minted
    BY <1>1 DEF status_store, Serving, StoreFree, disk, counters
  <2>2. mem # Down /\ t \notin readers /\ "status" \in Place
    BY <2>1, Busy DEF IInv, TypeOK, KeysFirst, Place
  <2>3. PICK r \in Task : r.at = "status" /\ task' = [task EXCEPT ![t] = r]
    BY <2>1, <2>2, Going DEF IInv
  <2>4. ~Reads(r) /\ Owns(r)
    BY <2>3 DEF Reads, Owns
  <2>5. Moves(t, r)
    BY <2>1, <2>2, <2>3, <2>4 DEF Moves
  <2>6. Quiet(t, r)
    BY <2>1, <2>2, <2>3, <2>5, Rest DEF Quiet, At
  <2>7. QED
    BY <2>6, QuietInv
<1>2. CASE status(t)
  <2>1. /\ At(t) = "status" /\ mem' = mem /\ sealed' = sealed /\ log' = log /\ wrap' = wrap
        /\ owner' = Nobody /\ readers' = readers /\ task' = [task EXCEPT ![t] = Idle]
        /\ accepted' = accepted /\ restarts' = restarts /\ minted' = minted
    BY <1>2 DEF status, disk, counters, Ends
  <2>2. mem # Down /\ t \notin readers /\ owner = t
    BY <2>1, Busy DEF IInv, TypeOK
  <2>3. Moves(t, Idle)
    BY <2>1, <2>2, IdleFields DEF Moves
  <2>4. Quiet(t, Idle)
    BY <2>1, <2>2, <2>3, Rest, IdleFields DEF Quiet, At
  <2>5. QED
    BY <2>4, QuietInv
<1>3. QED
  BY <1>1, <1>2

\* A handler gives up before its key is on disk.
LEMMA RefusedInv ==
    ASSUME IInv, NEW t \in Thread, Refused(t), At(t) \in {"store", "rekey_with", "append"}
    PROVE  IInv'
<1>1. /\ mem' = mem /\ sealed' = sealed /\ log' = log /\ wrap' = wrap
      /\ accepted' = accepted /\ restarts' = restarts /\ minted' = minted
  BY DEF Refused, disk, counters
<1>2. mem # Down
  BY Busy
<1>3. Moves(t, Idle)
  BY RefusedMoves DEF IInv
<1>4. Quiet(t, Idle)
  BY <1>1, <1>2, <1>3, Rest, IdleFields DEF Quiet, At
<1>5. QED
  BY <1>4, QuietInv

-----------------------------------------------------------------------------
(* Rotation.                                                                *)

\* A re-keyed chain stands under the new key from its first row on.
LEMMA RekeyedTyped ==
    ASSUME NEW l \in Seq(Row), NEW k \in Nat, l # <<>>
    PROVE  /\ Rekeyed(l, k) \in Seq(Row) /\ Rekeyed(l, k) # <<>>
           /\ Rekeyed(l, k)[1].hash[1] = <<k, Entry>>
<1>1. \A i \in 1..Len(l) : l[i].seq \in Nat /\ l[i].entry = Entry
  <2> SUFFICES ASSUME NEW i \in 1..Len(l) PROVE l[i].seq \in Nat /\ l[i].entry = Entry
    OBVIOUS
  <2>1. l[i] \in Row
    OBVIOUS
  <2>2. QED
    BY <2>1 DEF Row
<1>2. \A i \in 0..Len(l) : Chain(l, k, i) \in Hash
  <2> SUFFICES ASSUME NEW i \in 0..Len(l) PROVE Chain(l, k, i) \in Hash
    OBVIOUS
  <2>1. i \in Nat /\ \A j \in 1..i : <<k, l[j].entry>> \in Nat \X {Entry}
    BY <1>1
  <2>2. QED
    BY <2>1 DEF Chain, Hash
<1>3. Rekeyed(l, k) = [i \in 1..Len(l) |-> [seq |-> l[i].seq, entry |-> l[i].entry,
                           prev |-> Chain(l, k, i - 1), hash |-> Chain(l, k, i)]]
  BY Zenon DEF Rekeyed, Chain
<1>4. ASSUME NEW i \in 1..Len(l)
      PROVE  [seq |-> l[i].seq, entry |-> l[i].entry,
              prev |-> Chain(l, k, i - 1), hash |-> Chain(l, k, i)] \in Row
  <2>1. i - 1 \in 0..Len(l) /\ i \in 0..Len(l)
    OBVIOUS
  <2>2. /\ l[i].seq \in Nat /\ l[i].entry \in {Entry}
        /\ Chain(l, k, i - 1) \in Hash /\ Chain(l, k, i) \in Hash
    BY <1>1, <1>2, <2>1
  <2>3. QED
    BY <2>2 DEF Row
<1>5. \A i \in 1..Len(l) : Rekeyed(l, k)[i] \in Row
  BY <1>3, <1>4
<1>6. Len(l) \in Nat \ {0}
  BY EmptySeq
<1>7. Rekeyed(l, k) \in Seq(Row)
  BY <1>3, <1>5, <1>6
<1>8. 1 \in 1..Len(l) /\ Len(Rekeyed(l, k)) = Len(l)
  BY <1>6, RekeyedRows
<1>9. Rekeyed(l, k)[1].hash = Chain(l, k, 1)
  BY <1>8, RekeyedRows
<1>10. Chain(l, k, 1)[1] = <<k, Entry>>
  BY <1>1, <1>8 DEF Chain
<1>11. QED
  BY <1>6, <1>7, <1>8, <1>9, <1>10

\* While the chain verifies under the key in memory, no rotation is on its way.
LEMMA NoneRotating ==
    ASSUME IInv, mem # Down, verify(log, anchor, mem.key) = "valid"
    PROVE  \A u \in Thread : ~Rotating(u)
<1> SUFFICES ASSUME NEW u \in Thread, Rotating(u) PROVE FALSE
  OBVIOUS
<1>1. log \in Seq(Row) /\ 1 \in 1..Len(log)
  BY EmptySeq DEF IInv, Logs
<1>2. log[1].hash[1] = <<mem.key, log[1].entry>>
  BY <1>1, ValidMeansSound
<1>3. log[1].hash[1] = <<Successor(u).key, Entry>>
  BY DEF IInv, OneRotation
<1>4. Successor(u).key = mem.key
  BY <1>2, <1>3
<1>5. HasSuccessor(u)
  BY DEF IInv, Places, Rotating, HasSuccessor
<1>6. QED
  BY <1>4, <1>5 DEF IInv, Keys

\* The first transaction of a rotation.
LEMMA RekeyChainInv ==
    ASSUME IInv, NEW t \in Thread, rekey_chain(t)
    PROVE  IInv'
<1>1. /\ At(t) = "store" /\ task[t].req = "rekey" /\ owner = Nobody
      /\ mem.generation < MaxGeneration /\ verify(log, anchor, mem.key) = "valid"
      /\ log' = Rekeyed(log, task[t].successor.key) /\ owner' = t
      /\ mem' = mem /\ sealed' = sealed /\ wrap' = wrap /\ readers' = readers
      /\ accepted' = accepted /\ restarts' = restarts /\ minted' = minted
  BY DEF rekey_chain, Serving, StoreFree, counters
<1>2. mem # Down /\ mem.generation \in 0..MaxGeneration
  BY <1>1, Busy
<1>3. \A u \in Thread : ~Rotating(u)
  BY <1>1, <1>2, NoneRotating
<1>4. mem = sealed
  BY <1>2, <1>3 DEF IInv, Agreement, Rotating, Adopting
<1>5. HasSuccessor(t)
  BY <1>1 DEF HasSuccessor
<1>6. task[t] \in Task /\ task[t].successor \in MasterKey /\ task[t].successor.key \in Nat
  BY TaskFields DEF IInv
<1>7. PICK g \in 0..MaxGeneration : g = mem.generation + 1
  BY <1>1, <1>2, DaemonBoundsAssumption
<1>8. PICK s : s = [task[t].successor EXCEPT !.generation = g]
  OBVIOUS
<1>9. s \in MasterKey /\ s.key = task[t].successor.key /\ s.generation = g
  BY <1>6, <1>8 DEF MasterKey
<1>10. PICK r : r = [task[t] EXCEPT !.at = "rekey_with", !.successor = s]
  OBVIOUS
<1>11. r \in Task /\ r.at = "rekey_with" /\ r.req = task[t].req /\ r.successor = s
  BY <1>6, <1>9, <1>10 DEF Task, Place
<1>12. task' = [task EXCEPT ![t] = r]
  <2>1. task' = [task EXCEPT ![t].at = "rekey_with",
                             ![t].successor.generation = mem.generation + 1]
    BY DEF rekey_chain
  <2>2. QED
    BY <1>6, <1>7, <1>8, <1>10, <2>1 DEF Task
<1>13. Reads(r) /\ Owns(r) /\ t \in readers
  BY <1>1, <1>11 DEF Reads, Owns, IInv, TypeOK, KeysFirst
<1>14. Moves(t, r)
  BY <1>1, <1>11, <1>12, <1>13 DEF Moves
<1>15. /\ task'[t] = r /\ \A u \in Thread : u # t => task'[u] = task[u]
  BY <1>14, MoveTasks DEF IInv
<1>16. TypeOK'
  <2>1. mem' \in MasterKey \cup {Down} /\ sealed' \in MasterKey /\ minted' \in Nat
    BY <1>1 DEF IInv, TypeOK
  <2>2. QED
    BY <1>1, <1>14, <2>1, Rest, MoveType DEF IInv
<1>17. /\ log' \in Seq(Row) /\ log' # <<>>
       /\ log'[1].hash[1] = <<task[t].successor.key, Entry>>
  BY <1>1, <1>6, RekeyedTyped DEF IInv, Logs
<1>18. \A u \in Thread : Rotating(u)' => u = t
  BY <1>3, <1>15 DEF Rotating, At
<1>19. \A u \in Thread : HasSuccessor(u)' => HasSuccessor(u) /\ Successor(u)'.key = Successor(u).key
  BY <1>5, <1>9, <1>11, <1>15 DEF HasSuccessor, Successor, At
<1>20. Places'
  BY <1>1, <1>2, <1>11, <1>15, <1>18 DEF IInv, Places, At
<1>21. Keys'
  BY <1>1, <1>19 DEF IInv, Keys
<1>22. OneRotation'
  <2>1. /\ Successor(t)'.key = task[t].successor.key /\ Successor(t)'.generation = g
        /\ At(t)' = "rekey_with"
    BY <1>9, <1>11, <1>15 DEF Successor, At
  <2>2. ~Adopting(t)'
    BY <2>1 DEF Adopting
  <2>3. QED
    BY <1>1, <1>4, <1>7, <1>17, <1>18, <2>1, <2>2 DEF OneRotation
<1>23. Agreement' /\ Logs'
  BY <1>1, <1>4, <1>17 DEF Agreement, Logs
<1>24. QED
  BY <1>16, <1>20, <1>21, <1>22, <1>23 DEF IInv

\* The rotation moves on: its second transaction, the wait for the keys.
LEMMA RotationMoves ==
    ASSUME IInv, NEW t \in Thread, Rotating(t), NEW place \in {"adopt", "waiting"},
           GoesTo(t, place), DropsKeys(t),
           owner' = IF owner = t THEN Nobody ELSE owner,
           mem' = mem, sealed' = Successor(t), wrap' \in Seq(Nat), log' = log,
           accepted' = accepted, restarts' = restarts, minted' = minted
    PROVE  IInv'
<1>1. place \in Place
  BY DEF Place
<1>2. PICK r \in Task : /\ r.at = place /\ r.req = task[t].req
                        /\ r.successor = task[t].successor
                        /\ task' = [task EXCEPT ![t] = r]
  BY <1>1, Going DEF IInv
<1>3. ~Reads(r) /\ ~Owns(r)
  BY <1>2 DEF Reads, Owns
<1>4. Moves(t, r)
  BY <1>2, <1>3 DEF Moves, DropsKeys
<1>5. /\ task'[t] = r /\ \A u \in Thread : u # t => task'[u] = task[u]
  BY <1>4, MoveTasks DEF IInv
<1>6. mem # Down
  BY Busy DEF Rotating
<1>7. TypeOK'
  <2>1. mem' \in MasterKey \cup {Down} /\ sealed' \in MasterKey /\ minted' \in Nat
    BY TaskFields DEF IInv, TypeOK, Successor
  <2>2. QED
    BY <1>4, <2>1, Rest, MoveType DEF IInv
<1>8. HasSuccessor(t) /\ Adopting(t)' /\ Rotating(t)' /\ At(t)' = place
  BY <1>2, <1>5 DEF IInv, Places, Rotating, HasSuccessor, Adopting, At
<1>9. \A u \in Thread : /\ HasSuccessor(u)' => HasSuccessor(u)
                        /\ Successor(u)' = Successor(u)
                        /\ Rotating(u)' <=> Rotating(u)
  BY <1>2, <1>5, <1>8 DEF HasSuccessor, Successor, At, Rotating
<1>10. Places'
  BY <1>2, <1>5, <1>6, <1>9 DEF IInv, Places, At
<1>11. Keys'
  BY <1>8, <1>9 DEF IInv, Keys
<1>12. OneRotation'
  <2> SUFFICES ASSUME NEW u \in Thread, Rotating(u)'
               PROVE  /\ \A v \in Thread : Rotating(v)' => v = u
                      /\ log'[1].hash[1] = <<Successor(u)'.key, Entry>>
                      /\ Successor(u)'.generation = mem'.generation + 1
                      /\ At(u)' = "rekey_with" => mem' = sealed'
                      /\ Adopting(u)' => Successor(u)' = sealed'
    BY DEF OneRotation
  <2>1. u = t
    BY <1>9 DEF IInv, OneRotation
  <2>2. QED
    BY <1>8, <1>9, <2>1 DEF IInv, OneRotation
<1>13. Agreement' /\ Logs'
  BY <1>8 DEF IInv, Agreement, Logs
<1>14. QED
  BY <1>7, <1>10, <1>11, <1>12, <1>13 DEF IInv

\* The second transaction.
LEMMA RekeyWithInv ==
    ASSUME IInv, NEW t \in Thread, rekey_with(t)
    PROVE  IInv'
<1>1. /\ At(t) = "rekey_with" /\ wrap' = Rewrapped(task[t].successor.key)
      /\ sealed' = task[t].successor /\ owner' = Nobody /\ DropsKeys(t) /\ GoesTo(t, "adopt")
      /\ mem' = mem /\ log' = log
      /\ accepted' = accepted /\ restarts' = restarts /\ minted' = minted
  BY DEF rekey_with, counters
<1>2. owner = t
  BY <1>1 DEF IInv, TypeOK
<1>3. wrap' \in Seq(Nat)
  BY <1>1, TaskFields, Rest DEF IInv, Rewrapped, NoKey
<1>4. Rotating(t)
  BY <1>1 DEF Rotating
<1>5. QED
  BY <1>1, <1>2, <1>3, <1>4, RotationMoves DEF Successor

\* The rotation waits for the readers to leave.
LEMMA AwaitInv ==
    ASSUME IInv, NEW t \in Thread, await_keys(t)
    PROVE  IInv'
<1>1. /\ At(t) = "adopt" /\ GoesTo(t, "waiting") /\ readers' = readers /\ owner' = owner
      /\ mem' = mem /\ sealed' = sealed /\ wrap' = wrap /\ log' = log
      /\ accepted' = accepted /\ restarts' = restarts /\ minted' = minted
  BY DEF await_keys, disk, locks, counters
<1>2. t \notin readers /\ owner # t
  BY <1>1 DEF IInv, TypeOK
<1>3. Rotating(t) /\ sealed = Successor(t)
  BY <1>1 DEF IInv, Rotating, OneRotation, Adopting
<1>4. DropsKeys(t)
  BY <1>1, <1>2 DEF DropsKeys
<1>5. QED
  BY <1>1, <1>2, <1>3, <1>4, RotationMoves, Rest

\* The key on disk becomes the key in memory.
LEMMA AdoptInv ==
    ASSUME IInv, NEW t \in Thread, adopt_rotated_key(t)
    PROVE  IInv' /\ mem' = sealed
<1>1. /\ At(t) = "waiting" /\ GoesTo(t, "record") /\ readers' = readers /\ owner' = owner
      /\ mem' = task[t].successor /\ sealed' = sealed /\ wrap' = wrap /\ log' = log
      /\ accepted' = accepted /\ restarts' = restarts /\ minted' = minted
  BY DEF adopt_rotated_key, disk, locks, counters
<1>2. t \notin readers /\ owner # t /\ "record" \in Place
  BY <1>1 DEF IInv, TypeOK, Place
<1>3. PICK r \in Task : r.at = "record" /\ task' = [task EXCEPT ![t] = r]
  BY <1>1, <1>2, Going DEF IInv
<1>4. ~Reads(r) /\ ~Owns(r)
  BY <1>3 DEF Reads, Owns
<1>5. Moves(t, r)
  BY <1>1, <1>2, <1>3, <1>4 DEF Moves
<1>6. /\ task'[t] = r /\ \A u \in Thread : u # t => task'[u] = task[u]
  BY <1>5, MoveTasks DEF IInv
<1>7. Rotating(t) /\ sealed = Successor(t) /\ mem' = sealed /\ HasSuccessor(t)
  BY <1>1 DEF IInv, Rotating, OneRotation, Adopting, Successor, HasSuccessor, Places
<1>8. TypeOK' /\ mem' \in MasterKey
  <2>1. mem' \in MasterKey /\ sealed' \in MasterKey /\ minted' \in Nat
    BY <1>1, <1>7 DEF IInv, TypeOK
  <2>2. QED
    BY <1>1, <1>5, <2>1, Rest, MoveType DEF IInv
<1>9. mem' # Down
  BY <1>8, DownAssumption
<1>10. \A u \in Thread : ~Rotating(u)'
  BY <1>3, <1>6, <1>7 DEF IInv, OneRotation, Rotating, At
<1>11. \A u \in Thread : HasSuccessor(u)' =>
          HasSuccessor(u) /\ Successor(u)' = Successor(u) /\ u # t
  BY <1>3, <1>6 DEF HasSuccessor, Successor, At
<1>12. Places'
  BY <1>3, <1>6, <1>9, <1>10 DEF IInv, Places, At
<1>13. Keys'
  BY <1>1, <1>7, <1>11 DEF IInv, Keys
<1>14. OneRotation' /\ Agreement' /\ Logs'
  BY <1>1, <1>7, <1>10 DEF IInv, OneRotation, Agreement, Logs
<1>15. QED
  BY <1>7, <1>8, <1>12, <1>13, <1>14 DEF IInv
-----------------------------------------------------------------------------
(* The daemon goes down and comes back.                                     *)

\* Everything a crash leaves is on disk.
LEMMA CrashInv ==
    ASSUME IInv, Crash
    PROVE  IInv'
<1>1. /\ mem' = Down /\ readers' = {} /\ owner' = Nobody /\ task' = [t \in Thread |-> Idle]
      /\ sealed' = sealed /\ wrap' = wrap /\ log' = log
      /\ accepted' = accepted /\ restarts' = restarts /\ minted' = minted
  BY DEF Crash, disk, counters
<1>2. \A t \in Thread : task'[t] = Idle /\ task'[t].at = "idle"
  BY <1>1, IdleFields
<1>3. task' \in [Thread -> Task]
  BY <1>1, IdleFields
<1>4. TypeOK'
  BY <1>1, <1>2, <1>3, NobodyAssumption DEF IInv, TypeOK, At
<1>5. \A u \in Thread : ~Rotating(u)' /\ ~HasSuccessor(u)'
  BY <1>2 DEF Rotating, HasSuccessor, At
<1>6. Places' /\ Keys' /\ OneRotation' /\ Agreement' /\ Logs'
  BY <1>1, <1>2, <1>5 DEF IInv, Places, Keys, OneRotation, Agreement, Logs, At
<1>7. QED
  BY <1>4, <1>6 DEF IInv

\* A restart takes the key the store records.
LEMMA RunInv ==
    ASSUME IInv, run
    PROVE  IInv' /\ mem' = sealed
<1>1. /\ mem = Down /\ mem' = sealed /\ restarts < MaxRestarts /\ restarts' = restarts + 1
      /\ log' = Extended(log, Len(log) + 1, sealed.key, Entry)
      /\ sealed' = sealed /\ wrap' = wrap /\ readers' = readers /\ owner' = owner
      /\ task' = task /\ minted' = minted /\ accepted' = accepted
  BY DEF run, Appends, locks
<1>2. sealed \in MasterKey /\ sealed.key \in Nat /\ sealed # Down
  BY DownAssumption DEF IInv, TypeOK, MasterKey
<1>3. \A t \in Thread : task[t].at = "idle"
  BY <1>1, IdleFields DEF IInv, Places
<1>4. restarts' \in 0..MaxRestarts
  BY <1>1, DaemonBoundsAssumption DEF IInv, TypeOK
<1>5. TypeOK'
  BY <1>1, <1>2, <1>4 DEF IInv, TypeOK, At
<1>6. \A u \in Thread : ~Rotating(u)' /\ ~HasSuccessor(u)'
  BY <1>1, <1>3 DEF Rotating, HasSuccessor, At
<1>7. Logs'
  BY <1>1, <1>2, AppendsRows DEF IInv, Logs
<1>8. Places' /\ Keys' /\ OneRotation' /\ Agreement'
  BY <1>1, <1>2, <1>3, <1>6 DEF IInv, Places, Keys, OneRotation, Agreement, At
<1>9. QED
  BY <1>1, <1>5, <1>7, <1>8 DEF IInv

\* The first start.
LEMMA InitInv == Init => IInv
<1> SUFFICES ASSUME Init PROVE IInv
  OBVIOUS
<1>1. PICK m : m = Master(1, 1)
  OBVIOUS
<1>2. m \in MasterKey /\ m.key = 1
  BY <1>1, DaemonBoundsAssumption DEF Master, MasterKey
<1>3. /\ mem = m /\ sealed = m /\ wrap = <<>> /\ readers = {} /\ owner = Nobody
      /\ task = [t \in Thread |-> Idle] /\ minted = 1 /\ accepted = 0 /\ restarts = 0
  BY <1>1 DEF Init
<1>4. \A t \in Thread : task[t] = Idle /\ task[t].at = "idle"
  BY <1>3, IdleFields
<1>5. TypeOK
  <2>1. task \in [Thread -> Task]
    BY <1>3, IdleFields
  <2>2. QED
    BY <1>2, <1>3, <1>4, <2>1, NobodyAssumption, DaemonBoundsAssumption DEF TypeOK, At
<1>6. \A u \in Thread : ~Rotating(u) /\ ~HasSuccessor(u)
  BY <1>4 DEF Rotating, HasSuccessor, At
<1>7. Logs
  <2> DEFINE one == Extended(<<>>, 1, 1, Entry)
  <2>1. <<>> \in Seq(Row) /\ Len(<<>>) + 1 = 1
    BY EmptySeq
  <2>2. one = Extended(<<>>, Len(<<>>) + 1, 1, Entry)
    BY <2>1
  <2>3. one \in Seq(Row)
    BY <2>1, <2>2, AppendsRows
  <2>4. Len(one) = 1
    BY DEF Extended
  <2> HIDE DEF one
  <2>5. log = Extended(one, 2, 1, Entry)
    BY DEF Init, one
  <2>6. log = Extended(one, Len(one) + 1, 1, Entry)
    BY <2>4, <2>5
  <2>7. QED
    BY <2>3, <2>6, AppendsRows DEF Logs
<1>8. Places /\ Keys /\ OneRotation /\ Agreement
  BY <1>2, <1>3, <1>4, <1>6 DEF Places, Keys, OneRotation, Agreement, At
<1>9. QED
  BY <1>5, <1>7, <1>8 DEF IInv

\* A step on its own: what it may do to the two copies of the master key.
LEMMA StepInv ==
    ASSUME IInv, [Next]_vars
    PROVE  /\ IInv'
           /\ sealed' # sealed => mem = sealed /\ sealed'.generation = sealed.generation + 1
           /\ mem' \notin {mem, Down} => mem' = sealed
<1>1. ASSUME NEW t \in Thread, NEW q \in Requests, accept(t, q)
      PROVE  IInv' /\ sealed' = sealed /\ mem' = mem
  BY <1>1, AcceptInv DEF accept, disk
<1>2. ASSUME NEW t \in Thread, gate(t) \/ keys(t) \/ append(t)
      PROVE  IInv' /\ sealed' = sealed /\ mem' = mem
  BY <1>2, GateInv, KeysInv, AppendInv DEF gate, keys, append, disk
<1>3. ASSUME NEW t \in Thread, read(t) \/ write(t) \/ delete(t) \/ audit_verify(t)
      PROVE  IInv' /\ sealed' = sealed /\ mem' = mem
  BY <1>3, HandlersInv DEF read, write, delete, audit_verify, disk
<1>4. ASSUME NEW t \in Thread, status_store(t) \/ status(t)
      PROVE  IInv' /\ sealed' = sealed /\ mem' = mem
  BY <1>4, StatusInv DEF status_store, status, disk
<1>5. ASSUME NEW t \in Thread,
             generation_exhausted(t) \/ rekey_refused(t) \/ rewrap_refused(t) \/ fail(t)
      PROVE  IInv' /\ sealed' = sealed /\ mem' = mem
  <2>1. Refused(t) /\ At(t) \in {"store", "rekey_with", "append"}
    BY <1>5 DEF generation_exhausted, rekey_refused, rewrap_refused, fail, Serving
  <2>2. QED
    BY <2>1, RefusedInv DEF Refused, disk
<1>6. ASSUME NEW t \in Thread, rekey_chain(t)
      PROVE  IInv' /\ sealed' = sealed /\ mem' = mem
  BY <1>6, RekeyChainInv DEF rekey_chain
<1>7. ASSUME NEW t \in Thread, rekey_with(t)
      PROVE  IInv' /\ mem = sealed /\ sealed'.generation = sealed.generation + 1 /\ mem' = mem
  <2>1. At(t) = "rekey_with" /\ sealed' = Successor(t) /\ mem' = mem
    BY <1>7 DEF rekey_with, Successor
  <2>2. mem = sealed /\ Successor(t).generation = mem.generation + 1
    BY <2>1 DEF IInv, OneRotation, Rotating
  <2>3. QED
    BY <1>7, <2>1, <2>2, RekeyWithInv
<1>8. ASSUME NEW t \in Thread, await_keys(t)
      PROVE  IInv' /\ sealed' = sealed /\ mem' = mem
  BY <1>8, AwaitInv DEF await_keys, disk
<1>9. ASSUME NEW t \in Thread, adopt_rotated_key(t)
      PROVE  IInv' /\ sealed' = sealed /\ mem' = sealed
  BY <1>9, AdoptInv DEF adopt_rotated_key, disk
<1>10. CASE Crash
  BY <1>10, CrashInv DEF Crash, disk
<1>11. CASE run
  BY <1>11, RunInv DEF run
<1>12. CASE UNCHANGED vars
  <2>1. /\ mem' = mem /\ sealed' = sealed /\ wrap' = wrap /\ log' = log /\ readers' = readers
        /\ owner' = owner /\ task' = task /\ minted' = minted /\ accepted' = accepted
        /\ restarts' = restarts
    BY <1>12 DEF vars, disk, locks, counters
  <2>2. TypeOK' /\ Places' /\ Keys' /\ OneRotation' /\ Agreement' /\ Logs'
    BY <2>1 DEF IInv, TypeOK, Places, Keys, OneRotation, Agreement, Logs, At, Rotating,
                HasSuccessor, Successor, Adopting
  <2>3. QED
    BY <2>1, <2>2 DEF IInv
<1>13. QED
  BY <1>1, <1>2, <1>3, <1>4, <1>5, <1>6, <1>7, <1>8, <1>9, <1>10, <1>11, <1>12 DEF Next, Step

\* The inductive invariant holds of every reachable state.
THEOREM Invariant == Spec => []IInv
<1>1. IInv /\ [Next]_vars => IInv'
  BY StepInv
<1>2. QED
  BY InitInv, <1>1, PTL DEF Spec

\* Every variable of the daemon stays in its domain, and no lock is held
\* longer than its handler.
THEOREM TypeCorrect == Spec => []TypeOK
<1>1. IInv => TypeOK
  BY DEF IInv
<1>2. QED
  BY Invariant, <1>1, PTL

\* Store and memory agree on the master key, except while the one rotation that
\* committed is on its way to adopt it.
THEOREM MemoryAlwaysMatchesDisk == Spec => []MemoryMatchesDisk
<1>1. ASSUME IInv PROVE MemoryMatchesDisk
  <2>1. mem \in {sealed, Down} \/ \E t \in Thread : Adopting(t) /\ task[t].successor = sealed
    <3>1. \A t \in Thread : Adopting(t) => task[t].successor = sealed
      BY <1>1 DEF IInv, OneRotation, Adopting, Rotating, Successor
    <3>2. QED
      BY <1>1, <3>1 DEF IInv, Agreement
  <2> DEFINE S == {t \in Thread : Adopting(t)}
  <2>2. \A u, v \in S : u = v
    BY <1>1 DEF IInv, OneRotation, Adopting, Rotating
  <2>3. Cardinality(S) <= 1
    <3> HIDE DEF S
    <3>1. CASE S = {}
      BY <3>1, FS_EmptySet
    <3>2. CASE S # {}
      <4>1. PICK u \in S : S = {u}
        BY <2>2, <3>2
      <4>2. Cardinality({u}) = 1
        BY FS_Singleton
      <4>3. QED
        BY <4>1, <4>2
    <3>3. QED
      BY <3>1, <3>2
  <2>4. QED
    BY <2>1, <2>3 DEF MemoryMatchesDisk
<1>2. QED
  BY Invariant, <1>1, PTL

\* Every rotation that reaches the disk replaces the key the daemon holds by
\* the next generation, and memory only ever takes the key on disk.
THEOREM RotationsAreSerial == Spec => RotationsFollowEachOther
<1>1. IInv /\ [Next]_vars =>
        [/\ sealed' # sealed => /\ mem = sealed
                                /\ sealed'.generation = sealed.generation + 1
         /\ mem' \notin {mem, Down} => mem' = sealed]_vars
  BY StepInv
<1>2. QED
  BY Invariant, <1>1, PTL DEF Spec, RotationsFollowEachOther

-----------------------------------------------------------------------------
(* The order of the locks.  Handlers take keys before store, and a rotation *)
(* asks for keys for writing with nothing in its hands.  Only status asks   *)
(* for keys with the store in its hands; without it no wait can close.      *)

AsksForStore(t) == At(t) \in {"gate", "store", "append"}
AsksForKeys(t) == At(t) \in {"keys", "record", "status"}

\* u has what t asks for: the store, keys, or the writer's place in the queue.
WaitsFor(t, u) ==
    \/ AsksForStore(t) /\ owner = u
    \/ AsksForKeys(t) /\ At(u) = "waiting"
    \/ At(t) = "waiting" /\ u \in readers

Rank(t) == IF AsksForStore(t) THEN 1
           ELSE IF At(t) = "waiting" THEN 2
           ELSE IF AsksForKeys(t) THEN 3 ELSE 0

\* A thread only waits for threads further on their way.
LocksAreOrdered == \A t, u \in Thread : WaitsFor(t, u) => Rank(u) < Rank(t)

\* Of the threads at work one has its lock free.
SomeoneGoesOn ==
    (\E t \in Thread : At(t) # "idle") =>
        \E t \in Thread : At(t) # "idle" /\ \A u \in Thread : ~WaitsFor(t, u)

NoStatus == \A t \in Thread : task[t].req # "status" /\ At(t) # "status"

\* A thread that goes on keeps its request; only status_store goes to "status".
LEMMA NoStatusStep ==
    ASSUME "status" \notin Requests, IInv, NoStatus, [Next]_vars
    PROVE  NoStatus'
<1>1. task \in [Thread -> Task]
  BY DEF IInv, TypeOK
<1>2. ASSUME NEW t \in Thread, NEW r, task' = [task EXCEPT ![t] = r],
             r.req # "status", r.at # "status"
      PROVE  NoStatus'
  BY <1>1, <1>2 DEF NoStatus, At
<1>3. ASSUME NEW t \in Thread, NEW place \in Place \ {"status"}, GoesTo(t, place)
      PROVE  NoStatus'
  <2>1. PICK r \in Task : /\ r.at = place /\ r.req = task[t].req
                          /\ task' = [task EXCEPT ![t] = r]
    BY <1>3, Going DEF IInv
  <2>2. QED
    BY <1>2, <1>3, <2>1 DEF NoStatus
<1>4. ASSUME NEW t \in Thread, Ends(t)
      PROVE  NoStatus'
  BY <1>2, <1>4, IdleFields DEF Ends
<1>5. ASSUME NEW t \in Thread, NEW q \in Requests, accept(t, q)
      PROVE  NoStatus'
  <2>1. PICK r : /\ r = [at |-> "gate", req |-> q, successor |-> Master(NoKey, 0)]
                 /\ task' = [task EXCEPT ![t] = r]
    BY <1>5 DEF accept
  <2>2. r.at # "status" /\ r.req # "status"
    BY <2>1
  <2>3. QED
    BY <1>2, <2>1, <2>2
<1>6. ASSUME NEW t \in Thread, gate(t)
      PROVE  NoStatus'
  <2>1. CASE \E place \in {"keys", "store", "record"} : GoesTo(t, place)
    BY <1>3, <2>1 DEF Place
  <2>2. CASE task' = [task EXCEPT ![t].at = "keys", ![t].successor = Master(minted + 1, 0)]
    <3>1. PICK r : r = [task[t] EXCEPT !.at = "keys", !.successor = Master(minted + 1, 0)]
      OBVIOUS
    <3>2. r.at = "keys" /\ r.req = task[t].req /\ task' = [task EXCEPT ![t] = r]
      BY <1>1, <2>2, <3>1 DEF Task
    <3>3. QED
      BY <1>2, <3>2 DEF NoStatus
  <2>3. QED
    BY <1>6, <2>1, <2>2 DEF gate
<1>7. ASSUME NEW t \in Thread,
             keys(t) \/ append(t) \/ read(t) \/ write(t) \/ delete(t) \/ audit_verify(t)
      PROVE  NoStatus'
  <2>1. Ends(t) \/ \E place \in {"store", "append", "record"} : GoesTo(t, place)
    BY <1>7 DEF keys, append, read, write, delete, audit_verify
  <2>2. QED
    BY <1>3, <1>4, <2>1 DEF Place
<1>8. ASSUME NEW t \in Thread, status_store(t) \/ status(t)
      PROVE  NoStatus'
  BY <1>8 DEF NoStatus, status_store, status, Serving
<1>9. ASSUME NEW t \in Thread,
             generation_exhausted(t) \/ rekey_refused(t) \/ rewrap_refused(t) \/ fail(t)
      PROVE  NoStatus'
  <2>1. Ends(t)
    BY <1>9 DEF generation_exhausted, rekey_refused, rewrap_refused, fail, Refused
  <2>2. QED
    BY <1>4, <2>1
<1>10. ASSUME NEW t \in Thread, rekey_chain(t)
       PROVE  NoStatus'
  <2>1. PICK r : r = [task[t] EXCEPT !.at = "rekey_with",
                                     !.successor.generation = mem.generation + 1]
    OBVIOUS
  <2>2. r.at = "rekey_with" /\ r.req = task[t].req
    BY <1>1, <2>1 DEF Task
  <2>3. task' = [task EXCEPT ![t] = r]
    BY <1>1, <1>10, <2>1 DEF rekey_chain
  <2>4. QED
    BY <1>2, <2>2, <2>3 DEF NoStatus
<1>11. ASSUME NEW t \in Thread, rekey_with(t) \/ await_keys(t) \/ adopt_rotated_key(t)
       PROVE  NoStatus'
  <2>1. \E place \in {"adopt", "waiting", "record"} : GoesTo(t, place)
    BY <1>11 DEF rekey_with, await_keys, adopt_rotated_key
  <2>2. QED
    BY <1>3, <2>1 DEF Place
<1>12. CASE Crash
  BY <1>12, IdleFields DEF Crash, NoStatus, At
<1>13. CASE run \/ UNCHANGED vars
  <2>1. task' = task
    BY <1>13 DEF run, vars
  <2>2. QED
    BY <2>1 DEF NoStatus, At
<1>14. QED
  BY <1>5, <1>6, <1>7, <1>8, <1>9, <1>10, <1>11, <1>12, <1>13 DEF Next, Step

\* Without requests for status no thread ever holds the store waiting for keys.
LEMMA NoStatusEver ==
    ASSUME "status" \notin Requests
    PROVE  Spec => []NoStatus
<1>1. Init => NoStatus
  BY IdleFields DEF Init, NoStatus, At
<1>2. IInv /\ NoStatus /\ [Next]_vars => NoStatus'
  BY NoStatusStep
<1>3. QED
  BY Invariant, <1>1, <1>2, PTL DEF Spec

\* Who has what another asks for stands lower.
LEMMA WaitsDownwards ==
    ASSUME IInv, NoStatus
    PROVE  LocksAreOrdered
<1>1. ASSUME NEW t \in Thread, NEW u \in Thread, WaitsFor(t, u)
      PROVE  Rank(u) < Rank(t)
  <2>1. owner = u => At(u) = "rekey_with"
    BY DEF IInv, TypeOK, NoStatus
  <2>2. u \in readers => At(u) \in {"append", "rekey_with", "store"}
    BY DEF IInv, TypeOK
  <2>3. At(t) # "status" /\ At(u) # "status"
    BY DEF NoStatus
  <2>4. CASE AsksForStore(t) /\ owner = u
    BY <2>1, <2>4 DEF Rank, AsksForStore, AsksForKeys
  <2>5. CASE AsksForKeys(t) /\ At(u) = "waiting"
    BY <2>3, <2>5 DEF Rank, AsksForStore, AsksForKeys
  <2>6. CASE At(t) = "waiting" /\ u \in readers
    BY <2>2, <2>6 DEF Rank, AsksForStore, AsksForKeys
  <2>7. QED
    BY <1>1, <2>4, <2>5, <2>6 DEF WaitsFor
<1>2. QED
  BY <1>1 DEF LocksAreOrdered

\* The order the comment on DaemonState asks for (state.rs:33) is kept by every
\* handler but status: then the waits of any number of threads form no cycle.
THEOREM WaitsFormNoCycle ==
    ASSUME "status" \notin Requests
    PROVE  Spec => []LocksAreOrdered
<1>1. IInv /\ NoStatus => LocksAreOrdered
  BY WaitsDownwards
<1>2. QED
  BY Invariant, NoStatusEver, <1>1, PTL

\* So the daemon never stands still: while a request is served, the next lock of
\* some thread at work is free, the lowest one's.
THEOREM NeverAllWaiting ==
    ASSUME "status" \notin Requests
    PROVE  Spec => []SomeoneGoesOn
<1>1. ASSUME IInv, LocksAreOrdered PROVE SomeoneGoesOn
  <2> SUFFICES ASSUME NEW b \in Thread, At(b) # "idle"
               PROVE  \E t \in Thread : At(t) # "idle" /\ \A u \in Thread : ~WaitsFor(t, u)
    BY Zenon DEF SomeoneGoesOn
  <2> DEFINE ranks == {Rank(t) : t \in {v \in Thread : At(v) # "idle"}}
  <2>1. ranks \subseteq Nat /\ ranks # {}
    BY DEF Rank
  <2>2. PICK low \in ranks : \A other \in ranks : low <= other
    <3> HIDE DEF ranks
    <3>1. QED
      BY <2>1, LeastNat
  <2>3. PICK t \in Thread : At(t) # "idle" /\ Rank(t) = low
    OBVIOUS
  <2>4. ASSUME NEW u \in Thread, WaitsFor(t, u) PROVE FALSE
    <3>1. Rank(u) < Rank(t)
      BY <1>1, <2>4 DEF LocksAreOrdered
    <3>2. At(u) # "idle"
      BY <1>1, <2>4 DEF WaitsFor, IInv, TypeOK
    <3>3. low <= Rank(u)
      BY <2>2, <3>2
    <3>4. Rank(u) \in Nat /\ Rank(t) \in Nat
      BY DEF Rank
    <3>5. QED
      BY <2>3, <3>1, <3>3, <3>4
  <2>5. QED
    BY <2>3, <2>4, Zenon
<1>2. QED
  BY Invariant, WaitsFormNoCycle, <1>1, PTL

-----------------------------------------------------------------------------
(* One thread, and no failure between the two transactions of a rotation.   *)
(* With more of either the two properties are violated: see the runs that   *)
(* expect a violation.                                                      *)

\* The key the chain stands under.
ChainKey(solo) == IF At(solo) = "rekey_with" THEN Successor(solo).key ELSE sealed.key

Alone(solo) == /\ Openable(sealed.key)
               /\ Sound(log, ChainKey(solo)) /\ anchor = Anchored(log, ChainKey(solo))

\* Where a thread is after it moved.
LEMMA WhereNow ==
    ASSUME TypeOK, NEW t \in Thread
    PROVE  /\ \A place : GoesTo(t, place) => At(t)' = place
           /\ Ends(t) => At(t)' = "idle"
<1>1. task \in [Thread -> Task]
  BY DEF TypeOK
<1>2. ASSUME NEW place, GoesTo(t, place) PROVE At(t)' = place
  <2>1. task[t] \in Task
    BY <1>1
  <2>2. PICK r : r = [task[t] EXCEPT !.at = place]
    OBVIOUS
  <2>3. r.at = place
    BY <2>1, <2>2 DEF Task
  <2>4. task' = [task EXCEPT ![t] = r]
    BY <1>2, <2>2 DEF GoesTo
  <2>5. QED
    BY <1>1, <2>3, <2>4 DEF At
<1>3. Ends(t) => At(t)' = "idle"
  BY <1>1, IdleFields DEF Ends, At
<1>4. QED
  BY <1>2, <1>3

\* The disk stays as it is, and no rotation is between its transactions.
LEMMA AloneSame ==
    ASSUME NEW solo, Alone(solo), sealed' = sealed, wrap' = wrap, log' = log,
           anchor' = anchor, At(solo) # "rekey_with", At(solo)' # "rekey_with"
    PROVE  Alone(solo)'
  BY DEF Alone, ChainKey, Openable

\* An entry is appended under the key the store records.
LEMMA AloneAppends ==
    ASSUME NEW solo, IInv, Alone(solo), Appends(sealed.key), sealed' = sealed, wrap' = wrap,
           At(solo) # "rekey_with", At(solo)' # "rekey_with"
    PROVE  Alone(solo)'
<1>1. Openable(sealed.key)'
  BY DEF Alone, Openable
<1>2. ChainKey(solo) = sealed.key /\ ChainKey(solo)' = sealed.key
  BY DEF ChainKey
<1>3. log' = Extended(log, Len(log) + 1, sealed.key, Entry) /\ anchor' = Anchored(log', sealed.key)
  BY DEF Appends
<1>4. log \in Seq(Row) /\ Sound(log, sealed.key) /\ Entry # Garbled
  BY <1>2, GarbledAssumption DEF IInv, Logs, Alone
<1>5. Sound(log', sealed.key)
  BY <1>3, <1>4, ExtendedSound
<1>6. QED
  BY <1>1, <1>2, <1>3, <1>5 DEF Alone

\* Every step of the one thread keeps versions and chain under the recorded key.
LEMMA AloneStep ==
    ASSUME NEW solo, Thread = {solo}, "rekey_with" \notin CrashPoints,
           IInv, Alone(solo), [Next]_vars
    PROVE  Alone(solo)'
<1>0. solo \in Thread /\ TypeOK
  BY DEF IInv
<1>1. ASSUME At(solo) \notin {"idle", "adopt", "waiting"} PROVE mem = sealed
  BY <1>0, <1>1, Busy DEF IInv, Agreement, Adopting
<1>2. ASSUME NEW q \in Requests, accept(solo, q) PROVE Alone(solo)'
  <2>1. At(solo) = "idle" /\ sealed' = sealed /\ wrap' = wrap /\ log' = log /\ anchor' = anchor
    BY <1>2 DEF accept, disk
  <2>2. At(solo)' = "gate"
    BY <1>0, <1>2 DEF accept, TypeOK, At
  <2>3. QED
    BY <2>1, <2>2, AloneSame
<1>3. ASSUME gate(solo) PROVE Alone(solo)'
  <2>1. At(solo) = "gate" /\ sealed' = sealed /\ wrap' = wrap /\ log' = log /\ anchor' = anchor
    BY <1>3 DEF gate, disk
  <2>2. At(solo)' \in {"keys", "store", "record"}
    <3>1. CASE task' = [task EXCEPT ![solo].at = "keys",
                                    ![solo].successor = Master(minted + 1, 0)]
      <4>1. task[solo] \in Task /\ task \in [Thread -> Task]
        BY <1>0 DEF TypeOK
      <4>2. QED
        BY <1>0, <3>1, <4>1 DEF Task, At
    <3>2. QED
      BY <1>0, <1>3, <3>1, WhereNow DEF gate
  <2>3. QED
    BY <2>1, <2>2, AloneSame
<1>4. ASSUME keys(solo) PROVE Alone(solo)'
  <2>1. /\ At(solo) \in {"keys", "record"}
        /\ sealed' = sealed /\ wrap' = wrap /\ log' = log /\ anchor' = anchor
    BY <1>4 DEF keys, disk
  <2>2. At(solo)' \in {"store", "append"}
    BY <1>0, <1>4, WhereNow DEF keys
  <2>3. QED
    BY <2>1, <2>2, AloneSame
<1>5. ASSUME append(solo) PROVE Alone(solo)'
  <2>1. At(solo) = "append" /\ At(solo)' = "idle" /\ sealed' = sealed /\ wrap' = wrap
    BY <1>0, <1>5, WhereNow DEF append
  <2>2. Appends(sealed.key)
    BY <1>1, <1>5, <2>1 DEF append
  <2>3. QED
    BY <2>1, <2>2, AloneAppends
<1>6. ASSUME read(solo) \/ audit_verify(solo) \/ status_store(solo)
      PROVE  Alone(solo)'
  <2>1. At(solo) = "store" /\ sealed' = sealed /\ wrap' = wrap /\ log' = log /\ anchor' = anchor
    BY <1>6 DEF read, audit_verify, status_store, Serving, disk
  <2>2. At(solo)' \in {"record", "idle", "status"}
    BY <1>0, <1>6, WhereNow DEF read, audit_verify, status_store
  <2>3. QED
    BY <2>1, <2>2, AloneSame
<1>7. ASSUME write(solo) PROVE Alone(solo)'
  <2>1. /\ At(solo) = "store" /\ At(solo)' = "record" /\ sealed' = sealed /\ log' = log
        /\ anchor' = anchor /\ wrap' = Append(wrap, mem.key)
    BY <1>0, <1>7, WhereNow DEF write, Serving
  <2>2. mem = sealed /\ wrap \in Seq(Nat) /\ sealed.key \in Nat
    BY <1>0, <1>1, <2>1, Busy DEF TypeOK
  <2>3. Openable(sealed.key)'
    BY <2>1, <2>2 DEF Alone, Openable
  <2>4. QED
    BY <2>1, <2>3 DEF Alone, ChainKey
<1>8. ASSUME delete(solo) PROVE Alone(solo)'
  <2>1. /\ At(solo) = "store" /\ At(solo)' \in {"record", "idle"} /\ sealed' = sealed
        /\ log' = log /\ anchor' = anchor
    BY <1>0, <1>8, WhereNow DEF delete, Serving
  <2>2. wrap \in Seq(Nat)
    BY <1>0 DEF TypeOK
  <2>3. Openable(sealed.key)'
    BY <1>8, <2>1, <2>2 DEF delete, Alone, Openable
  <2>4. QED
    BY <2>1, <2>3 DEF Alone, ChainKey
<1>9. ASSUME status(solo) PROVE Alone(solo)'
  <2>1. /\ At(solo) = "status" /\ At(solo)' = "idle"
        /\ sealed' = sealed /\ wrap' = wrap /\ log' = log /\ anchor' = anchor
    BY <1>0, <1>9, WhereNow DEF status, disk
  <2>2. QED
    BY <2>1, AloneSame
<1>10. ASSUME Refused(solo), At(solo) \in {"store", "append"} PROVE Alone(solo)'
  <2>1. /\ At(solo)' = "idle" /\ At(solo) # "rekey_with"
        /\ sealed' = sealed /\ wrap' = wrap /\ log' = log /\ anchor' = anchor
    BY <1>0, <1>10, WhereNow DEF Refused, disk
  <2>2. QED
    BY <2>1, AloneSame
<1>11. ASSUME rekey_chain(solo) PROVE Alone(solo)'
  <2> DEFINE k == task[solo].successor.key
  <2>1. /\ At(solo) = "store" /\ sealed' = sealed /\ wrap' = wrap
        /\ log' = Rekeyed(log, k) /\ anchor' = Anchored(log', k)
    BY <1>11 DEF rekey_chain, Serving
  <2>2. At(solo)' = "rekey_with" /\ Successor(solo)'.key = k
    <3>1. task[solo] \in Task /\ task[solo].successor \in MasterKey /\ task \in [Thread -> Task]
      BY <1>0, TaskFields DEF TypeOK
    <3>2. task' = [task EXCEPT ![solo].at = "rekey_with",
                               ![solo].successor.generation = mem.generation + 1]
      BY <1>11 DEF rekey_chain
    <3>3. QED
      BY <1>0, <3>1, <3>2 DEF Task, MasterKey, At, Successor
  <2>3. log \in Seq(Row) /\ Sound(log, sealed.key)
    BY <2>1 DEF IInv, Logs, Alone, ChainKey
  <2>4. \A i \in 1..Len(log) : log[i].entry # Garbled /\ log[i].seq = i
    BY <2>3 DEF Sound
  <2>5. Sound(log', k)
    BY <2>1, <2>3, <2>4, RekeyedSound
  <2>6. ChainKey(solo)' = k
    BY <2>2 DEF ChainKey
  <2>7. Openable(sealed.key)'
    BY <2>1 DEF Alone, Openable
  <2> HIDE DEF k
  <2>8. QED
    BY <2>1, <2>5, <2>6, <2>7 DEF Alone
<1>12. ASSUME rekey_with(solo) PROVE Alone(solo)'
  <2>1. /\ At(solo) = "rekey_with" /\ At(solo)' = "adopt" /\ log' = log /\ anchor' = anchor
        /\ sealed' = Successor(solo) /\ wrap' = Rewrapped(Successor(solo).key)
    BY <1>0, <1>12, WhereNow DEF rekey_with, Successor
  <2>2. wrap \in Seq(Nat)
    BY <1>0 DEF TypeOK
  <2>3. Openable(sealed.key)'
    BY <2>1, <2>2 DEF Openable, Rewrapped
  <2>4. ChainKey(solo)' = ChainKey(solo)
    BY <2>1 DEF ChainKey
  <2>5. QED
    BY <2>1, <2>3, <2>4 DEF Alone
<1>13. ~rewrap_refused(solo)
  BY <1>1 DEF rewrap_refused, Alone
<1>14. ASSUME await_keys(solo) \/ adopt_rotated_key(solo) PROVE Alone(solo)'
  <2>1. /\ At(solo) \in {"adopt", "waiting"} /\ At(solo)' \in {"waiting", "record"}
        /\ sealed' = sealed /\ wrap' = wrap /\ log' = log /\ anchor' = anchor
    BY <1>0, <1>14, WhereNow DEF await_keys, adopt_rotated_key, disk
  <2>2. QED
    BY <2>1, AloneSame
<1>15. CASE Crash
  <2>1. /\ At(solo) # "rekey_with"
        /\ sealed' = sealed /\ wrap' = wrap /\ log' = log /\ anchor' = anchor
    BY <1>0, <1>15 DEF Crash, disk
  <2>2. At(solo)' = "idle"
    BY <1>0, <1>15, IdleFields DEF Crash, At
  <2>3. QED
    BY <2>1, <2>2, AloneSame
<1>16. CASE run
  <2>1. At(solo) = "idle" /\ At(solo)' = "idle" /\ sealed' = sealed /\ wrap' = wrap
    BY <1>0, <1>16, IdleFields DEF IInv, Places, run, At
  <2>2. QED
    BY <1>16, <2>1, AloneAppends DEF run
<1>17. CASE UNCHANGED vars
  <2>1. /\ sealed' = sealed /\ wrap' = wrap /\ log' = log /\ anchor' = anchor /\ task' = task
    BY <1>17 DEF vars, disk
  <2>2. QED
    BY <2>1 DEF Alone, ChainKey, Openable, At, Successor
<1>18. ASSUME generation_exhausted(solo) \/ rekey_refused(solo) \/ fail(solo)
       PROVE  Refused(solo) /\ At(solo) \in {"store", "append"}
  BY <1>18 DEF generation_exhausted, rekey_refused, fail, Serving
<1>19. QED
  BY <1>2, <1>3, <1>4, <1>5, <1>6, <1>7, <1>8, <1>9, <1>10, <1>11, <1>12, <1>13, <1>14,
     <1>15, <1>16, <1>17, <1>18 DEF Next, Step

\* The first start seals everything under the first key.
LEMMA AloneInit ==
    ASSUME NEW solo \in Thread, Init
    PROVE  Alone(solo)
<1> DEFINE none == <<>>
           one == Extended(none, Len(none) + 1, 1, Entry)
<1>1. At(solo) = "idle" /\ sealed.key = 1 /\ wrap = <<>>
  BY IdleFields DEF Init, At, Master
<1>2. ChainKey(solo) = 1
  BY <1>1 DEF ChainKey
<1>3. none \in Seq(Row) /\ Sound(none, 1) /\ Len(none) = 0
  BY DEF Sound
<1> HIDE DEF none
<1>4. one \in Seq(Row) /\ Len(one) = 1
  <2>1. one \in Seq(Row)
    BY <1>3, AppendsRows
  <2>2. Len(one) = Len(none) + 1
    <3>1. \A seq, k, e : Len(Extended(none, seq, k, e)) = Len(none) + 1
      BY <1>3, ExtendedRows
    <3>2. QED
      BY <3>1
  <2>3. QED
    BY <1>3, <2>1, <2>2
<1>5. Sound(one, 1)
  BY <1>3, GarbledAssumption, ExtendedSound
<1> HIDE DEF one
<1>6. Sound(Extended(one, Len(one) + 1, 1, Entry), 1)
  BY <1>4, <1>5, GarbledAssumption, ExtendedSound
<1>7. one = Extended(<<>>, 1, 1, Entry)
  BY <1>3 DEF one, none
<1>8. log = Extended(one, Len(one) + 1, 1, Entry) /\ anchor = Anchored(log, 1)
  BY <1>4, <1>7 DEF Init
<1>9. Openable(sealed.key)
  BY <1>1 DEF Openable
<1>10. QED
  BY <1>2, <1>6, <1>8, <1>9 DEF Alone

\* With one thread and no failure between the two transactions of a rotation,
\* every stored version opens under the key the store records.
THEOREM AloneEverythingOpens ==
    ASSUME NEW solo, Thread = {solo}, "rekey_with" \notin CrashPoints
    PROVE  Spec => []WrappedUnderRecordedKey
<1>1. Init => Alone(solo)
  BY AloneInit
<1>2. IInv /\ Alone(solo) /\ [Next]_vars => Alone(solo)'
  BY AloneStep
<1>3. Alone(solo) => WrappedUnderRecordedKey
  BY DEF Alone, WrappedUnderRecordedKey
<1>4. QED
  BY Invariant, <1>1, <1>2, <1>3, PTL DEF Spec

\* Under the same conditions the audit chain verifies under the recorded key
\* whenever no rotation is between its transactions.
THEOREM AloneChainVerifies ==
    ASSUME NEW solo, Thread = {solo}, "rekey_with" \notin CrashPoints
    PROVE  Spec => []ChainUnderRecordedKey
<1>1. Init => Alone(solo)
  BY AloneInit
<1>2. IInv /\ Alone(solo) /\ [Next]_vars => Alone(solo)'
  BY AloneStep
<1>3. ASSUME IInv, Alone(solo) PROVE ChainUnderRecordedKey
  <2> SUFFICES ASSUME \A t \in Thread : At(t) # "rekey_with"
               PROVE  verify(log, anchor, sealed.key) = "valid"
    BY DEF ChainUnderRecordedKey
  <2>1. Sound(log, sealed.key) /\ anchor = Anchored(log, sealed.key)
    BY <1>3 DEF Alone, ChainKey
  <2>2. log \in Seq(Row) /\ log # <<>> /\ sealed.key \in Nat
    BY <1>3 DEF IInv, Logs, TypeOK, MasterKey
  <2>3. Anchored(log, sealed.key) # NoAnchor
    <3>1. Len(log) \in Nat /\ TailHash(log) \in Hash
      BY <2>2, TailTyped
    <3>2. Anchored(log, sealed.key) \in [entries : Nat, tail : Hash, key : Nat]
      BY <2>2, <3>1 DEF Anchored
    <3>3. QED
      BY <3>2, NoAnchorAssumption
  <2>4. QED
    BY <2>1, <2>2, <2>3, SoundVerifies
<1>4. QED
  BY Invariant, <1>1, <1>2, <1>3, PTL DEF Spec
=============================================================================
