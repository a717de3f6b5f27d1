------------------------------ MODULE Resolve -------------------------------
(***************************************************************************)
(* Batches of secrets.  resolve_secrets serves them over two transports:   *)
(* the plain resolve socket, for an application that reads as it runs, and *)
(* POST /v1/resolve, for `secretbae exec', which builds a child's          *)
(* environment.  A batch takes the locks once per path, so writes, policy  *)
(* changes and revocations run in between; the socket's handler is dropped *)
(* at any await when its connection times out.                             *)
(*                                                                         *)
(* Version numbers of a path are never reused (SecretStore), so a path and *)
(* a version stand for the value.  The token's policies are what they      *)
(* grant (Access); the rotation of keys under a batch is Daemon's subject. *)
(***************************************************************************)
EXTENDS Naturals, Sequences, FiniteSets, FiniteSetsExt, SequencesExt

CONSTANTS Caller,      \* connections to the socket and runs of exec
          Path,        \* secret paths
          Token,       \* what a caller can present ...
          AppToken,    \* ... and the one that is in the store
          Policies,    \* what the token's policies may grant over time
          MaxVersion,  \* bound on version numbers
          MaxPaths,    \* RESOLVE_SOCKET_MAX_PATHS
          MaxChanges,  \* bound on what others change meanwhile
          Profiles,    \* the profiles exec is run with
          Sources,     \* where a token may be found: the ranked places
          Leaf,        \* screaming_snake of a path's last segment
          Parent,      \* the environment exec is run in
          None

ASSUME TokenAssumption == AppToken \in Token
ASSUME PolicyAssumption ==
    \A g \in Policies :
        /\ g \in [anywhere : SUBSET {"read", "list"}, read : SUBSET Path, list : SUBSET Path]
        /\ g.read # {} => "read" \in g.anywhere
        /\ g.list # {} => "list" \in g.anywhere

ASSUME ResolveBoundsAssumption ==
    MaxVersion \in Nat \ {0} /\ MaxPaths \in Nat /\ MaxChanges \in Nat
ASSUME PathsAssumption == IsFiniteSet(Path) /\ None \notin Path

Version == 1..MaxVersion
Target == [path : Path, version : 0..MaxVersion]   \* 0: the current version
Item == [path : Path, version : Version]           \* a value
Binding == [name : STRING, path : Path, version : 0..MaxVersion]

ASSUME ProfileAssumption ==
    /\ \A profile \in Profiles :
          profile \in [env : Seq(Binding), env_from : Seq(SUBSET Path)]
    /\ Leaf \in [Path -> STRING]
ASSUME SourceAssumption ==
    \A places \in Sources : places \in Seq(Token \cup {"absent", "blank", "refused"})

VARIABLES active,    \* secret_versions: a path's readable versions
          highest,   \* secret_versions: the highest number given out
          current,   \* secrets.current_version, 0 for NULL
          policy,    \* what the token's policies grant
          revoked,   \* the token is revoked
          changed,   \* changes so far
          call,      \* each caller's exchange
          trace,     \* the audit entries about a caller
          child,     \* the environment exec started its command with
          moments    \* history: what was so at some moment of a batch

store == <<active, highest, current>>
others == <<store, policy, revoked, changed>>
vars == <<others, call, trace, child, moments>>

New == [at |-> "new", via |-> None, token |-> None, left |-> 0, from |-> <<>>,
        mapped |-> <<>>, targets |-> <<>>, resolved |-> <<>>, sent |-> 0]

\* What may be read, and what is current, now.
Readable == IF revoked THEN {} ELSE policy.read
Current == {[path |-> p, version |-> current[p]] : p \in {p \in Path : current[p] # 0}}
Moment == [readable |-> Readable, current |-> Current]
Never == [readable |-> {}, current |-> {}]

Init == /\ active = [p \in Path |-> {1}]
        /\ highest = [p \in Path |-> 1]
        /\ current = [p \in Path |-> 1]
        /\ policy \in Policies
        /\ revoked = FALSE /\ changed = 0
        /\ call = [c \in Caller |-> New]
        /\ trace = [c \in Caller |-> {}]
        /\ child = [c \in Caller |-> None]
        /\ moments = [c \in Caller |-> Never]
-----------------------------------------------------------------------------
(* What the other clients of the daemon do meanwhile.                       *)

Changes == /\ changed < MaxChanges
           /\ changed' = changed + 1
           /\ UNCHANGED <<call, trace, child>>

write(p) ==
    /\ Changes
    /\ highest[p] < MaxVersion
    /\ highest' = [highest EXCEPT ![p] = @ + 1]
    /\ active' = [active EXCEPT ![p] = @ \cup {highest'[p]}]
    /\ current' = [current EXCEPT ![p] = highest'[p]]
    /\ UNCHANGED <<policy, revoked>>

rollback(p, v) ==
    /\ Changes
    /\ v \in active[p] \ {current[p]}
    /\ current' = [current EXCEPT ![p] = v]
    /\ UNCHANGED <<active, highest, policy, revoked>>

delete(p, v) ==
    /\ Changes
    /\ v \in active[p]
    /\ active' = [active EXCEPT ![p] = @ \ {v}]
    /\ current' = [current EXCEPT ![p] = IF active'[p] = {} THEN 0 ELSE Max(active'[p])]
    /\ UNCHANGED <<highest, policy, revoked>>

policy_put(g) ==
    /\ Changes
    /\ g # policy
    /\ policy' = g
    /\ UNCHANGED <<store, revoked>>

token_revoke ==
    /\ Changes
    /\ ~revoked
    /\ revoked' = TRUE
    /\ UNCHANGED <<store, policy>>
-----------------------------------------------------------------------------
At(c, place) == call[c].at = place
Becomes(c, k) == call' = [call EXCEPT ![c] = k]
GoesTo(c, place) == Becomes(c, [call[c] EXCEPT !.at = place])
OnlyCall == UNCHANGED <<others, trace, child>>
Keeps == UNCHANGED <<others, child>>

\* Where a refusal takes the caller: to the ERROR line, or out of exec.
Refused(c) == IF call[c].via = "socket" THEN "refusing" ELSE "failed"

\* record_denial: best effort, the answer does not depend on it.
record_denial(c) == trace' \in {trace, [trace EXCEPT ![c] = @ \cup {"denied"}]}

\* authorize, for the route as a whole (path None) or for one path.
authorize(c, p) ==
    /\ call[c].token = AppToken
    /\ ~revoked
    /\ IF p = None THEN "read" \in policy.anywhere ELSE p \in policy.read

\* resolve_secrets begins: at the gate, with a token and a batch.
Begins(c, t, batch) ==
    Becomes(c, [call[c] EXCEPT !.at = "gate", !.token = t, !.left = 0, !.targets = batch])
-----------------------------------------------------------------------------
(* The socket's parser, one line at a time.                                 *)

accept(c) ==
    /\ At(c, "new")
    /\ Becomes(c, [call[c] EXCEPT !.at = "request", !.via = "socket"])
    /\ OnlyCall

\* The peer closes before it sent anything.
disconnects(c) ==
    /\ At(c, "request")
    /\ GoesTo(c, "closed")
    /\ OnlyCall

\* Mutation: any number of paths will do.
read_request_unbounded(c, t, count) ==
    /\ At(c, "request")
    /\ IF count = 0 THEN Begins(c, t, <<>>)
       ELSE Becomes(c, [call[c] EXCEPT !.at = "line", !.token = t, !.left = count])
    /\ OnlyCall

\* A request line; one that announces too many paths is a violation.
read_request(c, t, count) ==
    /\ At(c, "request")
    /\ count <= MaxPaths
    /\ IF count = 0 THEN Begins(c, t, <<>>)
       ELSE Becomes(c, [call[c] EXCEPT !.at = "line", !.token = t, !.left = count])
    /\ OnlyCall

read_target(c, target) ==
    /\ At(c, "line")
    /\ LET targets == Append(call[c].targets, target)
       IN  IF call[c].left = 1 THEN Begins(c, call[c].token, targets)
           ELSE Becomes(c, [call[c] EXCEPT !.left = @ - 1, !.targets = targets])
    /\ OnlyCall

\* A field out of order, too many paths, a line too long, a truncated request,
\* or READ_TIMEOUT: audited as a denial, answered with the ERROR line.
violation(c) ==
    /\ call[c].at \in {"request", "line"}
    /\ GoesTo(c, "refusing")
    /\ record_denial(c)
    /\ Keeps
-----------------------------------------------------------------------------
(* resolve_secrets.  No await in here, but every step takes the locks anew. *)

\* The gate for the whole batch, empty or not.
authorize_batch(c) ==
    /\ At(c, "gate")
    /\ IF authorize(c, None) THEN GoesTo(c, "path") /\ UNCHANGED trace
       ELSE GoesTo(c, Refused(c)) /\ record_denial(c)
    /\ Keeps

Batch(c) == call[c].targets
Complete(c) == Len(call[c].resolved) = Len(Batch(c))
NextTarget(c) == Batch(c)[Len(call[c].resolved) + 1]

\* Mutation: the gate of the batch is enough for every path.
authorize_path_once(c) ==
    /\ At(c, "path")
    /\ ~Complete(c)
    /\ GoesTo(c, "fetch") /\ UNCHANGED trace
    /\ Keeps

authorize_path(c) ==
    /\ At(c, "path")
    /\ ~Complete(c)
    /\ IF authorize(c, NextTarget(c).path) THEN GoesTo(c, "fetch") /\ UNCHANGED trace
       ELSE GoesTo(c, Refused(c)) /\ record_denial(c)
    /\ Keeps

Selected(target) == IF target.version = 0 THEN current[target.path] ELSE target.version

\* read_version and open; the rows are looked up again after the gate, and
\* one that is not there ends the batch without an entry.
read_version(c) ==
    /\ At(c, "fetch")
    /\ LET p == NextTarget(c).path
           v == Selected(NextTarget(c))
       IN  IF v \in active[p]
           THEN Becomes(c, [call[c] EXCEPT !.at = "path",
                               !.resolved = Append(@, [path |-> p, version |-> v])])
           ELSE GoesTo(c, Refused(c))
    /\ OnlyCall

\* Mutation: the batch is answered and audited afterwards, if at all.
record_unaudited(c) ==
    /\ At(c, "path")
    /\ Complete(c)
    /\ GoesTo(c, "answering")
    /\ OnlyCall

\* One entry for the whole batch; without it no answer.
record(c) ==
    /\ At(c, "path")
    /\ Complete(c)
    /\ \/ GoesTo(c, "answering") /\ trace' = [trace EXCEPT ![c] = @ \cup {"resolve"}]
       \/ GoesTo(c, Refused(c)) /\ UNCHANGED trace
    /\ Keeps

\* A statement or the decryption fails: "internal error".
fails(c) ==
    /\ call[c].at \in {"path", "fetch"}
    /\ GoesTo(c, Refused(c))
    /\ OnlyCall
-----------------------------------------------------------------------------
(* The socket's answer.  A write waits for the peer to make room.           *)

\* One VALUE block, of which a peer may get only a part.
respond(c) ==
    /\ At(c, "answering") /\ call[c].via = "socket"
    /\ call[c].sent < Len(call[c].resolved)
    /\ Becomes(c, [call[c] EXCEPT !.sent = @ + 1])
    /\ OnlyCall

flush(c) ==
    /\ At(c, "answering") /\ call[c].via = "socket"
    /\ call[c].sent = Len(call[c].resolved)
    /\ GoesTo(c, "closed")
    /\ OnlyCall

respond_error(c) ==
    /\ At(c, "refusing")
    /\ GoesTo(c, "closed")
    /\ OnlyCall

Waiting(c) == \/ call[c].at \in {"request", "line", "refusing"}
              \/ At(c, "answering") /\ call[c].via = "socket"

\* Mutation: the timeout covers the reading of the request only.
connection_timeout_reading(c) ==
    /\ call[c].at \in {"request", "line"}
    /\ GoesTo(c, "closed")
    /\ OnlyCall

\* CONNECTION_TIMEOUT drops the handler at the await it is in; so do the end
\* of the runtime and a peer that is gone.  Nothing is written, or audited.
connection_timeout(c) ==
    /\ Waiting(c)
    /\ GoesTo(c, "closed")
    /\ OnlyCall
-----------------------------------------------------------------------------
(* `secretbae exec'.                                                        *)

\* A ranked place holds a token, nothing, a blank variable, or a file that
\* is refused for its mode, missing or empty.  The first place that holds
\* anything decides; a file that is refused is not passed over.
resolve_token_with_sources(places) ==
    LET given == {i \in DOMAIN places : places[i] \notin {"absent", "blank"}}
    IN  IF given = {} THEN "refused" ELSE places[Min(given)]

\* Profile and token files are read and checked before any request.
run_exec(c, profile, places) ==
    /\ At(c, "new")
    /\ LET token == resolve_token_with_sources(places)
       IN  IF token = "refused"
           THEN Becomes(c, [call[c] EXCEPT !.at = "failed", !.via = "exec"])
           ELSE Becomes(c, [call[c] EXCEPT !.at = "list", !.via = "exec", !.token = token,
                               !.from = profile.env_from, !.mapped = profile.env])
    /\ OnlyCall

\* One LIST per prefix: what is readable under it now, and visible.
list(c) ==
    /\ At(c, "list")
    /\ call[c].from # <<>>
    /\ IF call[c].token = AppToken /\ ~revoked /\ "list" \in policy.anywhere
       THEN LET found == {p \in Head(call[c].from) \cap policy.list : current[p] # 0}
                bindings == {[name |-> Leaf[p], path |-> p, version |-> 0] : p \in found}
            IN  /\ Becomes(c, [call[c] EXCEPT !.from = Tail(@),
                                  !.mapped = @ \o SetToSeq(bindings)])
                /\ UNCHANGED trace
       ELSE GoesTo(c, "failed") /\ record_denial(c)
    /\ Keeps

check_no_duplicate_env_names(bindings) ==
    \A i, j \in DOMAIN bindings : bindings[i].name = bindings[j].name => i = j

unique_paths(bindings) ==
    SetToSeq({[path |-> b.path, version |-> 0] : b \in ToSet(bindings)})

\* Nothing to resolve, nothing to ask; otherwise one batch of current versions.
request_batch(c) ==
    /\ At(c, "list")
    /\ call[c].from = <<>>
    /\ IF ~check_no_duplicate_env_names(call[c].mapped) THEN GoesTo(c, "failed")
       ELSE IF call[c].mapped = <<>> THEN GoesTo(c, "answering")
       ELSE Begins(c, call[c].token, unique_paths(call[c].mapped))
    /\ OnlyCall

\* The daemon is not there, or is gone before its answer is.
post_fails(c) ==
    /\ call[c].via = "exec"
    /\ call[c].at \in {"list", "gate", "path", "fetch", "answering"}
    /\ GoesTo(c, "failed")
    /\ OnlyCall

resolved_map(c) == [p \in {i.path : i \in ToSet(call[c].resolved)} |->
                       CHOOSE i \in ToSet(call[c].resolved) : i.path = p]

\* Mutation: a pin is compared with nothing.
Acceptable_unpinned(c, b) == b.path \in DOMAIN resolved_map(c)

\* The answer has the path, at the version the profile pins.
Acceptable(c, b) ==
    /\ b.path \in DOMAIN resolved_map(c)
    /\ b.version \in {0, resolved_map(c)[b.path].version}

\* Without the token, under whatever name; secrets take precedence.
build_child_env(token, secrets) ==
    LET kept == {n \in DOMAIN Parent \ {"SECRETBAE_TOKEN", "SECRETBAE_TOKEN_FILE"} :
                    Parent[n] # token}
    IN  [n \in DOMAIN secrets \cup kept |->
            IF n \in DOMAIN secrets THEN secrets[n] ELSE Parent[n]]

Variables(c) ==
    LET mapped == ToSet(call[c].mapped)
    IN  [n \in {b.name : b \in mapped} |->
            resolved_map(c)[(CHOOSE b \in mapped : b.name = n).path]]

\* The answer is taken apart and the command executed; a pin that does not
\* hold, or a value that is not text, and nothing is.
start_child(c) ==
    /\ At(c, "answering") /\ call[c].via = "exec"
    /\ IF \A b \in ToSet(call[c].mapped) : Acceptable(c, b)
       THEN /\ GoesTo(c, "started")
            /\ child' = [child EXCEPT ![c] = build_child_env(call[c].token, Variables(c))]
       ELSE GoesTo(c, "failed") /\ UNCHANGED child
    /\ UNCHANGED <<others, trace>>
-----------------------------------------------------------------------------
\* History: a batch sees the moments from its arrival to its audit entry.
Resolving(c) == call'[c].at \in {"gate", "path", "fetch", "answering"} /\ ~At(c, "answering")
Observe ==
    moments' = [c \in Caller |->
        IF Resolving(c)
        THEN [readable |-> moments[c].readable \cup Readable',
              current |-> moments[c].current \cup Current']
        ELSE moments[c]]

DaemonStep(c) == \/ authorize_batch(c) \/ authorize_path(c)
                 \/ read_version(c) \/ record(c) \/ fails(c)
ExecStep(c) == list(c) \/ request_batch(c) \/ start_child(c)

Step(c) == \/ accept(c) \/ disconnects(c) \/ violation(c)
           \/ \E t \in Token, n \in 0..(MaxPaths + 1) : read_request(c, t, n)
           \/ \E target \in Target : read_target(c, target)
           \/ DaemonStep(c)
           \/ respond(c) \/ flush(c) \/ respond_error(c) \/ connection_timeout(c)
           \/ \E profile \in Profiles, places \in Sources : run_exec(c, profile, places)
           \/ ExecStep(c) \/ post_fails(c)

Change == \/ \E p \in Path : write(p) \/ \E v \in Version : rollback(p, v) \/ delete(p, v)
          \/ \E g \in Policies : policy_put(g)
          \/ token_revoke

Next == (Change \/ \E c \in Caller : Step(c)) /\ Observe

\* The runtime polls a handler that can run and its timers fire; exec runs
\* on.  Clients of the socket owe nothing: they may stall at any await.
Fairness == \A c \in Caller : /\ WF_vars(DaemonStep(c) /\ Observe)
                              /\ WF_vars(ExecStep(c) /\ Observe)
                              /\ WF_vars(connection_timeout(c) /\ Observe)

Spec == Init /\ [][Next]_vars /\ Fairness
-----------------------------------------------------------------------------
Ended == {"closed", "failed", "started"}

TypeOK ==
    /\ active \in [Path -> SUBSET Version]
    /\ highest \in [Path -> Version]
    /\ current \in [Path -> 0..MaxVersion]
    /\ policy \in Policies /\ revoked \in BOOLEAN /\ changed \in 0..MaxChanges
    /\ \A c \in Caller :
          /\ call[c].at \in {"new", "request", "line", "gate", "path", "fetch",
                             "answering", "refusing", "list"} \cup Ended
          /\ call[c].via \in {None, "socket", "exec"}
          /\ call[c].token \in Token \cup {None}
          /\ call[c].left \in 0..MaxPaths
          /\ call[c].mapped \in Seq(Binding)
          /\ call[c].targets \in Seq(Target) /\ call[c].resolved \in Seq(Item)
          /\ call[c].sent <= Len(call[c].resolved)
    /\ trace \in [Caller -> SUBSET {"denied", "resolve"}]
    /\ moments \in [Caller -> [readable : SUBSET Path, current : SUBSET Item]]

\* The caller has plaintext: bytes on the socket, or a child with secrets.
Delivered(c) == \/ call[c].sent > 0
                \/ At(c, "started") /\ call[c].targets # <<>>

(* What resolve_secrets hands out it has for every path of the batch, in    *)
(* order; at some moment of the batch the token could read the path, and    *)
(* at some moment the version was the current one, or it is the one asked   *)
(* for.  The two moments may differ, and those of two paths.                *)
DeliveredWasSo ==
    \A c \in Caller : Delivered(c) =>
        /\ Complete(c)
        /\ \A i \in DOMAIN Batch(c) :
              LET item == call[c].resolved[i]
              IN  /\ item.path = Batch(c)[i].path
                  /\ item.path \in moments[c].readable
                  /\ IF Batch(c)[i].version = 0 THEN item \in moments[c].current
                     ELSE item.version = Batch(c)[i].version

(* Nobody has plaintext, complete or cut short, that the audit log has no   *)
(* Resolve entry for: record comes before the first byte of the answer.     *)
NothingUnaudited == \A c \in Caller : Delivered(c) => "resolve" \in trace[c]

(* A command is started with every binding of its profile and listings, and *)
(* each has a value of its own path that was current at a moment of the     *)
(* batch, a pinned one too: exec asks for current versions only and gives   *)
(* up when a pin names another (exec.rs:72, 90), so a pin never selects an  *)
(* older version.  The rest is inherited, and nothing inherited is the      *)
(* token the profile was resolved with.                                     *)
ChildEnvironment ==
    \A c \in Caller : At(c, "started") =>
        /\ \A i \in DOMAIN call[c].mapped :
              LET b == call[c].mapped[i]
              IN  /\ b.name \in DOMAIN child[c]
                  /\ child[c][b.name].path = b.path
                  /\ child[c][b.name] \in moments[c].current
                  /\ b.version \in {0, child[c][b.name].version}
        /\ \A n \in DOMAIN child[c] \ {b.name : b \in ToSet(call[c].mapped)} :
              child[c][n] = Parent[n] /\ child[c][n] # call[c].token

(* A connection does not stay open for ever, whatever its client does or    *)
(* does not do, and a run of exec starts its command or gives up.           *)
EveryCallEnds == \A c \in Caller : ~At(c, "new") ~> call[c].at \in Ended
=============================================================================
