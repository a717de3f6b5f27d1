------------------------------- MODULE Access -------------------------------
(***************************************************************************)
(* Who may do what, while it changes: every handler authorises, acts and   *)
(* audits, and takes the store lock anew for each, so other requests run   *)
(* in between: a token is revoked after a request passed its gate, a       *)
(* policy replaced between the two halves of a listing.                    *)
(*                                                                         *)
(* What the handlers do to versions is SecretStore's subject: a secret is  *)
(* here its tags and whether it has a readable current version.            *)
(***************************************************************************)
EXTENDS PolicyEngine, FiniteSets, FiniteSetsExt, Functions

CONSTANTS Token,          \* lookup prefixes
          RootToken,      \* the token `initialise' issues
          AppToken,       \* a token issued to an application ...
          AppPolicy,      \* ... and the document of its policy, "app"
          Stored,         \* the secrets stored so far: path -> summary
          Path,           \* secret paths
          Tag,            \* tags
          Patterns,       \* path patterns and ...
          Candidates,     \* ... paths, as operators may write them
          Requests,       \* the requests clients send
          Malformed,      \* a document that is not a policy
          MaxSeconds,     \* the largest i64 number of seconds
          MaxClock,       \* bound on the clock
          Worker,         \* the runtime's worker threads
          MaxRequests     \* bound on the requests accepted

-----------------------------------------------------------------------------
(* The wire.  A caller is the token it presents and the uid of its socket's *)
(* peer; a request has the fields its handler looks at.  Which version it   *)
(* names is left out, a tag selector is the set of tags it selects.         *)

Caller == [prefix : Token, uid : Nat, genuine : BOOLEAN]

PathPattern == Seq(STRING) \ {<<>>}
PolicyRule == [path : PathPattern, capabilities : SUBSET Capability, require_tags : SUBSET Tag]
DenyRule == [path : PathPattern, capabilities : (SUBSET Capability) \cup {None}]
Policy == [rules : SUBSET PolicyRule, deny : SUBSET DenyRule]

EmptyRequest(route) == [route : {route}, caller : Caller, path : {None}]
PathRequest(route) == [route : {route}, caller : Caller, path : Path]
TagRequest(route) == [route : {route}, caller : Caller, path : Path, tags : SUBSET Tag]
ListRequest == [route : {"list"}, caller : Caller, path : {None}, tags : SUBSET Tag]
TokenCreateRequest == [route : {"token_create"}, caller : Caller, path : {None},
                       policies : SUBSET STRING, ttl : Nat \cup {None},
                       bind_uid : Nat \cup {None}]
TokenRevokeRequest == [route : {"token_revoke"}, caller : Caller, path : {None}, prefix : Token]
PolicyPutRequest == [route : {"policy_put"}, caller : Caller, path : {None}, name : STRING,
                     document : Policy \cup {Malformed}]
NameRequest == [route : {"policy_delete"}, caller : Caller, path : {None}, name : STRING]

\* What the command line sends, by group of commands.
SecretCommand == PathRequest("read") \cup PathRequest("versions") \cup PathRequest("rollback")
                 \cup PathRequest("delete") \cup TagRequest("write") \cup ListRequest
                 \cup EmptyRequest("status")
TagCommand == TagRequest("tag_add") \cup TagRequest("tag_remove") \cup ListRequest
TokenCommand == TokenCreateRequest \cup TokenRevokeRequest \cup EmptyRequest("token_list")
PolicyCommand == PolicyPutRequest \cup NameRequest \cup EmptyRequest("policy_list")
AuditCommand == EmptyRequest("audit_verify")

ASSUME RequestAssumption ==
    \A q \in Requests :
        q \in SecretCommand \cup TagCommand \cup TokenCommand \cup PolicyCommand \cup AuditCommand
\* What the secrets table says of a path.
Summary == [current : BOOLEAN, tags : SUBSET Tag]

ASSUME StoredAssumption == DOMAIN Stored \subseteq Path /\ Stored \in [DOMAIN Stored -> Summary]
ASSUME NoneAssumption == None \notin Path /\ None \notin Nat
ASSUME GlobAssumption == Patterns \subseteq Seq(STRING) /\ Candidates \subseteq Seq(STRING)
ASSUME WorkerAssumption == IsFiniteSet(Worker)
ASSUME TokenAssumption == {RootToken, AppToken} \subseteq Token /\ RootToken # AppToken
ASSUME AccessBoundsAssumption ==
    MaxSeconds \in Nat /\ MaxClock \in Nat /\ MaxRequests \in Nat

VARIABLES tokens,          \* tokens: prefix -> record
          policies,        \* policies: name -> id and document
          token_policies,  \* token_policies: the attachments, by policy id
          secrets,         \* secrets and secret_tags: path -> summary
          clock,           \* now_utc, in seconds
          audit,           \* audit: how many successes it holds
          request,         \* the request each worker serves
          accepted,        \* requests accepted so far
          withheld,        \* history: what a request was never entitled to
          issued,          \* history: the policies a token was issued with
          failed,          \* history: the requests answered with an error
          changes          \* history: the steps that changed the tables

tables == <<tokens, policies, token_policies, secrets, audit>>
history == <<withheld, issued, failed, changes>>
vars == <<tables, clock, request, accepted, history>>

Everywhere(caps) == [rules |-> {[path |-> <<AnyMany>>, capabilities |-> caps,
                                 require_tags |-> {}]}, deny |-> {}]
RootPolicy == Everywhere(Capability)
Unrestricted == Everywhere(Capability \ {"admin"})

Idle == [at |-> "idle", req |-> None, seen |-> {}]

Fresh(uid, expiry) == [bound_uid |-> uid, expires_at |-> expiry,
                       revoked_at |-> None, used |-> FALSE]

\* The function f with k mapped to v.
Put(f, k, v) == [x \in DOMAIN f \cup {k} |-> IF x = k THEN v ELSE f[x]]

token_by_prefix(t) == IF t \in DOMAIN tokens THEN tokens[t] ELSE None

policy_names_for_token(t) ==
    {n \in DOMAIN policies : <<t, policies[n].id>> \in token_policies}
policies_for_token(t) == {policies[n].document : n \in policy_names_for_token(t)}

Exists(p) == p \in DOMAIN secrets
TagsOf(p) == IF Exists(p) THEN secrets[p].tags ELSE {}

\* A deployment in use: what `initialise' leaves (its token, bound to uid 0,
\* and two policies), an application's token and policy, the secrets so far.
Init == /\ tokens = [t \in {RootToken, AppToken} |->
                        Fresh(IF t = RootToken THEN 0 ELSE 1, None)]
        /\ policies = [n \in {"root", "unrestricted", "app"} |->
                          CASE n = "root" -> [id |-> 1, document |-> RootPolicy]
                            [] n = "unrestricted" -> [id |-> 2, document |-> Unrestricted]
                            [] n = "app" -> [id |-> 3, document |-> AppPolicy]]
        /\ token_policies = {<<RootToken, 1>>, <<AppToken, 3>>}
        /\ secrets = Stored
        /\ clock = 0
        /\ audit = 0
        /\ request = [w \in Worker |-> Idle]
        /\ accepted = 0
        /\ withheld = [w \in Worker |-> {}]
        /\ issued = [t \in {RootToken, AppToken} |-> policy_names_for_token(t)]
        /\ failed = 0 /\ changes = 0
-----------------------------------------------------------------------------
\* The gate: what check answers to the request q now.
check(q) ==
    /\ token_by_prefix(q.caller.prefix) # None
    /\ authenticate(token_by_prefix(q.caller.prefix), q.caller, clock)
    /\ LET documents == policies_for_token(q.caller.prefix)
           capability == required_capability(q.route)
       IN  IF q.path = None
           THEN grants_without_path(documents, capability)
           ELSE evaluate(documents, capability, q.path, TagsOf(q.path))
-----------------------------------------------------------------------------
(* A request on its way: gate, act, record.                                 *)

At(r, place) == request[r].at = place
GoesTo(r, place) == /\ request' = [request EXCEPT ![r].at = place]
                    /\ UNCHANGED failed
Sees(r, place, seen) ==
    /\ request' = [request EXCEPT ![r].at = place, ![r].seen = seen]
    /\ UNCHANGED failed

Ends(r) == request' = [request EXCEPT ![r] = Idle]
Answers(r) == Ends(r) /\ UNCHANGED failed
Fails(r) == Ends(r) /\ failed' = failed + 1

accept(r, q) ==
    /\ At(r, "idle")
    /\ accepted < MaxRequests
    /\ accepted' = accepted + 1
    /\ request' = [request EXCEPT ![r] = [at |-> "gate", req |-> q, seen |-> {}]]
    /\ UNCHANGED <<tables, clock, failed>>

\* `used' says last_used_at may be set: a failure is ignored.
touch_token(t) == tokens' = [tokens EXCEPT ![t].used = TRUE]

\* check under the store lock, then touch_token (best effort) or record_denial.
gate(r) ==
    /\ At(r, "gate")
    /\ LET q == request[r].req
       IN  IF check(q)
           THEN /\ GoesTo(r, "act")
                /\ touch_token(q.caller.prefix)
           ELSE /\ GoesTo(r, "refused")
                /\ UNCHANGED tokens
    /\ UNCHANGED <<policies, token_policies, secrets, audit, clock>>

\* The answer to a refused caller does not depend on whether append worked; the
\* entries of refusals are not counted.
record_denial(r) ==
    /\ At(r, "refused")
    /\ Answers(r)
    /\ UNCHANGED <<tables, clock>>

\* The last step of the handlers that audit: without its entry no answer.
record(r) ==
    /\ At(r, "record")
    /\ \/ Answers(r) /\ audit' = audit + 1
       \/ Fails(r) /\ UNCHANGED audit
    /\ UNCHANGED <<tokens, policies, token_policies, secrets, clock>>

\* A statement or a transaction of the handler fails and leaves nothing.
fail(r) ==
    /\ At(r, "act")
    /\ Fails(r)
    /\ UNCHANGED <<tables, clock>>

Tick == /\ clock < MaxClock
        /\ clock' = clock + 1
        /\ UNCHANGED <<tables, request, accepted, failed>>
-----------------------------------------------------------------------------
(* The handlers on one path.  Every row they need is looked up again after  *)
(* the gate; a row that is not there is an error, unaudited (see fail).     *)

Acting(r, route) == At(r, "act") /\ request[r].req.route = route
Target(r) == request[r].req.path

Puts(p, summary) == secrets' = Put(secrets, p, summary)
OnlySecrets == UNCHANGED <<tokens, policies, token_policies, audit, clock>>
OnlyRequest == UNCHANGED <<tables, clock>>

read(r) ==
    /\ Acting(r, "read")
    /\ Exists(Target(r)) /\ secrets[Target(r)].current
    /\ GoesTo(r, "record")
    /\ OnlyRequest

versions(r) ==
    /\ Acting(r, "versions")
    /\ Exists(Target(r))
    /\ GoesTo(r, "record")
    /\ OnlyRequest

\* Each tag is a statement of its own: when one fails the earlier ones stay, as
\* does a version that was committed before.
add_tags(r, summary) ==
    \E added \in SUBSET request[r].req.tags :
        /\ Puts(Target(r), [summary EXCEPT !.tags = @ \cup added])
        /\ \/ added = request[r].req.tags /\ GoesTo(r, "record")
           \/ Fails(r)

remove_tags(r) ==
    \E removed \in SUBSET request[r].req.tags :
        /\ Puts(Target(r), [secrets[Target(r)] EXCEPT !.tags = @ \ removed])
        /\ \/ removed = request[r].req.tags /\ GoesTo(r, "record")
           \/ Fails(r)

write(r) ==
    /\ Acting(r, "write")
    /\ add_tags(r, [current |-> TRUE, tags |-> TagsOf(Target(r))])
    /\ OnlySecrets

\* Which versions there are is not modelled: the target is readable or not.
rollback(r) ==
    /\ Acting(r, "rollback")
    /\ Exists(Target(r))
    /\ Puts(Target(r), [secrets[Target(r)] EXCEPT !.current = TRUE])
    /\ GoesTo(r, "record")
    /\ OnlySecrets

\* The last readable version is deleted, or another one.
delete(r) ==
    /\ Acting(r, "delete")
    /\ Exists(Target(r))
    /\ \E left \in {FALSE, secrets[Target(r)].current} :
          Puts(Target(r), [secrets[Target(r)] EXCEPT !.current = left])
    /\ GoesTo(r, "record")
    /\ OnlySecrets

tag_add(r) ==
    /\ Acting(r, "tag_add")
    /\ Exists(Target(r))
    /\ add_tags(r, secrets[Target(r)])
    /\ OnlySecrets

tag_remove(r) ==
    /\ Acting(r, "tag_remove")
    /\ Exists(Target(r))
    /\ remove_tags(r)
    /\ OnlySecrets
-----------------------------------------------------------------------------
(* A listing: the rows under one lock, the caller's policies under another. *)

\* The secrets with a readable version that carry every tag asked for.
Listed(tags) ==
    {[path |-> p, tags |-> secrets[p].tags] :
        p \in {p \in DOMAIN secrets : secrets[p].current /\ tags \subseteq secrets[p].tags}}

list(r) ==
    /\ Acting(r, "list")
    /\ Sees(r, "filter", Listed(request[r].req.tags))
    /\ OnlyRequest

\* The policies as they are by now; the rows and their tags as they were.
filter_visible(r) ==
    /\ At(r, "filter")
    /\ Sees(r, "record",
            {row \in request[r].seen :
                evaluate(policies_for_token(request[r].req.caller.prefix),
                         "list", row.path, row.tags)})
    /\ OnlyRequest
-----------------------------------------------------------------------------
(* Token and policy management.                                             *)

\* A lifetime that does not fit an i64 is dropped, and with it the expiry.
Expiry(ttl) == IF ttl = None \/ ttl > MaxSeconds THEN None ELSE clock + ttl

\* One transaction, given up when a named policy is absent.
create_token(t, row, names) ==
    /\ t \notin DOMAIN tokens
    /\ names \subseteq DOMAIN policies
    /\ tokens' = Put(tokens, t, row)
    /\ token_policies' = token_policies \cup {<<t, policies[n].id>> : n \in names}

token_create(r) ==
    /\ Acting(r, "token_create")
    /\ LET q == request[r].req
       IN  \E t \in Token : create_token(t, Fresh(q.bind_uid, Expiry(q.ttl)), q.policies)
    /\ GoesTo(r, "record")
    /\ UNCHANGED <<policies, secrets, audit, clock>>

\* Revoking twice keeps the first time.
revoke_token(t) ==
    /\ token_by_prefix(t) # None
    /\ tokens' = [tokens EXCEPT ![t].revoked_at = IF @ = None THEN clock ELSE @]

\* Mutation: answered without an entry, as token_list is.
token_revoke_unaudited(r) ==
    /\ Acting(r, "token_revoke")
    /\ revoke_token(request[r].req.prefix)
    /\ Answers(r)
    /\ UNCHANGED <<policies, token_policies, secrets, audit, clock>>

token_revoke(r) ==
    /\ Acting(r, "token_revoke")
    /\ revoke_token(request[r].req.prefix)
    /\ GoesTo(r, "record")
    /\ UNCHANGED <<policies, token_policies, secrets, audit, clock>>

\* The rowid SQLite gives a new policy: one more than the largest in use.
NextId == 1 + Max({0} \cup {policies[n].id : n \in DOMAIN policies})

\* A document that replaces another keeps its id, and so its attachments.
put_policy(name, document) ==
    LET id == IF name \in DOMAIN policies THEN policies[name].id ELSE NextId
    IN  policies' = Put(policies, name, [id |-> id, document |-> document])

policy_put(r) ==
    /\ Acting(r, "policy_put")
    /\ request[r].req.document # Malformed
    /\ put_policy(request[r].req.name, request[r].req.document)
    /\ GoesTo(r, "record")
    /\ UNCHANGED <<tokens, token_policies, secrets, audit, clock>>

\* Mutation: foreign keys off, the attachments stay behind.
delete_policy_uncascaded(name) ==
    /\ name \in DOMAIN policies
    /\ policies' = Restrict(policies, DOMAIN policies \ {name})
    /\ UNCHANGED token_policies

\* ON DELETE CASCADE detaches the policy from every token.
delete_policy(name) ==
    /\ name \in DOMAIN policies
    /\ policies' = Restrict(policies, DOMAIN policies \ {name})
    /\ token_policies' = {a \in token_policies : a[2] # policies[name].id}

policy_delete(r) ==
    /\ Acting(r, "policy_delete")
    /\ delete_policy(request[r].req.name)
    /\ GoesTo(r, "record")
    /\ UNCHANGED <<tokens, secrets, audit, clock>>

\* These are answered and not audited.
Inspects(r, route) == Acting(r, route) /\ Answers(r) /\ OnlyRequest
status(r) == Inspects(r, "status")
token_list(r) == Inspects(r, "token_list")
policy_list(r) == Inspects(r, "policy_list")
audit_verify(r) == Inspects(r, "audit_verify")
-----------------------------------------------------------------------------
(* History.  What a caller is entitled to: a live token of its own and, on  *)
(* a path, no deny rule of any policy it carries and a grant of one.  For a *)
(* listing, whether the policies could show the path under any tags.  To    *)
(* change tokens or policies, a rule with "admin".  On routes without a     *)
(* path nothing is said of deny rules: the code does not look at them there *)
(* (grants_without_path).                                                   *)

Live(caller) ==
    /\ caller.genuine
    /\ caller.prefix \in DOMAIN tokens
    /\ LET t == tokens[caller.prefix]
       IN  /\ t.revoked_at = None
           /\ t.expires_at = None \/ clock < t.expires_at
           /\ t.bound_uid = None \/ t.bound_uid = caller.uid

Attached(caller) ==
    {policies[n].document : n \in {n \in DOMAIN policies :
                          <<caller.prefix, policies[n].id>> \in token_policies}}

PathOpen(caller, capability, p, tags) ==
    /\ \A n \in UNION {d.deny : d \in Attached(caller)} :
          \/ n.capabilities # None /\ capability \notin n.capabilities
          \/ ~matches(n.path, p)
    /\ \E n \in UNION {d.rules : d \in Attached(caller)} :
          /\ capability \in n.capabilities
          /\ matches(n.path, p)
          /\ n.require_tags \subseteq tags

Administers(caller) ==
    \E d \in Attached(caller) : \E n \in d.rules : "admin" \in n.capabilities

ManagementRoutes == {"token_create", "token_revoke", "policy_put", "policy_delete"}

\* The things q needs: its route (or route and path), for a listing each path too.
Needs(q) == {q.path} \cup IF q.route = "list" THEN Path ELSE {}

Entitled(q, x) ==
    LET capability == required_capability(q.route)
    IN  IF q.route = "list" /\ x # None THEN PathOpen(q.caller, capability, x, Tag)
        ELSE /\ Live(q.caller)
             /\ IF x = None THEN q.route \in ManagementRoutes => Administers(q.caller)
                ELSE PathOpen(q.caller, capability, x, TagsOf(x))

Withheld(r) ==
    IF request'[r].at \in {"idle", "refused"} THEN {}
    ELSE {x \in IF At(r, "idle") THEN Needs(request'[r].req) ELSE withheld[r] :
             ~Entitled(request[r].req, x)'}

Issued(t) ==
    IF t \in DOMAIN issued THEN issued[t] \cap DOMAIN policies'
    ELSE policy_names_for_token(t)'

\* Everything but the time a token was last used.
Contents == <<policies, token_policies, secrets,
              [t \in DOMAIN tokens |-> [tokens[t] EXCEPT !.used = TRUE]]>>

HistoryNext == /\ withheld' = [r \in Worker |-> Withheld(r)]
               /\ issued' = [t \in DOMAIN tokens' |-> Issued(t)]
               /\ changes' = IF Contents' = Contents THEN changes ELSE changes + 1

Step(r) ==
    \/ gate(r) \/ record_denial(r) \/ record(r) \/ fail(r)
    \/ read(r) \/ versions(r) \/ write(r) \/ rollback(r) \/ delete(r)
    \/ tag_add(r) \/ tag_remove(r) \/ list(r) \/ filter_visible(r)
    \/ token_create(r) \/ token_revoke(r) \/ policy_put(r) \/ policy_delete(r)
    \/ status(r) \/ token_list(r) \/ policy_list(r) \/ audit_verify(r)

Next == /\ \/ Tick
           \/ \E r \in Worker : \/ Step(r) /\ UNCHANGED accepted
                                \/ \E q \in Requests : accept(r, q)
        /\ HistoryNext

Spec == Init /\ [][Next]_vars
-----------------------------------------------------------------------------
(* Properties.                                                              *)

Places == {"idle", "gate", "refused", "act", "filter", "record"}

\* The tables keep their shape: attachments name tokens and policies that are
\* there, ids are unique, expiry and revocation are times.
TypeOK ==
    /\ DOMAIN tokens \subseteq Token
    /\ \A t \in DOMAIN tokens : /\ tokens[t].expires_at \in Nat \cup {None}
                                /\ tokens[t].revoked_at \in 0..clock \cup {None}
    /\ token_policies \subseteq
          (DOMAIN tokens) \X {policies[n].id : n \in DOMAIN policies}
    /\ \A m, n \in DOMAIN policies : policies[m].id = policies[n].id => m = n
    /\ DOMAIN secrets \subseteq Path
    /\ \A p \in DOMAIN secrets : /\ secrets[p].current \in BOOLEAN
                                 /\ secrets[p].tags \subseteq Tag
    /\ clock \in 0..MaxClock
    /\ accepted \in 0..MaxRequests
    /\ audit \in 0..accepted
    /\ \A r \in Worker : request[r].at \in Places

\* A request acts only for a token that was live, and on a path only where no
\* deny rule of any attached policy stood against its grant, at some moment
\* after it was sent; a listing shows no path the policies kept from the caller
\* all along; tokens and policies change only for a caller with "admin".  Gate
\* and handler take the store lock separately (auth.rs:150), but a revocation,
\* an expiry or a deny rule (policy.rs:134) that was in force when the request
\* was sent is never missed.  It does not say that deny rules hold on routes
\* without a path: they are not looked at there (auth.rs:167).
AllowedAtSomeMoment ==
    \A r \in Worker :
        /\ request[r].at \in {"act", "filter", "record"}
              => request[r].req.path \notin withheld[r]
        /\ At(r, "record") => {row.path : row \in request[r].seen} \cap withheld[r] = {}

\* A token carries no policy it was not issued with: one that is deleted stays
\* detached, also when its name or its rowid is used again (tokens.rs:239).
GrantsOnlyAsIssued ==
    \A t \in DOMAIN tokens : policy_names_for_token(t) \subseteq issued[t]

\* Losing a tag never opens a secret to anyone: a write that failed between its
\* commit and its tags (routes.rs:363) is at most as visible as it should be.
MissingTagsOnlyNarrow ==
    \A t \in DOMAIN tokens, p \in DOMAIN secrets, c \in Capability, x \in Tag :
        evaluate(policies_for_token(t), c, p, secrets[p].tags)
            => evaluate(policies_for_token(t), c, p, secrets[p].tags \cup {x})

\* The table glob.rs fills row by row (glob.rs:18) says a pattern matches a path
\* exactly when the path can be cut into pieces that fit its segments one by
\* one.  It does not change; it is evaluated before the first request.
GlobMatchesReference ==
    accepted = 0 =>
        \A pattern \in Patterns, path \in Candidates :
            matches(pattern, path) <=> MatchesReference(pattern, path)

\* Nothing changes behind the audit table's back: every change to secrets,
\* tokens or policies has its entry, or comes from a request that is about to
\* write it or that was answered with an error (routes.rs:1, "authorize, act,
\* audit").
ChangesAreAccountedFor ==
    changes <= audit + failed + Cardinality({r \in Worker : At(r, "record")})
=============================================================================
