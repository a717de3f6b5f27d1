------------------------------ MODULE MCAccess ------------------------------
(* Access on a small instance.                                               *)
EXTENDS Access, SequencesExt

CONSTANTS root, app, spare, live, test

\* Three secrets' paths: one the application may read, one it may not, one
\* nobody has written yet.
Db == <<"prod", "db">>
Key == <<"prod", "key">>
Fresh3 == <<"prod", "new">>
MCPath == {Db, Key, Fresh3}
MCStored == [p \in {Db, Key} |->
                [current |-> TRUE, tags |-> IF p = Db THEN {live} ELSE {}]]

Rule(path, caps, tags) == [path |-> path, capabilities |-> caps, require_tags |-> tags]
Deny(path, caps) == [path |-> path, capabilities |-> caps]

\* Everything below prod that is tagged, but the key.
MCAppPolicy == [rules |-> {Rule(<<"prod", AnyOne>>, {"read", "list"}, {live}),
                           Rule(<<AnyMany, "new">>, {"write"}, {})},
                deny  |-> {Deny(<<"prod", "key">>, None)}]
ListOnly == [rules |-> {Rule(<<AnyMany, "db", AnyMany>>, {"list"}, {})},
             deny  |-> {Deny(<<"prod", AnyMany>>, {"read"})}]

As(t, uid, genuine) == [prefix |-> t, uid |-> uid, genuine |-> genuine]
Root == As(root, 0, TRUE)
App == As(app, 1, TRUE)
OtherUser == As(app, 2, TRUE)
Guess == As(root, 0, FALSE)
Second == As(spare, 1, TRUE)

OnPath(route, c, p) == [route |-> route, caller |-> c, path |-> p]
Tagged(route, c, p, T) == [route |-> route, caller |-> c, path |-> p, tags |-> T]
Plain(route, c) == [route |-> route, caller |-> c, path |-> None]
PutPolicy(n, d) == [route |-> "policy_put", caller |-> Root, path |-> None,
                    name |-> n, document |-> d]
DeletePolicy(n) == [route |-> "policy_delete", caller |-> Root, path |-> None, name |-> n]
Create(names, ttl) == [route |-> "token_create", caller |-> Root, path |-> None,
                       policies |-> names, ttl |-> ttl, bind_uid |-> None]
Revoke(c, t) == [route |-> "token_revoke", caller |-> c, path |-> None, prefix |-> t]

MCRequests ==
    {OnPath("read", c, Db) : c \in {App, OtherUser}}
    \cup {OnPath("read", Second, p) : p \in {Db, Key}}
    \cup {OnPath("read", App, Key), OnPath("versions", App, Db)}
    \cup {OnPath("rollback", Root, Db), OnPath("delete", Root, Db)}
    \cup {Tagged("write", App, Fresh3, {live}), Tagged("tag_add", Root, Key, {live}),
          Tagged("tag_remove", Root, Db, {live})}
    \cup {Tagged("list", App, None, {})}
    \cup {Plain("status", App)}
    \cup {Plain(route, Root) : route \in {"token_list", "policy_list", "audit_verify"}}
    \cup {PutPolicy("app", ListOnly), PutPolicy("ops", Unrestricted),
          PutPolicy("ops", Malformed), DeletePolicy("app")}
    \cup {Create({"unrestricted", "app"}, None), Create({"app"}, 1)}
    \cup {Revoke(Root, app), Revoke(Guess, app), Revoke(App, root)}

Symmetry == Permutations(Worker)

\* Every pattern and every path of up to three segments.
MCPatterns == BoundedSeq({"a", "b", AnyOne, AnyMany}, 3)
MCCandidates == BoundedSeq({"a", "b"}, 3)
=============================================================================
