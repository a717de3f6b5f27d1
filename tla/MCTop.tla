------------------------------- MODULE MCTop --------------------------------
\* Three paths and two tags; the listing shrinks, empties, loses its tags or
\* changes its versions from one refresh to the next.
EXTENDS Top

MCText == <<<<"a">>, <<"a", "b">>, <<"b">>>>

MCJoined == [tags \in SUBSET {1, 2} |->
                CASE tags = {} -> 0 [] tags = {1} -> 1
                  [] tags = {1, 2} -> 2 [] tags = {2} -> 3]

Summary(path, count, version, tags, updated) ==
    [path |-> path, version_count |-> count, current_version |-> version,
     tags |-> tags, updated_at |-> updated]

MCListings == {{},
               {Summary(1, 2, 0, {2}, 3), Summary(2, 1, 1, {1}, 2), Summary(3, 3, 2, {}, 1)},
               {Summary(1, 2, 0, {}, 3), Summary(2, 1, 1, {}, 2)},
               {Summary(2, 2, 2, {1, 2}, 4)}}
=============================================================================
