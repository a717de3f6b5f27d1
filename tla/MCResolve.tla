----------------------------- MODULE MCResolve ------------------------------
\* Two paths, one of them pinned or wanted twice; profiles with an explicit
\* entry, with a prefix, with both under one name, and with nothing at all.
EXTENDS Resolve, TLC

CONSTANTS OtherToken, Home

MCPath == {"a", "b"}
MCLeaf == [a |-> "A", b |-> "B"]

Grant(anywhere, readable, listed) ==
    [anywhere |-> anywhere, read |-> readable, list |-> listed]
MCPolicies == {Grant({"read", "list"}, MCPath, MCPath),
               Grant({"read", "list"}, {"a"}, MCPath),
               Grant({}, {}, {})}

Entry(name, path, version) == [name |-> name, path |-> path, version |-> version]
MCProfiles == {[env |-> <<Entry("X", "a", 0), Entry("Y", "a", 1)>>, env_from |-> <<>>],
               [env |-> <<Entry("A", "b", 0)>>, env_from |-> <<MCPath>>],
               [env |-> <<>>, env_from |-> <<MCPath>>],
               [env |-> <<>>, env_from |-> <<>>]}

\* --token-file, token_file of the profile, the two variables, the home file.
MCSources == {<<"absent", "absent", "blank", AppToken, "absent">>,
              <<"absent", "refused", "absent", AppToken, AppToken>>,
              <<OtherToken, "absent", "absent", AppToken, "absent">>}

MCParent == [SECRETBAE_TOKEN |-> AppToken, SECRETBAE_TOKEN_FILE |-> Home,
             COPY |-> AppToken, HOME |-> Home]
=============================================================================
