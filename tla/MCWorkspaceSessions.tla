------------------------ MODULE MCWorkspaceSessions ------------------------
EXTENDS WorkspaceSessions

MCFiles == {<<"a">>, <<"b">>, <<"f", "a">>, <<"g", "a">>}
MCFolders == {<<"f">>, <<"g">>}
MCFirstDisk == [p \in MCFiles \cup MCFolders |->
                  CASE p = <<"a">> -> 1 [] p = <<"f", "a">> -> 2
                    [] p = <<"f">> -> Folder [] OTHER -> Gone]
=============================================================================
