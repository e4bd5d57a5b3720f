-------------------------------- MODULE MCVfs --------------------------------
(* Vfs with two volumes of a few clusters and blocks.                      *)
EXTENDS Vfs

\* "/", "/a" and "a/"
MCMountPoints == {<<"/">>, <<"/", "a">>, <<"a", "/">>}

\* "/a", "//ab" and "a/b/"; "ab" is on the ext2 volume
MCPaths == {<<"/", "a">>, <<"/", "/", "a", "b">>, <<"a", "/", "b", "/">>}
=============================================================================
