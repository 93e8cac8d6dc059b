--------------------------------- MODULE MCVfs --------------------------------
(***************************************************************************)
(* Two connections; one directory, which may be mounted at / and at /a/,   *)
(* as may be a file x, and which may have the entries a and x.             *)
(***************************************************************************)
EXTENDS LocalVfs

CONSTANTS c1, c2, a, x, root

MCConns == {c1, c2}
MCKeys == {<<>>, <<a>>}
MCPaths == {<<a, x>>, <<a, void, x>>}
MCRoots == {root}
MCNames == {a, x}
MCHandles == {root, x}
===============================================================================
