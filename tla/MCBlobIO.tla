------------------------------- MODULE MCBlobIO -------------------------------
(***************************************************************************)
(* A statement that calls blob_io and one that calls any other function;   *)
(* a stream to read and one to write.                                      *)
(***************************************************************************)
EXTENDS BlobIO

CONSTANTS copy, call, p1, p2

MCStmts == {copy, call}
MCBlobCalls == {copy}
MCPtrs == {p1, p2}
MCReadable == {p1}
MCBufferSizes == {1, 2}
===============================================================================
