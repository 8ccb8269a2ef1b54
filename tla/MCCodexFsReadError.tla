-------------------------- MODULE MCCodexFsReadError --------------------------
(* The two trees of MCCodexFs.                                             *)
EXTENDS MCCodexFs, CodexFsReadError
=============================================================================
