---------------------------- MODULE MCCodexFsReset ----------------------------
(* One tree whose record fills a slot of two sectors; generations tell the *)
(* commits apart.                                                          *)
EXTENDS CodexFsReset

CONSTANT tree

MCContents == {tree}
MCRecordSectors == [c \in MCContents |-> 2]
MCSectors == 0 .. 7
=============================================================================
