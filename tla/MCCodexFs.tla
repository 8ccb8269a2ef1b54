------------------------------ MODULE MCCodexFs ------------------------------
(* Two trees whose records fill one and three sectors.                    *)
EXTENDS CodexFs

CONSTANTS empty, large

MCContents == {empty, large}
MCRecordSectors == [c \in MCContents |-> IF c = empty THEN 1 ELSE 3]
MCSectors == 0 .. 7
=============================================================================
