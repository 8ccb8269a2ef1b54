----------------------------- MODULE MCBootChain -----------------------------
(* Releases of one signing key, and a sequence that replaces the key after  *)
(* two releases of the first.                                               *)
EXTENDS BootChain

Release(version, key, next) == [version |-> version, key |-> key, next |-> next]

OneKey == {Release(v, "k1", "none") : v \in 1 .. 3}

Rotation == {Release(1, "k1", "none"), Release(2, "k1", "none"), Release(3, "k1", "k2"),
             Release(4, "k2", "none")}
=============================================================================
