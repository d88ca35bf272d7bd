--------------------------- MODULE MCRifleVampire ---------------------------
(* Small instances of RifleVampire for TLC. *)
EXTENDS RifleVampire

Bullet(op, bytes) == [op |-> op, bytes |-> bytes]
\* Strings copied and handed over, an empty one, a pointer and two pairs.
AllBullets ==
  {Bullet("Fire", 3), Bullet("FireZeroCopy", 3), Bullet("FireZeroCopy", 0),
   Bullet("FireStake", 8), Bullet("FireStakes", 32)}
=============================================================================
