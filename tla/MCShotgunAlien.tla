--------------------------- MODULE MCShotgunAlien ---------------------------
(* Small instances of ShotgunAlien for TLC. *)
EXTENDS ShotgunAlien

\* What Fire makes of a string, and an empty vector.
AllShots == {<<"dummy", "bullet">>, <<>>}
=============================================================================
