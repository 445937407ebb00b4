-------------------------- MODULE MCPersistedQueue --------------------------
(* Three entries, b twice as large as the others, on a disk with room for  *)
(* two small ones or the large one; d never fits.                          *)
EXTENDS PersistedQueue

CONSTANTS a, b, c, d

MCItems3 == {a, b, c}
MCItems4 == {a, b, c, d}
MCDiskSize == [i \in Items |-> IF i = b THEN 2 ELSE IF i = d THEN 9 ELSE 1]
=============================================================================
