---------------------------- MODULE MCRetryQueue ----------------------------
(* Three or four entries; b is larger than a and c, and d is too large for *)
(* the disk and, in some runs, for the memory.                             *)
EXTENDS RetryQueue

CONSTANTS a, b, c, d

MCItems3 == {a, b, c}
MCItems4 == {a, b, c, d}
MCMemSize == [i \in Items |-> IF i = b THEN 2 ELSE IF i = d THEN 3 ELSE 1]
MCDiskSize == [i \in Items |-> IF i = b THEN 2 ELSE IF i = d THEN 9 ELSE 1]
=============================================================================
