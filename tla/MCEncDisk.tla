------------------------------ MODULE MCEncDisk ------------------------------
(* A disk that was never used, whose first sector may look like a boot      *)
(* sector, and a disk that holds a file system in the clear.                *)
EXTENDS EncDisk

Fresh(v) == [meta |-> [NewMetadata EXCEPT !.magic = FALSE],
             data |-> [b \in Blocks |-> Plain(IF b = 0 THEN v ELSE "junk")]]
Formatted == [meta |-> NewMetadata,
              data |-> [b \in Blocks |-> Plain(IF b = 0 THEN "boot" ELSE "zero")]]
StartDisks == {Fresh("junk"), Fresh("boot"), Formatted}
CleanDisks == {Formatted}
=============================================================================
