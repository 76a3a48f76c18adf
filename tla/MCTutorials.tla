----------------------------- MODULE MCTutorials -----------------------------
(* Every project on a machine with two harts; a queue of four descriptors    *)
(* whose indices wrap around at eight; three sectors, so that behind the boot  *)
(* sector two can be read at a time.                                          *)
EXTENDS Tutorials, Abi

CONSTANTS h0, h1

TwoHarts == <<h0, h1>>
Boots == {qemu_virt4}
AllTuts == {"hello_world", "02", "03", "04", "05", "06", "07", "08", "09",
            "exercise", "hello", "pingpong", "trapped"}
=============================================================================
