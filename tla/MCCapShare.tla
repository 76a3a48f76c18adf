----------------------------- MODULE MCCapShare ------------------------------
(* Two processes and two platforms: one with memory of two blocks, which    *)
(* the boot PMP region reaches into, and one with two channels, of which    *)
(* the second gets sockets, so that the processes pass capabilities,        *)
(* sockets among them, to each other.                                       *)
EXTENDS S3kLib

MemPlatform == <<cap_mk_pmp(0, 2, MEM_RWX), cap_mk_memory(0, 1, 3, {"r", "w"})>>
IpcPlatform == <<cap_mk_pmp(0, 1, MEM_RWX), cap_mk_channel(0, CHAN_CNT)>>
Boots == {MemPlatform, IpcPlatform}

Reqs ==
  {cap_mk_memory(0, b, e, {"r"}) : b \in 1..2, e \in 2..3}
    \union {cap_mk_pmp(1, 1, {"r"}), cap_mk_pmp(2, 1, {"r", "w"})}
    \union {cap_mk_channel(1, 2)}
    \union {cap_mk_socket(1, "yield", {"scap", "ccap"}, t) : t \in {0, 1}}
=============================================================================
