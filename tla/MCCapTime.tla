------------------------------ MODULE MCCapTime ------------------------------
(* The boot PMP region, a monitor for both processes and the time of one    *)
(* hart; two processes.                                                     *)
EXTENDS S3kLib

Boot ==
  <<cap_mk_pmp(0, 1, MEM_RWX), cap_mk_monitor(0, PROC_CNT), cap_mk_time(0, 0, SLOT_CNT)>>
Boots == {Boot}

\* sched_init and INIT_CAPS agree here.
ASSUME TimeAssumption == WholeTime

Reqs ==
  {cap_mk_time(h, b, e) : h \in Harts, b \in Slots, e \in 1..SLOT_CNT}
    \union {cap_mk_monitor(b, e) : b \in Pids, e \in 1..PROC_CNT}
=============================================================================
