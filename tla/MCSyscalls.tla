----------------------------- MODULE MCSyscalls -----------------------------
(* Two harts and two processes.  Process 0 makes its calls with the C      *)
(* library: it sets process 1 up as the main function of the exercise does *)
(* (memory, time, a socket, its program counter), starts it, serves its    *)
(* channel and takes away what it gave.  Process 1 makes its calls with    *)
(* the Rust library.                                                       *)
EXTENDS Programs

CONSTANTS h0, h1

R == INSTANCE S3kRust

Boot ==
  <<cap_mk_pmp(0, 1, MEM_RWX), cap_mk_memory(0, 1, 3, MEM_RWX), cap_mk_monitor(0, 2),
    cap_mk_channel(0, 1), cap_mk_time(h0, 0, 1), cap_mk_time(h1, 0, 1)>>
Boots == {Boot}

Msg(idx, send) == [cap_idx |-> idx, send_cap |-> send, data |-> 5]
Socket(mode, tag) == cap_mk_socket(0, mode, {"sdata", "scap", "cdata", "ccap"}, tag)

\* The descriptors that the programs derive.
Descriptors ==
  {cap_mk_time(h1, 0, 1), NoCap, cap_mk_memory(0, 1, 3, MEM_RWX),
   cap_mk_pmp(1, 1, MEM_RWX), cap_mk_pmp(2, 1, {"r", "w"})}
    \union {Socket(mode, tag) : mode \in {"yield", "noyield"}, tag \in 0..1}

\* Calls that are refused, or change nothing that lasts, by either library.
Reads ==
  {s3k_get_pid, s3k_get_time, s3k_get_timeout, s3k_reg_read("SP"), s3k_reg_read("NONE"),
   s3k_sync, s3k_sync_mem, s3k_sleep(0), s3k_sleep(1), s3k_sleep(2),
   s3k_cap_read(0), s3k_cap_read(8), s3k_cap_read(99), s3k_cap_move(8, 0), s3k_cap_move(0, 1),
   s3k_cap_delete(8), s3k_cap_revoke(8), s3k_cap_revoke(0),
   s3k_cap_derive(4, 8, cap_mk_time(h1, 0, 1)), s3k_cap_derive(4, 8, NoCap),
   s3k_pmp_load(8, 0), s3k_pmp_load(1, 0), s3k_pmp_load(0, 7), s3k_pmp_unload(8),
   s3k_sock_send(8, Msg(8, FALSE)), s3k_sock_recv(3, 8), s3k_try_sock_sendrecv(8, Msg(8, FALSE))}
  \union
  {R!s3k_get_pid, R!s3k_get_hartid, R!s3k_get_time, R!s3k_reg_read("PC"), R!s3k_reg_write("NONE", 0),
   R!s3k_sync, R!s3k_sync_mem, R!s3k_sleep(0), R!s3k_cap_read(8), R!s3k_cap_move(0, 0),
   R!s3k_cap_derive(1, 0, NoCap), R!s3k_cap_revoke(9), R!s3k_pmp_unload(1)}

Monitoring ==
  {s3k_mon_state_get(2, 1), s3k_mon_reg_read(2, 1, "PC"), s3k_mon_cap_read(2, 1, 0),
   s3k_mon_yield(2, 1), s3k_mon_pmp_load(2, 0, 0, 0), s3k_mon_pmp_unload(2, 1, 2),
   s3k_mon_pmp_unload(2, 1, 0),
   s3k_try_mon_suspend(0, 1), s3k_try_mon_resume(0, 1), s3k_try_mon_state_get(2, 9),
   s3k_try_mon_yield(1, 1), s3k_try_mon_reg_read(2, 0, "PC"), s3k_try_mon_reg_write(2, 0, "PC", 0),
   s3k_try_mon_cap_read(2, 1, 8), s3k_try_mon_cap_read(1, 1, 0), s3k_try_mon_cap_move(2, 0, 8, 1, 8),
   s3k_try_mon_pmp_load(2, 1, 1, 9), s3k_try_mon_pmp_unload(2, 1, 9)}
  \union
  {R!s3k_mon_suspend(8, 1), R!s3k_mon_resume(2, 9), R!s3k_mon_state_get(2, 0), R!s3k_mon_yield(2, 0),
   R!s3k_mon_reg_read(2, 1, "NONE"), R!s3k_mon_reg_write(2, 9, "PC", 0), R!s3k_mon_cap_read(2, 1, 3),
   R!s3k_mon_cap_move(2, 1, 0, 1, 3), R!s3k_mon_pmp_load(2, 1, 3, 1), R!s3k_mon_pmp_unload(9, 1, 0)}

SetUp ==
  << {s3k_reg_write("TPC", TRAP)},
     Reads,
     {s3k_cap_derive(1, 8, cap_mk_memory(0, 1, 3, MEM_RWX))},
     {s3k_cap_move(8, 6)},
     {s3k_cap_derive(6, 7, cap_mk_pmp(1, 1, MEM_RWX))},
     {s3k_mon_cap_move(2, 0, 7, 1, 0)},
     {s3k_mon_pmp_load(2, 1, 0, 0)},
     {s3k_cap_derive(6, 7, cap_mk_pmp(2, 1, {"r", "w"}))},
     {s3k_pmp_load(7, 1)},
     {s3k_mon_cap_move(2, 0, 7, 1, 1)},
     {s3k_mon_pmp_load(2, 1, 1, 1)},
     {s3k_cap_derive(5, 7, cap_mk_time(h1, 0, 1))},
     {s3k_mon_cap_move(2, 0, 7, 1, 2)},
     {s3k_cap_derive(3, 7, Socket(m, 0)) : m \in {"yield", "noyield"}},
     {s3k_cap_derive(7, 8, Socket("yield", 1))},
     {s3k_cap_derive(7, 8, Socket("noyield", 1))},
     {s3k_mon_cap_move(2, 0, 8, 1, 3)},
     Monitoring,
     {s3k_mon_reg_write(2, 1, "PC", 3)},
     {s3k_reg_write("TPC", 0)},
     {s3k_mon_resume(2, 1)} >>

Serve ==
  << {s3k_sock_recv(7, 8), s3k_mon_suspend(2, 1)},
     {s3k_sock_sendrecv(7, Msg(8, TRUE)), s3k_try_sock_send(7, Msg(8, TRUE)),
      s3k_mon_resume(2, 1), s3k_mon_yield(2, 1), s3k_cap_revoke(6), s3k_cap_revoke(3)} >>

Client ==
  << {R!s3k_sock_sendrecv(3, Msg(1, TRUE)), R!s3k_sock_send(3, Msg(1, FALSE)), R!s3k_cap_revoke(3)},
     {R!s3k_sock_recv(3, 5), R!s3k_pmp_unload(0), R!s3k_cap_delete(3)} >>

Programs == [p \in Pids |-> IF p = 0 THEN SetUp \o Serve ELSE Client]
Codes == [p \in Pids |-> p]
=============================================================================
