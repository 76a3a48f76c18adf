-------------------------------- MODULE S3kRust -------------------------------
(***************************************************************************)
(* The system calls as the Rust user library makes them                    *)
(* (common/rust/src/syscall.rs), which the file server is written with.    *)
(* Each function with a loop stands here for itself and for the            *)
(* s3k_try_ function that it calls.                                        *)
(*                                                                         *)
(* The library asks for other things than the C library where it names the *)
(* first argument of GET_INFO and of SYNC: its s3k_get_hartid gets the     *)
(* time, its s3k_get_time the end of the time slice, its s3k_sync only     *)
(* loads the memory configuration and its s3k_sync_mem enters the          *)
(* scheduler.                                                              *)
(***************************************************************************)
EXTENDS Integers, Sequences

C == INSTANCE S3kCalls

\* The macros around one ecall instruction.
syscall(call, args) == C!DO_ECALL(call, args)

\* The loop on S3kErr::Preempted.
until_done(req) == [req EXCEPT !.retry = TRUE]

s3k_get_pid == syscall("GET_INFO", <<0>>)
s3k_get_hartid == syscall("GET_INFO", <<1>>)
s3k_get_time == syscall("GET_INFO", <<2>>)
s3k_reg_read(reg) == syscall("REG_READ", <<reg>>)
s3k_reg_write(reg, val) == syscall("REG_WRITE", <<reg, val>>)
s3k_sync_mem == syscall("SYNC", <<1>>)
s3k_sync == syscall("SYNC", <<0>>)
s3k_sleep(time) == syscall("SLEEP", <<time>>)
\* The second word is the address of a local variable.
s3k_cap_read(idx) == syscall("CAP_READ", <<idx, 1>>)

s3k_cap_move(src, dst) == until_done(syscall("CAP_MOVE", <<src, dst>>))
s3k_cap_delete(idx) == until_done(syscall("CAP_DELETE", <<idx>>))
s3k_cap_revoke(idx) == until_done(syscall("CAP_REVOKE", <<idx>>))
s3k_cap_derive(src, dst, ncap) == until_done(syscall("CAP_DERIVE", <<src, dst, ncap>>))
s3k_pmp_load(idx, slot) == until_done(syscall("PMP_LOAD", <<idx, slot>>))
s3k_pmp_unload(idx) == until_done(syscall("PMP_UNLOAD", <<idx>>))
s3k_mon_suspend(mon, pid) == until_done(syscall("MON_SUSPEND", <<mon, pid>>))
s3k_mon_resume(mon, pid) == until_done(syscall("MON_RESUME", <<mon, pid>>))
s3k_mon_state_get(mon, pid) == until_done(syscall("MON_STATE_GET", <<mon, pid>>))
s3k_mon_yield(mon, pid) == until_done(syscall("MON_YIELD", <<mon, pid>>))
s3k_mon_reg_read(mon, pid, reg) == until_done(syscall("MON_REG_READ", <<mon, pid, reg>>))
s3k_mon_reg_write(mon, pid, reg, val) == until_done(syscall("MON_REG_WRITE", <<mon, pid, reg, val>>))
s3k_mon_cap_read(mon, pid, idx) == until_done(syscall("MON_CAP_READ", <<mon, pid, idx>>))
s3k_mon_cap_move(mon, src_pid, src, dst_pid, dst) == until_done(syscall("MON_CAP_MOVE", <<mon, src_pid, src, dst_pid, dst>>))
s3k_mon_pmp_load(mon, pid, idx, slot) == until_done(syscall("MON_PMP_LOAD", <<mon, pid, idx, slot>>))
s3k_mon_pmp_unload(mon, pid, idx) == until_done(syscall("MON_PMP_UNLOAD", <<mon, pid, idx>>))
s3k_sock_send(sock, msg) ==
  until_done(syscall("SOCK_SEND", <<sock, msg.cap_idx, msg.send_cap, msg.data>>))
s3k_sock_recv(sock, cap_idx) == until_done(syscall("SOCK_RECV", <<sock, cap_idx>>))
s3k_sock_sendrecv(sock, msg) ==
  until_done(syscall("SOCK_SENDRECV", <<sock, msg.cap_idx, msg.send_cap, msg.data>>))
=============================================================================
