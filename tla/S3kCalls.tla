------------------------------- MODULE S3kCalls -------------------------------
(***************************************************************************)
(* The system calls as the C user library makes them                       *)
(* (common/src/s3k/syscall.c): which call and which argument words each    *)
(* function puts into the registers t0 and a0, a1, ..., and whether it     *)
(* makes the call again when the kernel answers ERR_PREEMPTED.             *)
(***************************************************************************)
EXTENDS Integers, Sequences

\* The numbers of the calls, as their places in s3k_syscall_t.
SysCalls ==
  << "GET_INFO", "REG_READ", "REG_WRITE", "SYNC", "SLEEP",
     "CAP_READ", "CAP_MOVE", "CAP_DELETE", "CAP_REVOKE", "CAP_DERIVE",
     "PMP_LOAD", "PMP_UNLOAD",
     "MON_SUSPEND", "MON_RESUME", "MON_STATE_GET", "MON_YIELD", "MON_REG_READ",
     "MON_REG_WRITE", "MON_CAP_READ", "MON_CAP_MOVE", "MON_PMP_LOAD", "MON_PMP_UNLOAD",
     "SOCK_SEND", "SOCK_RECV", "SOCK_SENDRECV" >>

\* The argument registers that are modelled.  Of the four data words of a
\* message the first is.
ArgRegs == << "A0", "A1", "A2", "A3", "A4" >>

\* sys_args_t: the words of the call's struct, the rest of the union is zero.
sys_args(words) == [i \in 1..Len(ArgRegs) |-> IF i <= Len(words) THEN words[i] ELSE 0]

\* The registers that a call may change, as far as the compiler is told.
Outputs(call) ==
  IF call \in {"SOCK_RECV", "SOCK_SENDRECV"} THEN {"A0", "A1", "A2", "A3", "A4"} ELSE {"A0"}

\* The code around one ecall instruction.
DO_ECALL(call, words) == [call |-> call, a |-> sys_args(words), retry |-> FALSE]

\* The loop of the functions that do not have try in their name.
until_done(req) == [req EXCEPT !.retry = TRUE]

s3k_get_pid == DO_ECALL("GET_INFO", <<0>>)
s3k_get_time == DO_ECALL("GET_INFO", <<1>>)
s3k_get_timeout == DO_ECALL("GET_INFO", <<2>>)
s3k_reg_read(reg) == DO_ECALL("REG_READ", <<reg>>)
s3k_reg_write(reg, val) == DO_ECALL("REG_WRITE", <<reg, val>>)
s3k_sync == DO_ECALL("SYNC", <<1>>)
s3k_sync_mem == DO_ECALL("SYNC", <<0>>)
s3k_sleep(time) == DO_ECALL("SLEEP", <<time>>)
s3k_cap_read(idx) == DO_ECALL("CAP_READ", <<idx>>)

s3k_try_cap_move(src, dst) == DO_ECALL("CAP_MOVE", <<src, dst>>)
s3k_try_cap_delete(idx) == DO_ECALL("CAP_DELETE", <<idx>>)
s3k_try_cap_revoke(idx) == DO_ECALL("CAP_REVOKE", <<idx>>)
s3k_try_cap_derive(src, dst, ncap) == DO_ECALL("CAP_DERIVE", <<src, dst, ncap>>)
s3k_try_pmp_load(idx, slot) == DO_ECALL("PMP_LOAD", <<idx, slot>>)
s3k_try_pmp_unload(idx) == DO_ECALL("PMP_UNLOAD", <<idx>>)
s3k_try_mon_suspend(mon, pid) == DO_ECALL("MON_SUSPEND", <<mon, pid>>)
s3k_try_mon_resume(mon, pid) == DO_ECALL("MON_RESUME", <<mon, pid>>)
s3k_try_mon_state_get(mon, pid) == DO_ECALL("MON_STATE_GET", <<mon, pid>>)
s3k_try_mon_yield(mon, pid) == DO_ECALL("MON_YIELD", <<mon, pid>>)
s3k_try_mon_reg_read(mon, pid, reg) == DO_ECALL("MON_REG_READ", <<mon, pid, reg>>)
s3k_try_mon_reg_write(mon, pid, reg, val) == DO_ECALL("MON_REG_WRITE", <<mon, pid, reg, val>>)
s3k_try_mon_cap_read(mon, pid, idx) == DO_ECALL("MON_CAP_READ", <<mon, pid, idx>>)
s3k_try_mon_cap_move(mon, src_pid, src, dst_pid, dst) == DO_ECALL("MON_CAP_MOVE", <<mon, src_pid, src, dst_pid, dst>>)
s3k_try_mon_pmp_load(mon, pid, idx, slot) == DO_ECALL("MON_PMP_LOAD", <<mon, pid, idx, slot>>)
s3k_try_mon_pmp_unload(mon, pid, idx) == DO_ECALL("MON_PMP_UNLOAD", <<mon, pid, idx>>)
\* A message is a record of a capability index, whether to send it, and data.
s3k_try_sock_send(sock, msg) ==
  DO_ECALL("SOCK_SEND", <<sock, msg.cap_idx, msg.send_cap, msg.data>>)
s3k_try_sock_recv(sock, cap_idx) == DO_ECALL("SOCK_RECV", <<sock, cap_idx>>)
s3k_try_sock_sendrecv(sock, msg) ==
  DO_ECALL("SOCK_SENDRECV", <<sock, msg.cap_idx, msg.send_cap, msg.data>>)

s3k_cap_move(src, dst) == until_done(s3k_try_cap_move(src, dst))
s3k_cap_delete(idx) == until_done(s3k_try_cap_delete(idx))
s3k_cap_revoke(idx) == until_done(s3k_try_cap_revoke(idx))
s3k_cap_derive(src, dst, ncap) == until_done(s3k_try_cap_derive(src, dst, ncap))
s3k_pmp_load(idx, slot) == until_done(s3k_try_pmp_load(idx, slot))
s3k_pmp_unload(idx) == until_done(s3k_try_pmp_unload(idx))
s3k_mon_suspend(mon, pid) == until_done(s3k_try_mon_suspend(mon, pid))
s3k_mon_resume(mon, pid) == until_done(s3k_try_mon_resume(mon, pid))
s3k_mon_state_get(mon, pid) == until_done(s3k_try_mon_state_get(mon, pid))
s3k_mon_yield(mon, pid) == until_done(s3k_try_mon_yield(mon, pid))
s3k_mon_reg_read(mon, pid, reg) == until_done(s3k_try_mon_reg_read(mon, pid, reg))
s3k_mon_reg_write(mon, pid, reg, val) == until_done(s3k_try_mon_reg_write(mon, pid, reg, val))
s3k_mon_cap_read(mon, pid, idx) == until_done(s3k_try_mon_cap_read(mon, pid, idx))
s3k_mon_cap_move(mon, src_pid, src, dst_pid, dst) == until_done(s3k_try_mon_cap_move(mon, src_pid, src, dst_pid, dst))
s3k_mon_pmp_load(mon, pid, idx, slot) == until_done(s3k_try_mon_pmp_load(mon, pid, idx, slot))
s3k_mon_pmp_unload(mon, pid, idx) == until_done(s3k_try_mon_pmp_unload(mon, pid, idx))
s3k_sock_send(sock, msg) == until_done(s3k_try_sock_send(sock, msg))
s3k_sock_recv(sock, cap_idx) == until_done(s3k_try_sock_recv(sock, cap_idx))
s3k_sock_sendrecv(sock, msg) == until_done(s3k_try_sock_sendrecv(sock, msg))
=============================================================================
