--------------------------------- MODULE Abi ---------------------------------
(***************************************************************************)
(* What the kernel and the user library declare each on its own and have   *)
(* to agree on: the numbers of the system calls, of the registers and of   *)
(* the answers, as places in a sequence, and the 64 bits of a capability,  *)
(* as its fields with their widths.  The other modules name all of them,   *)
(* which is justified by the assumption at the end: TLC evaluates it.      *)
(***************************************************************************)
EXTENDS S3kCalls, S3kCaps
LOCAL INSTANCE SequencesExt

\* The kernel's declarations.
syscall_t ==
  << "GET_INFO", "REG_READ", "REG_WRITE", "SYNC", "SLEEP" >>
  \o << "CAP_READ", "CAP_MOVE", "CAP_DELETE", "CAP_REVOKE", "CAP_DERIVE" >>
  \o << "PMP_LOAD", "PMP_UNLOAD" >>
  \o << "MON_SUSPEND", "MON_RESUME", "MON_STATE_GET", "MON_YIELD", "MON_REG_READ", "MON_REG_WRITE",
        "MON_CAP_READ", "MON_CAP_MOVE", "MON_PMP_LOAD", "MON_PMP_UNLOAD" >>
  \o << "SOCK_SEND", "SOCK_RECV", "SOCK_SENDRECV" >>

reg_t ==
  << "PC", "RA", "SP", "GP", "TP", "T0", "T1", "T2", "S0", "S1",
     "A0", "A1", "A2", "A3", "A4", "A5", "A6", "A7",
     "S2", "S3", "S4", "S5", "S6", "S7", "S8", "S9", "S10", "S11", "T3", "T4", "T5", "T6",
     "TPC", "TSP", "EPC", "ESP", "ECAUSE", "EVAL", "SERVTIME" >>

err_t ==
  << "SUCCESS", "EMPTY", "SRC_EMPTY", "DST_OCCUPIED", "INVALID_INDEX", "INVALID_DERIVATION",
     "INVALID_MONITOR", "INVALID_PID", "INVALID_STATE", "INVALID_PMP", "INVALID_SLOT",
     "INVALID_SOCKET", "INVALID_SYSCALL", "INVALID_REGISTER", "INVALID_CAPABILITY",
     "NO_RECEIVER", "PREEMPTED", "TIMEOUT", "SUSPENDED" >>

capty_t == << "none", "time", "mem", "pmp", "mon", "chan", "sock" >>

ipc_t == [NOYIELD |-> 0, YIELD |-> 1, SDATA |-> 1, SCAP |-> 2, CDATA |-> 4, CCAP |-> 8]

Range16 == << <<"bgn", 16>>, <<"mrk", 16>>, <<"end", 16>> >>

cap_t ==
  [time |-> << <<"type", 4>>, <<"", 4>>, <<"hart", 8>> >> \o Range16,
   mem  |-> << <<"type", 4>>, <<"rwx", 3>>, <<"lck", 1>>, <<"tag", 8>> >> \o Range16,
   pmp  |-> << <<"type", 4>>, <<"rwx", 3>>, <<"used", 1>>, <<"slot", 8>>, <<"addr", 48>> >>,
   mon  |-> << <<"type", 4>>, <<"", 12>> >> \o Range16,
   chan |-> << <<"type", 4>>, <<"", 12>> >> \o Range16,
   sock |-> << <<"type", 4>>, <<"mode", 4>>, <<"perm", 8>>, <<"chan", 16>>, <<"tag", 32>> >>]

\* The library's (the numbers of its calls are SysCalls).
s3k_reg_t ==
  << "PC", "RA", "SP", "GP", "TP", "T0", "T1", "T2", "S0", "S1",
     "A0", "A1", "A2", "A3", "A4", "A5", "A6", "A7",
     "S2", "S3", "S4", "S5", "S6", "S7", "S8", "S9", "S10", "S11", "T3", "T4", "T5", "T6",
     "TPC", "TSP", "EPC", "ESP", "ECAUSE", "EVAL", "SERVTIME" >>

s3k_err_t ==
  << "SUCCESS", "EMPTY", "SRC_EMPTY", "DST_OCCUPIED", "INVALID_INDEX", "INVALID_DERIVATION",
     "INVALID_MONITOR", "INVALID_PID", "INVALID_STATE", "INVALID_PMP", "INVALID_SLOT",
     "INVALID_SOCKET", "INVALID_SYSCALL", "INVALID_REGISTER", "INVALID_CAPABILITY",
     "NO_RECEIVER", "PREEMPTED", "TIMEOUT", "SUSPENDED" >>

s3k_capty_t == << "none", "time", "mem", "pmp", "mon", "chan", "sock" >>

s3k_ipc_t == [NOYIELD |-> 0, YIELD |-> 1, SDATA |-> 1, SCAP |-> 2, CDATA |-> 4, CCAP |-> 8]

s3k_cap_t ==
  [time |-> << <<"type", 4>>, <<"", 4>>, <<"hart", 8>> >> \o Range16,
   mem  |-> << <<"type", 4>>, <<"rwx", 3>>, <<"lck", 1>>, <<"tag", 8>> >> \o Range16,
   pmp  |-> << <<"type", 4>>, <<"rwx", 3>>, <<"used", 1>>, <<"slot", 8>>, <<"addr", 48>> >>,
   mon  |-> << <<"type", 4>>, <<"", 12>> >> \o Range16,
   chan |-> << <<"type", 4>>, <<"", 12>> >> \o Range16,
   sock |-> << <<"type", 4>>, <<"mode", 4>>, <<"perm", 8>>, <<"chan", 16>>, <<"tag", 32>> >>]

Bits(fields) == FoldLeft(LAMBDA n, f : n + f[2], 0, fields)

\* A capability that a program describes is the one that the kernel would make.
ASSUME AbiAgrees ==
  /\ SysCalls = syscall_t /\ s3k_reg_t = reg_t /\ s3k_err_t = err_t
  /\ s3k_capty_t = capty_t /\ s3k_ipc_t = ipc_t
  /\ s3k_cap_t = cap_t /\ \A type \in DOMAIN cap_t : Bits(cap_t[type]) = 64
  /\ \A hart \in 0 .. 1, bgn, end \in 0 .. 2 :
       /\ s3k_mk_time(hart, bgn, end) = cap_mk_time(hart, bgn, end)
       /\ s3k_mk_monitor(bgn, end) = cap_mk_monitor(bgn, end)
       /\ s3k_mk_channel(bgn, end) = cap_mk_channel(bgn, end)
=============================================================================
