------------------------------ MODULE SysProofs ------------------------------
(***************************************************************************)
(* The whole system, for every set of programs that use the library as it  *)
(* is meant to be used, every number of harts and processes and every      *)
(* interleaving of their calls with time slices, suspensions, exceptions   *)
(* and messages: every entry into the kernel is a step of the capability   *)
(* operations or leaves the capabilities alone, so that what is proved of  *)
(* them holds of the system; a process finds its registers as the library  *)
(* left them; and a call is answered for what it did.                      *)
(***************************************************************************)
EXTENDS Programs, TreeProofs

-----------------------------------------------------------------------------
(* Where a program is.                                                     *)

IsBefore(k) == k > 0 /\ k % 3 = 0
IsEcall(k) == k > 0 /\ k % 3 = 1
IsRet(k) == k > 0 /\ k % 3 = 2

\* How the program counter moves from one place to the next.
LEMMA Counting ==
  ASSUME NEW k \in Int
  PROVE  /\ IsBefore(k) => IsEcall(k + 1) /\ ~IsEcall(k) /\ ~IsRet(k)
         /\ IsEcall(k) => IsRet(k + 1) /\ ~IsBefore(k) /\ ~IsRet(k)
         /\ IsRet(k) => IsEcall(k - 1) /\ ~IsBefore(k) /\ ~IsEcall(k)
         /\ k - 1 \in Int /\ k + 1 \in Int
BY DEF IsBefore, IsEcall, IsRet

LEMMA Returning ==
  ASSUME NEW k \in Int, IsRet(k)
  PROVE  3 * (1 + k \div 3) \in Int /\ IsBefore(3 * (1 + k \div 3))
<1>1. k \div 3 \in Int /\ k \div 3 >= 0
  BY DEF IsRet
<1>2. ASSUME NEW d \in Int, d >= 0
      PROVE  3 * (1 + d) \in Int /\ 3 * (1 + d) > 0 /\ (3 * (1 + d)) % 3 = 0
  BY <1>2
<1> QED
  BY <1>1, <1>2 DEF IsBefore

LEMMA Starting ==
  /\ ~IsBefore(0) /\ ~IsEcall(0) /\ ~IsRet(0)
  /\ IsBefore(3) /\ ~IsEcall(3) /\ ~IsRet(3)
  /\ TRAP \in Int /\ TRAP # 0 /\ TRAP # 3
  /\ ~IsBefore(TRAP) /\ ~IsEcall(TRAP) /\ ~IsRet(TRAP)
BY DEF IsBefore, IsEcall, IsRet, TRAP

-----------------------------------------------------------------------------
(* The inductive invariant of one process: its registers rs, its library   *)
(* call l, the channel w it waits on, and the history e and m of its call. *)

RecvCalls == {"SOCK_RECV", "SOCK_SENDRECV"}

Fits(l) == sys_args_typed(l) /\ writes_virtual(l)

ArgsLoaded(rs, l) ==
  /\ rs.A0 = l.a[1] /\ rs.A1 = l.a[2] /\ rs.A2 = l.a[3] /\ rs.A3 = l.a[4] /\ rs.A4 = l.a[5]

ArgsKept(rs, l) ==
  l.call \notin RecvCalls =>
    rs.A1 = l.a[2] /\ rs.A2 = l.a[3] /\ rs.A3 = l.a[4] /\ rs.A4 = l.a[5]

\* At the ecall instruction nothing was done yet.
EcallInv(rs, l, e, m) ==
  /\ rs.T0 = l.call /\ ArgsLoaded(rs, l) /\ rs.SP = STACK
  /\ l.call \in OnceCalls => e = 0
  /\ m = NoMail

\* Behind it the answer is the truth about the call.
RetInv(rs, l, e, m) ==
  /\ ArgsKept(rs, l) /\ rs.SP = STACK
  /\ l.call \in OnceCalls => e = IF rs.T0 = "SUCCESS" THEN 1 ELSE 0
  /\ l.call \in RecvCalls =>
       /\ rs.T0 = "SUCCESS" <=> m # NoMail
       /\ rs.T0 = "SUCCESS" => [tag |-> rs.A0, cap |-> rs.A1, data |-> rs.A2] = m
  /\ l.call \notin RecvCalls => m = NoMail

\* Between calls a program has its stack, also one that its trap handler
\* interrupts.
ProcInv(rs, l, w, e, m) ==
  /\ DOMAIN rs = Regs /\ rs.PC \in Int
  /\ IsEcall(rs.PC) \/ IsRet(rs.PC) => Fits(l)
  /\ IsEcall(rs.PC) => EcallInv(rs, l, e, m)
  /\ IsRet(rs.PC) => RetInv(rs, l, e, m)
  /\ w # NULL => IsRet(rs.PC) /\ l.call \in RecvCalls /\ rs.T0 = "TIMEOUT"
  /\ IsBefore(rs.PC) /\ rs.PC # 3 => rs.SP = STACK
  /\ rs.PC = TRAP => /\ rs.EPC \in Int /\ IsBefore(rs.EPC)
                     /\ rs.EPC # 3 => rs.ESP = STACK

\* The kernel answers the call that the process is at.
LEMMA AnswerKeeps ==
  ASSUME NEW rs, NEW l, NEW w, NEW e, NEW m, NEW R, NEW w1, NEW e1,
         ProcInv(rs, l, w, e, m), IsEcall(rs.PC),
         DOMAIN R = Regs, R.PC = rs.PC + 1, R.SP = rs.SP,
         R.A1 = rs.A1, R.A2 = rs.A2, R.A3 = rs.A3, R.A4 = rs.A4,
         l.call \in OnceCalls => e1 = IF R.T0 = "SUCCESS" THEN 1 ELSE 0,
         l.call \in RecvCalls => R.T0 # "SUCCESS",
         w1 # NULL => l.call \in RecvCalls /\ R.T0 = "TIMEOUT"
  PROVE  ProcInv(R, l, w1, e1, m)
<1>1. rs.PC \in Int /\ R.PC \in Int /\ IsRet(R.PC) /\ ~IsEcall(R.PC) /\ ~IsBefore(R.PC)
  BY Counting DEF ProcInv
<1>2. R.PC # TRAP
  BY <1>1, Starting
<1>3. ArgsKept(R, l)
  BY DEF ProcInv, EcallInv, ArgsKept, ArgsLoaded
<1>4. RetInv(R, l, e1, m)
  BY <1>3 DEF ProcInv, EcallInv, RetInv
<1> QED
  BY <1>1, <1>2, <1>4 DEF ProcInv

\* A wait ends.
LEMMA WokenKeeps ==
  ASSUME NEW rs, NEW l, NEW w, NEW e, NEW m, ProcInv(rs, l, w, e, m)
  PROVE  ProcInv(rs, l, NULL, e, m)
BY DEF ProcInv

\* A process that waits is told that it was suspended.
LEMMA SuspendedKeeps ==
  ASSUME NEW rs, NEW l, NEW w, NEW e, NEW m, ProcInv(rs, l, w, e, m), w # NULL
  PROVE  ProcInv([rs EXCEPT !.T0 = "SUSPENDED"], l, NULL, e, m)
<1> DEFINE R == [rs EXCEPT !.T0 = "SUSPENDED"]
<1>1. /\ DOMAIN R = Regs /\ R.T0 = "SUSPENDED" /\ R.PC = rs.PC /\ R.SP = rs.SP /\ R.A0 = rs.A0
      /\ R.A1 = rs.A1 /\ R.A2 = rs.A2 /\ R.A3 = rs.A3 /\ R.A4 = rs.A4
      /\ R.EPC = rs.EPC /\ R.ESP = rs.ESP
  BY DEF ProcInv, Regs
<1> HIDE DEF R
<1>2. l.call \in RecvCalls /\ l.call \notin OnceCalls /\ IsRet(rs.PC) /\ rs.T0 = "TIMEOUT"
  BY DEF ProcInv, RecvCalls, OnceCalls
<1>3. ArgsKept(R, l)
  BY <1>2 DEF ArgsKept
<1>4. RetInv(rs, l, e, m)
  BY <1>2 DEF ProcInv
<1>5. RetInv(R, l, e, m)
  BY <1>1, <1>2, <1>3, <1>4 DEF RetInv
<1>6. ~IsEcall(rs.PC) /\ ~IsBefore(rs.PC) /\ rs.PC # TRAP
  BY <1>2, Counting, Starting DEF ProcInv
<1>7. ProcInv(R, l, NULL, e, m)
  BY <1>1, <1>2, <1>5, <1>6 DEF ProcInv
<1> QED
  BY <1>7 DEF R

\* The registers of a message.
Message(rs, m) ==
  [rs EXCEPT !.T0 = "SUCCESS", !.A0 = m.tag, !.A1 = m.cap, !.A2 = m.data, !.A3 = 0, !.A4 = 0]

\* A process that waits gets a message.
LEMMA DeliveredKeeps ==
  ASSUME NEW rs, NEW l, NEW w, NEW e, NEW m, ProcInv(rs, l, w, e, m), w # NULL,
         NEW t \in Nat, NEW c, NEW d
  PROVE  LET m1 == [tag |-> t, cap |-> c, data |-> d]
         IN  ProcInv(Message(rs, m1), l, NULL, e, m1)
<1> DEFINE m1 == [tag |-> t, cap |-> c, data |-> d]
<1> DEFINE R == Message(rs, m1)
<1>0. m1.tag = t /\ m1.cap = c /\ m1.data = d /\ m1 # NoMail
  BY DEF NoMail
<1>1. /\ DOMAIN R = Regs /\ R.T0 = "SUCCESS" /\ R.PC = rs.PC /\ R.SP = rs.SP
      /\ R.A0 = t /\ R.A1 = c /\ R.A2 = d /\ R.EPC = rs.EPC /\ R.ESP = rs.ESP
  BY <1>0 DEF ProcInv, Regs, Message
<1>2. l.call \in RecvCalls /\ l.call \notin OnceCalls /\ IsRet(rs.PC)
  BY DEF ProcInv, RecvCalls, OnceCalls
<1>3. [tag |-> R.A0, cap |-> R.A1, data |-> R.A2] = m1
  BY <1>1
<1> HIDE DEF R, m1
<1>4. ArgsKept(R, l)
  BY <1>2 DEF ArgsKept
<1>5. RetInv(rs, l, e, m)
  BY <1>2 DEF ProcInv
<1>6. RetInv(R, l, e, m1)
  BY <1>0, <1>1, <1>2, <1>3, <1>4, <1>5 DEF RetInv
<1>7. ~IsEcall(rs.PC) /\ ~IsBefore(rs.PC) /\ rs.PC # TRAP
  BY <1>2, Counting, Starting DEF ProcInv
<1>8. ProcInv(R, l, NULL, e, m1)
  BY <1>1, <1>2, <1>6, <1>7 DEF ProcInv
<1> QED
  BY <1>8 DEF R, m1

\* What load_args writes.
LEMMA LoadArgs ==
  ASSUME NEW rs, NEW req, DOMAIN rs = Regs
  PROVE  LET R == load_args(rs, req) IN
         /\ DOMAIN R = Regs /\ R.T0 = req.call /\ ArgsLoaded(R, req)
         /\ R.PC = rs.PC /\ R.SP = rs.SP /\ R.EPC = rs.EPC /\ R.ESP = rs.ESP
BY DEF load_args, Regs, ArgsLoaded

\* The program calls a function of the library.
LEMMA CallKeeps ==
  ASSUME NEW rs, NEW l, NEW w, NEW e, NEW m, ProcInv(rs, l, w, e, m), IsBefore(rs.PC),
         NEW req, Fits(req), NEW r0, DOMAIN r0 = Regs, r0.PC = rs.PC + 1,
         r0.SP = IF rs.PC = 3 THEN STACK ELSE rs.SP
  PROVE  ProcInv(load_args(r0, req), req, NULL, 0, NoMail)
<1> DEFINE R == load_args(r0, req)
<1>1. DOMAIN r0 = Regs /\ r0.PC = rs.PC + 1 /\ r0.SP = STACK
  BY DEF ProcInv
<1>2. DOMAIN R = Regs /\ R.T0 = req.call /\ ArgsLoaded(R, req) /\ R.PC = rs.PC + 1 /\ R.SP = STACK
  BY <1>1, LoadArgs
<1> HIDE DEF R
<1>3. R.PC \in Int /\ IsEcall(R.PC) /\ ~IsRet(R.PC) /\ ~IsBefore(R.PC) /\ R.PC # TRAP
  BY <1>2, Counting, Starting DEF ProcInv
<1>4. EcallInv(R, req, 0, NoMail)
  BY <1>2 DEF EcallInv
<1>5. ProcInv(R, req, NULL, 0, NoMail)
  BY <1>2, <1>3, <1>4 DEF ProcInv
<1> QED
  BY <1>5 DEF R

\* The library makes a preempted call again.
LEMMA RepeatKeeps ==
  ASSUME NEW rs, NEW l, NEW w, NEW e, NEW m, ProcInv(rs, l, w, e, m),
         IsRet(rs.PC), rs.T0 = "PREEMPTED",
         NEW r0, DOMAIN r0 = Regs, r0.PC = rs.PC - 1, r0.SP = rs.SP
  PROVE  ProcInv(load_args(r0, l), l, NULL, e, m)
<1> DEFINE R == load_args(r0, l)
<1>1. DOMAIN r0 = Regs /\ r0.PC = rs.PC - 1 /\ r0.SP = rs.SP
  OBVIOUS
<1>2. DOMAIN R = Regs /\ R.T0 = l.call /\ ArgsLoaded(R, l) /\ R.PC = rs.PC - 1 /\ R.SP = rs.SP
  BY <1>1, LoadArgs
<1> HIDE DEF R
<1>3. R.PC \in Int /\ IsEcall(R.PC) /\ ~IsRet(R.PC) /\ ~IsBefore(R.PC) /\ R.PC # TRAP
  BY <1>2, Counting, Starting DEF ProcInv
<1>4. RetInv(rs, l, e, m) /\ Fits(l)
  BY DEF ProcInv
<1>5. EcallInv(R, l, e, m)
  BY <1>2, <1>4 DEF EcallInv, RetInv
<1>6. ProcInv(R, l, NULL, e, m)
  BY <1>2, <1>3, <1>4, <1>5 DEF ProcInv
<1> QED
  BY <1>6 DEF R

\* The library hands the answer to the program.
LEMMA ReturnKeeps ==
  ASSUME NEW rs, NEW l, NEW w, NEW e, NEW m, ProcInv(rs, l, w, e, m), IsRet(rs.PC)
  PROVE  ProcInv(load_args([rs EXCEPT !.PC = 3 * (1 + rs.PC \div 3)], NoReq), NoReq, NULL, 0, NoMail)
<1> DEFINE k == 3 * (1 + rs.PC \div 3)
<1>0. k \in Int /\ IsBefore(k)
  BY Returning DEF ProcInv
<1> HIDE DEF k
<1> DEFINE r0 == [rs EXCEPT !.PC = k]
<1> DEFINE R == load_args(r0, NoReq)
<1>1. DOMAIN r0 = Regs /\ r0.PC = k /\ r0.SP = rs.SP
  BY DEF ProcInv, Regs
<1> HIDE DEF r0
<1>2. DOMAIN R = Regs /\ R.PC = k /\ R.SP = rs.SP
  BY <1>1, LoadArgs
<1> HIDE DEF R
<1>3. R.PC \in Int /\ IsBefore(R.PC) /\ ~IsRet(R.PC) /\ ~IsEcall(R.PC) /\ R.PC # TRAP
  BY <1>0, <1>2, Counting, Starting
<1>4. R.SP = STACK
  BY <1>2 DEF ProcInv, RetInv
<1>5. ProcInv(R, NoReq, NULL, 0, NoMail)
  BY <1>2, <1>3, <1>4 DEF ProcInv
<1> QED
  BY <1>5 DEF R, r0, k

\* An exception of the program, and the return from its handler.
LEMMA TrapKeeps ==
  ASSUME NEW rs, NEW l, NEW w, NEW e, NEW m, ProcInv(rs, l, w, e, m),
         IsBefore(rs.PC),
         NEW R, DOMAIN R = Regs, R.PC = TRAP, R.EPC = rs.PC, R.ESP = rs.SP
  PROVE  ProcInv(R, l, NULL, e, m)
<1>1. R.PC \in Int /\ ~IsBefore(R.PC) /\ ~IsEcall(R.PC) /\ ~IsRet(R.PC)
  BY Starting
<1> QED
  BY <1>1 DEF ProcInv

LEMMA TrapReturnKeeps ==
  ASSUME NEW rs, NEW l, NEW w, NEW e, NEW m, ProcInv(rs, l, w, e, m), rs.PC = TRAP,
         NEW R, DOMAIN R = Regs, R.PC = rs.EPC, R.SP = rs.ESP
  PROVE  ProcInv(R, l, NULL, e, m)
<1>1. R.PC \in Int /\ IsBefore(R.PC) /\ (R.PC # 3 => R.SP = STACK)
  BY DEF ProcInv
<1>2. ~IsEcall(R.PC) /\ ~IsRet(R.PC) /\ R.PC # TRAP
  BY <1>1, Counting, Starting
<1> QED
  BY <1>1, <1>2 DEF ProcInv

\* A monitor sets where a process starts, or one of its virtual registers.
LEMMA WrittenKeeps ==
  ASSUME NEW rs, NEW l, NEW w, NEW e, NEW m, ProcInv(rs, l, w, e, m),
         NEW reg, NEW val,
         (reg = "PC" /\ val \in {0, 3}) \/ reg \in {"TPC", "TSP", "SERVTIME"}
  PROVE  ProcInv([rs EXCEPT ![reg] = val], l, NULL, e, m)
<1> DEFINE R == [rs EXCEPT ![reg] = val]
<1>1. DOMAIN R = Regs
  BY DEF ProcInv
<1>2. CASE reg = "PC" /\ val \in {0, 3}
  <2>1. R.PC \in {0, 3}
    BY <1>2 DEF ProcInv, Regs
  <2> HIDE DEF R
  <2>2. R.PC \in Int /\ ~IsEcall(R.PC) /\ ~IsRet(R.PC) /\ R.PC # TRAP
        /\ (IsBefore(R.PC) => R.PC = 3)
    BY <2>1, Starting
  <2>3. ProcInv(R, l, NULL, e, m)
    BY <1>1, <2>2 DEF ProcInv
  <2> QED
    BY <2>3 DEF R
<1>3. CASE reg \in {"TPC", "TSP", "SERVTIME"}
  <2>1. /\ R.T0 = rs.T0 /\ R.PC = rs.PC /\ R.SP = rs.SP /\ R.A0 = rs.A0
        /\ R.A1 = rs.A1 /\ R.A2 = rs.A2 /\ R.A3 = rs.A3 /\ R.A4 = rs.A4
        /\ R.EPC = rs.EPC /\ R.ESP = rs.ESP
    BY <1>3 DEF ProcInv, Regs
  <2> HIDE DEF R
  <2>2. EcallInv(rs, l, e, m) => EcallInv(R, l, e, m)
    BY <2>1 DEF EcallInv, ArgsLoaded
  <2>3. RetInv(rs, l, e, m) => RetInv(R, l, e, m)
    BY <2>1 DEF RetInv, ArgsKept
  <2>4. ProcInv(R, l, NULL, e, m)
    BY <1>1, <2>1, <2>2, <2>3 DEF ProcInv
  <2> QED
    BY <2>4 DEF R
<1> QED
  BY <1>2, <1>3

-----------------------------------------------------------------------------
(* The inductive invariant of the system: every process is as above, no    *)
(* process runs on two harts or runs while it waits, and the hart that     *)
(* keeps the capability lock is in the middle of a cap_revoke.             *)

SysTypes ==
  /\ DOMAIN regs = Pids /\ DOMAIN lib = Pids /\ DOMAIN wait = Pids
  /\ DOMAIN eff = Pids /\ DOMAIN mail = Pids
  /\ run \in [Harts -> Pids \union {NULL}]

ProcsInv == \A q \in Pids : ProcInv(regs[q], lib[q], wait[q], eff[q], mail[q])

HartsInv ==
  /\ \A g, h \in Harts : run[g] = run[h] /\ run[g] # NULL => g = h
  /\ \A h \in Harts : run[h] # NULL => wait[run[h]] = NULL

Revoking(q) ==
  /\ q \in Pids /\ IsEcall(regs[q].PC) /\ regs[q].T0 = "CAP_REVOKE"
  /\ regs[q].A0 \in 0 .. CAP_CNT - 1
LockInv == lock # NULL => lock \in Harts /\ Revoking(run[lock])

SysInv == SysTypes /\ ProcsInv /\ HartsInv /\ LockInv

\* The process of a hart.
LEMMA OnHart ==
  ASSUME SysInv, NEW h \in Harts, run[h] # NULL
  PROVE  /\ run[h] \in Pids /\ wait[run[h]] = NULL
         /\ ProcInv(regs[run[h]], lib[run[h]], NULL, eff[run[h]], mail[run[h]])
         /\ lock # h /\ lock # NULL => lock \in Harts /\ run[lock] \in Pids \ {run[h]}
<1>1. run[h] \in Pids /\ wait[run[h]] = NULL
  BY DEF SysInv, SysTypes, HartsInv
<1>2. ProcInv(regs[run[h]], lib[run[h]], NULL, eff[run[h]], mail[run[h]])
  BY <1>1 DEF SysInv, ProcsInv
<1>3. ASSUME lock # h, lock # NULL PROVE lock \in Harts /\ run[lock] \in Pids \ {run[h]}
  BY <1>3, NullAssumption DEF SysInv, HartsInv, LockInv, Revoking
<1> QED
  BY <1>1, <1>2, <1>3

\* A step on behalf of the process of hart h, to which another process r may
\* be a party that runs nowhere, and after which h runs one of them or nobody.
LEMMA StepKeeps ==
  ASSUME SysInv, NEW h \in Harts, run[h] # NULL,
         NEW r \in Pids \union {NULL}, r # run[h], r # NULL => ~Running(r),
         NEW n \in {run[h], r, NULL},
         DOMAIN regs' = Pids, DOMAIN lib' = Pids, DOMAIN wait' = Pids,
         DOMAIN eff' = Pids, DOMAIN mail' = Pids,
         run' = [run EXCEPT ![h] = n],
         n # NULL => wait'[n] = NULL,
         \A q \in Pids \ {run[h], r} :
           /\ regs'[q] = regs[q] /\ lib'[q] = lib[q] /\ wait'[q] = wait[q]
           /\ eff'[q] = eff[q] /\ mail'[q] = mail[q],
         \A q \in Pids \intersect {run[h], r} :
           ProcInv(regs'[q], lib'[q], wait'[q], eff'[q], mail'[q]),
         lock' = NULL \/ (lock' = lock /\ lock # h)
  PROVE  SysInv'
<1>0. run[h] \in Pids /\ run \in [Harts -> Pids \union {NULL}]
  BY OnHart DEF SysInv, SysTypes
<1>1. SysTypes'
  BY <1>0 DEF SysTypes
<1>2. ProcsInv'
  BY DEF SysInv, ProcsInv
<1>3. ASSUME NEW g \in Harts, g # h
      PROVE  run'[g] = run[g] /\ (run[g] # NULL => run[g] \in Pids \ {run[h], r})
  <2>1. run[g] # NULL => run[g] # run[h]
    BY <1>3 DEF SysInv, HartsInv
  <2>2. run[g] # NULL => run[g] # r
    BY <1>3 DEF Running
  <2> QED
    BY <1>0, <1>3, <2>1, <2>2
<1>4. run'[h] = n
  BY <1>0
<1>5. HartsInv'
  <2>1. ASSUME NEW g \in Harts, NEW k \in Harts, run'[g] = run'[k], run'[g] # NULL
        PROVE  g = k
    BY <1>3, <1>4, <2>1 DEF SysInv, HartsInv
  <2>2. ASSUME NEW g \in Harts, run'[g] # NULL
        PROVE  wait'[run'[g]] = NULL
    BY <1>3, <1>4, <2>2 DEF SysInv, HartsInv
  <2> QED
    BY <2>1, <2>2 DEF HartsInv
<1>6. LockInv'
  <2>1. CASE lock' = NULL
    BY <2>1 DEF LockInv
  <2>2. CASE lock' = lock /\ lock # h /\ lock # NULL
    <3>1. lock \in Harts /\ Revoking(run[lock])
      BY <2>2 DEF SysInv, LockInv
    <3>2. run'[lock] = run[lock] /\ run[lock] \in Pids \ {run[h], r}
      BY <1>3, <2>2, <3>1, NullAssumption DEF Revoking
    <3> QED
      BY <2>2, <3>1, <3>2 DEF LockInv, Revoking
  <2> QED
    BY <2>1, <2>2
<1> QED
  BY <1>1, <1>2, <1>5, <1>6 DEF SysInv

-----------------------------------------------------------------------------
(* The validators.                                                         *)

LEMMA Least ==
  ASSUME NEW W \in SUBSET (1..5), W # {}
  PROVE  \E i \in W : \A j \in W : i <= j
<1>1. CASE 1 \in W
  BY <1>1
<1>2. CASE 1 \notin W /\ 2 \in W
  BY <1>2
<1>3. CASE 1 \notin W /\ 2 \notin W /\ 3 \in W
  BY <1>3
<1>4. CASE 1 \notin W /\ 2 \notin W /\ 3 \notin W /\ 4 \in W
  BY <1>4
<1>5. CASE 1 \notin W /\ 2 \notin W /\ 3 \notin W /\ 4 \notin W /\ 5 \in W
  <2>1. \A j \in W : 5 <= j
    BY <1>5
  <2> QED
    BY <1>5, <2>1
<1>6. \A x \in 1..5 : x = 1 \/ x = 2 \/ x = 3 \/ x = 4 \/ x = 5
  OBVIOUS
<1>7. PICK x \in W : x = 1 \/ x = 2 \/ x = 3 \/ x = 4 \/ x = 5
  BY <1>6
<1> QED
  BY <1>1, <1>2, <1>3, <1>4, <1>5, <1>7

\* A validator that returns SUCCESS found nothing wrong with any argument.
LEMMA ValidArgs ==
  ASSUME NEW h, NEW kinds, Len(kinds) \in 0..5, Validated(h, kinds) = "SUCCESS",
         NEW i \in 1..Len(kinds)
  PROVE  invalid(kinds[i], arg(h, i)) = "SUCCESS"
<1> DEFINE error(k) == invalid(kinds[k], arg(h, k))
<1> DEFINE wrong == {k \in 1..Len(kinds) : error(k) # "SUCCESS"}
<1> DEFINE first == CHOOSE k \in wrong : \A j \in wrong : k <= j
<1>1. Validated(h, kinds) = IF wrong = {} THEN "SUCCESS" ELSE error(first)
  BY DEF Validated
<1>2. CASE wrong # {}
  <2>1. wrong \in SUBSET (1..5)
    OBVIOUS
  <2>2. \E k \in wrong : \A j \in wrong : k <= j
    BY <1>2, <2>1, Least
  <2>3. first \in wrong
    BY <2>2
  <2>4. error(first) # "SUCCESS"
    BY <2>3
  <2> QED
    BY <1>1, <1>2, <2>4
<1>3. CASE wrong = {}
  BY <1>3
<1> QED
  BY <1>2, <1>3

LEMMA Kinds ==
  ASSUME NEW v
  PROVE  /\ invalid("idx", v) = "SUCCESS" => v \in 0 .. CAP_CNT - 1
         /\ invalid("slot", v) = "SUCCESS" => v \in PmpSlots
         /\ invalid("pid", v) = "SUCCESS" => v \in Pids
         /\ invalid("reg", v) = "SUCCESS" => v \in Regs
         /\ invalid("cap", v) = "SUCCESS" => cap_is_valid(v)
BY DEF invalid

\* What is known of the arguments of each call.
LEMMA ArgsValid ==
  ASSUME NEW h
  PROVE  /\ Validated(h, <<"reg">>) = "SUCCESS" => arg(h, 1) \in Regs
         /\ Validated(h, <<"idx">>) = "SUCCESS" => arg(h, 1) \in 0 .. CAP_CNT - 1
         /\ Validated(h, <<"idx", "idx">>) = "SUCCESS" =>
              arg(h, 1) \in 0 .. CAP_CNT - 1 /\ arg(h, 2) \in 0 .. CAP_CNT - 1
         /\ Validated(h, <<"idx", "idx", "cap">>) = "SUCCESS" =>
              arg(h, 1) \in 0 .. CAP_CNT - 1 /\ arg(h, 2) \in 0 .. CAP_CNT - 1
         /\ Validated(h, <<"idx", "slot">>) = "SUCCESS" =>
              arg(h, 1) \in 0 .. CAP_CNT - 1 /\ arg(h, 2) \in PmpSlots
<1>1. Validated(h, <<"reg">>) = "SUCCESS" => invalid("reg", arg(h, 1)) = "SUCCESS"
  BY ValidArgs, Len(<<"reg">>) = 1
<1>2. Validated(h, <<"idx">>) = "SUCCESS" => invalid("idx", arg(h, 1)) = "SUCCESS"
  BY ValidArgs, Len(<<"idx">>) = 1
<1>3. Validated(h, <<"idx", "idx">>) = "SUCCESS" =>
        invalid("idx", arg(h, 1)) = "SUCCESS" /\ invalid("idx", arg(h, 2)) = "SUCCESS"
  BY ValidArgs, Len(<<"idx", "idx">>) = 2
<1>4. Validated(h, <<"idx", "idx", "cap">>) = "SUCCESS" =>
        invalid("idx", arg(h, 1)) = "SUCCESS" /\ invalid("idx", arg(h, 2)) = "SUCCESS"
  BY ValidArgs, Len(<<"idx", "idx", "cap">>) = 3
<1>5. Validated(h, <<"idx", "slot">>) = "SUCCESS" =>
        invalid("idx", arg(h, 1)) = "SUCCESS" /\ invalid("slot", arg(h, 2)) = "SUCCESS"
  BY ValidArgs, Len(<<"idx", "slot">>) = 2
<1> QED
  BY <1>1, <1>2, <1>3, <1>4, <1>5, Kinds

LEMMA MonitorArgsValid ==
  ASSUME NEW h
  PROVE  /\ Validated(h, <<"idx", "pid">>) = "SUCCESS" =>
              arg(h, 1) \in 0 .. CAP_CNT - 1 /\ arg(h, 2) \in Pids
         /\ Validated(h, <<"idx", "pid", "reg">>) = "SUCCESS" =>
              arg(h, 2) \in Pids /\ arg(h, 3) \in Regs
         /\ Validated(h, <<"idx", "pid", "idx">>) = "SUCCESS" =>
              arg(h, 2) \in Pids /\ arg(h, 3) \in 0 .. CAP_CNT - 1
         /\ Validated(h, <<"idx", "pid", "idx", "pid", "idx">>) = "SUCCESS" =>
              /\ arg(h, 2) \in Pids /\ arg(h, 3) \in 0 .. CAP_CNT - 1
              /\ arg(h, 4) \in Pids /\ arg(h, 5) \in 0 .. CAP_CNT - 1
         /\ Validated(h, <<"idx", "pid", "idx", "slot">>) = "SUCCESS" =>
              arg(h, 2) \in Pids /\ arg(h, 3) \in 0 .. CAP_CNT - 1 /\ arg(h, 4) \in PmpSlots
<1>1. Validated(h, <<"idx", "pid">>) = "SUCCESS" =>
        invalid("idx", arg(h, 1)) = "SUCCESS" /\ invalid("pid", arg(h, 2)) = "SUCCESS"
  BY ValidArgs, Len(<<"idx", "pid">>) = 2
<1>2. Validated(h, <<"idx", "pid", "reg">>) = "SUCCESS" =>
        invalid("pid", arg(h, 2)) = "SUCCESS" /\ invalid("reg", arg(h, 3)) = "SUCCESS"
  BY ValidArgs, Len(<<"idx", "pid", "reg">>) = 3
<1>3. Validated(h, <<"idx", "pid", "idx">>) = "SUCCESS" =>
        invalid("pid", arg(h, 2)) = "SUCCESS" /\ invalid("idx", arg(h, 3)) = "SUCCESS"
  BY ValidArgs, Len(<<"idx", "pid", "idx">>) = 3
<1>4. Validated(h, <<"idx", "pid", "idx", "pid", "idx">>) = "SUCCESS" =>
        /\ invalid("pid", arg(h, 2)) = "SUCCESS" /\ invalid("idx", arg(h, 3)) = "SUCCESS"
        /\ invalid("pid", arg(h, 4)) = "SUCCESS" /\ invalid("idx", arg(h, 5)) = "SUCCESS"
  BY ValidArgs, Len(<<"idx", "pid", "idx", "pid", "idx">>) = 5
<1>5. Validated(h, <<"idx", "pid", "idx", "slot">>) = "SUCCESS" =>
        /\ invalid("pid", arg(h, 2)) = "SUCCESS" /\ invalid("idx", arg(h, 3)) = "SUCCESS"
        /\ invalid("slot", arg(h, 4)) = "SUCCESS"
  BY ValidArgs, Len(<<"idx", "pid", "idx", "slot">>) = 4
<1> QED
  BY <1>1, <1>2, <1>3, <1>4, <1>5, Kinds

-----------------------------------------------------------------------------
(* Answers.                                                                *)

\* The registers rs2 in which the call of process p is answered with err: A0
\* and the virtual registers of p may have any value.
Answered(rs2, p, err) ==
  /\ DOMAIN rs2 = Pids
  /\ \A q \in Pids \ {p} : rs2[q] = regs[q]
  /\ DOMAIN rs2[p] = Regs
  /\ rs2[p].PC = regs[p].PC + 1 /\ rs2[p].T0 = err /\ rs2[p].SP = regs[p].SP
  /\ rs2[p].A1 = regs[p].A1 /\ rs2[p].A2 = regs[p].A2
  /\ rs2[p].A3 = regs[p].A3 /\ rs2[p].A4 = regs[p].A4

\* An error, and what it says of how often the call was made.
Failed(err) == err # "SUCCESS"
Times(err) == IF err = "SUCCESS" THEN 1 ELSE 0

LEMMA AnswerIs ==
  ASSUME SysInv, NEW p \in Pids, NEW err
  PROVE  Answered(answer(p, err), p, err)
<1>1. DOMAIN regs = Pids /\ DOMAIN regs[p] = Regs
  BY DEF SysInv, SysTypes, ProcsInv, ProcInv
<1> DEFINE A == answer(p, err)
<1>2. A = [regs EXCEPT ![p] = [regs[p] EXCEPT !.PC = @ + 1, !.T0 = err]]
  BY <1>1 DEF answer
<1>3. DOMAIN A = Pids /\ A[p] = [regs[p] EXCEPT !.PC = @ + 1, !.T0 = err]
      /\ \A q \in Pids \ {p} : A[q] = regs[q]
  BY <1>1, <1>2
<1> HIDE DEF A
<1>4. /\ DOMAIN A[p] = Regs
      /\ A[p].PC = regs[p].PC + 1 /\ A[p].T0 = err /\ A[p].SP = regs[p].SP
      /\ A[p].A1 = regs[p].A1 /\ A[p].A2 = regs[p].A2
      /\ A[p].A3 = regs[p].A3 /\ A[p].A4 = regs[p].A4
  BY <1>1, <1>3 DEF Regs
<1>5. Answered(A, p, err)
  BY <1>3, <1>4 DEF Answered
<1> QED
  BY <1>5 DEF A

\* A handler may also write A0 or a virtual register of the caller.
LEMMA WrittenIs ==
  ASSUME SysInv, NEW p \in Pids, NEW err, NEW reg, NEW val,
         reg \notin {"PC", "SP", "T0", "A1", "A2", "A3", "A4"}
  PROVE  Answered([answer(p, err) EXCEPT ![p][reg] = val], p, err)
<1> DEFINE A == answer(p, err)
<1>1. Answered(A, p, err)
  BY AnswerIs
<1> HIDE DEF A
<1> DEFINE B == [A EXCEPT ![p][reg] = val]
<1>2. B = [A EXCEPT ![p] = [A[p] EXCEPT ![reg] = val]]
  BY <1>1 DEF Answered
<1>3. DOMAIN B = Pids /\ B[p] = [A[p] EXCEPT ![reg] = val]
      /\ \A q \in Pids \ {p} : B[q] = A[q]
  BY <1>1, <1>2 DEF Answered
<1> HIDE DEF B
<1>4. /\ DOMAIN B[p] = Regs
      /\ B[p].PC = A[p].PC /\ B[p].T0 = A[p].T0 /\ B[p].SP = A[p].SP
      /\ B[p].A1 = A[p].A1 /\ B[p].A2 = A[p].A2
      /\ B[p].A3 = A[p].A3 /\ B[p].A4 = A[p].A4
  BY <1>1, <1>3 DEF Regs, Answered
<1>5. Answered(B, p, err)
  BY <1>1, <1>3, <1>4 DEF Answered
<1> QED
  BY <1>5 DEF B, A

LEMMA ValueIs ==
  ASSUME SysInv, NEW p \in Pids, NEW err, NEW val
  PROVE  Answered(answer_value(p, err, val), p, err)
<1> DEFINE reg == "A0"
<1>1. answer_value(p, err, val) = [answer(p, err) EXCEPT ![p][reg] = val]
  BY DEF answer_value
<1>2. reg \notin {"PC", "SP", "T0", "A1", "A2", "A3", "A4"}
  OBVIOUS
<1> HIDE DEF reg
<1>3. Answered([answer(p, err) EXCEPT ![p][reg] = val], p, err)
  BY <1>2, WrittenIs
<1> QED
  BY <1>1, <1>3

\* What is known while the kernel works on a call, and when its handler starts.
InCall(h, call) ==
  /\ run[h] # NULL /\ run[h] \in Pids /\ wait[run[h]] = NULL
  /\ IsEcall(regs[run[h]].PC) /\ regs[run[h]].T0 = call
  /\ lib[run[h]].call = call /\ Fits(lib[run[h]])
  /\ ArgsLoaded(regs[run[h]], lib[run[h]])

AtCall(h, call) == InCall(h, call) /\ lock # h

\* The lock is given back, or was not that of the hart.
LockKept(h) == lock' = NULL \/ (lock' = lock /\ lock # h)

LEMMA AtEcallIs ==
  ASSUME SysInv, NEW h \in Harts, Executes(h), AtEcall(run[h])
  PROVE  AtCall(h, regs[run[h]].T0)
<1>1. run[h] # NULL /\ lock # h /\ IsEcall(regs[run[h]].PC)
  BY DEF Executes, AtEcall, pc, IsEcall
<1>2. /\ run[h] \in Pids /\ wait[run[h]] = NULL
      /\ ProcInv(regs[run[h]], lib[run[h]], NULL, eff[run[h]], mail[run[h]])
  BY <1>1, OnHart
<1>3. Fits(lib[run[h]]) /\ EcallInv(regs[run[h]], lib[run[h]], eff[run[h]], mail[run[h]])
  BY <1>1, <1>2 DEF ProcInv
<1> QED
  BY <1>1, <1>2, <1>3 DEF EcallInv, AtCall, InCall

LEMMA ExecutesIs ==
  ASSUME SysInv, NEW h \in Harts, NEW call, NEW err, executes(h, call, err)
  PROVE  AtCall(h, call) /\ err = "SUCCESS" /\ lib' = lib
BY AtEcallIs DEF executes

LEMMA ArgIs ==
  ASSUME NEW h, NEW call, InCall(h, call)
  PROVE  /\ arg(h, 1) = lib[run[h]].a[1] /\ arg(h, 1) = regs[run[h]].A0
         /\ arg(h, 2) = lib[run[h]].a[2] /\ arg(h, 3) = lib[run[h]].a[3]
         /\ arg(h, 4) = lib[run[h]].a[4] /\ arg(h, 5) = lib[run[h]].a[5]
<1>1. /\ arg(h, 1) = regs[run[h]].A0 /\ arg(h, 2) = regs[run[h]].A1 /\ arg(h, 3) = regs[run[h]].A2
      /\ arg(h, 4) = regs[run[h]].A3 /\ arg(h, 5) = regs[run[h]].A4
  BY DEF arg, ArgRegs
<1> QED
  BY <1>1 DEF InCall, ArgsLoaded

\* A call that is to be made once has not been made.
LEMMA AtCallEffect ==
  ASSUME SysInv, NEW h \in Harts, NEW call, InCall(h, call)
  PROVE  mail[run[h]] = NoMail /\ (call \in OnceCalls => eff[run[h]] = 0)
<1>1. ProcInv(regs[run[h]], lib[run[h]], NULL, eff[run[h]], mail[run[h]])
  BY OnHart DEF InCall
<1> QED
  BY <1>1 DEF InCall, ProcInv, EcallInv

\* The kernel answers a call, and nobody but the caller is a party to it.
LEMMA CallerKeeps ==
  ASSUME SysInv, NEW h \in Harts, NEW call, InCall(h, call), NEW err,
         Answered(regs', run[h], err),
         NEW n \in {run[h], NULL}, run' = [run EXCEPT ![h] = n],
         lib' = lib, wait' = wait, mail' = mail,
         call \in RecvCalls => Failed(err),
         DOMAIN eff' = Pids, \A q \in Pids \ {run[h]} : eff'[q] = eff[q],
         call \in OnceCalls => eff'[run[h]] = Times(err),
         LockKept(h)
  PROVE  SysInv'
<1> DEFINE p == run[h]
<1>1. p \in Pids /\ p # NULL /\ wait[p] = NULL /\ IsEcall(regs[p].PC) /\ lib[p].call = call
  BY DEF InCall
<1>2. ProcInv(regs[p], lib[p], NULL, eff[p], mail[p])
  BY <1>1, OnHart
<1>4. /\ DOMAIN regs = Pids /\ DOMAIN lib = Pids /\ DOMAIN wait = Pids
      /\ DOMAIN eff = Pids /\ DOMAIN mail = Pids
  BY DEF SysInv, SysTypes
<1>6. DOMAIN eff' = Pids /\ (\A q \in Pids \ {p} : eff'[q] = eff[q])
      /\ (call \in OnceCalls => eff'[p] = Times(err))
  OBVIOUS
<1>7. ProcInv(regs'[p], lib[p], NULL, eff'[p], mail[p])
  BY <1>1, <1>2, <1>6, AnswerKeeps DEF Answered, Failed, Times
<1>8. /\ DOMAIN regs' = Pids
      /\ \A q \in Pids \ {p} : regs'[q] = regs[q]
  BY DEF Answered
<1> DEFINE r == NULL
<1>9. /\ r \in Pids \union {NULL} /\ r # run[h] /\ (r # NULL => ~Running(r))
      /\ n \in {run[h], r, NULL} /\ (n # NULL => wait'[n] = NULL)
  BY <1>1, NullAssumption
<1>10. \A q \in Pids \ {run[h], r} :
         /\ regs'[q] = regs[q] /\ lib'[q] = lib[q] /\ wait'[q] = wait[q]
         /\ eff'[q] = eff[q] /\ mail'[q] = mail[q]
  BY <1>6, <1>8
<1>11. \A q \in Pids \intersect {run[h], r} :
         ProcInv(regs'[q], lib'[q], wait'[q], eff'[q], mail'[q])
  BY <1>1, <1>7, NullAssumption
<1>12. run[h] # NULL /\ (lock' = NULL \/ (lock' = lock /\ lock # h))
  BY <1>1 DEF LockKept
<1>13. /\ DOMAIN regs' = Pids /\ DOMAIN lib' = Pids /\ DOMAIN wait' = Pids
       /\ DOMAIN eff' = Pids /\ DOMAIN mail' = Pids
  BY <1>4, <1>6, <1>8
<1> HIDE DEF r, p
<1> QED
  BY <1>9, <1>10, <1>11, <1>12, <1>13, StepKeeps

-----------------------------------------------------------------------------
(* The calls to which nobody but the caller is a party.                    *)

\* A call that did nothing is answered with err, and the process goes on or
\* leaves the hart.
LEMMA QuietKeeps ==
  ASSUME SysInv, NEW h \in Harts, NEW call, InCall(h, call), NEW err, NEW rs, NEW t,
         Answered(rs, run[h], err),
         NEW n \in {run[h], NULL}, trap_handler(h, n, rs, t),
         UNCHANGED procVars, UNCHANGED history, lib' = lib, LockKept(h),
         call \in RecvCalls \union OnceCalls => Failed(err)
  PROVE  SysInv'
<1>1. Answered(regs', run[h], err) /\ run' = [run EXCEPT ![h] = n]
  BY DEF trap_handler
<1>2. wait' = wait /\ eff' = eff /\ mail' = mail
  BY DEF procVars, history
<1>3. (call \in RecvCalls => Failed(err)) /\ (call \in OnceCalls => Failed(err))
  OBVIOUS
<1>4. call \in OnceCalls => eff'[run[h]] = Times(err)
  BY <1>2, <1>3, AtCallEffect DEF Failed, Times
<1>5. DOMAIN eff' = Pids /\ \A q \in Pids \ {run[h]} : eff'[q] = eff[q]
  BY <1>2 DEF SysInv, SysTypes
<1> QED
  BY <1>1, <1>2, <1>3, <1>4, <1>5, CallerKeeps

LEMMA ReturnsKeeps ==
  ASSUME SysInv, NEW h \in Harts, NEW call, AtCall(h, call), NEW err, NEW rs,
         Answered(rs, run[h], err), returns(h, rs), lib' = lib,
         call \in RecvCalls \union OnceCalls => Failed(err)
  PROVE  SysInv' /\ UNCHANGED vars
<1>1. /\ trap_handler(h, run[h], rs, tmo) /\ UNCHANGED vars
      /\ UNCHANGED procVars /\ UNCHANGED history /\ lock' = lock
  BY DEF returns
<1>2. PICK n \in {run[h], NULL} : n = run[h]
  OBVIOUS
<1>3. trap_handler(h, n, rs, tmo)
  BY <1>1, <1>2
<1>4. InCall(h, call) /\ LockKept(h)
  BY <1>1 DEF AtCall, LockKept
<1> QED
  BY <1>1, <1>3, <1>4, QuietKeeps

LEMMA FailsKeeps ==
  ASSUME SysInv, NEW h \in Harts, NEW call, AtCall(h, call), NEW err, fails(h, err), lib' = lib
  PROVE  SysInv' /\ UNCHANGED vars
<1>1. Failed(err) /\ returns(h, answer(run[h], err)) /\ run[h] \in Pids
  BY DEF fails, AtCall, InCall, Failed
<1> QED
  BY <1>1, AnswerIs, ReturnsKeeps

\* The caller leaves the hart without having done anything.
LEMMA LeavesKeeps ==
  ASSUME SysInv, NEW h \in Harts, NEW call, InCall(h, call), NEW err, NEW t,
         trap_handler(h, NULL, answer(run[h], err), t),
         UNCHANGED procVars, UNCHANGED history, lib' = lib, LockKept(h),
         call \in RecvCalls \union OnceCalls => Failed(err)
  PROVE  SysInv'
<1>1. Answered(answer(run[h], err), run[h], err)
  BY AnswerIs DEF InCall
<1> QED
  BY <1>1, QuietKeeps

\* The call changed the table.
LEMMA DoneKeeps ==
  ASSUME SysInv, NEW h \in Harts, NEW call \in OnceCalls, AtCall(h, call), done(h), lib' = lib,
         cap' # cap
  PROVE  SysInv' /\ watch
<1>1. Answered(answer(run[h], "SUCCESS"), run[h], "SUCCESS")
  BY AnswerIs DEF AtCall, InCall
<1>2. /\ watch /\ Effect(run[h]) /\ mail' = mail /\ lock' = lock /\ wait' = wait
      /\ regs' = answer(run[h], "SUCCESS") /\ run' = [run EXCEPT ![h] = run[h]]
  BY DEF done, procVars, trap_handler
<1>3. vars' # vars
  BY DEF vars
<1>4. eff' = [eff EXCEPT ![run[h]] = @ + 1]
  BY <1>2, <1>3 DEF Effect
<1>5. call \notin RecvCalls
  BY DEF OnceCalls, RecvCalls
<1>6. Answered(regs', run[h], "SUCCESS")
  BY <1>1, <1>2
<1>10. InCall(h, call) /\ LockKept(h)
  BY <1>2 DEF AtCall, LockKept
<1>7. eff[run[h]] = 0 /\ run[h] \in Pids /\ DOMAIN eff = Pids
  BY <1>10, AtCallEffect DEF InCall, SysInv, SysTypes
<1>8. DOMAIN eff' = Pids /\ eff'[run[h]] = 1 /\ \A q \in Pids \ {run[h]} : eff'[q] = eff[q]
  BY <1>4, <1>7
<1>9. SysInv'
  BY <1>2, <1>5, <1>6, <1>8, <1>10, CallerKeeps DEF Times
<1> QED
  BY <1>2, <1>9

\* GET_INFO, REG_READ, REG_WRITE, SYNC, SLEEP and CAP_READ.
LEMMA GetInfoKeeps ==
  ASSUME SysInv, NEW h \in Harts, handle_get_info(h)
  PROVE  SysInv' /\ UNCHANGED vars
<1> DEFINE val == CASE arg(h, 1) = 0 -> run[h]
                    [] arg(h, 1) = 1 -> "time"
                    [] arg(h, 1) = 2 -> "timeout"
                    [] OTHER -> 0
<1>1. executes(h, "GET_INFO", validate_get_info(h)) /\ returns(h, answer_value(run[h], "SUCCESS", val))
  BY DEF handle_get_info
<1> HIDE DEF val
<1>2. AtCall(h, "GET_INFO") /\ lib' = lib /\ run[h] \in Pids
  BY <1>1, ExecutesIs DEF AtCall, InCall
<1>3. "GET_INFO" \notin RecvCalls \union OnceCalls
  BY DEF RecvCalls, OnceCalls
<1>4. Answered(answer_value(run[h], "SUCCESS", val), run[h], "SUCCESS")
  BY <1>2, ValueIs
<1> QED
  BY <1>1, <1>2, <1>3, <1>4, ReturnsKeeps

LEMMA RegReadKeeps ==
  ASSUME SysInv, NEW h \in Harts, handle_reg_read(h)
  PROVE  SysInv' /\ UNCHANGED vars
<1> DEFINE val == answer(run[h], "SUCCESS")[run[h]][arg(h, 1)]
<1>1. /\ executes(h, "REG_READ", validate_reg_read(h))
      /\ returns(h, answer_value(run[h], "SUCCESS", val))
  BY DEF handle_reg_read, answer_value
<1> HIDE DEF val
<1>2. AtCall(h, "REG_READ") /\ lib' = lib /\ run[h] \in Pids
  BY <1>1, ExecutesIs DEF AtCall, InCall
<1>3. "REG_READ" \notin RecvCalls \union OnceCalls
  BY DEF RecvCalls, OnceCalls
<1>4. Answered(answer_value(run[h], "SUCCESS", val), run[h], "SUCCESS")
  BY <1>2, ValueIs
<1> QED
  BY <1>1, <1>2, <1>3, <1>4, ReturnsKeeps

LEMMA RegWriteKeeps ==
  ASSUME SysInv, NEW h \in Harts, handle_reg_write(h)
  PROVE  SysInv' /\ UNCHANGED vars
<1> DEFINE rs == [answer(run[h], "SUCCESS") EXCEPT ![run[h]][arg(h, 1)] = arg(h, 2)]
<1>1. executes(h, "REG_WRITE", validate_reg_write(h)) /\ returns(h, rs)
  BY DEF handle_reg_write
<1>2. AtCall(h, "REG_WRITE") /\ lib' = lib /\ run[h] \in Pids
  BY <1>1, ExecutesIs DEF AtCall, InCall
<1>3. "REG_WRITE" \notin RecvCalls \union OnceCalls
  BY DEF RecvCalls, OnceCalls
<1>4. arg(h, 1) \notin {"PC", "SP", "A1", "A2", "A3", "A4"}
  BY <1>2, ArgIs DEF AtCall, InCall, Fits, writes_virtual
<1>5. CASE arg(h, 1) # "T0"
  <2>1. arg(h, 1) \notin {"PC", "SP", "T0", "A1", "A2", "A3", "A4"}
    BY <1>4, <1>5
  <2>2. Answered(rs, run[h], "SUCCESS")
    BY <1>2, <2>1, WrittenIs
  <2> HIDE DEF rs
  <2> QED
    BY <1>1, <1>2, <1>3, <2>2, ReturnsKeeps
<1>6. CASE arg(h, 1) = "T0"
  <2> DEFINE A == answer(run[h], "SUCCESS")
  <2>1. Answered(A, run[h], "SUCCESS")
    BY <1>2, AnswerIs
  <2>2. rs = [A EXCEPT ![run[h]] = [A[run[h]] EXCEPT !.T0 = arg(h, 2)]]
    BY <1>6
  <2> HIDE DEF rs, A
  <2>3. /\ DOMAIN rs = Pids /\ rs[run[h]] = [A[run[h]] EXCEPT !.T0 = arg(h, 2)]
        /\ \A q \in Pids \ {run[h]} : rs[q] = A[q]
    BY <1>2, <2>1, <2>2 DEF Answered
  <2>4. Answered(rs, run[h], arg(h, 2))
    BY <2>1, <2>3 DEF Answered, Regs
  <2> QED
    BY <1>1, <1>2, <1>3, <2>4, ReturnsKeeps
<1> QED
  BY <1>5, <1>6

LEMMA SyncKeeps ==
  ASSUME SysInv, NEW h \in Harts, handle_sync(h)
  PROVE  SysInv' /\ UNCHANGED vars
<1>1. InCall(h, "SYNC") /\ lib' = lib /\ run[h] \in Pids
  BY ExecutesIs DEF handle_sync, AtCall, InCall
<1>2. "SYNC" \notin RecvCalls \union OnceCalls
  BY DEF RecvCalls, OnceCalls
<1>3. UNCHANGED vars /\ UNCHANGED procVars /\ UNCHANGED history /\ LockKept(h)
  BY ExecutesIs DEF handle_sync, AtCall, LockKept
<1>4. CASE trap_handler(h, NULL, answer(run[h], "SYNC"), [tmo EXCEPT ![run[h]] = "past"])
  BY <1>1, <1>2, <1>3, <1>4, LeavesKeeps
<1>5. CASE regs' = answer(run[h], "SYNC") /\ run' = run
  <2>1. Answered(regs', run[h], "SYNC")
    BY <1>1, <1>5, AnswerIs
  <2>2. run' = [run EXCEPT ![h] = run[h]]
    BY <1>5 DEF SysInv, SysTypes
  <2>3. wait' = wait /\ eff' = eff /\ mail' = mail /\ DOMAIN eff = Pids
    BY <1>3 DEF procVars, history, SysInv, SysTypes
  <2> QED
    BY <1>1, <1>2, <1>3, <2>1, <2>2, <2>3, CallerKeeps
<1> QED
  BY <1>4, <1>5 DEF handle_sync

LEMMA SleepKeeps ==
  ASSUME SysInv, NEW h \in Harts, handle_sleep(h)
  PROVE  SysInv' /\ UNCHANGED vars
<1>1. InCall(h, "SLEEP") /\ lib' = lib
  BY ExecutesIs DEF handle_sleep, AtCall
<1>2. "SLEEP" \notin RecvCalls \union OnceCalls
  BY DEF RecvCalls, OnceCalls
<1>3. UNCHANGED vars /\ UNCHANGED procVars /\ UNCHANGED history /\ LockKept(h)
  BY ExecutesIs DEF handle_sleep, AtCall, LockKept
<1>4. \E t : trap_handler(h, NULL, answer(run[h], "SUCCESS"), t)
  BY DEF handle_sleep
<1> QED
  BY <1>1, <1>2, <1>3, <1>4, LeavesKeeps

LEMMA CapReadKeeps ==
  ASSUME SysInv, NEW h \in Harts, handle_cap_read(h)
  PROVE  SysInv' /\ UNCHANGED vars
<1>1. /\ executes(h, "CAP_READ", validate_cap_read(h))
      /\ returns(h, answer_value(run[h], read_error(own(h, 1)), cap[own(h, 1)]))
  BY DEF handle_cap_read
<1>2. AtCall(h, "CAP_READ") /\ lib' = lib /\ run[h] \in Pids
  BY <1>1, ExecutesIs DEF AtCall, InCall
<1>3. "CAP_READ" \notin RecvCalls \union OnceCalls
  BY DEF RecvCalls, OnceCalls
<1>4. Answered(answer_value(run[h], read_error(own(h, 1)), cap[own(h, 1)]), run[h], read_error(own(h, 1)))
  BY <1>2, ValueIs
<1> QED
  BY <1>1, <1>2, <1>3, <1>4, ReturnsKeeps

-----------------------------------------------------------------------------
(* The calls on the capability table.                                      *)

Index == 0 .. CAP_CNT - 1

\* The slots that a process names with its arguments are slots of its table.
LEMMA OwnIs ==
  ASSUME NEW h, NEW call, InCall(h, call), NEW i, arg(h, i) \in Index
  PROVE  own(h, i) \in CTE /\ cte_pid(own(h, i)) = run[h]
BY DEF own, CTE, cte_pid, AtCall, InCall, Index

LEMMA OwnTogether ==
  ASSUME NEW h, NEW call, InCall(h, call), NEW i, NEW j, arg(h, i) \in Index, arg(h, j) \in Index
  PROVE  own(h, j) \in Own(own(h, i))
BY DEF own, cte_pid, AtCall, InCall, Index, Own

\* The operations change the table.
LEMMA MoveChanges ==
  ASSUME TypeInv, NEW src \in CTE, NEW dst \in CTE, cap_move(src, dst)
  PROVE  cap' # cap /\ src \in Live
<1>1. cap \in [CTE -> Cap] /\ src # dst /\ cap[src].type # "none"
  BY DEF TypeInv, TypeOK, cap_move, cte_is_empty
<1>2. \E d : cap' = [cap EXCEPT ![src] = NoCap, ![dst] = d]
  BY DEF cap_move, cap_ipc_move_hook
<1>3. cap'[src] = NoCap
  BY <1>1, <1>2
<1> QED
  BY <1>1, <1>3, NoCapTyped DEF Live

LEMMA DeleteChanges ==
  ASSUME TypeInv, NEW c \in CTE, cap_delete(c)
  PROVE  cap' # cap
<1>1. cap \in [CTE -> Cap] /\ cap[c].type # "none" /\ cap' = [cap EXCEPT ![c] = NoCap]
  BY DEF TypeInv, TypeOK, cap_delete, cte_is_empty
<1>2. cap'[c] = NoCap
  BY <1>1
<1> QED
  BY <1>1, <1>2, NoCapTyped

LEMMA DeriveChanges ==
  ASSUME TypeInv, NEW src \in CTE, NEW dst \in CTE, NEW new, cap_derive(src, dst, new)
  PROVE  cap' # cap /\ src \in Live /\ dst \notin Live
<1>1. cap \in [CTE -> Cap] /\ cap[src].type # "none" /\ cap[dst].type = "none"
  BY DEF TypeInv, TypeOK, cap_derive, cte_is_empty
<1>2. new.type # "none"
  BY DEF cap_derive, cap_derive_time, cap_derive_memory, cap_derive_monitor, cap_derive_channel,
         cap_derive_socket
<1>3. \E s : cap' = [cap EXCEPT ![src] = s, ![dst] = new]
  BY DEF cap_derive, cap_derive_time, cap_derive_memory, cap_derive_monitor, cap_derive_channel,
         cap_derive_socket, derive_into
<1>4. cap'[dst] = new
  BY <1>1, <1>3
<1> QED
  BY <1>1, <1>2, <1>4 DEF Live

LEMMA LoadChanges ==
  ASSUME TypeInv, NEW c \in CTE, NEW slot \in PmpSlots, cap_pmp_load(c, slot)
  PROVE  cap' # cap
<1>1. /\ cap \in [CTE -> Cap] /\ cap[c].type = "pmp" /\ ~cap[c].used
      /\ cap' = [cap EXCEPT ![c] = [cap[c] EXCEPT !.used = TRUE, !.slot = slot]]
  BY DEF TypeInv, TypeOK, cap_pmp_load
<1>2. cap[c] \in PmpCap
  BY <1>1, CapVariant
<1>3. cap'[c] = [cap[c] EXCEPT !.used = TRUE, !.slot = slot]
  BY <1>1
<1>4. cap'[c].used
  BY <1>2, <1>3 DEF PmpCap
<1> QED
  BY <1>1, <1>4

LEMMA UnloadChanges ==
  ASSUME TypeInv, NEW c \in CTE, cap_pmp_unload(c)
  PROVE  cap' # cap
<1>1. /\ cap \in [CTE -> Cap] /\ cap[c].type = "pmp" /\ cap[c].used
      /\ cap' = [cap EXCEPT ![c] = [cap[c] EXCEPT !.used = FALSE, !.slot = 0]]
  BY DEF TypeInv, TypeOK, cap_pmp_unload
<1>2. cap[c] \in PmpCap
  BY <1>1, CapVariant
<1>3. cap'[c] = [cap[c] EXCEPT !.used = FALSE, !.slot = 0]
  BY <1>1
<1>4. ~cap'[c].used
  BY <1>2, <1>3 DEF PmpCap
<1> QED
  BY <1>1, <1>4

LEMMA CapMoveKeeps ==
  ASSUME SysInv, TypeInv, NEW h \in Harts, handle_cap_move(h)
  PROVE  SysInv' /\ [Next]_vars
<1>1. AtCall(h, "CAP_MOVE") /\ lib' = lib /\ validate_cap_move(h) = "SUCCESS"
  BY ExecutesIs DEF handle_cap_move
<1>2. own(h, 1) \in CTE /\ own(h, 2) \in CTE
  BY <1>1, ArgsValid, OwnIs DEF AtCall, validate_cap_move, Index
<1>3. CASE fails(h, move_error(own(h, 1), own(h, 2)))
  BY <1>1, <1>3, FailsKeeps
<1>4. CASE cap_move(own(h, 1), own(h, 2)) /\ UNCHANGED channels /\ done(h)
  <2>1. cap' # cap /\ own(h, 1) \in Live
    BY <1>2, <1>4, MoveChanges
  <2>2. SysInv' /\ watch
    BY <1>1, <1>4, <2>1, DoneKeeps DEF OnceCalls
  <2> QED
    BY <1>2, <1>4, <2>1, <2>2 DEF Next
<1> QED
  BY <1>3, <1>4 DEF handle_cap_move

LEMMA CapDeleteKeeps ==
  ASSUME SysInv, TypeInv, NEW h \in Harts, handle_cap_delete(h)
  PROVE  SysInv' /\ [Next]_vars
<1>1. AtCall(h, "CAP_DELETE") /\ lib' = lib /\ validate_cap_delete(h) = "SUCCESS"
  BY ExecutesIs DEF handle_cap_delete
<1> DEFINE c == own(h, 1)
<1>2. c \in CTE
  BY <1>1, ArgsValid, OwnIs DEF AtCall, validate_cap_delete, Index
<1>3. CASE fails(h, read_error(c))
  BY <1>1, <1>3, FailsKeeps
<1>4. CASE cap_delete(c) /\ channels' = cap_delete_socket(channels, c) /\ done(h)
  <2>1. cap' # cap
    BY <1>2, <1>4, DeleteChanges
  <2>2. SysInv' /\ watch
    BY <1>1, <1>4, <2>1, DoneKeeps DEF OnceCalls
  <2> QED
    BY <1>2, <1>4, <2>2 DEF Next
<1> QED
  BY <1>3, <1>4 DEF handle_cap_delete

LEMMA CapDeriveKeeps ==
  ASSUME SysInv, TypeInv, NEW h \in Harts, handle_cap_derive(h)
  PROVE  SysInv' /\ [Next]_vars
<1>1. AtCall(h, "CAP_DERIVE") /\ lib' = lib /\ validate_cap_derive(h) = "SUCCESS"
  BY ExecutesIs DEF handle_cap_derive
<1> DEFINE src == own(h, 1)
<1> DEFINE dst == own(h, 2)
<1> DEFINE new == arg(h, 3)
<1>2. src \in CTE /\ dst \in CTE /\ dst \in Own(src)
  BY <1>1, ArgsValid, OwnIs, OwnTogether DEF AtCall, validate_cap_derive, Index
<1>3. new \in Requests
  BY <1>1, ArgIs DEF AtCall, InCall, Fits, sys_args_typed
<1>4. CASE fails(h, derive_error(src, dst, new))
  BY <1>1, <1>4, FailsKeeps
<1>5. CASE cap_derive(src, dst, new) /\ done(h)
  <2>1. cap' # cap /\ src \in Live /\ dst \notin Live
    BY <1>2, <1>5, DeriveChanges
  <2>2. SysInv' /\ watch
    BY <1>1, <1>5, <2>1, DoneKeeps DEF OnceCalls
  <2> HIDE DEF src, dst, new
  <2> QED
    BY <1>2, <1>3, <1>5, <2>1, <2>2 DEF Next
<1> QED
  BY <1>4, <1>5 DEF handle_cap_derive

LEMMA PmpLoadKeeps ==
  ASSUME SysInv, TypeInv, NEW h \in Harts, handle_pmp_load(h)
  PROVE  SysInv' /\ [Next]_vars
<1>1. AtCall(h, "PMP_LOAD") /\ lib' = lib /\ validate_pmp_load(h) = "SUCCESS"
  BY ExecutesIs DEF handle_pmp_load
<1> DEFINE c == own(h, 1)
<1> DEFINE slot == arg(h, 2)
<1>2. c \in CTE /\ slot \in PmpSlots
  BY <1>1, ArgsValid, OwnIs DEF AtCall, validate_pmp_load, Index
<1>3. CASE fails(h, pmp_load_error(c, slot))
  BY <1>1, <1>3, FailsKeeps
<1>4. CASE cap_pmp_load(c, slot) /\ done(h)
  <2>1. cap' # cap
    BY <1>2, <1>4, LoadChanges
  <2>2. SysInv' /\ watch
    BY <1>1, <1>4, <2>1, DoneKeeps DEF OnceCalls
  <2> HIDE DEF c, slot
  <2> QED
    BY <1>2, <1>4, <2>2 DEF Next
<1> QED
  BY <1>3, <1>4 DEF handle_pmp_load

LEMMA PmpUnloadKeeps ==
  ASSUME SysInv, TypeInv, NEW h \in Harts, handle_pmp_unload(h)
  PROVE  SysInv' /\ [Next]_vars
<1>1. AtCall(h, "PMP_UNLOAD") /\ lib' = lib /\ validate_pmp_unload(h) = "SUCCESS"
  BY ExecutesIs DEF handle_pmp_unload
<1> DEFINE c == own(h, 1)
<1>2. c \in CTE
  BY <1>1, ArgsValid, OwnIs DEF AtCall, validate_pmp_unload, Index
<1>3. CASE fails(h, pmp_unload_error(c))
  BY <1>1, <1>3, FailsKeeps
<1>4. CASE cap_pmp_unload(c) /\ done(h)
  <2>1. cap' # cap
    BY <1>2, <1>4, UnloadChanges
  <2>2. SysInv' /\ watch
    BY <1>1, <1>4, <2>1, DoneKeeps DEF OnceCalls
  <2> HIDE DEF c
  <2> QED
    BY <1>2, <1>4, <2>2 DEF Next
<1> QED
  BY <1>3, <1>4 DEF handle_pmp_unload

-----------------------------------------------------------------------------
(* cap_revoke.                                                             *)

\* An iteration is a step of the capability operations.
LEMMA IterationIs ==
  ASSUME NEW c \in CTE, revoke_iteration(c), watch
  PROVE  [Next]_vars
BY DEF revoke_iteration, Next

LEMMA GoesOnKeeps ==
  ASSUME SysInv, NEW h \in Harts, InCall(h, "CAP_REVOKE"), lib' = lib,
         arg(h, 1) \in Index, revoke_goes_on(h)
  PROVE  SysInv' /\ [Next]_vars
<1>1. revoke_iteration(own(h, 1)) /\ watch /\ UNCHANGED procVars /\ UNCHANGED history
  BY DEF revoke_goes_on
<1>2. own(h, 1) \in CTE
  BY OwnIs
<1>3. [Next]_vars
  BY <1>1, <1>2, IterationIs
<1>4. CASE lock' = NULL /\ trap_handler(h, run[h], answer(run[h], "SUCCESS"), tmo)
  <2>1. Answered(answer(run[h], "SUCCESS"), run[h], "SUCCESS")
    BY AnswerIs DEF InCall
  <2>2. "CAP_REVOKE" \notin RecvCalls \union OnceCalls
    BY DEF RecvCalls, OnceCalls
  <2>3. LockKept(h)
    BY <1>4 DEF LockKept
  <2>4. PICK n \in {run[h], NULL} : n = run[h]
    OBVIOUS
  <2>5. trap_handler(h, n, answer(run[h], "SUCCESS"), tmo)
    BY <1>4, <2>4
  <2>6. SysInv'
    BY <1>1, <2>1, <2>2, <2>3, <2>5, QuietKeeps
  <2> QED
    BY <1>3, <2>6
<1>5. CASE lock' = h /\ UNCHANGED <<regs, run, hw, due, tmo>>
  <2>1. /\ regs' = regs /\ run' = run /\ lib' = lib /\ wait' = wait
        /\ eff' = eff /\ mail' = mail /\ lock' = h
    BY <1>1, <1>5 DEF procVars, history
  <2>2. Revoking(run[h])
    BY ArgIs DEF InCall, Revoking, Index
  <2>3. SysTypes' /\ ProcsInv' /\ HartsInv'
    BY <2>1 DEF SysInv, SysTypes, ProcsInv, HartsInv
  <2>4. LockInv'
    BY <2>1, <2>2 DEF LockInv, Revoking
  <2> QED
    BY <1>3, <2>3, <2>4 DEF SysInv
<1> QED
  BY <1>4, <1>5 DEF revoke_goes_on

LEMMA HandleRevokeKeeps ==
  ASSUME SysInv, TypeInv, NEW h \in Harts, handle_cap_revoke(h)
  PROVE  SysInv' /\ [Next]_vars
<1>1. AtCall(h, "CAP_REVOKE") /\ lib' = lib /\ validate_cap_revoke(h) = "SUCCESS"
  BY ExecutesIs DEF handle_cap_revoke
<1>2. arg(h, 1) \in Index
  BY <1>1, ArgsValid DEF validate_cap_revoke, Index
<1>3. CASE fails(h, read_error(own(h, 1)))
  BY <1>1, <1>3, FailsKeeps
<1>4. CASE revoke_goes_on(h)
  BY <1>1, <1>2, <1>4, GoesOnKeeps DEF AtCall
<1> QED
  BY <1>3, <1>4 DEF handle_cap_revoke

\* The hart that has the lock is in a cap_revoke.
LEMMA RevokeKeeps ==
  ASSUME SysInv, TypeInv, NEW h \in Harts, cap_revoke(h)
  PROVE  SysInv' /\ [Next]_vars
<1>1. lock = h /\ lock # NULL /\ lib' = lib
  BY NoneAssumption DEF cap_revoke
<1>2. Revoking(run[h]) /\ run[h] # NULL
  BY <1>1, NullAssumption DEF SysInv, LockInv, Revoking
<1>3. ProcInv(regs[run[h]], lib[run[h]], NULL, eff[run[h]], mail[run[h]]) /\ wait[run[h]] = NULL
  BY <1>2, OnHart
<1>4. InCall(h, "CAP_REVOKE")
  BY <1>2, <1>3 DEF Revoking, ProcInv, EcallInv, InCall
<1>5. arg(h, 1) \in Index
  BY <1>2, <1>4, ArgIs DEF Revoking, Index
<1>6. CASE revoke_goes_on(h)
  BY <1>1, <1>4, <1>5, <1>6, GoesOnKeeps
<1>7. CASE /\ lock' = NULL
           /\ trap_handler(h, NULL, answer(run[h], "PREEMPTED"), tmo)
           /\ UNCHANGED vars /\ UNCHANGED procVars /\ UNCHANGED history
  BY <1>1, <1>4, <1>7, LeavesKeeps DEF LockKept, Failed
<1> QED
  BY <1>6, <1>7 DEF cap_revoke

-----------------------------------------------------------------------------
(* The calls to which another process may be a party.                      *)

TimedOut(err) == err = "TIMEOUT"

\* The kernel answers the call of the process of hart h with err, after which
\* it may wait, does something to another process r that runs nowhere, and h
\* runs n.
Party(h, call, err, rs, r, n) ==
  LET p == run[h] IN
  /\ InCall(h, call) /\ Answered(rs, p, err)
  /\ r \in Pids \union {NULL} /\ r # p /\ (r # NULL => ~Running(r))
  /\ n \in {p, r, NULL} /\ run' = [run EXCEPT ![h] = n] /\ lib' = lib
  /\ DOMAIN regs' = Pids /\ DOMAIN wait' = Pids /\ DOMAIN eff' = Pids /\ DOMAIN mail' = Pids
  /\ regs'[p] = rs[p] /\ mail'[p] = mail[p]
  /\ \A q \in Pids \ {p, r} :
       regs'[q] = rs[q] /\ wait'[q] = wait[q] /\ eff'[q] = eff[q] /\ mail'[q] = mail[q]
  /\ wait'[p] # NULL => call \in RecvCalls /\ TimedOut(err) /\ n # p
  /\ n = r /\ r # NULL => wait'[r] = NULL
  /\ call \in RecvCalls => Failed(err)
  /\ call \in OnceCalls => eff'[p] = Times(err)
  /\ r # NULL => ProcInv(regs'[r], lib[r], wait'[r], eff'[r], mail'[r])
  /\ LockKept(h)

LEMMA PartyKeeps ==
  ASSUME SysInv, NEW h \in Harts, NEW call, NEW err, NEW rs, NEW r, NEW n,
         Party(h, call, err, rs, r, n)
  PROVE  SysInv'
<1>0. /\ InCall(h, call) /\ Answered(rs, run[h], err)
      /\ r \in Pids \union {NULL} /\ r # run[h] /\ (r # NULL => ~Running(r))
      /\ n \in {run[h], r, NULL} /\ run' = [run EXCEPT ![h] = n] /\ lib' = lib
      /\ DOMAIN regs' = Pids /\ DOMAIN wait' = Pids /\ DOMAIN eff' = Pids /\ DOMAIN mail' = Pids
      /\ regs'[run[h]] = rs[run[h]] /\ mail'[run[h]] = mail[run[h]]
      /\ \A q \in Pids \ {run[h], r} :
           regs'[q] = rs[q] /\ wait'[q] = wait[q] /\ eff'[q] = eff[q] /\ mail'[q] = mail[q]
      /\ wait'[run[h]] # NULL => call \in RecvCalls /\ TimedOut(err) /\ n # run[h]
      /\ n = r /\ r # NULL => wait'[r] = NULL
      /\ call \in RecvCalls => Failed(err)
      /\ call \in OnceCalls => eff'[run[h]] = Times(err)
      /\ r # NULL => ProcInv(regs'[r], lib[r], wait'[r], eff'[r], mail'[r])
      /\ LockKept(h)
  BY DEF Party
<1>1. run[h] \in Pids /\ run[h] # NULL /\ wait[run[h]] = NULL /\ IsEcall(regs[run[h]].PC)
      /\ lib[run[h]].call = call
  BY <1>0 DEF InCall
<1>2. ProcInv(regs[run[h]], lib[run[h]], NULL, eff[run[h]], mail[run[h]])
  BY <1>1, OnHart
<1>3. ProcInv(regs'[run[h]], lib[run[h]], wait'[run[h]], eff'[run[h]], mail[run[h]])
  BY <1>0, <1>1, <1>2, AnswerKeeps DEF Answered, Failed, Times, TimedOut
<1>4. \A q \in Pids \ {run[h], r} :
        /\ regs'[q] = regs[q] /\ lib'[q] = lib[q] /\ wait'[q] = wait[q]
        /\ eff'[q] = eff[q] /\ mail'[q] = mail[q]
  BY <1>0 DEF Answered
<1>5. \A q \in Pids \intersect {run[h], r} :
        ProcInv(regs'[q], lib'[q], wait'[q], eff'[q], mail'[q])
  BY <1>0, <1>3, NullAssumption
<1>6. n # NULL => wait'[n] = NULL
  BY <1>0
<1>7. lock' = NULL \/ (lock' = lock /\ lock # h)
  BY <1>0 DEF LockKept
<1>8. DOMAIN lib' = Pids
  BY <1>0 DEF SysInv, SysTypes
<1> QED
  BY <1>0, <1>1, <1>4, <1>5, <1>6, <1>7, <1>8, StepKeeps

\* A process that waits runs nowhere.
LEMMA WaitingRests ==
  ASSUME SysInv, NEW q \in Pids, wait[q] # NULL
  PROVE  ~Running(q) /\ ProcInv(regs[q], lib[q], wait[q], eff[q], mail[q])
BY NullAssumption DEF SysInv, HartsInv, ProcsInv, Running

LEMMA DomainsIs ==
  ASSUME SysInv
  PROVE  /\ DOMAIN regs = Pids /\ DOMAIN lib = Pids /\ DOMAIN wait = Pids
         /\ DOMAIN eff = Pids /\ DOMAIN mail = Pids
         /\ run \in [Harts -> Pids \union {NULL}]
BY DEF SysInv, SysTypes

\* s3k_mon_suspend.
LEMMA SuspendKeeps ==
  ASSUME SysInv, TypeInv, NEW h \in Harts, handle_mon_suspend(h)
  PROVE  SysInv' /\ UNCHANGED vars
<1>1. AtCall(h, "MON_SUSPEND") /\ lib' = lib /\ validate_mon_suspend(h) = "SUCCESS"
  BY ExecutesIs DEF handle_mon_suspend
<1>2. arg(h, 2) \in Pids
  BY <1>1, MonitorArgsValid DEF validate_mon_suspend
<1>3. CASE fails(h, monitor_error(h, FALSE))
  BY <1>1, <1>3, FailsKeeps
<1>4. CASE cap_monitor_suspend(h)
  <2> DEFINE q == arg(h, 2)
  <2> DEFINE p == run[h]
  <2> DEFINE rs == answer(p, "SUCCESS")
  <2>1. /\ wait' = [wait EXCEPT ![q] = NULL]
        /\ regs' = IF wait[q] = NULL THEN rs ELSE [rs EXCEPT ![q].T0 = "SUSPENDED"]
        /\ run' = [run EXCEPT ![h] = p] /\ UNCHANGED vars /\ eff' = eff /\ mail' = mail /\ lock' = lock
    BY <1>4 DEF cap_monitor_suspend, trap_handler, history
  <2>2. Answered(rs, p, "SUCCESS") /\ p \in Pids /\ p # NULL /\ wait[p] = NULL /\ InCall(h, "MON_SUSPEND")
    BY <1>1, AnswerIs DEF AtCall, InCall
  <2>3. LockKept(h)
    BY <1>1, <2>1 DEF AtCall, LockKept
  <2>4. "MON_SUSPEND" \notin RecvCalls /\ "MON_SUSPEND" \notin OnceCalls
    BY DEF RecvCalls, OnceCalls
  <2>5. DOMAIN wait' = Pids /\ DOMAIN eff' = Pids /\ DOMAIN mail' = Pids
        /\ wait'[q] = NULL /\ wait'[p] = NULL /\ \A x \in Pids \ {q} : wait'[x] = wait[x]
    BY <1>2, <2>1, <2>2, DomainsIs
  <2>6. CASE wait[q] = NULL
    <3>1. /\ DOMAIN regs' = Pids /\ regs'[p] = rs[p]
          /\ \A x \in Pids \ {p, NULL} :
               regs'[x] = rs[x] /\ wait'[x] = wait[x] /\ eff'[x] = eff[x] /\ mail'[x] = mail[x]
      BY <2>1, <2>2, <2>5, <2>6 DEF Answered
    <3> HIDE DEF rs, q
    <3>2. Party(h, "MON_SUSPEND", "SUCCESS", rs, NULL, p)
      BY <1>1, <2>1, <2>2, <2>3, <2>4, <2>5, <3>1 DEF Party
    <3>3. SysInv'
      BY <3>2, PartyKeeps
    <3> QED
      BY <2>1, <3>3
  <2>7. CASE wait[q] # NULL
    <3>1. ~Running(q) /\ ProcInv(regs[q], lib[q], wait[q], eff[q], mail[q]) /\ q # p
      BY <1>2, <2>2, <2>7, WaitingRests
    <3>2. rs[q] = regs[q] /\ DOMAIN rs = Pids /\ q \in Pids
      BY <1>2, <2>2, <3>1 DEF Answered
    <3> HIDE DEF rs, q
    <3>3. /\ DOMAIN regs' = Pids /\ regs'[q] = [regs[q] EXCEPT !.T0 = "SUSPENDED"]
          /\ \A x \in Pids \ {q} : regs'[x] = rs[x]
      BY <2>1, <2>7, <3>2
    <3>4. ProcInv(regs'[q], lib[q], wait'[q], eff'[q], mail'[q])
      BY <2>1, <2>5, <2>7, <3>1, <3>3, SuspendedKeeps
    <3>5. /\ regs'[p] = rs[p] /\ q \in Pids
          /\ \A x \in Pids \ {p, q} :
               regs'[x] = rs[x] /\ wait'[x] = wait[x] /\ eff'[x] = eff[x] /\ mail'[x] = mail[x]
      BY <1>2, <2>1, <2>2, <2>5, <3>1, <3>3 DEF q
    <3>6. Party(h, "MON_SUSPEND", "SUCCESS", rs, q, p)
      BY <1>1, <2>1, <2>2, <2>3, <2>4, <2>5, <3>1, <3>3, <3>4, <3>5 DEF Party
    <3>7. SysInv'
      BY <3>6, PartyKeeps
    <3> QED
      BY <2>1, <3>7
  <2> QED
    BY <2>6, <2>7
<1> QED
  BY <1>3, <1>4 DEF handle_mon_suspend

\* s3k_mon_resume.
LEMMA ResumeKeeps ==
  ASSUME SysInv, TypeInv, NEW h \in Harts, handle_mon_resume(h)
  PROVE  SysInv' /\ UNCHANGED vars
<1>1. AtCall(h, "MON_RESUME") /\ lib' = lib
  BY ExecutesIs DEF handle_mon_resume
<1>2. CASE fails(h, monitor_error(h, FALSE))
  BY <1>1, <1>2, FailsKeeps
<1>3. CASE cap_monitor_resume(h)
  <2>1. /\ wait' = wait /\ eff' = eff /\ mail' = mail /\ lock' = lock /\ UNCHANGED vars
        /\ regs' = answer(run[h], "SUCCESS") /\ run' = [run EXCEPT ![h] = run[h]]
    BY <1>3 DEF cap_monitor_resume, trap_handler, history
  <2>2. InCall(h, "MON_RESUME") /\ LockKept(h) /\ run[h] \in Pids
    BY <1>1, <2>1 DEF AtCall, InCall, LockKept
  <2>3. Answered(regs', run[h], "SUCCESS")
    BY <2>1, <2>2, AnswerIs
  <2>4. "MON_RESUME" \notin RecvCalls /\ "MON_RESUME" \notin OnceCalls
    BY DEF RecvCalls, OnceCalls
  <2>5. DOMAIN eff' = Pids
    BY <2>1, DomainsIs
  <2>6. SysInv'
    BY <1>1, <2>1, <2>2, <2>3, <2>4, <2>5, CallerKeeps
  <2> QED
    BY <2>1, <2>6
<1> QED
  BY <1>2, <1>3 DEF handle_mon_resume

\* s3k_mon_state_get, s3k_mon_reg_read and s3k_mon_cap_read.
LEMMA MonitorReadKeeps ==
  ASSUME SysInv, NEW h \in Harts,
         \/ handle_mon_state_get(h) \/ handle_mon_reg_read(h) \/ handle_mon_cap_read(h)
  PROVE  SysInv' /\ UNCHANGED vars
<1>1. ASSUME NEW call \in {"MON_STATE_GET", "MON_REG_READ", "MON_CAP_READ"}, NEW e, NEW err,
             executes(h, call, e),
             fails(h, err) \/ \E er, val : returns(h, answer_value(run[h], er, val))
      PROVE  SysInv' /\ UNCHANGED vars
  <2>1. AtCall(h, call) /\ lib' = lib /\ run[h] \in Pids
    BY <1>1, ExecutesIs DEF AtCall, InCall
  <2>2. CASE fails(h, err)
    BY <2>1, <2>2, FailsKeeps
  <2>3. ASSUME NEW er, NEW val, returns(h, answer_value(run[h], er, val))
        PROVE  SysInv' /\ UNCHANGED vars
    <3>1. Answered(answer_value(run[h], er, val), run[h], er)
      BY <2>1, ValueIs
    <3>2. call \notin RecvCalls \union OnceCalls
      BY <1>1 DEF RecvCalls, OnceCalls
    <3> QED
      BY <2>1, <2>3, <3>1, <3>2, ReturnsKeeps
  <2> QED
    BY <1>1, <2>2, <2>3
<1>2. handle_mon_state_get(h) => SysInv' /\ UNCHANGED vars
  BY <1>1 DEF handle_mon_state_get, cap_monitor_state_get
<1>3. handle_mon_reg_read(h) => SysInv' /\ UNCHANGED vars
  BY <1>1 DEF handle_mon_reg_read, cap_monitor_reg_read
<1>4. handle_mon_cap_read(h) => SysInv' /\ UNCHANGED vars
  BY <1>1 DEF handle_mon_cap_read, cap_monitor_cap_read
<1> QED
  BY <1>2, <1>3, <1>4

\* s3k_mon_yield.
LEMMA YieldKeeps ==
  ASSUME SysInv, TypeInv, NEW h \in Harts, handle_mon_yield(h)
  PROVE  SysInv' /\ UNCHANGED vars
<1> DEFINE q == arg(h, 2)
<1> DEFINE p == run[h]
<1> DEFINE rs == answer(p, "SUCCESS")
<1> DEFINE err == either(monitor_error(h, FALSE),
                         IF proc_acquirable(q) THEN "SUCCESS" ELSE "INVALID_STATE")
<1>1. AtCall(h, "MON_YIELD") /\ lib' = lib /\ validate_mon_yield(h) = "SUCCESS"
  BY ExecutesIs DEF handle_mon_yield
<1>2. q \in Pids
  BY <1>1, MonitorArgsValid DEF validate_mon_yield
<1>3. CASE fails(h, err)
  <2> HIDE DEF err
  <2> QED
    BY <1>1, <1>3, FailsKeeps
<1>4. CASE err = "SUCCESS" /\ cap_monitor_yield(h)
  <2>1. /\ wait' = [wait EXCEPT ![q] = NULL] /\ regs' = rs
        /\ run' = [run EXCEPT ![h] = q] /\ UNCHANGED vars /\ eff' = eff /\ mail' = mail /\ lock' = lock
    BY <1>4 DEF cap_monitor_yield, trap_handler, history
  <2>2. Answered(rs, p, "SUCCESS") /\ p \in Pids /\ p # NULL /\ wait[p] = NULL /\ InCall(h, "MON_YIELD")
    BY <1>1, AnswerIs DEF AtCall, InCall
  <2>3. LockKept(h)
    BY <1>1, <2>1 DEF AtCall, LockKept
  <2>4. "MON_YIELD" \notin RecvCalls /\ "MON_YIELD" \notin OnceCalls
    BY DEF RecvCalls, OnceCalls
  <2>5. DOMAIN wait' = Pids /\ DOMAIN eff' = Pids /\ DOMAIN mail' = Pids
        /\ wait'[q] = NULL /\ wait'[p] = NULL /\ \A x \in Pids \ {q} : wait'[x] = wait[x]
    BY <1>2, <2>1, <2>2, DomainsIs
  <2>6. proc_acquirable(q)
    BY <1>4 DEF either
  <2>7. ~Running(q) /\ q # p
    BY <2>6 DEF proc_acquirable, Running
  <2>8. rs[q] = regs[q] /\ DOMAIN rs = Pids
    BY <1>2, <2>2, <2>7 DEF Answered
  <2> HIDE DEF rs
  <2>9. ProcInv(regs'[q], lib[q], wait'[q], eff'[q], mail'[q])
    BY <1>2, <2>1, <2>5, <2>8, WokenKeeps DEF SysInv, ProcsInv
  <2>10. /\ DOMAIN regs' = Pids /\ regs'[p] = rs[p]
         /\ \A x \in Pids \ {p, q} :
               regs'[x] = rs[x] /\ wait'[x] = wait[x] /\ eff'[x] = eff[x] /\ mail'[x] = mail[x]
    BY <2>1, <2>2, <2>5, <2>8
  <2> HIDE DEF q
  <2>11. Party(h, "MON_YIELD", "SUCCESS", rs, q, q)
    BY <1>1, <1>2, <2>1, <2>2, <2>3, <2>4, <2>5, <2>7, <2>9, <2>10 DEF Party
  <2>12. SysInv'
    BY <2>11, PartyKeeps
  <2> QED
    BY <2>1, <2>12
<1> QED
  BY <1>3, <1>4 DEF handle_mon_yield

\* s3k_mon_reg_write.
LEMMA MonitorWriteKeeps ==
  ASSUME SysInv, TypeInv, NEW h \in Harts, handle_mon_reg_write(h)
  PROVE  SysInv' /\ UNCHANGED vars
<1> DEFINE q == arg(h, 2)
<1> DEFINE reg == arg(h, 3)
<1> DEFINE val == arg(h, 4)
<1> DEFINE p == run[h]
<1> DEFINE rs == answer(p, "SUCCESS")
<1>1. AtCall(h, "MON_REG_WRITE") /\ lib' = lib /\ validate_mon_reg_write(h) = "SUCCESS"
  BY ExecutesIs DEF handle_mon_reg_write
<1>2. q \in Pids
  BY <1>1, MonitorArgsValid DEF validate_mon_reg_write
<1>3. (reg = "PC" /\ val \in {0, 3}) \/ reg \in {"TPC", "TSP", "SERVTIME"}
  BY <1>1, ArgIs DEF AtCall, InCall, Fits, writes_virtual
<1>4. CASE fails(h, monitor_error(h, TRUE))
  BY <1>1, <1>4, FailsKeeps
<1>5. CASE /\ monitor_error(h, TRUE) = "SUCCESS"
           /\ returns(h, [rs EXCEPT ![q][reg] = val])
  <2>1. /\ wait' = wait /\ regs' = [rs EXCEPT ![q][reg] = val]
        /\ run' = [run EXCEPT ![h] = p] /\ UNCHANGED vars /\ eff' = eff /\ mail' = mail /\ lock' = lock
    BY <1>5 DEF returns, trap_handler, procVars, history
  <2>2. Answered(rs, p, "SUCCESS") /\ p \in Pids /\ p # NULL /\ wait[p] = NULL /\ InCall(h, "MON_REG_WRITE")
    BY <1>1, AnswerIs DEF AtCall, InCall
  <2>3. LockKept(h)
    BY <1>1, <2>1 DEF AtCall, LockKept
  <2>4. "MON_REG_WRITE" \notin RecvCalls /\ "MON_REG_WRITE" \notin OnceCalls
    BY DEF RecvCalls, OnceCalls
  <2>5. proc_is_suspended(q)
    BY <1>5 DEF monitor_error, check_monitor
  <2>6. ~Running(q) /\ q # p /\ wait[q] = NULL
    BY <2>5 DEF proc_is_suspended, Running
  <2>7. rs[q] = regs[q] /\ DOMAIN rs = Pids
    BY <1>2, <2>2, <2>6 DEF Answered
  <2> HIDE DEF rs, q, reg, val
  <2>8. /\ DOMAIN regs' = Pids /\ regs'[q] = [regs[q] EXCEPT ![reg] = val]
        /\ \A x \in Pids \ {q} : regs'[x] = rs[x]
    BY <1>2, <2>1, <2>7
  <2>9. ProcInv(regs[q], lib[q], wait[q], eff[q], mail[q])
    BY <1>2 DEF SysInv, ProcsInv
  <2>10. ProcInv(regs'[q], lib[q], wait'[q], eff'[q], mail'[q])
    BY <1>3, <2>1, <2>6, <2>8, <2>9, WrittenKeeps
  <2>11. /\ regs'[p] = rs[p] /\ DOMAIN wait' = Pids /\ DOMAIN eff' = Pids /\ DOMAIN mail' = Pids
         /\ \A x \in Pids \ {p, q} :
               regs'[x] = rs[x] /\ wait'[x] = wait[x] /\ eff'[x] = eff[x] /\ mail'[x] = mail[x]
    BY <2>1, <2>2, <2>6, <2>8, DomainsIs
  <2>12. Party(h, "MON_REG_WRITE", "SUCCESS", rs, q, p)
    BY <1>1, <1>2, <2>1, <2>2, <2>3, <2>4, <2>6, <2>8, <2>10, <2>11 DEF Party
  <2>13. SysInv'
    BY <2>12, PartyKeeps
  <2> QED
    BY <2>1, <2>13
<1> QED
  BY <1>4, <1>5 DEF handle_mon_reg_write, cap_monitor_reg_write

\* s3k_mon_cap_move, s3k_mon_pmp_load and s3k_mon_pmp_unload.
LEMMA MonitorMoveKeeps ==
  ASSUME SysInv, TypeInv, NEW h \in Harts, handle_mon_cap_move(h)
  PROVE  SysInv' /\ [Next]_vars
<1> DEFINE src == their(h)
<1> DEFINE dst == <<arg(h, 4), arg(h, 5)>>
<1> DEFINE err == check_monitor_move(own(h, 1), src, dst)
<1>1. AtCall(h, "MON_CAP_MOVE") /\ lib' = lib /\ validate_mon_cap_move(h) = "SUCCESS"
  BY ExecutesIs DEF handle_mon_cap_move
<1>2. src \in CTE /\ dst \in CTE
  BY <1>1, MonitorArgsValid DEF validate_mon_cap_move, their, CTE
<1>3. CASE fails(h, either(err, move_error(src, dst)))
  <2> HIDE DEF err, src, dst
  <2> QED
    BY <1>1, <1>3, FailsKeeps
<1>4. CASE cap_move(src, dst) /\ UNCHANGED channels /\ done(h)
  <2> HIDE DEF err, src, dst
  <2>1. cap' # cap /\ src \in Live
    BY <1>2, <1>4, MoveChanges
  <2>2. SysInv' /\ watch
    BY <1>1, <1>4, <2>1, DoneKeeps DEF OnceCalls
  <2> QED
    BY <1>2, <1>4, <2>1, <2>2 DEF Next
<1> QED
  BY <1>3, <1>4 DEF handle_mon_cap_move, cap_monitor_cap_move

LEMMA MonitorLoadKeeps ==
  ASSUME SysInv, TypeInv, NEW h \in Harts, handle_mon_pmp_load(h)
  PROVE  SysInv' /\ [Next]_vars
<1> DEFINE c == their(h)
<1> DEFINE slot == arg(h, 4)
<1> DEFINE err == either(monitor_error(h, TRUE), pmp_load_error(c, slot))
<1>1. AtCall(h, "MON_PMP_LOAD") /\ lib' = lib /\ validate_mon_pmp_load(h) = "SUCCESS"
  BY ExecutesIs DEF handle_mon_pmp_load
<1>2. c \in CTE /\ slot \in PmpSlots
  BY <1>1, MonitorArgsValid DEF validate_mon_pmp_load, their, CTE
<1>3. CASE fails(h, err)
  <2> HIDE DEF err
  <2> QED
    BY <1>1, <1>3, FailsKeeps
<1>4. CASE cap_pmp_load(c, slot) /\ done(h)
  <2> HIDE DEF c, slot
  <2>1. cap' # cap
    BY <1>2, <1>4, LoadChanges
  <2>2. SysInv' /\ watch
    BY <1>1, <1>4, <2>1, DoneKeeps DEF OnceCalls
  <2> QED
    BY <1>2, <1>4, <2>2 DEF Next
<1> QED
  BY <1>3, <1>4 DEF handle_mon_pmp_load, cap_monitor_pmp_load

LEMMA MonitorUnloadKeeps ==
  ASSUME SysInv, TypeInv, NEW h \in Harts, handle_mon_pmp_unload(h)
  PROVE  SysInv' /\ [Next]_vars
<1> DEFINE c == their(h)
<1> DEFINE err == either(monitor_error(h, TRUE), pmp_unload_error(c))
<1>1. AtCall(h, "MON_PMP_UNLOAD") /\ lib' = lib /\ validate_mon_pmp_unload(h) = "SUCCESS"
  BY ExecutesIs DEF handle_mon_pmp_unload
<1>2. c \in CTE
  BY <1>1, MonitorArgsValid DEF validate_mon_pmp_unload, their, CTE
<1>3. CASE fails(h, err)
  <2> HIDE DEF err
  <2> QED
    BY <1>1, <1>3, FailsKeeps
<1>4. CASE cap_pmp_unload(c) /\ done(h)
  <2> HIDE DEF c
  <2>1. cap' # cap
    BY <1>2, <1>4, UnloadChanges
  <2>2. SysInv' /\ watch
    BY <1>1, <1>4, <2>1, DoneKeeps DEF OnceCalls
  <2> QED
    BY <1>2, <1>4, <2>2 DEF Next
<1> QED
  BY <1>3, <1>4 DEF handle_mon_pmp_unload, cap_monitor_pmp_unload

-----------------------------------------------------------------------------
(* The socket calls.                                                       *)

\* What is known of a socket once the first check of a call passed.
SocketIs(h) ==
  LET s == sock(h) IN
  /\ own(h, 1) \in Live /\ own(h, 1) \in CTE /\ s.type = "sock"
  /\ s.chan \in Chans /\ s.chan # NULL /\ s.tag \in Nat
  /\ receiver(s) \in Pids \union {NULL}
  /\ channels[s.chan].server \in Pids \union {NULL}

LEMMA SocketFacts ==
  ASSUME TypeInv, NEW h, NEW call, InCall(h, call), arg(h, 1) \in Index,
         NEW wrong \in {"INVALID_SOCKET", "INVALID_CAPABILITY", "EMPTY"},
         sock_error(h, wrong) = "SUCCESS"
  PROVE  SocketIs(h)
<1> DEFINE s == sock(h)
<1>1. own(h, 1) \in CTE /\ s.type = "sock"
  BY OwnIs DEF sock_error, sock, cte_is_empty
<1>2. own(h, 1) \in Live /\ s \in Cap /\ s = cap[own(h, 1)]
  BY <1>1 DEF Live, sock, TypeInv, TypeOK
<1>3. s \in SockCap /\ s.chan \in Chans
  BY <1>1, <1>2, CapVariant, SocketChannel
<1>4. s.tag \in Nat
  BY <1>3 DEF SockCap
<1>5. channels[s.chan] \in Channel
  BY <1>3 DEF TypeInv, TypeOK
<1> HIDE DEF s
<1>6. receiver(s) \in Pids \union {NULL} /\ channels[s.chan].server \in Pids \union {NULL}
  BY <1>5 DEF receiver, Channel
<1>7. s.chan # NULL
  BY <1>3, NoneAssumption
<1> QED
  BY <1>1, <1>2, <1>3, <1>4, <1>6, <1>7 DEF SocketIs, s

\* The registers of the caller and of the receiver of a message.
LEMMA DeliveredIs ==
  ASSUME NEW rs, DOMAIN rs = Pids, NEW r \in Pids, NEW m
  PROVE  /\ DOMAIN delivered(rs, r, m) = Pids
         /\ delivered(rs, r, m)[r] = Message(rs[r], m)
         /\ \A x \in Pids \ {r} : delivered(rs, r, m)[x] = rs[x]
BY DEF delivered, Message

\* A message m goes from the caller, which is answered with err, to a process
\* that waits.
Delivers(h, r, err, m) ==
  /\ regs' = delivered(answer(run[h], err), r, m)
  /\ mail' = [mail EXCEPT ![r] = m]
  /\ eff' = [eff EXCEPT ![run[h]] = @ + 1]

LEMMA DeliveryKeeps ==
  ASSUME SysInv, NEW h \in Harts, NEW call, InCall(h, call), NEW err,
         NEW r \in Pids, wait[r] # NULL, NEW t \in Nat, NEW c, NEW d,
         NEW n \in {run[h], r, NULL}, run' = [run EXCEPT ![h] = n],
         Delivers(h, r, err, [tag |-> t, cap |-> c, data |-> d]), lib' = lib, DOMAIN wait' = Pids, wait'[r] = NULL,
         \A x \in Pids \ {run[h], r} : wait'[x] = wait[x],
         wait'[run[h]] # NULL => call \in RecvCalls /\ TimedOut(err) /\ n # run[h],
         call \in RecvCalls => Failed(err),
         call \in OnceCalls => ~Failed(err),
         LockKept(h)
  PROVE  SysInv'
<1> DEFINE m == [tag |-> t, cap |-> c, data |-> d]
<1> DEFINE p == run[h]
<1> DEFINE rs == answer(p, err)
<1>1. Answered(rs, p, err) /\ p \in Pids /\ p # NULL /\ wait[p] = NULL
  BY AnswerIs DEF InCall
<1>2. ~Running(r) /\ ProcInv(regs[r], lib[r], wait[r], eff[r], mail[r]) /\ r # p
  BY <1>1, WaitingRests
<1>3. ProcInv(Message(regs[r], m), lib[r], NULL, eff[r], m)
  BY <1>2, DeliveredKeeps
<1>4. rs[r] = regs[r] /\ DOMAIN rs = Pids
  BY <1>1, <1>2 DEF Answered
<1>5. call \in OnceCalls => eff[p] = 0
  BY AtCallEffect
<1>0. regs' = delivered(rs, r, m) /\ mail' = [mail EXCEPT ![r] = m] /\ eff' = [eff EXCEPT ![p] = @ + 1]
  BY DEF Delivers
<1> HIDE DEF rs, m
<1>6. /\ DOMAIN regs' = Pids /\ regs'[r] = Message(regs[r], m)
      /\ \A x \in Pids \ {r} : regs'[x] = rs[x]
  BY <1>0, <1>4, DeliveredIs
<1>7. /\ DOMAIN mail' = Pids /\ mail'[r] = m /\ \A x \in Pids \ {r} : mail'[x] = mail[x]
  BY <1>0, DomainsIs
<1>8. /\ DOMAIN eff' = Pids /\ eff'[p] = eff[p] + 1 /\ \A x \in Pids \ {p} : eff'[x] = eff[x]
  BY <1>0, <1>1, DomainsIs
<1>9. call \in OnceCalls => eff'[p] = Times(err)
  BY <1>5, <1>8 DEF Times, Failed
<1>10. ProcInv(regs'[r], lib[r], wait'[r], eff'[r], mail'[r])
  BY <1>2, <1>3, <1>6, <1>7, <1>8
<1>11. /\ regs'[p] = rs[p] /\ mail'[p] = mail[p]
       /\ \A q \in Pids \ {p, r} :
           /\ regs'[q] = rs[q] /\ wait'[q] = wait[q]
           /\ eff'[q] = eff[q] /\ mail'[q] = mail[q]
  BY <1>1, <1>2, <1>6, <1>7, <1>8
<1> HIDE DEF p
<1>12. Party(h, call, err, rs, r, n)
  BY <1>1, <1>2, <1>6, <1>7, <1>8, <1>9, <1>10, <1>11 DEF Party, p
<1> QED
  BY <1>12, PartyKeeps

\* What the checks of a message say.
LEMMA SendChecked ==
  ASSUME NEW h, arg(h, 3) \in BOOLEAN, send_error(h) = "SUCCESS"
  PROVE  arg(h, 3) => may_send_cap(sock(h))
BY DEF send_error

LEMMA SockErrorIs ==
  ASSUME NEW h, NEW call, InCall(h, call), call \in {"SOCK_SEND", "SOCK_SENDRECV"}
  PROVE  arg(h, 3) \in BOOLEAN
<1>1. sys_args_typed(lib[run[h]]) /\ lib[run[h]].call = call
  BY DEF InCall, Fits
<1>2. lib[run[h]].a[3] \in BOOLEAN
  BY <1>1 DEF sys_args_typed
<1> QED
  BY <1>2, ArgIs

\* The caller is to be suspended.
LEMMA PreemptedKeeps ==
  ASSUME SysInv, NEW h \in Harts, NEW call, AtCall(h, call), sock_preempted(h), lib' = lib
  PROVE  SysInv' /\ UNCHANGED vars
<1>1. /\ trap_handler(h, NULL, answer(run[h], "PREEMPTED"), tmo) /\ UNCHANGED vars
      /\ UNCHANGED procVars /\ UNCHANGED history /\ lock' = lock
  BY DEF sock_preempted
<1>2. InCall(h, call) /\ LockKept(h) /\ Failed("PREEMPTED")
  BY <1>1 DEF AtCall, LockKept, Failed
<1> QED
  BY <1>1, <1>2, LeavesKeeps

\* s3k_sock_send.
LEMMA SendKeeps ==
  ASSUME SysInv, TypeInv, NEW h \in Harts, handle_sock_send(h)
  PROVE  SysInv' /\ [Next]_vars
<1> DEFINE p == run[h]
<1> DEFINE s == sock(h)
<1> DEFINE r == receiver(s)
<1> DEFINE first == sock_error(h, "INVALID_SOCKET")
<1> DEFINE ready == first = "SUCCESS" /\ ~susp[p]
<1>1. AtCall(h, "SOCK_SEND") /\ InCall(h, "SOCK_SEND") /\ lib' = lib /\ validate_sock_send(h) = "SUCCESS"
  BY ExecutesIs DEF handle_sock_send, AtCall
<1>2. arg(h, 1) \in Index /\ arg(h, 2) \in Index
  BY <1>1, ArgsValid DEF validate_sock_send, Index
<1>3. own(h, 2) \in Own(own(h, 1)) /\ arg(h, 3) \in BOOLEAN
  BY <1>1, <1>2, OwnTogether, SockErrorIs
<1>4. first = "SUCCESS" => SocketIs(h)
  BY <1>1, <1>2, SocketFacts
<1>5. CASE fails(h, first)
  <2> HIDE DEF first
  <2> QED
    BY <1>1, <1>5, FailsKeeps
<1>6. CASE sock_preempted(h)
  BY <1>1, <1>6, PreemptedKeeps
<1>7. CASE fails(h, send_error(h))
  BY <1>1, <1>7, FailsKeeps
<1>8. ASSUME first = "SUCCESS", send_error(h) = "SUCCESS",
             do_send(s, own(h, 2), arg(h, 3)) \/ UNCHANGED capVars,
             channels' = take_receiver(s), watch
      PROVE  Next
  <2>1. own(h, 1) \in Live /\ cap[own(h, 1)].type = "sock"
    BY <1>4, <1>8 DEF SocketIs, sock
  <2>2. cap_sock_send(own(h, 1), own(h, 2), arg(h, 3))
    BY <1>3, <1>8, <2>1, SendChecked DEF cap_sock_send, sock
  <2> QED
    BY <1>3, <1>8, <2>1, <2>2 DEF Next
<1>9. CASE /\ ready /\ send_error(h) = "SUCCESS"
           /\ ipc_acquirable(r, s.chan)
           /\ do_send(s, own(h, 2), arg(h, 3))
           /\ channels' = take_receiver(s) /\ watch
           /\ wait' = [wait EXCEPT ![r] = NULL]
           /\ trap_handler(h, IF s.mode = "yield" THEN r ELSE p,
                           delivered(answer(p, "SUCCESS"), r, message(h)), delivered_tmo(r, s, p))
           /\ delivery(h, r)
  <2>1. Next
    BY <1>8, <1>9
  <2>2. SocketIs(h) /\ r \in Pids /\ wait[r] # NULL
    BY <1>4, <1>9 DEF SocketIs, ipc_acquirable
  <2>3. PICK n : n = IF s.mode = "yield" THEN r ELSE p
    OBVIOUS
  <2>4. /\ regs' = delivered(answer(p, "SUCCESS"), r, message(h)) /\ run' = [run EXCEPT ![h] = n]
        /\ mail' = [mail EXCEPT ![r] = message(h)] /\ eff' = [eff EXCEPT ![p] = @ + 1] /\ lock' = lock
    BY <1>9, <2>3 DEF trap_handler, delivery
  <2>5. PICK t \in Nat : \E c, d : message(h) = [tag |-> t, cap |-> c, data |-> d]
    BY <2>2 DEF message, SocketIs
  <2>6. PICK c, d : message(h) = [tag |-> t, cap |-> c, data |-> d]
    BY <2>5
  <2>7. Delivers(h, r, "SUCCESS", [tag |-> t, cap |-> c, data |-> d])
    BY <2>4, <2>6 DEF Delivers
  <2>8. wait[p] = NULL /\ p \in Pids
    BY <1>1 DEF InCall
  <2> HIDE DEF r, s, first
  <2>9. /\ DOMAIN wait' = Pids /\ wait'[r] = NULL /\ wait'[p] = NULL
        /\ \A x \in Pids \ {run[h], r} : wait'[x] = wait[x]
    BY <1>9, <2>2, <2>8, DomainsIs
  <2>10. "SOCK_SEND" \notin RecvCalls /\ ~Failed("SUCCESS") /\ LockKept(h)
    BY <1>1, <2>4 DEF RecvCalls, Failed, LockKept, AtCall
  <2>11. PICK n1 \in {run[h], r, NULL} : n1 = n
    BY <2>3
  <2>12. run' = [run EXCEPT ![h] = n1]
    BY <2>4, <2>11
  <2>13. SysInv'
    BY <1>1, <2>2, <2>7, <2>9, <2>10, <2>12, DeliveryKeeps
  <2> QED
    BY <2>1, <2>13
<1>10. CASE /\ ready /\ send_error(h) = "SUCCESS"
            /\ UNCHANGED capVars
            /\ channels' = take_receiver(s) /\ watch
            /\ trap_handler(h, p, answer(p, "NO_RECEIVER"), tmo)
            /\ UNCHANGED procVars /\ UNCHANGED history /\ UNCHANGED lock
  <2>1. Next
    BY <1>8, <1>10
  <2>2. Failed("NO_RECEIVER") /\ LockKept(h)
    BY <1>1, <1>10 DEF Failed, LockKept, AtCall
  <2>3. Answered(answer(p, "NO_RECEIVER"), run[h], "NO_RECEIVER")
    BY <1>1, AnswerIs DEF InCall
  <2>4. PICK n \in {run[h], NULL} : n = run[h]
    OBVIOUS
  <2>5. trap_handler(h, n, answer(p, "NO_RECEIVER"), tmo)
    BY <1>10, <2>4
  <2>6. SysInv'
    BY <1>1, <1>10, <2>2, <2>3, <2>5, QuietKeeps
  <2> QED
    BY <2>1, <2>6
<1> QED
  BY <1>5, <1>6, <1>7, <1>9, <1>10 DEF handle_sock_send

\* The caller waits for a message, and the hart runs nobody or a process r that
\* the caller gives its time to.
LEMMA WaitKeeps ==
  ASSUME SysInv, NEW h \in Harts, NEW call \in RecvCalls, InCall(h, call),
         NEW r \in Pids \union {NULL}, r # NULL => ~Running(r),
         NEW n \in {r, NULL}, run' = [run EXCEPT ![h] = n],
         regs' = answer(run[h], "TIMEOUT"), eff' = eff, mail' = mail, lib' = lib,
         DOMAIN wait' = Pids, r # NULL => wait'[r] = NULL,
         \A x \in Pids \ {run[h], r} : wait'[x] = wait[x],
         LockKept(h)
  PROVE  SysInv'
<1> DEFINE p == run[h]
<1> DEFINE rs == answer(p, "TIMEOUT")
<1>1. Answered(rs, p, "TIMEOUT") /\ p \in Pids /\ p # NULL
  BY AnswerIs DEF InCall
<1>2. r # p
  BY <1>1, NullAssumption DEF Running
<1>3. call \notin OnceCalls /\ Failed("TIMEOUT") /\ TimedOut("TIMEOUT")
  BY DEF RecvCalls, OnceCalls, Failed, TimedOut
<1>4. regs' = rs /\ DOMAIN rs = Pids /\ (r # NULL => r \in Pids /\ rs[r] = regs[r])
  BY <1>1, <1>2 DEF Answered
<1> HIDE DEF rs
<1>5. r # NULL => ProcInv(regs'[r], lib[r], wait'[r], eff'[r], mail'[r])
  <2>1. r # NULL => ProcInv(regs[r], lib[r], wait[r], eff[r], mail[r])
    BY <1>4 DEF SysInv, ProcsInv
  <2>2. r # NULL => ProcInv(regs[r], lib[r], NULL, eff[r], mail[r])
    BY <2>1, WokenKeeps
  <2> QED
    BY <1>4, <2>2
<1>6. DOMAIN eff' = Pids /\ DOMAIN mail' = Pids
  BY DomainsIs
<1>7. n # p
  BY <1>1, <1>2
<1> HIDE DEF p
<1>8. Party(h, call, "TIMEOUT", rs, r, n)
  BY <1>1, <1>2, <1>3, <1>4, <1>5, <1>6, <1>7 DEF Party, p
<1> QED
  BY <1>8, PartyKeeps

\* s3k_sock_recv.
LEMMA RecvKeeps ==
  ASSUME SysInv, TypeInv, NEW h \in Harts, handle_sock_recv(h)
  PROVE  SysInv' /\ [Next]_vars
<1> DEFINE p == run[h]
<1> DEFINE s == sock(h)
<1> DEFINE server == channels[s.chan].server
<1> DEFINE second == IF "ccap" \in s.perm /\ ~cte_is_empty(own(h, 2)) THEN "DST_OCCUPIED" ELSE "SUCCESS"
<1> DEFINE first == either(sock_error(h, "INVALID_CAPABILITY"), second)
<1> DEFINE yields == server # NULL /\ s.mode = "yield" /\ proc_acquirable(server)
<1> DEFINE ready == first = "SUCCESS" /\ ~susp[p]
<1>1. AtCall(h, "SOCK_RECV") /\ InCall(h, "SOCK_RECV") /\ lib' = lib /\ validate_sock_recv(h) = "SUCCESS"
  BY ExecutesIs DEF handle_sock_recv, AtCall
<1>2. arg(h, 1) \in Index /\ arg(h, 2) \in Index /\ p \in Pids /\ wait[p] = NULL
  BY <1>1, ArgsValid DEF validate_sock_recv, Index, InCall
<1>3. own(h, 2) \in Own(own(h, 1)) /\ cte_pid(own(h, 1)) = p
  BY <1>1, <1>2, OwnTogether, OwnIs
<1>4. first = "SUCCESS" => SocketIs(h) /\ ("ccap" \in s.perm => cte_is_empty(own(h, 2)))
  BY <1>1, <1>2, SocketFacts DEF either
<1>5. CASE fails(h, first)
  <2> HIDE DEF first
  <2> QED
    BY <1>1, <1>5, FailsKeeps
<1>6. CASE sock_preempted(h)
  BY <1>1, <1>6, PreemptedKeeps
<1>7. ASSUME NEW err \in {"TIMEOUT", "INVALID_STATE"}, returns(h, answer(p, err))
      PROVE  SysInv' /\ UNCHANGED vars
  <2>1. Failed(err) /\ Answered(answer(p, err), run[h], err)
    BY <1>2, <1>7, AnswerIs DEF Failed
  <2> QED
    BY <1>1, <1>7, <2>1, ReturnsKeeps
<1>8. ASSUME first = "SUCCESS", UNCHANGED capVars, watch,
             \/ s.tag = 0 /\ channels' = do_recv(channels, s, p, own(h, 2))
             \/ /\ s.tag # 0 /\ channels[s.chan].client = p /\ yields
                /\ channels' = [channels EXCEPT ![s.chan].cap_buf = own(h, 2)]
      PROVE  Next
  <2>1. own(h, 1) \in Live /\ cap[own(h, 1)].type = "sock"
    BY <1>4, <1>8 DEF SocketIs, sock
  <2>2. cap_sock_recv(own(h, 1), own(h, 2))
    BY <1>3, <1>4, <1>8, <2>1 DEF cap_sock_recv, sock
  <2> QED
    BY <1>3, <1>8, <2>1, <2>2 DEF Next
<1>9. CASE /\ ready /\ s.tag = 0
           /\ UNCHANGED capVars
           /\ channels' = do_recv(channels, s, p, own(h, 2)) /\ watch
           /\ wait' = [wait EXCEPT ![p] = s.chan]
           /\ trap_handler(h, NULL, answer(p, "TIMEOUT"), recv_tmo(tmo, s, p))
           /\ UNCHANGED history /\ UNCHANGED <<susp, lock>>
  <2>1. Next
    BY <1>8, <1>9
  <2>2. /\ run' = [run EXCEPT ![h] = NULL] /\ regs' = answer(run[h], "TIMEOUT")
        /\ eff' = eff /\ mail' = mail /\ LockKept(h)
    BY <1>1, <1>9 DEF trap_handler, history, LockKept, AtCall
  <2>3. DOMAIN wait' = Pids /\ \A x \in Pids \ {run[h], NULL} : wait'[x] = wait[x]
    BY <1>2, <1>9, DomainsIs
  <2>4. "SOCK_RECV" \in RecvCalls
    BY DEF RecvCalls
  <2>5. SysInv'
    BY <1>1, <2>2, <2>3, <2>4, WaitKeeps
  <2> QED
    BY <2>1, <2>5
<1>10. CASE /\ ready /\ s.tag # 0 /\ channels[s.chan].client = p /\ yields
            /\ UNCHANGED capVars
            /\ channels' = [channels EXCEPT ![s.chan].cap_buf = own(h, 2)] /\ watch
            /\ wait' = [wait EXCEPT ![p] = s.chan, ![server] = NULL]
            /\ trap_handler(h, server, answer(p, "TIMEOUT"), [tmo EXCEPT ![server] = tmo[p]])
            /\ UNCHANGED history /\ UNCHANGED <<susp, lock>>
  <2>1. Next
    BY <1>8, <1>10
  <2>2. server \in Pids \union {NULL} /\ server # NULL /\ ~Running(server)
    BY <1>4, <1>10 DEF SocketIs, proc_acquirable
  <2>3. /\ run' = [run EXCEPT ![h] = server] /\ regs' = answer(run[h], "TIMEOUT")
        /\ eff' = eff /\ mail' = mail /\ LockKept(h)
    BY <1>1, <1>10 DEF trap_handler, history, LockKept, AtCall
  <2>4. wait' = [wait EXCEPT ![p] = s.chan, ![server] = NULL]
    BY <1>10
  <2> HIDE DEF server
  <2>5. /\ DOMAIN wait' = Pids /\ wait'[server] = NULL
        /\ \A x \in Pids \ {run[h], server} : wait'[x] = wait[x]
    BY <1>2, <2>2, <2>4, DomainsIs
  <2>6. "SOCK_RECV" \in RecvCalls
    BY DEF RecvCalls
  <2>7. PICK r \in Pids \union {NULL} : r = server
    BY <2>2
  <2>8. PICK n \in {r, NULL} : n = server
    BY <2>7
  <2>9. /\ r # NULL /\ ~Running(r) /\ run' = [run EXCEPT ![h] = n] /\ wait'[r] = NULL
        /\ \A x \in Pids \ {run[h], r} : wait'[x] = wait[x]
    BY <2>2, <2>3, <2>5, <2>7, <2>8
  <2>10. SysInv'
    BY <1>1, <2>3, <2>5, <2>6, <2>9, WaitKeeps
  <2> QED
    BY <2>1, <2>10
<1> QED
  BY <1>5, <1>6, <1>7, <1>9, <1>10 DEF handle_sock_recv

\* s3k_sock_sendrecv.
LEMMA SendrecvKeeps ==
  ASSUME SysInv, TypeInv, NEW h \in Harts, handle_sock_sendrecv(h)
  PROVE  SysInv' /\ [Next]_vars
<1> DEFINE p == run[h]
<1> DEFINE s == sock(h)
<1> DEFINE buf == own(h, 2)
<1> DEFINE r == receiver(s)
<1> DEFINE first == sock_error(h, "INVALID_CAPABILITY")
<1> DEFINE second == either(send_error(h), recv_error(h))
<1> DEFINE ready == first = "SUCCESS" /\ ~susp[p] /\ second = "SUCCESS"
<1> DEFINE nobody == ~ipc_acquirable(r, s.chan) \/ servtime_short(s)
<1> DEFINE waits(chs, t, rs, n) ==
             /\ channels' = do_recv(chs, s, p, buf) /\ watch
             /\ wait' = [q \in Pids |-> IF q = p THEN s.chan ELSE IF q = n THEN NULL ELSE wait[q]]
             /\ trap_handler(h, IF s.mode = "yield" THEN n ELSE NULL, rs, recv_tmo(t, s, p))
<1>1. /\ AtCall(h, "SOCK_SENDRECV") /\ InCall(h, "SOCK_SENDRECV")
      /\ lib' = lib /\ validate_sock_sendrecv(h) = "SUCCESS"
  BY ExecutesIs DEF handle_sock_sendrecv, AtCall
<1>2. arg(h, 1) \in Index /\ arg(h, 2) \in Index /\ p \in Pids /\ p # NULL /\ wait[p] = NULL
  BY <1>1, ArgsValid DEF validate_sock_sendrecv, Index, InCall
<1>3. buf \in Own(own(h, 1)) /\ cte_pid(own(h, 1)) = p /\ arg(h, 3) \in BOOLEAN
  BY <1>1, <1>2, OwnTogether, OwnIs, SockErrorIs
<1>4. first = "SUCCESS" => SocketIs(h)
  BY <1>1, <1>2, SocketFacts
<1>5. CASE fails(h, first)
  <2> HIDE DEF first
  <2> QED
    BY <1>1, <1>5, FailsKeeps
<1>6. CASE sock_preempted(h)
  BY <1>1, <1>6, PreemptedKeeps
<1>7. CASE fails(h, second)
  <2> HIDE DEF second
  <2> QED
    BY <1>1, <1>7, FailsKeeps
<1>8. CASE returns(h, answer(p, "NO_RECEIVER"))
  <2>1. Failed("NO_RECEIVER") /\ Answered(answer(p, "NO_RECEIVER"), run[h], "NO_RECEIVER")
    BY <1>2, AnswerIs DEF Failed
  <2> QED
    BY <1>1, <1>8, <2>1, ReturnsKeeps
<1>9. ASSUME ready, watch,
             \/ /\ do_send(s, buf, arg(h, 3))
                /\ channels' = do_recv(take_receiver(s), s, p, buf)
             \/ /\ s.tag = 0 /\ arg(h, 3) /\ cap_delete(buf)
                /\ channels' = do_recv(cap_delete_socket(take_receiver(s), buf), s, p, buf)
             \/ /\ s.tag = 0 /\ (arg(h, 3) => cte_is_empty(buf)) /\ UNCHANGED capVars
                /\ channels' = do_recv(take_receiver(s), s, p, buf)
      PROVE  Next
  <2>1. own(h, 1) \in Live /\ cap[own(h, 1)].type = "sock"
    BY <1>4, <1>9 DEF SocketIs, sock
  <2>2. /\ arg(h, 3) => may_send_cap(s)
        /\ may_recv_cap(s) /\ ~arg(h, 3) => cte_is_empty(buf)
    BY <1>3, <1>9, SendChecked DEF either, recv_error
  <2>3. cap_sock_sendrecv(own(h, 1), buf, arg(h, 3))
    BY <1>3, <1>9, <2>1, <2>2 DEF cap_sock_sendrecv, sock
  <2> QED
    BY <1>3, <1>9, <2>1, <2>3 DEF Next
<1>10. "SOCK_SENDRECV" \in RecvCalls /\ "SOCK_SENDRECV" \notin OnceCalls
       /\ TimedOut("TIMEOUT") /\ Failed("TIMEOUT")
  BY DEF RecvCalls, OnceCalls, TimedOut, Failed
<1>11. CASE /\ ready /\ ipc_acquirable(r, s.chan)
            /\ do_send(s, buf, arg(h, 3))
            /\ waits(take_receiver(s), delivered_tmo(r, s, p),
                     delivered(answer(p, "TIMEOUT"), r, message(h)), r)
            /\ delivery(h, r)
  <2>1. Next
    BY <1>9, <1>11
  <2>2. SocketIs(h) /\ r \in Pids /\ wait[r] # NULL /\ r # p
    BY <1>2, <1>4, <1>11 DEF SocketIs, ipc_acquirable
  <2>3. PICK n : n = IF s.mode = "yield" THEN r ELSE NULL
    OBVIOUS
  <2>4. /\ regs' = delivered(answer(p, "TIMEOUT"), r, message(h)) /\ run' = [run EXCEPT ![h] = n]
        /\ mail' = [mail EXCEPT ![r] = message(h)] /\ eff' = [eff EXCEPT ![p] = @ + 1] /\ lock' = lock
    BY <1>11, <2>3 DEF trap_handler, delivery
  <2>5. PICK t \in Nat : \E c, d : message(h) = [tag |-> t, cap |-> c, data |-> d]
    BY <2>2 DEF message, SocketIs
  <2>6. PICK c, d : message(h) = [tag |-> t, cap |-> c, data |-> d]
    BY <2>5
  <2>7. Delivers(h, r, "TIMEOUT", [tag |-> t, cap |-> c, data |-> d])
    BY <2>4, <2>6 DEF Delivers
  <2>8. wait' = [q \in Pids |-> IF q = p THEN s.chan ELSE IF q = r THEN NULL ELSE wait[q]]
    BY <1>11
  <2>9. LockKept(h)
    BY <1>1, <2>4 DEF LockKept, AtCall
  <2> HIDE DEF r, s, first, second
  <2>10. /\ DOMAIN wait' = Pids /\ wait'[r] = NULL
        /\ \A x \in Pids \ {run[h], r} : wait'[x] = wait[x]
    BY <1>2, <2>2, <2>8
  <2>11. PICK n1 \in {run[h], r, NULL} : n1 = n
    BY <2>3
  <2>12. run' = [run EXCEPT ![h] = n1] /\ n1 # run[h]
    BY <1>2, <2>2, <2>3, <2>4, <2>11
  <2>13. SysInv'
    BY <1>1, <1>10, <2>2, <2>7, <2>9, <2>10, <2>12, DeliveryKeeps
  <2> QED
    BY <2>1, <2>13
<1>12. ASSUME NEW chs, waits(chs, tmo, answer(p, "TIMEOUT"), NULL), UNCHANGED history, UNCHANGED <<susp, lock>>
       PROVE  SysInv'
  <2>1. /\ regs' = answer(run[h], "TIMEOUT") /\ run' = [run EXCEPT ![h] = NULL]
        /\ eff' = eff /\ mail' = mail /\ LockKept(h)
    BY <1>1, <1>12 DEF trap_handler, history, LockKept, AtCall
  <2>2. wait' = [q \in Pids |-> IF q = p THEN s.chan ELSE IF q = NULL THEN NULL ELSE wait[q]]
    BY <1>12
  <2>3. DOMAIN wait' = Pids /\ \A x \in Pids \ {run[h], NULL} : wait'[x] = wait[x]
    BY <2>2
  <2> QED
    BY <1>1, <1>10, <2>1, <2>3, WaitKeeps
<1>13. CASE /\ ready /\ s.tag = 0 /\ nobody
            /\ \/ /\ arg(h, 3) /\ cap_delete(buf)
                  /\ waits(cap_delete_socket(take_receiver(s), buf), tmo, answer(p, "TIMEOUT"), NULL)
               \/ /\ arg(h, 3) => cte_is_empty(buf)
                  /\ UNCHANGED capVars
                  /\ waits(take_receiver(s), tmo, answer(p, "TIMEOUT"), NULL)
            /\ UNCHANGED history /\ UNCHANGED <<susp, lock>>
  <2>1. Next
    BY <1>9, <1>13
  <2>2. SysInv'
    <3> HIDE DEF waits
    <3> QED
      BY <1>12, <1>13
  <2> QED
    BY <2>1, <2>2
<1> QED
  BY <1>5, <1>6, <1>7, <1>8, <1>11, <1>13 DEF handle_sock_sendrecv

\* The timer fires in the middle of a call.
LEMMA LateKeeps ==
  ASSUME SysInv, NEW h \in Harts, sock_late(h)
  PROVE  SysInv' /\ UNCHANGED vars
<1> DEFINE call == regs[run[h]].T0
<1>1. AtCall(h, call) /\ InCall(h, call) /\ run[h] \in Pids
  BY AtEcallIs DEF sock_late, AtCall, InCall
<1>2. /\ regs' = answer(run[h], "PREEMPTED") /\ wait' = wait /\ eff' = eff /\ mail' = mail
      /\ lock' = lock /\ lib' = lib /\ UNCHANGED vars
      /\ run' = [run EXCEPT ![h] = NULL] \/ run' = run
  BY DEF sock_late, trap_handler, procVars, history
<1>3. run' = [run EXCEPT ![h] = NULL] \/ run' = [run EXCEPT ![h] = run[h]]
  BY <1>2, DomainsIs
<1>4. PICK n \in {run[h], NULL} : run' = [run EXCEPT ![h] = n]
  BY <1>3
<1>5. Answered(regs', run[h], "PREEMPTED") /\ LockKept(h) /\ Failed("PREEMPTED") /\ Times("PREEMPTED") = 0
  BY <1>1, <1>2, AnswerIs DEF LockKept, AtCall, Failed, Times
<1>6. /\ DOMAIN eff' = Pids /\ \A q \in Pids \ {run[h]} : eff'[q] = eff[q]
      /\ (call \in OnceCalls => eff'[run[h]] = Times("PREEMPTED"))
  BY <1>1, <1>2, <1>5, DomainsIs, AtCallEffect
<1> HIDE DEF call
<1>7. SysInv'
  BY <1>1, <1>2, <1>4, <1>5, <1>6, CallerKeeps
<1> QED
  BY <1>2, <1>7

-----------------------------------------------------------------------------
(* What happens to a process outside of the handlers.                      *)

LEMMA RefusedKeeps ==
  ASSUME SysInv, NEW h \in Harts, syscall_refused(h)
  PROVE  SysInv' /\ UNCHANGED vars
<1>1. AtCall(h, regs[run[h]].T0) /\ fails(h, validators(h)) /\ lib' = lib
  BY AtEcallIs DEF syscall_refused
<1> QED
  BY <1>1, FailsKeeps

LEMMA CallPreemptedKeeps ==
  ASSUME SysInv, NEW h \in Harts, syscall_preempted(h)
  PROVE  SysInv' /\ UNCHANGED vars
<1>1. /\ AtCall(h, regs[run[h]].T0) /\ lib' = lib /\ lock' = lock
      /\ trap_handler(h, NULL, answer(run[h], "PREEMPTED"), tmo)
      /\ UNCHANGED vars /\ UNCHANGED procVars /\ UNCHANGED history
  BY AtEcallIs DEF syscall_preempted
<1>2. InCall(h, regs[run[h]].T0) /\ LockKept(h) /\ Failed("PREEMPTED")
  BY <1>1 DEF AtCall, LockKept, Failed
<1> QED
  BY <1>1, <1>2, LeavesKeeps

\* A step of the process of hart h alone, which goes on or leaves the hart.
Alone(h, n) ==
  LET p == run[h] IN
  /\ p # NULL /\ lock # h /\ lock' = lock /\ wait' = wait
  /\ n \in {p, NULL} /\ run' = [run EXCEPT ![h] = n]
  /\ DOMAIN regs' = Pids /\ DOMAIN lib' = Pids /\ DOMAIN eff' = Pids /\ DOMAIN mail' = Pids
  /\ \A q \in Pids \ {p} :
       regs'[q] = regs[q] /\ lib'[q] = lib[q] /\ eff'[q] = eff[q] /\ mail'[q] = mail[q]
  /\ ProcInv(regs'[p], lib'[p], NULL, eff'[p], mail'[p])

LEMMA AloneKeeps ==
  ASSUME SysInv, NEW h \in Harts, NEW n, Alone(h, n)
  PROVE  SysInv'
<1>1. /\ run[h] # NULL /\ lock # h /\ lock' = lock /\ wait' = wait
      /\ n \in {run[h], NULL} /\ run' = [run EXCEPT ![h] = n]
      /\ DOMAIN regs' = Pids /\ DOMAIN lib' = Pids /\ DOMAIN eff' = Pids /\ DOMAIN mail' = Pids
      /\ \A q \in Pids \ {run[h]} :
           regs'[q] = regs[q] /\ lib'[q] = lib[q] /\ eff'[q] = eff[q] /\ mail'[q] = mail[q]
      /\ ProcInv(regs'[run[h]], lib'[run[h]], NULL, eff'[run[h]], mail'[run[h]])
  BY DEF Alone
<1>2. run[h] \in Pids /\ wait[run[h]] = NULL /\ DOMAIN wait = Pids
  BY <1>1, OnHart, DomainsIs
<1>3. n # NULL => wait'[n] = NULL
  BY <1>1, <1>2
<1>4. \A q \in Pids \ {run[h], NULL} :
        /\ regs'[q] = regs[q] /\ lib'[q] = lib[q] /\ wait'[q] = wait[q]
        /\ eff'[q] = eff[q] /\ mail'[q] = mail[q]
  BY <1>1
<1>5. \A q \in Pids \intersect {run[h], NULL} :
        ProcInv(regs'[q], lib'[q], wait'[q], eff'[q], mail'[q])
  BY <1>1, <1>2, NullAssumption
<1>6. n \in {run[h], NULL, NULL} /\ DOMAIN wait' = Pids
  BY <1>1, <1>2
<1>7. lock' = NULL \/ (lock' = lock /\ lock # h)
  BY <1>1
<1> QED
  BY <1>1, <1>3, <1>4, <1>5, <1>6, <1>7, StepKeeps

LEMMA InterruptKeeps ==
  ASSUME SysInv, NEW h \in Harts, interrupt_handler(h)
  PROVE  SysInv' /\ UNCHANGED vars
<1>1. /\ run[h] # NULL /\ lock # h /\ lock' = lock /\ lib' = lib /\ regs' = regs
      /\ run' = [run EXCEPT ![h] = NULL] /\ wait' = wait /\ eff' = eff /\ mail' = mail
      /\ UNCHANGED vars
  BY DEF interrupt_handler, trap_handler, procVars, history
<1>2. ProcInv(regs[run[h]], lib[run[h]], NULL, eff[run[h]], mail[run[h]])
  BY <1>1, OnHart
<1>3. Alone(h, NULL)
  BY <1>1, <1>2, DomainsIs DEF Alone
<1> QED
  BY <1>1, <1>3, AloneKeeps

\* Only time goes by.
LEMMA TimeKeeps ==
  ASSUME SysInv,
         regs' = regs /\ lib' = lib /\ wait' = wait /\ eff' = eff /\ mail' = mail
           /\ run' = run /\ lock' = lock
  PROVE  SysInv'
BY DEF SysInv, SysTypes, ProcsInv, HartsInv, LockInv, Revoking

LEMMA TimerKeeps ==
  ASSUME SysInv, (\E p \in Pids : expire(p)) \/ (\E h \in Harts : timer(h))
  PROVE  SysInv' /\ UNCHANGED vars
<1>1. /\ regs' = regs /\ lib' = lib /\ wait' = wait /\ eff' = eff /\ mail' = mail
      /\ run' = run /\ lock' = lock
      /\ UNCHANGED vars
  BY DEF expire, timer, procVars, history
<1> QED
  BY <1>1, TimeKeeps

\* A hart takes a process that runs nowhere.
LEMMA SchedKeeps ==
  ASSUME SysInv, NEW h \in Harts, NEW p \in Pids, sched(h, p)
  PROVE  SysInv' /\ UNCHANGED vars
<1>1. /\ run[h] = NULL /\ ~Running(p) /\ run' = [run EXCEPT ![h] = p]
      /\ wait' = [wait EXCEPT ![p] = NULL]
      /\ regs' = regs /\ lib' = lib /\ eff' = eff /\ mail' = mail /\ lock' = lock
      /\ UNCHANGED vars
  BY DEF sched, proc_acquirable, history
<1>2. p # NULL
  BY NullAssumption
<1>3. /\ run'[h] = p /\ \A g \in Harts \ {h} : run'[g] = run[g] /\ run[g] # p
      /\ wait'[p] = NULL /\ \A q \in Pids \ {p} : wait'[q] = wait[q]
  BY <1>1, DomainsIs DEF Running
<1>4. SysTypes'
  BY <1>1, DomainsIs DEF SysTypes
<1>5. ProcsInv'
  <2> SUFFICES ASSUME NEW q \in Pids
               PROVE  ProcInv(regs[q], lib[q], wait'[q], eff[q], mail[q])
    BY <1>1 DEF ProcsInv
  <2>1. ProcInv(regs[q], lib[q], wait[q], eff[q], mail[q])
    BY DEF SysInv, ProcsInv
  <2>2. ProcInv(regs[q], lib[q], NULL, eff[q], mail[q])
    BY <2>1, WokenKeeps
  <2> QED
    BY <1>3, <2>1, <2>2
<1>6. HartsInv'
  <2>1. ASSUME NEW g \in Harts, NEW k \in Harts, run'[g] = run'[k], run'[g] # NULL
        PROVE  g = k
    BY <1>3, <2>1 DEF SysInv, HartsInv
  <2>2. ASSUME NEW g \in Harts, run'[g] # NULL
        PROVE  wait'[run'[g]] = NULL
    <3>1. CASE g = h
      BY <1>3, <3>1
    <3>2. CASE g # h
      <4>1. run'[g] = run[g] /\ run[g] # p /\ run[g] \in Pids
        BY <1>3, <2>2, <3>2, DomainsIs
      <4>2. wait[run[g]] = NULL
        BY <2>2, <4>1 DEF SysInv, HartsInv
      <4> QED
        BY <1>3, <4>1, <4>2
    <3> QED
      BY <3>1, <3>2
  <2> QED
    BY <2>1, <2>2 DEF HartsInv
<1>7. LockInv'
  <2>1. lock # NULL => lock \in Harts /\ Revoking(run[lock])
    BY DEF SysInv, LockInv
  <2>2. lock # NULL => lock # h
    BY <1>1, <2>1, NullAssumption DEF Revoking
  <2>3. lock # NULL => run'[lock] = run[lock]
    BY <1>3, <2>1, <2>2
  <2> QED
    BY <1>1, <2>1, <2>3 DEF LockInv, Revoking
<1> QED
  BY <1>1, <1>4, <1>5, <1>6, <1>7 DEF SysInv

-----------------------------------------------------------------------------
(* The programs and the library.                                           *)

\* The process of hart h executes an instruction of its own.
LEMMA OwnStep ==
  ASSUME SysInv, NEW h \in Harts, Executes(h), run' = run, wait' = wait, lock' = lock,
         NEW R, NEW l, NEW e, NEW m,
         regs' = [regs EXCEPT ![run[h]] = R], lib' = [lib EXCEPT ![run[h]] = l],
         eff' = [eff EXCEPT ![run[h]] = e], mail' = [mail EXCEPT ![run[h]] = m],
         ProcInv(R, l, NULL, e, m)
  PROVE  SysInv'
<1>1. run[h] # NULL /\ lock # h
  BY DEF Executes
<1>2. run[h] \in Pids
  BY <1>1, OnHart
<1>3. /\ DOMAIN regs' = Pids /\ regs'[run[h]] = R /\ \A q \in Pids \ {run[h]} : regs'[q] = regs[q]
      /\ DOMAIN lib' = Pids /\ lib'[run[h]] = l /\ \A q \in Pids \ {run[h]} : lib'[q] = lib[q]
  BY <1>2, DomainsIs
<1>4. /\ DOMAIN eff' = Pids /\ eff'[run[h]] = e /\ \A q \in Pids \ {run[h]} : eff'[q] = eff[q]
      /\ DOMAIN mail' = Pids /\ mail'[run[h]] = m /\ \A q \in Pids \ {run[h]} : mail'[q] = mail[q]
  BY <1>2, DomainsIs
<1>5. run' = [run EXCEPT ![h] = run[h]]
  BY DomainsIs
<1>6. Alone(h, run[h])
  BY <1>1, <1>3, <1>4, <1>5 DEF Alone
<1> QED
  BY <1>6, AloneKeeps

\* The same where its library call goes on.
LEMMA OwnStepQuiet ==
  ASSUME SysInv, NEW h \in Harts, Executes(h), run' = run, wait' = wait, lock' = lock,
         NEW R, regs' = [regs EXCEPT ![run[h]] = R], lib' = lib, eff' = eff, mail' = mail,
         ProcInv(R, lib[run[h]], NULL, eff[run[h]], mail[run[h]])
  PROVE  SysInv'
<1>1. run[h] # NULL /\ lock # h
  BY DEF Executes
<1>2. run[h] \in Pids
  BY <1>1, OnHart
<1>3. DOMAIN regs' = Pids /\ regs'[run[h]] = R /\ \A q \in Pids \ {run[h]} : regs'[q] = regs[q]
  BY <1>2, DomainsIs
<1>4. DOMAIN lib' = Pids /\ DOMAIN eff' = Pids /\ DOMAIN mail' = Pids
  BY DomainsIs
<1>5. run' = [run EXCEPT ![h] = run[h]]
  BY DomainsIs
<1>6. Alone(h, run[h])
  BY <1>1, <1>3, <1>4, <1>5 DEF Alone
<1> QED
  BY <1>6, AloneKeeps

\* What is known of a process that executes.
LEMMA ExecutingIs ==
  ASSUME SysInv, NEW h \in Harts, Executes(h)
  PROVE  /\ run[h] \in Pids /\ run[h] # NULL
         /\ ProcInv(regs[run[h]], lib[run[h]], NULL, eff[run[h]], mail[run[h]])
         /\ DOMAIN regs = Pids /\ DOMAIN regs[run[h]] = Regs
<1>1. run[h] # NULL
  BY DEF Executes
<1>2. /\ run[h] \in Pids
      /\ ProcInv(regs[run[h]], lib[run[h]], NULL, eff[run[h]], mail[run[h]])
  BY <1>1, OnHart
<1> QED
  BY <1>1, <1>2, DomainsIs DEF ProcInv

LEMMA UserCallKeeps ==
  ASSUME SysInv, NEW h \in Harts, user_call(h)
  PROVE  SysInv' /\ UNCHANGED vars
<1> DEFINE p == run[h]
<1>1. PICK req : calls(h, req) /\ Fits(req)
  <2>1. PICK q \in Pids : /\ pc(q) \div 3 \in DOMAIN Program[q]
                          /\ \E req \in Program[q][pc(q) \div 3] : calls(h, req)
    BY DEF user_call
  <2> DEFINE k == pc(q) \div 3
  <2>2. k \in DOMAIN Program[q] /\ \E req \in Program[q][k] : calls(h, req)
    BY <2>1
  <2> HIDE DEF k
  <2>3. PICK req \in Program[q][k] : calls(h, req)
    BY <2>2
  <2>4. Fits(req)
    BY <2>2, <2>3, ProgramAssumption DEF Fits
  <2> QED
    BY <2>3, <2>4
<1>2. /\ Executes(h) /\ IsBefore(regs[p].PC) /\ run' = run /\ wait' = wait /\ lock' = lock
      /\ lib' = [lib EXCEPT ![p] = req] /\ eff' = [eff EXCEPT ![p] = 0]
      /\ mail' = [mail EXCEPT ![p] = NoMail] /\ UNCHANGED vars
  BY <1>1 DEF calls, Before, pc, IsBefore, procVars
<1>3. ProcInv(regs[p], lib[p], NULL, eff[p], mail[p]) /\ DOMAIN regs[p] = Regs
  BY <1>2, ExecutingIs
<1>4. PICK r0 : /\ regs' = [regs EXCEPT ![p] = load_args(r0, req)]
                /\ r0 = [regs[p] EXCEPT !.PC = @ + 1, !.SP = IF regs[p].PC = 3 THEN STACK ELSE @]
  BY <1>1 DEF calls, pc
<1>5. DOMAIN r0 = Regs /\ r0.PC = regs[p].PC + 1 /\ r0.SP = IF regs[p].PC = 3 THEN STACK ELSE regs[p].SP
  BY <1>3, <1>4 DEF Regs
<1>6. ProcInv(load_args(r0, req), req, NULL, 0, NoMail)
  BY <1>1, <1>2, <1>3, <1>5, CallKeeps
<1>7. SysInv'
  BY <1>2, <1>4, <1>6, OwnStep
<1> QED
  BY <1>2, <1>7

LEMMA RepeatsKeeps ==
  ASSUME SysInv, NEW h \in Harts, repeats(h)
  PROVE  SysInv' /\ UNCHANGED vars
<1> DEFINE p == run[h]
<1>1. /\ Executes(h) /\ IsRet(regs[p].PC) /\ regs[p].T0 = "PREEMPTED"
      /\ run' = run /\ wait' = wait /\ lock' = lock
      /\ lib' = lib /\ eff' = eff /\ mail' = mail /\ UNCHANGED vars
  BY DEF repeats, AtRet, Again, pc, IsRet, procVars, history
<1>2. ProcInv(regs[p], lib[p], NULL, eff[p], mail[p]) /\ DOMAIN regs[p] = Regs
  BY <1>1, ExecutingIs
<1>3. PICK r0 : /\ regs' = [regs EXCEPT ![p] = load_args(r0, lib[p])]
                /\ r0 = [regs[p] EXCEPT !.PC = @ - 1]
  BY DEF repeats
<1>4. DOMAIN r0 = Regs /\ r0.PC = regs[p].PC - 1 /\ r0.SP = regs[p].SP
  BY <1>2, <1>3 DEF Regs
<1>5. ProcInv(load_args(r0, lib[p]), lib[p], NULL, eff[p], mail[p])
  BY <1>1, <1>2, <1>4, RepeatKeeps
<1>6. SysInv'
  BY <1>1, <1>3, <1>5, OwnStepQuiet
<1> QED
  BY <1>1, <1>6

LEMMA UserReturnKeeps ==
  ASSUME SysInv, NEW h \in Harts, user_return(h)
  PROVE  SysInv' /\ UNCHANGED vars
<1> DEFINE p == run[h]
<1> DEFINE R == load_args([regs[p] EXCEPT !.PC = 3 * (1 + regs[p].PC \div 3)], NoReq)
<1>1. /\ Executes(h) /\ IsRet(regs[p].PC) /\ run' = run /\ wait' = wait /\ lock' = lock
      /\ lib' = [lib EXCEPT ![p] = NoReq] /\ eff' = [eff EXCEPT ![p] = 0]
      /\ mail' = [mail EXCEPT ![p] = NoMail] /\ UNCHANGED vars
  BY DEF user_return, returned, AtRet, pc, IsRet, procVars
<1>2. ProcInv(regs[p], lib[p], NULL, eff[p], mail[p]) /\ p \in Pids /\ DOMAIN regs = Pids
  BY <1>1, ExecutingIs, DomainsIs
<1>3. regs' = [regs EXCEPT ![p] = R]
  BY <1>2 DEF user_return, returned, pc
<1>4. ProcInv(R, NoReq, NULL, 0, NoMail)
  BY <1>1, <1>2, ReturnKeeps
<1> HIDE DEF R
<1>5. SysInv'
  BY <1>1, <1>3, <1>4, OwnStep
<1> QED
  BY <1>1, <1>5

LEMMA ExceptionKeeps ==
  ASSUME SysInv, NEW h \in Harts, exception(h)
  PROVE  SysInv' /\ UNCHANGED vars
<1> DEFINE p == run[h]
<1> DEFINE rs == regs[p]
<1> DEFINE R == [rs EXCEPT !.ECAUSE = 5, !.EVAL = 1, !.EPC = rs.PC,
                           !.ESP = rs.SP, !.PC = rs.TPC, !.SP = rs.TSP]
<1>1. /\ Executes(h) /\ IsBefore(rs.PC) /\ rs.TPC = TRAP
      /\ run' = [run EXCEPT ![h] = p] /\ wait' = wait /\ lock' = lock
      /\ lib' = lib /\ eff' = eff /\ mail' = mail /\ UNCHANGED vars
      /\ regs' = [regs EXCEPT ![p] = R]
  BY DEF exception, exception_delegate, trap_handler, Before, pc, IsBefore, procVars, history
<1>2. ProcInv(regs[p], lib[p], NULL, eff[p], mail[p]) /\ DOMAIN rs = Regs
  BY <1>1, ExecutingIs
<1>3. DOMAIN R = Regs /\ R.PC = TRAP /\ R.EPC = rs.PC /\ R.ESP = rs.SP
  BY <1>1, <1>2 DEF Regs
<1> HIDE DEF R
<1>4. ProcInv(R, lib[p], NULL, eff[p], mail[p])
  BY <1>1, <1>2, <1>3, TrapKeeps
<1>5. run' = run
  BY <1>1, DomainsIs
<1>6. SysInv'
  BY <1>1, <1>5, <1>4, OwnStepQuiet
<1> QED
  BY <1>1, <1>6

LEMMA TrapReturnsKeeps ==
  ASSUME SysInv, NEW h \in Harts, trap_return(h)
  PROVE  SysInv' /\ UNCHANGED vars
<1> DEFINE p == run[h]
<1> DEFINE rs == regs[p]
<1> DEFINE R == [rs EXCEPT !.PC = rs.EPC, !.SP = rs.ESP, !.ECAUSE = 0,
                           !.EVAL = 0, !.EPC = 0, !.ESP = 0]
<1>1. /\ Executes(h) /\ rs.PC = TRAP
      /\ run' = [run EXCEPT ![h] = p] /\ wait' = wait /\ lock' = lock
      /\ lib' = lib /\ eff' = eff /\ mail' = mail /\ UNCHANGED vars
      /\ regs' = [regs EXCEPT ![p] = R]
  BY DEF trap_return, exception_trap_return, trap_handler, pc, procVars, history
<1>2. ProcInv(regs[p], lib[p], NULL, eff[p], mail[p]) /\ DOMAIN rs = Regs
  BY <1>1, ExecutingIs
<1>3. DOMAIN R = Regs /\ R.PC = rs.EPC /\ R.SP = rs.ESP
  BY <1>2 DEF Regs
<1> HIDE DEF R
<1>4. ProcInv(R, lib[p], NULL, eff[p], mail[p])
  BY <1>1, <1>2, <1>3, TrapReturnKeeps
<1>5. run' = run
  BY <1>1, DomainsIs
<1>6. SysInv'
  BY <1>1, <1>5, <1>4, OwnStepQuiet
<1> QED
  BY <1>1, <1>6

-----------------------------------------------------------------------------
(* All steps.                                                              *)

\* The handler of a call, as one step.
LEMMA HandlersKeep ==
  ASSUME SysInv, TypeInv, NEW h \in Harts, handlers(h)
  PROVE  SysInv' /\ [Next]_vars
<1>1. CASE handle_get_info(h) \/ handle_reg_read(h) \/ handle_reg_write(h)
           \/ handle_sync(h) \/ handle_sleep(h) \/ handle_cap_read(h)
  BY <1>1, GetInfoKeeps, RegReadKeeps, RegWriteKeeps, SyncKeeps, SleepKeeps, CapReadKeeps
<1>2. CASE handle_cap_move(h) \/ handle_cap_delete(h) \/ handle_cap_revoke(h)
           \/ handle_cap_derive(h) \/ handle_pmp_load(h) \/ handle_pmp_unload(h)
  BY <1>2, CapMoveKeeps, CapDeleteKeeps, HandleRevokeKeeps, CapDeriveKeeps, PmpLoadKeeps, PmpUnloadKeeps
<1>3. CASE handle_mon_suspend(h) \/ handle_mon_resume(h) \/ handle_mon_state_get(h)
           \/ handle_mon_yield(h) \/ handle_mon_reg_read(h) \/ handle_mon_reg_write(h)
           \/ handle_mon_cap_read(h)
  BY <1>3, SuspendKeeps, ResumeKeeps, MonitorReadKeeps, YieldKeeps, MonitorWriteKeeps
<1>4. CASE handle_mon_cap_move(h) \/ handle_mon_pmp_load(h) \/ handle_mon_pmp_unload(h)
  BY <1>4, MonitorMoveKeeps, MonitorLoadKeeps, MonitorUnloadKeeps
<1>5. CASE handle_sock_send(h) \/ handle_sock_recv(h) \/ handle_sock_sendrecv(h)
  BY <1>5, SendKeeps, RecvKeeps, SendrecvKeeps
<1> QED
  BY <1>1, <1>2, <1>3, <1>4, <1>5 DEF handlers

\* Every step of the system is a capability operation, or leaves the
\* capabilities, the schedule, the PMP configuration and the channels alone.
LEMMA SysStep ==
  ASSUME SysInv, TypeInv, [SysNext]_allVars
  PROVE  SysInv' /\ [Next]_vars
<1>1. CASE UNCHANGED allVars
  BY <1>1, TimeKeeps DEF allVars, vars
<1>2. CASE (\E p \in Pids : expire(p)) \/ (\E h \in Harts : timer(h))
  BY <1>2, TimerKeeps
<1>3. CASE \E h \in Harts, p \in Pids : sched(h, p)
  BY <1>3, SchedKeeps
<1>4. CASE \E h \in Harts : repeats(h) \/ interrupt_handler(h)
  BY <1>4, RepeatsKeeps, InterruptKeeps
<1>5. CASE \E h \in Harts : syscall_refused(h) \/ syscall_preempted(h)
  BY <1>5, RefusedKeeps, CallPreemptedKeeps
<1>6. CASE \E h \in Harts : handlers(h)
  BY <1>6, HandlersKeep
<1>7. CASE \E h \in Harts : cap_revoke(h) \/ sock_late(h)
  BY <1>7, RevokeKeeps, LateKeeps
<1>8. CASE \E h \in Harts : user_call(h) \/ user_return(h)
  BY <1>8, UserCallKeeps, UserReturnKeeps
<1>9. CASE \E h \in Harts : exception(h) \/ trap_return(h)
  BY <1>9, ExceptionKeeps, TrapReturnsKeeps
<1> QED
  BY <1>1, <1>2, <1>3, <1>4, <1>5, <1>6, <1>7, <1>8, <1>9 DEF SysNext, KernelNext

\* No process is in a call when the kernel starts the first one.
LEMMA SysStart == SysInit => SysInv /\ TypeInv
<1> SUFFICES ASSUME SysInit PROVE SysInv /\ TypeInv
  OBVIOUS
<1>1. TypeInv
  BY TypeInit DEF SysInit
<1>2. /\ DOMAIN regs = Pids /\ DOMAIN lib = Pids /\ DOMAIN wait = Pids /\ DOMAIN eff = Pids
      /\ DOMAIN mail = Pids /\ run = [h \in Harts |-> NULL] /\ lock = NULL
      /\ \A p \in Pids : wait[p] = NULL
  BY DEF SysInit
<1>3. SysTypes /\ HartsInv /\ LockInv
  BY <1>2 DEF SysTypes, HartsInv, LockInv
<1>4. ProcsInv
  <2> SUFFICES ASSUME NEW p \in Pids PROVE ProcInv(regs[p], lib[p], NULL, eff[p], mail[p])
    BY <1>2 DEF ProcsInv
  <2>1. DOMAIN regs[p] = Regs /\ regs[p].PC \in {0, 3}
    BY DEF SysInit, Regs
  <2>2. /\ regs[p].PC \in Int /\ ~IsEcall(regs[p].PC) /\ ~IsRet(regs[p].PC)
        /\ regs[p].PC # TRAP /\ (IsBefore(regs[p].PC) => regs[p].PC = 3)
    BY <2>1, Starting
  <2> QED
    BY <2>1, <2>2 DEF ProcInv
<1> QED
  BY <1>1, <1>3, <1>4 DEF SysInv

-----------------------------------------------------------------------------
(* The theorems.                                                           *)

\* The inductive invariant: where every process is and what its registers and
\* its answer are there, together with the types of the capabilities.
THEOREM SystemInvariant == SysSpec => [](SysInv /\ TypeInv)
<1>1. SysInit => SysInv /\ TypeInv
  BY SysStart
<1>2. SysInv /\ TypeInv /\ [SysNext]_allVars => (SysInv /\ TypeInv)'
  BY SysStep, TypeStep
<1> QED
  BY <1>1, <1>2, PTL DEF SysSpec

\* The system implements the specification of the capability operations: what
\* system calls, preemption, interrupts, exceptions and the programs do to the
\* capability table, the schedule, the PMP configuration and the channels is
\* one of the operations of CapOps.tla or nothing.
THEOREM SystemImplementsCaps == SysSpec => Spec
<1>1. SysInit => Init
  BY DEF SysInit
<1>2. SysInv /\ TypeInv /\ [SysNext]_allVars => [Next]_vars
  BY SysStep
<1> QED
  BY SystemInvariant, <1>1, <1>2, PTL DEF SysSpec, Spec

\* A process finds its registers as the calling convention of the library says,
\* whatever happens to it between its instructions.
THEOREM RegistersKeptHolds == SysSpec => []RegistersKept
<1>1. ASSUME SysInv PROVE RegistersKept
  <2> SUFFICES ASSUME NEW p \in Pids
               PROVE  LET rs == regs[p] IN
                      /\ AtEcall(p) => rs.T0 = lib[p].call /\ \A i \in 1..5 : rs[ArgRegs[i]] = lib[p].a[i]
                      /\ AtRet(p) => \A i \in 1..5 :
                           ArgRegs[i] \notin Outputs(lib[p].call) => rs[ArgRegs[i]] = lib[p].a[i]
                      /\ AtEcall(p) \/ AtRet(p) => rs.SP = STACK
    BY DEF RegistersKept
  <2> DEFINE rs == regs[p]
  <2>1. ProcInv(rs, lib[p], wait[p], eff[p], mail[p])
    BY <1>1 DEF SysInv, ProcsInv
  <2>2. /\ AtEcall(p) => EcallInv(rs, lib[p], eff[p], mail[p])
        /\ AtRet(p) => RetInv(rs, lib[p], eff[p], mail[p])
    BY <2>1 DEF ProcInv, AtEcall, AtRet, pc, IsEcall, IsRet
  <2>3. ArgsLoaded(rs, lib[p]) => \A i \in 1..5 : rs[ArgRegs[i]] = lib[p].a[i]
    BY DEF ArgsLoaded, ArgRegs
  <2>4. ArgsKept(rs, lib[p]) => \A i \in 1..5 :
           ArgRegs[i] \notin Outputs(lib[p].call) => rs[ArgRegs[i]] = lib[p].a[i]
    <3> SUFFICES ASSUME ArgsKept(rs, lib[p]), NEW i \in 1..5, ArgRegs[i] \notin Outputs(lib[p].call)
                 PROVE  rs[ArgRegs[i]] = lib[p].a[i]
      OBVIOUS
    <3>1. i = 1 \/ i = 2 \/ i = 3 \/ i = 4 \/ i = 5
      OBVIOUS
    <3>2. /\ ArgRegs[1] = "A0" /\ ArgRegs[2] = "A1" /\ ArgRegs[3] = "A2"
          /\ ArgRegs[4] = "A3" /\ ArgRegs[5] = "A4"
      BY DEF ArgRegs
    <3>3. lib[p].call \notin RecvCalls /\ i # 1
      BY <3>1, <3>2 DEF Outputs, RecvCalls
    <3> QED
      BY <3>1, <3>2, <3>3 DEF ArgsKept
  <2> QED
    BY <2>2, <2>3, <2>4 DEF EcallInv, RetInv
<1> QED
  BY SystemInvariant, <1>1, PTL

\* A call that is reported as done was done exactly once, and one that is
\* reported as refused, or as preempted and not repeated, changed no capability
\* and sent nothing.
THEOREM AnsweredOnceHolds == SysSpec => []AnsweredOnce
<1>1. ASSUME SysInv PROVE AnsweredOnce
  <2> SUFFICES ASSUME NEW p \in Pids, AtRet(p), lib[p].call \in OnceCalls
               PROVE  eff[p] = IF regs[p].T0 = "SUCCESS" THEN 1 ELSE 0
    BY DEF AnsweredOnce
  <2>1. ProcInv(regs[p], lib[p], wait[p], eff[p], mail[p]) /\ IsRet(regs[p].PC)
    BY <1>1 DEF SysInv, ProcsInv, AtRet, pc, IsRet
  <2> QED
    BY <2>1 DEF ProcInv, RetInv
<1> QED
  BY SystemInvariant, <1>1, PTL

\* A process that returns from a receive has the message that reached it in its
\* registers, or an error and none reached it.
THEOREM MessageIntactHolds == SysSpec => []MessageIntact
<1>1. ASSUME SysInv PROVE MessageIntact
  <2> SUFFICES ASSUME NEW p \in Pids, AtRet(p), lib[p].call \in {"SOCK_RECV", "SOCK_SENDRECV"}
               PROVE  /\ regs[p].T0 = "SUCCESS" <=> mail[p] # NoMail
                      /\ regs[p].T0 = "SUCCESS" =>
                           [tag |-> regs[p].A0, cap |-> regs[p].A1, data |-> regs[p].A2] = mail[p]
    BY DEF MessageIntact
  <2>1. ProcInv(regs[p], lib[p], wait[p], eff[p], mail[p]) /\ IsRet(regs[p].PC)
    BY <1>1 DEF SysInv, ProcsInv, AtRet, pc, IsRet
  <2>2. RetInv(regs[p], lib[p], eff[p], mail[p]) /\ lib[p].call \in RecvCalls
    BY <2>1 DEF ProcInv, RecvCalls
  <2> QED
    BY <2>2 DEF RetInv
<1> QED
  BY SystemInvariant, <1>1, PTL

\* What is proved of the capabilities holds of the whole system, under every
\* interleaving of system calls, time slices, exceptions and programs: the
\* table is one list, resources are exclusive, revocation takes the whole tree
\* and nothing else, memory is private and the PMP configuration is that of the
\* capabilities.
THEOREM SystemKeepsCaps ==
  SysSpec => [](OneRing /\ Exclusive /\ RevokesTree /\ MemoryPrivate /\ PmpMatches)
BY SystemImplementsCaps, OneRingHolds, ExclusiveHolds, RevokesTreeHolds, MemoryPrivateHolds,
   PmpCorrect, PTL
=============================================================================
