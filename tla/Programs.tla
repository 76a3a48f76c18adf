------------------------------- MODULE Programs -------------------------------
(***************************************************************************)
(* The system of Syscalls.tla with programs that make one of a set of      *)
(* calls after the other, whatever the answers are, and take exceptions in *)
(* between once they have set a trap handler.                              *)
(***************************************************************************)
EXTENDS Syscalls

CONSTANT
  Program      \* Program[p][i]: the library calls of which p makes one as its i-th

\* The words of a call are of their types: in cap_derive a descriptor, in a
\* message whether to send a capability.
sys_args_typed(req) ==
  /\ \E n \in 1..Len(SysCalls) : req.call = SysCalls[n]
  /\ req.call = "CAP_DERIVE" => req.a[3] \in Requests
  /\ req.call \in {"SOCK_SEND", "SOCK_SENDRECV"} => req.a[3] \in BOOLEAN

\* The programs write their virtual registers.  In the registers that the
\* library uses itself they write nothing with a system call, and of another
\* process they set no more than where it starts.
writes_virtual(req) ==
  /\ req.call = "REG_WRITE" => req.a[1] \notin {"PC", "SP", "A1", "A2", "A3", "A4"}
  /\ req.call = "MON_REG_WRITE" => \/ req.a[3] = "PC" /\ req.a[4] \in {0, 3}
                                  \/ req.a[3] \in {"TPC", "TSP", "SERVTIME"}

ASSUME ProgramAssumption ==
  /\ DOMAIN Program = Pids
  /\ \A p \in Pids : \A i \in DOMAIN Program[p] : \A req \in Program[p][i] :
       sys_args_typed(req) /\ writes_virtual(req)

\* The address of the trap handlers.
TRAP == -1

user_call(h) ==
  \E p \in Pids :
    /\ run[h] = p /\ Before(p) /\ pc(p) \div 3 \in DOMAIN Program[p]
    /\ \E req \in Program[p][pc(p) \div 3] : calls(h, req)

\* The program does not look at the answer.
user_return(h) == run[h] # NULL /\ returned(h, 1 + pc(run[h]) \div 3)

\* An exception between two calls, and the return from its handler with mret,
\* sret or uret.
exception(h) == run[h] # NULL /\ regs[run[h]].TPC = TRAP /\ exception_delegate(h)
trap_return(h) == run[h] # NULL /\ pc(run[h]) = TRAP /\ exception_trap_return(h)

SysNext ==
  \/ KernelNext
  \/ \E h \in Harts : user_call(h)
  \/ \E h \in Harts : user_return(h)
  \/ \E h \in Harts : exception(h)
  \/ \E h \in Harts : trap_return(h)

\* The process is at an ecall instruction that its hart can execute ...
Calling(p) ==
  \E h \in Harts : run[h] = p /\ Executes(h) /\ AtEcall(p) /\ ~due[h]
                     /\ (regs[p].T0 \in LockFree \/ lock = NULL)
\* ... and its call is executed: handlers(h), and not sock_late(h).
Called(p) ==
  /\ Calling(p)
  /\ \/ regs'[p].PC # regs[p].PC /\ (regs'[p].T0 = "PREEMPTED" => susp[p])
     \/ lock' # lock

\* Time passes, pending interrupts are taken and a hart that has the lock goes
\* on.  The slots of a process come again and again, and a time slice is longer
\* than a system call: a process that is scheduled again and again executes the
\* instruction it is at.  (For the calls, strong fairness is written out with
\* the condition under which handlers(h) is enabled.)
Fairness ==
  /\ \A p \in Pids :
       /\ WF_allVars(expire(p))
       /\ SF_allVars(\E h \in Harts : sched(h, p))
       /\ SF_allVars(\E h \in Harts : run[h] = p /\ (repeats(h) \/ user_return(h)))
       /\ []<>Calling(p) => []<><<Called(p)>>_allVars
  /\ \A h \in Harts : WF_allVars(timer(h) \/ interrupt_handler(h) \/ cap_revoke(h))

SysSpec == SysInit /\ [][SysNext]_allVars /\ Fairness

-----------------------------------------------------------------------------
(* Properties.                                                             *)

\* The process owns time and may execute its code.
CanRun(p) ==
  /\ \E h \in Harts, i \in Slots : slots[h][i].pid = p /\ slots[h][i].length > 0
  /\ "x" \in grants(pmp[p], Code[p])
WaitsForever(p) == wait[p] # NULL /\ tmo[p] = "never"

\* Every library call comes to an end, also one that the kernel preempts and
\* the library repeats, unless the process waits for a message without a
\* timeout, is suspended, or loses its time or its code.
CallsReturn ==
  \A p \in Pids :
    lib[p] # NoReq /\ ~WaitsForever(p)
      ~> lib[p] = NoReq \/ WaitsForever(p) \/ susp[p] \/ ~CanRun(p)

\* A process that has lost its right to a block of memory for good, because the
\* PMP capability was revoked, moved or unloaded, can use the block only until
\* the hart it runs on loads its PMP configuration anew.  (Stated for the block
\* that its program is in, which ends the program.)
RevokedGoes ==
  \A p \in Pids :
    []<>(grants(pmp[p], Code[p]) # {})
      \/ <>[](\A h \in Harts : run[h] = p => grants(hw[h], Code[p]) = {})
=============================================================================
