------------------------------- MODULE Syscalls -------------------------------
(***************************************************************************)
(* The system as its programs see it: processes that call the functions of *)
(* the user library (S3kCalls.tla), the trap path of the kernel (trap.S,   *)
(* trap.c, exception.c, syscall.c) with the validator and the handler of   *)
(* every system call, the monitor calls (cap_monitor.c), and below them    *)
(* the capability table and the channels of CapOps.tla.                    *)
(*                                                                         *)
(* One entry into the kernel is one step, except that cap_revoke keeps the *)
(* capability lock from one iteration to the next.  The steps inside a     *)
(* kernel entry are interleaved in ProcIpc.tla.  Which calls the programs  *)
(* make is said in Programs.tla and Tutorials.tla.                         *)
(*                                                                         *)
(* The program counter is 3 * i before statement i of the program, one     *)
(* more at the ecall instruction of the library and two more behind it, so *)
(* that `+= 4' on REG_PC adds one here, and 0 is where a process is that   *)
(* was never started.                                                      *)
(* Calls and errors are their names; a register holds a number, a name or  *)
(* a capability.                                                           *)
(***************************************************************************)
EXTENDS CapOps, S3kCalls

CONSTANT
  Code         \* Code[p]: the memory block that the program of p is in

ASSUME CodeAssumption == DOMAIN Code = Pids

\* NULL is also no channel, for a process that does not wait, and no hart.
ASSUME NoneAssumption == NULL \notin Chans /\ NULL \notin Harts

VARIABLES
  regs,    \* proc->regs; those of a process that runs are in the hart
  susp,    \* PSF_SUSPENDED of proc->state
  wait,    \* PSF_BLOCKED of proc->state, as its channel
  tmo,     \* proc->timeout: past, the end of a hart's time slice, later, never
  run,     \* the process that hart h runs (PSF_BUSY)
  hw,      \* the PMP registers of hart h
  due,     \* whether the timer of hart h fired
  lock,    \* the hart that keeps the capability lock between two iterations
  lib,     \* the library call that p is in
  \* History variables: they only serve the properties.
  eff,     \* how many times the call of p changed the capabilities or sent
  mail     \* the message that reached p during its call

procVars == <<susp, wait>>
history == <<eff, mail>>
allVars == <<cap, next, prev, slots, pmp, channels, after, anc, root, shrunk,
             regs, susp, wait, tmo, run, hw, due, lock, lib, eff, mail>>

Regs == {"PC", "SP", "T0", "A0", "A1", "A2", "A3", "A4",
         "TPC", "TSP", "EPC", "ESP", "ECAUSE", "EVAL", "SERVTIME"}
NoReq == DO_ECALL("NONE", <<>>)
NoMail == [tag |-> -1, cap |-> NoCap, data |-> 0]

Running(p) == \E h \in Harts : run[h] = p

\* proc_is_suspended: the state is PSF_SUSPENDED and nothing else.
proc_is_suspended(p) == susp[p] /\ wait[p] = NULL /\ ~Running(p)

\* The boot of CapOps, with the registers and states that proc_init sets.
SysInit ==
  /\ Init
  /\ regs = [p \in Pids |-> [r \in Regs |-> CASE r = "PC" -> IF p = 0 THEN 3 ELSE 0
                                              [] r = "T0" -> "SUCCESS"
                                              [] OTHER -> 0]]
  /\ susp = [p \in Pids |-> p # 0]
  /\ wait = [p \in Pids |-> NULL]
  /\ tmo = [p \in Pids |-> "past"]
  /\ run = [h \in Harts |-> NULL]
  /\ hw = [h \in Harts |-> [s \in PmpSlots |-> NoPmp]]
  /\ due = [h \in Harts |-> FALSE]
  /\ lock = NULL
  /\ lib = [p \in Pids |-> NoReq]
  /\ eff = [p \in Pids |-> 0]
  /\ mail = [p \in Pids |-> NoMail]

-----------------------------------------------------------------------------
(* Memory protection: the hart takes the first region that matches.        *)

covers(e, b) == e.on /\ e.base <= b /\ b < e.base + e.size
grants(table, b) ==
  UNION {table[s].rwx : s \in {t \in PmpSlots : covers(table[t], b)
                                 /\ \A u \in 0 .. t - 1 : ~covers(table[u], b)}}

\* The process of hart h can fetch its instructions.  One that cannot takes
\* access faults, its trap handler too, until its time slice ends.
Executes(h) == run[h] # NULL /\ "x" \in grants(hw[h], Code[run[h]]) /\ lock # h

-----------------------------------------------------------------------------
(* The program and the library.                                            *)

pc(p) == regs[p].PC
Before(p) == pc(p) > 0 /\ pc(p) % 3 = 0
AtEcall(p) == pc(p) > 0 /\ pc(p) % 3 = 1
AtRet(p) == pc(p) > 0 /\ pc(p) % 3 = 2
STACK == 1

\* The registers of a program that is about to make a call.  The first thing a
\* program does is to set its stack up.
load_args(rs, req) ==
  [rs EXCEPT !.T0 = req.call, !.A0 = req.a[1], !.A1 = req.a[2],
             !.A2 = req.a[3], !.A3 = req.a[4], !.A4 = req.a[5]]

\* The program of hart h is before a statement and calls the function req.
calls(h, req) ==
  LET p == run[h]
      rs == [regs[p] EXCEPT !.PC = @ + 1, !.SP = IF pc(p) = 3 THEN STACK ELSE @]
  IN
  /\ Executes(h) /\ Before(p)
  /\ lib' = [lib EXCEPT ![p] = req]
  /\ regs' = [regs EXCEPT ![p] = load_args(rs, req)]
  /\ eff' = [eff EXCEPT ![p] = 0]
  /\ mail' = [mail EXCEPT ![p] = NoMail]
  /\ UNCHANGED vars /\ UNCHANGED procVars
  /\ UNCHANGED <<tmo, run, hw, due, lock>>

\* The library makes the call again ...
Again(p) == lib[p].retry /\ regs[p].T0 = "PREEMPTED"
repeats(h) ==
  LET p == run[h]
      rs == [regs[p] EXCEPT !.PC = @ - 1]
  IN
  /\ Executes(h) /\ AtRet(p) /\ Again(p)
  /\ regs' = [regs EXCEPT ![p] = load_args(rs, lib[p])]
  /\ UNCHANGED lib /\ UNCHANGED history
  /\ UNCHANGED vars /\ UNCHANGED procVars
  /\ UNCHANGED <<tmo, run, hw, due, lock>>

\* ... or hands the answer to the program, which goes on at statement i.
returned(h, i) ==
  LET p == run[h] IN
  /\ Executes(h) /\ AtRet(p) /\ ~Again(p)
  /\ regs' = [regs EXCEPT ![p] = load_args([@ EXCEPT !.PC = 3 * i], NoReq)]
  /\ lib' = [lib EXCEPT ![p] = NoReq]
  /\ eff' = [eff EXCEPT ![p] = 0]
  /\ mail' = [mail EXCEPT ![p] = NoMail]
  /\ UNCHANGED vars /\ UNCHANGED procVars
  /\ UNCHANGED <<tmo, run, hw, due, lock>>

-----------------------------------------------------------------------------
(* Traps.                                                                  *)

\* The ends of time slices of hart h once its timer is set anew.
rearm(t, h) == [p \in Pids |-> IF t[p] = h THEN "later" ELSE t[p]]

\* The PMP registers of hart h are those of the process.
proc_pmp_sync(h, p) == [hw EXCEPT ![h] = pmp'[p]]

\* trap_handler once a handler returned n: the process itself, which goes on
\* (trap_return, with the PMP registers it had), nobody, or another process,
\* whose PMP configuration trap_resume loads.
trap_handler(h, n, rs, t) ==
  /\ regs' = rs
  /\ run' = [run EXCEPT ![h] = n]
  /\ \/ n = run[h] /\ hw' = hw /\ due' = due /\ tmo' = t
     \/ /\ n = NULL /\ hw' = hw
        /\ due' = [due EXCEPT ![h] = FALSE]
        /\ tmo' = rearm(t, h)
     \/ /\ n \notin {run[h], NULL}
        /\ hw' = proc_pmp_sync(h, n)
        /\ due' = due /\ tmo' = t

\* A timer interrupt: trap_entry saves the registers (regs has them already),
\* and the process is released.  Also a system call that finds the timer pending,
\* which is made again when the process runs again.
interrupt_handler(h) ==
  /\ run[h] # NULL /\ lock # h /\ due[h]
  /\ trap_handler(h, NULL, regs, tmo)
  /\ UNCHANGED vars /\ UNCHANGED procVars /\ UNCHANGED history
  /\ UNCHANGED <<lock, lib>>

\* The time slice of hart h ends.
elapsed(h) == [p \in Pids |-> IF tmo[p] = h THEN "past" ELSE tmo[p]]

timer(h) ==
  /\ run[h] # NULL /\ ~due[h]
  /\ due' = [due EXCEPT ![h] = TRUE]
  /\ tmo' = elapsed(h)
  /\ UNCHANGED vars /\ UNCHANGED procVars /\ UNCHANGED history
  /\ UNCHANGED <<regs, run, hw, lock, lib>>

\* A later time comes.
expire(p) ==
  /\ tmo[p] = "later"
  /\ tmo' = [tmo EXCEPT ![p] = "past"]
  /\ UNCHANGED vars /\ UNCHANGED procVars /\ UNCHANGED history
  /\ UNCHANGED <<regs, run, hw, due, lock, lib>>

\* The state word is neither busy nor suspended and the time has come.
proc_acquirable(p) == ~susp[p] /\ ~Running(p) /\ tmo[p] = "past"

\* Mutant: trap_return in place of trap_resume.
sched_stale(h, p) ==
  /\ run[h] = NULL /\ proc_acquirable(p)
  /\ \E i \in Slots : slots[h][i].pid = p /\ slots[h][i].length > 0
  /\ run' = [run EXCEPT ![h] = p]
  /\ wait' = [wait EXCEPT ![p] = NULL]
  /\ tmo' = [tmo EXCEPT ![p] = h]
  /\ hw' = IF hw[h][0].on THEN hw ELSE [hw EXCEPT ![h] = pmp[p]]
  /\ UNCHANGED vars /\ UNCHANGED history
  /\ UNCHANGED <<regs, susp, due, lock, lib>>

\* sched gets to a slot of the process and acquires it, trap_resume loads its
\* PMP configuration.
sched(h, p) ==
  /\ run[h] = NULL /\ proc_acquirable(p)
  /\ \E i \in Slots : slots[h][i].pid = p /\ slots[h][i].length > 0
  /\ run' = [run EXCEPT ![h] = p]
  /\ wait' = [wait EXCEPT ![p] = NULL]
  /\ tmo' = [tmo EXCEPT ![p] = h]
  /\ hw' = [hw EXCEPT ![h] = pmp[p]]
  /\ UNCHANGED vars /\ UNCHANGED history
  /\ UNCHANGED <<regs, susp, due, lock, lib>>

\* An exception in the program between two calls.  (The instructions of the
\* library do not raise any.)
exception_delegate(h) ==
  LET p == run[h]
      rs == regs[p]
  IN  /\ Executes(h) /\ Before(p)
      /\ trap_handler(h, p,
           [regs EXCEPT ![p] = [rs EXCEPT !.ECAUSE = 5, !.EVAL = 1, !.EPC = rs.PC,
                                          !.ESP = rs.SP, !.PC = rs.TPC, !.SP = rs.TSP]], tmo)
      /\ UNCHANGED vars /\ UNCHANGED procVars /\ UNCHANGED history /\ UNCHANGED <<lock, lib>>

\* The trap handler of the program ends with mret, sret or uret.
exception_trap_return(h) ==
  LET p == run[h]
      rs == regs[p]
  IN  /\ Executes(h) /\ ~AtEcall(p) /\ ~AtRet(p)
      /\ trap_handler(h, p,
           [regs EXCEPT ![p] = [rs EXCEPT !.PC = rs.EPC, !.SP = rs.ESP, !.ECAUSE = 0,
                                          !.EVAL = 0, !.EPC = 0, !.ESP = 0]], tmo)
      /\ UNCHANGED vars /\ UNCHANGED procVars /\ UNCHANGED history
      /\ UNCHANGED <<lock, lib>>

-----------------------------------------------------------------------------
(* System calls: syscall_handler with the validator of the call.           *)

\* What is wrong with an argument of this kind.
invalid(kind, val) ==
  CASE kind = "idx"  -> IF val \in 0 .. CAP_CNT - 1 THEN "SUCCESS" ELSE "INVALID_INDEX"
    [] kind = "slot" -> IF val \in PmpSlots THEN "SUCCESS" ELSE "INVALID_SLOT"
    [] kind = "pid"  -> IF val \in Pids THEN "SUCCESS" ELSE "INVALID_PID"
    [] kind = "reg"  -> IF val \in Regs THEN "SUCCESS" ELSE "INVALID_REGISTER"
    [] kind = "cap"  -> IF cap_is_valid(val) THEN "SUCCESS" ELSE "INVALID_DERIVATION"

arg(h, i) == regs[run[h]][ArgRegs[i]]
own(h, i) == <<run[h], arg(h, i)>>

\* The validator: the error of the first argument that has one.
Validated(h, kinds) ==
  LET error(i) == invalid(kinds[i], arg(h, i))
      wrong == {i \in 1..Len(kinds) : error(i) # "SUCCESS"}
  IN  IF wrong = {} THEN "SUCCESS"
      ELSE error(CHOOSE i \in wrong : \A j \in wrong : i <= j)

LockFree == {"GET_INFO", "REG_READ", "REG_WRITE", "SYNC", "SLEEP", "CAP_READ"}

\* The registers once the call of p is answered.
answer(p, err) == [regs EXCEPT ![p].PC = @ + 1, ![p].T0 = err]
answer_value(p, err, val) == [answer(p, err) EXCEPT ![p].A0 = val]

\* The process goes on behind its call, which changed only registers.
returns(h, rs) ==
  /\ trap_handler(h, run[h], rs, tmo)
  /\ UNCHANGED vars /\ UNCHANGED procVars /\ UNCHANGED history /\ UNCHANGED lock

\* Hart h is at the ecall instruction of a call whose validator returned err: the
\* handler runs, with the lock if it needs it.
executes(h, call, err) ==
  /\ Executes(h) /\ AtEcall(run[h]) /\ regs[run[h]].T0 = call
  /\ err = "SUCCESS" /\ ~due[h]
  /\ call \in LockFree \/ lock = NULL
  /\ UNCHANGED lib

\* A handler that changes only registers.
fails(h, err) == err # "SUCCESS" /\ returns(h, answer(run[h], err))

-----------------------------------------------------------------------------
(* Calls without the lock.                                                 *)

validate_get_info(h) == "SUCCESS"
handle_get_info(h) ==
  LET p == run[h] IN
  /\ executes(h, "GET_INFO", validate_get_info(h))
  /\ returns(h, answer_value(p, "SUCCESS", CASE arg(h, 1) = 0 -> p
                                               [] arg(h, 1) = 1 -> "time"
                                               [] arg(h, 1) = 2 -> "timeout"
                                               [] OTHER -> 0))

validate_reg_read(h) == Validated(h, <<"reg">>)
handle_reg_read(h) ==
  LET rs == answer(run[h], "SUCCESS") IN
  /\ executes(h, "REG_READ", validate_reg_read(h))
  /\ returns(h, [rs EXCEPT ![run[h]].A0 = rs[run[h]][arg(h, 1)]])

validate_reg_write(h) == Validated(h, <<"reg">>)
handle_reg_write(h) ==
  /\ executes(h, "REG_WRITE", validate_reg_write(h))
  /\ returns(h, [answer(run[h], "SUCCESS") EXCEPT ![run[h]][arg(h, 1)] = arg(h, 2)])

\* The handler does not write T0, which still holds the number of the call.
validate_sync(h) == "SUCCESS"
handle_sync(h) ==
  LET p == run[h] IN
  /\ executes(h, "SYNC", validate_sync(h))
  /\ UNCHANGED vars
  /\ \/ /\ arg(h, 1) # 0
        /\ trap_handler(h, NULL, answer(p, "SYNC"), [tmo EXCEPT ![p] = "past"])
     \/ /\ arg(h, 1) = 0
        /\ regs' = answer(p, "SYNC")
        /\ hw' = proc_pmp_sync(h, p)
        /\ UNCHANGED <<run, due, tmo>>
  /\ UNCHANGED procVars /\ UNCHANGED history /\ UNCHANGED lock

\* To an absolute time, 1 for one that has passed and 2 for one that has not,
\* or to the end of the time slice.
validate_sleep(h) == "SUCCESS"
handle_sleep(h) ==
  LET p == run[h] IN
  /\ executes(h, "SLEEP", validate_sleep(h))
  /\ trap_handler(h, NULL, answer(p, "SUCCESS"),
       [tmo EXCEPT ![p] = CASE arg(h, 1) = 0 -> @ [] arg(h, 1) = 1 -> "past" [] OTHER -> "later"])
  /\ UNCHANGED vars /\ UNCHANGED procVars /\ UNCHANGED history /\ UNCHANGED lock

\* cap_read, of the caller's or of a monitored process' capability.
read_error(c) == IF cte_is_empty(c) THEN "EMPTY" ELSE "SUCCESS"

validate_cap_read(h) == Validated(h, <<"idx">>)
handle_cap_read(h) ==
  /\ executes(h, "CAP_READ", validate_cap_read(h))
  /\ returns(h, answer_value(run[h], read_error(own(h, 1)), cap[own(h, 1)]))

-----------------------------------------------------------------------------
(* Calls on the capability table.                                          *)

\* History: a call that changed the table had an effect.
Effect(p) == eff' = [eff EXCEPT ![p] = IF vars' = vars THEN @ ELSE @ + 1]

\* The handler changed the table and the caller goes on.
done(h) ==
  /\ watch
  /\ Effect(run[h])
  /\ trap_handler(h, run[h], answer(run[h], "SUCCESS"), tmo)
  /\ UNCHANGED procVars /\ UNCHANGED <<mail, lock>>

move_error(src, dst) ==
  IF cte_is_empty(src) THEN "SRC_EMPTY" ELSE IF cte_is_empty(dst) THEN "SUCCESS" ELSE "DST_OCCUPIED"

validate_cap_move(h) == Validated(h, <<"idx", "idx">>)
handle_cap_move(h) ==
  /\ executes(h, "CAP_MOVE", validate_cap_move(h))
  /\ \/ fails(h, move_error(own(h, 1), own(h, 2)))
     \/ cap_move(own(h, 1), own(h, 2)) /\ UNCHANGED channels /\ done(h)

validate_cap_delete(h) == Validated(h, <<"idx">>)
handle_cap_delete(h) ==
  LET c == own(h, 1) IN
  /\ executes(h, "CAP_DELETE", validate_cap_delete(h))
  /\ \/ fails(h, read_error(c))
     \/ cap_delete(c) /\ channels' = cap_delete_socket(channels, c) /\ done(h)

\* The error of cap_derive once the capabilities are there; NONE and PMP
\* capabilities have nothing to derive.
derive_error(src, dst, new) ==
  IF move_error(src, dst) # "SUCCESS" THEN move_error(src, dst)
  ELSE IF ENABLED cap_derive(src, dst, new) THEN "SUCCESS" ELSE "INVALID_DERIVATION"

validate_cap_derive(h) == Validated(h, <<"idx", "idx", "cap">>)
handle_cap_derive(h) ==
  /\ executes(h, "CAP_DERIVE", validate_cap_derive(h))
  /\ \/ fails(h, derive_error(own(h, 1), own(h, 2), arg(h, 3)))
     \/ cap_derive(own(h, 1), own(h, 2), arg(h, 3)) /\ done(h)

pmp_load_error(c, slot) ==
  IF cte_is_empty(c) THEN "EMPTY"
  ELSE IF cap[c].type # "pmp" THEN "INVALID_PMP"
  ELSE IF cap[c].used THEN "INVALID_PMP"
  ELSE IF pmp[cte_pid(c)][slot].on THEN "DST_OCCUPIED" ELSE "SUCCESS"

validate_pmp_load(h) == Validated(h, <<"idx", "slot">>)
handle_pmp_load(h) ==
  /\ executes(h, "PMP_LOAD", validate_pmp_load(h))
  /\ \/ fails(h, pmp_load_error(own(h, 1), arg(h, 2)))
     \/ cap_pmp_load(own(h, 1), arg(h, 2)) /\ done(h)

pmp_unload_error(c) ==
  IF cte_is_empty(c) THEN "EMPTY"
  ELSE IF cap[c].type # "pmp" THEN "INVALID_PMP"
  ELSE IF cap[c].used THEN "SUCCESS" ELSE "INVALID_PMP"

validate_pmp_unload(h) == Validated(h, <<"idx">>)
handle_pmp_unload(h) ==
  /\ executes(h, "PMP_UNLOAD", validate_pmp_unload(h))
  /\ \/ fails(h, pmp_unload_error(own(h, 1)))
     \/ cap_pmp_unload(own(h, 1)) /\ done(h)

\* One iteration of cap_revoke: the handlers of types without children, and of
\* a socket without a child, change nothing.
revoke_iteration(c) ==
  \/ cap_revoke_time(c)
  \/ cap_revoke_memory(c)
  \/ cap_revoke_monitor(c)
  \/ cap_revoke_channel(c)
  \/ cap_revoke_socket(c)
  \/ cap[c].type = "sock" /\ ~revokes(cap[c], cap[next[c]]) /\ UNCHANGED vars
  \/ cap[c].type = "pmp" /\ UNCHANGED vars

\* Iterations follow each other under the lock until one is the last ...
revoke_goes_on(h) ==
  LET p == run[h] IN
  /\ revoke_iteration(own(h, 1)) /\ watch
  /\ \/ /\ revoke_done(own(h, 1))
        /\ lock' = NULL
        /\ trap_handler(h, p, answer(p, "SUCCESS"), tmo)
     \/ /\ ~revoke_done(own(h, 1))
        /\ lock' = h
        /\ UNCHANGED <<regs, run, hw, due, tmo>>
  /\ UNCHANGED procVars /\ UNCHANGED history

validate_cap_revoke(h) == Validated(h, <<"idx">>)
handle_cap_revoke(h) ==
  /\ executes(h, "CAP_REVOKE", validate_cap_revoke(h))
  /\ \/ fails(h, read_error(own(h, 1)))
     \/ ~cte_is_empty(own(h, 1)) /\ revoke_goes_on(h)

\* ... or the timer fires, and the caller is told to call again.
cap_revoke(h) ==
  /\ lock = h
  /\ \/ ~due[h] /\ revoke_goes_on(h)
     \/ /\ due[h]
        /\ lock' = NULL
        /\ trap_handler(h, NULL, answer(run[h], "PREEMPTED"), tmo)
        /\ UNCHANGED vars /\ UNCHANGED procVars /\ UNCHANGED history
  /\ UNCHANGED lib

-----------------------------------------------------------------------------
(* Monitor calls (cap_monitor.c).                                          *)

check_monitor(mon, pid, check_suspended) ==
  LET m == cap[mon] IN
  IF m.type # "mon" THEN "INVALID_MONITOR"
  ELSE IF pid \notin m.mrk .. m.end - 1 THEN "INVALID_MONITOR"
  ELSE IF check_suspended /\ ~proc_is_suspended(pid) THEN "INVALID_STATE"
  ELSE "SUCCESS"

check_monitor_move(mon, src, dst) ==
  LET of(pid) == IF pid = cte_pid(mon) THEN "SUCCESS" ELSE check_monitor(mon, pid, TRUE)
  IN  IF of(cte_pid(src)) # "SUCCESS" THEN of(cte_pid(src)) ELSE of(cte_pid(dst))

\* The first of two errors.
either(err1, err2) == IF err1 # "SUCCESS" THEN err1 ELSE err2

\* The capability that arguments 2 and 3 name, and the error of the monitor
\* that argument 1 names.
their(h) == <<arg(h, 2), arg(h, 3)>>
monitor_error(h, check_suspended) == check_monitor(own(h, 1), arg(h, 2), check_suspended)

\* Mutant: the error code goes to a process that does not wait, too.
cap_monitor_suspend_code(h) ==
  LET q == arg(h, 2) IN
  /\ susp' = [susp EXCEPT ![q] = TRUE]
  /\ wait' = [wait EXCEPT ![q] = NULL]
  /\ trap_handler(h, run[h], [answer(run[h], "SUCCESS") EXCEPT ![q].T0 = "SUSPENDED"], tmo)
  /\ UNCHANGED vars /\ UNCHANGED history /\ UNCHANGED lock

\* proc_suspend ends a wait, whose caller is told.
cap_monitor_suspend(h) ==
  LET q == arg(h, 2)
      rs == answer(run[h], "SUCCESS")
  IN  /\ susp' = [susp EXCEPT ![q] = TRUE]
      /\ wait' = [wait EXCEPT ![q] = NULL]
      /\ trap_handler(h, run[h],
           IF wait[q] = NULL THEN rs ELSE [rs EXCEPT ![q].T0 = "SUSPENDED"], tmo)
      /\ UNCHANGED vars /\ UNCHANGED history /\ UNCHANGED lock

\* proc_resume.
cap_monitor_resume(h) ==
  LET q == arg(h, 2) IN
  /\ susp' = [susp EXCEPT ![q] = FALSE]
  /\ trap_handler(h, run[h], answer(run[h], "SUCCESS"),
                  IF proc_is_suspended(q) THEN [tmo EXCEPT ![q] = "past"] ELSE tmo)
  /\ UNCHANGED vars /\ UNCHANGED history /\ UNCHANGED <<wait, lock>>

validate_mon_suspend(h) == Validated(h, <<"idx", "pid">>)
handle_mon_suspend(h) ==
  /\ executes(h, "MON_SUSPEND", validate_mon_suspend(h))
  /\ \/ fails(h, monitor_error(h, FALSE))
     \/ monitor_error(h, FALSE) = "SUCCESS" /\ cap_monitor_suspend(h)

validate_mon_resume(h) == Validated(h, <<"idx", "pid">>)
handle_mon_resume(h) ==
  /\ executes(h, "MON_RESUME", validate_mon_resume(h))
  /\ \/ fails(h, monitor_error(h, FALSE))
     \/ monitor_error(h, FALSE) = "SUCCESS" /\ cap_monitor_resume(h)

cap_monitor_state_get(h) ==
  LET q == arg(h, 2) IN
  \/ fails(h, monitor_error(h, FALSE))
  \/ /\ monitor_error(h, FALSE) = "SUCCESS"
     /\ returns(h, answer_value(run[h], "SUCCESS", <<Running(q), susp[q], wait[q]>>))

validate_mon_state_get(h) == Validated(h, <<"idx", "pid">>)
handle_mon_state_get(h) ==
  /\ executes(h, "MON_STATE_GET", validate_mon_state_get(h))
  /\ cap_monitor_state_get(h)

\* The monitored process runs in the time of the caller.
cap_monitor_yield(h) ==
  /\ UNCHANGED vars
  /\ trap_handler(h, arg(h, 2), answer(run[h], "SUCCESS"), tmo)
  /\ wait' = [wait EXCEPT ![arg(h, 2)] = NULL]
  /\ UNCHANGED history /\ UNCHANGED <<susp, lock>>

validate_mon_yield(h) == Validated(h, <<"idx", "pid">>)
handle_mon_yield(h) ==
  LET err == either(monitor_error(h, FALSE),
                    IF proc_acquirable(arg(h, 2)) THEN "SUCCESS" ELSE "INVALID_STATE")
  IN  /\ executes(h, "MON_YIELD", validate_mon_yield(h))
      /\ \/ fails(h, err)
         \/ err = "SUCCESS" /\ cap_monitor_yield(h)

cap_monitor_reg_read(h) ==
  \/ fails(h, monitor_error(h, TRUE))
  \/ /\ monitor_error(h, TRUE) = "SUCCESS"
     /\ returns(h, answer_value(run[h], "SUCCESS", regs[arg(h, 2)][arg(h, 3)]))

validate_mon_reg_read(h) == Validated(h, <<"idx", "pid", "reg">>)
handle_mon_reg_read(h) ==
  executes(h, "MON_REG_READ", validate_mon_reg_read(h)) /\ cap_monitor_reg_read(h)

cap_monitor_reg_write(h) ==
  \/ fails(h, monitor_error(h, TRUE))
  \/ /\ monitor_error(h, TRUE) = "SUCCESS"
     /\ returns(h, [answer(run[h], "SUCCESS") EXCEPT ![arg(h, 2)][arg(h, 3)] = arg(h, 4)])

validate_mon_reg_write(h) == Validated(h, <<"idx", "pid", "reg">>)
handle_mon_reg_write(h) ==
  executes(h, "MON_REG_WRITE", validate_mon_reg_write(h)) /\ cap_monitor_reg_write(h)

\* A cap_read of an empty slot writes A0, too.
cap_monitor_cap_read(h) ==
  \/ fails(h, monitor_error(h, TRUE))
  \/ /\ monitor_error(h, TRUE) = "SUCCESS"
     /\ returns(h, answer_value(run[h], read_error(their(h)), cap[their(h)]))

validate_mon_cap_read(h) == Validated(h, <<"idx", "pid", "idx">>)
handle_mon_cap_read(h) ==
  executes(h, "MON_CAP_READ", validate_mon_cap_read(h)) /\ cap_monitor_cap_read(h)

cap_monitor_cap_move(h) ==
  LET src == their(h)
      dst == <<arg(h, 4), arg(h, 5)>>
      err == check_monitor_move(own(h, 1), src, dst)
  IN  \/ fails(h, either(err, move_error(src, dst)))
      \/ err = "SUCCESS" /\ cap_move(src, dst) /\ UNCHANGED channels /\ done(h)

validate_mon_cap_move(h) == Validated(h, <<"idx", "pid", "idx", "pid", "idx">>)
handle_mon_cap_move(h) ==
  executes(h, "MON_CAP_MOVE", validate_mon_cap_move(h)) /\ cap_monitor_cap_move(h)

cap_monitor_pmp_load(h) ==
  \/ fails(h, either(monitor_error(h, TRUE), pmp_load_error(their(h), arg(h, 4))))
  \/ monitor_error(h, TRUE) = "SUCCESS" /\ cap_pmp_load(their(h), arg(h, 4)) /\ done(h)

validate_mon_pmp_load(h) == Validated(h, <<"idx", "pid", "idx", "slot">>)
handle_mon_pmp_load(h) ==
  executes(h, "MON_PMP_LOAD", validate_mon_pmp_load(h)) /\ cap_monitor_pmp_load(h)

cap_monitor_pmp_unload(h) ==
  \/ fails(h, either(monitor_error(h, TRUE), pmp_unload_error(their(h))))
  \/ monitor_error(h, TRUE) = "SUCCESS" /\ cap_pmp_unload(their(h)) /\ done(h)

validate_mon_pmp_unload(h) == Validated(h, <<"idx", "pid", "idx">>)
handle_mon_pmp_unload(h) ==
  executes(h, "MON_PMP_UNLOAD", validate_mon_pmp_unload(h)) /\ cap_monitor_pmp_unload(h)

-----------------------------------------------------------------------------
(* Socket calls: what cap_ipc.c does to the processes, with what it does   *)
(* to the table and the channels (CapOps.tla).                             *)

sock(h) == cap[own(h, 1)]

\* proc_ipc_acquire: the process waits on the channel and its time has not come.
ipc_acquirable(r, ch) == r # NULL /\ wait[r] = ch /\ ~susp[r] /\ ~Running(r) /\ tmo[r] # "past"

sock_error(h, wrong) ==
  IF cte_is_empty(own(h, 1)) THEN "EMPTY" ELSE IF sock(h).type # "sock" THEN wrong ELSE "SUCCESS"

\* The checks of reply and send, and of replyrecv and call.
send_error(h) == IF arg(h, 3) /\ ~may_send_cap(sock(h)) THEN "INVALID_SOCKET" ELSE "SUCCESS"
recv_error(h) ==
  IF may_recv_cap(sock(h)) /\ ~cte_is_empty(own(h, 2)) /\ ~arg(h, 3) THEN "DST_OCCUPIED" ELSE "SUCCESS"

\* A process that is to be suspended leaves without a message.
sock_preempted(h) ==
  /\ trap_handler(h, NULL, answer(run[h], "PREEMPTED"), tmo)
  /\ UNCHANGED vars /\ UNCHANGED procVars /\ UNCHANGED history /\ UNCHANGED lock

message(h) ==
  [tag |-> sock(h).tag, cap |-> IF arg(h, 3) THEN cap[own(h, 2)] ELSE NoCap, data |-> arg(h, 4)]

\* Mutant: the registers of the message are not those the library reads.
delivered_args(rs, r, m) ==
  [rs EXCEPT ![r] = [@ EXCEPT !.T0 = "SUCCESS", !.A0 = m.tag, !.A1 = m.cap, !.A3 = m.data, !.A4 = 0]]

\* The registers of the receiver; the other three data words are zero.
delivered(rs, r, m) ==
  [rs EXCEPT ![r] = [@ EXCEPT !.T0 = "SUCCESS", !.A0 = m.tag, !.A1 = m.cap,
                              !.A2 = m.data, !.A3 = 0, !.A4 = 0]]

\* Mutant: the timeout of the wait stays.
delivered_tmo_stays(r, s, p) == [tmo EXCEPT ![r] = IF s.mode = "yield" THEN tmo[p] ELSE @]

delivered_tmo(r, s, p) == [tmo EXCEPT ![r] = IF s.mode = "yield" THEN tmo[p] ELSE "past"]
delivery(h, r) ==
  /\ mail' = [mail EXCEPT ![r] = message(h)]
  /\ eff' = [eff EXCEPT ![run[h]] = @ + 1]
  /\ UNCHANGED <<susp, lock>>

\* A client that would yield its time may have less than the server asks for
\* in REG_SERVTIME.
servtime_short(s) == s.tag # 0 /\ s.mode = "yield"

validate_sock_send(h) == Validated(h, <<"idx", "idx">>)
handle_sock_send(h) ==
  LET p == run[h]
      s == sock(h)
      r == receiver(s)
      first == sock_error(h, "INVALID_SOCKET")
      ready == first = "SUCCESS" /\ ~susp[p]
  IN
  /\ executes(h, "SOCK_SEND", validate_sock_send(h))
  /\  \/ fails(h, first)
      \/ first = "SUCCESS" /\ susp[p] /\ sock_preempted(h)
      \/ ready /\ fails(h, send_error(h))
      \/ /\ ready /\ send_error(h) = "SUCCESS"
         /\ ipc_acquirable(r, s.chan)
         /\ do_send(s, own(h, 2), arg(h, 3))
         /\ channels' = take_receiver(s) /\ watch
         /\ wait' = [wait EXCEPT ![r] = NULL]
         /\ trap_handler(h, IF s.mode = "yield" THEN r ELSE p,
                         delivered(answer(p, "SUCCESS"), r, message(h)), delivered_tmo(r, s, p))
         /\ delivery(h, r)
      \/ /\ ready /\ send_error(h) = "SUCCESS"
         /\ ~ipc_acquirable(r, s.chan) \/ servtime_short(s)
         /\ UNCHANGED capVars
         /\ channels' = take_receiver(s) /\ watch
         /\ trap_handler(h, p, answer(p, "NO_RECEIVER"), tmo)
         /\ UNCHANGED procVars /\ UNCHANGED history /\ UNCHANGED lock

\* The timeout of a process that waits, from t.
recv_tmo(t, s, p) ==
  IF s.tag = 0 \/ s.mode = "noyield" THEN [t EXCEPT ![p] = "never"] ELSE t

validate_sock_recv(h) == Validated(h, <<"idx", "idx">>)
handle_sock_recv(h) ==
  LET p == run[h]
      s == sock(h)
      server == channels[s.chan].server
      first == either(sock_error(h, "INVALID_CAPABILITY"),
                      IF "ccap" \in s.perm /\ ~cte_is_empty(own(h, 2)) THEN "DST_OCCUPIED" ELSE "SUCCESS")
      yields == server # NULL /\ s.mode = "yield" /\ proc_acquirable(server)
      ready == first = "SUCCESS" /\ ~susp[p]
  IN
  /\ executes(h, "SOCK_RECV", validate_sock_recv(h))
  /\  \/ fails(h, first)
      \/ first = "SUCCESS" /\ susp[p] /\ sock_preempted(h)
      \/ /\ ready /\ s.tag = 0
         /\ UNCHANGED capVars
         /\ channels' = do_recv(channels, s, p, own(h, 2)) /\ watch
         /\ wait' = [wait EXCEPT ![p] = s.chan]
         /\ trap_handler(h, NULL, answer(p, "TIMEOUT"), recv_tmo(tmo, s, p))
         /\ UNCHANGED history /\ UNCHANGED <<susp, lock>>
      \/ /\ ready /\ s.tag # 0 /\ channels[s.chan].client = p /\ yields
         /\ UNCHANGED capVars
         /\ channels' = [channels EXCEPT ![s.chan].cap_buf = own(h, 2)] /\ watch
         /\ wait' = [wait EXCEPT ![p] = s.chan, ![server] = NULL]
         /\ trap_handler(h, server, answer(p, "TIMEOUT"), [tmo EXCEPT ![server] = tmo[p]])
         /\ UNCHANGED history /\ UNCHANGED <<susp, lock>>
      \/ /\ ready /\ s.tag # 0 /\ channels[s.chan].client = p /\ ~yields
         /\ returns(h, answer(p, "TIMEOUT"))
      \/ /\ ready /\ s.tag # 0 /\ channels[s.chan].client # p
         /\ returns(h, answer(p, "INVALID_STATE"))

\* replyrecv and call.
validate_sock_sendrecv(h) == Validated(h, <<"idx", "idx">>)
handle_sock_sendrecv(h) ==
  LET p == run[h]
      s == sock(h)
      buf == own(h, 2)
      r == receiver(s)
      first == sock_error(h, "INVALID_CAPABILITY")
      second == either(send_error(h), recv_error(h))
      ready == first = "SUCCESS" /\ ~susp[p] /\ second = "SUCCESS"
      nobody == ~ipc_acquirable(r, s.chan) \/ servtime_short(s)
      waits(chs, t, rs, n) ==
        /\ channels' = do_recv(chs, s, p, buf) /\ watch
        /\ wait' = [q \in Pids |-> IF q = p THEN s.chan ELSE IF q = n THEN NULL ELSE wait[q]]
        /\ trap_handler(h, IF s.mode = "yield" THEN n ELSE NULL, rs, recv_tmo(t, s, p))
  IN
  /\ executes(h, "SOCK_SENDRECV", validate_sock_sendrecv(h))
  /\  \/ fails(h, first)
      \/ first = "SUCCESS" /\ susp[p] /\ sock_preempted(h)
      \/ first = "SUCCESS" /\ ~susp[p] /\ fails(h, second)
      \/ /\ ready /\ ipc_acquirable(r, s.chan)
         /\ do_send(s, buf, arg(h, 3))
         /\ waits(take_receiver(s), delivered_tmo(r, s, p),
                  delivered(answer(p, "TIMEOUT"), r, message(h)), r)
         /\ delivery(h, r)
      \/ /\ ready /\ s.tag # 0 /\ nobody
         /\ returns(h, answer(p, "NO_RECEIVER"))
      \/ /\ ready /\ s.tag = 0 /\ nobody
         /\ \/ /\ arg(h, 3) /\ cap_delete(buf)
               /\ waits(cap_delete_socket(take_receiver(s), buf), tmo, answer(p, "TIMEOUT"), NULL)
            \/ /\ arg(h, 3) => cte_is_empty(buf)
               /\ UNCHANGED capVars
               /\ waits(take_receiver(s), tmo, answer(p, "TIMEOUT"), NULL)
         /\ UNCHANGED history /\ UNCHANGED <<susp, lock>>

\* The timer fires between the test of syscall_handler and the one of do_send:
\* replyrecv leaves, the other calls return to the caller.
sock_late(h) ==
  LET p == run[h]
      call == regs[p].T0
  IN  /\ Executes(h) /\ AtEcall(p) /\ ~due[h] /\ lock = NULL /\ ~susp[p]
      /\ call \in {"SOCK_SEND", "SOCK_SENDRECV"}
      /\ validate_sock_send(h) = "SUCCESS" /\ sock_error(h, "EMPTY") = "SUCCESS"
      /\ send_error(h) = "SUCCESS"
      /\ call = "SOCK_SENDRECV" => recv_error(h) = "SUCCESS"
      /\ \/ /\ call = "SOCK_SENDRECV" /\ sock(h).tag = 0
            /\ trap_handler(h, NULL, answer(p, "PREEMPTED"), elapsed(h))
         \/ /\ call = "SOCK_SEND" \/ sock(h).tag # 0
            /\ regs' = answer(p, "PREEMPTED")
            /\ due' = [due EXCEPT ![h] = TRUE]
            /\ tmo' = elapsed(h)
            /\ UNCHANGED <<run, hw>>
      /\ UNCHANGED vars /\ UNCHANGED procVars /\ UNCHANGED history
      /\ UNCHANGED <<lock, lib>>

-----------------------------------------------------------------------------
(* Steps.                                                                  *)

\* The table of validators.
validators(h) ==
  LET call == regs[run[h]].T0 IN
  CASE call = "GET_INFO" -> validate_get_info(h)
    [] call = "REG_READ" -> validate_reg_read(h)
    [] call = "REG_WRITE" -> validate_reg_write(h)
    [] call = "SYNC" -> validate_sync(h)
    [] call = "SLEEP" -> validate_sleep(h)
    [] call = "CAP_READ" -> validate_cap_read(h)
    [] call = "CAP_MOVE" -> validate_cap_move(h)
    [] call = "CAP_DELETE" -> validate_cap_delete(h)
    [] call = "CAP_REVOKE" -> validate_cap_revoke(h)
    [] call = "CAP_DERIVE" -> validate_cap_derive(h)
    [] call = "PMP_LOAD" -> validate_pmp_load(h)
    [] call = "PMP_UNLOAD" -> validate_pmp_unload(h)
    [] call = "MON_SUSPEND" -> validate_mon_suspend(h)
    [] call = "MON_RESUME" -> validate_mon_resume(h)
    [] call = "MON_STATE_GET" -> validate_mon_state_get(h)
    [] call = "MON_YIELD" -> validate_mon_yield(h)
    [] call = "MON_REG_READ" -> validate_mon_reg_read(h)
    [] call = "MON_REG_WRITE" -> validate_mon_reg_write(h)
    [] call = "MON_CAP_READ" -> validate_mon_cap_read(h)
    [] call = "MON_CAP_MOVE" -> validate_mon_cap_move(h)
    [] call = "MON_PMP_LOAD" -> validate_mon_pmp_load(h)
    [] call = "MON_PMP_UNLOAD" -> validate_mon_pmp_unload(h)
    [] call = "SOCK_SEND" -> validate_sock_send(h)
    [] call = "SOCK_RECV" -> validate_sock_recv(h)
    [] call = "SOCK_SENDRECV" -> validate_sock_sendrecv(h)
    [] OTHER -> "INVALID_SYSCALL"

\* syscall_handler: the validator refuses the arguments.
syscall_refused(h) ==
  /\ Executes(h) /\ AtEcall(run[h])
  /\ fails(h, validators(h))
  /\ UNCHANGED lib

\* Mutant: the caller is told that its call was made.
syscall_preempted_done(h) ==
  /\ Executes(h) /\ AtEcall(run[h]) /\ validators(h) = "SUCCESS"
  /\ regs[run[h]].T0 \notin LockFree /\ lock # NULL /\ due[h]
  /\ trap_handler(h, NULL, answer(run[h], "SUCCESS"), tmo)
  /\ UNCHANGED vars /\ UNCHANGED procVars /\ UNCHANGED history /\ UNCHANGED <<lock, lib>>

\* syscall_handler: the timer fires while the call waits for the lock.
syscall_preempted(h) ==
  /\ Executes(h) /\ AtEcall(run[h]) /\ validators(h) = "SUCCESS"
  /\ regs[run[h]].T0 \notin LockFree /\ lock # NULL /\ due[h]
  /\ trap_handler(h, NULL, answer(run[h], "PREEMPTED"), tmo)
  /\ UNCHANGED vars /\ UNCHANGED procVars /\ UNCHANGED history /\ UNCHANGED <<lock, lib>>

\* syscall_handler: the handler of the call runs.
handlers(h) ==
  \/ handle_get_info(h)
  \/ handle_reg_read(h)
  \/ handle_reg_write(h)
  \/ handle_sync(h)
  \/ handle_sleep(h)
  \/ handle_cap_read(h)
  \/ handle_cap_move(h)
  \/ handle_cap_delete(h)
  \/ handle_cap_revoke(h)
  \/ handle_cap_derive(h)
  \/ handle_pmp_load(h)
  \/ handle_pmp_unload(h)
  \/ handle_mon_suspend(h)
  \/ handle_mon_resume(h)
  \/ handle_mon_state_get(h)
  \/ handle_mon_yield(h)
  \/ handle_mon_reg_read(h)
  \/ handle_mon_reg_write(h)
  \/ handle_mon_cap_read(h)
  \/ handle_mon_cap_move(h)
  \/ handle_mon_pmp_load(h)
  \/ handle_mon_pmp_unload(h)
  \/ handle_sock_send(h)
  \/ handle_sock_recv(h)
  \/ handle_sock_sendrecv(h)

\* What the kernel and the hardware do, whatever the programs are.
KernelNext ==
  \/ \E p \in Pids : expire(p)
  \/ \E h \in Harts, p \in Pids : sched(h, p)
  \/ \E h \in Harts : repeats(h)
  \/ \E h \in Harts : timer(h)
  \/ \E h \in Harts : interrupt_handler(h)
  \/ \E h \in Harts : syscall_refused(h)
  \/ \E h \in Harts : syscall_preempted(h)
  \/ \E h \in Harts : handlers(h)
  \/ \E h \in Harts : cap_revoke(h)
  \/ \E h \in Harts : sock_late(h)

-----------------------------------------------------------------------------
(* Properties.                                                             *)

\* Whatever happens to a process between its instructions (time slices that
\* end, suspension, exceptions with a trap handler, messages of others), it
\* finds its registers as the calling convention of the library says: at the
\* ecall instruction those of the call it means to make, behind it all but the
\* outputs of the call, and its own stack.
RegistersKept ==
  \A p \in Pids :
    LET rs == regs[p] IN
    /\ AtEcall(p) => rs.T0 = lib[p].call /\ \A i \in 1..5 : rs[ArgRegs[i]] = lib[p].a[i]
    /\ AtRet(p) => \A i \in 1..5 :
         ArgRegs[i] \notin Outputs(lib[p].call) => rs[ArgRegs[i]] = lib[p].a[i]
    /\ AtEcall(p) \/ AtRet(p) => rs.SP = STACK

\* Calls that change the capability tables or send a message, once.
OnceCalls == {"CAP_MOVE", "CAP_DELETE", "CAP_DERIVE", "PMP_LOAD", "PMP_UNLOAD",
              "MON_CAP_MOVE", "MON_PMP_LOAD", "MON_PMP_UNLOAD", "SOCK_SEND"}

\* A call that is reported as done was done exactly once, however often the
\* library had to repeat it, and one that is reported as refused, or as
\* preempted and not repeated, did nothing to the capabilities and sent nothing.
\* It may have done one other thing: a server's send takes the waiting client off
\* the channel (cap_ipc.c:43) before it finds that it cannot have it (:53), and is
\* answered NO_RECEIVER.
AnsweredOnce ==
  \A p \in Pids : AtRet(p) /\ lib[p].call \in OnceCalls =>
    eff[p] = IF regs[p].T0 = "SUCCESS" THEN 1 ELSE 0

\* A process that returns from a receive has either got a message, which is
\* then in its registers, or an error: a message that was delivered is not
\* lost when the receiver's time is up or it is suspended before it runs.
MessageIntact ==
  \A p \in Pids : AtRet(p) /\ lib[p].call \in {"SOCK_RECV", "SOCK_SENDRECV"} =>
    /\ regs[p].T0 = "SUCCESS" <=> mail[p] # NoMail
    /\ regs[p].T0 = "SUCCESS" =>
         [tag |-> regs[p].A0, cap |-> regs[p].A1, data |-> regs[p].A2] = mail[p]

\* A capability as it is after it moved to another process.
Moved(c) == IF c.type = "pmp" THEN [c EXCEPT !.used = FALSE, !.slot = IF c.used THEN 0 ELSE @] ELSE c

\* When a message that announces a capability reaches a process, the
\* capability is in its table.
CapsArrive ==
  [][\A p \in Pids : mail'[p] # mail[p] /\ mail'[p].cap # NoCap =>
       \E i \in 0 .. CAP_CNT - 1 : cap'[<<p, i>>] = Moved(mail'[p].cap)]_allVars
=============================================================================
