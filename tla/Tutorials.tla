------------------------------- MODULE Tutorials -------------------------------
(***************************************************************************)
(* The tutorials, the exercise and the small projects, as programs of the  *)
(* system of Syscalls.tla: their main functions with the functions of      *)
(* tutorial-commons/utils.h, on the platform qemu_virt4.  A program is a   *)
(* sequence of statements; its system calls go through the kernel, its     *)
(* accesses to devices and shared memory through the PMP registers of the  *)
(* hart it runs on, its file accesses through the driver of Virtio.tla.    *)
(* Computation, and what is printed, is left out.                          *)
(*                                                                         *)
(* The sequences are state functions: they name the locals of the program. *)
(***************************************************************************)
EXTENDS Syscalls, S3kCaps, Virtio

CONSTANTS
  HartSeq,   \* the harts, from S3K_MIN_HART on
  Tuts       \* the programs to run

VARIABLES
  tut,       \* the project
  loc,       \* loc[p]: the locals of p that hold capability indices
  image,     \* the program in the memory of process 1
  vol        \* fs_type of the FATFS object: none, mounting, mounted

progVars == <<tut, loc, image, vol>>
tutVars == <<allVars, virtioVars, progVars>>

Locals == {"mem", "cap", "server", "socket", "idx", "buffer"}

\* The addresses: RAM has tag 0 (the programs' own blocks, then the buffer that
\* they share), the devices tag 1.
BASE == [p \in Pids |-> p]
SHARED_BUFFER_BASE == 2
UART0_BASE_ADDR == tag_block_to_addr(1, 0)
VIRTIO0 == tag_block_to_addr(1, 1)
MEM_RW == {"r", "w"}

\* The indices of utils.h (4 to 20 with four harts).
BOOT_PMP == 0
RAM_MEM == 1
UART_MEM == 2
TIME_MEM == 3
HART_TIME(n) == 4 + n
MONITOR == 4 + Len(HartSeq)
CHANNEL == MONITOR + 1
UART_CAP == MONITOR + 2
FREE_CAP_BEGIN == MONITOR + 4
FREE_CAP_END == CAP_CNT - 1
APP_1_CAP_PMP_MEM == 0
APP_1_TIME == 1
APP_1_CAP_SOCKET == 3
APP_1_CAP_PMP_UART == UART_CAP
UART_PMP == 1
BUFFER_PMP == 2

\* INIT_CAPS of the platform, without the memory of the TPM (index 25).
qemu_virt4 ==
  << cap_mk_pmp(BASE[0], 1, MEM_RWX), cap_mk_memory(0, 1, TAG_BLOCKS, MEM_RWX),
     cap_mk_memory(1, 0, 2, MEM_RW), cap_mk_memory(2, 0, 1, {"r"}) >>
  \o [n \in 1..Len(HartSeq) |-> cap_mk_time(HartSeq[n], 0, SLOT_CNT)]
  \o << cap_mk_monitor(0, PROC_CNT), cap_mk_channel(0, CHAN_CNT) >>

-----------------------------------------------------------------------------
(* Statements.                                                             *)

Nothing == [do |-> "end", reqs |-> {}, must |-> FALSE, to |-> {1},
            addr |-> 0, rwx |-> "w", var |-> "idx", val |-> 0]

\* A library call of which the program ignores the answer; one that its author
\* takes to succeed; one that goes on at the place `to' depending on it.
Call(req) == [Nothing EXCEPT !.do = "call", !.reqs = {req}]
Must(req) == [Call(req) EXCEPT !.must = TRUE]
Branch(reqs, to) == [Nothing EXCEPT !.do = "call", !.reqs = reqs, !.to = {to}]

\* An access to memory, the assignment of a local, the return from the trap
\* handler, a call of FatFs that may write, or read up to n sectors at a time.
Access(addr, rwx) == [Nothing EXCEPT !.do = "access", !.addr = addr, !.rwx = rwx]
Set(x, val) == [Nothing EXCEPT !.do = "set", !.var = x, !.val = val]
MRET == [Nothing EXCEPT !.do = "mret"]
File(writes, n, to) == [Nothing EXCEPT !.do = "file", !.must = writes, !.val = n, !.to = to]
Jump(d) == [Nothing EXCEPT !.do = "jump", !.to = {d}]

\* The answer to the call that p returns from.
Err(p) == regs[p].T0 # "SUCCESS"
TimedOut(p) == regs[p].T0 = "TIMEOUT"
SawBlocked(p) ==
  AtRet(p) /\ lib[p].call = "MON_STATE_GET" /\ ~Err(p) /\ regs[p].A0[3] # NULL
GotCap(p) == AtRet(p) /\ lib[p].call = "SOCK_SENDRECV" /\ ~Err(p) /\ regs[p].A1.type # "none"

-----------------------------------------------------------------------------
(* utils.h.                                                                *)

uart_addr == s3k_napot_encode(UART0_BASE_ADDR, 1)
app1_addr == s3k_napot_encode(BASE[1], 1)
buffer_addr == s3k_napot_encode(SHARED_BUFFER_BASE, 1)

alt_puts == Access(UART0_BASE_ADDR, "w")

setup_uart ==
  << Must(s3k_cap_derive(UART_MEM, UART_CAP, s3k_mk_pmp(uart_addr, MEM_RW))),
     Must(s3k_pmp_load(UART_CAP, UART_PMP)),
     Call(s3k_sync_mem) >>

setup_uart_and_virtio ==
  << Must(s3k_cap_derive(UART_MEM, UART_CAP, s3k_mk_pmp(s3k_napot_encode(UART0_BASE_ADDR, 2), MEM_RW))),
     Must(s3k_pmp_load(UART_CAP, UART_PMP)),
     Call(s3k_sync_mem) >>

default_trap_handler ==
  << Call(s3k_reg_read("EPC")), Call(s3k_reg_read("ESP")), Call(s3k_reg_read("ECAUSE")),
     Call(s3k_reg_read("EVAL")), alt_puts, MRET >>

\* The handlers of all projects are at the same place.
TRAP_HANDLER == 100
TRAP_STACK == 2
setup_trap == << Must(s3k_reg_write("TPC", 3 * TRAP_HANDLER)), Must(s3k_reg_write("TSP", TRAP_STACK)) >>

debug_capability_from_idx(p, i) == << Branch({s3k_cap_read(i)}, IF Err(p) THEN 0 ELSE 1), alt_puts >>

log_sys(req) == << Must(req), alt_puts >>

\* The first index of the range that is empty, or 0.  (The system calls that read
\* the capabilities change nothing but the registers of the call.)
find_free_cap(p) ==
  LET empty == {i \in FREE_CAP_BEGIN .. FREE_CAP_END : cap[<<p, i>>] = NoCap} IN
  IF empty = {} THEN 0 ELSE CHOOSE i \in empty : \A j \in empty : i <= j

setup_app_1 ==
  LET l == loc[0] IN
  << Set("mem", find_free_cap(0)) >>
  \o log_sys(s3k_cap_derive(RAM_MEM, l.mem, s3k_mk_memory(BASE[1], BASE[1] + 1, MEM_RWX)))
  \o << Set("cap", find_free_cap(0)) >>
  \o log_sys(s3k_cap_derive(l.mem, l.cap, s3k_mk_pmp(app1_addr, MEM_RWX)))
  \o log_sys(s3k_mon_cap_move(MONITOR, 0, l.cap, 1, APP_1_CAP_PMP_MEM))
  \o log_sys(s3k_mon_pmp_load(MONITOR, 1, APP_1_CAP_PMP_MEM, 0))
  \o log_sys(s3k_cap_derive(UART_MEM, l.cap, s3k_mk_pmp(uart_addr, MEM_RW)))
  \o log_sys(s3k_mon_cap_move(MONITOR, 0, l.cap, 1, APP_1_CAP_PMP_UART))
  \o log_sys(s3k_mon_pmp_load(MONITOR, 1, APP_1_CAP_PMP_UART, UART_PMP))
  \o log_sys(s3k_mon_reg_write(MONITOR, 1, "PC", 3))
  \o << Call(s3k_sync_mem) >>

\* Half of the time of the first hart.
halve ==
  << Must(s3k_cap_delete(HART_TIME(1))),
     Set("cap", find_free_cap(0)),
     Must(s3k_cap_derive(HART_TIME(0), loc[0].cap, s3k_mk_time(HartSeq[1], 0, SLOT_CNT \div 2))) >>

\* Mutant: the processes get a hart each.
setup_scheduling_parallel(scheduling_type) ==
  << Must(s3k_mon_cap_move(MONITOR, 0, HART_TIME(1), 1, APP_1_TIME)), Call(s3k_sync) >>

setup_scheduling(scheduling_type) ==
  [n \in 1 .. Len(HartSeq) - 2 |-> Must(s3k_cap_delete(HART_TIME(n + 1)))]
  \o (CASE scheduling_type = "NO_APP_1" -> << Must(s3k_cap_delete(HART_TIME(1))) >>
        [] scheduling_type = "NO_APP_0" ->
             halve \o << Must(s3k_mon_cap_move(MONITOR, 0, HART_TIME(0), 1, APP_1_TIME)) >>
        [] scheduling_type = "ROUND_ROBIN" ->
             halve \o << alt_puts, Must(s3k_mon_cap_move(MONITOR, 0, loc[0].cap, 1, APP_1_TIME)), alt_puts >>
        [] scheduling_type = "PARALLEL" ->
             << Must(s3k_mon_cap_move(MONITOR, 0, HART_TIME(1), 1, APP_1_TIME)) >>)
  \o << Call(s3k_sync) >>

end_of_channel(yield, capability, tag) ==
  s3k_mk_socket(0, IF yield THEN "yield" ELSE "noyield",
                {"sdata", "cdata"} \union (IF capability THEN {"scap", "ccap"} ELSE {}), tag)

\* One end of a channel for each process: `server' says which one process 0 keeps.
setup_socket(server, yield, capability) ==
  LET l == loc[0] IN
  << Set("server", find_free_cap(0)),
     Must(s3k_cap_derive(CHANNEL, l.server, end_of_channel(yield, capability, 0))),
     Set("cap", find_free_cap(0)),
     Must(s3k_cap_derive(l.server, l.cap, end_of_channel(yield, capability, 1))),
     Must(s3k_mon_cap_move(MONITOR, 0, IF server THEN l.cap ELSE l.server, 1, APP_1_CAP_SOCKET)),
     Set("socket", IF server THEN l.server ELSE l.cap) >>

\* The message that a program sends; cap_idx and send_cap are not initialised in
\* most of them.
s3k_msg(i, send) == [cap_idx |-> i, send_cap |-> send, data |-> 5]
Garbage == {s3k_msg(0, TRUE), s3k_msg(FREE_CAP_END, FALSE)}

\* The capability index is set before each receive, or never.
server_main_loop(on_msg, capability) ==
  LET msgs == IF capability THEN {s3k_msg(loc[1].idx, TRUE)} ELSE Garbage IN
  << Set("idx", IF capability THEN find_free_cap(1) ELSE loc[1].idx),
     alt_puts,
     Branch({s3k_sock_sendrecv(APP_1_CAP_SOCKET, m) : m \in msgs},
            IF Err(1) THEN -2 ELSE IF capability /\ ~GotCap(1) THEN 1 + Len(on_msg) ELSE 1) >>
  \o on_msg
  \o << Jump(-3 - Len(on_msg)) >>

wait_for_app1_blocked ==
  << alt_puts,
     Branch({s3k_mon_state_get(MONITOR, 1)}, IF Err(0) THEN -1 ELSE IF SawBlocked(0) THEN 4 ELSE 1),
     alt_puts,
     Call(s3k_mon_yield(MONITOR, 1)),
     [alt_puts EXCEPT !.to = {-4}] >>

send_receive_forever(p, socket, msgs) ==
  << Branch({s3k_sock_sendrecv(socket, m) : m \in msgs},
            IF ~Err(p) THEN 3 ELSE IF TimedOut(p) THEN 1 ELSE 0),
     alt_puts,
     Branch({s3k_sock_recv(socket, m.cap_idx) : m \in msgs},
            IF ~Err(p) THEN 1 ELSE IF TimedOut(p) THEN -1 ELSE -2) >>

\* The loop of a client or server that sends until it gets an answer, and prints.
send_until_answered(p, socket) ==
  << Branch({s3k_sock_sendrecv(socket, m) : m \in Garbage}, IF Err(p) THEN 0 ELSE 1),
     [alt_puts EXCEPT !.to = {-1}] >>

-----------------------------------------------------------------------------
(* The main functions.                                                     *)

hello_world == setup_uart \o << alt_puts >>

trap_handler_02 == setup_uart \o << alt_puts >> \o default_trap_handler
main_02 == setup_trap \o << alt_puts >>

\* The second derivation asks for memory that the first one took.
main_03 ==
  LET l == loc[0]
      ram == s3k_mk_memory(BASE[1], BASE[1] + 1, MEM_RWX)
  IN  setup_uart \o setup_trap \o << alt_puts >>
      \o debug_capability_from_idx(0, RAM_MEM)
      \o << Set("mem", find_free_cap(0)), alt_puts >>
      \o log_sys(s3k_cap_derive(RAM_MEM, l.mem, ram))
      \o << Set("cap", find_free_cap(0)), Call(s3k_cap_derive(RAM_MEM, l.cap, ram)), alt_puts >>
      \o debug_capability_from_idx(0, RAM_MEM) \o debug_capability_from_idx(0, l.mem)
      \o << Set("cap", find_free_cap(0)) >>
      \o log_sys(s3k_cap_derive(l.mem, l.cap, s3k_mk_pmp(app1_addr, MEM_RW)))
      \o debug_capability_from_idx(0, l.mem) \o debug_capability_from_idx(0, l.cap)
      \o log_sys(s3k_pmp_load(l.cap, BUFFER_PMP))
      \o << alt_puts, Call(s3k_sync_mem), alt_puts, Access(BASE[1], "w"), Access(BASE[1], "r"), alt_puts >>

main_04 ==
  setup_uart \o setup_app_1 \o << alt_puts >> \o setup_scheduling("PARALLEL")
  \o log_sys(s3k_mon_resume(MONITOR, 1)) \o << [alt_puts EXCEPT !.to = {0}] >>
main_04_app1 == << alt_puts, Must(s3k_cap_revoke(APP_1_TIME)), [alt_puts EXCEPT !.to = {0}] >>

\* Tutorials 5 and 7, where the time of the caller is yielded, or not.
main_05(yield) ==
  setup_uart \o << alt_puts >> \o setup_app_1 \o setup_scheduling("ROUND_ROBIN")
  \o setup_socket(TRUE, yield, FALSE)
  \o << Must(s3k_mon_resume(MONITOR, 1)), Must(s3k_reg_write("SERVTIME", 4500)) >>
  \o send_until_answered(0, loc[0].socket)
main_05_app1 == << alt_puts >> \o send_until_answered(1, APP_1_CAP_SOCKET)

\* app1 of tutorial 07 is the same program.
main_07_app1 == main_05_app1

main_06 ==
  setup_uart \o << alt_puts >> \o setup_app_1 \o setup_socket(FALSE, TRUE, FALSE)
  \o << Must(s3k_mon_resume(MONITOR, 1)) >> \o wait_for_app1_blocked
  \o << Must(s3k_reg_write("SERVTIME", 4500)) >>
  \o send_receive_forever(0, loc[0].socket, Garbage) \o << [alt_puts EXCEPT !.to = {-3}] >>
on_msg_06 == << alt_puts >>
main_06_app1 == << alt_puts >> \o server_main_loop(on_msg_06, FALSE)

setup_buffer_cap ==
  << Set("buffer", find_free_cap(0)) >> \o debug_capability_from_idx(0, RAM_MEM)
  \o log_sys(s3k_cap_derive(RAM_MEM, loc[0].buffer,
                            s3k_mk_memory(SHARED_BUFFER_BASE, SHARED_BUFFER_BASE + 1, MEM_RW)))

\* Mutant: the capability that the other process has is not revoked.
setup_buffer_pmp_kept ==
  << Set("cap", find_free_cap(0)) >>
  \o log_sys(s3k_cap_derive(loc[0].buffer, loc[0].cap, s3k_mk_pmp(buffer_addr, MEM_RW)))
  \o log_sys(s3k_pmp_load(loc[0].cap, BUFFER_PMP))
  \o << Call(s3k_sync_mem) >>

setup_buffer_pmp ==
  << Set("cap", find_free_cap(0)) >>
  \o log_sys(s3k_cap_revoke(loc[0].buffer))
  \o log_sys(s3k_cap_derive(loc[0].buffer, loc[0].cap, s3k_mk_pmp(buffer_addr, MEM_RW)))
  \o log_sys(s3k_pmp_load(loc[0].cap, BUFFER_PMP))
  \o << Call(s3k_sync_mem) >>

main_08 ==
  LET turn == setup_buffer_pmp
              \o << alt_puts, Access(SHARED_BUFFER_BASE, "w"), alt_puts >>
              \o send_receive_forever(0, loc[0].socket, {s3k_msg(loc[0].cap, TRUE)})
              \o << alt_puts >>
  IN  setup_uart \o << alt_puts >> \o setup_app_1 \o setup_socket(FALSE, TRUE, TRUE)
      \o << Must(s3k_mon_resume(MONITOR, 1)) >> \o wait_for_app1_blocked \o << alt_puts >>
      \o setup_buffer_cap \o << Must(s3k_reg_write("SERVTIME", 4500)) >>
      \o turn \o << Jump(-Len(turn)) >>
on_msg_08 ==
  << Must(s3k_pmp_load(loc[1].idx, BUFFER_PMP)), Call(s3k_sync_mem), Access(SHARED_BUFFER_BASE, "r") >>
main_08_app1 == << alt_puts >> \o server_main_loop(on_msg_08, TRUE)

\* The calls of FatFs, as far as the driver sees them: f_open may create the file,
\* f_read reads, f_write and f_close write.  A call that fails goes on elsewhere.
f_open(creates, failed) == File(creates, 1, {1, failed})
f_read == File(FALSE, 2, {1})
f_write == File(TRUE, 1, {1})
f_close(writes, failed) == File(writes, 1, {1, failed})

main_09 ==
  setup_uart_and_virtio \o << alt_puts, alt_puts >>
  \o << f_open(TRUE, 3), f_write, f_close(TRUE, 1), alt_puts >>
  \o << f_open(FALSE, 3), f_read, f_close(FALSE, 1), alt_puts >>

setup_other_app ==
  LET l == loc[0] IN
  << Set("mem", find_free_cap(0)),
     Must(s3k_cap_derive(RAM_MEM, l.mem, s3k_mk_memory(BASE[1], BASE[1] + 1, MEM_RWX))),
     Set("cap", find_free_cap(0)),
     Must(s3k_cap_derive(l.mem, l.cap, s3k_mk_pmp(app1_addr, MEM_RWX))),
     Must(s3k_mon_cap_move(MONITOR, 0, l.cap, 1, APP_1_CAP_PMP_MEM)),
     Must(s3k_mon_pmp_load(MONITOR, 1, APP_1_CAP_PMP_MEM, 0)),
     Set("cap", find_free_cap(0)),
     Must(s3k_cap_derive(l.mem, l.cap, s3k_mk_pmp(app1_addr, MEM_RWX))),
     Must(s3k_pmp_load(l.cap, BUFFER_PMP)),
     Set("cap", find_free_cap(0)),
     Must(s3k_cap_derive(UART_MEM, l.cap, s3k_mk_pmp(uart_addr, MEM_RW))),
     Must(s3k_mon_cap_move(MONITOR, 0, l.cap, 1, APP_1_CAP_PMP_UART)),
     Must(s3k_mon_pmp_load(MONITOR, 1, APP_1_CAP_PMP_UART, UART_PMP)),
     Must(s3k_mon_reg_write(MONITOR, 1, "PC", 3)),
     Call(s3k_sync_mem) >>

\* memcpy of the file into the memory of process 1, which is then another program.
COPY == [Access(BASE[1], "w") EXCEPT !.do = "copy"]

exercise ==
  setup_uart_and_virtio \o << alt_puts >> \o setup_other_app \o setup_scheduling("ROUND_ROBIN")
  \o setup_socket(TRUE, TRUE, FALSE) \o << Must(s3k_mon_resume(MONITOR, 1)) >>
  \o << Branch({s3k_sock_sendrecv(loc[0].socket, m) : m \in Garbage}, IF Err(0) THEN 0 ELSE 1),
        alt_puts,
        Must(s3k_mon_suspend(MONITOR, 1)),
        f_open(FALSE, 7), f_read, f_close(FALSE, 5),
        alt_puts, COPY,
        Must(s3k_mon_reg_write(MONITOR, 1, "PC", 3)),
        [Must(s3k_mon_resume(MONITOR, 1)) EXCEPT !.to = {-9}],
        [alt_puts EXCEPT !.to = {-10}] >>
exercise_app1 ==
  << alt_puts >> \o send_receive_forever(1, APP_1_CAP_SOCKET, Garbage) \o << alt_puts >>
exercise_app2 == << alt_puts >>

\* hello and ping-pong, which have their own set-up functions.
setup_app1(tmp, time) ==
  << Must(s3k_cap_derive(RAM_MEM, tmp, s3k_mk_pmp(app1_addr, MEM_RWX))),
     Must(s3k_mon_cap_move(MONITOR, 0, tmp, 1, 0)),
     Must(s3k_mon_pmp_load(MONITOR, 1, 0, 0)),
     Must(s3k_cap_derive(UART_MEM, tmp, s3k_mk_pmp(uart_addr, MEM_RW))),
     Must(s3k_mon_cap_move(MONITOR, 0, tmp, 1, 1)),
     Must(s3k_mon_pmp_load(MONITOR, 1, 1, UART_PMP)),
     Must(s3k_mon_cap_move(MONITOR, 0, time, 1, 2)),
     Must(s3k_mon_reg_write(MONITOR, 1, "PC", 3)) >>

hello == setup_uart \o setup_app1(UART_CAP + 1, HART_TIME(1))
         \o << Must(s3k_mon_resume(MONITOR, 1)), alt_puts, alt_puts >>
hello_app1 == << alt_puts, alt_puts >>

pingpong_sockets(socket, tmp) ==
  << Must(s3k_cap_derive(CHANNEL, socket, end_of_channel(TRUE, FALSE, 0))),
     Must(s3k_cap_derive(socket, tmp, end_of_channel(TRUE, FALSE, 1))),
     Must(s3k_mon_cap_move(MONITOR, 0, tmp, 1, 3)) >>
pingpong ==
  [n \in 1 .. Len(HartSeq) - 1 |-> Must(s3k_cap_delete(HART_TIME(n)))]
  \o setup_uart \o << alt_puts >> \o setup_app1(UART_CAP + 1, HART_TIME(0))
  \o pingpong_sockets(UART_CAP + 1, UART_CAP + 2)
  \o << Branch({s3k_cap_read(1)}, IF Err(0) THEN 0 ELSE 1), Must(s3k_mon_resume(MONITOR, 1)) >>
  \o send_until_answered(0, UART_CAP + 1)
pingpong_app1 ==
  << alt_puts >> \o send_receive_forever(1, 3, Garbage) \o << [alt_puts EXCEPT !.to = {-3}] >>

trapped_handler ==
  << Call(s3k_reg_read("EPC")), Call(s3k_reg_read("ESP")), Call(s3k_reg_read("ECAUSE")),
     Call(s3k_reg_read("EVAL")) >> \o setup_uart \o << alt_puts, alt_puts, MRET >>
trapped == setup_trap \o << alt_puts, alt_puts >>

-----------------------------------------------------------------------------
(* The programs and their steps.                                           *)

Main(p) ==
  CASE tut = "hello_world" -> hello_world
    [] tut = "02" -> main_02
    [] tut = "03" -> main_03
    [] tut = "04" -> IF p = 0 THEN main_04 ELSE main_04_app1
    [] tut = "05" -> IF p = 0 THEN main_05(TRUE) ELSE main_05_app1
    [] tut = "06" -> IF p = 0 THEN main_06 ELSE main_06_app1
    [] tut = "07" -> IF p = 0 THEN main_05(FALSE) ELSE main_07_app1
    [] tut = "08" -> IF p = 0 THEN main_08 ELSE main_08_app1
    [] tut = "09" -> main_09
    [] tut = "exercise" -> IF p = 0 THEN exercise
                           ELSE IF image = "app1" THEN exercise_app1 ELSE exercise_app2
    [] tut = "hello" -> IF p = 0 THEN hello ELSE hello_app1
    [] tut = "pingpong" -> IF p = 0 THEN pingpong ELSE pingpong_app1
    [] tut = "trapped" -> trapped

Handler ==
  CASE tut = "02" -> trap_handler_02
    [] tut = "trapped" -> trapped_handler
    [] OTHER -> default_trap_handler

\* The statement that p is at.  Behind the last one start.S loops.
Stmt(p) ==
  LET i == pc(p) \div 3
      code == IF i >= TRAP_HANDLER THEN Handler ELSE Main(p)
      n == IF i >= TRAP_HANDLER THEN i - TRAP_HANDLER + 1 ELSE i
  IN  IF n \in DOMAIN code THEN code[n] ELSE Nothing

\* Hart h is before the statement s, of one of these kinds.
doing(h, s, kinds) == Executes(h) /\ Before(run[h]) /\ s.do \in kinds

\* The program goes on d statements further.
moves(h, d) ==
  LET p == run[h]
      rs == regs[p]
  IN
  /\ regs' = [regs EXCEPT ![p] = [rs EXCEPT !.PC = rs.PC + 3 * d,
                                           !.SP = IF rs.PC = 3 THEN STACK ELSE rs.SP]]
  /\ UNCHANGED vars /\ UNCHANGED procVars /\ UNCHANGED history
  /\ UNCHANGED <<tmo, run, hw, due, lock, lib>>

program_call(h, s) ==
  /\ doing(h, s, {"call"})
  /\ \E req \in s.reqs : calls(h, req)
  /\ UNCHANGED virtioVars /\ UNCHANGED progVars

program_return(h, s) ==
  /\ AtRet(run[h])
  /\ \E d \in s.to : returned(h, d + pc(run[h]) \div 3)
  /\ UNCHANGED virtioVars /\ UNCHANGED progVars

program_set(h, s) ==
  /\ doing(h, s, {"set", "jump"})
  /\ loc' = IF s.do = "set" THEN [loc EXCEPT ![run[h]][s.var] = s.val] ELSE loc
  /\ \E d \in s.to : moves(h, d)
  /\ UNCHANGED virtioVars /\ UNCHANGED <<tut, image, vol>>

\* A store or load that the PMP registers of the hart allow ...
program_access(h, s) ==
  /\ doing(h, s, {"access", "copy"}) /\ s.rwx \in grants(hw[h], s.addr)
  /\ \E d \in s.to : moves(h, d)
  /\ image' = IF s.do = "copy" THEN "app2" ELSE image
  /\ UNCHANGED virtioVars /\ UNCHANGED <<tut, loc, vol>>

\* ... or not.  The driver of Virtio.tla accesses the registers of the device.
reaches_device(h) == MEM_RW \subseteq grants(hw[h], VIRTIO0)
program_fault(h, s) ==
  /\ \/ doing(h, s, {"access", "copy"}) /\ s.rwx \notin grants(hw[h], s.addr)
     \/ doing(h, s, {"file"}) /\ ~reaches_device(h)
  /\ exception_delegate(h)
  /\ UNCHANGED virtioVars /\ UNCHANGED progVars

program_mret(h, s) ==
  /\ doing(h, s, {"mret"})
  /\ exception_trap_return(h)
  /\ UNCHANGED virtioVars /\ UNCHANGED progVars

\* The process is in a call of FatFs.
in_file(h, s) ==
  /\ doing(h, s, {"file"}) /\ reaches_device(h)
  /\ UNCHANGED <<tut, loc, image>>

stays ==
  /\ UNCHANGED vars /\ UNCHANGED procVars /\ UNCHANGED history
  /\ UNCHANGED <<regs, tmo, run, hw, due, lock, lib>>

\* mount_volume: the first access to the volume, or one after it could not be
\* mounted, initialises the drive, and reads the boot sector.
mount_volume(h, s) ==
  /\ in_file(h, s) /\ stays
  /\ \/ vol = "none" /\ disk_initialize /\ vol' = "mounting"
     \/ vol = "mounting" /\ buf.buff = <<>> /\ disk_read(0, 1) /\ UNCHANGED vol

\* It has read the boot sector, or it fails.
mount_done(h, s) ==
  /\ in_file(h, s) /\ at = "idle" /\ vol = "mounting"
  /\ \/ buf.buff # <<>> /\ vol' = "mounted" /\ stays
     \/ vol' = "none" /\ \E d \in s.to \ {1} : moves(h, d)
  /\ buf' = buf0
  /\ UNCHANGED <<disk, at, idx, dev, medium>>

\* Disk accesses of a call of FatFs on the mounted volume, behind its boot sector.
file_access(h, s) ==
  /\ in_file(h, s) /\ stays /\ vol = "mounted"
  /\ \E sector \in 1 .. SECTORS - 1 :
       \/ \E n \in 1 .. s.val : sector + n <= SECTORS /\ disk_read(sector, n)
       \/ s.must /\ \E d \in Data : disk_write(sector, <<d>>)
  /\ UNCHANGED vol

file_driver(h, s) ==
  /\ in_file(h, s) /\ stays
  /\ rw_format \/ rw_publish \/ rw_notify \/ virtio_disk_intr \/ rw_return
  /\ UNCHANGED vol

\* The buffer was on the stack.
file_return(h, s) ==
  /\ in_file(h, s) /\ at = "idle" /\ vol = "mounted"
  /\ \E d \in s.to : moves(h, d)
  /\ buf' = buf0
  /\ UNCHANGED <<disk, at, idx, dev, medium, vol>>

\* The process of hart h, at the statement s.
program(h, s) ==
  \/ program_call(h, s)
  \/ program_return(h, s)
  \/ program_set(h, s)
  \/ program_access(h, s)
  \/ program_fault(h, s)
  \/ program_mret(h, s)
  \/ mount_volume(h, s)
  \/ mount_done(h, s)
  \/ file_access(h, s)
  \/ file_driver(h, s)
  \/ file_return(h, s)

TutInit ==
  /\ SysInit
  /\ tut \in Tuts
  /\ loc = [p \in Pids |-> [x \in Locals |-> 0]]
  /\ image = "app1"
  /\ vol = "none"
  /\ VirtioInit({0, NUM}, {[s \in 0 .. SECTORS - 1 |-> IF s = 0 THEN 1 ELSE 0]})
  /\ tut \notin {"09", "exercise"} => dev.max = NUM

TutNext ==
  \/ KernelNext /\ UNCHANGED virtioVars /\ UNCHANGED progVars
  \/ \E h \in Harts : run[h] # NULL /\ ~AtEcall(run[h]) /\ program(h, Stmt(run[h]))
  \/ device /\ stays /\ UNCHANGED progVars

TutSpec == TutInit /\ [][TutNext]_tutVars

-----------------------------------------------------------------------------
(* Properties.                                                             *)

\* Wherever their time slices end and whichever harts they go on, the programs
\* do what their authors mean: no call that the set-up relies on is refused (the
\* indices from find_free_cap are free, the regions and time that are derived
\* are to be had, the other process is suspended when it is set up), and no
\* access to a device or to shared memory ends in a fault without a handler.
RunsClean ==
  \A p \in Pids :
    /\ pc(p) = 0 => susp[p]
    /\ AtRet(p) /\ ~Again(p) /\ Stmt(p).must => ~Err(p)

\* The exercise overwrites the memory of process 1 only while that process is
\* suspended and no hart runs it.
SwapsSafely == [][image' # image => susp[1] /\ ~Running(1)]_tutVars
=============================================================================
