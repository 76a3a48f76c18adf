------------------------------- MODULE ProcIpc -------------------------------
(***************************************************************************)
(* The processes of the kernel and the harts that run them: the state word *)
(* of a process and the atomic operations on it (kernel/src/proc.c), the   *)
(* trap path (trap.c, interrupt.c, syscall.c), the capability lock         *)
(* (smp/taslock.c), and the system calls that change who runs: sync,       *)
(* sleep, the monitor calls (cap_monitor.c) and the socket calls           *)
(* (cap_ipc.c).                                                            *)
(*                                                                         *)
(* A handler runs under the capability lock and is one step, except where  *)
(* the code writes a state word twice (proc_suspend).  Outside the lock,   *)
(* and so interleaved with the handlers of other harts, are the two halves *)
(* of proc_acquire in sched_fetch and the proc_release of trap_handler.    *)
(*                                                                         *)
(* The slot table is not part of the module: sched_fetch may try any       *)
(* process.  Which capabilities a process holds is fixed by the constants; *)
(* CapOps.tla is about their changes.                                      *)
(***************************************************************************)
EXTENDS Naturals, FiniteSets

CONSTANTS
  Harts, Procs, Chans,
  Boot,        \* process 0
  Server,      \* Server[ch]: the process that holds the server socket of ch
  Clients,     \* Clients[ch]: the processes that hold a client socket of ch
  Senders,     \* Senders[ch]: those that hold one and use it only to send
  Mode,        \* Mode[ch]: "yield" or "noyield"
  Monitors,    \* <<p, q>>: p holds a monitor capability for q
  Suspends,    \* Suspends[n]: the monitors that are used to suspend where n harts run
  Builds,      \* the sets of harts that builds of the kernel are configured for
  NONE         \* no hart, no process

ASSUME ConfigAssumption ==
  /\ IsFiniteSet(Harts) /\ Boot \in Procs /\ NONE \notin Procs /\ NONE \notin Harts
  /\ Server \in [Chans -> Procs]
  /\ Clients \in [Chans -> SUBSET Procs] /\ Senders \in [Chans -> SUBSET Procs]
  /\ \A ch \in Chans : Server[ch] \notin Clients[ch] \union Senders[ch]
  /\ Mode \in [Chans -> {"yield", "noyield"}]
  /\ Monitors \subseteq Procs \X Procs
  /\ Suspends \in [1..Cardinality(Harts) -> SUBSET Monitors]
  /\ Builds \subseteq SUBSET Harts /\ {} \notin Builds

\* The names of flags, times and processes are told apart.
ASSUME NamesAssumption ==
  /\ Chans \intersect {"busy", "suspended"} = {}
  /\ Harts \intersect {"past", "later", "never"} = {}

Calls ==
  [op : {"suspend"}, of : Procs, ch : {NONE}] \union
  [op : {"resume", "yield"}, of : Procs, ch : {NONE}] \union
  [op : {"send", "recv", "sendrecv"}, of : {NONE}, ch : Chans]

VARIABLES
  state,     \* proc->state: PSF_BUSY, PSF_SUSPENDED, and PSF_BLOCKED as its channel
  timeout,   \* proc->timeout: past, the end of a hart's time slice, later, never
  channels,  \* channels[ch]: registered server, client, owner of the buffer
  lock,      \* the hart that holds the capability lock
  pc,        \* what hart h does
  run,       \* the process hart h runs, or tries to
  next,      \* the process that the trap handler goes on with
  call,      \* the system call that hart h executes
  expected,  \* the state that proc_acquire read
  due        \* whether the timer of hart h fired

hartVars == <<pc, run, next, call, expected>>
vars == <<state, timeout, channels, lock, pc, run, next, call, expected, due>>

Flags == {"busy", "suspended"} \union Chans
Times == {"past", "later", "never"} \union Harts
NoCall == [op |-> "none", of |-> NONE, ch |-> NONE]

TypeOK ==
  /\ state \in [Procs -> SUBSET Flags]
  /\ timeout \in [Procs -> Times]
  /\ channels \in [Chans -> [server : Procs \union {NONE}, client : Procs \union {NONE},
                             cap_buf : Procs \union {NONE}]]
  /\ lock \in Harts \union {NONE}
  /\ pc \in [Harts -> {"off", "sched", "cas", "user", "lock", "handler", "suspend", "release"}]
  /\ run \in [Harts -> Procs \union {NONE}]
  /\ next \in [Harts -> Procs \union {NONE}]
  /\ call \in [Harts -> Calls \union {NoCall}]
  /\ expected \in [Harts -> SUBSET Flags]
  /\ due \in [Harts -> BOOLEAN]
  /\ \A h \in Harts : run[h] = NONE <=> pc[h] \in {"off", "sched"}

\* The harts that the build is for.
Started == {h \in Harts : pc[h] # "off"}

\* The harts that head.S does not send to __hang enter the scheduler.
hart_start == \E started \in Builds : pc = [h \in Harts |-> IF h \in started THEN "sched" ELSE "off"]

\* proc_init, and the start of the harts.
Init ==
  /\ state = [p \in Procs |-> IF p = Boot THEN {} ELSE {"suspended"}]
  /\ timeout = [p \in Procs |-> "past"]
  /\ channels = [ch \in Chans |-> [server |-> NONE, client |-> NONE, cap_buf |-> NONE]]
  /\ lock = NONE
  /\ hart_start
  /\ run = [h \in Harts |-> NONE]
  /\ next = [h \in Harts |-> NONE]
  /\ call = [h \in Harts |-> NoCall]
  /\ expected = [h \in Harts |-> {}]
  /\ due = [h \in Harts |-> FALSE]

-----------------------------------------------------------------------------
(* Where a hart goes after a handler.                                      *)

\* trap_return: the process goes on in user mode.
return_to(h) ==
  /\ pc' = [pc EXCEPT ![h] = "user"]
  /\ call' = [call EXCEPT ![h] = NoCall]
  /\ UNCHANGED <<run, next, expected>>

\* trap_handler will release the process and go on with n, or schedule.
leave_for(h, n) ==
  /\ pc' = [pc EXCEPT ![h] = "release"]
  /\ next' = [next EXCEPT ![h] = n]
  /\ call' = [call EXCEPT ![h] = NoCall]
  /\ UNCHANGED <<run, expected>>

-----------------------------------------------------------------------------
(* Time and scheduling.                                                    *)

\* The time slice of hart h ends: its timer is pending, and the time has come
\* for every process whose timeout is the end of this slice.
timer(h) ==
  /\ pc[h] \notin {"off", "sched", "cas"} /\ ~due[h]
  /\ due' = [due EXCEPT ![h] = TRUE]
  /\ timeout' = [p \in Procs |-> IF timeout[p] = h THEN "past" ELSE timeout[p]]
  /\ UNCHANGED <<state, channels, lock>> /\ UNCHANGED hartVars

\* A later time comes.
expire(p) ==
  /\ timeout[p] = "later"
  /\ timeout' = [timeout EXCEPT ![p] = "past"]
  /\ UNCHANGED <<state, channels, lock, due>> /\ UNCHANGED hartVars

\* The conditions of proc_acquire on the state it read.
acquirable(s, p) == s \intersect {"busy", "suspended"} = {} /\ timeout[p] = "past"

\* proc_acquire in sched_fetch: the load and the checks ...
sched_load(h, p) ==
  /\ pc[h] = "sched"
  /\ acquirable(state[p], p)
  /\ pc' = [pc EXCEPT ![h] = "cas"]
  /\ run' = [run EXCEPT ![h] = p]
  /\ expected' = [expected EXCEPT ![h] = state[p]]
  /\ UNCHANGED <<state, timeout, channels, lock, next, call, due>>

\* Mutant: the store of the single-hart build, which does not compare.
sched_exchange_store(h) ==
  LET p == run[h] IN
  /\ pc[h] = "cas"
  /\ state' = [state EXCEPT ![p] = {"busy"}]
  /\ timeout' = [timeout EXCEPT ![p] = h]
  /\ pc' = [pc EXCEPT ![h] = "user"]
  /\ expected' = [expected EXCEPT ![h] = {}]
  /\ UNCHANGED <<run, channels, lock, next, call, due>>

\* ... and the compare-exchange, after which the process runs until the end
\* of the slice.
sched_exchange(h) ==
  LET p == run[h] IN
  /\ pc[h] = "cas"
  /\ \/ /\ state[p] = expected[h]
        /\ state' = [state EXCEPT ![p] = {"busy"}]
        /\ timeout' = [timeout EXCEPT ![p] = h]
        /\ pc' = [pc EXCEPT ![h] = "user"]
        /\ UNCHANGED run
     \/ /\ state[p] # expected[h]
        /\ pc' = [pc EXCEPT ![h] = "sched"]
        /\ run' = [run EXCEPT ![h] = NONE]
        /\ UNCHANGED <<state, timeout>>
  /\ expected' = [expected EXCEPT ![h] = {}]
  /\ UNCHANGED <<channels, lock, next, call, due>>

\* proc_release in trap_handler and interrupt_handler, with what follows: the
\* exclusive or, and the process to go on with or the scheduler, which sets
\* the timer anew, so that ends of the old slice are just later times.  (A
\* build without NDEBUG stops in proc_release when ReleaseAsserted is false;
\* one with NDEBUG, as for projects/fs, goes ahead and sets the flag.)
proc_release(h) ==
  LET p == run[h]
      n == next[h]
  IN  /\ pc[h] = "release"
      /\ state' = [state EXCEPT ![p] = (@ \ {"busy"}) \union ({"busy"} \ @)]
      /\ run' = [run EXCEPT ![h] = n]
      /\ next' = [next EXCEPT ![h] = NONE]
      /\ \/ /\ n # NONE
            /\ pc' = [pc EXCEPT ![h] = "user"]
            /\ UNCHANGED <<timeout, due>>
         \/ /\ n = NONE
            /\ pc' = [pc EXCEPT ![h] = "sched"]
            /\ timeout' = [q \in Procs |-> IF timeout[q] = h THEN "later" ELSE timeout[q]]
            /\ due' = [due EXCEPT ![h] = FALSE]
      /\ UNCHANGED <<channels, lock, call, expected>>

\* A timer interrupt in user mode; also a system call that finds the timer
\* pending, which is retried when the process runs again.
interrupt_handler(h) ==
  /\ pc[h] = "user" /\ due[h]
  /\ leave_for(h, NONE)
  /\ UNCHANGED <<state, timeout, channels, lock, due>>

-----------------------------------------------------------------------------
(* System calls without the lock.                                          *)

handle_sync(h) ==
  /\ pc[h] = "user" /\ ~due[h]
  /\ timeout' = [timeout EXCEPT ![run[h]] = "past"]
  /\ leave_for(h, NONE)
  /\ UNCHANGED <<state, channels, lock, due>>

\* To an absolute time, which may have passed, or to the end of the slice.
handle_sleep(h) ==
  /\ pc[h] = "user" /\ ~due[h]
  /\ \E t \in {"past", "later", timeout[run[h]]} :
       timeout' = [timeout EXCEPT ![run[h]] = t]
  /\ leave_for(h, NONE)
  /\ UNCHANGED <<state, channels, lock, due>>

-----------------------------------------------------------------------------
(* System calls with the lock.                                             *)

\* The calls that the capabilities of p allow.
MayCall(p, c) ==
  \/ c.op = "suspend" /\ <<p, c.of>> \in Suspends[Cardinality(Started)]
  \/ c.op \in {"resume", "yield"} /\ <<p, c.of>> \in Monitors
  \/ c.op \in {"send", "recv", "sendrecv"} /\ p \in Clients[c.ch] \union {Server[c.ch]}
  \/ c.op = "send" /\ p \in Senders[c.ch]

syscall_handler(h, c) ==
  /\ pc[h] = "user" /\ ~due[h]
  /\ MayCall(run[h], c)
  /\ pc' = [pc EXCEPT ![h] = "lock"]
  /\ call' = [call EXCEPT ![h] = c]
  /\ UNCHANGED <<state, timeout, channels, lock, run, next, expected, due>>

\* taslock_acquire gives up when the timer fires while the lock is taken.
lock_preempted(h) ==
  /\ pc[h] = "lock" /\ lock # NONE /\ due[h]
  /\ leave_for(h, NONE)
  /\ UNCHANGED <<state, timeout, channels, lock, due>>

taslock_acquire(h) ==
  /\ pc[h] = "lock" /\ lock = NONE
  /\ lock' = h
  /\ pc' = [pc EXCEPT ![h] = "handler"]
  /\ UNCHANGED <<state, timeout, channels, run, next, call, expected, due>>

\* Hart h has the lock and executes a call of this kind; it gives the lock back
\* when the handler returns.
executes(h, op) == pc[h] = "handler" /\ call[h].op = op

\* proc_suspend: the atomic or ...
cap_monitor_suspend(h) ==
  LET q == call[h].of IN
  /\ executes(h, "suspend")
  /\ state' = [state EXCEPT ![q] = @ \union {"suspended"}]
  /\ \/ /\ state[q] \intersect Chans # {}
        /\ pc' = [pc EXCEPT ![h] = "suspend"]
        /\ UNCHANGED <<lock, run, next, call, expected>>
     \/ /\ state[q] \intersect Chans = {}
        /\ lock' = NONE
        /\ return_to(h)
  /\ UNCHANGED <<timeout, channels, due>>

\* ... and, for a process that was blocked, the plain store.
suspend_store(h) ==
  /\ pc[h] = "suspend"
  /\ state' = [state EXCEPT ![call[h].of] = {"suspended"}]
  /\ lock' = NONE
  /\ return_to(h)
  /\ UNCHANGED <<timeout, channels, due>>

\* proc_resume.  It clears the timeout only of a process that is suspended and
\* nothing else.
cap_monitor_resume(h) ==
  LET q == call[h].of IN
  /\ executes(h, "resume")
  /\ timeout' = IF state[q] = {"suspended"} THEN [timeout EXCEPT ![q] = "past"] ELSE timeout
  /\ state' = [state EXCEPT ![q] = @ \ {"suspended"}]
  /\ return_to(h)
  /\ lock' = NONE
  /\ UNCHANGED <<channels, due>>

\* proc_acquire on the monitored process: the hart goes on with it in the time
\* of the caller, and leaves its timeout alone.
cap_monitor_yield(h) ==
  LET q == call[h].of IN
  /\ executes(h, "yield")
  /\ \/ /\ acquirable(state[q], q)
        /\ state' = [state EXCEPT ![q] = {"busy"}]
        /\ leave_for(h, q)
     \/ /\ ~acquirable(state[q], q)
        /\ return_to(h)
        /\ UNCHANGED state
  /\ lock' = NONE
  /\ UNCHANGED <<timeout, channels, due>>

-----------------------------------------------------------------------------
(* Sockets (cap_ipc.c).                                                    *)

is_server(p, ch) == p = Server[ch]

receiver(p, ch) == IF is_server(p, ch) THEN channels[ch].client ELSE channels[ch].server

\* The channels once do_send has looked for a receiver: a server takes the
\* client off the channel, whether it can acquire it or not.
take_receiver(p, ch) ==
  IF is_server(p, ch) THEN [channels EXCEPT ![ch].client = NONE] ELSE channels

\* proc_ipc_acquire: the process waits on this channel and its time has not come.
ipc_acquirable(r, ch) == r # NONE /\ state[r] = {ch} /\ timeout[r] # "past"

\* The state and the timeout of the receiver after a delivery: it goes on in
\* place of the sender, or is released.
delivered_state(r, ch) ==
  [state EXCEPT ![r] = IF Mode[ch] = "yield" THEN {"busy"} ELSE {}]
delivered_timeout(r, ch, p) ==
  [timeout EXCEPT ![r] = IF Mode[ch] = "yield" THEN timeout[p] ELSE "past"]

\* Mutants: a server forgets its client, or does not put its buffer up, when it
\* waits.
do_recv_resets(chs, p, ch) ==
  IF is_server(p, ch) THEN [chs EXCEPT ![ch] = [server |-> p, client |-> NONE, cap_buf |-> p]]
  ELSE [chs EXCEPT ![ch].client = p, ![ch].cap_buf = p]
do_recv_buffer(chs, p, ch) ==
  IF is_server(p, ch)
  THEN [chs EXCEPT ![ch].server = p, ![ch].cap_buf = IF @ = NONE THEN p ELSE @]
  ELSE [chs EXCEPT ![ch].client = p, ![ch].cap_buf = p]

\* do_recv on the channels chs, and the timeout of the process that waits.
do_recv(chs, p, ch) ==
  IF is_server(p, ch) THEN [chs EXCEPT ![ch].server = p, ![ch].cap_buf = p]
  ELSE [chs EXCEPT ![ch].client = p, ![ch].cap_buf = p]
recv_timeout(t, p, ch) ==
  IF is_server(p, ch) \/ Mode[ch] = "noyield" THEN [t EXCEPT ![p] = "never"] ELSE t

\* A call that a process makes while it is to be suspended is not executed.
sock_preempted(h) ==
  /\ \E op \in {"send", "recv", "sendrecv"} : executes(h, op)
  /\ "suspended" \in state[run[h]]
  /\ leave_for(h, NONE)
  /\ lock' = NONE
  /\ UNCHANGED <<state, timeout, channels, due>>

\* A call that returns to the caller and changes nothing: a capability buffer is
\* occupied or may not be used, the server needs more time than is left
\* (REG_SERVTIME), the client of a send or a call finds the timer fired, no
\* server takes its call, or a client waits whose call was not taken.
sock_refused(h) ==
  /\ \E op \in {"send", "recv", "sendrecv"} : executes(h, op)
  /\ return_to(h)
  /\ lock' = NONE
  /\ UNCHANGED <<state, timeout, channels, due>>

cap_sock_send(h) ==
  LET p == run[h]
      ch == call[h].ch
      r == receiver(p, ch)
  IN  /\ executes(h, "send") /\ "suspended" \notin state[p] /\ ~due[h]
      /\ channels' = take_receiver(p, ch)
      /\ \/ /\ ipc_acquirable(r, ch)
            /\ state' = delivered_state(r, ch)
            /\ timeout' = delivered_timeout(r, ch, p)
            /\ \/ Mode[ch] = "yield" /\ leave_for(h, r)
               \/ Mode[ch] = "noyield" /\ return_to(h)
         \/ /\ ~ipc_acquirable(r, ch)
            /\ return_to(h)
            /\ UNCHANGED <<state, timeout>>
      /\ lock' = NONE
      /\ UNCHANGED due

cap_sock_recv(h) ==
  LET p == run[h]
      ch == call[h].ch
      s == channels[ch].server
  IN  /\ executes(h, "recv") /\ "suspended" \notin state[p]
      /\ \/ /\ is_server(p, ch)
            /\ channels' = do_recv(channels, p, ch)
            /\ state' = [state EXCEPT ![p] = {"busy", ch}]
            /\ timeout' = recv_timeout(timeout, p, ch)
            /\ leave_for(h, NONE)
         \/ /\ ~is_server(p, ch) /\ channels[ch].client = p
            /\ s # NONE /\ Mode[ch] = "yield" /\ acquirable(state[s], s)
            /\ channels' = [channels EXCEPT ![ch].cap_buf = p]
            /\ state' = [state EXCEPT ![p] = {"busy", ch}, ![s] = {"busy"}]
            /\ timeout' = [timeout EXCEPT ![s] = timeout[p]]
            /\ leave_for(h, s)
      /\ lock' = NONE
      /\ UNCHANGED due

\* replyrecv and call, by the role of the caller.
cap_sock_sendrecv(h) ==
  LET p == run[h]
      ch == call[h].ch
      r == receiver(p, ch)
  IN  /\ executes(h, "sendrecv") /\ "suspended" \notin state[p]
      /\ \/ /\ due[h] /\ is_server(p, ch)
            /\ leave_for(h, NONE)
            /\ UNCHANGED <<state, timeout, channels>>
         \/ /\ ~due[h] /\ ipc_acquirable(r, ch)
            /\ channels' = do_recv(take_receiver(p, ch), p, ch)
            /\ state' = [delivered_state(r, ch) EXCEPT ![p] = {"busy", ch}]
            /\ timeout' = recv_timeout(delivered_timeout(r, ch, p), p, ch)
            /\ leave_for(h, IF Mode[ch] = "yield" THEN r ELSE NONE)
         \/ /\ ~due[h] /\ ~ipc_acquirable(r, ch) /\ is_server(p, ch)
            /\ channels' = do_recv(take_receiver(p, ch), p, ch)
            /\ state' = [state EXCEPT ![p] = {"busy", ch}]
            /\ timeout' = recv_timeout(timeout, p, ch)
            /\ leave_for(h, NONE)
      /\ lock' = NONE
      /\ UNCHANGED due

-----------------------------------------------------------------------------

Next ==
  \/ \E p \in Procs : expire(p)
  \/ \E h \in Harts, p \in Procs : sched_load(h, p)
  \/ \E h \in Harts, c \in Calls : syscall_handler(h, c)
  \/ \E h \in Harts :
       \/ timer(h) \/ sched_exchange(h) \/ proc_release(h)
       \/ interrupt_handler(h) \/ handle_sync(h) \/ handle_sleep(h)
       \/ lock_preempted(h) \/ taslock_acquire(h)
       \/ cap_monitor_suspend(h) \/ suspend_store(h)
       \/ cap_monitor_resume(h) \/ cap_monitor_yield(h)
       \/ sock_preempted(h) \/ sock_refused(h)
       \/ cap_sock_send(h) \/ cap_sock_recv(h) \/ cap_sock_sendrecv(h)

Spec == Init /\ [][Next]_vars

-----------------------------------------------------------------------------
(* Properties.                                                             *)

\* The processes that hart h has acquired: the one it runs, and the one its
\* trap handler goes on with.
Holds(h) ==
  (IF pc[h] \in {"off", "sched", "cas"} THEN {} ELSE {run[h]}) \union ({next[h]} \ {NONE})

\* A process is on at most one hart, and exactly the processes that are on a
\* hart are marked busy: none is run twice, and none stays busy with nobody
\* to release it, whatever the harts do between the lock and the release.  So
\* a process whose state word is PSF_SUSPENDED alone, the one that the monitor
\* calls accept, is still, and the assertion of proc_release holds.
OneHart ==
  /\ \A g, h \in Harts : g # h => Holds(g) \intersect Holds(h) = {}
  /\ \A p \in Procs : "busy" \in state[p] <=> \E h \in Harts : p \in Holds(h)

\* While the server of a channel waits for a message, it is registered and the
\* buffer of the channel is its own: a capability that a client sends goes to
\* the server and nowhere else.
WaitingServerReady ==
  \A ch \in Chans : ch \in state[Server[ch]] =>
    channels[ch].server = Server[ch] /\ channels[ch].cap_buf = Server[ch]

\* What a hart in each phase knows: the call it executes is one it may make,
\* proc_acquire read a state that is not busy, the process it goes on with is
\* another one, and the processes that run do not wait.
HartSound(h) ==
  /\ pc[h] # "release" => next[h] = NONE
  /\ pc[h] = "release" => next[h] # run[h]
  /\ pc[h] \in {"lock", "handler", "suspend"} => call[h] \in Calls /\ MayCall(run[h], call[h])
  /\ pc[h] = "cas" => "busy" \notin expected[h]
  /\ pc[h] \in {"user", "lock", "handler", "suspend"} => state[run[h]] \intersect Chans = {}
  /\ next[h] # NONE => state[next[h]] \intersect Chans = {}
  /\ pc[h] = "suspend" =>
       /\ call[h].op = "suspend" /\ "busy" \notin state[call[h].of]
       /\ Cardinality(Started) = 1

\* Only a server or a client of a channel waits on it, and only its server is
\* registered as one.
WaitersSound ==
  \A ch \in Chans :
    /\ channels[ch].server \in {NONE, Server[ch]}
    /\ \A p \in Procs : ch \in state[p] => p \in Clients[ch] \union {Server[ch]}

\* The inductive invariant of OneHart and WaitingServerReady.
ProcInv ==
  /\ TypeOK /\ Started \in Builds /\ (\A h \in Harts : HartSound(h)) /\ WaitersSound
  /\ OneHart /\ WaitingServerReady

\* Where several harts run, no process that waits on a channel is suspended:
\* the second store of proc_suspend would race with the hart it runs on.
SafeSuspends ==
  \A n \in 2 .. Cardinality(Harts) : \A m \in Suspends[n] :
    \A ch \in Chans : m[2] \notin Clients[ch] \union {Server[ch]}

\* No channel is shared by several clients that wait for replies.
SoleClients == \A ch \in Chans : \A p, q \in Clients[ch] : p = q

\* What ClientNotForgotten needs: a process waits on one channel; while it is
\* also marked suspended, the hart is between the two stores of proc_suspend;
\* otherwise, when it waits without a timeout, it is the registered client.
ClientOk(p) ==
  \A ch \in Chans : ch \in state[p] =>
    /\ state[p] \intersect Chans = {ch}
    /\ "suspended" \in state[p] => \E h \in Harts : pc[h] = "suspend" /\ call[h].of = p
    /\ "suspended" \notin state[p] /\ p \in Clients[ch] /\ timeout[p] = "never" =>
         channels[ch].client = p
ClientInv == Cardinality(Started) = 1 => \A p \in Procs : ClientOk(p)

\* The assertion of proc_release holds when a hart gets there.
ReleaseAsserted ==
  \A h \in Harts : pc[h] = "release" => "busy" \in state[run[h]]

\* A client that waits without a timeout is still the registered client of its
\* channel, so the reply it waits for can reach it, in a build for one hart.
ClientNotForgotten ==
  Cardinality(Started) = 1 => \A ch \in Chans : \A p \in Clients[ch] :
    state[p] = {ch} /\ timeout[p] = "never" => channels[ch].client = p
=============================================================================
