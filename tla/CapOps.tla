-------------------------------- MODULE CapOps --------------------------------
(***************************************************************************)
(* The capability table (kernel/src/cap_table.c) and the operations on it  *)
(* (kernel/src/cap_ops.c, kernel/src/cap_pmp.c), with the kernel state     *)
(* they keep in step with it: the schedule (kernel/src/sched.c), the PMP   *)
(* configuration of every process (kernel/src/proc.c) and the endpoints of *)
(* every channel (kernel/src/cap_ipc.c).                                   *)
(*                                                                         *)
(* Every operation runs under the capability lock, so it is one step.  The *)
(* loop of cap_revoke can be preempted after each iteration and resumed    *)
(* (or not) by a later call, so one iteration is one step.  A call that is *)
(* refused changes nothing and is a stuttering step.                       *)
(***************************************************************************)
EXTENDS CapTypes, Sequences, FiniteSets

CONSTANTS
  Platforms,   \* the sequences INIT_CAPS of the platforms, element i at index i-1
  Requests,    \* the descriptors processes pass to cap_derive
  NULL         \* the null pointer in `channels'

CTE == Pids \X (0 .. CAP_CNT - 1)
cte_pid(c) == c[1]

\* The table slot of element i of INIT_CAPS, and slot &ctable[0].
BootSlot(i) == <<0, i - 1>>
ctable0 == BootSlot(1)

\* Whether two capabilities are to the same resource, a socket being to channels.
SameResource(a, b) ==
  \/ a.type = "time" /\ b.type = "time" /\ a.hart = b.hart
  \/ a.type = "mem" /\ b.type = "mem" /\ a.tag = b.tag
  \/ a.type = "mon" /\ b.type = "mon"
  \/ a.type \in {"chan", "sock"} /\ b.type \in {"chan", "sock"}

ASSUME PlatformsAssumption == \A init_caps \in Platforms :
  /\ init_caps \in Seq(Cap) /\ Len(init_caps) \in 2..CAP_CNT
  \* proc_init asserts that capability 0 can be loaded as a PMP region.
  /\ init_caps[1] \in PmpCap
  /\ \A i \in 1..Len(init_caps) : cap_is_valid(init_caps[i])
  \* Time, channels and sockets are those the kernel is configured for.
  /\ \A i \in 1..Len(init_caps) :
       /\ init_caps[i].type = "time" => init_caps[i].end <= SLOT_CNT
       /\ init_caps[i].type = "chan" => init_caps[i].end <= CHAN_CNT
       /\ init_caps[i].type = "sock" => init_caps[i].chan < CHAN_CNT
  \* What is listed for one resource are ranges in increasing order.
  /\ \A i, j \in 1..Len(init_caps) :
       i < j /\ SameResource(init_caps[i], init_caps[j]) =>
         /\ init_caps[i].type # "sock" /\ init_caps[j].type # "sock"
         /\ init_caps[i].end <= init_caps[j].bgn

ASSUME RequestsAssumption == Requests \subseteq Cap

ASSUME NullAssumption == NULL \notin Pids /\ NULL \notin CTE

VARIABLES
  cap,       \* ctable[c].cap
  next,      \* ctable[c].next, a table slot
  prev,      \* ctable[c].prev
  slots,     \* the schedule: slots[hart][i] is the owner and remaining length
  pmp,       \* pmp[pid][slot]: the loaded region, or NoPmp when pmpcfg is 0
  channels,  \* channels[ch]: registered server, client and capability buffer
  \* History variables: they only serve the properties.
  after,     \* after[c]: the capabilities behind c in the list, head first
  anc,       \* anc[c]: the capabilities that the one in c was derived from
  root,      \* root[c]: the element of INIT_CAPS that c's goes back to
  shrunk     \* whether the ends of the list were ever to the same resource

listVars == <<next, prev, after, anc, root>>
capVars == <<cap, slots, pmp, next, prev, after, anc, root>>
vars == <<cap, next, prev, slots, pmp, channels, after, anc, root, shrunk>>

NoPmp == [rwx |-> {}, base |-> 0, size |-> 0, on |-> FALSE]
PmpEntry == [rwx : SUBSET MEM_RWX, base : Nat, size : Nat, on : BOOLEAN]
SlotInfo == [pid : Pids, length : 0..SLOT_CNT]
Channel == [server : Pids \union {NULL}, client : Pids \union {NULL},
            cap_buf : CTE \union {NULL}]

TypeOK ==
  /\ cap \in [CTE -> Cap]
  /\ next \in [CTE -> CTE]
  /\ prev \in [CTE -> CTE]
  /\ slots \in [Harts -> [Slots -> SlotInfo]]
  /\ pmp \in [Pids -> [PmpSlots -> PmpEntry]]
  /\ channels \in [Chans -> Channel]
  /\ after \in [CTE -> SUBSET CTE]
  /\ anc \in [CTE -> SUBSET CTE]
  /\ root \in [CTE -> 1..CAP_CNT]
  /\ shrunk \in BOOLEAN

Live == {c \in CTE : cap[c].type # "none"}
cte_is_empty(c) == cap[c].type = "none"

\* The slots of the process that c belongs to.
Own(c) == {cte_pid(c)} \X (0 .. CAP_CNT - 1)

-----------------------------------------------------------------------------
(* The list (cap_table.c).                                                 *)

\* ctable_init inserts every boot capability right behind slot 0, so the list
\* of n capabilities is slot 0 and then the others from the last to the first.
BootRank(n, i) == IF i = 1 THEN 1 ELSE n + 2 - i
BootNext(n, i) == IF i = 1 THEN n ELSE i - 1
BootPrev(n, i) == IF i = n THEN 1 ELSE i + 1
BootIndex(c) == c[2] + 1
IsBoot(n, c) == c[1] = 0 /\ BootIndex(c) \in 1..n

\* History: the entries without c, and with src's place taken by dst.
Forget(rel, c) == [x \in CTE |-> IF x = c THEN {} ELSE rel[x] \ {c}]
Swap(S, src, dst) == IF src \in S THEN (S \ {src}) \union {dst} ELSE S
Rename(rel, src, dst) ==
  [x \in CTE |-> IF x = src THEN {}
                 ELSE Swap(IF x = dst THEN rel[src] ELSE rel[x], src, dst)]

cte_insert(c, p) ==
  /\ prev' = [prev EXCEPT ![c] = p, ![next[p]] = c]
  /\ next' = [next EXCEPT ![c] = next[p], ![p] = c]
  /\ after' = [x \in CTE |-> IF x = c THEN after[p]
                             ELSE IF x = p \/ p \in after[x] THEN after[x] \union {c}
                             ELSE after[x]]
  /\ anc' = [anc EXCEPT ![c] = anc[p] \union {p}]
  /\ root' = [root EXCEPT ![c] = root[p]]

\* Mutant: the successor keeps its `prev'.
cte_delete_one_link(c) ==
  /\ next' = [next EXCEPT ![prev[c]] = next[c]]
  /\ after' = Forget(after, c)
  /\ anc' = Forget(anc, c)
  /\ UNCHANGED <<prev, root>>

cte_delete(c) ==
  /\ next' = [next EXCEPT ![prev[c]] = next[c]]
  /\ prev' = [prev EXCEPT ![next[c]] = prev[c]]
  /\ after' = Forget(after, c)
  /\ anc' = Forget(anc, c)
  /\ UNCHANGED root

cte_move(src, dst) ==
  /\ next' = [next EXCEPT ![dst] = next[src], ![prev[src]] = dst]
  /\ prev' = [prev EXCEPT ![dst] = prev[src], ![next'[dst]] = dst]
  /\ after' = Rename(after, src, dst)
  /\ anc' = Rename(anc, src, dst)
  /\ root' = [root EXCEPT ![dst] = root[src]]

-----------------------------------------------------------------------------
(* The schedule (sched.c), the PMP tables (proc.c), channels (cap_ipc.c).  *)

sched_update(pid, end, hart, from, to) ==
  [slots EXCEPT ![hart] =
    [i \in Slots |-> IF from <= i /\ i < to THEN [pid |-> pid, length |-> end - i]
                     ELSE slots[hart][i]]]

sched_delete(hart, from, to) ==
  [slots EXCEPT ![hart] =
    [i \in Slots |-> IF from <= i /\ i < to THEN [pid |-> 0, length |-> 0]
                     ELSE slots[hart][i]]]

\* The pmpcfg and pmpaddr of a loaded PMP capability.
Region(c) == [rwx |-> c.rwx, base |-> c.base, size |-> c.size, on |-> TRUE]

proc_pmp_load(pid, slot, c) == [pmp EXCEPT ![pid][slot] = Region(c)]

proc_pmp_unload(pid, slot) == [pmp EXCEPT ![pid][slot] = NoPmp]

\* proc_pmp_unload where the capability is in use, nothing where it is not.
pmp_clear(pid, c) == IF c.used THEN proc_pmp_unload(pid, c.slot) ELSE pmp

\* Mutant: a cleared server socket leaves its client registered.
cap_sock_clear_server(chs, c, pid) ==
  IF c.tag = 0
  THEN [chs EXCEPT ![c.chan].server = NULL, ![c.chan].cap_buf = NULL]
  ELSE IF chs[c.chan].client = pid
       THEN [chs EXCEPT ![c.chan].client = NULL]
       ELSE chs

\* Mutant: a cleared client socket takes the buffer of the channel with it.
cap_sock_clear_buffer(chs, c, pid) ==
  IF c.tag = 0
  THEN [chs EXCEPT ![c.chan] = [server |-> NULL, client |-> NULL, cap_buf |-> NULL]]
  ELSE IF chs[c.chan].client = pid
       THEN [chs EXCEPT ![c.chan].client = NULL, ![c.chan].cap_buf = NULL]
       ELSE chs

\* What clearing the socket c of process pid makes of the channels chs.
cap_sock_clear(chs, c, pid) ==
  IF c.tag = 0
  THEN [chs EXCEPT ![c.chan] = [server |-> NULL, client |-> NULL, cap_buf |-> NULL]]
  ELSE IF chs[c.chan].client = pid
       THEN [chs EXCEPT ![c.chan].client = NULL]
       ELSE chs

-----------------------------------------------------------------------------
(* cap_move: within a process, or from one to another by a monitor or with *)
(* a message.  Whether a monitor capability allows a move is not asked     *)
(* here: what is shown holds whoever moves capabilities, and when.         *)

\* Mutant: no hook, the schedule and the PMP tables stay as they are.
cap_ipc_move_hook_none(src, dst) ==
  /\ cap' = [cap EXCEPT ![src] = NoCap, ![dst] = cap[src]]
  /\ UNCHANGED <<slots, pmp>>

\* What cap_ipc_move_hook leaves of the descriptor and of the kernel state.
cap_ipc_move_hook(src, dst) ==
  LET c == cap[src] IN
  CASE c.type = "time" ->
         /\ slots' = sched_update(cte_pid(dst), c.end, c.hart, c.mrk, c.end)
         /\ cap' = [cap EXCEPT ![src] = NoCap, ![dst] = c]
         /\ UNCHANGED pmp
    [] c.type = "pmp" ->
         /\ pmp' = pmp_clear(cte_pid(src), c)
         /\ cap' = [cap EXCEPT ![src] = NoCap,
                               ![dst] = [c EXCEPT !.used = FALSE,
                                                  !.slot = IF c.used THEN 0 ELSE c.slot]]
         /\ UNCHANGED slots
    [] OTHER ->
         /\ cap' = [cap EXCEPT ![src] = NoCap, ![dst] = c]
         /\ UNCHANGED <<slots, pmp>>

cap_move(src, dst) ==
  /\ ~cte_is_empty(src)
  /\ cte_is_empty(dst)
  /\ \/ /\ cte_pid(src) # cte_pid(dst)
        /\ cap_ipc_move_hook(src, dst)
     \/ /\ cte_pid(src) = cte_pid(dst)
        /\ cap' = [cap EXCEPT ![src] = NoCap, ![dst] = cap[src]]
        /\ UNCHANGED <<slots, pmp>>
  /\ cte_move(src, dst)

-----------------------------------------------------------------------------
(* cap_delete and its handlers.                                            *)

\* Every handler takes the capability off the list; one for time also deletes
\* its slots, one for a PMP region unloads it, one for a socket clears it.
cap_delete(c) ==
  LET d == cap[c] IN
  /\ ~cte_is_empty(c)
  /\ cap' = [cap EXCEPT ![c] = NoCap]
  /\ cte_delete(c)
  /\ slots' = IF d.type = "time" THEN sched_delete(d.hart, d.mrk, d.end) ELSE slots
  /\ pmp' = IF d.type = "pmp" THEN pmp_clear(cte_pid(c), d) ELSE pmp

\* The channels chs after cap_delete(c).
cap_delete_socket(chs, c) ==
  IF cap[c].type = "sock" THEN cap_sock_clear(chs, cap[c], cte_pid(c)) ELSE chs

-----------------------------------------------------------------------------
(* cap_revoke: one iteration of its loop, one handler per type.            *)

\* Mutants: range checks of cap_revoke that are off by one or left out.
time_child_strict(p, c) ==
  c.type = "time" /\ p.hart = c.hart /\ p.bgn <= c.bgn /\ c.end < p.end
memory_child_any(p, c) == c.type = "mem" /\ p.tag = c.tag

\* Whether the handler of the parent's type takes the next capability of the
\* list for one to delete.
time_child(p, c) ==
  c.type = "time" /\ p.hart = c.hart /\ p.bgn <= c.bgn /\ c.end <= p.end
memory_child(p, c) == c.type = "mem" /\ p.tag = c.tag /\ p.bgn <= c.bgn
pmp_child(p, c) == c.type = "pmp" /\ tag_block_to_addr(p.tag, p.bgn) <= c.base
monitor_child(p, c) == c.type = "mon" /\ p.bgn <= c.bgn
channel_child(p, c) == c.type = "chan" /\ p.bgn <= c.bgn
chan_sock_child(p, c) == c.type = "sock" /\ p.bgn <= c.chan
socket_child(p, c) == c.type = "sock" /\ p.chan = c.chan /\ p.tag = 0

revokes(p, c) ==
  \/ p.type = "time" /\ time_child(p, c)
  \/ p.type = "mem"  /\ (memory_child(p, c) \/ pmp_child(p, c))
  \/ p.type = "mon"  /\ monitor_child(p, c)
  \/ p.type = "chan" /\ (channel_child(p, c) \/ chan_sock_child(p, c))
  \/ p.type = "sock" /\ socket_child(p, c)

\* Mutants: the parent gets its whole range back, or loses its lock, at the
\* first child and not when no child is left.
absorb_whole(parent, child, p) ==
  /\ cte_delete(child)
  /\ cap' = [cap EXCEPT ![child] = NoCap, ![parent] = [p EXCEPT !.mrk = p.bgn]]
absorb_unlocked(parent, child, p) ==
  /\ cte_delete(child)
  /\ cap' = [cap EXCEPT ![child] = NoCap, ![parent] = [p EXCEPT !.lck = FALSE]]

\* Delete the child and hand what it had not passed on back to the parent.
absorb(parent, child, p) ==
  /\ cte_delete(child)
  /\ cap' = [cap EXCEPT ![child] = NoCap, ![parent] = p]

\* Delete a child that leaves the parent as it is.
drop(child) ==
  /\ cte_delete(child)
  /\ cap' = [cap EXCEPT ![child] = NoCap]

\* No child is left: the parent gets its whole range back.
reset(parent, p) ==
  /\ cap' = [cap EXCEPT ![parent] = p]
  /\ UNCHANGED listVars

cap_revoke_time(parent) ==
  LET p == cap[parent]
      child == next[parent]
      c == cap[child]
  IN  /\ p.type = "time"
      /\ \/ /\ time_child(p, c)
            /\ absorb(parent, child, [p EXCEPT !.mrk = c.mrk])
            /\ slots' = sched_update(cte_pid(parent), p.end, p.hart, c.mrk, p.mrk)
         \/ /\ ~time_child(p, c)
            /\ reset(parent, [p EXCEPT !.mrk = p.bgn])
            /\ slots' = sched_update(cte_pid(parent), p.end, p.hart, p.bgn, p.mrk)
      /\ UNCHANGED <<pmp, channels>>

cap_revoke_memory(parent) ==
  LET p == cap[parent]
      child == next[parent]
      c == cap[child]
  IN  /\ p.type = "mem"
      /\ \/ /\ memory_child(p, c)
            /\ absorb(parent, child, [p EXCEPT !.mrk = c.mrk, !.lck = c.lck])
            /\ UNCHANGED pmp
         \/ /\ pmp_child(p, c)
            /\ drop(child)
            /\ pmp' = pmp_clear(cte_pid(child), c)
         \/ /\ ~memory_child(p, c) /\ ~pmp_child(p, c)
            /\ reset(parent, [p EXCEPT !.mrk = p.bgn, !.lck = FALSE])
            /\ UNCHANGED pmp
      /\ UNCHANGED <<slots, channels>>

cap_revoke_monitor(parent) ==
  LET p == cap[parent]
      child == next[parent]
      c == cap[child]
  IN  /\ p.type = "mon"
      /\ \/ /\ monitor_child(p, c)
            /\ absorb(parent, child, [p EXCEPT !.mrk = c.mrk])
         \/ /\ ~monitor_child(p, c)
            /\ reset(parent, [p EXCEPT !.mrk = p.bgn])
      /\ UNCHANGED <<slots, pmp, channels>>

cap_revoke_channel(parent) ==
  LET p == cap[parent]
      child == next[parent]
      c == cap[child]
  IN  /\ p.type = "chan"
      /\ \/ /\ channel_child(p, c)
            /\ absorb(parent, child, [p EXCEPT !.mrk = c.mrk])
            /\ UNCHANGED channels
         \/ /\ chan_sock_child(p, c)
            /\ drop(child)
            /\ channels' = cap_sock_clear(channels, c, cte_pid(child))
         \/ /\ ~channel_child(p, c) /\ ~chan_sock_child(p, c)
            /\ reset(parent, [p EXCEPT !.mrk = p.bgn])
            /\ UNCHANGED channels
      /\ UNCHANGED <<slots, pmp>>

\* With no child left the handler returns without a change.
cap_revoke_socket(parent) ==
  LET p == cap[parent]
      child == next[parent]
      c == cap[child]
  IN  /\ p.type = "sock"
      /\ socket_child(p, c)
      /\ drop(child)
      /\ channels' = cap_sock_clear(channels, c, cte_pid(child))
      /\ UNCHANGED <<slots, pmp>>

\* Whether the next iteration on this parent makes cap_revoke return SUCCESS.
revoke_done(parent) ==
  LET p == cap[parent]
      c == cap[next[parent]]
  IN  \/ ~revokes(p, c)
      \/ p.type \in {"time", "mon", "chan"} /\ c.type = p.type /\ c.mrk = p.bgn
      \/ p.type = "mem" /\ c.type = "mem" /\ c.mrk = p.bgn /\ ~c.lck

-----------------------------------------------------------------------------
(* cap_derive and its handlers.                                            *)

derive_into(src, s, dst, new) ==
  /\ cap' = [cap EXCEPT ![src] = s, ![dst] = new]
  /\ cte_insert(dst, src)

cap_derive_time(src, dst, new) ==
  LET s == cap[src] IN
  /\ s.type = "time" /\ new.type = "time"
  /\ new.hart = s.hart /\ new.bgn = s.mrk /\ new.end <= s.end
  /\ slots' = sched_update(cte_pid(dst), new.end, new.hart, new.bgn, new.end)
  /\ derive_into(src, [s EXCEPT !.mrk = new.end], dst, new)

cap_derive_memory(src, dst, new) ==
  LET s == cap[src] IN
  /\ s.type = "mem"
  /\ \/ /\ new.type = "mem"
        /\ s.tag = new.tag /\ s.mrk <= new.bgn /\ new.end <= s.end
        /\ new.rwx \subseteq s.rwx /\ ~s.lck
        /\ derive_into(src, [s EXCEPT !.mrk = new.end], dst, new)
     \/ /\ new.type = "pmp"
        /\ tag_block_to_addr(s.tag, s.mrk) <= new.base
        /\ new.base + new.size <= tag_block_to_addr(s.tag, s.end)
        /\ new.rwx \subseteq s.rwx
        /\ derive_into(src, [s EXCEPT !.lck = TRUE], dst, new)
  /\ UNCHANGED slots

cap_derive_monitor(src, dst, new) ==
  LET s == cap[src] IN
  /\ s.type = "mon" /\ new.type = "mon"
  /\ s.mrk <= new.bgn /\ new.end <= s.end
  /\ derive_into(src, [s EXCEPT !.mrk = new.end], dst, new)
  /\ UNCHANGED slots

cap_derive_channel(src, dst, new) ==
  LET s == cap[src] IN
  /\ s.type = "chan"
  /\ \/ /\ new.type = "chan"
        /\ s.mrk <= new.bgn /\ new.end <= s.end
        /\ derive_into(src, [s EXCEPT !.mrk = new.end], dst, new)
     \/ /\ new.type = "sock"
        /\ s.mrk <= new.chan /\ new.chan < s.end
        /\ derive_into(src, [s EXCEPT !.mrk = new.chan + 1], dst, new)
  /\ UNCHANGED slots

cap_derive_socket(src, dst, new) ==
  LET s == cap[src] IN
  /\ s.type = "sock" /\ new.type = "sock"
  /\ new.chan = s.chan /\ new.perm = s.perm /\ new.mode = s.mode
  /\ s.tag = 0 /\ new.tag # 0
  /\ derive_into(src, s, dst, new)
  /\ UNCHANGED slots

cap_derive(src, dst, new) ==
  /\ ~cte_is_empty(src) /\ cte_is_empty(dst)
  /\ cap_is_valid(new)
  /\ \/ cap_derive_time(src, dst, new)
     \/ cap_derive_memory(src, dst, new)
     \/ cap_derive_monitor(src, dst, new)
     \/ cap_derive_channel(src, dst, new)
     \/ cap_derive_socket(src, dst, new)
  /\ UNCHANGED <<pmp, channels>>

-----------------------------------------------------------------------------
(* PMP configuration (cap_pmp.c).                                          *)

\* Mutant: the capability counts PMP slots from one.
cap_pmp_load_from_one(c, slot) ==
  /\ cap[c].type = "pmp" /\ ~cap[c].used
  /\ ~pmp[cte_pid(c)][slot].on
  /\ pmp' = proc_pmp_load(cte_pid(c), slot, cap[c])
  /\ cap' = [cap EXCEPT ![c] = [cap[c] EXCEPT !.used = TRUE, !.slot = slot + 1]]
  /\ UNCHANGED <<slots, channels>> /\ UNCHANGED listVars

cap_pmp_load(c, slot) ==
  /\ cap[c].type = "pmp" /\ ~cap[c].used
  /\ ~pmp[cte_pid(c)][slot].on
  /\ pmp' = proc_pmp_load(cte_pid(c), slot, cap[c])
  /\ cap' = [cap EXCEPT ![c] = [cap[c] EXCEPT !.used = TRUE, !.slot = slot]]
  /\ UNCHANGED <<slots, channels>> /\ UNCHANGED listVars

cap_pmp_unload(c) ==
  /\ cap[c].type = "pmp" /\ cap[c].used
  /\ pmp' = proc_pmp_unload(cte_pid(c), cap[c].slot)
  /\ cap' = [cap EXCEPT ![c] = [cap[c] EXCEPT !.used = FALSE, !.slot = 0]]
  /\ UNCHANGED <<slots, channels>> /\ UNCHANGED listVars

-----------------------------------------------------------------------------
(* Sockets (cap_ipc.c): what a call does to the table and the channels.    *)
(* The states of the processes are not part of this module, so whether     *)
(* proc_ipc_acquire gets the receiver is a choice.  A call that is         *)
(* preempted changes nothing.                                              *)

receiver(s) == IF s.tag = 0 THEN channels[s.chan].client ELSE channels[s.chan].server

\* A server takes the client off the channel before it tries to acquire it.
take_receiver(s) == IF s.tag = 0 THEN [channels EXCEPT ![s.chan].client = NULL] ELSE channels

\* The message is delivered.  The result of cap_move is ignored: if the
\* receiver's buffer is occupied, the capability stays where it is.
do_send(s, buf, send_cap) ==
  LET dst == channels[s.chan].cap_buf IN
  /\ receiver(s) # NULL
  /\ \/ send_cap /\ cap_move(buf, dst)
     \/ /\ send_cap => cte_is_empty(buf) \/ ~cte_is_empty(dst)
        /\ UNCHANGED capVars

\* Mutant: a client that calls leaves the buffer of the channel as it is.
do_recv_buffer(chs, s, pid, buf) ==
  IF s.tag = 0 THEN [chs EXCEPT ![s.chan].server = pid, ![s.chan].cap_buf = buf]
  ELSE [chs EXCEPT ![s.chan].client = pid]

\* The channels chs once the process of the socket waits on it.
do_recv(chs, s, pid, buf) ==
  IF s.tag = 0 THEN [chs EXCEPT ![s.chan].server = pid, ![s.chan].cap_buf = buf]
  ELSE [chs EXCEPT ![s.chan].client = pid, ![s.chan].cap_buf = buf]

may_send_cap(s) == (IF s.tag = 0 THEN "scap" ELSE "ccap") \in s.perm
may_recv_cap(s) == (IF s.tag = 0 THEN "ccap" ELSE "scap") \in s.perm

cap_sock_send(sock, buf, send_cap) ==
  LET s == cap[sock] IN
  /\ s.type = "sock"
  /\ send_cap => may_send_cap(s)
  /\ \/ do_send(s, buf, send_cap)
     \/ UNCHANGED capVars
  /\ channels' = take_receiver(s)

\* A client only resumes waiting, for a server it can yield its time to.
cap_sock_recv(sock, buf) ==
  LET s == cap[sock] IN
  /\ s.type = "sock"
  /\ "ccap" \in s.perm => cte_is_empty(buf)
  /\ \/ /\ s.tag = 0
        /\ channels' = do_recv(channels, s, cte_pid(sock), buf)
     \/ /\ s.tag # 0 /\ channels[s.chan].client = cte_pid(sock)
        /\ channels[s.chan].server # NULL /\ s.mode = "yield"
        /\ channels' = [channels EXCEPT ![s.chan].cap_buf = buf]
  /\ UNCHANGED capVars

\* replyrecv and call.  A server that finds nobody to reply to deletes the
\* capability it meant to send; a client then returns without waiting.
cap_sock_sendrecv(sock, buf, send_cap) ==
  LET s == cap[sock]
      wait(chs) == do_recv(chs, s, cte_pid(sock), buf)
  IN  /\ s.type = "sock"
      /\ send_cap => may_send_cap(s)
      /\ may_recv_cap(s) /\ ~send_cap => cte_is_empty(buf)
      /\ \/ /\ do_send(s, buf, send_cap)
            /\ channels' = wait(take_receiver(s))
         \/ /\ s.tag = 0 /\ send_cap /\ cap_delete(buf)
            /\ channels' = wait(cap_delete_socket(take_receiver(s), buf))
         \/ /\ s.tag = 0 /\ (send_cap => cte_is_empty(buf))
            /\ UNCHANGED capVars
            /\ channels' = wait(take_receiver(s))

-----------------------------------------------------------------------------
(* Boot and steps.                                                         *)

\* ctable_init, proc_init (which loads capability 0) and sched_init (which
\* gives every slot of every hart to process 0).
boot(init_caps, n) ==
  /\ cap = [c \in CTE |->
             IF c = ctable0 THEN [init_caps[1] EXCEPT !.used = TRUE, !.slot = 0]
             ELSE IF IsBoot(n, c) THEN init_caps[BootIndex(c)] ELSE NoCap]
  /\ next = [c \in CTE |->
              IF IsBoot(n, c) THEN BootSlot(BootNext(n, BootIndex(c))) ELSE ctable0]
  /\ prev = [c \in CTE |->
              IF IsBoot(n, c) THEN BootSlot(BootPrev(n, BootIndex(c))) ELSE ctable0]
  /\ slots = [h \in Harts |-> [i \in Slots |-> [pid |-> 0, length |-> SLOT_CNT - i]]]
  /\ pmp = [p \in Pids |-> [s \in PmpSlots |->
             IF p = 0 /\ s = 0 THEN Region(init_caps[1]) ELSE NoPmp]]
  /\ channels = [ch \in Chans |-> [server |-> NULL, client |-> NULL, cap_buf |-> NULL]]
  /\ after = [c \in CTE |->
               IF IsBoot(n, c)
               THEN {BootSlot(j) : j \in {k \in 1..n :
                                            BootRank(n, BootIndex(c)) < BootRank(n, k)}}
               ELSE {}]
  /\ anc = [c \in CTE |-> {}]
  /\ root = [c \in CTE |-> IF IsBoot(n, c) THEN BootIndex(c) ELSE 1]
  /\ shrunk = FALSE

Init == \E init_caps \in Platforms : boot(init_caps, Len(init_caps))

\* The two ends of the list, which are neighbours in the ring, are strangers:
\* they go back to different boot capabilities and are to different resources.
Apart ==
  \E head, tail \in Live :
    /\ after[head] = Live \ {head} /\ after[tail] = {}
    /\ root[head] # root[tail] /\ ~SameResource(cap[head], cap[tail])

\* History: have the ends of the list ever met?
watch == shrunk' = (shrunk \/ ~Apart')

\* The system calls that work on the table.  Their handlers name slots of the
\* caller's own table, cap_move and the PMP calls with a monitor capability
\* also slots of other processes.
Next ==
  \/ \E src \in Live, dst \in CTE : cap_move(src, dst) /\ UNCHANGED channels /\ watch
  \/ \E c \in CTE : cap_delete(c) /\ channels' = cap_delete_socket(channels, c) /\ watch
  \/ \E parent \in CTE : cap_revoke_time(parent) /\ watch
  \/ \E parent \in CTE : cap_revoke_memory(parent) /\ watch
  \/ \E parent \in CTE : cap_revoke_monitor(parent) /\ watch
  \/ \E parent \in CTE : cap_revoke_channel(parent) /\ watch
  \/ \E parent \in CTE : cap_revoke_socket(parent) /\ watch
  \/ \E src \in Live : \E dst \in Own(src) \ Live, new \in Requests : cap_derive(src, dst, new) /\ watch
  \/ \E c \in CTE, slot \in PmpSlots : cap_pmp_load(c, slot) /\ watch
  \/ \E c \in CTE : cap_pmp_unload(c) /\ watch
  \/ \E sock \in Live : \E buf \in Own(sock), send_cap \in BOOLEAN :
       cap_sock_send(sock, buf, send_cap) /\ watch
  \/ \E sock \in Live : \E buf \in Own(sock) : cap_sock_recv(sock, buf) /\ watch
  \/ \E sock \in Live : \E buf \in Own(sock), send_cap \in BOOLEAN :
       cap_sock_sendrecv(sock, buf, send_cap) /\ watch

Spec == Init /\ [][Next]_vars
=============================================================================
