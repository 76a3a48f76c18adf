------------------------------ MODULE CapProofs ------------------------------
(***************************************************************************)
(* The capability operations keep their state well typed, and a message    *)
(* always finds a buffer for its capability, for every platform, every     *)
(* number of processes and every sequence of calls; and the PMP table of a *)
(* process holds the regions of the PMP capabilities that the process has  *)
(* in use and no others.                                                   *)
(***************************************************************************)
EXTENDS CapSafety, TLAPS

USE CountsAssumption, SlotCntAssumption

-----------------------------------------------------------------------------
(* Descriptors.                                                            *)

\* The type field tells the variant of a descriptor.
LEMMA CapVariant ==
  ASSUME NEW c \in Cap
  PROVE  /\ c.type \in {"time", "mem", "pmp", "mon", "chan", "sock", "none"}
         /\ c.type = "time" => c \in TimeCap
         /\ c.type = "mem"  => c \in MemCap
         /\ c.type = "pmp"  => c \in PmpCap
         /\ c.type = "mon"  => c \in MonCap
         /\ c.type = "chan" => c \in ChanCap
         /\ c.type = "sock" => c \in SockCap
BY DEF Cap, TimeCap, MemCap, PmpCap, MonCap, ChanCap, SockCap, NoCap

\* Replacing the mark, the lock or the use of a descriptor keeps its variant.
LEMMA CapUpdate ==
  /\ \A c \in TimeCap, m \in Nat : [c EXCEPT !.mrk = m] \in TimeCap
  /\ \A c \in MemCap, m \in Nat : [c EXCEPT !.mrk = m] \in MemCap
  /\ \A c \in MemCap, l \in BOOLEAN : [c EXCEPT !.lck = l] \in MemCap
  /\ \A c \in MemCap, m \in Nat, l \in BOOLEAN : [c EXCEPT !.mrk = m, !.lck = l] \in MemCap
  /\ \A c \in MonCap, m \in Nat : [c EXCEPT !.mrk = m] \in MonCap
  /\ \A c \in ChanCap, m \in Nat : [c EXCEPT !.mrk = m] \in ChanCap
  /\ \A c \in PmpCap, u \in BOOLEAN, s \in PmpSlots :
       [c EXCEPT !.used = u, !.slot = s] \in PmpCap
BY DEF TimeCap, MemCap, MonCap, ChanCap, PmpCap

-----------------------------------------------------------------------------
(* Typing.  TypeOK is inductive together with the bounds of the            *)
(* capabilities that the schedule and the channels are indexed with, and   *)
(* with the fact that do_send finds a buffer to move a capability to.      *)

\* A time capability keeps its mark within its range and its range within
\* the schedule; channel capabilities and sockets stay within the channels.
Bounded(c) ==
  /\ c.type = "time" => c.bgn <= c.mrk /\ c.mrk <= c.end /\ c.end <= SLOT_CNT
  /\ c.type = "chan" => c.end <= CHAN_CNT
  /\ c.type = "sock" => c.chan < CHAN_CNT
AllBounded == \A c \in CTE : Bounded(cap[c])

TypeInv == TypeOK /\ AllBounded /\ ReceiverHasBuffer

\* What an operation on the table keeps: all types but those of the channels
\* and of the history `shrunk'.
TableTypes ==
  /\ cap \in [CTE -> Cap]
  /\ next \in [CTE -> CTE] /\ prev \in [CTE -> CTE]
  /\ slots \in [Harts -> [Slots -> SlotInfo]]
  /\ pmp \in [Pids -> [PmpSlots -> PmpEntry]]
  /\ after \in [CTE -> SUBSET CTE] /\ anc \in [CTE -> SUBSET CTE]
  /\ root \in [CTE -> 1..CAP_CNT]
  /\ AllBounded

ListTypes ==
  /\ next \in [CTE -> CTE] /\ prev \in [CTE -> CTE]
  /\ after \in [CTE -> SUBSET CTE] /\ anc \in [CTE -> SUBSET CTE]
  /\ root \in [CTE -> 1..CAP_CNT]

\* Table slots name a process.
LEMMA CteTyped == \A c \in CTE : cte_pid(c) \in Pids
BY DEF CTE, cte_pid

\* Moving the mark of a channel capability keeps it bounded.
LEMMA ChanMark ==
  ASSUME NEW c \in ChanCap, c.end <= CHAN_CNT, NEW m \in Nat
  PROVE  [c EXCEPT !.mrk = m] \in Cap /\ Bounded([c EXCEPT !.mrk = m])
<1> DEFINE d == [c EXCEPT !.mrk = m]
<1>1. d \in ChanCap
  BY CapUpdate
<1>2. d.end = c.end /\ d.type = "chan"
  BY DEF ChanCap
<1> HIDE DEF d
<1>3. d \in Cap /\ Bounded(d)
  BY <1>1, <1>2 DEF Cap, Bounded
<1> QED
  BY <1>3 DEF d

LEMMA NoCapTyped == NoCap \in Cap /\ NoCap.type = "none"
BY DEF Cap, NoCap

\* The list operations keep links and histories well typed.
LEMMA InsertTyped ==
  ASSUME TypeOK, NEW c \in CTE, NEW p \in CTE, cte_insert(c, p)
  PROVE  ListTypes'
BY DEF TypeOK, cte_insert, ListTypes

LEMMA DeleteTyped ==
  ASSUME TypeOK, NEW c \in CTE, cte_delete(c)
  PROVE  ListTypes'
BY DEF TypeOK, cte_delete, Forget, ListTypes

LEMMA MoveTyped ==
  ASSUME TypeOK, NEW src \in CTE, NEW dst \in CTE, cte_move(src, dst)
  PROVE  ListTypes'
BY DEF TypeOK, cte_move, Rename, Swap, ListTypes

\* Writing one or two well-formed descriptors keeps the table well formed.
LEMMA WriteOne ==
  ASSUME TypeInv, NEW x \in CTE, NEW u \in Cap, Bounded(u), cap' = [cap EXCEPT ![x] = u]
  PROVE  cap' \in [CTE -> Cap] /\ AllBounded'
BY DEF TypeInv, TypeOK, AllBounded

LEMMA WriteTwo ==
  ASSUME TypeInv, NEW x \in CTE, NEW y \in CTE, NEW u \in Cap, NEW v \in Cap,
         Bounded(u), Bounded(v), cap' = [cap EXCEPT ![x] = u, ![y] = v]
  PROVE  cap' \in [CTE -> Cap] /\ AllBounded'
BY DEF TypeInv, TypeOK, AllBounded

\* The schedule stays well typed when a range of a time capability is given
\* to a process or deleted.
LEMMA SlotsTyped ==
  ASSUME TypeOK, NEW pid \in Pids, NEW end \in Nat, NEW hart \in Harts,
         NEW from \in Nat, NEW to \in Nat, to <= end, end <= SLOT_CNT
  PROVE  /\ sched_update(pid, end, hart, from, to) \in [Harts -> [Slots -> SlotInfo]]
         /\ sched_delete(hart, from, to) \in [Harts -> [Slots -> SlotInfo]]
<1>1. \A i \in Slots : from <= i /\ i < to => end - i \in 0..SLOT_CNT
  BY DEF Slots
<1>2. 0 \in Pids
  BY DEF Pids
<1>3. \A i \in Slots : slots[hart][i] \in SlotInfo
  BY DEF TypeOK
<1>4. [i \in Slots |-> IF from <= i /\ i < to THEN [pid |-> pid, length |-> end - i]
                       ELSE slots[hart][i]] \in [Slots -> SlotInfo]
  BY <1>1, <1>3 DEF SlotInfo
<1>5. [i \in Slots |-> IF from <= i /\ i < to THEN [pid |-> 0, length |-> 0]
                       ELSE slots[hart][i]] \in [Slots -> SlotInfo]
  BY <1>2, <1>3 DEF SlotInfo
<1> QED
  BY <1>4, <1>5 DEF sched_update, sched_delete, TypeOK

\* Loading and unloading keep the PMP tables well typed.
LEMMA PmpTyped ==
  ASSUME TypeOK, NEW pid \in Pids, NEW slot \in PmpSlots, NEW c \in PmpCap
  PROVE  /\ proc_pmp_load(pid, slot, c) \in [Pids -> [PmpSlots -> PmpEntry]]
         /\ proc_pmp_unload(pid, slot) \in [Pids -> [PmpSlots -> PmpEntry]]
         /\ pmp_clear(pid, c) \in [Pids -> [PmpSlots -> PmpEntry]]
BY DEF TypeOK, proc_pmp_load, proc_pmp_unload, pmp_clear, NoPmp, Region, PmpEntry, PmpCap

\* Well-typed channels, with a buffer wherever there is somebody to receive.
ChannelsOk(chs) ==
  /\ chs \in [Chans -> Channel]
  /\ \A ch \in Chans : chs[ch].server # NULL \/ chs[ch].client # NULL => chs[ch].cap_buf # NULL

\* Clearing a socket, taking a receiver off a channel and waiting on a channel
\* keep the channels so.
LEMMA ChannelsKept ==
  ASSUME NEW chs, ChannelsOk(chs), NEW s, NEW pid \in Pids, NEW buf \in CTE
  PROVE  /\ ChannelsOk(cap_sock_clear(chs, s, pid))
         /\ ChannelsOk(do_recv(chs, s, pid, buf))
         /\ ChannelsOk([chs EXCEPT ![s.chan].client = NULL])
         /\ ChannelsOk([chs EXCEPT ![s.chan].cap_buf = buf])
<1> USE NullAssumption
<1> DEFINE none == [server |-> NULL, client |-> NULL, cap_buf |-> NULL]
           Good(r) == /\ r \in Channel
                      /\ r.server # NULL \/ r.client # NULL => r.cap_buf # NULL
           f == s.chan
<1>1. \A ch \in Chans : Good(chs[ch])
  BY DEF ChannelsOk
<1>2. Good(none)
  BY DEF Channel
<1>3. \A r : Good(r) =>
        /\ Good([r EXCEPT !.client = NULL]) /\ Good([r EXCEPT !.cap_buf = buf])
        /\ Good([r EXCEPT !.client = pid, !.cap_buf = buf])
        /\ Good([r EXCEPT !.server = pid, !.cap_buf = buf])
  BY DEF Channel
<1>4. chs \in [Chans -> Channel]
  BY DEF ChannelsOk
<1>5. \A r : Good(r) => ChannelsOk([chs EXCEPT ![f] = r])
  BY <1>1, <1>4 DEF ChannelsOk
<1>6. CASE f \in Chans
  <2>1. /\ [chs EXCEPT ![f].client = NULL] = [chs EXCEPT ![f] = [chs[f] EXCEPT !.client = NULL]]
        /\ [chs EXCEPT ![f].cap_buf = buf] = [chs EXCEPT ![f] = [chs[f] EXCEPT !.cap_buf = buf]]
    OBVIOUS
  <2>2. /\ [chs EXCEPT ![f].server = pid, ![f].cap_buf = buf]
             = [chs EXCEPT ![f] = [chs[f] EXCEPT !.server = pid, !.cap_buf = buf]]
        /\ [chs EXCEPT ![f].client = pid, ![f].cap_buf = buf]
             = [chs EXCEPT ![f] = [chs[f] EXCEPT !.client = pid, !.cap_buf = buf]]
    BY <1>4, <1>6
  <2>3. ChannelsOk([chs EXCEPT ![f].client = NULL]) /\ ChannelsOk([chs EXCEPT ![f].cap_buf = buf])
    BY <1>1, <1>3, <1>5, <1>6, <2>1
  <2>4. ChannelsOk(do_recv(chs, s, pid, buf))
    BY <1>1, <1>3, <1>5, <1>6, <2>2 DEF do_recv
  <2>5. ChannelsOk(cap_sock_clear(chs, s, pid))
    BY <1>2, <1>5, <2>3 DEF cap_sock_clear
  <2> QED
    BY <2>3, <2>4, <2>5
<1>7. CASE f \notin Chans
  <2>1. \A r : [chs EXCEPT ![f] = r] = chs
    BY <1>4, <1>7
  <2>2. [chs EXCEPT ![f].client = NULL] = chs /\ [chs EXCEPT ![f].cap_buf = buf] = chs
    BY <2>1
  <2>3. /\ [chs EXCEPT ![f].server = pid, ![f].cap_buf = buf] = chs
        /\ [chs EXCEPT ![f].client = pid, ![f].cap_buf = buf] = chs
    BY <1>4, <1>7
  <2> QED
    BY <2>1, <2>2, <2>3 DEF do_recv, cap_sock_clear
<1> QED
  BY <1>6, <1>7

LEMMA ChannelsTyped == TypeInv => ChannelsOk(channels)
BY DEF TypeInv, TypeOK, ReceiverHasBuffer, ChannelsOk

-----------------------------------------------------------------------------
(* Boot: ctable_init, proc_init and sched_init.                            *)

LEMMA TypeInit == Init => TypeInv
<1> SUFFICES ASSUME Init PROVE TypeInv
  OBVIOUS
<1> PICK init_caps \in Platforms : boot(init_caps, Len(init_caps))
  BY DEF Init
<1> USE PlatformsAssumption
<1> DEFINE n == Len(init_caps)
           first == [init_caps[1] EXCEPT !.used = TRUE, !.slot = 0]
<1>0. n \in Nat /\ 2 <= n /\ n <= CAP_CNT
  OBVIOUS
<1>1. \A i \in 1..n : init_caps[i] \in Cap /\ BootSlot(i) \in CTE
  BY <1>0 DEF BootSlot, CTE, Pids
<1>2. \A c \in CTE : IsBoot(n, c) => BootIndex(c) \in 1..n
  BY DEF IsBoot
<1>3. \A i \in 1..n : BootNext(n, i) \in 1..n /\ BootPrev(n, i) \in 1..n
  BY <1>0 DEF BootNext, BootPrev
<1>4. first \in PmpCap
  <2>1. 0 \in PmpSlots /\ init_caps[1] \in PmpCap
    BY DEF PmpSlots
  <2> QED
    BY <2>1, CapUpdate
<1>5. cap \in [CTE -> Cap]
  BY <1>1, <1>2, <1>4 DEF boot, Cap
<1>6. next \in [CTE -> CTE] /\ prev \in [CTE -> CTE]
  BY <1>0, <1>1, <1>2, <1>3 DEF boot, ctable0
<1>7. slots \in [Harts -> [Slots -> SlotInfo]]
  <2>1. \A i \in Slots : [pid |-> 0, length |-> SLOT_CNT - i] \in SlotInfo
    BY DEF SlotInfo, Slots, Pids
  <2> QED
    BY <2>1 DEF boot
<1>8. pmp \in [Pids -> [PmpSlots -> PmpEntry]]
  BY DEF boot, PmpEntry, NoPmp, Region, PmpCap
<1>9. channels \in [Chans -> Channel]
  BY DEF boot, Channel
<1>10. after \in [CTE -> SUBSET CTE]
  BY <1>1 DEF boot
<1>11. anc \in [CTE -> SUBSET CTE] /\ shrunk \in BOOLEAN
  BY DEF boot
<1>12. root \in [CTE -> 1..CAP_CNT]
  BY <1>0, <1>2 DEF boot
<1>13. AllBounded
  <2> SUFFICES ASSUME NEW c \in CTE PROVE Bounded(cap[c])
    BY DEF AllBounded
  <2>1. CASE c = ctable0
    BY <2>1, <1>4 DEF boot, PmpCap, Bounded
  <2>2. CASE c # ctable0 /\ IsBoot(n, c)
    <3> DEFINE i == BootIndex(c)
    <3>1. cap[c] = init_caps[i] /\ i \in 1..n
      BY <1>2, <2>2 DEF boot
    <3>2. /\ cap_is_valid(cap[c]) /\ cap[c] \in Cap
          /\ cap[c].type = "time" => cap[c].end <= SLOT_CNT
          /\ cap[c].type = "chan" => cap[c].end <= CHAN_CNT
          /\ cap[c].type = "sock" => cap[c].chan < CHAN_CNT
      BY <1>1, <3>1
    <3>3. cap[c].type = "time" => cap[c].bgn <= cap[c].mrk /\ cap[c].mrk <= cap[c].end
      BY <3>2, CapVariant DEF cap_is_valid, TimeCap
    <3> QED
      BY <3>2, <3>3 DEF Bounded
  <2>3. CASE ~IsBoot(n, c) /\ c # ctable0
    BY <2>3 DEF boot, NoCap, Bounded
  <2> QED
    BY <2>1, <2>2, <2>3
<1>14. ReceiverHasBuffer
  BY DEF boot, ReceiverHasBuffer
<1> QED
  BY <1>5, <1>6, <1>7, <1>8, <1>9, <1>10, <1>11, <1>12, <1>13, <1>14 DEF TypeInv, TypeOK

-----------------------------------------------------------------------------
(* Every operation keeps the types.                                        *)

\* A time capability and its fields.
LEMMA TimeFields ==
  ASSUME TypeInv, NEW c \in CTE, cap[c].type = "time"
  PROVE  /\ cap[c] \in TimeCap /\ cap[c].hart \in Harts
         /\ cap[c].bgn \in Nat /\ cap[c].mrk \in Nat /\ cap[c].end \in Nat
         /\ cap[c].bgn <= cap[c].mrk /\ cap[c].mrk <= cap[c].end /\ cap[c].end <= SLOT_CNT
<1>1. cap[c] \in TimeCap
  BY CapVariant DEF TypeInv, TypeOK
<1> QED
  BY <1>1 DEF TypeInv, AllBounded, Bounded, TimeCap

LEMMA MoveKeepsTypes ==
  ASSUME TypeInv, NEW src \in CTE, NEW dst \in CTE, cap_move(src, dst)
  PROVE  TableTypes'
<1> DEFINE c == cap[src]
<1>0. TypeOK /\ c \in Cap /\ Bounded(c) /\ NoCap \in Cap /\ Bounded(NoCap) /\ ListTypes'
  BY NoCapTyped, MoveTyped DEF TypeInv, TypeOK, AllBounded, Bounded, cap_move
<1>1. CASE c.type = "time" /\ cte_pid(src) # cte_pid(dst)
  <2>1. /\ slots' = sched_update(cte_pid(dst), c.end, c.hart, c.mrk, c.end)
        /\ cap' = [cap EXCEPT ![src] = NoCap, ![dst] = c] /\ pmp' = pmp
    BY <1>1 DEF cap_move, cap_ipc_move_hook
  <2>2. c.hart \in Harts /\ c.mrk \in Nat /\ c.end \in Nat /\ c.end <= SLOT_CNT
    BY <1>1, TimeFields
  <2>3. cte_pid(dst) \in Pids
    BY CteTyped
  <2>4. slots' \in [Harts -> [Slots -> SlotInfo]]
    BY <1>0, <2>1, <2>2, <2>3, SlotsTyped
  <2>5. cap' \in [CTE -> Cap] /\ AllBounded'
    BY <1>0, <2>1, WriteTwo
  <2> QED
    BY <1>0, <2>1, <2>4, <2>5 DEF TableTypes, ListTypes, TypeOK
<1>2. CASE c.type = "pmp" /\ cte_pid(src) # cte_pid(dst)
  <2> DEFINE d == [c EXCEPT !.used = FALSE, !.slot = IF c.used THEN 0 ELSE c.slot]
  <2>1. /\ pmp' = pmp_clear(cte_pid(src), c)
        /\ cap' = [cap EXCEPT ![src] = NoCap, ![dst] = d] /\ slots' = slots
    BY <1>2 DEF cap_move, cap_ipc_move_hook
  <2>2. c \in PmpCap /\ c.slot \in PmpSlots
    BY <1>0, <1>2, CapVariant DEF PmpCap
  <2>3. (IF c.used THEN 0 ELSE c.slot) \in PmpSlots
    BY <2>2 DEF PmpSlots
  <2>4. d \in PmpCap
    BY <2>2, <2>3, CapUpdate
  <2>5. d \in Cap /\ Bounded(d)
    BY <2>4 DEF Cap, PmpCap, Bounded
  <2> HIDE DEF d
  <2>6. cap' \in [CTE -> Cap] /\ AllBounded'
    BY <1>0, <2>1, <2>5, WriteTwo
  <2>7. cte_pid(src) \in Pids
    BY CteTyped
  <2>8. pmp' \in [Pids -> [PmpSlots -> PmpEntry]]
    BY <1>0, <2>1, <2>2, <2>7, PmpTyped
  <2> QED
    BY <1>0, <2>1, <2>6, <2>8 DEF TableTypes, ListTypes, TypeOK
<1>3. CASE c.type \notin {"time", "pmp"} \/ cte_pid(src) = cte_pid(dst)
  <2>1. /\ cap' = [cap EXCEPT ![src] = NoCap, ![dst] = c]
        /\ slots' = slots /\ pmp' = pmp
    BY <1>3 DEF cap_move, cap_ipc_move_hook
  <2>2. cap' \in [CTE -> Cap] /\ AllBounded'
    BY <1>0, <2>1, WriteTwo
  <2> QED
    BY <1>0, <2>1, <2>2 DEF TableTypes, ListTypes, TypeOK
<1> QED
  BY <1>1, <1>2, <1>3

LEMMA DeleteKeepsTypes ==
  ASSUME TypeInv, NEW c \in CTE, cap_delete(c)
  PROVE  TableTypes'
<1> DEFINE d == cap[c]
<1>0. TypeOK /\ d \in Cap /\ NoCap \in Cap /\ Bounded(NoCap) /\ ListTypes' /\ cte_pid(c) \in Pids
  BY NoCapTyped, DeleteTyped, CteTyped DEF TypeInv, TypeOK, Bounded, cap_delete
<1>1. cap' \in [CTE -> Cap] /\ AllBounded'
  BY <1>0, WriteOne DEF cap_delete
<1>2. slots' \in [Harts -> [Slots -> SlotInfo]]
  <2>1. CASE d.type = "time"
    <3>1. d.hart \in Harts /\ d.mrk \in Nat /\ d.end \in Nat /\ d.end <= SLOT_CNT
      BY <2>1, TimeFields
    <3>2. sched_delete(d.hart, d.mrk, d.end) \in [Harts -> [Slots -> SlotInfo]]
      BY <1>0, <3>1, SlotsTyped
    <3> QED
      BY <2>1, <3>2 DEF cap_delete
  <2>2. CASE d.type # "time"
    BY <1>0, <2>2 DEF cap_delete, TypeOK
  <2> QED
    BY <2>1, <2>2
<1>3. pmp' \in [Pids -> [PmpSlots -> PmpEntry]]
  <2>1. CASE d.type = "pmp"
    <3>1. d \in PmpCap /\ d.slot \in PmpSlots
      BY <1>0, <2>1, CapVariant DEF PmpCap
    <3> QED
      BY <1>0, <2>1, <3>1, PmpTyped DEF cap_delete
  <2>2. CASE d.type # "pmp"
    BY <1>0, <2>2 DEF cap_delete, TypeOK
  <2> QED
    BY <2>1, <2>2
<1> QED
  BY <1>0, <1>1, <1>2, <1>3 DEF TableTypes, ListTypes

LEMMA RevokeTimeKeepsTypes ==
  ASSUME TypeInv, NEW parent \in CTE, cap_revoke_time(parent)
  PROVE  TableTypes' /\ channels' = channels
<1> DEFINE p == cap[parent]
           child == next[parent]
           c == cap[child]
<1>0. TypeOK /\ child \in CTE /\ NoCap \in Cap /\ Bounded(NoCap) /\ cte_pid(parent) \in Pids
  BY NoCapTyped, CteTyped DEF TypeInv, TypeOK, Bounded
<1>1. /\ p \in TimeCap /\ p.type = "time" /\ p.hart \in Harts
      /\ p.bgn \in Nat /\ p.mrk \in Nat /\ p.end \in Nat
      /\ p.bgn <= p.mrk /\ p.mrk <= p.end /\ p.end <= SLOT_CNT
  BY TimeFields DEF cap_revoke_time
<1>2. CASE time_child(p, c)
  <2> DEFINE q == [p EXCEPT !.mrk = c.mrk]
  <2>1. /\ cap' = [cap EXCEPT ![child] = NoCap, ![parent] = q] /\ ListTypes'
        /\ slots' = sched_update(cte_pid(parent), p.end, p.hart, c.mrk, p.mrk)
        /\ pmp' = pmp /\ channels' = channels
    BY <1>0, <1>2, DeleteTyped DEF cap_revoke_time, absorb
  <2>2. /\ c.mrk \in Nat /\ c.bgn \in Nat /\ c.end \in Nat
        /\ c.bgn <= c.mrk /\ c.mrk <= c.end /\ p.bgn <= c.bgn /\ c.end <= p.end
    BY <1>0, <1>2, TimeFields DEF time_child
  <2>3. q \in Cap /\ Bounded(q)
    <3>1. q \in TimeCap /\ q.bgn = p.bgn /\ q.end = p.end /\ q.mrk = c.mrk
      BY <1>1, <2>2, CapUpdate DEF TimeCap
    <3> QED
      BY <1>1, <2>2, <3>1 DEF Cap, Bounded
  <2> HIDE DEF q
  <2>4. cap' \in [CTE -> Cap] /\ AllBounded'
    BY <1>0, <2>1, <2>3, WriteTwo
  <2>5. slots' \in [Harts -> [Slots -> SlotInfo]]
    BY <1>0, <1>1, <2>1, <2>2, SlotsTyped
  <2> QED
    BY <1>0, <2>1, <2>4, <2>5 DEF TableTypes, ListTypes, TypeOK
<1>3. CASE ~time_child(p, c)
  <2> DEFINE q == [p EXCEPT !.mrk = p.bgn]
  <2>1. /\ cap' = [cap EXCEPT ![parent] = q] /\ UNCHANGED listVars
        /\ slots' = sched_update(cte_pid(parent), p.end, p.hart, p.bgn, p.mrk)
        /\ pmp' = pmp /\ channels' = channels
    BY <1>3 DEF cap_revoke_time, reset
  <2>2. q \in Cap /\ Bounded(q)
    <3>1. q \in TimeCap /\ q.bgn = p.bgn /\ q.end = p.end /\ q.mrk = p.bgn
      BY <1>1, CapUpdate DEF TimeCap
    <3> QED
      BY <1>1, <3>1 DEF Cap, Bounded
  <2> HIDE DEF q
  <2>3. cap' \in [CTE -> Cap] /\ AllBounded'
    BY <2>1, <2>2, WriteOne
  <2>4. slots' \in [Harts -> [Slots -> SlotInfo]]
    BY <1>0, <1>1, <2>1, SlotsTyped
  <2> QED
    BY <1>0, <2>1, <2>3, <2>4 DEF TableTypes, TypeOK, listVars
<1> QED
  BY <1>2, <1>3

\* Revocation in the other handlers comes down to one of three steps: take
\* over the mark of a deleted child, delete a child, take the range back.
LEMMA AbsorbKeepsTypes ==
  ASSUME TypeInv, NEW parent \in CTE, NEW child \in CTE, NEW q \in Cap, Bounded(q),
         absorb(parent, child, q), slots' = slots, pmp' = pmp
  PROVE  TableTypes'
<1>1. NoCap \in Cap /\ Bounded(NoCap) /\ TypeOK
  BY NoCapTyped DEF Bounded, TypeInv
<1>2. cap' \in [CTE -> Cap] /\ AllBounded'
  BY <1>1, WriteTwo DEF absorb
<1>3. ListTypes'
  BY <1>1, DeleteTyped DEF absorb
<1> QED
  BY <1>1, <1>2, <1>3 DEF TableTypes, ListTypes, TypeOK

LEMMA DropKeepsTypes ==
  ASSUME TypeInv, NEW child \in CTE, drop(child), slots' = slots,
         pmp' \in [Pids -> [PmpSlots -> PmpEntry]]
  PROVE  TableTypes'
<1>1. NoCap \in Cap /\ Bounded(NoCap) /\ TypeOK
  BY NoCapTyped DEF Bounded, TypeInv
<1>2. cap' \in [CTE -> Cap] /\ AllBounded'
  BY <1>1, WriteOne DEF drop
<1>3. ListTypes'
  BY <1>1, DeleteTyped DEF drop
<1> QED
  BY <1>1, <1>2, <1>3 DEF TableTypes, ListTypes, TypeOK

LEMMA ResetKeepsTypes ==
  ASSUME TypeInv, NEW parent \in CTE, NEW q \in Cap, Bounded(q),
         reset(parent, q), slots' = slots, pmp' = pmp
  PROVE  TableTypes'
<1>1. cap' \in [CTE -> Cap] /\ AllBounded'
  BY WriteOne DEF reset
<1> QED
  BY <1>1 DEF reset, TableTypes, TypeInv, TypeOK, listVars

LEMMA RevokeMemoryKeepsTypes ==
  ASSUME TypeInv, NEW parent \in CTE, cap_revoke_memory(parent)
  PROVE  TableTypes' /\ channels' = channels
<1> DEFINE p == cap[parent]
           child == next[parent]
           c == cap[child]
<1>0. TypeOK /\ child \in CTE /\ c \in Cap /\ cte_pid(child) \in Pids
      /\ slots' = slots /\ channels' = channels
  BY CteTyped DEF TypeInv, TypeOK, cap_revoke_memory
<1>1. p \in MemCap /\ p.bgn \in Nat
  <2>1. p \in Cap /\ p.type = "mem"
    BY DEF TypeInv, TypeOK, cap_revoke_memory
  <2> QED
    BY <2>1, CapVariant DEF MemCap
<1>2. CASE memory_child(p, c) /\ absorb(parent, child, [p EXCEPT !.mrk = c.mrk, !.lck = c.lck])
           /\ pmp' = pmp
  <2> DEFINE q == [p EXCEPT !.mrk = c.mrk, !.lck = c.lck]
  <2>1. c.mrk \in Nat /\ c.lck \in BOOLEAN
    BY <1>0, <1>2, CapVariant DEF memory_child, MemCap
  <2>2. q \in MemCap
    BY <1>1, <2>1, CapUpdate
  <2>3. q \in Cap /\ Bounded(q)
    BY <2>2 DEF Cap, MemCap, Bounded
  <2> HIDE DEF q
  <2> QED
    BY <1>0, <1>2, <2>3, AbsorbKeepsTypes DEF q
<1>3. CASE pmp_child(p, c) /\ drop(child) /\ pmp' = pmp_clear(cte_pid(child), c)
  <2>1. c \in PmpCap /\ c.slot \in PmpSlots
    BY <1>0, <1>3, CapVariant DEF pmp_child, PmpCap
  <2>2. pmp' \in [Pids -> [PmpSlots -> PmpEntry]]
    BY <1>0, <1>3, <2>1, PmpTyped
  <2> QED
    BY <1>0, <1>3, <2>2, DropKeepsTypes
<1>4. CASE reset(parent, [p EXCEPT !.mrk = p.bgn, !.lck = FALSE]) /\ pmp' = pmp
  <2> DEFINE q == [p EXCEPT !.mrk = p.bgn, !.lck = FALSE]
  <2>1. q \in MemCap
    BY <1>1, CapUpdate
  <2>2. q \in Cap /\ Bounded(q)
    BY <2>1 DEF Cap, MemCap, Bounded
  <2> HIDE DEF q
  <2> QED
    BY <1>0, <1>4, <2>2, ResetKeepsTypes DEF q
<1> QED
  BY <1>2, <1>3, <1>4 DEF cap_revoke_memory

LEMMA RevokeMonitorKeepsTypes ==
  ASSUME TypeInv, NEW parent \in CTE, cap_revoke_monitor(parent)
  PROVE  TableTypes' /\ channels' = channels
<1> DEFINE p == cap[parent]
           child == next[parent]
           c == cap[child]
           q(m) == [p EXCEPT !.mrk = m]
<1>0. child \in CTE /\ c \in Cap /\ slots' = slots /\ pmp' = pmp /\ channels' = channels
  BY DEF TypeInv, TypeOK, cap_revoke_monitor
<1>1. p \in MonCap /\ p.bgn \in Nat
  <2>1. p \in Cap /\ p.type = "mon"
    BY DEF TypeInv, TypeOK, cap_revoke_monitor
  <2> QED
    BY <2>1, CapVariant DEF MonCap
<1>2. \A m \in Nat : q(m) \in Cap /\ Bounded(q(m))
  <2>1. \A m \in Nat : q(m) \in MonCap
    BY <1>1, CapUpdate
  <2> QED
    BY <2>1 DEF Cap, MonCap, Bounded
<1>3. monitor_child(p, c) => c.mrk \in Nat
  BY <1>0, CapVariant DEF monitor_child, MonCap
<1>4. \/ monitor_child(p, c) /\ absorb(parent, child, q(c.mrk))
      \/ reset(parent, q(p.bgn))
  BY DEF cap_revoke_monitor
<1> HIDE DEF q
<1> QED
  BY <1>0, <1>1, <1>2, <1>3, <1>4, AbsorbKeepsTypes, ResetKeepsTypes

LEMMA RevokeChannelKeepsTypes ==
  ASSUME TypeInv, NEW parent \in CTE, cap_revoke_channel(parent)
  PROVE  TableTypes' /\ ChannelsOk(channels')
<1> DEFINE p == cap[parent]
           child == next[parent]
           c == cap[child]
           q(m) == [p EXCEPT !.mrk = m]
<1>0. /\ child \in CTE /\ c \in Cap /\ slots' = slots /\ pmp' = pmp
      /\ pmp \in [Pids -> [PmpSlots -> PmpEntry]] /\ ChannelsOk(channels)
      /\ cte_pid(child) \in Pids
  BY CteTyped, ChannelsTyped DEF TypeInv, TypeOK, cap_revoke_channel
<1>1. p \in ChanCap /\ p.bgn \in Nat /\ p.end <= CHAN_CNT
  <2>1. p \in Cap /\ p.type = "chan" /\ Bounded(p)
    BY DEF TypeInv, TypeOK, AllBounded, cap_revoke_channel
  <2> QED
    BY <2>1, CapVariant DEF ChanCap, Bounded
<1>2. \A m \in Nat : q(m) \in Cap /\ Bounded(q(m))
  BY <1>1, ChanMark
<1>3. channel_child(p, c) => c.mrk \in Nat
  BY <1>0, CapVariant DEF channel_child, ChanCap
<1>4. \/ channel_child(p, c) /\ absorb(parent, child, q(c.mrk)) /\ channels' = channels
      \/ drop(child) /\ channels' = cap_sock_clear(channels, c, cte_pid(child))
      \/ reset(parent, q(p.bgn)) /\ channels' = channels
  BY DEF cap_revoke_channel
<1> HIDE DEF q
<1>5. ChannelsOk(channels')
  <2>1. ChannelsOk(cap_sock_clear(channels, c, cte_pid(child)))
    BY <1>0, ChannelsKept
  <2> QED
    BY <1>0, <1>4, <2>1
<1>6. TableTypes'
  BY <1>0, <1>1, <1>2, <1>3, <1>4, AbsorbKeepsTypes, ResetKeepsTypes, DropKeepsTypes
<1> QED
  BY <1>5, <1>6

LEMMA RevokeSocketKeepsTypes ==
  ASSUME TypeInv, NEW parent \in CTE, cap_revoke_socket(parent)
  PROVE  TableTypes' /\ ChannelsOk(channels')
<1> DEFINE child == next[parent]
<1>0. /\ child \in CTE /\ slots' = slots /\ pmp' = pmp /\ drop(child)
      /\ pmp \in [Pids -> [PmpSlots -> PmpEntry]] /\ ChannelsOk(channels)
      /\ cte_pid(child) \in Pids
      /\ channels' = cap_sock_clear(channels, cap[child], cte_pid(child))
  BY CteTyped, ChannelsTyped DEF TypeInv, TypeOK, cap_revoke_socket
<1> QED
  BY <1>0, ChannelsKept, DropKeepsTypes

\* A derivation writes the source back and puts the new descriptor behind it.
LEMMA DeriveIntoKeepsTypes ==
  ASSUME TypeInv, NEW src \in CTE, NEW dst \in CTE, NEW s \in Cap, NEW new \in Cap,
         Bounded(s), Bounded(new), derive_into(src, s, dst, new), pmp' = pmp,
         slots' \in [Harts -> [Slots -> SlotInfo]]
  PROVE  TableTypes'
<1>1. cap' \in [CTE -> Cap] /\ AllBounded'
  BY WriteTwo DEF derive_into
<1>2. ListTypes'
  BY InsertTyped DEF derive_into, TypeInv
<1> QED
  BY <1>1, <1>2 DEF TableTypes, ListTypes, TypeInv, TypeOK

LEMMA DeriveKeepsTypes ==
  ASSUME TypeInv, NEW src \in CTE, NEW dst \in CTE, NEW new \in Requests,
         cap_derive(src, dst, new)
  PROVE  TableTypes' /\ channels' = channels
<1> DEFINE s == cap[src]
<1>0. /\ TypeOK /\ new \in Cap /\ s \in Cap /\ Bounded(s) /\ cap_is_valid(new)
      /\ pmp' = pmp /\ channels' = channels /\ cte_pid(dst) \in Pids
      /\ slots \in [Harts -> [Slots -> SlotInfo]]
  BY RequestsAssumption, CteTyped DEF TypeInv, TypeOK, AllBounded, cap_derive
<1>1. CASE cap_derive_time(src, dst, new)
  <2> DEFINE t == [s EXCEPT !.mrk = new.end]
  <2>1. /\ s \in TimeCap /\ s.hart \in Harts /\ s.bgn \in Nat /\ s.mrk \in Nat /\ s.end \in Nat
        /\ s.bgn <= s.mrk /\ s.mrk <= s.end /\ s.end <= SLOT_CNT
    BY <1>1, TimeFields DEF cap_derive_time
  <2>2. new \in TimeCap /\ new.type = "time" /\ new.bgn \in Nat /\ new.end \in Nat
    BY <1>0, <1>1, CapVariant DEF cap_derive_time, TimeCap
  <2>3. /\ new.hart = s.hart /\ new.bgn = s.mrk /\ new.end <= s.end
        /\ new.bgn < new.end /\ new.mrk = new.bgn
    BY <1>0, <1>1, <2>2 DEF cap_derive_time, cap_is_valid
  <2>4. Bounded(new)
    BY <2>1, <2>2, <2>3 DEF Bounded
  <2>5. t \in TimeCap /\ t.bgn = s.bgn /\ t.mrk = new.end /\ t.end = s.end
    BY <2>1, <2>2, CapUpdate DEF TimeCap
  <2>6. t \in Cap /\ Bounded(t)
    <3> HIDE DEF t
    <3>1. t.type = "time" /\ t \in Cap
      BY <2>5 DEF Cap, TimeCap
    <3> QED
      BY <2>1, <2>2, <2>3, <2>5, <3>1 DEF Bounded
  <2>7. /\ derive_into(src, t, dst, new)
        /\ slots' = sched_update(cte_pid(dst), new.end, new.hart, new.bgn, new.end)
    BY <1>1 DEF cap_derive_time
  <2> HIDE DEF t
  <2>8. slots' \in [Harts -> [Slots -> SlotInfo]]
    <3>1. new.hart \in Harts /\ new.end <= SLOT_CNT
      BY <2>1, <2>2, <2>3
    <3> QED
      BY <1>0, <2>2, <2>7, <3>1, SlotsTyped
  <2> QED
    BY <1>0, <2>4, <2>6, <2>7, <2>8, DeriveIntoKeepsTypes
<1>2. CASE cap_derive_memory(src, dst, new)
  <2>1. s \in MemCap /\ slots' = slots
    BY <1>0, <1>2, CapVariant DEF cap_derive_memory
  <2>2. CASE new.type = "mem" /\ derive_into(src, [s EXCEPT !.mrk = new.end], dst, new)
    <3> DEFINE t == [s EXCEPT !.mrk = new.end]
    <3>1. new \in MemCap /\ new.end \in Nat
      BY <1>0, <2>2, CapVariant DEF MemCap
    <3>2. t \in MemCap
      BY <2>1, <3>1, CapUpdate
    <3>3. t \in Cap /\ Bounded(t) /\ Bounded(new)
      BY <2>2, <3>2 DEF Cap, MemCap, Bounded
    <3>4. derive_into(src, t, dst, new)
      BY <2>2
    <3> HIDE DEF t
    <3> QED
      BY <1>0, <2>1, <3>3, <3>4, DeriveIntoKeepsTypes
  <2>3. CASE new.type = "pmp" /\ derive_into(src, [s EXCEPT !.lck = TRUE], dst, new)
    <3> DEFINE t == [s EXCEPT !.lck = TRUE]
    <3>1. t \in MemCap
      BY <2>1, CapUpdate
    <3>2. t \in Cap /\ Bounded(t) /\ Bounded(new)
      BY <2>3, <3>1 DEF Cap, MemCap, Bounded
    <3>3. derive_into(src, t, dst, new)
      BY <2>3
    <3> HIDE DEF t
    <3> QED
      BY <1>0, <2>1, <3>2, <3>3, DeriveIntoKeepsTypes
  <2> QED
    BY <1>2, <2>2, <2>3 DEF cap_derive_memory
<1>3. CASE cap_derive_monitor(src, dst, new)
  <2> DEFINE t == [s EXCEPT !.mrk = new.end]
  <2>1. s \in MonCap /\ slots' = slots /\ new.type = "mon"
    BY <1>0, <1>3, CapVariant DEF cap_derive_monitor
  <2>2. new.end \in Nat
    BY <1>0, <2>1, CapVariant DEF MonCap
  <2>3. t \in MonCap
    BY <2>1, <2>2, CapUpdate
  <2>4. t \in Cap /\ Bounded(t) /\ Bounded(new)
    BY <2>1, <2>3 DEF Cap, MonCap, Bounded
  <2>5. derive_into(src, t, dst, new)
    BY <1>3 DEF cap_derive_monitor
  <2> HIDE DEF t
  <2> QED
    BY <1>0, <2>1, <2>4, <2>5, DeriveIntoKeepsTypes
<1>4. CASE cap_derive_channel(src, dst, new)
  <2>1. /\ s \in ChanCap /\ s.end \in Nat /\ s.end <= CHAN_CNT
        /\ slots' = slots /\ new.type \in {"chan", "sock"}
    BY <1>0, <1>4, CapVariant DEF cap_derive_channel, Bounded, ChanCap
  <2>2. PICK m \in Nat : derive_into(src, [s EXCEPT !.mrk = m], dst, new)
    <3>1. CASE new.type = "chan"
      <4>1. new.end \in Nat
        BY <1>0, <3>1, CapVariant DEF ChanCap
      <4> QED
        BY <1>4, <3>1, <4>1 DEF cap_derive_channel
    <3>2. CASE new.type = "sock"
      <4>1. new.chan \in Nat
        BY <1>0, <3>2, CapVariant DEF SockCap
      <4>2. new.chan + 1 \in Nat
        BY <4>1
      <4> QED
        BY <1>4, <3>2, <4>2 DEF cap_derive_channel
    <3> QED
      BY <2>1, <3>1, <3>2
  <2> DEFINE t == [s EXCEPT !.mrk = m]
  <2>3. t \in Cap /\ Bounded(t)
    BY <2>1, ChanMark
  <2>4. Bounded(new)
    <3>1. CASE new.type = "chan"
      <4>1. new.end \in Nat /\ new.end <= s.end
        BY <1>0, <1>4, <3>1, CapVariant DEF ChanCap, cap_derive_channel
      <4> QED
        BY <2>1, <3>1, <4>1 DEF Bounded
    <3>2. CASE new.type = "sock"
      <4>1. new.chan \in Nat /\ new.chan < s.end
        BY <1>0, <1>4, <3>2, CapVariant DEF SockCap, cap_derive_channel
      <4> QED
        BY <2>1, <3>2, <4>1 DEF Bounded
    <3> QED
      BY <2>1, <3>1, <3>2
  <2>5. derive_into(src, t, dst, new)
    BY <2>2
  <2> HIDE DEF t
  <2> QED
    BY <1>0, <2>1, <2>3, <2>4, <2>5, DeriveIntoKeepsTypes
<1>5. CASE cap_derive_socket(src, dst, new)
  <2>1. Bounded(new) /\ slots' = slots /\ derive_into(src, s, dst, new)
    BY <1>0, <1>5 DEF cap_derive_socket, Bounded
  <2> QED
    BY <1>0, <2>1, DeriveIntoKeepsTypes
<1> QED
  BY <1>1, <1>2, <1>3, <1>4, <1>5 DEF cap_derive

LEMMA LoadKeepsTypes ==
  ASSUME TypeInv, NEW c \in CTE, NEW slot \in PmpSlots, cap_pmp_load(c, slot)
  PROVE  TableTypes' /\ channels' = channels
<1> DEFINE d == [cap[c] EXCEPT !.used = TRUE, !.slot = slot]
<1>0. TypeOK /\ cap[c] \in PmpCap /\ cte_pid(c) \in Pids
  BY CapVariant, CteTyped DEF TypeInv, TypeOK, cap_pmp_load
<1>1. d \in PmpCap
  BY <1>0, CapUpdate
<1>2. d \in Cap /\ Bounded(d)
  BY <1>1 DEF Cap, PmpCap, Bounded
<1>3. /\ cap' = [cap EXCEPT ![c] = d] /\ slots' = slots /\ UNCHANGED listVars
      /\ pmp' = proc_pmp_load(cte_pid(c), slot, cap[c]) /\ channels' = channels
  BY DEF cap_pmp_load
<1> HIDE DEF d
<1>4. cap' \in [CTE -> Cap] /\ AllBounded'
  BY <1>2, <1>3, WriteOne
<1>5. pmp' \in [Pids -> [PmpSlots -> PmpEntry]]
  BY <1>0, <1>3, PmpTyped
<1> QED
  BY <1>0, <1>3, <1>4, <1>5 DEF TableTypes, TypeOK, listVars

LEMMA UnloadKeepsTypes ==
  ASSUME TypeInv, NEW c \in CTE, cap_pmp_unload(c)
  PROVE  TableTypes' /\ channels' = channels
<1> DEFINE d == [cap[c] EXCEPT !.used = FALSE, !.slot = 0]
<1>0. /\ TypeOK /\ cap[c] \in PmpCap /\ cte_pid(c) \in Pids
      /\ cap[c].slot \in PmpSlots /\ 0 \in PmpSlots
  BY CapVariant, CteTyped DEF TypeInv, TypeOK, cap_pmp_unload, PmpCap, PmpSlots
<1>1. d \in PmpCap
  BY <1>0, CapUpdate
<1>2. d \in Cap /\ Bounded(d)
  BY <1>1 DEF Cap, PmpCap, Bounded
<1>3. /\ cap' = [cap EXCEPT ![c] = d] /\ slots' = slots /\ UNCHANGED listVars
      /\ pmp' = proc_pmp_unload(cte_pid(c), cap[c].slot) /\ channels' = channels
  BY DEF cap_pmp_unload
<1> HIDE DEF d
<1>4. cap' \in [CTE -> Cap] /\ AllBounded'
  BY <1>2, <1>3, WriteOne
<1>5. pmp' \in [Pids -> [PmpSlots -> PmpEntry]]
  BY <1>0, <1>3, PmpTyped
<1> QED
  BY <1>0, <1>3, <1>4, <1>5 DEF TableTypes, TypeOK, listVars

-----------------------------------------------------------------------------
(* Sockets.                                                                *)

\* A call that leaves the table alone.
LEMMA SameTable ==
  ASSUME TypeInv, UNCHANGED capVars
  PROVE  TableTypes'
BY DEF TypeInv, TypeOK, AllBounded, TableTypes, capVars

LEMMA TakeTyped ==
  ASSUME TypeInv, NEW s, NEW buf \in CTE
  PROVE  ChannelsOk(take_receiver(s))
<1>1. ChannelsOk(channels) /\ cte_pid(buf) \in Pids
  BY ChannelsTyped, CteTyped
<1>2. ChannelsOk([channels EXCEPT ![s.chan].client = NULL])
  BY <1>1, ChannelsKept
<1> QED
  BY <1>1, <1>2 DEF take_receiver

\* A socket names one of the channels.
LEMMA SocketChannel ==
  ASSUME TypeInv, NEW sock \in CTE, cap[sock].type = "sock"
  PROVE  cap[sock].chan \in Chans
<1>1. cap[sock].chan \in Nat
  BY CapVariant DEF TypeInv, TypeOK, SockCap
<1>2. cap[sock].chan < CHAN_CNT
  BY DEF TypeInv, AllBounded, Bounded
<1> QED
  BY <1>1, <1>2 DEF Chans

\* A channel that has a receiver has a buffer, so do_send moves a capability
\* from one table slot to another or leaves the table alone.
LEMMA SendKeepsTypes ==
  ASSUME TypeInv, NEW s, s.chan \in Chans, NEW buf \in CTE, NEW send_cap,
         do_send(s, buf, send_cap)
  PROVE  TableTypes'
<1> DEFINE dst == channels[s.chan].cap_buf
<1>1. channels[s.chan].server # NULL \/ channels[s.chan].client # NULL
  BY DEF do_send, receiver
<1>2. channels[s.chan] \in Channel
  BY DEF TypeInv, TypeOK
<1>3. dst \in CTE
  BY <1>1, <1>2 DEF TypeInv, ReceiverHasBuffer, Channel
<1>4. cap_move(buf, dst) \/ UNCHANGED capVars
  BY DEF do_send
<1> HIDE DEF dst
<1> QED
  BY <1>3, <1>4, MoveKeepsTypes, SameTable

LEMMA SockSendKeepsTypes ==
  ASSUME TypeInv, NEW sock \in CTE, NEW buf \in CTE, NEW send_cap,
         cap_sock_send(sock, buf, send_cap)
  PROVE  TableTypes' /\ ChannelsOk(channels')
<1>1. cap[sock].type = "sock" /\ channels' = take_receiver(cap[sock])
      /\ (do_send(cap[sock], buf, send_cap) \/ UNCHANGED capVars)
  BY DEF cap_sock_send
<1>2. cap[sock].chan \in Chans
  BY <1>1, SocketChannel
<1>3. TableTypes'
  BY <1>1, <1>2, SendKeepsTypes, SameTable
<1>4. ChannelsOk(take_receiver(cap[sock]))
  BY TakeTyped
<1> QED
  BY <1>1, <1>3, <1>4

LEMMA SockRecvKeepsTypes ==
  ASSUME TypeInv, NEW sock \in CTE, NEW buf \in CTE, cap_sock_recv(sock, buf)
  PROVE  TableTypes' /\ ChannelsOk(channels')
<1> DEFINE s == cap[sock]
<1>1. /\ UNCHANGED capVars
      /\ \/ channels' = do_recv(channels, s, cte_pid(sock), buf)
         \/ channels' = [channels EXCEPT ![s.chan].cap_buf = buf]
  BY DEF cap_sock_recv
<1>2. ChannelsOk(channels) /\ cte_pid(sock) \in Pids
  BY ChannelsTyped, CteTyped
<1>3. /\ ChannelsOk(do_recv(channels, s, cte_pid(sock), buf))
      /\ ChannelsOk([channels EXCEPT ![s.chan].cap_buf = buf])
  BY <1>2, ChannelsKept
<1> QED
  BY <1>1, <1>3, SameTable

LEMMA DeleteSocketTyped ==
  ASSUME TypeInv, NEW c \in CTE, NEW chs, ChannelsOk(chs)
  PROVE  ChannelsOk(cap_delete_socket(chs, c))
<1>1. cte_pid(c) \in Pids
  BY CteTyped
<1>2. ChannelsOk(cap_sock_clear(chs, cap[c], cte_pid(c)))
  BY <1>1, ChannelsKept
<1> QED
  BY <1>2 DEF cap_delete_socket

LEMMA SockSendrecvKeepsTypes ==
  ASSUME TypeInv, NEW sock \in CTE, NEW buf \in CTE, NEW send_cap,
         cap_sock_sendrecv(sock, buf, send_cap)
  PROVE  TableTypes' /\ ChannelsOk(channels')
<1> DEFINE s == cap[sock]
           taken == take_receiver(s)
           wait(chs) == do_recv(chs, s, cte_pid(sock), buf)
<1>1. s.type = "sock" /\ s.chan \in Chans /\ cte_pid(sock) \in Pids
  BY SocketChannel, CteTyped DEF cap_sock_sendrecv
<1>2. ChannelsOk(taken)
  BY TakeTyped
<1>3. ASSUME NEW chs, ChannelsOk(chs) PROVE ChannelsOk(wait(chs))
  BY <1>1, <1>3, ChannelsKept
<1>4. ChannelsOk(cap_delete_socket(taken, buf))
  BY <1>2, DeleteSocketTyped
<1>5. \/ do_send(s, buf, send_cap) /\ channels' = wait(taken)
      \/ cap_delete(buf) /\ channels' = wait(cap_delete_socket(taken, buf))
      \/ UNCHANGED capVars /\ channels' = wait(taken)
  BY DEF cap_sock_sendrecv
<1>6. ChannelsOk(wait(taken)) /\ ChannelsOk(wait(cap_delete_socket(taken, buf)))
  BY <1>2, <1>3, <1>4
<1> HIDE DEF taken, wait
<1>7. TableTypes'
  BY <1>1, <1>5, SendKeepsTypes, DeleteKeepsTypes, SameTable
<1> QED
  BY <1>5, <1>6, <1>7

-----------------------------------------------------------------------------
(* The theorems.                                                           *)

\* The parts make up the inductive invariant, in the state after a step.
LEMMA TypesTogether ==
  ASSUME TableTypes', ChannelsOk(channels'), shrunk' \in BOOLEAN
  PROVE  TypeInv'
BY DEF TableTypes, ChannelsOk, TypeInv, TypeOK, ReceiverHasBuffer

\* The slots that Next ranges over are slots.
LEMMA SlotsNamed == Live \subseteq CTE /\ \A c \in CTE : Own(c) \subseteq CTE
BY DEF Live, Own, CTE, cte_pid

LEMMA TypeStep ==
  ASSUME TypeInv, [Next]_vars
  PROVE  TypeInv'
<1>0. ChannelsOk(channels) /\ shrunk \in BOOLEAN
  BY ChannelsTyped DEF TypeInv, TypeOK
<1>s. watch => shrunk' \in BOOLEAN
  BY DEF watch
<1>1. ASSUME NEW src \in CTE, NEW dst \in CTE, cap_move(src, dst), UNCHANGED channels, watch
      PROVE  TypeInv'
  BY <1>0, <1>1, <1>s, MoveKeepsTypes, TypesTogether
<1>2. ASSUME NEW c \in CTE, cap_delete(c), channels' = cap_delete_socket(channels, c), watch
      PROVE  TypeInv'
  BY <1>0, <1>2, <1>s, DeleteKeepsTypes, DeleteSocketTyped, TypesTogether
<1>3. ASSUME NEW parent \in CTE, watch,
             \/ cap_revoke_time(parent) \/ cap_revoke_memory(parent) \/ cap_revoke_monitor(parent)
             \/ cap_revoke_channel(parent) \/ cap_revoke_socket(parent)
      PROVE  TypeInv'
  <2>1. TableTypes' /\ ChannelsOk(channels')
    BY <1>0, <1>3, RevokeTimeKeepsTypes, RevokeMemoryKeepsTypes, RevokeMonitorKeepsTypes,
       RevokeChannelKeepsTypes, RevokeSocketKeepsTypes
  <2> QED
    BY <1>3, <1>s, <2>1, TypesTogether
<1>4. ASSUME NEW src \in CTE, NEW dst \in CTE, NEW new \in Requests,
             cap_derive(src, dst, new), watch
      PROVE  TypeInv'
  BY <1>0, <1>4, <1>s, DeriveKeepsTypes, TypesTogether
<1>5. ASSUME NEW c \in CTE, NEW slot \in PmpSlots, cap_pmp_load(c, slot), watch
      PROVE  TypeInv'
  BY <1>0, <1>5, <1>s, LoadKeepsTypes, TypesTogether
<1>6. ASSUME NEW c \in CTE, cap_pmp_unload(c), watch
      PROVE  TypeInv'
  BY <1>0, <1>6, <1>s, UnloadKeepsTypes, TypesTogether
<1>7. ASSUME NEW sock \in CTE, NEW buf \in CTE, NEW send_cap \in BOOLEAN, watch,
             \/ cap_sock_send(sock, buf, send_cap) \/ cap_sock_recv(sock, buf)
             \/ cap_sock_sendrecv(sock, buf, send_cap)
      PROVE  TypeInv'
  <2>1. TableTypes' /\ ChannelsOk(channels')
    BY <1>7, SockSendKeepsTypes, SockRecvKeepsTypes, SockSendrecvKeepsTypes
  <2> QED
    BY <1>7, <1>s, <2>1, TypesTogether
<1>8. CASE UNCHANGED vars
  BY <1>8 DEF vars, TypeInv, TypeOK, AllBounded, ReceiverHasBuffer
<1>9. \A c \in Live : c \in CTE /\ \A d \in Own(c) : d \in CTE
  BY SlotsNamed
<1> QED
  BY <1>1, <1>2, <1>3, <1>4, <1>5, <1>6, <1>7, <1>8, <1>9, Zenon DEF Next

\* For every boot table, every number of processes, capabilities, channels and
\* slots and every sequence of calls: the links of the table stay within it,
\* every slot of the schedule has a length that fits its field, every
\* capability in use names a PMP register.
THEOREM TypeCorrect == Spec => []TypeOK
<1>1. TypeInv /\ [Next]_vars => TypeInv'
  BY TypeStep
<1>2. TypeInv => TypeOK
  BY DEF TypeInv
<1> QED
  BY TypeInit, <1>1, <1>2, PTL DEF Spec

\* do_send never moves a capability through a null pointer: whenever a channel
\* has a registered server or client, it has a buffer in the table.
THEOREM BufferSafety == Spec => []ReceiverHasBuffer
<1>1. TypeInv /\ [Next]_vars => TypeInv'
  BY TypeStep
<1>2. TypeInv => ReceiverHasBuffer
  BY DEF TypeInv
<1> QED
  BY TypeInit, <1>1, <1>2, PTL DEF Spec

-----------------------------------------------------------------------------
(* The PMP table.  With the types, PmpMatches is inductive: a step leaves  *)
(* the capabilities in use alone, takes one out of use together with its   *)
(* entry, puts one into use in a free slot, or moves one within its        *)
(* process.                                                                *)

InUse(x) == cap[x].type = "pmp" /\ cap[x].used

\* The step leaves the use of x as it is.
UseKept(x) == (InUse(x)' <=> InUse(x)) /\ (InUse(x) => cap'[x] = cap[x])

LEMMA RegionOn == \A c : Region(c).on
BY DEF Region

\* PmpMatches after a step, from its three parts.
LEMMA MatchesParts ==
  ASSUME \A x \in CTE : InUse(x)' => pmp'[cte_pid(x)][cap'[x].slot] = Region(cap'[x]),
         \A q \in Pids, t \in PmpSlots : pmp'[q][t].on =>
           \E x \in CTE : cte_pid(x) = q /\ InUse(x)' /\ cap'[x].slot = t,
         \A x, y \in CTE : InUse(x)' /\ InUse(y)' /\ cte_pid(x) = cte_pid(y)
                             /\ cap'[x].slot = cap'[y].slot => x = y
  PROVE  PmpMatches'
BY DEF PmpMatches, InUse

-----------------------------------------------------------------------------
(* The four kinds of steps.                                                *)

LEMMA KeptMatches ==
  ASSUME PmpMatches, pmp' = pmp, \A x \in CTE : UseKept(x)
  PROVE  PmpMatches'
BY DEF PmpMatches, UseKept, InUse

LEMMA RemovedMatches ==
  ASSUME TypeOK, PmpMatches, NEW c \in CTE, InUse(c),
         pmp' = proc_pmp_unload(cte_pid(c), cap[c].slot),
         ~InUse(c)', \A x \in CTE \ {c} : UseKept(x)
  PROVE  PmpMatches'
<1> DEFINE p == cte_pid(c)
           s == cap[c].slot
<1>1. p \in Pids /\ s \in PmpSlots
  BY CteTyped, CapVariant DEF TypeOK, InUse, PmpCap
<1>2. pmp'[p][s] = NoPmp /\ ~pmp'[p][s].on
  BY <1>1 DEF TypeOK, proc_pmp_unload, NoPmp
<1>3. \A q \in Pids, t \in PmpSlots : q # p \/ t # s => pmp'[q][t] = pmp[q][t]
  BY <1>1 DEF TypeOK, proc_pmp_unload
<1>4. \A x \in CTE : InUse(x)' => /\ x # c /\ InUse(x) /\ cap'[x] = cap[x]
                                  /\ cte_pid(x) \in Pids /\ cap[x].slot \in PmpSlots
                                  /\ cte_pid(x) # p \/ cap[x].slot # s
  BY CteTyped, CapVariant DEF TypeOK, InUse, UseKept, PmpMatches, PmpCap
<1>5. \A x \in CTE : cap[x].type = "pmp" /\ cap[x].used /\ x # c => InUse(x)' /\ cap'[x] = cap[x]
  BY DEF UseKept, InUse
<1>6. \A x \in CTE : InUse(x)' =>
        pmp'[cte_pid(x)][cap'[x].slot] = Region(cap'[x])
  BY <1>3, <1>4 DEF PmpMatches, InUse
<1>7. \A q \in Pids, t \in PmpSlots : pmp'[q][t].on =>
        \E x \in CTE : cte_pid(x) = q /\ InUse(x)' /\ cap'[x].slot = t
  <2> SUFFICES ASSUME NEW q \in Pids, NEW t \in PmpSlots, pmp'[q][t].on
               PROVE  \E x \in CTE : cte_pid(x) = q /\ InUse(x)' /\ cap'[x].slot = t
    OBVIOUS
  <2>1. (q # p \/ t # s) /\ pmp[q][t].on
    BY <1>2, <1>3
  <2>2. PICK x \in CTE : cte_pid(x) = q /\ cap[x].type = "pmp" /\ cap[x].used /\ cap[x].slot = t
    BY <2>1 DEF PmpMatches
  <2> QED
    BY <1>5, <2>1, <2>2
<1>8. \A x, y \in CTE : InUse(x)' /\ InUse(y)' /\ cte_pid(x) = cte_pid(y)
                          /\ cap'[x].slot = cap'[y].slot => x = y
  BY <1>4 DEF PmpMatches, InUse
<1> QED
  BY <1>6, <1>7, <1>8, MatchesParts

LEMMA LoadedMatches ==
  ASSUME TypeOK, PmpMatches, NEW c \in CTE, NEW slot \in PmpSlots, cap_pmp_load(c, slot)
  PROVE  PmpMatches'
<1> DEFINE p == cte_pid(c)
<1>1. p \in Pids /\ cap[c] \in PmpCap /\ ~InUse(c)
  BY CteTyped, CapVariant DEF TypeOK, InUse, cap_pmp_load
<1>2. /\ cap'[c].type = "pmp" /\ cap'[c].used /\ cap'[c].slot = slot
      /\ cap'[c].rwx = cap[c].rwx /\ cap'[c].base = cap[c].base /\ cap'[c].size = cap[c].size
  BY <1>1 DEF TypeOK, cap_pmp_load, PmpCap
<1>3. pmp'[p][slot] = Region(cap[c]) /\ ~pmp[p][slot].on
  BY <1>1 DEF TypeOK, cap_pmp_load, proc_pmp_load
<1>4. \A q \in Pids, t \in PmpSlots : q # p \/ t # slot => pmp'[q][t] = pmp[q][t]
  BY <1>1 DEF TypeOK, cap_pmp_load, proc_pmp_load
<1>5. \A x \in CTE : x # c => cap'[x] = cap[x]
  BY DEF TypeOK, cap_pmp_load
<1>6. \A x \in CTE : x # c /\ InUse(x) => /\ cte_pid(x) \in Pids /\ cap[x].slot \in PmpSlots
                                          /\ cte_pid(x) # p \/ cap[x].slot # slot
  <2>1. \A x \in CTE : InUse(x) => cte_pid(x) \in Pids /\ cap[x].slot \in PmpSlots
    BY CteTyped, CapVariant DEF TypeOK, InUse, PmpCap
  <2>2. \A x \in CTE : InUse(x) => pmp[cte_pid(x)][cap[x].slot].on
    BY RegionOn DEF PmpMatches, InUse
  <2> QED
    BY <1>3, <2>1, <2>2
<1>7. \A x \in CTE : InUse(x)' =>
        pmp'[cte_pid(x)][cap'[x].slot] = Region(cap'[x])
  <2> SUFFICES ASSUME NEW x \in CTE, InUse(x)'
               PROVE  pmp'[cte_pid(x)][cap'[x].slot] = Region(cap'[x])
    OBVIOUS
  <2>1. CASE x = c
    BY <1>2, <1>3, <2>1 DEF Region
  <2>2. CASE x # c
    <3>1. InUse(x) /\ cap'[x] = cap[x]
      BY <1>5, <2>2 DEF InUse
    <3> QED
      BY <1>4, <1>6, <2>2, <3>1 DEF PmpMatches, InUse
  <2> QED
    BY <2>1, <2>2
<1>8. \A q \in Pids, t \in PmpSlots : pmp'[q][t].on =>
        \E x \in CTE : cte_pid(x) = q /\ InUse(x)' /\ cap'[x].slot = t
  <2> SUFFICES ASSUME NEW q \in Pids, NEW t \in PmpSlots, pmp'[q][t].on
               PROVE  \E x \in CTE : cte_pid(x) = q /\ InUse(x)' /\ cap'[x].slot = t
    OBVIOUS
  <2>1. CASE q = p /\ t = slot
    BY <1>2, <2>1 DEF InUse
  <2>2. CASE q # p \/ t # slot
    <3>1. PICK x \in CTE : cte_pid(x) = q /\ cap[x].type = "pmp" /\ cap[x].used /\ cap[x].slot = t
      BY <1>4, <2>2 DEF PmpMatches
    <3>2. x # c
      BY <1>1, <3>1 DEF InUse
    <3> QED
      BY <1>5, <3>1, <3>2 DEF InUse
  <2> QED
    BY <2>1, <2>2
<1>9. \A x, y \in CTE : InUse(x)' /\ InUse(y)' /\ cte_pid(x) = cte_pid(y)
                          /\ cap'[x].slot = cap'[y].slot => x = y
  BY <1>2, <1>5, <1>6 DEF PmpMatches, InUse
<1> QED
  BY <1>7, <1>8, <1>9, MatchesParts

\* A capability that moves within its process takes its use along.
LEMMA MovedMatches ==
  ASSUME TypeOK, PmpMatches, NEW src \in CTE, NEW dst \in CTE,
         cte_pid(src) = cte_pid(dst), ~InUse(dst), src # dst,
         cap' = [cap EXCEPT ![src] = NoCap, ![dst] = cap[src]], pmp' = pmp
  PROVE  PmpMatches'
<1>1. /\ cap'[src] = NoCap /\ cap'[dst] = cap[src]
      /\ \A x \in CTE : x # src /\ x # dst => cap'[x] = cap[x]
  BY DEF TypeOK
<1>2. ~InUse(src)'
  BY <1>1, NoCapTyped DEF InUse
<1>3. \A x \in CTE : InUse(x)' => /\ x # src
                                  /\ cap'[x] = IF x = dst THEN cap[src] ELSE cap[x]
                                  /\ InUse(IF x = dst THEN src ELSE x)
  BY <1>1, <1>2 DEF InUse
<1>4. \A x \in CTE : InUse(x) => /\ x # dst
                                 /\ InUse(IF x = src THEN dst ELSE x)'
                                 /\ cap'[IF x = src THEN dst ELSE x] = cap[x]
  BY <1>1 DEF InUse
<1>5. \A x \in CTE : InUse(x)' => pmp'[cte_pid(x)][cap'[x].slot] = Region(cap'[x])
  <2> SUFFICES ASSUME NEW x \in CTE, InUse(x)'
               PROVE  pmp'[cte_pid(x)][cap'[x].slot] = Region(cap'[x])
    OBVIOUS
  <2>1. PICK z \in CTE : InUse(z) /\ cte_pid(z) = cte_pid(x) /\ cap'[x] = cap[z]
    BY <1>3
  <2>2. pmp[cte_pid(z)][cap[z].slot] = Region(cap[z])
    BY <2>1 DEF PmpMatches, InUse
  <2> QED
    BY <2>1, <2>2
<1>6. \A q \in Pids, t \in PmpSlots : pmp'[q][t].on =>
        \E x \in CTE : cte_pid(x) = q /\ InUse(x)' /\ cap'[x].slot = t
  <2> SUFFICES ASSUME NEW q \in Pids, NEW t \in PmpSlots, pmp'[q][t].on
               PROVE  \E x \in CTE : cte_pid(x) = q /\ InUse(x)' /\ cap'[x].slot = t
    OBVIOUS
  <2>1. PICK x \in CTE : cte_pid(x) = q /\ InUse(x) /\ cap[x].slot = t
    BY DEF PmpMatches, InUse
  <2> DEFINE y == IF x = src THEN dst ELSE x
  <2>2. y \in CTE /\ cte_pid(y) = q /\ InUse(y)' /\ cap'[y].slot = t
    BY <1>4, <2>1
  <2> QED
    BY <2>2
<1>7. \A x, y \in CTE : InUse(x)' /\ InUse(y)' /\ cte_pid(x) = cte_pid(y)
                          /\ cap'[x].slot = cap'[y].slot => x = y
  <2>1. \A w, z \in CTE : InUse(w) /\ InUse(z) /\ cte_pid(w) = cte_pid(z)
                            /\ cap[w].slot = cap[z].slot => w = z
    BY DEF PmpMatches, InUse
  <2> SUFFICES ASSUME NEW x \in CTE, NEW y \in CTE, InUse(x)', InUse(y)',
                      cte_pid(x) = cte_pid(y), cap'[x].slot = cap'[y].slot
               PROVE  x = y
    OBVIOUS
  <2> DEFINE w == IF x = dst THEN src ELSE x
             z == IF y = dst THEN src ELSE y
  <2>2. /\ w \in CTE /\ z \in CTE /\ InUse(w) /\ InUse(z) /\ cte_pid(w) = cte_pid(z)
        /\ cap[w].slot = cap[z].slot
    BY <1>3
  <2>3. w = z /\ x # src /\ y # src
    BY <1>2, <2>1, <2>2
  <2> QED
    BY <2>3
<1> QED
  BY <1>5, <1>6, <1>7, MatchesParts

-----------------------------------------------------------------------------
(* Every operation takes one of these steps.                               *)

\* A write that touches no capability in use, and puts none into use.
LEMMA QuietWrite ==
  ASSUME TypeOK, PmpMatches, NEW x \in CTE, NEW y \in CTE, NEW u, NEW v,
         ~InUse(x), ~InUse(y), ~(u.type = "pmp" /\ u.used), ~(v.type = "pmp" /\ v.used),
         cap' = [cap EXCEPT ![x] = u, ![y] = v], pmp' = pmp
  PROVE  PmpMatches'
<1>1. \A z \in CTE : UseKept(z)
  BY DEF TypeOK, UseKept, InUse
<1> QED
  BY <1>1, KeptMatches

\* Deleting a capability and unloading it where it is in use, while a
\* capability of another type (or the same slot) is written.
LEMMA RemoveWrite ==
  ASSUME TypeOK, PmpMatches, NEW c \in CTE,
         cap' = [cap EXCEPT ![c] = NoCap],
         pmp' = IF cap[c].type = "pmp" THEN pmp_clear(cte_pid(c), cap[c]) ELSE pmp
  PROVE  PmpMatches'
<1>1. /\ ~InUse(c)' /\ \A x \in CTE \ {c} : UseKept(x)
  BY NoCapTyped DEF TypeOK, UseKept, InUse
<1>2. CASE InUse(c)
  <2>1. pmp' = proc_pmp_unload(cte_pid(c), cap[c].slot)
    BY <1>2 DEF InUse, pmp_clear
  <2> QED
    BY <1>1, <1>2, <2>1, RemovedMatches
<1>3. CASE ~InUse(c)
  <2>1. pmp' = pmp
    BY <1>3 DEF InUse, pmp_clear
  <2>2. \A x \in CTE : UseKept(x)
    BY <1>1, <1>3 DEF UseKept
  <2> QED
    BY <2>1, <2>2, KeptMatches
<1> QED
  BY <1>2, <1>3

LEMMA MoveMatches ==
  ASSUME TypeOK, PmpMatches, NEW src \in CTE, NEW dst \in CTE, cap_move(src, dst)
  PROVE  PmpMatches'
<1> DEFINE c == cap[src]
<1>0. cap[src].type # "none" /\ cap[dst].type = "none" /\ src # dst /\ ~InUse(dst)
  BY DEF cap_move, cte_is_empty, InUse
<1>1. CASE cte_pid(src) = cte_pid(dst)
  <2>1. cap' = [cap EXCEPT ![src] = NoCap, ![dst] = cap[src]] /\ pmp' = pmp
    BY <1>1 DEF cap_move
  <2> QED
    BY <1>0, <1>1, <2>1, MovedMatches
<1>2. CASE cte_pid(src) # cte_pid(dst) /\ c.type = "pmp"
  <2> DEFINE d == [c EXCEPT !.used = FALSE, !.slot = IF c.used THEN 0 ELSE c.slot]
  <2>1. /\ pmp' = pmp_clear(cte_pid(src), c)
        /\ cap' = [cap EXCEPT ![src] = NoCap, ![dst] = d]
    BY <1>2 DEF cap_move, cap_ipc_move_hook
  <2>2. c \in PmpCap
    BY <1>2, CapVariant DEF TypeOK
  <2>3. ~d.used
    BY <2>2 DEF PmpCap
  <2> HIDE DEF d
  <2>4. ~InUse(src)' /\ \A x \in CTE \ {src} : UseKept(x)
    BY <1>0, <2>1, <2>3, NoCapTyped DEF TypeOK, UseKept, InUse
  <2>5. CASE InUse(src)
    <3>1. pmp' = proc_pmp_unload(cte_pid(src), cap[src].slot)
      BY <2>1, <2>5 DEF InUse, pmp_clear
    <3> QED
      BY <2>4, <2>5, <3>1, RemovedMatches
  <2>6. CASE ~InUse(src)
    <3>1. pmp' = pmp
      BY <1>2, <2>1, <2>6 DEF InUse, pmp_clear
    <3>2. \A x \in CTE : UseKept(x)
      BY <2>4, <2>6 DEF UseKept
    <3> QED
      BY <3>1, <3>2, KeptMatches
  <2> QED
    BY <2>5, <2>6
<1>3. CASE cte_pid(src) # cte_pid(dst) /\ c.type # "pmp"
  <2>1. cap' = [cap EXCEPT ![src] = NoCap, ![dst] = c] /\ pmp' = pmp
    BY <1>3 DEF cap_move, cap_ipc_move_hook
  <2> QED
    BY <1>0, <1>3, <2>1, NoCapTyped, QuietWrite DEF InUse
<1> QED
  BY <1>1, <1>2, <1>3

LEMMA RevokeMatches ==
  ASSUME TypeOK, PmpMatches, NEW parent \in CTE,
         \/ cap_revoke_time(parent) \/ cap_revoke_memory(parent) \/ cap_revoke_monitor(parent)
         \/ cap_revoke_channel(parent) \/ cap_revoke_socket(parent)
  PROVE  PmpMatches'
<1> DEFINE p == cap[parent]
           child == next[parent]
           c == cap[child]
<1>0. p \in Cap /\ c \in Cap /\ child \in CTE
  BY DEF TypeOK
<1>1. ASSUME NEW q, absorb(parent, child, q), c.type # "pmp", p.type # "pmp", q.type # "pmp",
             pmp' = pmp
      PROVE  PmpMatches'
  BY <1>0, <1>1, NoCapTyped, QuietWrite DEF absorb, InUse
<1>2. ASSUME NEW q, reset(parent, q), p.type # "pmp", q.type # "pmp", pmp' = pmp
      PROVE  PmpMatches'
  <2>1. \A z \in CTE : UseKept(z)
    BY <1>2 DEF TypeOK, UseKept, InUse, reset
  <2> QED
    BY <1>2, <2>1, KeptMatches
<1>3. ASSUME drop(child), c.type = "sock" \/ c.type = "pmp",
             pmp' = IF c.type = "pmp" THEN pmp_clear(cte_pid(child), c) ELSE pmp
      PROVE  PmpMatches'
  BY <1>0, <1>3, RemoveWrite DEF drop
<1>4. CASE cap_revoke_time(parent)
  <2>1. p \in TimeCap
    BY <1>0, <1>4, CapVariant DEF cap_revoke_time
  <2>2. \A m : [p EXCEPT !.mrk = m].type # "pmp" /\ p.type # "pmp"
    BY <2>1 DEF TimeCap
  <2> QED
    BY <1>1, <1>2, <1>4, <2>2 DEF cap_revoke_time, time_child
<1>5. CASE cap_revoke_memory(parent)
  <2>1. p \in MemCap
    BY <1>0, <1>5, CapVariant DEF cap_revoke_memory
  <2>2. \A m, l : [p EXCEPT !.mrk = m, !.lck = l].type # "pmp" /\ p.type # "pmp"
    BY <2>1 DEF MemCap
  <2> QED
    BY <1>1, <1>2, <1>3, <1>5, <2>2 DEF cap_revoke_memory, memory_child, pmp_child
<1>6. CASE cap_revoke_monitor(parent)
  <2>1. p \in MonCap
    BY <1>0, <1>6, CapVariant DEF cap_revoke_monitor
  <2>2. \A m : [p EXCEPT !.mrk = m].type # "pmp" /\ p.type # "pmp"
    BY <2>1 DEF MonCap
  <2> QED
    BY <1>1, <1>2, <1>6, <2>2 DEF cap_revoke_monitor, monitor_child
<1>7. CASE cap_revoke_channel(parent)
  <2>1. p \in ChanCap
    BY <1>0, <1>7, CapVariant DEF cap_revoke_channel
  <2>2. \A m : [p EXCEPT !.mrk = m].type # "pmp" /\ p.type # "pmp"
    BY <2>1 DEF ChanCap
  <2> QED
    BY <1>1, <1>2, <1>3, <1>7, <2>2 DEF cap_revoke_channel, channel_child, chan_sock_child
<1>8. CASE cap_revoke_socket(parent)
  BY <1>3, <1>8 DEF cap_revoke_socket, socket_child
<1> QED
  BY <1>4, <1>5, <1>6, <1>7, <1>8

LEMMA DeleteMatches ==
  ASSUME TypeOK, PmpMatches, NEW c \in CTE, cap_delete(c)
  PROVE  PmpMatches'
BY RemoveWrite DEF cap_delete

\* A derived PMP capability starts out of use.
LEMMA DeriveMatches ==
  ASSUME TypeOK, PmpMatches, NEW src \in CTE, NEW dst \in CTE, NEW new \in Requests,
         cap_derive(src, dst, new)
  PROVE  PmpMatches'
<1> DEFINE s == cap[src]
<1>0. s \in Cap /\ new \in Cap /\ pmp' = pmp /\ ~InUse(dst)
  BY RequestsAssumption DEF TypeOK, cap_derive, cte_is_empty, InUse
<1>1. ~(new.type = "pmp" /\ new.used)
  BY DEF cap_derive, cap_is_valid
<1>2. ASSUME NEW t, t.type # "pmp", s.type # "pmp", derive_into(src, t, dst, new)
      PROVE  PmpMatches'
  <2>1. ~InUse(src) /\ ~(t.type = "pmp" /\ t.used)
    BY <1>2 DEF InUse
  <2>2. cap' = [cap EXCEPT ![src] = t, ![dst] = new]
    BY <1>2 DEF derive_into
  <2> QED
    BY <1>0, <1>1, <2>1, <2>2, QuietWrite
<1>3. CASE cap_derive_time(src, dst, new)
  <2>1. s \in TimeCap
    BY <1>0, <1>3, CapVariant DEF cap_derive_time
  <2>2. [s EXCEPT !.mrk = new.end].type # "pmp" /\ s.type # "pmp"
    BY <2>1 DEF TimeCap
  <2> QED
    BY <1>2, <1>3, <2>2 DEF cap_derive_time
<1>4. CASE cap_derive_memory(src, dst, new)
  <2>1. s \in MemCap
    BY <1>0, <1>4, CapVariant DEF cap_derive_memory
  <2>2. /\ [s EXCEPT !.mrk = new.end].type # "pmp" /\ s.type # "pmp"
        /\ [s EXCEPT !.lck = TRUE].type # "pmp"
    BY <2>1 DEF MemCap
  <2> QED
    BY <1>2, <1>4, <2>2 DEF cap_derive_memory
<1>5. CASE cap_derive_monitor(src, dst, new)
  <2>1. s \in MonCap
    BY <1>0, <1>5, CapVariant DEF cap_derive_monitor
  <2>2. [s EXCEPT !.mrk = new.end].type # "pmp" /\ s.type # "pmp"
    BY <2>1 DEF MonCap
  <2> QED
    BY <1>2, <1>5, <2>2 DEF cap_derive_monitor
<1>6. CASE cap_derive_channel(src, dst, new)
  <2>1. s \in ChanCap
    BY <1>0, <1>6, CapVariant DEF cap_derive_channel
  <2>2. \A m : [s EXCEPT !.mrk = m].type # "pmp" /\ s.type # "pmp"
    BY <2>1 DEF ChanCap
  <2> QED
    BY <1>2, <1>6, <2>2 DEF cap_derive_channel
<1>7. CASE cap_derive_socket(src, dst, new)
  BY <1>2, <1>7 DEF cap_derive_socket
<1> QED
  BY <1>3, <1>4, <1>5, <1>6, <1>7 DEF cap_derive

LEMMA UnloadMatches ==
  ASSUME TypeOK, PmpMatches, NEW c \in CTE, cap_pmp_unload(c)
  PROVE  PmpMatches'
<1>1. cap[c] \in PmpCap /\ InUse(c) /\ pmp' = proc_pmp_unload(cte_pid(c), cap[c].slot)
  BY CapVariant DEF TypeOK, cap_pmp_unload, InUse
<1>2. ~InUse(c)' /\ \A x \in CTE \ {c} : UseKept(x)
  BY <1>1 DEF TypeOK, cap_pmp_unload, InUse, UseKept, PmpCap
<1> QED
  BY <1>1, <1>2, RemovedMatches

\* A message moves a capability from one table slot to another, or none.
LEMMA SendMatches ==
  ASSUME TypeInv, PmpMatches, NEW s, s.chan \in Chans, NEW buf \in CTE, NEW send_cap,
         do_send(s, buf, send_cap)
  PROVE  PmpMatches'
<1> DEFINE dst == channels[s.chan].cap_buf
<1>1. channels[s.chan].server # NULL \/ channels[s.chan].client # NULL
  BY DEF do_send, receiver
<1>2. dst \in CTE /\ TypeOK
  BY <1>1 DEF TypeInv, TypeOK, ReceiverHasBuffer, Channel
<1>3. cap_move(buf, dst) \/ UNCHANGED capVars
  BY DEF do_send
<1> HIDE DEF dst
<1>4. UNCHANGED capVars => PmpMatches'
  BY DEF capVars, PmpMatches
<1> QED
  BY <1>2, <1>3, <1>4, MoveMatches

LEMMA SocketMatches ==
  ASSUME TypeInv, PmpMatches, NEW sock \in CTE, NEW buf \in CTE, NEW send_cap,
         \/ cap_sock_send(sock, buf, send_cap) \/ cap_sock_recv(sock, buf)
         \/ cap_sock_sendrecv(sock, buf, send_cap)
  PROVE  PmpMatches'
<1>1. /\ cap[sock].type = "sock"
      /\ do_send(cap[sock], buf, send_cap) \/ cap_delete(buf) \/ UNCHANGED capVars
  BY DEF cap_sock_send, cap_sock_recv, cap_sock_sendrecv
<1>2. TypeOK /\ cap[sock].chan \in Chans
  BY <1>1, SocketChannel DEF TypeInv
<1>3. UNCHANGED capVars => PmpMatches'
  BY DEF capVars, PmpMatches
<1> QED
  BY <1>1, <1>2, <1>3, SendMatches, DeleteMatches

-----------------------------------------------------------------------------
(* The theorem.                                                            *)

\* proc_init loads capability 0 of process 0, and no other is in use.
LEMMA PmpInit == Init => PmpMatches
<1> SUFFICES ASSUME Init PROVE PmpMatches
  OBVIOUS
<1> PICK init_caps \in Platforms : boot(init_caps, Len(init_caps))
  BY DEF Init
<1> DEFINE first == [init_caps[1] EXCEPT !.used = TRUE, !.slot = 0]
<1>1. init_caps[1] \in PmpCap /\ 0 \in Pids /\ 0 \in PmpSlots /\ ctable0 \in CTE
  BY PlatformsAssumption, CountsAssumption DEF Pids, PmpSlots, ctable0, BootSlot, CTE
<1>2. first.type = "pmp" /\ first.used /\ first.slot = 0 /\ Region(first) = Region(init_caps[1])
  BY <1>1 DEF PmpCap, Region
<1>3. cap[ctable0] = first /\ cte_pid(ctable0) = 0
  BY <1>1 DEF boot, ctable0, BootSlot, cte_pid
<1>4. \A c \in CTE : c # ctable0 => ~InUse(c)
  <2> SUFFICES ASSUME NEW c \in CTE, c # ctable0 PROVE ~InUse(c)
    OBVIOUS
  <2>1. CASE IsBoot(Len(init_caps), c)
    <3>1. cap[c] = init_caps[BootIndex(c)]
      BY <2>1 DEF boot
    <3>2. cap_is_valid(init_caps[BootIndex(c)])
      BY <2>1, PlatformsAssumption DEF IsBoot
    <3> QED
      BY <3>1, <3>2 DEF cap_is_valid, InUse
  <2>2. CASE ~IsBoot(Len(init_caps), c)
    BY <2>2, NoCapTyped DEF boot, InUse
  <2> QED
    BY <2>1, <2>2
<1>5. /\ pmp[0][0] = Region(init_caps[1])
      /\ \A p \in Pids, s \in PmpSlots : p # 0 \/ s # 0 => pmp[p][s] = NoPmp
  BY <1>1 DEF boot
<1>6. \A p \in Pids, s \in PmpSlots : pmp[p][s].on => p = 0 /\ s = 0
  BY <1>5 DEF NoPmp
<1> HIDE DEF first
<1>7. \A c \in CTE : InUse(c) =>
        c = ctable0 /\ pmp[cte_pid(c)][cap[c].slot] = Region(cap[c])
  BY <1>2, <1>3, <1>4, <1>5
<1>8. \A p \in Pids, s \in PmpSlots : pmp[p][s].on =>
        cte_pid(ctable0) = p /\ InUse(ctable0) /\ cap[ctable0].slot = s
  BY <1>2, <1>3, <1>6 DEF InUse
<1> QED
  BY <1>1, <1>7, <1>8 DEF PmpMatches, InUse

LEMMA PmpStep ==
  ASSUME TypeInv, PmpMatches, [Next]_vars
  PROVE  PmpMatches'
<1>0. TypeOK
  BY DEF TypeInv
<1>1. ASSUME NEW src \in CTE, NEW dst \in CTE, cap_move(src, dst)
      PROVE  PmpMatches'
  BY <1>0, <1>1, MoveMatches
<1>2. ASSUME NEW c \in CTE, cap_delete(c)
      PROVE  PmpMatches'
  BY <1>0, <1>2, DeleteMatches
<1>3. ASSUME NEW parent \in CTE,
             \/ cap_revoke_time(parent) \/ cap_revoke_memory(parent) \/ cap_revoke_monitor(parent)
             \/ cap_revoke_channel(parent) \/ cap_revoke_socket(parent)
      PROVE  PmpMatches'
  BY <1>0, <1>3, RevokeMatches
<1>4. ASSUME NEW src \in CTE, NEW dst \in CTE, NEW new \in Requests, cap_derive(src, dst, new)
      PROVE  PmpMatches'
  BY <1>0, <1>4, DeriveMatches
<1>5. ASSUME NEW c \in CTE, NEW slot \in PmpSlots, cap_pmp_load(c, slot)
      PROVE  PmpMatches'
  BY <1>0, <1>5, LoadedMatches
<1>6. ASSUME NEW c \in CTE, cap_pmp_unload(c)
      PROVE  PmpMatches'
  BY <1>0, <1>6, UnloadMatches
<1>7. ASSUME NEW sock \in CTE, NEW buf \in CTE, NEW send_cap \in BOOLEAN,
             \/ cap_sock_send(sock, buf, send_cap) \/ cap_sock_recv(sock, buf)
             \/ cap_sock_sendrecv(sock, buf, send_cap)
      PROVE  PmpMatches'
  BY <1>7, SocketMatches
<1>8. CASE UNCHANGED vars
  BY <1>8 DEF vars, PmpMatches
<1>9. \A c \in Live : c \in CTE /\ \A d \in Own(c) : d \in CTE
  BY SlotsNamed
<1> QED
  BY <1>1, <1>2, <1>3, <1>4, <1>5, <1>6, <1>7, <1>8, <1>9, Zenon DEF Next

\* For every platform and every sequence of calls, moves between processes,
\* messages and revocations that unload a region among them: a process has
\* access to the regions of the PMP capabilities it has in use and no others.
THEOREM PmpCorrect == Spec => []PmpMatches
<1>1. Init => TypeInv /\ PmpMatches
  BY TypeInit, PmpInit
<1>2. TypeInv /\ PmpMatches /\ [Next]_vars => (TypeInv /\ PmpMatches)'
  BY TypeStep, PmpStep
<1> QED
  BY <1>1, <1>2, PTL DEF Spec
=============================================================================
