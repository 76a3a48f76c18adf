----------------------------- MODULE SchedProofs -----------------------------
(***************************************************************************)
(* Slices stay whole and a process runs in its own slots, for every number *)
(* of harts, slots and processes and every sequence of table updates.      *)
(***************************************************************************)
EXTENDS Sched, TLAPS

USE SchedAssumption

SlotTable == [Slots -> [pid : Pids, length : 0..SLOT_CNT]]

\* The slot a hart computed and the one it fetches in differ by the delay.
LEMMA LateSlot ==
  ASSUME NEW n \in Slots, NEW l \in 0..SLOT_CNT,
         ((n - l) % SLOT_CNT) + l < SLOT_CNT
  PROVE  /\ (n - l) % SLOT_CNT \in Slots
         /\ ((n - l) % SLOT_CNT) + l = n
BY DEF Slots

LEMMA NextSlot ==
  ASSUME NEW n \in Slots
  PROVE  /\ (n + 1) % SLOT_CNT \in Slots
         /\ n + 1 < SLOT_CNT => (n + 1) % SLOT_CNT = n + 1
BY DEF Slots

-----------------------------------------------------------------------------
(* The table.                                                              *)

\* SlicesWhole for one hart's table.
Whole(t) ==
  \A i, k \in Slots : k < t[i].length =>
    /\ i + k \in Slots
    /\ t[i + k] = [pid |-> t[i].pid, length |-> t[i].length - k]

LEMMA UpdateWhole ==
  ASSUME NEW t \in SlotTable, Whole(t),
         NEW pid \in Pids, NEW from \in Slots, NEW to \in 1..SLOT_CNT, from < to,
         NEW end \in to..SLOT_CNT,
         \A i \in Slots : i < from => i + t[i].length <= from,
         to # end => t[to] = [pid |-> pid, length |-> end - to],
         NEW u, u = [i \in Slots |-> IF from <= i /\ i < to
                                     THEN [pid |-> pid, length |-> end - i] ELSE t[i]]
  PROVE  u \in SlotTable /\ Whole(u)
<1>1. u \in SlotTable
  BY DEF SlotTable, Slots
<1>2. SUFFICES ASSUME NEW i \in Slots, NEW k \in Slots, k < u[i].length
               PROVE  /\ i + k \in Slots
                      /\ u[i + k] = [pid |-> u[i].pid, length |-> u[i].length - k]
  BY <1>1 DEF Whole
<1>3. CASE i < from
  <2>1. u[i] = t[i] /\ t[i].length \in 0..SLOT_CNT
    BY <1>3 DEF SlotTable, Slots
  <2>2. i + k < from
    BY <1>2, <1>3, <2>1 DEF Slots
  <2> QED BY <1>2, <2>1, <2>2 DEF Whole, Slots
<1>4. CASE from <= i /\ i < to
  <2>0. u[i] = [pid |-> pid, length |-> end - i]
    BY <1>4
  <2>1. u[i].pid = pid /\ u[i].length = end - i
    BY <2>0
  <2>2. i + k < end /\ i + k \in Slots
    <3>1. k < end - i
      BY <1>2, <2>1
    <3> QED BY <3>1 DEF Slots
  <2>3. CASE i + k < to
    BY <1>4, <2>1, <2>2, <2>3 DEF Slots
  <2>4. CASE to <= i + k
    <3>1. to \in Slots /\ t[to] = [pid |-> pid, length |-> end - to] /\ i + k - to \in Slots
      BY <2>2, <2>4 DEF Slots
    <3>2. t[to + (i + k - to)] = [pid |-> pid, length |-> (end - to) - (i + k - to)]
      <4>1. t[to].pid = pid /\ t[to].length = end - to
        BY <3>1
      <4>2. i + k - to < t[to].length
        BY <2>2, <4>1 DEF Slots
      <4> QED BY <3>1, <4>1, <4>2 DEF Whole
    <3>3. to + (i + k - to) = i + k /\ (end - to) - (i + k - to) = end - i - k
      BY DEF Slots
    <3>4. u[i + k] = t[i + k]
      BY <2>2, <2>4 DEF Slots
    <3> QED BY <2>1, <2>2, <3>2, <3>3, <3>4
  <2> QED BY <2>2, <2>3, <2>4 DEF Slots
<1>5. CASE to <= i
  <2>1. u[i] = t[i]
    BY <1>5 DEF Slots
  <2>2. i + k \in Slots /\ t[i + k] = [pid |-> t[i].pid, length |-> t[i].length - k]
    BY <1>2, <2>1 DEF Whole
  <2>3. u[i + k] = t[i + k]
    BY <1>5, <2>2 DEF Slots
  <2> QED BY <2>1, <2>2, <2>3
<1> QED BY <1>3, <1>4, <1>5 DEF Slots

LEMMA DeleteWhole ==
  ASSUME NEW t \in SlotTable, Whole(t),
         NEW from \in Slots, NEW to \in 1..SLOT_CNT, from < to,
         \A i \in Slots : i < from => i + t[i].length <= from,
         NEW u, u = [i \in Slots |-> IF from <= i /\ i < to
                                     THEN [pid |-> 0, length |-> 0] ELSE t[i]]
  PROVE  u \in SlotTable /\ Whole(u)
<1>1. u \in SlotTable
  BY DEF SlotTable, Slots, Pids
<1>2. SUFFICES ASSUME NEW i \in Slots, NEW k \in Slots, k < u[i].length
               PROVE  /\ i + k \in Slots
                      /\ u[i + k] = [pid |-> u[i].pid, length |-> u[i].length - k]
  BY <1>1 DEF Whole
<1>3. ~(from <= i /\ i < to) /\ u[i] = t[i] /\ t[i].length \in 0..SLOT_CNT
  BY <1>2 DEF Slots, SlotTable
<1>4. i + k \in Slots /\ t[i + k] = [pid |-> t[i].pid, length |-> t[i].length - k]
  BY <1>2, <1>3 DEF Whole
<1>5. ~(from <= i + k /\ i + k < to)
  BY <1>2, <1>3 DEF Slots
<1>6. u[i + k] = t[i + k]
  BY <1>4, <1>5
<1> QED BY <1>3, <1>4, <1>6

-----------------------------------------------------------------------------
(* The inductive invariant.                                                *)

Inv == TypeOK /\ SlicesWhole /\ RunsInOwnSlot

LEMMA WholeTables == SlicesWhole <=> \A h \in Harts : Whole(slots[h])
BY DEF SlicesWhole, Whole

LEMMA InitInv == sched_init => Inv
<1> SUFFICES ASSUME sched_init PROVE Inv
  OBVIOUS
<1>1. TypeOK
  BY DEF sched_init, TypeOK, Slots, Pids
<1>2. SlicesWhole
  BY DEF sched_init, SlicesWhole, Slots
<1>3. RunsInOwnSlot
  BY DEF sched_init, RunsInOwnSlot
<1> QED BY <1>1, <1>2, <1>3 DEF Inv

\* A rewritten table keeps the invariant when the new table of the hart does.
LEMMA RewriteInv ==
  ASSUME Inv, NEW h \in Harts, NEW from \in Slots, NEW to \in 1..SLOT_CNT,
         NEW info, rewrite(h, from, to, info),
         slots'[h] \in SlotTable, Whole(slots'[h])
  PROVE  Inv'
<1>1. /\ slots' \in [Harts -> SlotTable]
      /\ \A g \in Harts : g # h => slots'[g] = slots[g]
  BY DEF rewrite, Inv, TypeOK, SlotTable
<1>2. TypeOK'
  BY <1>1 DEF rewrite, Inv, TypeOK, hartVars, SlotTable
<1>3. SlicesWhole'
  <2>1. \A g \in Harts : Whole(slots'[g])
    BY <1>1 DEF Inv, SlicesWhole, Whole
  <2> QED BY <2>1 DEF SlicesWhole, Whole
<1>4. RunsInOwnSlot'
  <2> SUFFICES ASSUME NEW g \in Harts, pc'[g] = "run", left'[g] > 0, ~stale'[g]
               PROVE  slots'[g][now'] = [pid |-> run'[g], length |-> left'[g]]
    BY DEF RunsInOwnSlot
  <2>1. g # h
    BY DEF rewrite, Inv, TypeOK
  <2> QED BY <1>1, <2>1 DEF rewrite, Inv, TypeOK, RunsInOwnSlot, hartVars
<1> QED BY <1>2, <1>3, <1>4 DEF Inv

LEMMA UpdateInv ==
  ASSUME Inv, NEW h \in Harts, NEW pid \in Pids, NEW from \in Slots, NEW to \in 1..SLOT_CNT,
         NEW end \in to..SLOT_CNT, from < to, sched_update(pid, end, h, from, to)
  PROVE  Inv'
<1>1. slots[h] \in SlotTable /\ Whole(slots[h])
  BY DEF Inv, TypeOK, SlotTable, SlicesWhole, Whole
<1>2. slots'[h] = [i \in Slots |-> IF from <= i /\ i < to
                                   THEN [pid |-> pid, length |-> end - i] ELSE slots[h][i]]
  BY DEF sched_update, rewrite, Inv, TypeOK
<1>3. slots'[h] \in SlotTable /\ Whole(slots'[h])
  BY <1>1, <1>2, UpdateWhole DEF sched_update, SliceBegins
<1> QED BY <1>3, RewriteInv DEF sched_update

LEMMA DeleteInv ==
  ASSUME Inv, NEW h \in Harts, NEW from \in Slots, NEW to \in 1..SLOT_CNT,
         from < to, sched_delete(h, from, to)
  PROVE  Inv'
<1>1. slots[h] \in SlotTable /\ Whole(slots[h])
  BY DEF Inv, TypeOK, SlotTable, SlicesWhole, Whole
<1>2. slots'[h] = [i \in Slots |-> IF from <= i /\ i < to
                                   THEN [pid |-> 0, length |-> 0] ELSE slots[h][i]]
  BY DEF sched_delete, rewrite, Inv, TypeOK
<1>3. slots'[h] \in SlotTable /\ Whole(slots'[h])
  BY <1>1, <1>2, DeleteWhole DEF sched_delete, SliceBegins
<1> QED BY <1>3, RewriteInv DEF sched_delete

\* A hart that fetches late, but within the slice, is in a slot of the slice.
LEMMA FetchInv ==
  ASSUME Inv, NEW h \in Harts, sched_fetch(h)
  PROVE  Inv'
<1> DEFINE slot == (now - late[h]) % SLOT_CNT
           si == slots[h][slot]
<1>1. /\ now \in Slots /\ late[h] \in 0..SLOT_CNT /\ slot \in Slots
      /\ si \in [pid : Pids, length : 0..SLOT_CNT]
  BY DEF Inv, TypeOK, Slots
<1>2. TypeOK'
  <2>1. remaining(si.length, late[h]) \in 0..SLOT_CNT
    BY <1>1 DEF remaining
  <2>2. /\ run' \in [Harts -> Pids \union {NONE}] /\ left' \in [Harts -> 0..SLOT_CNT]
        /\ stale' \in [Harts -> BOOLEAN] /\ pc' \in [Harts -> {"sched", "fetch", "run"}]
    <3>1. CASE qualifies(h, slot) /\ \A g \in Harts : run[g] # si.pid
      <4>1. /\ run' = [run EXCEPT ![h] = si.pid]
            /\ left' = [left EXCEPT ![h] = remaining(si.length, late[h])]
            /\ stale' = [stale EXCEPT ![h] = FALSE]
            /\ pc' = [pc EXCEPT ![h] = "run"]
        BY <3>1 DEF sched_fetch, slot_info_get
      <4> HIDE DEF si
      <4> QED BY <1>1, <2>1, <4>1 DEF Inv, TypeOK
    <3>2. CASE ~(qualifies(h, slot) /\ \A g \in Harts : run[g] # si.pid)
      <4>1. pc' = [pc EXCEPT ![h] = "sched"] /\ UNCHANGED <<run, left, stale>>
        BY <3>2 DEF sched_fetch, slot_info_get
      <4> QED BY <4>1 DEF Inv, TypeOK
    <3> QED BY <3>1, <3>2
  <2>3. tried' \in [Harts -> BOOLEAN] /\ late' \in [Harts -> 0..SLOT_CNT]
    BY DEF Inv, TypeOK, sched_fetch
  <2> QED BY <2>2, <2>3 DEF Inv, TypeOK, sched_fetch
<1>3. SlicesWhole'
  BY DEF Inv, SlicesWhole, sched_fetch
<1>4. RunsInOwnSlot'
  <2> SUFFICES ASSUME NEW g \in Harts, pc'[g] = "run", left'[g] > 0, ~stale'[g]
               PROVE  slots'[g][now'] = [pid |-> run'[g], length |-> left'[g]]
    BY DEF RunsInOwnSlot
  <2>1. CASE g # h
    BY <2>1 DEF sched_fetch, Inv, TypeOK, RunsInOwnSlot
  <2>2. CASE g = h
    <3>1. /\ run'[h] = si.pid /\ left'[h] = remaining(si.length, late[h])
          /\ slots' = slots /\ now' = now
      BY <2>2 DEF sched_fetch, Inv, TypeOK, slot_info_get
    <3>2. late[h] < si.length /\ left'[h] = si.length - late[h]
      BY <1>1, <2>2, <3>1 DEF remaining
    <3>3. late[h] \in Slots
      BY <1>1, <3>2 DEF Slots
    <3>4. /\ slot + late[h] \in Slots
          /\ slots[h][slot + late[h]] = [pid |-> si.pid, length |-> si.length - late[h]]
      BY <1>1, <3>2, <3>3 DEF Inv, SlicesWhole
    <3>5. slot + late[h] = now
      BY <1>1, <3>4, LateSlot DEF Slots
    <3> QED BY <2>2, <3>1, <3>2, <3>4, <3>5
  <2> QED BY <2>1, <2>2
<1> QED BY <1>2, <1>3, <1>4 DEF Inv

\* The next slot of a slice that is not over belongs to the slice.
LEMMA TickInv ==
  ASSUME Inv, tick
  PROVE  Inv'
<1>1. now \in Slots /\ now' = (now + 1) % SLOT_CNT /\ now' \in Slots
  BY NextSlot DEF Inv, TypeOK, tick
<1>2. TypeOK'
  BY <1>1 DEF Inv, TypeOK, tick
<1>3. SlicesWhole'
  BY DEF Inv, SlicesWhole, tick
<1>4. RunsInOwnSlot'
  <2> SUFFICES ASSUME NEW g \in Harts, pc'[g] = "run", left'[g] > 0, ~stale'[g]
               PROVE  slots'[g][now'] = [pid |-> run'[g], length |-> left'[g]]
    BY DEF RunsInOwnSlot
  <2>1. /\ left[g] \in 0..SLOT_CNT /\ left[g] > 1 /\ left'[g] = left[g] - 1
        /\ slots' = slots /\ run' = run
    BY DEF Inv, TypeOK, tick
  <2>2. slots[g][now] = [pid |-> run[g], length |-> left[g]]
    BY <2>1 DEF Inv, RunsInOwnSlot, tick
  <2>3. /\ now + 1 \in Slots
        /\ slots[g][now + 1] = [pid |-> run[g], length |-> left[g] - 1]
    <3>1. 1 \in Slots
      BY <2>1 DEF Slots
    <3>2. slots[g][now].length = left[g] /\ slots[g][now].pid = run[g]
      BY <2>2
    <3> QED BY <1>1, <2>1, <3>1, <3>2 DEF Inv, SlicesWhole
  <2>4. now' = now + 1
    BY <1>1, <2>3, NextSlot DEF Slots
  <2> QED BY <2>1, <2>3, <2>4
<1> QED BY <1>2, <1>3, <1>4 DEF Inv

LEMMA NextInv == Inv /\ [Next]_vars => Inv'
<1> SUFFICES ASSUME Inv, [Next]_vars PROVE Inv'
  OBVIOUS
<1>1. CASE tick
  BY <1>1, TickInv
<1>2. CASE Table
  <2>1. PICK h \in Harts, from \in Slots, to \in 1..SLOT_CNT :
          /\ from < to
          /\ \/ \E pid \in Pids, end \in to..SLOT_CNT : sched_update(pid, end, h, from, to)
             \/ sched_delete(h, from, to)
    BY <1>2 DEF Table
  <2> QED BY <2>1, UpdateInv, DeleteInv
<1>3. ASSUME NEW h \in Harts, sched(h) PROVE Inv'
  BY <1>3 DEF Inv, TypeOK, SlicesWhole, RunsInOwnSlot, sched
<1>4. ASSUME NEW h \in Harts, sched_fetch(h) PROVE Inv'
  BY <1>4, FetchInv
<1>5. ASSUME NEW h \in Harts, leave(h) PROVE Inv'
  BY <1>5 DEF Inv, TypeOK, SlicesWhole, RunsInOwnSlot, leave
<1>6. CASE UNCHANGED vars
  BY <1>6 DEF Inv, TypeOK, SlicesWhole, RunsInOwnSlot, vars
<1> QED BY <1>1, <1>2, <1>3, <1>4, <1>5, <1>6 DEF Next, HartStep

\* The table of sched.c is made of whole slices after any sequence of
\* sched_update and sched_delete that the capability operations issue: the
\* length in a slot is the distance to the end of its slice.
THEOREM SlicesStayWhole == Spec => []SlicesWhole
<1>1. Inv => SlicesWhole
  BY DEF Inv
<1> QED BY InitInv, NextInv, <1>1, PTL DEF Spec

\* A process that sched_fetch gave to a hart runs in slots of its own up to the
\* end of its slice, for any number of harts and any delay of the fetch.
THEOREM TimeIsolation == Spec => []RunsInOwnSlot
<1>1. Inv => RunsInOwnSlot
  BY DEF Inv
<1> QED BY InitInv, NextInv, <1>1, PTL DEF Spec
=============================================================================
