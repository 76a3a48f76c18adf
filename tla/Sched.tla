-------------------------------- MODULE Sched --------------------------------
(***************************************************************************)
(* The cyclic scheduler of kernel/src/sched.c: which process a hart runs   *)
(* in a time slot, and until when.  The table is rewritten under the       *)
(* semaphore (Semaphore.tla) and read under it, so each of sched_update,   *)
(* sched_delete and sched_fetch is one step.  The capability operations    *)
(* call the first two; the guards on their arguments are what CapOps.tla   *)
(* passes (its property ScheduleMatches).                                  *)
(*                                                                         *)
(* Time is counted in slots, modulo the period.  Processes are always      *)
(* ready here: waiting, sleeping and suspension are in ProcIpc.tla.        *)
(***************************************************************************)
EXTENDS Integers

CONSTANTS
  MIN_HART, MAX_HART,  \* S3K_MIN_HART and S3K_MAX_HART
  SLOT_CNT,            \* S3K_SLOT_CNT
  PROC_CNT,            \* S3K_PROC_CNT
  MaxUpdates,          \* bound of the model: how often the table is rewritten
  NONE                 \* no process

ASSUME SchedAssumption ==
  /\ MIN_HART \in Nat /\ MAX_HART \in Nat /\ MIN_HART <= MAX_HART
  /\ SLOT_CNT \in 1..255 /\ PROC_CNT \in 1..256 /\ MaxUpdates \in Nat
  /\ NONE \notin 0 .. PROC_CNT - 1

Harts == MIN_HART .. MAX_HART
Slots == 0 .. SLOT_CNT - 1
Pids == 0 .. PROC_CNT - 1

VARIABLES
  slots,    \* slots[h][i]: owner and remaining length of slot i on hart h
  now,      \* the current slot
  pc,       \* hart h looks for its slot, fetches a process, or runs one
  late,     \* slots that passed since hart h looked at the time
  run,      \* the process that hart h runs
  left,     \* slots until the timer of hart h fires
  tried,    \* whether hart h looked for a process of this slot
  \* History and bound.
  stale,    \* whether the table of hart h changed since it fetched
  updates   \* how often the table was rewritten

vars == <<slots, now, pc, late, run, left, tried, stale, updates>>
hartVars == <<now, pc, late, run, left, tried>>

TypeOK ==
  /\ slots \in [Harts -> [Slots -> [pid : Pids, length : 0..SLOT_CNT]]]
  /\ now \in Slots
  /\ pc \in [Harts -> {"sched", "fetch", "run"}]
  /\ late \in [Harts -> 0..SLOT_CNT]
  /\ run \in [Harts -> Pids \union {NONE}]
  /\ left \in [Harts -> 0..SLOT_CNT]
  /\ tried \in [Harts -> BOOLEAN]
  /\ stale \in [Harts -> BOOLEAN]
  /\ updates \in 0..MaxUpdates

\* Every slot of every hart belongs to process 0.
sched_init ==
  /\ slots = [h \in Harts |-> [i \in Slots |-> [pid |-> 0, length |-> SLOT_CNT - i]]]
  /\ now = 0
  /\ pc = [h \in Harts |-> "sched"]
  /\ late = [h \in Harts |-> 0]
  /\ run = [h \in Harts |-> NONE]
  /\ left = [h \in Harts |-> 0]
  /\ tried = [h \in Harts |-> FALSE]
  /\ stale = [h \in Harts |-> FALSE]
  /\ updates = 0

-----------------------------------------------------------------------------
(* The table.                                                              *)

\* No slice that began earlier goes past this slot.
SliceBegins(h, from) == \A i \in Slots : i < from => i + slots[h][i].length <= from

\* The loop over slots from .. to - 1, for the bits of hart h.
rewrite(h, from, to, info) ==
  /\ updates < MaxUpdates
  /\ slots' = [slots EXCEPT ![h] =
                 [i \in Slots |-> IF from <= i /\ i < to THEN info[i] ELSE slots[h][i]]]
  /\ stale' = [stale EXCEPT ![h] = TRUE]
  /\ updates' = updates + 1
  /\ UNCHANGED hartVars

\* Mutant: the same remaining length in every slot of the slice.
sched_update_flat(pid, end, h, from, to) ==
  /\ SliceBegins(h, from)
  /\ to # end => slots[h][to] = [pid |-> pid, length |-> end - to]
  /\ rewrite(h, from, to, [i \in Slots |-> [pid |-> pid, length |-> end - from]])

\* A derived or moved time capability gets the slots from its beginning to its
\* end; one that takes a child's slots back joins them to those it has.
sched_update(pid, end, h, from, to) ==
  /\ SliceBegins(h, from)
  /\ to # end => slots[h][to] = [pid |-> pid, length |-> end - to]
  /\ rewrite(h, from, to, [i \in Slots |-> [pid |-> pid, length |-> end - i]])

\* A deleted time capability loses all the slots it has.
sched_delete(h, from, to) ==
  /\ SliceBegins(h, from) /\ slots[h][from].length = to - from
  /\ rewrite(h, from, to, [i \in Slots |-> [pid |-> 0, length |-> 0]])

slot_info_get(h, slot) == slots[h][slot]

-----------------------------------------------------------------------------
(* The harts.                                                              *)

\* Mutant: a hart defers to those with a higher ID also when the lengths are equal.
qualifies_ties(h, slot) ==
  LET si == slot_info_get(h, slot)
      other(i) == slot_info_get(i, slot)
  IN  /\ si.length # 0
      /\ \A i \in MIN_HART .. h - 1 : ~(si.pid = other(i).pid /\ si.length <= other(i).length)
      /\ \A i \in h + 1 .. MAX_HART - 1 : ~(si.pid = other(i).pid /\ si.length <= other(i).length)

\* The conditions under which sched_fetch tries to acquire the process of the
\* slot.  The second loop ends before the last hart.
qualifies(h, slot) ==
  LET si == slot_info_get(h, slot)
      other(i) == slot_info_get(i, slot)
  IN  /\ si.length # 0
      /\ \A i \in MIN_HART .. h - 1 : ~(si.pid = other(i).pid /\ si.length <= other(i).length)
      /\ \A i \in h + 1 .. MAX_HART - 1 : ~(si.pid = other(i).pid /\ si.length < other(i).length)

\* An iteration of the loop in sched: the time is read ...
sched(h) ==
  /\ pc[h] = "sched"
  /\ pc' = [pc EXCEPT ![h] = "fetch"]
  /\ late' = [late EXCEPT ![h] = 0]
  /\ UNCHANGED <<slots, now, run, left, tried, stale, updates>>

\* Mutant: the slice is counted from the time it is taken.
remaining_from_now(length, delay) == length

\* The slots that are left of a slice of this length, when it is taken late.
remaining(length, delay) == IF delay < length THEN length - delay ELSE 0

\* ... and, once the semaphore lets the hart in, sched_fetch with the slot that
\* began at that time.  proc_acquire fails for a process on another hart.
sched_fetch(h) ==
  LET slot == (now - late[h]) % SLOT_CNT
      si == slot_info_get(h, slot)
  IN  /\ pc[h] = "fetch"
      /\ \/ /\ qualifies(h, slot) /\ \A g \in Harts : run[g] # si.pid
            /\ run' = [run EXCEPT ![h] = si.pid]
            /\ left' = [left EXCEPT ![h] = remaining(si.length, late[h])]
            /\ stale' = [stale EXCEPT ![h] = FALSE]
            /\ pc' = [pc EXCEPT ![h] = "run"]
         \/ /\ ~(qualifies(h, slot) /\ \A g \in Harts : run[g] # si.pid)
            /\ pc' = [pc EXCEPT ![h] = "sched"]
            /\ UNCHANGED <<run, left, stale>>
      /\ tried' = [tried EXCEPT ![h] = @ \/ late[h] = 0]
      /\ late' = [late EXCEPT ![h] = 0]
      /\ UNCHANGED <<slots, now, updates>>

\* The process leaves the hart: the timer fires, or it calls sync.
leave(h) ==
  /\ pc[h] = "run"
  /\ pc' = [pc EXCEPT ![h] = "sched"]
  /\ run' = [run EXCEPT ![h] = NONE]
  /\ left' = [left EXCEPT ![h] = 0]
  /\ UNCHANGED <<slots, now, late, tried, stale, updates>>

\* The next slot begins.  (Bound of the model: a hart that read the time gets
\* the semaphore within a period.)
tick ==
  /\ \A h \in Harts : late[h] < SLOT_CNT
  /\ now' = (now + 1) % SLOT_CNT
  /\ left' = [h \in Harts |-> IF left[h] > 0 THEN left[h] - 1 ELSE 0]
  /\ late' = [h \in Harts |-> IF pc[h] = "fetch" THEN late[h] + 1 ELSE 0]
  /\ tried' = [h \in Harts |-> FALSE]
  /\ UNCHANGED <<slots, pc, run, stale, updates>>

-----------------------------------------------------------------------------

Table ==
  \E h \in Harts, from \in Slots, to \in 1..SLOT_CNT : from < to /\
    \/ \E pid \in Pids, end \in to..SLOT_CNT : sched_update(pid, end, h, from, to)
    \/ sched_delete(h, from, to)

HartStep(h) == sched(h) \/ sched_fetch(h) \/ leave(h)

Next == tick \/ Table \/ \E h \in Harts : HartStep(h)

Spec == sched_init /\ [][Next]_vars

\* In time: a slice ends S3K_SCHED_TIME before its last slot does, which is
\* enough for a hart to leave its process and to try the next before that slot
\* has passed.  (It may try again, and then be late.)
InTime ==
  \A h \in Harts : (pc[h] = "run" => left[h] > 0) /\ (pc[h] # "run" => tried[h])

PromptNext == (InTime /\ tick) \/ Table \/ \E h \in Harts : HartStep(h)

FairSpec ==
  /\ sched_init /\ [][PromptNext]_vars
  /\ WF_vars(InTime /\ tick)
  /\ \A h \in Harts : /\ WF_vars(sched(h)) /\ WF_vars(sched_fetch(h))
                      /\ WF_vars(left[h] = 0 /\ leave(h))

-----------------------------------------------------------------------------
(* Properties.                                                             *)

\* The remaining length in a slot is right in every slot of a slice, in every
\* order of derivation, revocation and deletion: a hart that enters a slice at
\* any of its slots stops at its end.
SlicesWhole ==
  \A h \in Harts, i \in Slots : \A k \in Slots : k < slots[h][i].length =>
    /\ i + k \in Slots
    /\ slots[h][i + k] = [pid |-> slots[h][i].pid, length |-> slots[h][i].length - k]

\* A process whose timer has not fired runs in a slot of its own, up to the
\* end of its slice and no further, however late the hart came to fetch it.
\* (A change of the table takes effect when the hart fetches again.)
RunsInOwnSlot ==
  \A h \in Harts : pc[h] = "run" /\ left[h] > 0 /\ ~stale[h] =>
    slots[h][now] = [pid |-> run[h], length |-> left[h]]

Owns(p) == \E h \in Harts, i \in Slots : slots[h][i].pid = p /\ slots[h][i].length > 0

\* Once the table has settled, every process that owns a slot is run, again
\* and again: of the harts that own a slot for the same process (sched_fetch
\* lets each defer to harts with a lower and with a higher ID) not all defer.
OwnersRun ==
  \A p \in Pids : Owns(p) /\ updates = MaxUpdates ~> \E h \in Harts : run[h] = p
=============================================================================
