------------------------------ MODULE SchedLock ------------------------------
(***************************************************************************)
(* What the scheduler expects of the lock around its table `slots'         *)
(* (kernel/src/sched.c): any number of harts may read the table at once in *)
(* sched_fetch, and the hart that rewrites it in sched_update or           *)
(* sched_delete is alone.  Semaphore.tla implements this specification.    *)
(***************************************************************************)
CONSTANT Harts

VARIABLES
  reading,   \* harts inside sched_fetch's critical section
  writing    \* harts inside the critical section of sched_update/sched_delete

vars == <<reading, writing>>

Init ==
  /\ reading = {}
  /\ writing = {}

StartRead(h) ==
  /\ h \notin reading /\ writing = {}
  /\ reading' = reading \union {h}
  /\ UNCHANGED writing

StartWrite(h) ==
  /\ reading = {} /\ writing = {}
  /\ writing' = {h}
  /\ UNCHANGED reading

Finish(h) ==
  /\ h \in reading \union writing
  /\ reading' = reading \ {h}
  /\ writing' = writing \ {h}

Next == \E h \in Harts : StartRead(h) \/ StartWrite(h) \/ Finish(h)

Spec == Init /\ [][Next]_vars
=============================================================================
