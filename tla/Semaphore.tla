------------------------------ MODULE Semaphore ------------------------------
(***************************************************************************)
(* The counting semaphore of kernel/src/smp/semaphore.c, a ticket lock, as *)
(* kernel/src/sched.c uses it: sched_fetch takes one ticket (a reader of   *)
(* the slot table), sched_update and sched_delete take S3K_HART_CNT        *)
(* tickets (a writer).  The counters are 64 bits wide and start near zero; *)
(* they are naturals here because 2^64 acquisitions are out of reach.      *)
(***************************************************************************)
EXTENDS Integers, FiniteSets

CONSTANTS
  Harts,        \* the harts that call the scheduler
  HART_CNT,     \* S3K_HART_CNT, the tickets semaphore_init puts in the pool
  MaxTicket     \* bound of the model: tickets handed out in a behaviour

ASSUME HartCntAssumption == HART_CNT \in Nat \ {0}
ASSUME MaxTicketAssumption == MaxTicket \in Nat

VARIABLES
  acquired,     \* sem->acquired
  released,     \* sem->released
  pc,           \* where hart h is: outside, spinning, or in the section
  my_ticket,    \* the last ticket hart h took
  n             \* how many tickets hart h asked for

vars == <<acquired, released, pc, my_ticket, n>>

TypeOK ==
  /\ acquired \in Nat
  /\ released \in Nat
  /\ pc \in [Harts -> {"out", "spin", "in"}]
  /\ my_ticket \in [Harts -> Nat]
  /\ n \in [Harts -> {1, HART_CNT}]

semaphore_init ==
  /\ released = HART_CNT
  /\ acquired = 0
  /\ pc = [h \in Harts |-> "out"]
  /\ my_ticket = [h \in Harts |-> 0]
  /\ n = [h \in Harts |-> 1]

\* Mutant: __atomic_fetch_add for __atomic_add_fetch, the counter before the add.
take_ticket_fetch_add(h, k) ==
  /\ pc[h] = "out"
  /\ acquired + k <= MaxTicket
  /\ acquired' = acquired + k
  /\ my_ticket' = [my_ticket EXCEPT ![h] = acquired]
  /\ n' = [n EXCEPT ![h] = k]
  /\ pc' = [pc EXCEPT ![h] = "spin"]
  /\ UNCHANGED released

\* semaphore_acquire_n up to its atomic add: the hart draws the last of k
\* consecutive tickets and starts to spin.
take_ticket(h, k) ==
  /\ pc[h] = "out"
  /\ acquired + k <= MaxTicket
  /\ acquired' = acquired + k
  /\ my_ticket' = [my_ticket EXCEPT ![h] = acquired + k]
  /\ n' = [n EXCEPT ![h] = k]
  /\ pc' = [pc EXCEPT ![h] = "spin"]
  /\ UNCHANGED released

\* One load of sem->released in the spin loop that lets the hart through; a
\* load that does not is a stuttering step.
may_enter(h) == my_ticket[h] <= released

enter(h) ==
  /\ pc[h] = "spin"
  /\ may_enter(h)
  /\ pc' = [pc EXCEPT ![h] = "in"]
  /\ UNCHANGED <<acquired, released, my_ticket, n>>

\* Mutant: semaphore_release in place of semaphore_release_n.
semaphore_release_one(h) ==
  /\ pc[h] = "in"
  /\ released' = released + 1
  /\ pc' = [pc EXCEPT ![h] = "out"]
  /\ UNCHANGED <<acquired, my_ticket, n>>

semaphore_release_n(h) ==
  /\ pc[h] = "in"
  /\ released' = released + n[h]
  /\ pc' = [pc EXCEPT ![h] = "out"]
  /\ UNCHANGED <<acquired, my_ticket, n>>

Next ==
  \E h \in Harts :
    \/ \E k \in {1, HART_CNT} : take_ticket(h, k)
    \/ enter(h)
    \/ semaphore_release_n(h)

Spec == semaphore_init /\ [][Next]_vars

\* A hart that spins goes on loading the counter, and a hart inside the
\* section always leaves it: both sections of sched.c are bounded loops with
\* interrupts off.  Taking a ticket is the hart's own choice.
Fairness ==
  \A h \in Harts : WF_vars(enter(h)) /\ WF_vars(semaphore_release_n(h))

FairSpec == Spec /\ Fairness

-----------------------------------------------------------------------------
(* The inductive invariant.  A hart that is not "out" owns the tickets     *)
(* my_ticket - n + 1 .. my_ticket; the others of 1..acquired were returned.*)

Tickets(h) ==
  IF pc[h] = "out" THEN {} ELSE (my_ticket[h] - n[h] + 1) .. my_ticket[h]

Returned == (1..acquired) \ UNION {Tickets(h) : h \in Harts}

TicketInv ==
  /\ TypeOK
  /\ \A h \in Harts : Tickets(h) \subseteq 1..acquired
  /\ \A h \in Harts : pc[h] # "out" => n[h] <= my_ticket[h]
  /\ \A h, g \in Harts : h # g => Tickets(h) \intersect Tickets(g) = {}
  /\ \A h \in Harts : pc[h] = "in" => my_ticket[h] <= released
  /\ released = HART_CNT + Cardinality(Returned)
  /\ \A t \in Returned : t <= released

-----------------------------------------------------------------------------
(* Properties.                                                             *)

\* A hart that took all the tickets (sched_update, sched_delete) is alone in
\* the section: no hart reads the slot table while it is rewritten, in
\* whatever order tickets were drawn and returned.
WriterAlone ==
  \A h, g \in Harts :
    pc[h] = "in" /\ pc[g] = "in" /\ h # g => n[h] + n[g] <= HART_CNT

\* The harts in the section, split as the abstract lock sees them.
Lock == INSTANCE SchedLock WITH
  reading <- {h \in Harts : pc[h] = "in" /\ n[h] # HART_CNT},
  writing <- {h \in Harts : pc[h] = "in" /\ n[h] = HART_CNT}

\* The ticket semaphore implements the readers/writer lock the scheduler
\* needs.
ImplementsLock == Lock!Spec

\* A hart that drew a ticket gets into the section, a writer among a stream
\* of readers included: semaphore_acquire_n never spins forever.
NoStarvation == \A h \in Harts : pc[h] = "spin" ~> pc[h] = "in"
=============================================================================
