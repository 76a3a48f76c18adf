--------------------------- MODULE SemaphoreProofs ---------------------------
(***************************************************************************)
(* For every number of tickets and every set of harts, the ticket          *)
(* semaphore keeps a writer of the slot table alone and implements the     *)
(* readers/writer lock of SchedLock.                                       *)
(***************************************************************************)
EXTENDS Semaphore, FiniteSetTheorems, TLAPS

USE HartCntAssumption, MaxTicketAssumption

\* semaphore_init establishes the invariant: no ticket is out, none returned.
LEMMA TicketInvInit == semaphore_init => TicketInv
<1> SUFFICES ASSUME semaphore_init PROVE TicketInv
  OBVIOUS
<1> USE DEF semaphore_init
<1>1. TypeOK
  BY DEF TypeOK
<1>2. \A h \in Harts : Tickets(h) = {}
  BY DEF Tickets
<1>3. Returned = {}
  BY DEF Returned
<1>4. Cardinality(Returned) = 0
  BY <1>3, FS_EmptySet
<1> QED
  BY <1>1, <1>2, <1>3, <1>4 DEF TicketInv

\* The returned tickets are finitely many: they are among those handed out.
LEMMA ReturnedFinite ==
  ASSUME TypeOK
  PROVE  IsFiniteSet(Returned) /\ Returned \subseteq 1..acquired
         /\ Cardinality(Returned) \in Nat
<1>1. IsFiniteSet(1..acquired)
  BY FS_Interval DEF TypeOK
<1>2. Returned \subseteq 1..acquired
  BY DEF Returned
<1> QED
  BY <1>1, <1>2, FS_Subset, FS_CardinalityType

\* The cardinality of a disjoint union.
LEMMA DisjointUnion ==
  ASSUME NEW S, NEW T, IsFiniteSet(S), IsFiniteSet(T), S \intersect T = {}
  PROVE  /\ IsFiniteSet(S \union T)
         /\ Cardinality(S \union T) = Cardinality(S) + Cardinality(T)
         /\ Cardinality(S) \in Nat /\ Cardinality(T) \in Nat
<1>1. Cardinality(S \intersect T) = 0
  BY FS_EmptySet
<1>2. Cardinality(S) \in Nat /\ Cardinality(T) \in Nat
  BY FS_CardinalityType
<1>3. IsFiniteSet(S \union T)
      /\ Cardinality(S \union T) = Cardinality(S) + Cardinality(T) - Cardinality(S \intersect T)
  BY FS_Union
<1> QED
  BY <1>1, <1>2, <1>3

\* A hart that drew tickets owns as many as it asked for.
LEMMA TicketsOwned ==
  ASSUME TypeOK, NEW h \in Harts, pc[h] # "out"
  PROVE  /\ IsFiniteSet(Tickets(h)) /\ Cardinality(Tickets(h)) = n[h]
         /\ Tickets(h) = (my_ticket[h] - n[h] + 1) .. my_ticket[h]
         /\ n[h] \in Nat /\ my_ticket[h] \in Nat
<1> DEFINE a == my_ticket[h] - n[h] + 1
           b == my_ticket[h]
<1>1. a \in Int /\ b \in Int /\ n[h] \in Nat /\ b \in Nat /\ n[h] > 0
  BY DEF TypeOK
<1>2. Tickets(h) = a .. b
  BY DEF Tickets
<1>3. a <= b /\ b - a + 1 = n[h]
  BY <1>1
<1> HIDE DEF a, b
<1>4. IsFiniteSet(a .. b) /\ Cardinality(a .. b) = IF a > b THEN 0 ELSE b - a + 1
  BY <1>1, FS_Interval
<1>5. Cardinality(a .. b) = n[h]
  BY <1>1, <1>3, <1>4
<1> QED
  BY <1>1, <1>2, <1>4, <1>5 DEF a, b

\* Every step of a hart keeps the invariant.
LEMMA TicketInvNext == TicketInv /\ [Next]_vars => TicketInv'
<1> SUFFICES ASSUME TicketInv, [Next]_vars PROVE TicketInv'
  OBVIOUS
<1> USE DEF TicketInv
<1>0. TypeOK'
  BY DEF TypeOK, Next, vars, take_ticket, enter, semaphore_release_n
<1>1. CASE UNCHANGED vars
  BY <1>1 DEF vars, TypeOK, Tickets, Returned
<1>2. ASSUME NEW h \in Harts, NEW k \in {1, HART_CNT}, take_ticket(h, k)
      PROVE  TicketInv'
  <2> USE <1>2 DEF take_ticket, TypeOK
  <2>1. Tickets(h)' = (acquired + 1) .. (acquired + k) /\ Tickets(h) = {}
    BY DEF Tickets
  <2>2. \A g \in Harts \ {h} : Tickets(g)' = Tickets(g)
    BY DEF Tickets
  <2>3. Returned' = Returned
    <3>1. \A t : (t \in UNION {Tickets(g)' : g \in Harts})
            <=> t \in UNION {Tickets(g) : g \in Harts} \/ t \in (acquired + 1) .. (acquired + k)
      BY <2>1, <2>2
    <3>2. \A t \in UNION {Tickets(g) : g \in Harts} : t \in 1..acquired
      OBVIOUS
    <3>3. \A t : t \in 1..acquired' <=> t \in 1..acquired \/ t \in (acquired + 1) .. (acquired + k)
      OBVIOUS
    <3>4. \A t : ~(t \in 1..acquired /\ t \in (acquired + 1) .. (acquired + k))
      OBVIOUS
    <3>5. Returned' = (1..acquired') \ UNION {Tickets(g)' : g \in Harts}
      BY DEF Returned
    <3> QED
      BY <3>1, <3>2, <3>3, <3>4, <3>5 DEF Returned
  <2>4. \A g \in Harts : Tickets(g)' \subseteq 1..acquired'
    BY <2>1, <2>2
  <2>5. \A f, g \in Harts : f # g => Tickets(f)' \intersect Tickets(g)' = {}
    <3> SUFFICES ASSUME NEW f \in Harts, NEW g \in Harts, f # g
                 PROVE  Tickets(f)' \intersect Tickets(g)' = {}
      OBVIOUS
    <3>1. CASE f = h
      BY <3>1, <2>1, <2>2
    <3>2. CASE g = h
      BY <3>2, <2>1, <2>2
    <3>3. CASE f # h /\ g # h
      BY <3>3, <2>2
    <3> QED
      BY <3>1, <3>2, <3>3
  <2> QED
    BY <1>0, <2>3, <2>4, <2>5
<1>3. ASSUME NEW h \in Harts, enter(h)
      PROVE  TicketInv'
  <2>1. \A g \in Harts : Tickets(g)' = Tickets(g)
    BY <1>3 DEF Tickets, enter, TypeOK
  <2>2. Returned' = Returned
    BY <1>3, <2>1 DEF Returned, enter
  <2> QED
    BY <1>0, <1>3, <2>1, <2>2 DEF enter, may_enter, TypeOK
<1>4. ASSUME NEW h \in Harts, semaphore_release_n(h)
      PROVE  TicketInv'
  <2> USE <1>4 DEF semaphore_release_n
  <2>1. Tickets(h)' = {} /\ Tickets(h) = (my_ticket[h] - n[h] + 1) .. my_ticket[h]
    BY DEF Tickets, TypeOK
  <2>2. \A g \in Harts \ {h} : Tickets(g)' = Tickets(g)
    BY DEF Tickets, TypeOK
  <2>3. Returned' = Returned \union Tickets(h)
    <3>1. \A t : (t \in UNION {Tickets(g) : g \in Harts})
            <=> (t \in UNION {Tickets(g)' : g \in Harts}) \/ t \in Tickets(h)
      BY <2>1, <2>2
    <3>2. \A t \in Tickets(h) : \A g \in Harts : t \notin Tickets(g)'
      BY <2>1, <2>2
    <3>3. Returned' = (1..acquired) \ UNION {Tickets(g)' : g \in Harts}
      BY DEF Returned
    <3> QED
      BY <3>1, <3>2, <3>3 DEF Returned
  <2>4. Returned \intersect Tickets(h) = {}
    BY DEF Returned
  <2>5. IsFiniteSet(Tickets(h)) /\ Cardinality(Tickets(h)) = n[h]
    BY TicketsOwned
  <2>6. Cardinality(Returned') = Cardinality(Returned) + n[h]
    BY <2>3, <2>4, <2>5, ReturnedFinite, DisjointUnion
  <2>7. released' = HART_CNT + Cardinality(Returned')
    BY <2>6, ReturnedFinite DEF TypeOK
  <2>8. \A t \in Returned' : t <= released'
    <3>1. n[h] \in Nat /\ my_ticket[h] <= released /\ released \in Nat
          /\ my_ticket[h] \in Nat
      BY DEF TypeOK
    <3>2. \A t \in Tickets(h) : t <= my_ticket[h]
      BY <2>1
    <3> QED
      BY <3>1, <3>2, <2>3, <2>1, ReturnedFinite
  <2>9. \A f, g \in Harts : f # g => Tickets(f)' \intersect Tickets(g)' = {}
    BY <2>1, <2>2
  <2>10. \A g \in Harts : Tickets(g)' \subseteq 1..acquired'
    BY <2>1, <2>2
  <2>11. \A g \in Harts : /\ pc[g]' # "out" => n[g]' <= my_ticket[g]'
                          /\ pc[g]' = "in" => my_ticket[g]' <= released'
    BY DEF TypeOK
  <2> QED
    BY <1>0, <2>7, <2>8, <2>9, <2>10, <2>11
<1> QED
  BY <1>1, <1>2, <1>3, <1>4 DEF Next

\* At most HART_CNT of the tickets up to `released' are out, so a hart that
\* holds HART_CNT of them and another hart cannot both be in the section.
LEMMA WriterAloneFromInv == TicketInv => WriterAlone
<1> SUFFICES ASSUME TicketInv, NEW h \in Harts, NEW g \in Harts,
                    pc[h] = "in", pc[g] = "in", h # g
             PROVE  n[h] + n[g] <= HART_CNT
  BY DEF WriterAlone
<1> USE DEF TicketInv
<1>0. TypeOK
  OBVIOUS
<1> DEFINE A == Tickets(h)
           B == Tickets(g)
           R == Returned
<1>1. /\ IsFiniteSet(A) /\ Cardinality(A) = n[h]
      /\ IsFiniteSet(B) /\ Cardinality(B) = n[g]
  BY <1>0, TicketsOwned
<1>2. A \intersect B = {} /\ A \intersect R = {} /\ B \intersect R = {}
  BY DEF Returned
<1>3. A \subseteq 1..released /\ B \subseteq 1..released /\ R \subseteq 1..released
  <2>1. A \subseteq 1..acquired /\ B \subseteq 1..acquired /\ R \subseteq 1..acquired
    BY <1>0, ReturnedFinite
  <2>2. (\A t \in A : t <= my_ticket[h]) /\ (\A t \in B : t <= my_ticket[g])
    BY <1>0, TicketsOwned
  <2>3. my_ticket[h] <= released /\ my_ticket[g] <= released
    OBVIOUS
  <2> QED
    BY <2>1, <2>2, <2>3 DEF TypeOK
<1>4. IsFiniteSet(R) /\ Cardinality(R) = released - HART_CNT /\ Cardinality(R) \in Nat
  BY ReturnedFinite DEF TypeOK
<1>5. IsFiniteSet(A \union B) /\ Cardinality(A \union B) = n[h] + n[g]
  BY <1>1, <1>2, DisjointUnion
<1>6. IsFiniteSet((A \union B) \union R)
      /\ Cardinality((A \union B) \union R) = n[h] + n[g] + (released - HART_CNT)
  <2>1. (A \union B) \intersect R = {}
    BY <1>2
  <2>2. n[h] \in Nat /\ n[g] \in Nat /\ released \in Nat
    BY DEF TypeOK
  <2>3. IsFiniteSet((A \union B) \union R)
        /\ Cardinality((A \union B) \union R) = Cardinality(A \union B) + Cardinality(R)
    BY <1>4, <1>5, <2>1, DisjointUnion
  <2> QED
    BY <1>4, <1>5, <2>2, <2>3
<1>7. IsFiniteSet(1..released) /\ Cardinality(1..released) = released
  BY FS_Interval DEF TypeOK
<1>8. Cardinality((A \union B) \union R) <= released
  <2>1. (A \union B) \union R \subseteq 1..released
    BY <1>3
  <2> QED
    BY <2>1, <1>7, FS_Subset
<1> QED
  BY <1>0, <1>4, <1>6, <1>8 DEF TypeOK

\* The ticket invariant holds in every reachable state.
THEOREM TicketInvariant == Spec => []TicketInv
BY TicketInvInit, TicketInvNext, PTL DEF Spec

\* sched_update and sched_delete never overlap with another hart's section.
THEOREM WriterExclusion == Spec => []WriterAlone
BY TicketInvariant, WriterAloneFromInv, PTL

\* The semaphore implements the readers/writer lock: a hart that gets past
\* the spin loop does so in a state where the abstract lock lets it in.
THEOREM Refinement == Spec => ImplementsLock
<1> DEFINE Rd == {h \in Harts : pc[h] = "in" /\ n[h] # HART_CNT}
           Wr == {h \in Harts : pc[h] = "in" /\ n[h] = HART_CNT}
<1>1. semaphore_init => Lock!Init
  BY DEF semaphore_init, Lock!Init
<1>2. ASSUME TicketInv, TicketInv', [Next]_vars PROVE [Lock!Next]_(Lock!vars)
  <2> USE DEF TypeOK, Lock!vars
  <2>0. TypeOK /\ WriterAlone /\ WriterAlone'
    BY <1>2, WriterAloneFromInv, PTL DEF TicketInv
  <2>1. CASE UNCHANGED vars
    BY <2>1 DEF vars
  <2>2. ASSUME NEW h \in Harts, NEW k \in {1, HART_CNT}, take_ticket(h, k)
        PROVE  Rd' = Rd /\ Wr' = Wr
    BY <2>0, <2>2 DEF take_ticket
  <2>3. ASSUME NEW h \in Harts, enter(h)
        PROVE  Lock!StartRead(h) \/ Lock!StartWrite(h)
    <3>1. \A g \in Harts : pc'[g] = IF g = h THEN "in" ELSE pc[g]
      BY <2>0, <2>3 DEF enter
    <3>2. n' = n /\ pc[h] = "spin"
      BY <2>3 DEF enter
    <3>3. \A g \in Harts : pc[g] = "in" => n[h] + n[g] <= HART_CNT
      BY <2>0, <3>1, <3>2 DEF WriterAlone
    <3>4. CASE n[h] = HART_CNT
      <4>1. Rd = {} /\ Wr = {}
        BY <2>0, <3>3, <3>4
      <4>2. Rd' = {} /\ Wr' = {h}
        BY <4>1, <3>1, <3>2, <3>4
      <4> QED
        BY <4>1, <4>2 DEF Lock!StartWrite
    <3>5. CASE n[h] # HART_CNT
      <4>1. Wr = {} /\ h \notin Rd
        BY <2>0, <3>2, <3>3, <3>5
      <4>2. Rd' = Rd \union {h} /\ Wr' = Wr
        BY <3>1, <3>2, <3>5
      <4> QED
        BY <4>1, <4>2 DEF Lock!StartRead
    <3> QED
      BY <3>4, <3>5
  <2>4. ASSUME NEW h \in Harts, semaphore_release_n(h)
        PROVE  Lock!Finish(h)
    <3>1. \A g \in Harts : pc'[g] = IF g = h THEN "out" ELSE pc[g]
      BY <2>0, <2>4 DEF semaphore_release_n
    <3>2. n' = n /\ pc[h] = "in"
      BY <2>4 DEF semaphore_release_n
    <3>3. h \in Rd \union Wr /\ Rd' = Rd \ {h} /\ Wr' = Wr \ {h}
      BY <3>1, <3>2
    <3> QED
      BY <3>3 DEF Lock!Finish
  <2> QED
    BY <1>2, <2>1, <2>2, <2>3, <2>4 DEF Next, Lock!Next
<1> QED
  BY <1>1, <1>2, TicketInvariant, PTL DEF Spec, ImplementsLock, Lock!Spec
=============================================================================
