------------------------------ MODULE TreeProofs ------------------------------
(***************************************************************************)
(* The capability list stays one ring in which the derivation tree lies in *)
(* order (TreeInv), and what follows from that: resources are held once,   *)
(* revocation is complete and precise, memory that is not shared is        *)
(* private, the schedule follows the time capabilities, a channel that     *)
(* loses its server socket loses its endpoints, and the predicates of the  *)
(* user library say what the kernel does.                                  *)
(***************************************************************************)
EXTENDS CapProofs, CapTree, S3kLib, FiniteSetTheorems

-----------------------------------------------------------------------------
(* Lists and trees, whatever they are made of.                             *)

\* f gives the entries of M other names, those of entries of L.
Names(M, L, f) == f \in [M -> L] /\ \A x, y \in M : f[x] = f[y] => x = y

\* The relation B is A with the names f.
Embeds(M, f, A, B) ==
  /\ \A x \in M : B[x] \subseteq M
  /\ \A x, y \in M : y \in B[x] <=> f[y] \in A[f[x]]

\* The function W is V with the names f.
Agrees(M, f, V, W) == \A x \in M : W[x] = V[f[x]]

\* Part of an order, under other names, is an order.
LEMMA OrderEmbeds ==
  ASSUME NEW L, NEW M, NEW A, NEW B, NEW f, Names(M, L, f), Embeds(M, f, A, B),
         LinearOrder(L, A)
  PROVE  LinearOrder(M, B)
BY DEF LinearOrder, Names, Embeds

\* Part of a tree, under other names, is a tree.
LEMMA TreeEmbeds ==
  ASSUME NEW L, NEW M, NEW A, NEW B, NEW N, NEW P, NEW R, NEW Q, NEW V, NEW W, NEW f,
         Names(M, L, f), Embeds(M, f, A, B), Embeds(M, f, N, P),
         Agrees(M, f, R, Q), Agrees(M, f, V, W),
         Tree(L, A, N, R, V)
  PROVE  Tree(M, B, P, Q, W)
<1> USE DEF Tree, Names, Embeds, Agrees
<1>1. \A x \in M : Shape(W[x])
  OBVIOUS
<1>2. \A y \in M : \A x \in P[y] :
       /\ x \in M /\ y \in B[x] /\ Q[x] = Q[y]
       /\ ChildKind(W[x], W[y]) /\ Within(W[x], W[y])
  OBVIOUS
<1>3. \A x, y, z \in M : x \in P[z] /\ y \in B[x] /\ z \in B[y] => x \in P[y]
  OBVIOUS
<1>4. \A x \in M : \A y \in B[x] :
       x \notin P[y] /\ Related(W[x], W[y], Q[x] = Q[y]) => Below(W[x], W[y])
  OBVIOUS
<1> QED
  BY <1>1, <1>2, <1>3, <1>4

\* B is A with c right behind p, where cte_insert puts it.
Inserted(S, A, B, p, c) ==
  B = [x \in S |-> IF x = c THEN A[p]
                   ELSE IF x = p \/ p \in A[x] THEN A[x] \union {c} ELSE A[x]]

LEMMA OrderInsert ==
  ASSUME NEW S, NEW L \in SUBSET S, NEW p \in L, NEW c \in S \ L,
         NEW A \in [S -> SUBSET S], NEW B \in [S -> SUBSET S],
         LinearOrder(L, A),
         Inserted(S, A, B, p, c)
  PROVE  LinearOrder(L \union {c}, B)
<1> USE DEF Inserted
<1> DEFINE M == L \union {c}
<1>1. \A x \in M : B[x] \subseteq M /\ x \notin B[x]
  BY DEF LinearOrder
<1>2. \A x, y \in M : x = y \/ x \in B[y] \/ y \in B[x]
  BY DEF LinearOrder
<1>3. \A x \in M : \A y \in B[x] : B[y] \subseteq B[x]
  BY DEF LinearOrder
<1> QED
  BY <1>1, <1>2, <1>3 DEF LinearOrder

LEMMA RingInsert ==
  ASSUME NEW S, NEW L \in SUBSET S, NEW p \in L, NEW c \in S \ L,
         NEW A \in [S -> SUBSET S], NEW B \in [S -> SUBSET S],
         NEW nx \in [S -> S], NEW pv \in [S -> S],
         LinearOrder(L, A), Ring(L, A, nx, pv),
         Inserted(S, A, B, p, c)
  PROVE  Ring(L \union {c}, B, [nx EXCEPT ![c] = nx[p], ![p] = c],
                               [pv EXCEPT ![c] = p, ![nx[p]] = c])
<1> USE DEF Inserted
<1> DEFINE M == L \union {c}
           nn == [nx EXCEPT ![c] = nx[p], ![p] = c]
           pp == [pv EXCEPT ![c] = p, ![nx[p]] = c]
<1>1. nx[p] \in L /\ nx[p] # c /\ p # c
  BY DEF Ring
<1>2. /\ nn[c] = nx[p] /\ nn[p] = c /\ \A x \in S : x # c /\ x # p => nn[x] = nx[x]
      /\ pp[c] = p /\ pp[nx[p]] = c /\ \A x \in S : x # c /\ x # nx[p] => pp[x] = pv[x]
  BY <1>1
<1> HIDE DEF nn, pp
<1>3. \A x \in M : nn[x] \in M /\ pp[x] \in M
  BY <1>1, <1>2 DEF Ring
<1>4. \A x \in M : pp[nn[x]] = x /\ nn[pp[x]] = x
  BY <1>1, <1>2 DEF Ring
<1>5. \A x \in M : B[x] # {} => nn[x] \in B[x] /\ B[nn[x]] = B[x] \ {nn[x]}
  <2> TAKE x \in M
  <2>1. CASE x = c
    BY <2>1, <1>1, <1>2 DEF Ring, LinearOrder
  <2>2. CASE x = p
    BY <2>2, <1>1, <1>2 DEF Ring, LinearOrder
  <2>3. CASE x # c /\ x # p
    BY <2>3, <1>1, <1>2 DEF Ring, LinearOrder
  <2> QED
    BY <2>1, <2>2, <2>3
<1>6. \A x \in M : B[x] = {} => B[nn[x]] = M \ {nn[x]}
  <2> TAKE x \in M
  <2>1. CASE x = c
    BY <2>1, <1>1, <1>2 DEF Ring, LinearOrder
  <2>2. CASE x = p
    BY <2>2, <1>1, <1>2 DEF Ring, LinearOrder
  <2>3. ASSUME x # c, x # p, B[x] = {} PROVE B[nn[x]] = M \ {nn[x]}
    <3>1. x \in L /\ A[x] = {} /\ nn[x] = nx[x] /\ nx[x] \in L /\ A[nx[x]] = L \ {nx[x]}
      BY <2>3, <1>2 DEF Ring
    <3>2. nx[x] = p \/ p \in A[nx[x]]
      BY <3>1
    <3>3. B[nx[x]] = A[nx[x]] \union {c}
      BY <3>1, <3>2
    <3> QED
      BY <3>1, <3>3
  <2> QED
    BY <2>1, <2>2, <2>3
<1> QED
  BY <1>3, <1>4, <1>5, <1>6 DEF Ring, nn, pp

\* A ring of two or more has no loop at an entry.
LEMMA RingNeighbours ==
  ASSUME NEW L, NEW c \in L, NEW d \in L, d # c, NEW A, NEW nx, NEW pv,
         LinearOrder(L, A), Ring(L, A, nx, pv)
  PROVE  nx[c] \in L \ {c} /\ pv[c] \in L \ {c}
<1>1. nx[c] # c
  BY DEF LinearOrder, Ring
<1> QED
  BY <1>1 DEF Ring

\* cte_delete takes c out of it.
LEMMA RingDelete ==
  ASSUME NEW S, NEW L \in SUBSET S, NEW c \in L, NEW d \in L, c # d,
         NEW A \in [S -> SUBSET S], NEW B \in [S -> SUBSET S],
         NEW nx \in [S -> S], NEW pv \in [S -> S],
         LinearOrder(L, A), Ring(L, A, nx, pv),
         \A x \in L \ {c} : B[x] = A[x] \ {c}
  PROVE  Ring(L \ {c}, B, [nx EXCEPT ![pv[c]] = nx[c]], [pv EXCEPT ![nx[c]] = pv[c]])
<1> DEFINE M == L \ {c}
           nn == [nx EXCEPT ![pv[c]] = nx[c]]
           pp == [pv EXCEPT ![nx[c]] = pv[c]]
<1>1. nx[c] \in M /\ pv[c] \in M
  BY RingNeighbours
<1>2. /\ nn[pv[c]] = nx[c] /\ \A x \in S : x # pv[c] => nn[x] = nx[x]
      /\ pp[nx[c]] = pv[c] /\ \A x \in S : x # nx[c] => pp[x] = pv[x]
  BY <1>1
<1> HIDE DEF nn, pp
<1>3. \A x \in M : nn[x] \in M /\ pp[x] \in M /\ pp[nn[x]] = x /\ nn[pp[x]] = x
  BY <1>1, <1>2 DEF Ring
<1>4. ASSUME NEW x \in M, x # pv[c]
      PROVE  /\ B[x] # {} => nn[x] \in B[x] /\ B[nn[x]] = B[x] \ {nn[x]}
             /\ B[x] = {} => B[nn[x]] = M \ {nn[x]}
  <2>1. nn[x] = nx[x] /\ nx[x] \in M
    BY <1>1, <1>2, <1>3, <1>4
  <2>2. B[x] = A[x] \ {c} /\ B[nn[x]] = A[nx[x]] \ {c}
    BY <2>1
  <2>3. CASE A[x] = {}
    BY <2>1, <2>2, <2>3 DEF Ring
  <2>4. CASE A[x] # {}
    BY <2>1, <2>2, <2>4 DEF Ring
  <2> QED
    BY <2>3, <2>4
<1>5. ASSUME NEW x \in M, x = pv[c]
      PROVE  /\ B[x] # {} => nn[x] \in B[x] /\ B[nn[x]] = B[x] \ {nn[x]}
             /\ B[x] = {} => B[nn[x]] = M \ {nn[x]}
  <2>1. nn[x] = nx[c] /\ nx[x] = c
    BY <1>2, <1>5 DEF Ring
  <2>2. B[x] = A[x] \ {c} /\ B[nn[x]] = A[nx[c]] \ {c}
    BY <2>1, <1>1
  <2>3. CASE A[x] = {}
    <3>1. A[c] = L \ {c} /\ A[c] # {}
      BY <2>1, <2>3 DEF Ring
    <3>2. A[nx[c]] = A[c] \ {nx[c]}
      BY <3>1 DEF Ring
    <3> QED
      BY <2>1, <2>2, <2>3, <3>1, <3>2
  <2>4. CASE A[x] # {}
    <3>1. c \in A[x] /\ A[c] = A[x] \ {c}
      BY <2>1, <2>4 DEF Ring
    <3>2. CASE A[c] = {}
      <4>1. A[nx[c]] = L \ {nx[c]}
        BY <3>2 DEF Ring
      <4> QED
        BY <2>1, <2>2, <3>1, <3>2, <4>1
    <3>3. CASE A[c] # {}
      <4>1. nx[c] \in A[c] /\ A[nx[c]] = A[c] \ {nx[c]}
        BY <3>3 DEF Ring
      <4> QED
        BY <2>1, <2>2, <3>1, <3>3, <4>1
    <3> QED
      BY <3>2, <3>3
  <2> QED
    BY <2>3, <2>4
<1> QED
  BY <1>3, <1>4, <1>5 DEF Ring, nn, pp

\* The links nn are nx under other names.
Follows(M, f, nn, nx) == \A x \in M : nn[x] \in M /\ f[nn[x]] = nx[f[x]]

\* A ring under other names is a ring.
LEMMA RingRenamed ==
  ASSUME NEW L, NEW M, NEW A, NEW B, NEW nx, NEW pv, NEW nn, NEW pp, NEW f, NEW g,
         Names(M, L, f), g \in [L -> M], \A z \in L : f[g[z]] = z,
         \A x \in L : A[x] \subseteq L, Embeds(M, f, A, B),
         Follows(M, f, nn, nx), Follows(M, f, pp, pv),
         Ring(L, A, nx, pv)
  PROVE  Ring(M, B, nn, pp)
<1> USE DEF Names, Embeds
<1>1. \A x \in M : /\ nn[x] \in M /\ pp[x] \in M
                   /\ pp[nn[x]] = x /\ nn[pp[x]] = x
  BY DEF Ring, Follows
<1>2. ASSUME NEW x \in M, B[x] # {}
      PROVE  nn[x] \in B[x] /\ B[nn[x]] = B[x] \ {nn[x]}
  <2>0. PICK y \in B[x] : TRUE
    BY <1>2
  <2>1. f[x] \in L /\ f[y] \in A[f[x]]
    BY <2>0
  <2>2. nx[f[x]] \in A[f[x]] /\ A[nx[f[x]]] = A[f[x]] \ {nx[f[x]]}
    BY <2>1 DEF Ring
  <2>3. nn[x] \in M /\ f[nn[x]] = nx[f[x]]
    BY DEF Follows
  <2>4. nn[x] \in B[x]
    BY <2>2, <2>3
  <2>5. ASSUME NEW z \in M
        PROVE  z \in B[nn[x]] <=> z \in B[x] /\ z # nn[x]
    <3>1. z \in B[nn[x]] <=> f[z] \in A[nx[f[x]]]
      BY <2>3
    <3>2. z \in B[x] <=> f[z] \in A[f[x]]
      OBVIOUS
    <3>3. z = nn[x] <=> f[z] = nx[f[x]]
      BY <2>3
    <3> QED
      BY <2>2, <3>1, <3>2, <3>3
  <2>6. B[nn[x]] \subseteq M /\ B[x] \subseteq M
    BY <2>3
  <2> QED
    BY <2>4, <2>5, <2>6
<1>3. ASSUME NEW x \in M, B[x] = {}
      PROVE  B[nn[x]] = M \ {nn[x]}
  <2>0. \A z \in A[f[x]] : \E y \in M : f[y] = z /\ y \in B[x]
    OBVIOUS
  <2>1. f[x] \in L /\ A[f[x]] = {}
    BY <1>3, <2>0
  <2>2. A[nx[f[x]]] = L \ {nx[f[x]]}
    BY <2>1 DEF Ring
  <2>3. nn[x] \in M /\ f[nn[x]] = nx[f[x]]
    BY DEF Follows
  <2>4. ASSUME NEW z \in M
        PROVE  z \in B[nn[x]] <=> z # nn[x]
    <3>1. z \in B[nn[x]] <=> f[z] \in A[nx[f[x]]]
      BY <2>3
    <3>2. z = nn[x] <=> f[z] = nx[f[x]]
      BY <2>3
    <3>3. f[z] \in L
      OBVIOUS
    <3> QED
      BY <2>2, <3>1, <3>2, <3>3
  <2>5. B[nn[x]] \subseteq M
    BY <2>3
  <2> QED
    BY <2>4, <2>5
<1> QED
  BY <1>1, <1>2, <1>3 DEF Ring

\* The bounds of the intervals are numbers.
Numeric(V, S) == \A x \in S : V[x].lo \in Nat /\ V[x].mk \in Nat /\ V[x].hi \in Nat

\* q is v but for its mark and its lock.
SamePlace(v, q) ==
  q.kind = v.kind /\ q.key = v.key /\ q.lo = v.lo /\ q.hi = v.hi /\ q.tag = v.tag

\* An entry whose mark or lock changes stays in its place of the tree.
LEMMA TreeMarked ==
  ASSUME NEW S, NEW L \in SUBSET S, NEW p \in L,
         NEW A \in [S -> SUBSET S], NEW N \in [S -> SUBSET S], NEW R, NEW V, NEW W,
         Tree(L, A, N, R, V),
         \A x \in L \ {p} : W[x] = V[x],
         SamePlace(V[p], W[p]), Shape(W[p]),
         \A y \in L \ {p} : p \in N[y] => Within(W[p], V[y]),
         LinearOrder(L, A)
  PROVE  Tree(L, A, N, R, W)
<1>1. \A x \in L : Shape(W[x])
  BY DEF Tree
<1>2. ASSUME NEW y \in L, NEW x \in N[y]
      PROVE  /\ x \in L /\ y \in A[x] /\ R[x] = R[y]
             /\ ChildKind(W[x], W[y]) /\ Within(W[x], W[y])
  <2>1. /\ x \in L /\ y \in A[x] /\ R[x] = R[y] /\ x # y
        /\ ChildKind(V[x], V[y]) /\ Within(V[x], V[y])
    BY DEF Tree, LinearOrder
  <2>2. ChildKind(W[x], W[y])
    BY <2>1 DEF ChildKind, SamePlace
  <2>3. Within(W[x], W[y])
    BY <2>1 DEF Within, SamePlace
  <2> QED
    BY <2>1, <2>2, <2>3
<1>3. ASSUME NEW x \in L, NEW y \in A[x], x \notin N[y], Related(W[x], W[y], R[x] = R[y])
      PROVE  Below(W[x], W[y])
  <2>1. y \in L
    BY DEF LinearOrder
  <2>2. Related(V[x], V[y], R[x] = R[y])
    BY <1>3, <2>1 DEF Related, SamePlace
  <2>3. Below(V[x], V[y])
    BY <1>3, <2>2 DEF Tree
  <2> QED
    BY <2>1, <2>3 DEF Below, SamePlace
<1> QED
  BY <1>1, <1>2, <1>3 DEF Tree

\* How the parent v becomes q when u is derived: its mark goes behind u; or it
\* is locked, for a PMP region; or it stays as it is, for a client socket.
Derived(v, q, u) ==
  /\ SamePlace(v, q) /\ Shape(q) /\ Shape(u) /\ ChildKind(v, u)
  /\ v.lo <= u.lo /\ u.hi <= v.hi
  /\ \/ v.kind # "sock" /\ ~v.lck /\ v.mk <= u.lo /\ q.mk = u.hi
     \/ v.kind = "mem" /\ u.kind = "pmp" /\ v.mk <= u.lo /\ q.mk = v.mk /\ q.lck
     \/ v.kind = "sock" /\ q = v

\* W is V on L.
Kept(L, V, W) == \A x \in L : W[x] = V[x]

\* A new capability right behind its parent is in its place of the tree.
LEMMA TreeInsert ==
  ASSUME NEW S, NEW L \in SUBSET S, NEW p \in L, NEW c \in S \ L,
         NEW A \in [S -> SUBSET S], NEW B \in [S -> SUBSET S],
         NEW N, NEW P, NEW R, NEW Q, NEW V, NEW W, Numeric(V, S), Numeric(W, S),
         LinearOrder(L, A), Tree(L, A, N, R, V),
         Inserted(S, A, B, p, c),
         P[c] = N[p] \union {p}, Kept(L, N, P), Q[c] = R[p], Kept(L, R, Q), Kept(L \ {p}, V, W),
         Derived(V[p], W[p], W[c])
  PROVE  Tree(L \union {c}, B, P, Q, W)
<1> USE DEF Inserted, Kept
<1> DEFINE M == L \union {c}
<1>0. /\ c \notin L
      /\ \A x \in L : A[x] \subseteq L /\ N[x] \subseteq L /\ c \notin A[x] /\ c \notin N[x]
      /\ P[c] = N[p] \union {p} /\ \A x \in L : P[x] = N[x]
      /\ \A x \in L : SamePlace(V[x], W[x])
      /\ \A x \in M : W[x].lo \in Nat /\ W[x].mk \in Nat /\ W[x].hi \in Nat
      /\ \A x \in L : V[x].lo \in Nat /\ V[x].mk \in Nat /\ V[x].hi \in Nat
  BY DEF LinearOrder, Tree, Derived, SamePlace, Numeric
<1>1. \A x \in M : Shape(W[x])
  BY DEF Tree, Derived
<1>2. ASSUME NEW y \in L, NEW x \in P[y]
      PROVE  /\ x \in L /\ y \in B[x] /\ Q[x] = Q[y]
             /\ ChildKind(W[x], W[y]) /\ Within(W[x], W[y])
  <2>1. /\ x \in L /\ y \in A[x] /\ R[x] = R[y] /\ y \in B[x] /\ Q[x] = Q[y]
        /\ ChildKind(V[x], V[y]) /\ Within(V[x], V[y]) /\ x # y
    BY <1>0 DEF Tree, LinearOrder
  <2>2. ChildKind(W[x], W[y])
    BY <2>1, <1>0 DEF ChildKind, SamePlace
  <2>3. CASE x # p
    <3>1. W[x] = V[x]
      BY <2>1, <2>3
    <3>2. Within(V[x], W[y])
      BY <2>1, <1>0 DEF Within, SamePlace
    <3> QED
      BY <2>1, <2>2, <3>1, <3>2
  <2>4. CASE x = p
    <3>1. W[y] = V[y]
      BY <2>1, <2>4
    <3>2. Within(W[p], V[y])
      BY <2>1, <2>4, <1>0 DEF Within, SamePlace, Derived, Shape
    <3> QED
      BY <2>1, <2>2, <2>4, <3>1, <3>2
  <2> QED
    BY <2>3, <2>4
<1>3. ASSUME NEW x \in P[c]
      PROVE  /\ x \in L /\ c \in B[x] /\ Q[x] = Q[c]
             /\ ChildKind(W[x], W[c]) /\ Within(W[x], W[c])
  <2>1. CASE x = p
    BY <2>1, <1>0 DEF Derived, ChildKind, Within, SamePlace, Shape
  <2>2. CASE x \in N[p] /\ x # p
    <3>1. /\ x \in L /\ p \in A[x] /\ R[x] = R[p] /\ c \in B[x] /\ W[x] = V[x]
          /\ ChildKind(V[x], V[p]) /\ Within(V[x], V[p])
      BY <2>2, <1>0 DEF Tree
    <3>2. ChildKind(V[x], W[c])
      BY <3>1, <1>0 DEF Derived, ChildKind
    <3>3. Within(V[x], W[c])
      BY <3>1, <1>0 DEF Derived, ChildKind, Within
    <3> QED
      BY <3>1, <3>2, <3>3
  <2> QED
    BY <1>0, <1>3, <2>1, <2>2
<1>4. \A x, y, z \in M : x \in P[z] /\ y \in B[x] /\ z \in B[y] => x \in P[y]
  <2> SUFFICES ASSUME NEW x \in M, NEW y \in M, NEW z \in M,
                      x \in P[z], y \in B[x], z \in B[y]
               PROVE  x \in P[y]
    OBVIOUS
  <2>1. CASE z = c
    BY <2>1, <1>0 DEF Tree, LinearOrder
  <2>2. CASE z # c /\ y = c
    BY <2>2, <1>0 DEF Tree, LinearOrder
  <2>3. CASE z # c /\ y # c
    BY <2>3, <1>0 DEF Tree, LinearOrder
  <2> QED
    BY <2>1, <2>2, <2>3
<1>5. ASSUME NEW x \in M, NEW y \in B[x], x \notin P[y], Related(W[x], W[y], Q[x] = Q[y])
      PROVE  Below(W[x], W[y])
  <2>1. CASE x = c
    <3>1. y \in L /\ y \in A[p] /\ y # p /\ W[y] = V[y] /\ Q[y] = R[y]
      BY <2>1, <1>0 DEF LinearOrder
    <3>2. CASE p \in N[y]
      <4>1. ChildKind(V[p], V[y]) /\ Within(V[p], V[y])
        BY <3>1, <3>2 DEF Tree
      <4> QED
        BY <2>1, <3>1, <4>1, <1>0, <1>5 DEF Below, Related, Derived, ChildKind, Within
    <3>3. CASE p \notin N[y]
      <4>1. Related(V[p], V[y], R[p] = R[y])
        BY <2>1, <3>1, <1>5 DEF Related, Derived, ChildKind
      <4>2. Below(V[p], V[y])
        BY <3>1, <3>3, <4>1 DEF Tree
      <4> QED
        BY <2>1, <3>1, <4>2, <1>0 DEF Below, Derived, ChildKind
    <3> QED
      BY <3>2, <3>3
  <2>2. CASE x # c /\ y = c
    <3>1. x \in L /\ x # p /\ p \in A[x] /\ x \notin N[p] /\ W[x] = V[x] /\ Q[x] = R[x]
      BY <2>2, <1>0, <1>5
    <3>2. Related(V[x], V[p], R[x] = R[p])
      BY <2>2, <3>1, <1>5 DEF Related, Derived, ChildKind
    <3>3. Below(V[x], V[p])
      BY <3>1, <3>2 DEF Tree
    <3> QED
      BY <2>2, <3>1, <3>3, <1>0 DEF Below, Derived, ChildKind
  <2>3. CASE x # c /\ y # c
    <3>1. x \in L /\ y \in L /\ y \in A[x] /\ x \notin N[y] /\ Q[x] = R[x] /\ Q[y] = R[y]
      BY <2>3, <1>0, <1>5
    <3>2. Related(V[x], V[y], R[x] = R[y])
      BY <3>1, <1>0, <1>5 DEF Related, SamePlace
    <3>3. Below(V[x], V[y])
      BY <3>1, <3>2 DEF Tree
    <3> QED
      BY <3>1, <3>3, <1>0 DEF Below, SamePlace
  <2> QED
    BY <2>1, <2>2, <2>3
<1>6. \A y \in M : \A x \in P[y] :
        /\ x \in M /\ y \in B[x] /\ Q[x] = Q[y]
        /\ ChildKind(W[x], W[y]) /\ Within(W[x], W[y])
  BY <1>2, <1>3
<1>7. \A x \in M : \A y \in B[x] :
        x \notin P[y] /\ Related(W[x], W[y], Q[x] = Q[y]) => Below(W[x], W[y])
  BY <1>5
<1> QED
  BY <1>1, <1>4, <1>6, <1>7 DEF Tree

\* What follows a capability begins with its descendants.
LEMMA NoChildNext ==
  ASSUME NEW S, NEW L \in SUBSET S, NEW p \in L,
         NEW A \in [S -> SUBSET S], NEW N \in [S -> SUBSET S], NEW R, NEW V,
         NEW nx, NEW pv, Ring(L, A, nx, pv), Tree(L, A, N, R, V), p \notin N[nx[p]]
  PROVE  \A y \in L : p \notin N[y]
<1> SUFFICES ASSUME NEW y \in L, p \in N[y] PROVE FALSE
  OBVIOUS
<1>1. y \in A[p]
  BY DEF Tree
<1>2. nx[p] \in L /\ nx[p] \in A[p] /\ A[nx[p]] = A[p] \ {nx[p]}
  BY <1>1 DEF Ring
<1>3. y # nx[p]
  OBVIOUS
<1> QED
  BY <1>1, <1>2, <1>3 DEF Tree

-----------------------------------------------------------------------------
(* Views of capabilities.                                                  *)

\* Addresses under one tag are ordered as the blocks.
LEMMA Address ==
  ASSUME NEW t \in Nat, NEW a \in Nat, NEW b \in Nat
  PROVE  /\ tag_block_to_addr(t, a) \in Nat
         /\ tag_block_to_addr(t, a) <= tag_block_to_addr(t, b) <=> a <= b
         /\ tag_block_to_addr(t, a) < tag_block_to_addr(t, b) <=> a < b
         /\ tag_block_to_addr(t, a) = tag_block_to_addr(t, b) <=> a = b
<1>1. t * TAG_BLOCKS \in Nat
  BY CountsAssumption
<1>2. \A k \in Nat : /\ k + a \in Nat /\ (k + a <= k + b <=> a <= b)
                    /\ (k + a < k + b <=> a < b) /\ (k + a = k + b <=> a = b)
  OBVIOUS
<1> QED
  BY <1>1, <1>2 DEF tag_block_to_addr

\* The fields of a view.
LEMMA ViewFields ==
  ASSUME NEW c \in Cap
  PROVE  /\ View(c).kind = c.type
         /\ View(c).lo \in Nat /\ View(c).mk \in Nat /\ View(c).hi \in Nat
         /\ c.type \in {"time", "mon", "chan"} =>
              View(c).lo = c.bgn /\ View(c).mk = c.mrk /\ View(c).hi = c.end
         /\ c.type = "time" => View(c).key = c.hart
         /\ c.type = "mem" => /\ View(c).lo = tag_block_to_addr(c.tag, c.bgn)
                              /\ View(c).mk = tag_block_to_addr(c.tag, c.mrk)
                              /\ View(c).hi = tag_block_to_addr(c.tag, c.end)
                              /\ View(c).key = c.tag
         /\ c.type = "pmp" => View(c).lo = c.base /\ View(c).hi = c.base + c.size /\ View(c).mk = c.base
         /\ c.type = "sock" => /\ View(c).lo = c.chan /\ View(c).mk = c.chan /\ View(c).hi = c.chan + 1
                               /\ View(c).tag = c.tag
         /\ c.type \notin {"time", "mem"} => View(c).key = 0
         /\ c.type # "sock" => View(c).tag = 0
         /\ View(c).lck = (c.type = "mem" /\ c.lck)
<1>1. CASE c.type = "time"
  <2>1. c.bgn \in Nat /\ c.mrk \in Nat /\ c.end \in Nat
    BY <1>1, CapVariant DEF TimeCap
  <2> QED
    BY <1>1, <2>1 DEF View
<1>2. CASE c.type = "mem"
  <2>1. c.bgn \in Nat /\ c.mrk \in Nat /\ c.end \in Nat /\ c.tag \in Nat
    BY <1>2, CapVariant DEF MemCap
  <2>2. /\ tag_block_to_addr(c.tag, c.bgn) \in Nat
        /\ tag_block_to_addr(c.tag, c.mrk) \in Nat
        /\ tag_block_to_addr(c.tag, c.end) \in Nat
    BY <2>1, Address
  <2> QED
    BY <1>2, <2>2 DEF View
<1>3. CASE c.type = "pmp"
  <2>1. c.base \in Nat /\ c.size \in Nat
    BY <1>3, CapVariant DEF PmpCap
  <2> QED
    BY <1>3, <2>1 DEF View
<1>4. CASE c.type = "mon"
  <2>1. c.bgn \in Nat /\ c.mrk \in Nat /\ c.end \in Nat
    BY <1>4, CapVariant DEF MonCap
  <2> QED
    BY <1>4, <2>1 DEF View
<1>5. CASE c.type = "chan"
  <2>1. c.bgn \in Nat /\ c.mrk \in Nat /\ c.end \in Nat
    BY <1>5, CapVariant DEF ChanCap
  <2> QED
    BY <1>5, <2>1 DEF View
<1>6. CASE c.type = "sock"
  <2>1. c.chan \in Nat /\ c.tag \in Nat
    BY <1>6, CapVariant DEF SockCap
  <2> QED
    BY <1>6, <2>1 DEF View
<1>7. CASE c.type = "none"
  BY <1>7 DEF View
<1> QED
  BY <1>1, <1>2, <1>3, <1>4, <1>5, <1>6, <1>7, CapVariant

\* The views of the table have numbers for bounds.
LEMMA ViewNumeric ==
  ASSUME cap \in [CTE -> Cap]
  PROVE  Numeric(view, CTE) /\ \A x \in CTE : view[x] = View(cap[x]) /\ cap[x] \in Cap
BY ViewFields DEF Numeric, view

-----------------------------------------------------------------------------
(* The list operations.                                                    *)

\* The invariant but for the ends of the list.
Listed ==
  /\ LinearOrder(Live, after)
  /\ Ring(Live, after, next, prev)
  /\ Tree(Live, after, anc, root, view)

LEMMA TwoLive ==
  ASSUME Apart, NEW c
  PROVE  \E d \in Live : d # c
BY DEF Apart

\* The relations only speak of capabilities in the table.
LEMMA RelationsLive ==
  ASSUME Listed
  PROVE  /\ \A x \in Live : after[x] \subseteq Live /\ x \notin after[x]
         /\ \A x \in Live : anc[x] \subseteq Live /\ x \notin anc[x]
<1>1. \A x \in Live : after[x] \subseteq Live /\ x \notin after[x]
  BY DEF Listed, LinearOrder
<1>2. \A y \in Live : \A x \in anc[y] : x \in Live /\ y \in after[x]
  BY DEF Listed, Tree
<1> QED
  BY <1>1, <1>2

\* Writing to a capability that stays in its place.
LEMMA WriteTree ==
  ASSUME Listed, UNCHANGED listVars, Live' = Live, \A x \in Live : view'[x] = view[x], TypeOK
  PROVE  Listed'
<1>1. LinearOrder(Live', after') /\ Ring(Live', after', next', prev')
  BY DEF Listed, listVars
<1>2. \A x \in Live : after[x] \subseteq Live /\ anc[x] \subseteq Live
  BY RelationsLive
<1> DEFINE f == [x \in Live |-> x]
<1>3. f \in [Live -> Live] /\ \A x \in Live : f[x] = x
  OBVIOUS
<1> HIDE DEF f
<1>4. /\ Names(Live, Live, f) /\ Embeds(Live, f, after, after) /\ Embeds(Live, f, anc, anc)
      /\ Agrees(Live, f, root, root) /\ Agrees(Live, f, view, view')
  BY <1>2, <1>3 DEF Names, Embeds, Agrees
<1>5. Tree(Live, after, anc, root, view')
  BY <1>4, TreeEmbeds DEF Listed
<1> QED
  BY <1>1, <1>5 DEF Listed, listVars

\* Taking c out of the list leaves a ring and a tree.
LEMMA DeleteList ==
  ASSUME TypeOK, Listed, Apart, NEW c \in Live, cte_delete(c)
  PROVE  /\ LinearOrder(Live \ {c}, after')
         /\ Ring(Live \ {c}, after', next', prev')
         /\ Tree(Live \ {c}, after', anc', root', view)
<1> DEFINE M == Live \ {c}
           f == [x \in M |-> x]
<1>1. c \in CTE /\ Live \in SUBSET CTE /\ M \in SUBSET CTE
  BY DEF Live
<1>2. /\ after \in [CTE -> SUBSET CTE] /\ anc \in [CTE -> SUBSET CTE]
      /\ next \in [CTE -> CTE] /\ prev \in [CTE -> CTE]
      /\ after' \in [CTE -> SUBSET CTE] /\ anc' \in [CTE -> SUBSET CTE]
  BY <1>1, DeleteTyped DEF TypeOK, ListTypes
<1>3. \A x \in M : after'[x] = after[x] \ {c} /\ anc'[x] = anc[x] \ {c}
  BY <1>1 DEF cte_delete, Forget
<1>4. f \in [M -> Live] /\ \A x \in M : f[x] = x
  OBVIOUS
<1>5. \A x \in M : after'[x] \subseteq M /\ anc'[x] \subseteq M
  BY <1>3, RelationsLive
<1> HIDE DEF f
<1>e. /\ Names(M, Live, f) /\ Embeds(M, f, after, after') /\ Embeds(M, f, anc, anc')
      /\ Agrees(M, f, root, root') /\ Agrees(M, f, view, view)
  <2>1. root' = root
    BY DEF cte_delete
  <2> QED
    BY <2>1, <1>3, <1>4, <1>5 DEF Names, Embeds, Agrees
<1>6. LinearOrder(M, after')
  BY <1>e, OrderEmbeds DEF Listed
<1>7. Tree(M, after', anc', root', view)
  BY <1>e, TreeEmbeds DEF Listed
<1>8. Ring(M, after', next', prev')
  <2>1. PICK d \in Live : d # c
    BY TwoLive
  <2>2. next' = [next EXCEPT ![prev[c]] = next[c]] /\ prev' = [prev EXCEPT ![next[c]] = prev[c]]
    BY DEF cte_delete
  <2> QED
    BY <2>1, <2>2, <1>1, <1>2, <1>3, RingDelete DEF Listed
<1> QED
  BY <1>6, <1>7, <1>8

LEMMA DeleteTree ==
  ASSUME TypeOK, Listed, Apart, NEW c \in Live, cte_delete(c),
         Live' = Live \ {c}, \A x \in Live \ {c} : view'[x] = view[x]
  PROVE  Listed'
<1> DEFINE M == Live \ {c}
           f == [x \in M |-> x]
<1>3. /\ LinearOrder(M, after') /\ Ring(M, after', next', prev')
      /\ Tree(M, after', anc', root', view)
  BY DeleteList
<1>4. \A x \in M : after'[x] \subseteq M /\ anc'[x] \subseteq M
  BY <1>3 DEF LinearOrder, Tree
<1>5. f \in [M -> M] /\ \A x \in M : f[x] = x
  OBVIOUS
<1> HIDE DEF f
<1>e. /\ Names(M, M, f) /\ Embeds(M, f, after', after') /\ Embeds(M, f, anc', anc')
      /\ Agrees(M, f, root', root') /\ Agrees(M, f, view, view')
  BY <1>4, <1>5 DEF Names, Embeds, Agrees
<1>6. Tree(M, after', anc', root', view')
  BY <1>3, <1>e, TreeEmbeds
<1> QED
  BY <1>3, <1>6 DEF Listed

\* The names of the entries before src was moved to dst.
Moves(M, f, src, dst) == f = [x \in M |-> IF x = dst THEN src ELSE x]

\* A relation in which dst has taken the place of src.
LEMMA Renamed ==
  ASSUME NEW L \in SUBSET CTE, NEW src \in L, NEW dst \in CTE \ L,
         NEW rel \in [CTE -> SUBSET CTE], \A x \in L : rel[x] \subseteq L /\ x \notin rel[x],
         NEW M, M = (L \ {src}) \union {dst}, NEW f, Moves(M, f, src, dst)
  PROVE  Embeds(M, f, rel, Rename(rel, src, dst))
<1> USE DEF Moves
<1>1. \A x \in M : Rename(rel, src, dst)[x] = Swap(rel[f[x]], src, dst)
  BY DEF Rename
<1>2. \A x \in M : f[x] \in L /\ (f[x] = src <=> x = dst) /\ (x # dst => f[x] = x) /\ x # src
  OBVIOUS
<1>3. ASSUME NEW x \in M
      PROVE  /\ Rename(rel, src, dst)[x] \subseteq M
             /\ \A y \in M : y \in Rename(rel, src, dst)[x] <=> f[y] \in rel[f[x]]
  <2> DEFINE X == rel[f[x]]
  <2> HIDE DEF X
  <2>0. Rename(rel, src, dst)[x] = Swap(X, src, dst)
    BY <1>1 DEF X
  <2>1. X \subseteq L
    BY <1>2, <1>3 DEF X
  <2>2. \A y \in M : y \in Swap(X, src, dst) <=> f[y] \in X
    BY <1>2, <2>1 DEF Swap
  <2>3. Swap(X, src, dst) \subseteq M
    BY <2>1 DEF Swap
  <2> QED
    BY <2>0, <2>2, <2>3 DEF X
<1> QED
  BY <1>3 DEF Embeds

\* Moving a capability to an empty slot.
LEMMA MoveTree ==
  ASSUME TypeOK, Listed, Apart, NEW src \in Live, NEW dst \in CTE \ Live, cte_move(src, dst),
         Live' = (Live \ {src}) \union {dst},
         view'[dst] = view[src], \A x \in Live \ {src} : view'[x] = view[x]
  PROVE  Listed'
<1> DEFINE M == (Live \ {src}) \union {dst}
           f == [x \in M |-> IF x = dst THEN src ELSE x]
           g == [x \in Live |-> IF x = src THEN dst ELSE x]
<1>1. /\ src \in CTE /\ Live \in SUBSET CTE /\ M \in SUBSET CTE
      /\ src \notin M /\ dst \notin Live /\ dst \in M
  BY DEF Live
<1>2. /\ after \in [CTE -> SUBSET CTE] /\ anc \in [CTE -> SUBSET CTE]
      /\ next \in [CTE -> CTE] /\ prev \in [CTE -> CTE] /\ root \in [CTE -> 1..CAP_CNT]
      /\ after' \in [CTE -> SUBSET CTE] /\ anc' \in [CTE -> SUBSET CTE]
      /\ next' \in [CTE -> CTE] /\ prev' \in [CTE -> CTE]
  BY <1>1, MoveTyped DEF TypeOK, ListTypes
<1>3. /\ f \in [M -> Live] /\ f[dst] = src /\ \A x \in M : x # dst => f[x] = x
      /\ g \in [Live -> M] /\ \A z \in Live : f[g[z]] = z
  BY <1>1
<1>m. Moves(M, f, src, dst)
  BY DEF Moves
<1> HIDE DEF f, g
<1>n. Names(M, Live, f)
  BY <1>1, <1>3 DEF Names
<1>8. \A x \in Live : after[x] \subseteq Live /\ x \notin after[x] /\ anc[x] \subseteq Live /\ x \notin anc[x]
  BY RelationsLive
<1>4. Embeds(M, f, after, after')
  <2>1. after' = Rename(after, src, dst)
    BY DEF cte_move
  <2> QED
    BY <2>1, <1>1, <1>2, <1>m, <1>8, Renamed
<1>5. Embeds(M, f, anc, anc')
  <2>1. anc' = Rename(anc, src, dst)
    BY DEF cte_move
  <2> QED
    BY <2>1, <1>1, <1>2, <1>m, <1>8, Renamed
<1>6. Agrees(M, f, root, root') /\ Agrees(M, f, view, view')
  BY <1>1, <1>2, <1>3 DEF cte_move, Agrees
<1>7. Follows(M, f, next', next) /\ Follows(M, f, prev', prev)
  <2>1. PICK d \in Live : d # src
    BY TwoLive
  <2>2. next[src] \in Live \ {src} /\ prev[src] \in Live \ {src}
    BY <2>1, <1>1, <1>2, RingNeighbours DEF Listed
  <2>3. /\ next'[dst] = next[src] /\ next'[prev[src]] = dst
        /\ \A x \in CTE : x # dst /\ x # prev[src] => next'[x] = next[x]
    BY <2>2, <1>1, <1>2 DEF cte_move
  <2>4. /\ prev'[dst] = prev[src] /\ prev'[next[src]] = dst
        /\ \A x \in CTE : x # dst /\ x # next[src] => prev'[x] = prev[x]
    BY <2>2, <2>3, <1>1, <1>2 DEF cte_move
  <2>5. \A x \in Live : /\ next[x] \in Live /\ prev[x] \in Live
                        /\ prev[next[x]] = x /\ next[prev[x]] = x
    BY DEF Listed, Ring
  <2>6. \A x \in M : next'[x] \in M /\ f[next'[x]] = next[f[x]]
    BY <2>2, <2>3, <2>5, <1>1, <1>3
  <2>7. \A x \in M : prev'[x] \in M /\ f[prev'[x]] = prev[f[x]]
    BY <2>2, <2>4, <2>5, <1>1, <1>3
  <2> QED
    BY <2>6, <2>7 DEF Follows
<1>9. LinearOrder(M, after')
  BY <1>n, <1>4, OrderEmbeds DEF Listed
<1>10. Tree(M, after', anc', root', view')
  BY <1>n, <1>4, <1>5, <1>6, TreeEmbeds DEF Listed
<1>11. Ring(M, after', next', prev')
  BY <1>n, <1>3, <1>4, <1>7, <1>8, RingRenamed DEF Listed
<1> QED
  BY <1>9, <1>10, <1>11 DEF Listed

\* Deriving a capability.
LEMMA InsertTree ==
  ASSUME TypeOK, cap' \in [CTE -> Cap], Listed,
         NEW p \in Live, NEW c \in CTE \ Live, cte_insert(c, p),
         Live' = Live \union {c}, \A x \in Live \ {p} : view'[x] = view[x],
         Derived(view[p], view'[p], view'[c])
  PROVE  Listed'
<1>1. Live \in SUBSET CTE /\ p \in CTE /\ p # c
  BY DEF Live
<1>2. /\ after \in [CTE -> SUBSET CTE] /\ anc \in [CTE -> SUBSET CTE]
      /\ next \in [CTE -> CTE] /\ prev \in [CTE -> CTE] /\ root \in [CTE -> 1..CAP_CNT]
      /\ after' \in [CTE -> SUBSET CTE] /\ anc' \in [CTE -> SUBSET CTE]
  BY <1>1, InsertTyped DEF TypeOK, ListTypes
<1>3. /\ Inserted(CTE, after, after', p, c)
      /\ anc' = [anc EXCEPT ![c] = anc[p] \union {p}]
      /\ next' = [next EXCEPT ![c] = next[p], ![p] = c]
      /\ prev' = [prev EXCEPT ![c] = p, ![next[p]] = c]
  BY DEF cte_insert, Inserted
<1>4. root'[c] = root[p] /\ \A x \in Live : root'[x] = root[x]
  BY <1>1, <1>2 DEF cte_insert
<1>5. Numeric(view, CTE) /\ Numeric(view', CTE)
  BY ViewFields DEF Numeric, view, TypeOK
<1>6. LinearOrder(Live', after')
  BY <1>1, <1>2, <1>3, OrderInsert DEF Listed
<1>7. Ring(Live', after', next', prev')
  BY <1>1, <1>2, <1>3, RingInsert DEF Listed
<1>8. Tree(Live', after', anc', root', view')
  <2>1. Kept(Live, root, root') /\ Kept(Live \ {p}, view, view') /\ Kept(Live, anc, anc')
    BY <1>1, <1>2, <1>3, <1>4 DEF Kept
  <2>3. anc'[c] = anc[p] \union {p}
    BY <1>2, <1>3
  <2>4. LinearOrder(Live, after) /\ Tree(Live, after, anc, root, view)
    BY DEF Listed
  <2>2. Tree(Live \union {c}, after', anc', root', view')
    BY <2>1, <2>3, <2>4, <1>1, <1>2, <1>3, <1>4, <1>5, TreeInsert
  <2> QED
    BY <2>2
<1> QED
  BY <1>6, <1>7, <1>8 DEF Listed

-----------------------------------------------------------------------------
(* What writing a descriptor does to the views.                            *)

LEMMA OneWrite ==
  ASSUME cap \in [CTE -> Cap], NEW x \in CTE, NEW u \in Cap, cap' = [cap EXCEPT ![x] = u]
  PROVE  /\ view'[x] = View(u) /\ \A y \in CTE \ {x} : view'[y] = view[y]
         /\ u.type = "none" => Live' = Live \ {x}
         /\ u.type # "none" /\ x \in Live => Live' = Live
<1>1. cap'[x] = u /\ \A y \in CTE \ {x} : cap'[y] = cap[y]
  OBVIOUS
<1> QED
  BY <1>1 DEF view, Live

\* u is written to x and v to z.
Writes(x, u, z, v) == cap' = [cap EXCEPT ![x] = u, ![z] = v]

LEMMA TwoWrites ==
  ASSUME cap \in [CTE -> Cap], NEW x \in CTE, NEW z \in CTE, x # z, NEW u \in Cap, NEW v \in Cap,
         Writes(x, u, z, v)
  PROVE  /\ cap' \in [CTE -> Cap] /\ cap'[x] = u /\ cap'[z] = v
         /\ view'[x] = View(u) /\ view'[z] = View(v)
         /\ \A y \in CTE \ {x, z} : view'[y] = view[y] /\ cap'[y] = cap[y]
         /\ u.type = "none" /\ v.type # "none" => Live' = (Live \ {x}) \union {z}
         /\ u.type # "none" /\ v.type # "none" /\ x \in Live => Live' = Live \union {z}
<1>1. cap'[x] = u /\ cap'[z] = v /\ \A y \in CTE \ {x, z} : cap'[y] = cap[y]
  BY DEF Writes
<1>2. cap' \in [CTE -> Cap]
  BY DEF Writes
<1> QED
  BY <1>1, <1>2 DEF view, Live

\* A descriptor with another mark.
LEMMA ViewMark ==
  ASSUME NEW c \in Cap, c.type \in {"time", "mon", "chan"}, NEW m \in Nat
  PROVE  /\ [c EXCEPT !.mrk = m] \in Cap /\ [c EXCEPT !.mrk = m].type = c.type
         /\ SamePlace(View(c), View([c EXCEPT !.mrk = m]))
         /\ View([c EXCEPT !.mrk = m]).mk = m /\ ~View([c EXCEPT !.mrk = m]).lck
<1> DEFINE d == [c EXCEPT !.mrk = m]
<1>1. /\ d.type = c.type /\ d.bgn = c.bgn /\ d.end = c.end /\ d.mrk = m
      /\ (c.type = "time" => d.hart = c.hart)
  BY CapVariant DEF TimeCap, MonCap, ChanCap
<1>2. d \in Cap
  BY CapVariant, CapUpdate DEF Cap
<1> HIDE DEF d
<1>3. SamePlace(View(c), View(d)) /\ View(d).mk = m /\ ~View(d).lck
  BY <1>1, <1>2, ViewFields DEF SamePlace
<1> QED
  BY <1>1, <1>2, <1>3 DEF d

\* A memory descriptor with another mark and lock.
Relocked(c, m, l) == [c EXCEPT !.mrk = m, !.lck = l]

LEMMA ViewLock ==
  ASSUME NEW c \in Cap, c.type = "mem", NEW m \in Nat, NEW l \in BOOLEAN,
         NEW d, d = Relocked(c, m, l)
  PROVE  /\ d \in Cap /\ d.type = "mem" /\ SamePlace(View(c), View(d))
         /\ View(d).mk = tag_block_to_addr(c.tag, m) /\ View(d).lck = l
<1>1. c \in MemCap
  BY CapVariant
<1>2. /\ d \in MemCap /\ d.tag = c.tag /\ d.bgn = c.bgn /\ d.end = c.end
      /\ d.mrk = m /\ d.lck = l
  BY <1>1 DEF MemCap, Relocked
<1>3. d \in Cap /\ d.type = "mem"
  BY <1>2 DEF MemCap, Cap
<1>4. SamePlace(View(c), View(d)) /\ View(d).mk = tag_block_to_addr(c.tag, m) /\ View(d).lck = l
  BY <1>2, <1>3, ViewFields DEF SamePlace
<1> QED
  BY <1>3, <1>4

\* Whether and where a PMP capability is in use is not seen.
Reused(c, u, i) == [c EXCEPT !.used = u, !.slot = i]

LEMMA ViewUse ==
  ASSUME NEW c \in Cap, c.type = "pmp", NEW u \in BOOLEAN, NEW i \in PmpSlots,
         NEW d, d = Reused(c, u, i)
  PROVE  d \in Cap /\ d.type = "pmp" /\ View(d) = View(c)
<1>1. c \in PmpCap
  BY CapVariant
<1>2. d \in PmpCap /\ d.type = "pmp" /\ d.base = c.base /\ d.size = c.size
  BY <1>1 DEF PmpCap, Reused
<1>3. d \in Cap
  BY <1>2 DEF Cap
<1> QED
  BY <1>2, <1>3 DEF View

-----------------------------------------------------------------------------
(* Moving, deleting and mapping.                                           *)

LEMMA CapMoveTree ==
  ASSUME TypeInv, Listed, Apart, NEW src \in CTE, NEW dst \in CTE, cap_move(src, dst)
  PROVE  Listed'
<1>1. TypeOK /\ cap \in [CTE -> Cap]
  BY DEF TypeInv, TypeOK
<1>2. src \in Live /\ dst \notin Live /\ src # dst /\ cte_move(src, dst)
  BY DEF cap_move, cte_is_empty, Live
<1>3. cap[src] \in Cap /\ cap[src].type # "none"
  BY <1>1, <1>2 DEF Live
<1>4. \E u \in Cap : /\ cap' = [cap EXCEPT ![src] = NoCap, ![dst] = u]
                     /\ u.type # "none" /\ View(u) = View(cap[src])
  <2>1. CASE cap' = [cap EXCEPT ![src] = NoCap, ![dst] = cap[src]]
    BY <2>1, <1>3
  <2>2. CASE cap[src].type = "pmp" /\ cap_ipc_move_hook(src, dst)
    <3> DEFINE c == cap[src]
               i == IF c.used THEN 0 ELSE c.slot
    <3>1. c \in PmpCap /\ c \in Cap /\ c.type = "pmp"
      BY <1>3, <2>2, CapVariant
    <3>2. i \in PmpSlots
      BY <3>1, CountsAssumption DEF PmpCap, PmpSlots
    <3>3. cap' = [cap EXCEPT ![src] = NoCap, ![dst] = Reused(c, FALSE, i)]
      BY <2>2 DEF cap_ipc_move_hook, Reused
    <3> HIDE DEF c, i
    <3>4. PICK d : d = Reused(c, FALSE, i)
      OBVIOUS
    <3>5. d \in Cap /\ d.type = "pmp" /\ View(d) = View(c)
      <4>1. FALSE \in BOOLEAN
        OBVIOUS
      <4> QED
        BY <4>1, <3>1, <3>2, <3>4, ViewUse
    <3>6. cap' = [cap EXCEPT ![src] = NoCap, ![dst] = d]
      BY <3>3, <3>4
    <3> QED
      BY <3>5, <3>6 DEF c
  <2>3. CASE cap[src].type # "pmp" /\ cap_ipc_move_hook(src, dst)
    BY <2>1, <2>3 DEF cap_ipc_move_hook
  <2> QED
    BY <2>1, <2>2, <2>3 DEF cap_move
<1>5. PICK u \in Cap : /\ cap' = [cap EXCEPT ![src] = NoCap, ![dst] = u]
                      /\ u.type # "none" /\ View(u) = View(cap[src])
  BY <1>4
<1>6. /\ view'[dst] = View(u) /\ Live' = (Live \ {src}) \union {dst}
      /\ \A y \in CTE \ {src, dst} : view'[y] = view[y]
  <2>1. Writes(src, NoCap, dst, u) /\ NoCap \in Cap /\ NoCap.type = "none"
    BY <1>5, NoCapTyped DEF Writes
  <2> QED
    BY <2>1, <1>1, <1>2, <1>5, TwoWrites
<1>7. view[src] = View(cap[src]) /\ Live \subseteq CTE
  BY DEF view, Live
<1>8. \A y \in Live \ {src} : view'[y] = view[y]
  BY <1>2, <1>6, <1>7
<1>9. view'[dst] = view[src] /\ dst \in CTE \ Live
  BY <1>2, <1>5, <1>6, <1>7
<1> QED
  BY <1>1, <1>2, <1>6, <1>8, <1>9, MoveTree

LEMMA CapDeleteTree ==
  ASSUME TypeInv, Listed, Apart, NEW c \in CTE, cap_delete(c)
  PROVE  Listed'
<1>1. TypeOK /\ cap \in [CTE -> Cap] /\ Live \subseteq CTE
  BY DEF TypeInv, TypeOK, Live
<1>2. c \in Live /\ cte_delete(c) /\ cap' = [cap EXCEPT ![c] = NoCap]
  BY DEF cap_delete, cte_is_empty, Live
<1>3. Live' = Live \ {c} /\ \A y \in CTE \ {c} : view'[y] = view[y]
  BY <1>1, <1>2, OneWrite, NoCapTyped
<1> QED
  BY <1>1, <1>2, <1>3, DeleteTree

LEMMA PmpTree ==
  ASSUME TypeInv, Listed, NEW c \in CTE,
         (\E slot \in PmpSlots : cap_pmp_load(c, slot)) \/ cap_pmp_unload(c)
  PROVE  Listed'
<1>1. TypeOK /\ cap \in [CTE -> Cap] /\ Live \subseteq CTE
  BY DEF TypeInv, TypeOK, Live
<1>2. PICK u \in BOOLEAN, i \in PmpSlots :
        cap[c].type = "pmp" /\ cap' = [cap EXCEPT ![c] = Reused(cap[c], u, i)]
  <2>1. 0 \in PmpSlots /\ TRUE \in BOOLEAN /\ FALSE \in BOOLEAN
    BY CountsAssumption DEF PmpSlots
  <2>2. CASE \E slot \in PmpSlots : cap_pmp_load(c, slot)
    BY <2>1, <2>2 DEF cap_pmp_load, Reused
  <2>3. CASE cap_pmp_unload(c)
    BY <2>1, <2>3 DEF cap_pmp_unload, Reused
  <2> QED
    BY <2>2, <2>3
<1>3. UNCHANGED listVars
  BY DEF cap_pmp_load, cap_pmp_unload
<1>4. c \in Live /\ cap[c] \in Cap
  BY <1>1, <1>2 DEF Live
<1>5. PICK d : d = Reused(cap[c], u, i)
  OBVIOUS
<1>6. d \in Cap /\ d.type = "pmp" /\ View(d) = View(cap[c])
  BY <1>2, <1>4, <1>5, ViewUse
<1>7. Live' = Live /\ \A x \in Live : view'[x] = view[x]
  <2>1. cap' = [cap EXCEPT ![c] = d] /\ d.type # "none" /\ d \in Cap
    BY <1>2, <1>5, <1>6
  <2>2. Live' = Live /\ view'[c] = View(d) /\ \A y \in CTE \ {c} : view'[y] = view[y]
    BY <2>1, <1>1, <1>4, OneWrite
  <2>3. view[c] = View(cap[c])
    BY DEF view
  <2> QED
    BY <2>2, <2>3, <1>1, <1>6
<1> QED
  BY <1>1, <1>3, <1>7, WriteTree

-----------------------------------------------------------------------------
(* Revocation.                                                             *)

\* The test for a child in terms of views.
Takes(u, v) ==
  \/ u.kind = "time" /\ v.kind = "time" /\ u.key = v.key /\ u.lo <= v.lo /\ v.hi <= u.hi
  \/ u.kind = "mem" /\ v.kind = "mem" /\ u.key = v.key /\ u.lo <= v.lo
  \/ u.kind = "mem" /\ v.kind = "pmp" /\ u.lo <= v.lo
  \/ u.kind = "mon" /\ v.kind = "mon" /\ u.key = v.key /\ u.lo <= v.lo
  \/ u.kind = "chan" /\ v.kind \in {"chan", "sock"} /\ u.lo <= v.lo
  \/ u.kind = "sock" /\ v.kind = "sock" /\ u.tag = 0 /\ u.lo = v.lo

LEMMA RevokesView ==
  ASSUME NEW c \in Cap, NEW d \in Cap
  PROVE  revokes(c, d) <=> Takes(View(c), View(d))
<1>1. CASE c.type = "time"
  BY <1>1, ViewFields DEF revokes, Takes, time_child
<1>2. CASE c.type = "mem"
  <2>1. c.bgn \in Nat /\ c.tag \in Nat
    BY <1>2, CapVariant DEF MemCap
  <2>2. CASE d.type = "mem" /\ d.tag = c.tag
    <3>1. d.bgn \in Nat
      BY <2>2, CapVariant DEF MemCap
    <3>2. View(c).lo <= View(d).lo <=> c.bgn <= d.bgn
      <4>1. /\ View(c).lo = tag_block_to_addr(c.tag, c.bgn)
            /\ View(d).lo = tag_block_to_addr(c.tag, d.bgn)
        BY <2>2, <1>2, ViewFields
      <4>2. tag_block_to_addr(c.tag, c.bgn) <= tag_block_to_addr(c.tag, d.bgn) <=> c.bgn <= d.bgn
        BY <2>1, <3>1, Address
      <4> QED
        BY <4>1, <4>2
    <3> QED
      BY <3>2, <2>2, <1>2, ViewFields DEF revokes, Takes, memory_child, pmp_child
  <2>3. CASE d.type = "mem" /\ d.tag # c.tag
    BY <2>3, <1>2, ViewFields DEF revokes, Takes, memory_child, pmp_child
  <2>4. CASE d.type # "mem"
    BY <2>4, <1>2, ViewFields DEF revokes, Takes, memory_child, pmp_child
  <2> QED
    BY <2>2, <2>3, <2>4
<1>3. CASE c.type = "mon"
  BY <1>3, ViewFields DEF revokes, Takes, monitor_child
<1>4. CASE c.type = "chan"
  BY <1>4, ViewFields DEF revokes, Takes, channel_child, chan_sock_child
<1>5. CASE c.type = "sock"
  BY <1>5, ViewFields DEF revokes, Takes, socket_child
<1>6. CASE c.type \in {"pmp", "none"}
  BY <1>6, ViewFields DEF revokes, Takes
<1> QED
  BY <1>1, <1>2, <1>3, <1>4, <1>5, <1>6, CapVariant

\* A descendant passes the test.
LEMMA ChildTakes ==
  ASSUME NEW u, NEW v, ChildKind(u, v), Within(u, v)
  PROVE  Takes(u, v)
BY DEF ChildKind, Within, Takes

\* Behind a capability only a descendant passes it, but for PMP regions of other
\* boot capabilities.
LEMMA TakesChild ==
  ASSUME NEW S, NEW L \in SUBSET S, NEW p \in L, NEW q \in L,
         NEW A \in [S -> SUBSET S], NEW N \in [S -> SUBSET S], NEW R, NEW V, Numeric(V, S),
         Tree(L, A, N, R, V), q \in A[p], Takes(V[p], V[q]),
         V[q].kind = "pmp" => R[p] = R[q]
  PROVE  p \in N[q]
<1> SUFFICES ASSUME p \notin N[q] PROVE FALSE
  OBVIOUS
<1>1. Related(V[p], V[q], R[p] = R[q])
  <2>1. CASE V[q].kind = "pmp"
    BY <2>1 DEF Takes, Related
  <2>2. CASE V[q].kind = "mem"
    BY <2>2 DEF Takes, Related
  <2>3. CASE V[q].kind \notin {"pmp", "mem"}
    BY <2>3 DEF Takes, Related
  <2> QED
    BY <2>1, <2>2, <2>3
<1>2. Below(V[p], V[q])
  BY <1>1 DEF Tree
<1>3. Shape(V[q]) /\ V[p].lo \in Nat /\ V[q].lo \in Nat /\ V[q].hi \in Nat
  BY DEF Tree, Numeric
<1>4. V[p].lo <= V[q].lo
  BY <1>3 DEF Takes
<1> QED
  BY <1>2, <1>3, <1>4 DEF Below, Shape, Takes

\* When the first child q is gone, the other descendants of its parent lie within
\* what q leaves of it.
LEMMA TreeAbsorb ==
  ASSUME NEW S, NEW L \in SUBSET S, NEW p \in L, NEW q \in L,
         NEW A \in [S -> SUBSET S], NEW N \in [S -> SUBSET S], NEW R, NEW V, Numeric(V, S),
         LinearOrder(L, A), Tree(L, A, N, R, V), A[q] = A[p] \ {q}, p \in N[q],
         V[q].kind = V[p].kind, V[p].kind # "sock",
         NEW w, SamePlace(V[p], w), w.mk = V[q].mk, w.lck = V[q].lck
  PROVE  Shape(w) /\ \A y \in L \ {p, q} : p \in N[y] => Within(w, V[y])
<1>1. ChildKind(V[p], V[q]) /\ Within(V[p], V[q]) /\ R[p] = R[q] /\ Shape(V[p]) /\ Shape(V[q])
  BY DEF Tree
<1>2. \A x \in L : V[x].lo \in Nat /\ V[x].mk \in Nat /\ V[x].hi \in Nat
  BY DEF Numeric
<1>3. V[p].kind # "pmp" /\ V[q].hi <= V[p].mk
  BY <1>1 DEF ChildKind, Within
<1>4. Shape(w)
  BY <1>1, <1>2, <1>3 DEF Shape, SamePlace, Within
<1>5. ASSUME NEW y \in L \ {p, q}, p \in N[y]
      PROVE  Within(w, V[y])
  <2>1. /\ y \in A[p] /\ R[p] = R[y] /\ ChildKind(V[p], V[y]) /\ Within(V[p], V[y])
        /\ Shape(V[y])
    BY <1>5 DEF Tree
  <2>2. y \in A[q]
    BY <2>1
  <2>3. CASE q \in N[y]
    <3>1. Within(V[q], V[y])
      BY <2>3 DEF Tree
    <3> QED
      BY <3>1, <2>1 DEF Within, SamePlace
  <2>4. CASE q \notin N[y]
    <3>1. Related(V[q], V[y], R[q] = R[y])
      BY <1>1, <2>1 DEF Related, ChildKind
    <3>2. Below(V[q], V[y])
      BY <2>2, <2>4, <3>1 DEF Tree
    <3>3. V[y].hi <= V[q].lo
      BY <3>2 DEF Below
    <3> QED
      BY <3>3, <2>1, <1>1, <1>2 DEF Within, SamePlace, Shape
  <2> QED
    BY <2>3, <2>4
<1> QED
  BY <1>4, <1>5

\* The entry behind the tail is the head.
LEMMA EndsApart ==
  ASSUME Listed, Apart, NEW x \in Live, after[x] = {}
  PROVE  root[next[x]] # root[x] /\ ~SameResource(cap[next[x]], cap[x])
<1>1. PICK head \in Live, tail \in Live :
        /\ after[head] = Live \ {head} /\ after[tail] = {}
        /\ root[head] # root[tail] /\ ~SameResource(cap[head], cap[tail])
  BY DEF Apart
<1>2. x = tail
  BY <1>1 DEF Listed, LinearOrder
<1>3. next[x] \in Live /\ after[next[x]] = Live \ {next[x]}
  BY DEF Listed, Ring
<1>4. next[x] = head
  BY <1>1, <1>3 DEF Listed, LinearOrder
<1> QED
  BY <1>1, <1>2, <1>4

LEMMA TakesSameResource ==
  ASSUME NEW c \in Cap, NEW d \in Cap, revokes(c, d), d.type # "pmp"
  PROVE  SameResource(d, c)
BY CapVariant DEF revokes, SameResource, time_child, memory_child, pmp_child, monitor_child,
     channel_child, chan_sock_child, socket_child

\* What a revocation deletes is derived from the parent, but for PMP regions of
\* other boot capabilities.
LEMMA VictimDerived ==
  ASSUME TypeOK, Listed, Apart, NEW x \in Live, revokes(cap[x], cap[next[x]]),
         cap[next[x]].type = "pmp" => root[x] = root[next[x]]
  PROVE  x \in anc[next[x]] /\ next[x] \in after[x] /\ after[next[x]] = after[x] \ {next[x]}
<1>1. next[x] \in Live /\ Live \in SUBSET CTE /\ x \in CTE /\ next[x] \in CTE
  BY DEF Listed, Ring, Live
<1>2. cap[x] \in Cap /\ cap[next[x]] \in Cap /\ view[x] = View(cap[x])
      /\ view[next[x]] = View(cap[next[x]]) /\ Numeric(view, CTE)
  BY <1>1, ViewNumeric DEF TypeOK
<1>3. after[x] # {}
  BY <1>2, EndsApart, TakesSameResource
<1>4. next[x] \in after[x] /\ after[next[x]] = after[x] \ {next[x]}
  BY <1>3 DEF Listed, Ring
<1>5. Takes(view[x], view[next[x]]) /\ (view[next[x]].kind = "pmp" => root[x] = root[next[x]])
  BY <1>2, RevokesView, ViewFields
<1>6. after \in [CTE -> SUBSET CTE] /\ anc \in [CTE -> SUBSET CTE]
  BY DEF TypeOK
<1>7. x \in anc[next[x]]
  BY <1>1, <1>2, <1>4, <1>5, <1>6, TakesChild DEF Listed
<1> QED
  BY <1>4, <1>7

\* When it deletes nothing, nothing derived from the parent is left.
LEMMA NoVictimNoDescendants ==
  ASSUME TypeOK, Listed, NEW x \in Live, ~revokes(cap[x], cap[next[x]])
  PROVE  Descendants(x) = {}
<1>1. next[x] \in Live /\ Live \in SUBSET CTE /\ x \in CTE /\ next[x] \in CTE
  BY DEF Listed, Ring, Live
<1>2. cap[x] \in Cap /\ cap[next[x]] \in Cap /\ view[x] = View(cap[x])
      /\ view[next[x]] = View(cap[next[x]])
  BY <1>1, ViewNumeric DEF TypeOK
<1>3. ~Takes(view[x], view[next[x]])
  BY <1>2, RevokesView
<1>4. x \notin anc[next[x]]
  BY <1>1, <1>3, ChildTakes DEF Listed, Tree
<1>5. after \in [CTE -> SUBSET CTE] /\ anc \in [CTE -> SUBSET CTE]
  BY DEF TypeOK
<1>6. \A y \in Live : x \notin anc[y]
  BY <1>1, <1>4, <1>5, NoChildNext DEF Listed
<1> QED
  BY <1>6 DEF Descendants

LEMMA AbsorbTree ==
  ASSUME TypeOK, Listed, Apart, NEW p \in Live, revokes(cap[p], cap[next[p]]),
         cap[next[p]].type = cap[p].type, cap[p].type # "sock",
         NEW u \in Cap, u.type # "none", absorb(p, next[p], u), SamePlace(View(cap[p]), View(u)),
         View(u).mk = View(cap[next[p]]).mk, View(u).lck = View(cap[next[p]]).lck
  PROVE  Listed'
<1> DEFINE q == next[p]
           M == Live \ {q}
<1>1. q \in Live /\ Live \in SUBSET CTE /\ p \in CTE /\ q \in CTE
  BY DEF Listed, Ring, Live
<1>2. cap \in [CTE -> Cap] /\ cap[p] \in Cap /\ cap[q] \in Cap
  BY <1>1 DEF TypeOK
<1>3. Numeric(view, CTE) /\ view[p] = View(cap[p]) /\ view[q] = View(cap[q])
  BY <1>1, <1>2, ViewNumeric
<1>4. cap[q].type # "pmp"
  BY <1>2 DEF revokes
<1>5. p \in anc[q] /\ q \in after[p] /\ after[q] = after[p] \ {q}
  BY <1>4, VictimDerived
<1>6. p # q
  BY <1>5, RelationsLive
<1>7. /\ Writes(q, NoCap, p, u) /\ NoCap \in Cap /\ NoCap.type = "none" /\ cte_delete(q)
  BY NoCapTyped DEF absorb, Writes
<1> HIDE DEF q
<1>8. /\ Live' = M /\ view'[p] = View(u) /\ \A y \in M \ {p} : view'[y] = view[y]
  <2>1. /\ Live' = (Live \ {q}) \union {p} /\ view'[p] = View(u)
        /\ \A y \in CTE \ {q, p} : view'[y] = view[y]
    BY <1>1, <1>2, <1>6, <1>7, TwoWrites
  <2> QED
    BY <2>1, <1>1, <1>6
<1>9. /\ after \in [CTE -> SUBSET CTE] /\ anc \in [CTE -> SUBSET CTE]
      /\ after' \in [CTE -> SUBSET CTE] /\ anc' \in [CTE -> SUBSET CTE]
  BY <1>1, <1>7, DeleteTyped DEF TypeOK, ListTypes
<1>10. /\ LinearOrder(M, after') /\ Ring(M, after', next', prev')
       /\ Tree(M, after', anc', root', view)
  BY <1>1, <1>7, DeleteList
<1>11. Shape(view'[p]) /\ \A y \in Live \ {p, q} : p \in anc[y] => Within(view'[p], view[y])
  <2>1. /\ view[q].kind = view[p].kind /\ view[p].kind # "sock" /\ SamePlace(view[p], view'[p])
        /\ view'[p].mk = view[q].mk /\ view'[p].lck = view[q].lck
    BY <1>2, <1>3, <1>8, ViewFields DEF q
  <2>2. LinearOrder(Live, after) /\ Tree(Live, after, anc, root, view)
    BY DEF Listed
  <2> QED
    BY <2>1, <2>2, <1>1, <1>3, <1>5, <1>9, TreeAbsorb
<1>12. \A y \in M \ {p} : p \in anc'[y] => Within(view'[p], view[y])
  BY <1>1, <1>7, <1>11 DEF cte_delete, Forget
<1>13. SamePlace(view[p], view'[p]) /\ p \in M /\ M \in SUBSET CTE
  BY <1>1, <1>3, <1>6, <1>8
<1> HIDE DEF M
<1>14. Tree(M, after', anc', root', view')
  BY <1>8, <1>9, <1>10, <1>11, <1>12, <1>13, TreeMarked
<1> QED
  BY <1>8, <1>10, <1>14 DEF Listed

LEMMA DropTree ==
  ASSUME TypeOK, Listed, Apart, NEW c \in Live, drop(c)
  PROVE  Listed'
<1>1. cap \in [CTE -> Cap] /\ Live \subseteq CTE /\ c \in CTE
  BY DEF TypeOK, Live
<1>2. cte_delete(c) /\ cap' = [cap EXCEPT ![c] = NoCap]
  BY DEF drop
<1>3. Live' = Live \ {c} /\ \A y \in CTE \ {c} : view'[y] = view[y]
  BY <1>1, <1>2, OneWrite, NoCapTyped
<1>4. \A y \in Live \ {c} : view'[y] = view[y]
  BY <1>1, <1>3
<1> QED
  BY <1>2, <1>3, <1>4, DeleteTree

LEMMA ResetTree ==
  ASSUME TypeOK, Listed, NEW p \in Live, ~revokes(cap[p], cap[next[p]]),
         NEW u \in Cap, u.type # "none", reset(p, u), SamePlace(View(cap[p]), View(u)),
         View(u).mk = View(cap[p]).lo
  PROVE  Listed'
<1>1. Live \in SUBSET CTE /\ p \in CTE /\ cap \in [CTE -> Cap] /\ cap[p] \in Cap
  BY DEF TypeOK, Live
<1>2. UNCHANGED listVars /\ cap' = [cap EXCEPT ![p] = u]
  BY DEF reset
<1>3. Live' = Live /\ view'[p] = View(u) /\ \A y \in CTE \ {p} : view'[y] = view[y]
  BY <1>1, <1>2, OneWrite
<1>4. view[p] = View(cap[p]) /\ \A y \in Live \ {p} : view'[y] = view[y]
  BY <1>1, <1>3 DEF view
<1>5. \A y \in Live : p \notin anc[y]
  BY NoVictimNoDescendants DEF Descendants
<1>6. Shape(view'[p])
  <2>1. Shape(view[p]) /\ Numeric(view, CTE)
    BY <1>1, ViewNumeric DEF Listed, Tree
  <2> QED
    BY <2>1, <1>1, <1>3, <1>4 DEF Shape, SamePlace, Numeric
<1>7. SamePlace(view[p], view'[p]) /\ \A y \in Live \ {p} : p \in anc[y] => Within(view'[p], view[y])
  BY <1>3, <1>4, <1>5
<1>8. after \in [CTE -> SUBSET CTE] /\ anc \in [CTE -> SUBSET CTE]
  BY DEF TypeOK
<1>9. LinearOrder(Live, after) /\ Tree(Live, after, anc, root, view)
  BY DEF Listed
<1>10. Tree(Live, after, anc, root, view')
  BY <1>1, <1>4, <1>6, <1>7, <1>8, <1>9, TreeMarked
<1> QED
  BY <1>2, <1>3, <1>10 DEF Listed, listVars

\* The parent of a revocation and the entry behind it.
LEMMA RevokeFields ==
  ASSUME TypeOK, Listed, NEW p \in CTE, cap[p].type # "none"
  PROVE  /\ p \in Live /\ next[p] \in Live
         /\ cap[p] \in Cap /\ cap[next[p]] \in Cap
BY DEF TypeOK, Listed, Ring, Live

LEMMA RevokeMarkTree ==
  ASSUME TypeOK, Listed, Apart, NEW p \in CTE,
         cap_revoke_time(p) \/ cap_revoke_monitor(p)
           \/ (cap_revoke_channel(p) /\ ~chan_sock_child(cap[p], cap[next[p]]))
  PROVE  Listed'
<1> DEFINE c == cap[p]
           d == cap[next[p]]
<1>1. c.type \in {"time", "mon", "chan"}
  BY DEF cap_revoke_time, cap_revoke_monitor, cap_revoke_channel
<1>2. p \in Live /\ next[p] \in Live /\ c \in Cap /\ d \in Cap
  BY <1>1, RevokeFields
<1>3. \/ revokes(c, d) /\ d.type = c.type /\ absorb(p, next[p], [c EXCEPT !.mrk = d.mrk])
      \/ ~revokes(c, d) /\ reset(p, [c EXCEPT !.mrk = c.bgn])
  BY DEF cap_revoke_time, cap_revoke_monitor, cap_revoke_channel, revokes,
         time_child, monitor_child, channel_child
<1> HIDE DEF c, d
<1>4. CASE revokes(c, d) /\ d.type = c.type /\ absorb(p, next[p], [c EXCEPT !.mrk = d.mrk])
  <2>1. d.mrk \in Nat /\ View(d).mk = d.mrk /\ ~View(d).lck
    BY <1>1, <1>2, <1>4, CapVariant, ViewFields DEF TimeCap, MonCap, ChanCap
  <2>2. PICK u : u = [c EXCEPT !.mrk = d.mrk]
    OBVIOUS
  <2>3. u \in Cap /\ u.type = c.type /\ SamePlace(View(c), View(u)) /\ View(u).mk = d.mrk /\ ~View(u).lck
    BY <1>1, <1>2, <2>1, <2>2, ViewMark
  <2>4. View(u).lck = FALSE /\ View(d).lck = FALSE
    BY <1>1, <1>2, <1>4, <2>3, ViewFields
  <2>5. absorb(p, next[p], u) /\ u.type # "none"
    BY <1>1, <1>4, <2>2, <2>3
  <2> QED
    BY <1>1, <1>2, <1>4, <2>1, <2>3, <2>4, <2>5, AbsorbTree DEF c, d
<1>5. CASE ~revokes(c, d) /\ reset(p, [c EXCEPT !.mrk = c.bgn])
  <2>1. c.bgn \in Nat /\ View(c).lo = c.bgn
    BY <1>1, <1>2, CapVariant, ViewFields DEF TimeCap, MonCap, ChanCap
  <2>2. PICK u : u = [c EXCEPT !.mrk = c.bgn]
    OBVIOUS
  <2>3. u \in Cap /\ u.type = c.type /\ SamePlace(View(c), View(u)) /\ View(u).mk = c.bgn
    BY <1>1, <1>2, <2>1, <2>2, ViewMark
  <2>4. reset(p, u) /\ u.type # "none"
    BY <1>1, <1>5, <2>2, <2>3
  <2> QED
    BY <1>2, <1>5, <2>1, <2>3, <2>4, ResetTree DEF c, d
<1> QED
  BY <1>3, <1>4, <1>5

LEMMA RevokeMemoryTree ==
  ASSUME TypeOK, Listed, Apart, NEW p \in CTE, cap_revoke_memory(p)
  PROVE  Listed'
<1> DEFINE c == cap[p]
           d == cap[next[p]]
<1>1. c.type = "mem"
  BY DEF cap_revoke_memory
<1>2. p \in Live /\ next[p] \in Live /\ c \in Cap /\ d \in Cap
  BY <1>1, RevokeFields
<1>3. \/ /\ revokes(c, d) /\ d.type = "mem"
         /\ absorb(p, next[p], Relocked(c, d.mrk, d.lck))
      \/ drop(next[p])
      \/ ~revokes(c, d) /\ reset(p, Relocked(c, c.bgn, FALSE))
  BY DEF cap_revoke_memory, revokes, memory_child, Relocked
<1>f. /\ c.bgn \in Nat /\ c.tag \in Nat
      /\ d.type = "mem" => d.mrk \in Nat /\ d.lck \in BOOLEAN
  BY <1>1, <1>2, CapVariant DEF MemCap
<1> HIDE DEF c, d
<1>4. CASE /\ revokes(c, d) /\ d.type = "mem"
           /\ absorb(p, next[p], Relocked(c, d.mrk, d.lck))
  <2>1. d.tag = c.tag
    BY <1>1, <1>4 DEF revokes, memory_child, pmp_child
  <2>2. PICK u : u = Relocked(c, d.mrk, d.lck)
    OBVIOUS
  <2>3. /\ u \in Cap /\ u.type = "mem" /\ SamePlace(View(c), View(u))
        /\ View(u).mk = tag_block_to_addr(c.tag, d.mrk) /\ View(u).lck = d.lck
    BY <1>1, <1>2, <1>4, <1>f, <2>2, ViewLock
  <2>4. View(d).mk = tag_block_to_addr(d.tag, d.mrk) /\ View(d).lck = d.lck
    BY <1>2, <1>4, <1>f, ViewFields
  <2>5. absorb(p, next[p], u) /\ u.type # "none"
    BY <1>4, <2>2, <2>3
  <2>6. View(u).mk = View(d).mk /\ View(u).lck = View(d).lck
    BY <2>1, <2>3, <2>4
  <2> QED
    BY <1>1, <1>2, <1>4, <2>3, <2>5, <2>6, AbsorbTree DEF c, d
<1>5. CASE drop(next[p])
  BY <1>2, <1>5, DropTree
<1>6. CASE ~revokes(c, d) /\ reset(p, Relocked(c, c.bgn, FALSE))
  <2>1. View(c).lo = tag_block_to_addr(c.tag, c.bgn)
    BY <1>1, <1>2, ViewFields
  <2>l. PICK l \in BOOLEAN : l = FALSE
    OBVIOUS
  <2>2. PICK u : u = Relocked(c, c.bgn, l)
    OBVIOUS
  <2>3. /\ u \in Cap /\ u.type = "mem" /\ SamePlace(View(c), View(u))
        /\ View(u).mk = tag_block_to_addr(c.tag, c.bgn)
    BY <1>1, <1>2, <1>f, <2>1, <2>2, ViewLock
  <2>4. reset(p, u) /\ u.type # "none" /\ View(u).mk = View(c).lo
    BY <1>6, <2>1, <2>l, <2>2, <2>3
  <2> QED
    BY <1>2, <1>6, <2>3, <2>4, ResetTree DEF c, d
<1> QED
  BY <1>3, <1>4, <1>5, <1>6

LEMMA RevokeSocketsTree ==
  ASSUME TypeOK, Listed, Apart, NEW p \in CTE,
         cap_revoke_socket(p) \/ (cap_revoke_channel(p) /\ chan_sock_child(cap[p], cap[next[p]]))
  PROVE  Listed'
<1>1. cap[p].type # "none" /\ drop(next[p])
  BY DEF cap_revoke_socket, cap_revoke_channel, channel_child, chan_sock_child
<1>2. next[p] \in Live
  BY <1>1, RevokeFields
<1> QED
  BY <1>1, <1>2, DropTree

-----------------------------------------------------------------------------
(* Derivation.                                                             *)

\* Writing the parent s and the new capability where they belong.
LEMMA DeriveIntoTree ==
  ASSUME TypeOK, Listed, NEW src \in Live, NEW dst \in CTE \ Live,
         NEW s \in Cap, NEW new \in Cap, s.type # "none", new.type # "none",
         derive_into(src, s, dst, new), Derived(View(cap[src]), View(s), View(new))
  PROVE  Listed'
<1>1. src \in CTE /\ src # dst /\ cap \in [CTE -> Cap] /\ Live \subseteq CTE
  BY DEF TypeOK, Live
<1>2. Writes(src, s, dst, new) /\ cte_insert(dst, src)
  BY DEF derive_into, Writes
<1>3. /\ cap' \in [CTE -> Cap] /\ view'[src] = View(s) /\ view'[dst] = View(new)
      /\ Live' = Live \union {dst} /\ \A y \in CTE \ {src, dst} : view'[y] = view[y]
  BY <1>1, <1>2, TwoWrites
<1>4. \A y \in Live \ {src} : view'[y] = view[y]
  BY <1>1, <1>3
<1>5. view[src] = View(cap[src])
  BY <1>1 DEF view
<1>6. Derived(view[src], view'[src], view'[dst])
  BY <1>3, <1>5
<1> QED
  BY <1>2, <1>3, <1>4, <1>6, InsertTree

\* A new time, monitor or channel capability, or the socket of a channel.
LEMMA DeriveMarkTree ==
  ASSUME TypeOK, Listed, NEW src \in Live, NEW dst \in CTE \ Live, NEW new \in Cap,
         cap[src].type \in {"time", "mon", "chan"},
         NEW m \in Nat, derive_into(src, [cap[src] EXCEPT !.mrk = m], dst, new),
         new.type # "none", ChildKind(View(cap[src]), View(new)), Shape(View(new)),
         cap[src].mrk <= View(new).lo, m = View(new).hi, m <= cap[src].end
  PROVE  Listed'
<1> DEFINE c == cap[src]
<1>1. c \in Cap /\ c.type \in {"time", "mon", "chan"}
  BY DEF TypeOK, Live
<1>2. /\ View(c).lo \in Nat /\ View(c).mk \in Nat /\ View(c).hi \in Nat
      /\ View(c).mk = c.mrk /\ View(c).hi = c.end /\ View(c).kind = c.type
      /\ View(c).lck = FALSE /\ View(new).lo \in Nat
  BY <1>1, ViewFields
<1>3. Shape(View(c))
  BY DEF Listed, Tree, view, Live
<1>4. PICK s : s = [c EXCEPT !.mrk = m]
  OBVIOUS
<1> HIDE DEF c
<1>5. s \in Cap /\ s.type = c.type /\ SamePlace(View(c), View(s)) /\ View(s).mk = m
  BY <1>1, <1>4, ViewMark
<1>6. Derived(View(c), View(s), View(new))
  <2>1. Shape(View(s))
    BY <1>2, <1>3, <1>5 DEF Shape, SamePlace, c
  <2>2. View(c).mk <= View(new).lo /\ View(s).mk = View(new).hi /\ View(new).hi <= View(c).hi
        /\ View(c).kind # "sock" /\ ~View(c).lck
    BY <1>1, <1>2, <1>5 DEF c
  <2>3. View(c).lo <= View(new).lo
    BY <2>2, <1>2, <1>3 DEF Shape
  <2> QED
    BY <2>1, <2>2, <2>3, <1>5 DEF Derived, c
<1>7. derive_into(src, s, dst, new) /\ s.type # "none"
  BY <1>1, <1>4, <1>5 DEF c
<1> QED
  BY <1>5, <1>6, <1>7, DeriveIntoTree DEF c

\* What the kernel's check of a descriptor says of its interval.
LEMMA ValidShape ==
  ASSUME NEW c \in Cap, cap_is_valid(c)
  PROVE  c.type # "none" /\ Shape(View(c))
<1>0. c.type # "none"
  BY DEF cap_is_valid
<1>1. CASE c.type \in {"time", "mon", "chan"}
  <2>1. /\ c.bgn \in Nat /\ c.mrk \in Nat /\ c.end \in Nat /\ c.bgn < c.end /\ c.mrk = c.bgn
    BY <1>1, CapVariant DEF TimeCap, MonCap, ChanCap, cap_is_valid
  <2>2. View(c).lo = c.bgn /\ View(c).mk = c.mrk /\ View(c).hi = c.end
    BY <1>1, ViewFields
  <2> QED
    BY <1>0, <2>1, <2>2 DEF Shape
<1>2. CASE c.type = "mem"
  <2>1. /\ c.bgn \in Nat /\ c.mrk \in Nat /\ c.end \in Nat /\ c.tag \in Nat
        /\ c.bgn < c.end /\ c.mrk = c.bgn
    BY <1>2, CapVariant DEF MemCap, cap_is_valid
  <2>2. /\ tag_block_to_addr(c.tag, c.bgn) < tag_block_to_addr(c.tag, c.end)
        /\ tag_block_to_addr(c.tag, c.bgn) \in Nat /\ tag_block_to_addr(c.tag, c.end) \in Nat
    BY <2>1, Address
  <2>3. /\ View(c).lo = tag_block_to_addr(c.tag, c.bgn)
        /\ View(c).mk = tag_block_to_addr(c.tag, c.bgn)
        /\ View(c).hi = tag_block_to_addr(c.tag, c.end)
    BY <1>2, <2>1, ViewFields
  <2> QED
    BY <1>0, <2>2, <2>3 DEF Shape
<1>3. CASE c.type = "pmp"
  <2>1. c.base \in Nat /\ c.size \in Nat \ {0}
    BY <1>3, CapVariant DEF PmpCap
  <2> QED
    BY <1>0, <1>3, <2>1, ViewFields DEF Shape
<1>4. CASE c.type = "sock"
  <2>1. c.chan \in Nat
    BY <1>4, CapVariant DEF SockCap
  <2> QED
    BY <1>0, <1>4, <2>1, ViewFields DEF Shape
<1> QED
  BY <1>0, <1>1, <1>2, <1>3, <1>4, CapVariant

\* New memory, or a PMP region of it.
LEMMA DeriveMemoryTree ==
  ASSUME TypeOK, Listed, NEW src \in Live, NEW dst \in CTE \ Live, NEW new \in Cap,
         cap_is_valid(new), cap_derive_memory(src, dst, new)
  PROVE  Listed'
<1> DEFINE c == cap[src]
<1>1. c \in Cap /\ c.type = "mem"
  BY DEF TypeOK, Live, cap_derive_memory
<1>m. c \in MemCap
  BY <1>1, CapVariant
<1>2. /\ c.tag \in Nat /\ c.bgn \in Nat /\ c.mrk \in Nat /\ c.end \in Nat
  BY <1>m DEF MemCap
<1>3. /\ View(c).kind = "mem" /\ View(c).key = c.tag /\ View(c).lck = c.lck
      /\ View(c).mk = tag_block_to_addr(c.tag, c.mrk) /\ View(c).hi = tag_block_to_addr(c.tag, c.end)
      /\ View(c).lo \in Nat /\ View(c).mk \in Nat /\ View(c).hi \in Nat
  <2>1. c.lck \in BOOLEAN
    BY <1>m DEF MemCap
  <2> QED
    BY <2>1, <1>1, <1>2, ViewFields
<1>4. Shape(View(c)) /\ Shape(View(new)) /\ new.type # "none"
  BY ValidShape DEF Listed, Tree, view, Live
<1> HIDE DEF c
<1>5. CASE /\ new.type = "mem" /\ c.tag = new.tag /\ c.mrk <= new.bgn /\ new.end <= c.end /\ ~c.lck
           /\ derive_into(src, [c EXCEPT !.mrk = new.end], dst, new)
  <2>1. new.bgn \in Nat /\ new.end \in Nat
    BY <1>5, CapVariant DEF MemCap
  <2>l. PICK l \in BOOLEAN : l = c.lck
    BY <1>m DEF MemCap
  <2>2. [c EXCEPT !.mrk = new.end] = Relocked(c, new.end, l)
    BY <1>m, <2>1, <2>l DEF MemCap, Relocked
  <2>3. PICK s : s = Relocked(c, new.end, l)
    OBVIOUS
  <2>4. /\ s \in Cap /\ s.type = "mem" /\ SamePlace(View(c), View(s))
        /\ View(s).mk = tag_block_to_addr(c.tag, new.end)
    <3>1. PICK m \in Nat : m = new.end
      BY <2>1
    <3>2. s = Relocked(c, m, l)
      BY <2>3, <3>1
    <3> QED
      BY <1>1, <3>1, <3>2, ViewLock
  <2>5. /\ View(new).kind = "mem" /\ View(new).key = c.tag
        /\ View(new).lo = tag_block_to_addr(c.tag, new.bgn)
        /\ View(new).hi = tag_block_to_addr(c.tag, new.end)
        /\ View(new).lo \in Nat /\ View(new).hi \in Nat
    BY <1>5, ViewFields
  <2>6. View(c).mk <= View(new).lo /\ View(new).hi <= View(c).hi
    <3>1. /\ tag_block_to_addr(c.tag, c.mrk) <= tag_block_to_addr(c.tag, new.bgn)
          /\ tag_block_to_addr(c.tag, new.end) <= tag_block_to_addr(c.tag, c.end)
      BY <1>2, <1>5, <2>1, Address
    <3> QED
      BY <3>1, <1>3, <2>5
  <2>7. View(c).lo <= View(new).lo /\ Shape(View(s)) /\ ChildKind(View(c), View(new))
    BY <1>3, <1>4, <2>4, <2>5, <2>6 DEF Shape, SamePlace, ChildKind
  <2>8. Derived(View(c), View(s), View(new))
    BY <1>3, <1>4, <1>5, <2>4, <2>5, <2>6, <2>7 DEF Derived
  <2>9. derive_into(src, s, dst, new) /\ s.type # "none"
    BY <1>5, <2>2, <2>3, <2>4
  <2> QED
    BY <1>4, <2>4, <2>8, <2>9, DeriveIntoTree DEF c
<1>6. CASE /\ new.type = "pmp" /\ tag_block_to_addr(c.tag, c.mrk) <= new.base
           /\ new.base + new.size <= tag_block_to_addr(c.tag, c.end)
           /\ derive_into(src, [c EXCEPT !.lck = TRUE], dst, new)
  <2>1. PICK l \in BOOLEAN : l = TRUE
    OBVIOUS
  <2>2. [c EXCEPT !.lck = TRUE] = Relocked(c, c.mrk, l)
    BY <1>m, <2>1 DEF MemCap, Relocked
  <2>3. PICK s : s = Relocked(c, c.mrk, l)
    OBVIOUS
  <2>4. /\ s \in Cap /\ s.type = "mem" /\ SamePlace(View(c), View(s))
        /\ View(s).mk = tag_block_to_addr(c.tag, c.mrk) /\ View(s).lck = l
    <3>1. PICK m \in Nat : m = c.mrk
      BY <1>2
    <3>2. s = Relocked(c, m, l)
      BY <2>3, <3>1
    <3> QED
      BY <1>1, <3>1, <3>2, ViewLock
  <2>5. /\ View(new).kind = "pmp" /\ View(new).lo = new.base /\ View(new).hi = new.base + new.size
        /\ View(new).lo \in Nat /\ View(new).hi \in Nat
    BY <1>6, ViewFields
  <2>6. View(c).mk <= View(new).lo /\ View(new).hi <= View(c).hi /\ View(s).mk = View(c).mk
    BY <1>3, <1>6, <2>4, <2>5
  <2>7. View(c).lo <= View(new).lo /\ Shape(View(s)) /\ ChildKind(View(c), View(new))
    BY <1>3, <1>4, <2>4, <2>5, <2>6 DEF Shape, SamePlace, ChildKind
  <2>8. Derived(View(c), View(s), View(new))
    BY <1>3, <1>4, <2>1, <2>4, <2>5, <2>6, <2>7 DEF Derived
  <2>9. derive_into(src, s, dst, new) /\ s.type # "none"
    BY <1>6, <2>2, <2>3, <2>4
  <2> QED
    BY <1>4, <2>4, <2>8, <2>9, DeriveIntoTree DEF c
<1> QED
  BY <1>5, <1>6 DEF cap_derive_memory, c

\* A client socket of a server.
LEMMA DeriveSocketTree ==
  ASSUME TypeOK, Listed, NEW src \in Live, NEW dst \in CTE \ Live, NEW new \in Cap,
         cap_is_valid(new), cap_derive_socket(src, dst, new)
  PROVE  Listed'
<1> DEFINE c == cap[src]
<1>1. c \in Cap /\ c.type = "sock" /\ new.type = "sock" /\ c.chan = new.chan /\ c.tag = 0 /\ new.tag # 0
  BY DEF TypeOK, Live, cap_derive_socket
<1>2. Shape(View(c)) /\ Shape(View(new))
  BY ValidShape DEF Listed, Tree, view, Live
<1>3. derive_into(src, c, dst, new)
  BY DEF cap_derive_socket
<1> HIDE DEF c
<1>4. /\ View(c).kind = "sock" /\ View(new).kind = "sock" /\ View(c).tag = 0 /\ View(new).tag # 0
      /\ View(c).lo = View(new).lo /\ View(c).hi = View(new).hi
      /\ View(c).lo \in Nat /\ View(c).hi \in Nat
  BY <1>1, ViewFields
<1>5. Derived(View(c), View(c), View(new))
  BY <1>2, <1>4 DEF Derived, ChildKind, SamePlace
<1> QED
  BY <1>1, <1>3, <1>5, DeriveIntoTree DEF c

LEMMA DeriveTree ==
  ASSUME TypeOK, Listed, NEW src \in Live, NEW dst \in CTE \ Live, NEW new \in Cap,
         cap_derive(src, dst, new)
  PROVE  Listed'
<1> DEFINE c == cap[src]
<1>1. cap_is_valid(new) /\ c \in Cap
  BY DEF cap_derive, TypeOK, Live
<1>2. Shape(View(new)) /\ new.type # "none"
  BY <1>1, ValidShape
<1>3. CASE cap_derive_time(src, dst, new) \/ cap_derive_monitor(src, dst, new)
  <2>1. /\ c.type = new.type /\ c.type \in {"time", "mon"} /\ (c.type = "time" => c.hart = new.hart)
        /\ c.mrk <= new.bgn /\ new.end <= c.end
        /\ derive_into(src, [c EXCEPT !.mrk = new.end], dst, new)
    <3>1. CASE cap_derive_time(src, dst, new)
      <4>1. c.mrk \in Nat
        BY <1>1, <3>1, CapVariant DEF TimeCap, cap_derive_time
      <4> QED
        BY <3>1, <4>1 DEF cap_derive_time
    <3>2. CASE cap_derive_monitor(src, dst, new)
      BY <3>2 DEF cap_derive_monitor
    <3> QED
      BY <1>3, <3>1, <3>2
  <2>2. View(new).lo = new.bgn /\ View(new).hi = new.end /\ new.end \in Nat
    BY <2>1, ViewFields
  <2>3. ChildKind(View(c), View(new))
    BY <1>1, <2>1, ViewFields DEF ChildKind
  <2> QED
    BY <1>2, <2>1, <2>2, <2>3, DeriveMarkTree
<1>4. CASE cap_derive_channel(src, dst, new)
  <2>1. c.type = "chan" /\ c.mrk \in Nat /\ c.end \in Nat
    BY <1>1, <1>4, CapVariant DEF ChanCap, cap_derive_channel
  <2>2. \/ /\ new.type = "chan" /\ c.mrk <= new.bgn /\ new.end <= c.end
           /\ derive_into(src, [c EXCEPT !.mrk = new.end], dst, new)
        \/ /\ new.type = "sock" /\ c.mrk <= new.chan /\ new.chan < c.end
           /\ derive_into(src, [c EXCEPT !.mrk = new.chan + 1], dst, new)
    BY <1>4 DEF cap_derive_channel
  <2> DEFINE m == View(new).hi
  <2>3. /\ m \in Nat /\ View(new).lo \in Nat
        /\ new.type = "chan" => View(new).lo = new.bgn /\ m = new.end
        /\ new.type = "sock" => View(new).lo = new.chan /\ m = new.chan + 1
    BY ViewFields
  <2>4. c.mrk <= View(new).lo /\ m <= c.end /\ derive_into(src, [c EXCEPT !.mrk = m], dst, new)
    BY <2>1, <2>2, <2>3
  <2>5. ChildKind(View(c), View(new))
    BY <1>1, <2>1, <2>2, ViewFields DEF ChildKind
  <2> QED
    BY <1>2, <2>1, <2>3, <2>4, <2>5, DeriveMarkTree
<1> QED
  BY <1>1, <1>3, <1>4, DeriveMemoryTree, DeriveSocketTree DEF cap_derive

-----------------------------------------------------------------------------
(* Messages.                                                               *)

LEMMA SameTableTree ==
  ASSUME TypeOK, Listed, UNCHANGED capVars
  PROVE  Listed'
<1>1. UNCHANGED listVars /\ Live' = Live /\ \A x \in Live : view'[x] = view[x]
  BY DEF capVars, listVars, Live, view
<1> QED
  BY <1>1, WriteTree

LEMMA SocketTree ==
  ASSUME TypeInv, Listed, Apart, NEW sock \in CTE, NEW buf \in CTE, NEW send_cap,
         \/ cap_sock_send(sock, buf, send_cap) \/ cap_sock_recv(sock, buf)
         \/ cap_sock_sendrecv(sock, buf, send_cap)
  PROVE  Listed'
<1> DEFINE s == cap[sock]
           dst == channels[s.chan].cap_buf
<1>1. s.type = "sock" /\ (do_send(s, buf, send_cap) \/ cap_delete(buf) \/ UNCHANGED capVars)
  BY DEF cap_sock_send, cap_sock_recv, cap_sock_sendrecv
<1>2. TypeOK /\ s.chan \in Chans
  BY <1>1, SocketChannel DEF TypeInv
<1>3. CASE do_send(s, buf, send_cap)
  <2>1. channels[s.chan].server # NULL \/ channels[s.chan].client # NULL
    BY <1>3 DEF do_send, receiver
  <2>2. dst \in CTE
    BY <2>1, <1>2 DEF TypeInv, TypeOK, ReceiverHasBuffer, Channel
  <2>3. cap_move(buf, dst) \/ UNCHANGED capVars
    BY <1>3 DEF do_send
  <2> HIDE DEF dst
  <2> QED
    BY <2>2, <2>3, <1>2, CapMoveTree, SameTableTree
<1> QED
  BY <1>1, <1>2, <1>3, CapDeleteTree, SameTableTree

-----------------------------------------------------------------------------
(* The table at boot.                                                      *)

\* The place of the entries in the list.
Ranked(L, A, r) ==
  /\ \A x, y \in L : r[x] = r[y] => x = y
  /\ \A x \in L : A[x] = {y \in L : r[x] < r[y]}
Chained(L, nx, pv, n, r) ==
  \A x \in L : /\ nx[x] \in L /\ r[nx[x]] = IF r[x] = n THEN 1 ELSE r[x] + 1
               /\ pv[x] \in L /\ r[pv[x]] = IF r[x] = 1 THEN n ELSE r[x] - 1

\* A list in which the entries are numbered is a ring.
LEMMA RankedRing ==
  ASSUME NEW L, NEW A, NEW nx, NEW pv, NEW n \in Nat, NEW r \in [L -> 1..n],
         Ranked(L, A, r), Chained(L, nx, pv, n, r)
  PROVE  LinearOrder(L, A) /\ Ring(L, A, nx, pv)
<1> USE DEF Ranked, Chained
<1>1. LinearOrder(L, A)
  <2>1. \A x \in L : r[x] \in Int
    OBVIOUS
  <2>2. \A x \in L : A[x] \subseteq L /\ x \notin A[x]
    BY <2>1
  <2>3. \A x, y \in L : x = y \/ x \in A[y] \/ y \in A[x]
    BY <2>1
  <2>4. \A x \in L : \A y \in A[x] : A[y] \subseteq A[x]
    BY <2>1
  <2> QED
    BY <2>2, <2>3, <2>4 DEF LinearOrder
<1>2. ASSUME NEW x \in L
      PROVE  /\ nx[x] \in L /\ pv[x] \in L
             /\ pv[nx[x]] = x /\ nx[pv[x]] = x
  <2>1. r[x] \in 1..n /\ nx[x] \in L /\ pv[x] \in L
    OBVIOUS
  <2>2. pv[nx[x]] \in L /\ nx[pv[x]] \in L
    BY <2>1
  <2>3. r[pv[nx[x]]] = r[x]
    BY <2>1
  <2>4. r[nx[pv[x]]] = r[x]
    BY <2>1
  <2> QED
    BY <2>1, <2>2, <2>3, <2>4
<1>3. ASSUME NEW x \in L, A[x] # {}
      PROVE  nx[x] \in A[x] /\ A[nx[x]] = A[x] \ {nx[x]}
  <2>1. PICK y \in L : r[x] < r[y]
    BY <1>3
  <2>2. r[x] \in 1..n /\ r[y] \in 1..n /\ nx[x] \in L /\ r[nx[x]] = r[x] + 1
    BY <2>1
  <2>3. \A z \in L : r[z] \in Int /\ (r[x] + 1 < r[z] <=> r[x] < r[z] /\ z # nx[x])
    BY <2>2
  <2> QED
    BY <2>2, <2>3
<1>4. ASSUME NEW x \in L, A[x] = {}
      PROVE  A[nx[x]] = L \ {nx[x]}
  <2>1. r[x] \in 1..n /\ nx[x] \in L /\ nx[x] \notin A[x]
    BY <1>4
  <2>2. r[x] = n /\ r[nx[x]] = 1
    BY <2>1
  <2>3. \A z \in L : r[z] \in 1..n /\ (1 < r[z] <=> z # nx[x])
    BY <2>1, <2>2
  <2> QED
    BY <2>1, <2>2, <2>3
<1> QED
  BY <1>1, <1>2, <1>3, <1>4 DEF Ring

\* The places of the boot capabilities.
LEMMA BootRanks ==
  ASSUME NEW n \in Nat, 2 <= n, NEW i \in 1..n
  PROVE  /\ BootNext(n, i) \in 1..n /\ BootPrev(n, i) \in 1..n /\ BootRank(n, i) \in 1..n
         /\ BootRank(n, BootNext(n, i)) = IF BootRank(n, i) = n THEN 1 ELSE BootRank(n, i) + 1
         /\ BootRank(n, BootPrev(n, i)) = IF BootRank(n, i) = 1 THEN n ELSE BootRank(n, i) - 1
         /\ BootRank(n, 1) = 1 /\ BootRank(n, 2) = n
BY DEF BootRank, BootNext, BootPrev

LEMMA TreeInit == Init => Apart /\ Listed
<1> SUFFICES ASSUME Init PROVE Apart /\ Listed
  OBVIOUS
<1> PICK init_caps \in Platforms : boot(init_caps, Len(init_caps))
  BY DEF Init
<1> DEFINE n == Len(init_caps)
           first == Reused(init_caps[1], TRUE, 0)
           r == [c \in Live |-> BootRank(n, BootIndex(c))]
<1>0. n \in Nat /\ 2 <= n /\ n <= CAP_CNT
  BY PlatformsAssumption, CountsAssumption
<1>1. /\ \A i \in 1..n : init_caps[i] \in Cap /\ cap_is_valid(init_caps[i])
      /\ init_caps[1] \in PmpCap
  BY PlatformsAssumption
<1>2. TypeOK
  BY TypeInit DEF TypeInv
<1>3. /\ first \in Cap /\ first.type = "pmp" /\ View(first) = View(init_caps[1])
      /\ init_caps[1] \in Cap /\ init_caps[1].type = "pmp"
  <2>u. PICK u \in BOOLEAN : u = TRUE
    OBVIOUS
  <2>1. PICK i \in PmpSlots : i = 0
    BY CountsAssumption DEF PmpSlots
  <2>2. init_caps[1] \in Cap /\ init_caps[1].type = "pmp" /\ 1 \in 1..n
    BY <1>0, <1>1 DEF PmpCap
  <2>3. PICK d : d = Reused(init_caps[1], u, i)
    OBVIOUS
  <2>4. d \in Cap /\ d.type = "pmp" /\ View(d) = View(init_caps[1])
    BY <2>2, <2>3, ViewUse
  <2> QED
    BY <2>u, <2>1, <2>2, <2>3, <2>4
<1>4. /\ \A i \in 1..n : BootSlot(i) \in CTE /\ IsBoot(n, BootSlot(i)) /\ BootIndex(BootSlot(i)) = i
      /\ \A i, j \in 1..n : BootSlot(i) = BootSlot(j) => i = j
      /\ \A c \in CTE : IsBoot(n, c) => BootIndex(c) \in 1..n /\ c = BootSlot(BootIndex(c))
  <2>1. 0 \in Pids /\ \A i \in 1..n : i - 1 \in 0 .. CAP_CNT - 1
    BY <1>0, CountsAssumption DEF Pids
  <2> QED
    BY <2>1, <1>0 DEF BootSlot, CTE, IsBoot, BootIndex
<1> USE DEF ctable0
<1>5. /\ cap[BootSlot(1)] = first
      /\ \A i \in 2..n : cap[BootSlot(i)] = init_caps[i]
      /\ \A c \in CTE : ~IsBoot(n, c) => cap[c] = NoCap
  <2>1. cap = [c \in CTE |->
             IF c = ctable0 THEN first ELSE IF IsBoot(n, c) THEN init_caps[BootIndex(c)] ELSE NoCap]
    BY DEF boot, Reused
  <2>2. \A i \in 2..n : i \in 1..n /\ i # 1 /\ 1 \in 1..n
    BY <1>0
  <2>3. 1 \in 1..n
    BY <1>0
  <2> HIDE DEF first, n
  <2> QED
    BY <2>1, <2>2, <2>3, <1>4
<1>6. \A i \in 1..n : cap[BootSlot(i)] \in Cap /\ cap[BootSlot(i)].type = init_caps[i].type
                      /\ cap[BootSlot(i)].type # "none" /\ View(cap[BootSlot(i)]) = View(init_caps[i])
  <2> SUFFICES ASSUME NEW i \in 1..n
               PROVE  cap[BootSlot(i)] \in Cap /\ cap[BootSlot(i)].type = init_caps[i].type
                      /\ cap[BootSlot(i)].type # "none" /\ View(cap[BootSlot(i)]) = View(init_caps[i])
    OBVIOUS
  <2>1. CASE i = 1
    BY <2>1, <1>3, <1>5
  <2>2. CASE i # 1
    <3>1. cap[BootSlot(i)] = init_caps[i]
      BY <2>2, <1>0, <1>5
    <3> QED
      BY <3>1, <1>1, ValidShape
  <2> QED
    BY <2>1, <2>2
<1>7. Live = {BootSlot(i) : i \in 1..n}
  BY <1>4, <1>5, <1>6, NoCapTyped DEF Live
<1>8. /\ r \in [Live -> 1..n]
      /\ \A i \in 1..n : r[BootSlot(i)] = BootRank(n, i)
      /\ \A x, y \in Live : r[x] = r[y] => x = y
  <2>1. \A i \in 1..n : BootRank(n, i) \in 1..n
    BY <1>0 DEF BootRank
  <2>2. \A i, j \in 1..n : BootRank(n, i) = BootRank(n, j) => i = j
    BY <1>0 DEF BootRank
  <2>3. \A i \in 1..n : r[BootSlot(i)] = BootRank(n, i)
    BY <1>4, <1>7
  <2> HIDE DEF n
  <2> QED
    BY <2>1, <2>2, <2>3, <1>4, <1>7
<1>9. \A x \in Live : after[x] = {y \in Live : r[x] < r[y]}
  <2> SUFFICES ASSUME NEW i \in 1..n
               PROVE  after[BootSlot(i)] = {y \in Live : r[BootSlot(i)] < r[y]}
    BY <1>7
  <2>1. after[BootSlot(i)] = {BootSlot(j) : j \in {k \in 1..n : BootRank(n, i) < BootRank(n, k)}}
    BY <1>4 DEF boot
  <2> HIDE DEF r, n
  <2> QED
    BY <2>1, <1>7, <1>8
<1>10. Chained(Live, next, prev, n, r)
  <2> SUFFICES ASSUME NEW x \in Live
               PROVE  /\ next[x] \in Live /\ r[next[x]] = IF r[x] = n THEN 1 ELSE r[x] + 1
                      /\ prev[x] \in Live /\ r[prev[x]] = IF r[x] = 1 THEN n ELSE r[x] - 1
    BY DEF Chained
  <2>0. PICK i \in 1..n : x = BootSlot(i)
    BY <1>7
  <2>2. next[x] = BootSlot(BootNext(n, i)) /\ prev[x] = BootSlot(BootPrev(n, i))
    BY <2>0, <1>4 DEF boot
  <2> HIDE DEF r, n
  <2>3. /\ BootNext(n, i) \in 1..n /\ BootPrev(n, i) \in 1..n
        /\ BootRank(n, BootNext(n, i)) = IF BootRank(n, i) = n THEN 1 ELSE BootRank(n, i) + 1
        /\ BootRank(n, BootPrev(n, i)) = IF BootRank(n, i) = 1 THEN n ELSE BootRank(n, i) - 1
    BY <1>0, BootRanks
  <2> QED
    BY <2>0, <2>2, <2>3, <1>7, <1>8
<1>11. LinearOrder(Live, after) /\ Ring(Live, after, next, prev)
  <2> HIDE DEF r, n
  <2>1. Ranked(Live, after, r)
    BY <1>8, <1>9 DEF Ranked
  <2> QED
    BY <2>1, <1>0, <1>8, <1>10, RankedRing
<1>12. \A i \in 1..n : root[BootSlot(i)] = i
  BY <1>4 DEF boot
<1>13. Apart
  <2> DEFINE head == BootSlot(1)
             tail == BootSlot(2)
  <2>1. 1 \in 1..n /\ 2 \in 1..n
    BY <1>0
  <2>2. head \in Live /\ tail \in Live /\ root[head] # root[tail]
    BY <2>1, <1>7, <1>12
  <2> HIDE DEF r, n
  <2>3. r[head] = 1 /\ r[tail] = n
    BY <2>1, <1>0, <1>8, BootRanks
  <2> HIDE DEF head, tail
  <2>4. \A y \in Live : r[y] \in 1..n /\ (1 < r[y] <=> y # head) /\ ~(n < r[y])
    BY <1>0, <1>8, <2>2, <2>3
  <2>5. after[head] = Live \ {head} /\ after[tail] = {}
    BY <2>2, <2>3, <2>4, <1>9
  <2>6. ~SameResource(cap[head], cap[tail])
    BY <1>3, <1>5 DEF SameResource, head
  <2> QED
    BY <2>2, <2>5, <2>6 DEF Apart
<1>14. ASSUME NEW x \in Live, NEW y \in after[x], Related(view[x], view[y], root[x] = root[y])
       PROVE  Below(view[x], view[y])
  <2>0. PICK i \in 1..n : x = BootSlot(i)
    BY <1>7
  <2>1. PICK j \in 1..n : y = BootSlot(j) /\ BootRank(n, i) < BootRank(n, j)
    <3> HIDE DEF r, n
    <3>1. y \in Live /\ r[x] < r[y]
      BY <1>9, <1>14
    <3>2. PICK j \in 1..n : y = BootSlot(j)
      BY <3>1, <1>7
    <3>3. r[x] = BootRank(n, i) /\ r[y] = BootRank(n, j)
      BY <2>0, <3>2, <1>8
    <3> QED
      BY <3>1, <3>2, <3>3
  <2>2. i # j /\ j # 1 /\ (i # 1 => j < i)
    BY <2>0, <2>1, <1>0 DEF BootRank
  <2>3. root[x] # root[y] /\ view[x] = View(init_caps[i]) /\ view[y] = View(init_caps[j])
    BY <2>0, <2>1, <2>2, <1>4, <1>6, <1>12 DEF view
  <2> DEFINE a == init_caps[i]
             b == init_caps[j]
  <2>4. a \in Cap /\ b \in Cap /\ View(a).kind = a.type /\ View(b).kind = b.type
        /\ (a.type = "time" => View(a).key = a.hart) /\ (b.type = "time" => View(b).key = b.hart)
        /\ (a.type = "mem" => View(a).key = a.tag) /\ (b.type = "mem" => View(b).key = b.tag)
    BY <1>1, ViewFields
  <2>5. i # 1 => a.type # "none"
    BY <1>1, ValidShape
  <2>6. \/ a.type = b.type /\ a.type \in {"time", "mem", "mon"} /\ View(a).key = View(b).key
        \/ a.type \in {"chan", "sock"} /\ b.type \in {"chan", "sock"}
    BY <1>14, <2>3, <2>4 DEF Related
  <2>7. SameResource(b, a)
    BY <2>4, <2>6 DEF SameResource
  <2>8. j < i
    BY <2>2, <2>6, <1>3
  <2>9. a.type # "sock" /\ b.type # "sock" /\ b.end <= a.bgn
    BY <2>7, <2>8, PlatformsAssumption
  <2>10. View(b).hi <= View(a).lo
    <3> HIDE DEF a, b
    <3>1. CASE a.type = "mem"
      <4>1. /\ b.type = "mem" /\ a.tag = b.tag /\ a.bgn \in Nat /\ b.end \in Nat /\ a.tag \in Nat
        BY <3>1, <2>4, <2>6, CapVariant DEF MemCap
      <4>2. tag_block_to_addr(a.tag, b.end) <= tag_block_to_addr(a.tag, a.bgn)
        BY <4>1, <2>9, Address
      <4> QED
        BY <4>1, <4>2, <3>1, <2>4, ViewFields
    <3>2. CASE a.type # "mem"
      <4>1. a.type \in {"time", "mon", "chan"} /\ b.type \in {"time", "mon", "chan"}
        BY <3>2, <2>6, <2>9
      <4> QED
        BY <4>1, <2>4, <2>9, ViewFields
    <3> QED
      BY <3>1, <3>2
  <2> QED
    BY <2>3, <2>10 DEF Below
<1>15. Tree(Live, after, anc, root, view)
  <2>1. \A x \in Live : Shape(view[x])
    BY <1>1, <1>4, <1>6, <1>7, ValidShape DEF view
  <2>2. \A x \in Live : anc[x] = {}
    BY DEF boot, Live
  <2> QED
    BY <2>1, <2>2, <1>14 DEF Tree
<1> QED
  BY <1>11, <1>13, <1>15 DEF Listed

-----------------------------------------------------------------------------
(* The theorems.                                                           *)

LEMMA TreeStep ==
  ASSUME TypeInv, TreeInv, [Next]_vars
  PROVE  TreeInv'
<1> SUFFICES ASSUME ~shrunk' PROVE Apart' /\ Listed'
  BY DEF TreeInv, Listed
<1>1. CASE UNCHANGED vars
  BY <1>1 DEF vars, TreeInv, Apart, Listed, Live, view
<1>2. CASE Next
  <2>0. watch
    BY <1>2 DEF Next
  <2>1. ~shrunk /\ Apart'
    BY <2>0 DEF watch
  <2>2. Apart /\ Listed /\ TypeOK
    BY <2>1 DEF TreeInv, Listed, TypeInv
  <2>3. ASSUME NEW src \in CTE, NEW dst \in CTE, cap_move(src, dst) PROVE Listed'
    BY <2>2, <2>3, CapMoveTree
  <2>4. ASSUME NEW c \in CTE, cap_delete(c) PROVE Listed'
    BY <2>2, <2>4, CapDeleteTree
  <2>5. ASSUME NEW parent \in CTE,
               \/ cap_revoke_time(parent) \/ cap_revoke_memory(parent) \/ cap_revoke_monitor(parent)
               \/ cap_revoke_channel(parent) \/ cap_revoke_socket(parent)
        PROVE  Listed'
    BY <2>2, <2>5, RevokeMarkTree, RevokeMemoryTree, RevokeSocketsTree
  <2>6. ASSUME NEW src \in Live, NEW dst \in CTE, dst \notin Live, NEW new \in Requests,
               cap_derive(src, dst, new)
        PROVE  Listed'
    <3>1. new \in Cap /\ dst \in CTE \ Live
      BY <2>6, RequestsAssumption
    <3> QED
      BY <3>1, <2>2, <2>6, DeriveTree
  <2>7. ASSUME NEW c \in CTE, (\E slot \in PmpSlots : cap_pmp_load(c, slot)) \/ cap_pmp_unload(c)
        PROVE  Listed'
    BY <2>2, <2>7, PmpTree
  <2>8. ASSUME NEW sock \in CTE, NEW buf \in CTE, NEW send_cap \in BOOLEAN,
               \/ cap_sock_send(sock, buf, send_cap) \/ cap_sock_recv(sock, buf)
               \/ cap_sock_sendrecv(sock, buf, send_cap)
        PROVE  Listed'
    BY <2>2, <2>8, SocketTree
  <2>9. \A c \in Live : c \in CTE /\ \A d \in Own(c) : d \in CTE
    BY SlotsNamed
  <2>10. Listed'
    BY <1>2, <2>3, <2>4, <2>5, <2>6, <2>7, <2>8, <2>9, Zenon DEF Next
  <2> QED
    BY <2>1, <2>10
<1> QED
  BY <1>1, <1>2

\* As long as the ends of the list have not met, the capabilities form one ring
\* in which every subtree of derivations is contiguous and lies within its root,
\* and what comes behind it lies below it.
THEOREM TreeInvariant == Spec => [](TypeInv /\ TreeInv)
<1>1. Init => TypeInv /\ TreeInv
  BY TypeInit, TreeInit DEF TreeInv, Listed
<1>2. TypeInv /\ TreeInv /\ [Next]_vars => (TypeInv /\ TreeInv)'
  BY TypeStep, TreeStep
<1> QED
  BY <1>1, <1>2, PTL DEF Spec

\* The capabilities in the table, and no others, form one doubly linked ring.
THEOREM OneRingHolds == Spec => []OneRing
<1>1. TreeInv => OneRing
  BY DEF TreeInv, Ring, OneRing
<1> QED
  BY TreeInvariant, <1>1, PTL

\* Of two capabilities to one resource the one behind ends where the other has
\* passed on.
LEMMA BehindIsBelow ==
  ASSUME TypeOK, Listed, NEW x \in Live, NEW y \in after[x], SameSpace(cap[x], cap[y])
  PROVE  cap[y].end <= cap[x].mrk
<1>1. y \in Live /\ x \in CTE /\ y \in CTE
  BY RelationsLive DEF Live
<1>2. /\ cap[x] \in Cap /\ cap[y] \in Cap /\ view[x] = View(cap[x]) /\ view[y] = View(cap[y])
      /\ Numeric(view, CTE)
  BY <1>1, ViewNumeric DEF TypeOK
<1>3. cap[x].type = cap[y].type /\ cap[x].type \in Ranged
  BY DEF SameSpace
<1>4. view[x].kind = cap[x].type /\ view[y].kind = cap[x].type
  BY <1>2, <1>3, ViewFields
<1>5. view[x].key = view[y].key
  BY <1>2, <1>3, ViewFields DEF SameSpace, SameResource, Ranged
<1>6. view[y].hi <= view[x].mk
  <2>1. Shape(view[x]) /\ view[x].lo \in Nat /\ view[x].mk \in Nat /\ view[y].hi \in Nat
    BY <1>1, <1>2 DEF Listed, Tree, Numeric
  <2>2. CASE x \in anc[y]
    <3>1. Within(view[x], view[y])
      BY <1>1, <2>2 DEF Listed, Tree
    <3> QED
      BY <3>1, <1>3, <1>4 DEF Within, Ranged
  <2>3. CASE x \notin anc[y]
    <3>1. Related(view[x], view[y], root[x] = root[y])
      BY <1>3, <1>4, <1>5 DEF Related, Ranged
    <3>2. Below(view[x], view[y])
      BY <3>1, <2>3 DEF Listed, Tree
    <3> QED
      BY <3>2, <2>1, <1>3, <1>4 DEF Below, Shape, Ranged
  <2> QED
    BY <2>2, <2>3
<1>7. CASE cap[x].type = "mem"
  <2>1. /\ cap[x].tag = cap[y].tag /\ cap[x].tag \in Nat /\ cap[x].mrk \in Nat /\ cap[y].end \in Nat
    BY <1>2, <1>3, <1>7, CapVariant DEF SameSpace, SameResource, MemCap
  <2>2. /\ view[y].hi = tag_block_to_addr(cap[x].tag, cap[y].end)
        /\ view[x].mk = tag_block_to_addr(cap[x].tag, cap[x].mrk)
    BY <1>2, <1>3, <1>7, <2>1, ViewFields
  <2>3. tag_block_to_addr(cap[x].tag, cap[y].end) <= tag_block_to_addr(cap[x].tag, cap[x].mrk)
        <=> cap[y].end <= cap[x].mrk
    BY <2>1, Address
  <2> QED
    BY <1>6, <2>2, <2>3
<1>8. CASE cap[x].type # "mem"
  BY <1>2, <1>3, <1>6, <1>8, ViewFields DEF Ranged
<1> QED
  BY <1>7, <1>8

\* A channel has one server socket.
LEMMA OneServer ==
  ASSUME TypeOK, Listed, NEW ch \in Chans, NEW x \in ServerSockets(ch), NEW y \in ServerSockets(ch)
  PROVE  x = y
<1>1. ASSUME NEW u \in ServerSockets(ch), NEW v \in ServerSockets(ch), v \in after[u]
      PROVE  FALSE
  <2>1. /\ u \in Live /\ v \in Live /\ u \in CTE /\ v \in CTE
        /\ cap[u].type = "sock" /\ cap[u].tag = 0 /\ cap[u].chan = ch
        /\ cap[v].type = "sock" /\ cap[v].tag = 0 /\ cap[v].chan = ch
    BY DEF ServerSockets, Live
  <2>2. cap[u] \in Cap /\ cap[v] \in Cap /\ view[u] = View(cap[u]) /\ view[v] = View(cap[v])
    BY <2>1, ViewNumeric DEF TypeOK
  <2>3. /\ view[u].kind = "sock" /\ view[u].tag = 0 /\ view[u].lo = ch
        /\ view[v].kind = "sock" /\ view[v].tag = 0 /\ view[v].hi = ch + 1
    BY <2>1, <2>2, ViewFields
  <2>4. u \notin anc[v]
    BY <2>1, <2>3 DEF Listed, Tree, ChildKind
  <2>5. Related(view[u], view[v], root[u] = root[v])
    BY <2>3 DEF Related
  <2>6. Below(view[u], view[v])
    BY <1>1, <2>1, <2>4, <2>5 DEF Listed, Tree
  <2> QED
    BY <2>3, <2>6 DEF Below, Chans
<1>2. x \in Live /\ y \in Live
  BY DEF ServerSockets
<1> QED
  BY <1>1, <1>2 DEF Listed, LinearOrder

\* Two capabilities never both hold a part of a resource that neither has passed
\* on, and a channel has one server socket, at every step of every revocation.
THEOREM ExclusiveHolds == Spec => []Exclusive
<1>1. ASSUME TypeInv, TreeInv PROVE Exclusive
  <2> SUFFICES ASSUME ~shrunk
               PROVE  /\ \A x, y \in Live :
                           x # y /\ SameSpace(cap[x], cap[y])
                             => cap[x].end <= cap[y].mrk \/ cap[y].end <= cap[x].mrk
                      /\ \A ch \in Chans : Cardinality(ServerSockets(ch)) <= 1
    BY DEF Exclusive
  <2>1. TypeOK /\ Listed
    BY <1>1 DEF TypeInv, TreeInv, Listed
  <2>2. ASSUME NEW x \in Live, NEW y \in Live, x # y, SameSpace(cap[x], cap[y])
        PROVE  cap[x].end <= cap[y].mrk \/ cap[y].end <= cap[x].mrk
    <3>1. y \in after[x] \/ x \in after[y]
      BY <2>1, <2>2 DEF Listed, LinearOrder
    <3>2. SameSpace(cap[y], cap[x])
      BY <2>2 DEF SameSpace, SameResource
    <3> QED
      BY <3>1, <3>2, <2>1, <2>2, BehindIsBelow
  <2>3. ASSUME NEW ch \in Chans PROVE Cardinality(ServerSockets(ch)) <= 1
    <3>1. CASE ServerSockets(ch) = {}
      BY <3>1, FS_EmptySet
    <3>2. CASE ServerSockets(ch) # {}
      <4>1. PICK x : ServerSockets(ch) = {x}
        BY <3>2, <2>1, OneServer
      <4>2. Cardinality({x}) = 1
        BY FS_Singleton
      <4> QED
        BY <4>1, <4>2
    <3> QED
      BY <3>1, <3>2
  <2> QED
    BY <2>2, <2>3
<1> QED
  BY TreeInvariant, <1>1, PTL

\* Once the first child has passed back everything, it is the only descendant.
LEMMA LastChild ==
  ASSUME TypeOK, Listed, Apart, NEW x \in Live, revokes(cap[x], cap[next[x]]),
         cap[next[x]].type = cap[x].type, cap[x].type # "sock",
         View(cap[next[x]]).mk = View(cap[x]).lo, ~View(cap[next[x]]).lck
  PROVE  Descendants(x) \subseteq {next[x]}
<1> DEFINE q == next[x]
<1>1. q \in Live /\ Live \in SUBSET CTE /\ x \in CTE /\ q \in CTE
  BY DEF Listed, Ring, Live
<1>2. /\ cap[x] \in Cap /\ cap[q] \in Cap /\ Numeric(view, CTE)
      /\ view[x] = View(cap[x]) /\ view[q] = View(cap[q])
  BY <1>1, ViewNumeric DEF TypeOK
<1>3. x \in anc[q] /\ after[q] = after[x] \ {q}
  <2>1. cap[q].type # "pmp"
    BY <1>2 DEF revokes
  <2> QED
    BY <2>1, VictimDerived
<1> HIDE DEF q
<1>4. PICK w : SamePlace(view[x], w) /\ w.mk = view[q].mk /\ w.lck = view[q].lck
  <2> DEFINE v == view[x]
             w == [kind |-> v.kind, key |-> v.key, lo |-> v.lo, hi |-> v.hi, tag |-> v.tag,
                   mk |-> view[q].mk, lck |-> view[q].lck]
  <2>1. SamePlace(v, w) /\ w.mk = view[q].mk /\ w.lck = view[q].lck
    BY DEF SamePlace
  <2> QED
    BY <2>1
<1>5. /\ after \in [CTE -> SUBSET CTE] /\ anc \in [CTE -> SUBSET CTE]
      /\ LinearOrder(Live, after) /\ Tree(Live, after, anc, root, view)
  BY DEF TypeOK, Listed
<1>6. view[q].kind = view[x].kind /\ view[x].kind # "sock"
  BY <1>2, ViewFields DEF q
<1>7. \A y \in Live \ {x, q} : x \in anc[y] => Within(w, view[y])
  BY <1>1, <1>2, <1>3, <1>4, <1>5, <1>6, TreeAbsorb
<1>8. ASSUME NEW y \in Descendants(x), y # q PROVE FALSE
  <2>1. y \in Live /\ x \in anc[y] /\ y # x
    BY RelationsLive DEF Descendants
  <2>2. Within(w, view[y]) /\ Shape(view[y])
    BY <1>5, <1>7, <1>8, <2>1 DEF Tree
  <2>3. /\ w.mk = view[x].lo /\ ~w.lck /\ w.lo = view[x].lo /\ w.kind # "sock"
    BY <1>2, <1>4, <1>6 DEF SamePlace, q
  <2>4. view[x].lo \in Nat /\ view[y].lo \in Nat /\ view[y].hi \in Nat
    BY <1>1, <1>2, <2>1 DEF Numeric
  <2> QED
    BY <2>2, <2>3, <2>4 DEF Within, Shape
<1> QED
  BY <1>8 DEF Descendants, q

\* cap_revoke returns only when no descendant is left, and deletes descendants
\* only (for memory, only among the capabilities of the same boot capability).
THEOREM RevokesTreeHolds == Spec => []RevokesTree
<1>1. ASSUME TypeInv, TreeInv PROVE RevokesTree
  <2> SUFFICES ASSUME ~shrunk, NEW x \in Live
               PROVE  /\ revoke_done(x) => Descendants(x) \subseteq Victims(x)
                      /\ \A y \in Victims(x) :
                           cap[x].type # "mem" \/ root[y] = root[x] => y \in Descendants(x)
    BY DEF RevokesTree
  <2>1. TypeOK /\ Listed /\ Apart
    BY <1>1 DEF TypeInv, TreeInv, Listed
  <2> DEFINE p == cap[x]
             q == next[x]
             c == cap[q]
  <2>2. q \in Live /\ p \in Cap /\ c \in Cap
    BY <2>1 DEF Listed, Ring, Live, TypeOK
  <2>3. ASSUME revoke_done(x), revokes(p, c) PROVE Descendants(x) \subseteq Victims(x)
    <3>1. Victims(x) = {q}
      BY <2>3 DEF Victims
    <3>2. \/ p.type \in {"time", "mon", "chan"} /\ c.type = p.type /\ c.mrk = p.bgn
          \/ p.type = "mem" /\ c.type = "mem" /\ c.mrk = p.bgn /\ ~c.lck
      BY <2>3 DEF revoke_done
    <3>3. View(c).mk = View(p).lo /\ ~View(c).lck
      <4>1. CASE p.type \in {"time", "mon", "chan"}
        BY <4>1, <3>2, <2>2, ViewFields
      <4>2. CASE p.type = "mem"
        <5>1. c.tag = p.tag
          BY <4>2, <3>2, <2>3 DEF revokes, memory_child, pmp_child
        <5>2. c.type = "mem" /\ c.mrk = p.bgn /\ ~c.lck /\ c.lck \in BOOLEAN
          BY <4>2, <3>2, <2>2, CapVariant DEF MemCap
        <5>3. View(c).mk = tag_block_to_addr(c.tag, c.mrk) /\ View(c).lck = FALSE
          BY <5>2, <2>2, ViewFields
        <5>4. View(p).lo = tag_block_to_addr(p.tag, p.bgn)
          BY <4>2, <2>2, ViewFields
        <5> QED
          BY <5>1, <5>2, <5>3, <5>4
      <4> QED
        BY <3>2, <4>1, <4>2
    <3>4. c.type = p.type /\ p.type # "sock"
      BY <3>2
    <3> QED
      BY <2>1, <2>3, <3>1, <3>3, <3>4, LastChild
  <2>4. ASSUME ~revokes(p, c) PROVE Descendants(x) \subseteq Victims(x)
    BY <2>1, <2>4, NoVictimNoDescendants
  <2>5. ASSUME NEW y \in Victims(x), cap[x].type # "mem" \/ root[y] = root[x]
        PROVE  y \in Descendants(x)
    <3>1. y = q /\ revokes(p, c)
      BY DEF Victims
    <3>2. c.type = "pmp" => root[x] = root[q]
      BY <2>2, <2>5, <3>1, CapVariant DEF revokes, time_child, monitor_child, channel_child,
           chan_sock_child, socket_child
    <3>3. x \in anc[q]
      BY <2>1, <3>1, <3>2, VictimDerived
    <3> QED
      BY <2>2, <3>1, <3>3 DEF Descendants
  <2> QED
    BY <2>3, <2>4, <2>5
<1> QED
  BY TreeInvariant, <1>1, PTL

\* What a memory capability has not passed on is in no other memory capability,
\* and unless it is locked no PMP region of its tree overlaps it.
THEOREM MemoryPrivateHolds == Spec => []MemoryPrivate
<1>1. ASSUME TypeInv, TreeInv, Exclusive PROVE MemoryPrivate
  <2> SUFFICES ASSUME ~shrunk, NEW x \in Live, NEW y \in Live,
                      cap[x].type = "mem", ~cap[x].lck, cap[y].type = "pmp", root[y] = root[x]
               PROVE  ~Overlaps(cap[x], cap[y])
    BY <1>1 DEF MemoryPrivate
  <2>1. TypeOK /\ Listed
    BY <1>1 DEF TypeInv, TreeInv, Listed
  <2>2. x \in CTE /\ y \in CTE /\ x # y
    BY DEF Live
  <2>3. /\ cap[x] \in Cap /\ cap[y] \in Cap /\ view[x] = View(cap[x]) /\ view[y] = View(cap[y])
        /\ Numeric(view, CTE)
    BY <2>1, <2>2, ViewNumeric DEF TypeOK
  <2>4. /\ view[x].kind = "mem" /\ view[y].kind = "pmp" /\ view[x].lck = FALSE
        /\ view[x].mk = tag_block_to_addr(cap[x].tag, cap[x].mrk)
        /\ view[x].hi = tag_block_to_addr(cap[x].tag, cap[x].end)
        /\ view[y].lo = cap[y].base /\ view[y].hi = cap[y].base + cap[y].size
    BY <2>3, ViewFields
  <2>5. /\ Shape(view[x]) /\ Shape(view[y])
        /\ view[x].lo \in Nat /\ view[x].mk \in Nat /\ view[x].hi \in Nat
        /\ view[y].lo \in Nat /\ view[y].hi \in Nat
    BY <2>1, <2>2, <2>3 DEF Listed, Tree, Numeric
  <2>6. view[y].hi <= view[x].mk \/ view[x].hi <= view[y].lo
    <3>1. CASE y \in after[x] /\ x \in anc[y]
      <4>1. Within(view[x], view[y])
        BY <2>1, <3>1 DEF Listed, Tree
      <4> QED
        BY <4>1, <2>4 DEF Within
    <3>2. CASE y \in after[x] /\ x \notin anc[y]
      <4>1. Related(view[x], view[y], root[x] = root[y])
        BY <2>4 DEF Related
      <4>2. Below(view[x], view[y])
        BY <4>1, <3>2, <2>1 DEF Listed, Tree
      <4> QED
        BY <4>2, <2>4, <2>5 DEF Below, Shape
    <3>3. CASE x \in after[y]
      <4>1. y \notin anc[x]
        BY <2>1, <2>4 DEF Listed, Tree, ChildKind
      <4>2. Related(view[y], view[x], root[y] = root[x])
        BY <2>4 DEF Related
      <4>3. Below(view[y], view[x])
        BY <4>1, <4>2, <3>3, <2>1 DEF Listed, Tree
      <4> QED
        BY <4>3, <2>4, <2>5 DEF Below
    <3> QED
      BY <3>1, <3>2, <3>3, <2>1, <2>2 DEF Listed, LinearOrder
  <2> QED
    BY <2>4, <2>5, <2>6 DEF Overlaps
<1> QED
  BY TreeInvariant, ExclusiveHolds, <1>1, PTL

-----------------------------------------------------------------------------
(* Channels.                                                               *)

\* A server socket that is still in the table, wherever, serves its channel.
LEMMA StillServed ==
  ASSUME NEW ch, NEW x \in ServerSockets(ch), NEW y \in CTE, cap'[y] = cap[x]
  PROVE  ServerSockets(ch)' # {}
<1>1. cap'[y].type = "sock" /\ cap'[y].tag = 0 /\ cap'[y].chan = ch
  BY DEF ServerSockets
<1>2. y \in ServerSockets(ch)'
  BY <1>1 DEF ServerSockets, Live
<1> QED
  BY <1>2

\* Moving a capability takes a socket along as it is.
LEMMA MoveServes ==
  ASSUME TypeOK, NEW ch, NEW x \in ServerSockets(ch), NEW src \in CTE, NEW dst \in CTE,
         cap_move(src, dst)
  PROVE  ServerSockets(ch)' # {}
<1>1. cap \in [CTE -> Cap] /\ x \in CTE /\ cap[x].type = "sock" /\ src # dst /\ x # dst
  BY DEF TypeOK, ServerSockets, Live, cap_move, cte_is_empty
<1>2. CASE x = src
  <2>1. cap' = [cap EXCEPT ![src] = NoCap, ![dst] = cap[src]]
    BY <1>1, <1>2 DEF cap_move, cap_ipc_move_hook
  <2>2. cap'[dst] = cap[x]
    BY <1>1, <1>2, <2>1
  <2> QED
    BY <2>2, StillServed
<1>3. CASE x # src
  <2>1. cap'[x] = cap[x]
    BY <1>1, <1>3 DEF cap_move, cap_ipc_move_hook
  <2> QED
    BY <1>1, <2>1, StillServed
<1> QED
  BY <1>2, <1>3

\* What is left of a channel whose server socket is cleared.
Unregistered(chs, ch) == chs[ch].server = NULL /\ chs[ch].client = NULL

LEMMA ClearUnregisters ==
  ASSUME NEW chs, ChannelsOk(chs), NEW c, c.tag = 0, c.chan \in Chans, NEW pid
  PROVE  Unregistered(cap_sock_clear(chs, c, pid), c.chan)
<1>1. chs \in [Chans -> Channel]
  BY DEF ChannelsOk
<1> QED
  BY <1>1 DEF cap_sock_clear, Unregistered

\* A revocation: either the socket stays, or it is the child and is cleared.
LEMMA RevokeUnregisters ==
  ASSUME TypeInv, NEW ch \in Chans, NEW x \in ServerSockets(ch), NEW p \in CTE,
         \/ cap_revoke_time(p) \/ cap_revoke_memory(p) \/ cap_revoke_monitor(p)
         \/ cap_revoke_channel(p) \/ cap_revoke_socket(p)
  PROVE  ServerSockets(ch)' # {} \/ Unregistered(channels', ch)
<1>1. /\ cap \in [CTE -> Cap] /\ x \in CTE /\ next[p] \in CTE /\ ChannelsOk(channels)
      /\ cap[x].type = "sock" /\ cap[x].tag = 0 /\ cap[x].chan = ch
  BY ChannelsTyped DEF TypeInv, TypeOK, ServerSockets, Live
<1>2. CASE cap[p].type # "sock" /\ cap[next[p]].type # "sock"
  <2>1. x # p /\ x # next[p]
    BY <1>1, <1>2
  <2>2. cap'[x] = cap[x]
    BY <1>1, <2>1 DEF cap_revoke_time, cap_revoke_memory, cap_revoke_monitor, cap_revoke_channel,
           cap_revoke_socket, absorb, drop, reset
  <2> QED
    BY <1>1, <2>2, StillServed
<1>3. CASE cap[p].type # "sock" /\ cap[next[p]].type = "sock" /\ x # next[p]
  <2>1. x # p
    BY <1>1, <1>3
  <2>2. cap'[x] = cap[x]
    BY <1>1, <1>3, <2>1 DEF cap_revoke_time, cap_revoke_memory, cap_revoke_monitor,
           cap_revoke_channel, cap_revoke_socket, absorb, drop, reset
  <2> QED
    BY <1>1, <2>2, StillServed
<1>4. CASE cap[p].type # "sock" /\ x = next[p]
  <2>1. \/ channels' = cap_sock_clear(channels, cap[x], cte_pid(x))
        \/ \E u : cap' = [cap EXCEPT ![p] = u]
    BY <1>1, <1>4 DEF cap_revoke_time, cap_revoke_memory, cap_revoke_monitor, cap_revoke_channel,
           cap_revoke_socket, reset, time_child, memory_child, pmp_child, monitor_child, channel_child
  <2>2. CASE channels' = cap_sock_clear(channels, cap[x], cte_pid(x))
    BY <1>1, <2>2, ClearUnregisters
  <2>3. CASE \E u : cap' = [cap EXCEPT ![p] = u]
    <3>1. cap'[x] = cap[x]
      BY <1>1, <1>4, <2>3
    <3> QED
      BY <1>1, <3>1, StillServed
  <2> QED
    BY <2>1, <2>2, <2>3
<1>5. CASE cap[p].type = "sock"
  <2>1. /\ cap' = [cap EXCEPT ![next[p]] = NoCap]
        /\ channels' = cap_sock_clear(channels, cap[next[p]], cte_pid(next[p]))
    BY <1>5 DEF cap_revoke_time, cap_revoke_memory, cap_revoke_monitor, cap_revoke_channel,
           cap_revoke_socket, drop
  <2>2. CASE x = next[p]
    BY <1>1, <2>1, <2>2, ClearUnregisters
  <2>3. CASE x # next[p]
    <3>1. cap'[x] = cap[x]
      BY <1>1, <2>1, <2>3
    <3> QED
      BY <1>1, <3>1, StillServed
  <2> QED
    BY <2>2, <2>3
<1> QED
  BY <1>2, <1>3, <1>4, <1>5

\* Derivation and the PMP calls leave sockets as they are.
LEMMA QuietServes ==
  ASSUME TypeOK, NEW ch, NEW x \in ServerSockets(ch), NEW c \in CTE, NEW d \in CTE, NEW new,
         \/ c \in Live /\ d \notin Live /\ cap_derive(c, d, new)
         \/ \E slot \in PmpSlots : cap_pmp_load(c, slot)
         \/ cap_pmp_unload(c)
         \/ UNCHANGED cap
  PROVE  ServerSockets(ch)' # {}
<1>1. cap \in [CTE -> Cap] /\ x \in CTE /\ x \in Live /\ cap[x].type = "sock"
  BY DEF TypeOK, ServerSockets, Live
<1>2. cap'[x] = cap[x]
  <2>1. CASE c \in Live /\ d \notin Live /\ cap_derive(c, d, new)
    BY <1>1, <2>1 DEF cap_derive, cap_derive_time, cap_derive_memory, cap_derive_monitor,
         cap_derive_channel, cap_derive_socket, derive_into
  <2>2. CASE (\E slot \in PmpSlots : cap_pmp_load(c, slot)) \/ cap_pmp_unload(c)
    BY <1>1, <2>2 DEF cap_pmp_load, cap_pmp_unload
  <2> QED
    BY <2>1, <2>2
<1> QED
  BY <1>1, <1>2, StillServed

\* Nobody is a client of the channel, nor its server but one who held the socket.
Released(ch) ==
  /\ channels'[ch].client = NULL
  /\ channels'[ch].server \in {NULL} \union {cte_pid(x) : x \in ServerSockets(ch)}

\* A server that waits on a cleared channel.
LEMMA WaitReleases ==
  ASSUME NEW chs, ChannelsOk(chs), NEW ch \in Chans, Unregistered(chs, ch),
         NEW s, s.tag = 0, NEW pid, NEW buf
  PROVE  /\ do_recv(chs, s, pid, buf)[ch].client = NULL
         /\ do_recv(chs, s, pid, buf)[ch].server \in {NULL, pid}
         /\ s.chan # ch => do_recv(chs, s, pid, buf)[ch].server = NULL
<1>1. chs \in [Chans -> Channel] /\ chs[ch].client = NULL /\ chs[ch].server = NULL
  BY DEF ChannelsOk, Unregistered
<1>2. chs[ch] \in [server : Pids \union {NULL}, client : Pids \union {NULL},
                   cap_buf : CTE \union {NULL}]
  BY <1>1 DEF Channel
<1>3. CASE s.chan = ch
  <2>1. do_recv(chs, s, pid, buf)[ch] = [[chs[ch] EXCEPT !.server = pid] EXCEPT !.cap_buf = buf]
    BY <1>1, <1>3 DEF do_recv
  <2> QED
    BY <1>1, <1>2, <1>3, <2>1
<1>4. CASE s.chan # ch
  <2>1. do_recv(chs, s, pid, buf)[ch] = chs[ch]
    BY <1>1, <1>4 DEF do_recv
  <2> QED
    BY <1>1, <1>4, <2>1
<1> QED
  BY <1>3, <1>4

LEMMA DeleteUnregisters ==
  ASSUME TypeInv, NEW ch \in Chans, NEW x \in ServerSockets(ch), NEW c \in CTE, cap_delete(c),
         NEW chs, ChannelsOk(chs)
  PROVE  ServerSockets(ch)' # {} \/ (x = c /\ Unregistered(cap_delete_socket(chs, c), ch))
<1>1. /\ cap \in [CTE -> Cap] /\ x \in CTE
      /\ cap[x].type = "sock" /\ cap[x].tag = 0 /\ cap[x].chan = ch
  BY DEF TypeInv, TypeOK, ServerSockets, Live
<1>2. CASE x = c
  BY <1>1, <1>2, ClearUnregisters DEF cap_delete_socket
<1>3. CASE x # c
  <2>1. cap'[x] = cap[x]
    BY <1>1, <1>3 DEF cap_delete
  <2> QED
    BY <1>1, <2>1, StillServed
<1> QED
  BY <1>2, <1>3

\* A message leaves the sockets in the table, but for the one a server meant to
\* pass on when nobody takes it.
LEMMA MessageReleases ==
  ASSUME TypeInv, NEW ch \in Chans, NEW x \in ServerSockets(ch),
         NEW sock \in CTE, NEW buf \in CTE, NEW send_cap,
         \/ cap_sock_send(sock, buf, send_cap) \/ cap_sock_recv(sock, buf)
         \/ cap_sock_sendrecv(sock, buf, send_cap)
  PROVE  ServerSockets(ch)' # {} \/ Released(ch)
<1> DEFINE s == cap[sock]
           dst == channels[s.chan].cap_buf
           taken == take_receiver(s)
           chs == cap_delete_socket(taken, buf)
<1>1. /\ s.type = "sock"
      /\ \/ do_send(s, buf, send_cap)
         \/ UNCHANGED capVars
         \/ s.tag = 0 /\ cap_delete(buf) /\ channels' = do_recv(chs, s, cte_pid(sock), buf)
  BY DEF cap_sock_send, cap_sock_recv, cap_sock_sendrecv
<1>2. TypeOK /\ s.chan \in Chans
  BY <1>1, SocketChannel DEF TypeInv
<1>3. UNCHANGED capVars => ServerSockets(ch)' # {}
  BY <1>2, QuietServes DEF capVars
<1>4. CASE do_send(s, buf, send_cap)
  <2>1. channels[s.chan].server # NULL \/ channels[s.chan].client # NULL
    BY <1>4 DEF do_send, receiver
  <2>2. dst \in CTE
    BY <2>1, <1>2 DEF TypeInv, TypeOK, ReceiverHasBuffer, Channel
  <2>3. cap_move(buf, dst) \/ UNCHANGED capVars
    BY <1>4 DEF do_send
  <2> HIDE DEF dst
  <2> QED
    BY <2>2, <2>3, <1>2, <1>3, MoveServes
<1>5. CASE s.tag = 0 /\ cap_delete(buf) /\ channels' = do_recv(chs, s, cte_pid(sock), buf)
  <2>1. ChannelsOk(taken) /\ ChannelsOk(chs)
    BY TakeTyped, DeleteSocketTyped
  <2>2. CASE x = buf /\ Unregistered(chs, ch) /\ ServerSockets(ch)' = {}
    <3> HIDE DEF chs
    <3>1. /\ channels'[ch].client = NULL /\ channels'[ch].server \in {NULL, cte_pid(sock)}
          /\ s.chan # ch => channels'[ch].server = NULL
      BY <1>5, <2>1, <2>2, WaitReleases
    <3>2. s.chan = ch => sock \in ServerSockets(ch)
      BY <1>1, <1>5 DEF ServerSockets, Live
    <3> QED
      BY <3>1, <3>2 DEF Released
  <2> HIDE DEF chs, taken
  <2>3. ServerSockets(ch)' # {} \/ (x = buf /\ Unregistered(cap_delete_socket(taken, buf), ch))
    BY <1>5, <2>1, DeleteUnregisters
  <2> QED
    BY <2>2, <2>3 DEF chs
<1> QED
  BY <1>1, <1>3, <1>4, <1>5

\* When a channel loses its server socket, by whatever call, its client is
\* unregistered in the same step, and no other process stays its server.
THEOREM SocketLossHolds == Spec => SocketLossUnregisters
<1> DEFINE A == ~shrunk => \A ch \in Chans :
                  ServerSockets(ch) # {} /\ ServerSockets(ch)' = {} =>
                    /\ channels'[ch].client = NULL
                    /\ channels'[ch].server \in {NULL} \union {cte_pid(x) : x \in ServerSockets(ch)}
<1>1. TypeInv /\ [Next]_vars => [A]_vars
  <2> SUFFICES ASSUME TypeInv, Next, NEW ch \in Chans, NEW x \in ServerSockets(ch),
                      ServerSockets(ch)' = {}
               PROVE  Released(ch)
    BY DEF Released
  <2>1. TypeOK /\ ChannelsOk(channels)
    BY ChannelsTyped DEF TypeInv
  <2>2. ASSUME NEW src \in CTE, NEW dst \in CTE, cap_move(src, dst) PROVE FALSE
    BY <2>1, <2>2, MoveServes
  <2>3. ASSUME NEW c \in CTE, cap_delete(c), channels' = cap_delete_socket(channels, c)
        PROVE  Released(ch)
    BY <2>1, <2>3, DeleteUnregisters DEF Released, Unregistered
  <2>4. ASSUME NEW p \in CTE,
               \/ cap_revoke_time(p) \/ cap_revoke_memory(p) \/ cap_revoke_monitor(p)
               \/ cap_revoke_channel(p) \/ cap_revoke_socket(p)
        PROVE  Released(ch)
    BY <2>4, RevokeUnregisters DEF Released, Unregistered
  <2>5. ASSUME NEW c \in CTE, NEW d \in CTE, NEW new,
               \/ c \in Live /\ d \notin Live /\ cap_derive(c, d, new)
               \/ \E slot \in PmpSlots : cap_pmp_load(c, slot)
               \/ cap_pmp_unload(c)
        PROVE  FALSE
    BY <2>1, <2>5, QuietServes
  <2>6. ASSUME NEW sock \in CTE, NEW buf \in CTE, NEW send_cap \in BOOLEAN,
               \/ cap_sock_send(sock, buf, send_cap) \/ cap_sock_recv(sock, buf)
               \/ cap_sock_sendrecv(sock, buf, send_cap)
        PROVE  Released(ch)
    BY <2>6, MessageReleases
  <2>7. \A c \in Live : c \in CTE /\ \A d \in Own(c) : d \in CTE
    BY SlotsNamed
  <2> QED
    BY <2>2, <2>3, <2>4, <2>5, <2>6, <2>7, Zenon DEF Next
<1> QED
  BY TreeInvariant, <1>1, PTL DEF Spec, SocketLossUnregisters

-----------------------------------------------------------------------------
(* The schedule.                                                           *)

\* The capability in x is for slot i of hart h and has not passed it on.
Runs(x, h, i) ==
  x \in Live /\ cap[x].type = "time" /\ cap[x].hart = h /\ cap[x].mrk <= i /\ i < cap[x].end

\* ScheduleMatches slot by slot.
Given ==
  \A x \in CTE, h \in Harts, i \in Slots :
    Runs(x, h, i) => slots[h][i] = [pid |-> cte_pid(x), length |-> cap[x].end - i]
Covered ==
  \A h \in Harts, i \in Slots : slots[h][i].length > 0 => \E x \in CTE : Runs(x, h, i)

LEMMA SlotwiseMatches ==
  ASSUME TypeInv, Given, Covered
  PROVE  ScheduleMatches
<1>1. ASSUME NEW x \in Live, cap[x].type = "time", NEW i \in cap[x].mrk .. (cap[x].end - 1)
      PROVE  slots[cap[x].hart][i] = [pid |-> cte_pid(x), length |-> cap[x].end - i]
  <2>1. x \in CTE
    BY DEF Live
  <2>2. /\ cap[x].hart \in Harts /\ cap[x].mrk \in Nat /\ cap[x].end \in Nat
        /\ cap[x].end <= SLOT_CNT
    BY <1>1, <2>1, TimeFields
  <2>3. i \in Slots /\ Runs(x, cap[x].hart, i)
    BY <1>1, <2>2, SlotCntAssumption DEF Slots, Runs
  <2> QED
    BY <2>1, <2>2, <2>3 DEF Given
<1>2. ASSUME NEW h \in Harts, NEW i \in Slots, slots[h][i].length > 0
      PROVE  \E x \in Live : /\ cap[x].type = "time" /\ cap[x].hart = h
                             /\ cap[x].mrk <= i /\ i < cap[x].end
  BY <1>2 DEF Covered, Runs
<1> QED
  BY <1>1, <1>2 DEF ScheduleMatches

\* Steps that leave the schedule, and the time of every process, alone.
LEMMA SlotsLeft ==
  ASSUME TypeOK, Given, Covered, UNCHANGED slots,
         \A x \in CTE, h \in Harts, i \in Slots :
           Runs(x, h, i)' => \E y \in CTE : /\ Runs(y, h, i) /\ cte_pid(y) = cte_pid(x)
                                            /\ cap[y].end = cap'[x].end,
         \A x \in CTE, h \in Harts, i \in Slots : Runs(x, h, i) => \E y \in CTE : Runs(y, h, i)'
  PROVE  Given' /\ Covered'
<1>1. Given'
  BY DEF Given
<1>2. Covered'
  BY DEF Covered
<1> QED
  BY <1>1, <1>2

\* The capability in x is given the slots [from, to) of its hart, which nobody
\* else has after the step.
LEMMA SlotsGiven ==
  ASSUME TypeInv, TypeInv', Exclusive', ~shrunk', Given, Covered,
         NEW x \in CTE, x \in Live', NEW end, NEW hart \in Harts, NEW from \in Nat, NEW to \in Nat,
         cap'[x].type = "time", cap'[x].hart = hart, cap'[x].end = end,
         cap'[x].mrk <= from, to <= end,
         slots' = sched_update(cte_pid(x), end, hart, from, to),
         \A y \in CTE, h \in Harts, i \in Slots :
           Runs(y, h, i)' => (Runs(y, h, i) /\ cap[y].end = cap'[y].end)
                             \/ (y = x /\ h = hart /\ from <= i /\ i < to),
         \A y \in CTE, h \in Harts, i \in Slots :
           Runs(y, h, i) => Runs(y, h, i)' \/ (h = hart /\ from <= i /\ i < to)
  PROVE  Given' /\ Covered'
<1>1. /\ slots \in [Harts -> [Slots -> SlotInfo]]
      /\ \A y \in CTE : cap'[y].type = "time" => cap'[y].mrk \in Nat /\ cap'[y].end \in Nat
  BY CapVariant DEF TypeInv, TypeOK, TimeCap
<1>2. ASSUME NEW h \in Harts, NEW i \in Slots, ~(h = hart /\ from <= i /\ i < to)
      PROVE  slots'[h][i] = slots[h][i]
  BY <1>1, <1>2 DEF sched_update
<1>3. ASSUME NEW i \in Slots, from <= i, i < to
      PROVE  slots'[hart][i] = [pid |-> cte_pid(x), length |-> end - i] /\ Runs(x, hart, i)'
  <2>1. slots'[hart][i] = [pid |-> cte_pid(x), length |-> end - i]
    BY <1>1, <1>3 DEF sched_update
  <2>2. Runs(x, hart, i)'
    BY <1>1, <1>3 DEF Runs, Slots
  <2> QED
    BY <2>1, <2>2
<1>4. ASSUME NEW y \in CTE, NEW h \in Harts, NEW i \in Slots, Runs(y, h, i)'
      PROVE  slots'[h][i] = [pid |-> cte_pid(y), length |-> cap'[y].end - i]
  <2>1. CASE h = hart /\ from <= i /\ i < to
    <3>1. Runs(x, h, i)'
      BY <2>1, <1>3
    <3>2. ASSUME y # x PROVE FALSE
      <4>1. y \in Live' /\ x \in Live' /\ SameSpace(cap'[x], cap'[y])
        BY <1>4, <2>1, <3>1 DEF Runs, SameSpace, SameResource, Ranged
      <4>2. cap'[x].end <= cap'[y].mrk \/ cap'[y].end <= cap'[x].mrk
        BY <3>2, <4>1 DEF Exclusive
      <4> QED
        BY <1>1, <1>4, <3>1, <4>2 DEF Runs, Slots
    <3> QED
      BY <2>1, <3>2, <1>3
  <2>2. CASE ~(h = hart /\ from <= i /\ i < to)
    <3>1. Runs(y, h, i) /\ cap[y].end = cap'[y].end
      BY <1>4, <2>2
    <3> QED
      BY <3>1, <2>2, <1>2 DEF Given
  <2> QED
    BY <2>1, <2>2
<1>5. ASSUME NEW h \in Harts, NEW i \in Slots, slots'[h][i].length > 0
      PROVE  \E y \in CTE : Runs(y, h, i)'
  <2>1. CASE h = hart /\ from <= i /\ i < to
    BY <2>1, <1>3
  <2>2. CASE ~(h = hart /\ from <= i /\ i < to)
    <3>1. \E y \in CTE : Runs(y, h, i)
      BY <1>2, <1>5, <2>2 DEF Covered
    <3> QED
      BY <3>1, <2>2
  <2> QED
    BY <2>1, <2>2
<1> QED
  BY <1>4, <1>5 DEF Given, Covered

\* Steps that leave the schedule and the time capabilities alone.
LEMMA QuietSchedule ==
  ASSUME TypeOK, Given, Covered, UNCHANGED slots,
         \A x \in CTE : cap[x].type = "time" \/ cap'[x].type = "time" => cap'[x] = cap[x]
  PROVE  Given' /\ Covered'
<1>1. \A x \in CTE, h \in Harts, i \in Slots : Runs(x, h, i)' <=> Runs(x, h, i)
  BY DEF Runs, Live
<1>2. \A x \in CTE, h \in Harts, i \in Slots : Runs(x, h, i)' => cap[x].end = cap'[x].end
  BY DEF Runs
<1> QED
  BY <1>1, <1>2, SlotsLeft

\* The state of the table before and after a step.
Steady ==
  /\ TypeInv /\ Exclusive /\ Listed /\ Apart /\ ~shrunk
  /\ TypeInv' /\ Exclusive' /\ ~shrunk'

LEMMA MoveSchedule ==
  ASSUME Steady, Given, Covered, NEW src \in CTE, NEW dst \in CTE, cap_move(src, dst)
  PROVE  Given' /\ Covered'
<1> DEFINE c == cap[src]
<1>1. /\ cap \in [CTE -> Cap] /\ src \in Live /\ dst \notin Live /\ src # dst /\ TypeInv /\ TypeOK
      /\ c \in Cap
  BY DEF Steady, TypeInv, TypeOK, cap_move, cte_is_empty, Live
<1>2. CASE c.type # "time"
  <2>1. UNCHANGED slots
    BY <1>2 DEF cap_move, cap_ipc_move_hook
  <2>2. \A x \in CTE \ {src, dst} : cap'[x] = cap[x]
    BY <1>1 DEF cap_move, cap_ipc_move_hook
  <2>3. cap'[src] = NoCap
    BY <1>1 DEF cap_move, cap_ipc_move_hook
  <2>4. cap'[dst].type = c.type
    <3>1. c.type = "pmp" => c \in PmpCap
      BY <1>1, CapVariant
    <3>2. CASE c.type = "pmp"
      <4> DEFINE e == [c EXCEPT !.used = FALSE, !.slot = IF c.used THEN 0 ELSE c.slot]
      <4>1. e.type = "pmp"
        BY <3>1, <3>2 DEF PmpCap
      <4>2. \/ cap' = [cap EXCEPT ![src] = NoCap, ![dst] = e]
            \/ cap' = [cap EXCEPT ![src] = NoCap, ![dst] = c]
        BY <3>2 DEF cap_move, cap_ipc_move_hook
      <4> HIDE DEF e
      <4>3. cap'[dst] = e \/ cap'[dst] = c
        BY <1>1, <4>2
      <4> QED
        BY <3>2, <4>1, <4>3
    <3>3. CASE c.type # "pmp"
      BY <1>1, <3>3 DEF cap_move, cap_ipc_move_hook
    <3> QED
      BY <3>2, <3>3
  <2>5. cap[dst].type = "none"
    BY <1>1 DEF Live
  <2> QED
    BY <1>1, <1>2, <2>1, <2>2, <2>3, <2>4, <2>5, NoCapTyped, QuietSchedule
<1>3. ASSUME c.type = "time"
      PROVE  /\ cap' = [cap EXCEPT ![src] = NoCap, ![dst] = c]
             /\ \/ cte_pid(src) = cte_pid(dst) /\ UNCHANGED slots
                \/ slots' = sched_update(cte_pid(dst), c.end, c.hart, c.mrk, c.end)
  BY <1>3 DEF cap_move, cap_ipc_move_hook
<1>4. ASSUME c.type = "time"
      PROVE  /\ cap'[src] = NoCap /\ cap'[dst] = c /\ \A x \in CTE \ {src, dst} : cap'[x] = cap[x]
             /\ c.hart \in Harts /\ c.mrk \in Nat /\ c.end \in Nat /\ dst \in Live'
             /\ cap[dst].type = "none" /\ cap'[src].type = "none"
  <2>1. /\ cap'[src] = NoCap /\ cap'[dst] = c /\ \A x \in CTE \ {src, dst} : cap'[x] = cap[x]
    BY <1>1, <1>3, <1>4
  <2>2. c.hart \in Harts /\ c.mrk \in Nat /\ c.end \in Nat
    BY <1>1, <1>4, TimeFields
  <2> QED
    BY <1>1, <1>4, <2>1, <2>2, NoCapTyped DEF Live
<1> HIDE DEF c
<1>5. CASE c.type = "time" /\ cte_pid(src) = cte_pid(dst) /\ UNCHANGED slots
  <2>1. ASSUME NEW x \in CTE, NEW h \in Harts, NEW i \in Slots, Runs(x, h, i)'
        PROVE  \E y \in CTE : /\ Runs(y, h, i) /\ cte_pid(y) = cte_pid(x)
                              /\ cap[y].end = cap'[x].end
    <3>1. CASE x = dst
      BY <3>1, <2>1, <1>1, <1>4, <1>5 DEF Runs, c
    <3>2. CASE x # dst
      BY <3>2, <2>1, <1>4, <1>5 DEF Runs, Live
    <3> QED
      BY <3>1, <3>2
  <2>2. ASSUME NEW x \in CTE, NEW h \in Harts, NEW i \in Slots, Runs(x, h, i)
        PROVE  \E y \in CTE : Runs(y, h, i)'
    <3>1. CASE x = src
      BY <3>1, <2>2, <1>1, <1>4, <1>5 DEF Runs, c
    <3>2. CASE x # src
      BY <3>2, <2>2, <1>4, <1>5 DEF Runs, Live
    <3> QED
      BY <3>1, <3>2
  <2> QED
    BY <1>1, <1>5, <2>1, <2>2, SlotsLeft
<1>6. CASE c.type = "time" /\ slots' = sched_update(cte_pid(dst), c.end, c.hart, c.mrk, c.end)
  <2>1. ASSUME NEW y \in CTE, NEW h \in Harts, NEW i \in Slots, Runs(y, h, i)'
        PROVE  (Runs(y, h, i) /\ cap[y].end = cap'[y].end)
                 \/ (y = dst /\ h = c.hart /\ c.mrk <= i /\ i < c.end)
    BY <2>1, <1>4, <1>6 DEF Runs, Live
  <2>2. ASSUME NEW y \in CTE, NEW h \in Harts, NEW i \in Slots, Runs(y, h, i)
        PROVE  Runs(y, h, i)' \/ (h = c.hart /\ c.mrk <= i /\ i < c.end)
    BY <2>2, <1>4, <1>6 DEF Runs, Live, c
  <2>3. c.hart \in Harts /\ c.mrk \in Nat /\ c.end \in Nat /\ c.mrk <= c.mrk /\ c.end <= c.end
    BY <1>4, <1>6
  <2> QED
    BY <1>1, <1>4, <1>6, <2>1, <2>2, <2>3, SlotsGiven DEF Steady
<1> QED
  BY <1>2, <1>3, <1>5, <1>6

LEMMA DeleteSchedule ==
  ASSUME Steady, Given, Covered, NEW c \in CTE, cap_delete(c)
  PROVE  Given' /\ Covered'
<1> DEFINE d == cap[c]
<1>1. /\ cap \in [CTE -> Cap] /\ c \in Live /\ TypeInv /\ TypeOK /\ Exclusive /\ ~shrunk
      /\ slots \in [Harts -> [Slots -> SlotInfo]]
  BY DEF Steady, TypeInv, TypeOK, cap_delete, cte_is_empty, Live
<1>2. cap'[c] = NoCap /\ \A x \in CTE \ {c} : cap'[x] = cap[x]
  BY <1>1 DEF cap_delete
<1>3. CASE d.type # "time"
  BY <1>1, <1>2, <1>3, NoCapTyped, QuietSchedule DEF cap_delete
<1>4. CASE d.type = "time"
  <2>0. slots' = sched_delete(d.hart, d.mrk, d.end) /\ d.hart \in Harts /\ d.mrk \in Nat /\ d.end \in Nat
    BY <1>1, <1>4, TimeFields DEF cap_delete
  <2>1. ASSUME NEW h \in Harts, NEW i \in Slots, ~(h = d.hart /\ d.mrk <= i /\ i < d.end)
        PROVE  slots'[h][i] = slots[h][i]
    BY <1>1, <2>0, <2>1 DEF sched_delete
  <2>2. ASSUME NEW i \in Slots, d.mrk <= i, i < d.end
        PROVE  slots'[d.hart][i].length = 0
    BY <1>1, <2>0, <2>2 DEF sched_delete
  <2>3. ASSUME NEW y \in CTE, NEW h \in Harts, NEW i \in Slots
        PROVE  /\ Runs(y, h, i)' <=> Runs(y, h, i) /\ y # c
               /\ Runs(y, h, i)' => cap'[y].end = cap[y].end
    BY <1>2, NoCapTyped DEF Runs, Live
  <2>4. ASSUME NEW y \in CTE, NEW h \in Harts, NEW i \in Slots, Runs(y, h, i), y # c,
               h = d.hart, d.mrk <= i, i < d.end
        PROVE  FALSE
    <3>1. y \in Live /\ SameSpace(cap[c], cap[y])
      BY <1>4, <2>4 DEF Runs, SameSpace, SameResource, Ranged
    <3>2. cap[c].end <= cap[y].mrk \/ cap[y].end <= cap[c].mrk
      BY <1>1, <2>4, <3>1 DEF Exclusive
    <3>3. cap[y].mrk \in Nat /\ cap[y].end \in Nat
      BY <1>1, <2>4, TimeFields DEF Runs
    <3> QED
      BY <2>0, <2>4, <3>2, <3>3 DEF Runs, Slots
  <2>5. Given'
    BY <2>1, <2>3, <2>4 DEF Given
  <2>6. ASSUME NEW h \in Harts, NEW i \in Slots, slots'[h][i].length > 0
        PROVE  \E x \in CTE : Runs(x, h, i)'
    <3>1. ~(h = d.hart /\ d.mrk <= i /\ i < d.end)
      BY <2>2, <2>6
    <3>2. PICK x \in CTE : Runs(x, h, i)
      BY <2>1, <2>6, <3>1 DEF Covered
    <3>3. x # c
      BY <3>1, <3>2 DEF Runs
    <3> QED
      BY <2>3, <3>2, <3>3
  <2> QED
    BY <2>5, <2>6 DEF Covered
<1> QED
  BY <1>3, <1>4

\* Time capabilities lie within what they were derived from, so the slots that
\* a revocation hands back end where the parent's own begin.
LEMMA RevokeTimeSchedule ==
  ASSUME Steady, Given, Covered, NEW p \in CTE, cap_revoke_time(p)
  PROVE  Given' /\ Covered'
<1> DEFINE u == cap[p]
           child == next[p]
           c == cap[child]
<1>1. /\ TypeInv /\ TypeOK /\ Listed /\ Apart /\ Exclusive /\ ~shrunk /\ u.type = "time"
      /\ cap \in [CTE -> Cap] /\ child \in CTE /\ p \in Live
  BY DEF Steady, TypeInv, TypeOK, cap_revoke_time, Live
<1>2. /\ u \in TimeCap /\ u.hart \in Harts
      /\ u.bgn \in Nat /\ u.mrk \in Nat /\ u.end \in Nat /\ u.bgn <= u.mrk /\ u.mrk <= u.end
  BY <1>1, TimeFields
<1>3. ASSUME NEW m \in Nat
      PROVE  /\ [u EXCEPT !.mrk = m].type = "time" /\ [u EXCEPT !.mrk = m].hart = u.hart
             /\ [u EXCEPT !.mrk = m].end = u.end /\ [u EXCEPT !.mrk = m].mrk = m
  BY <1>1, <1>2 DEF TimeCap
<1>4. CASE time_child(u, c)
  <2>1. c.type = "time" /\ revokes(u, c)
    BY <1>1, <1>4 DEF time_child, revokes
  <2>2. p \in anc[child] /\ child \in after[p]
    BY <1>1, <2>1, VictimDerived
  <2>3. child # p /\ child \in Live
    BY <1>1, <2>2, RelationsLive
  <2>4. /\ c.hart = u.hart /\ c.mrk \in Nat /\ c.end \in Nat /\ c.mrk <= c.end /\ c.end <= u.mrk
    <3>1. SameSpace(u, c)
      BY <1>1, <1>4 DEF time_child, SameSpace, SameResource, Ranged
    <3>2. c.end <= u.mrk
      BY <1>1, <2>2, <3>1, BehindIsBelow
    <3> QED
      BY <1>1, <1>4, <2>1, <3>2, TimeFields DEF time_child
  <2> DEFINE w == [u EXCEPT !.mrk = c.mrk]
  <2>5. /\ w.type = "time" /\ w.hart = u.hart /\ w.end = u.end /\ w.mrk = c.mrk
    BY <1>3, <2>4
  <2>6. /\ cap' = [cap EXCEPT ![child] = NoCap, ![p] = w]
        /\ slots' = sched_update(cte_pid(p), u.end, u.hart, c.mrk, u.mrk)
    BY <1>4 DEF cap_revoke_time, absorb
  <2> HIDE DEF w, child
  <2>7. cap'[child] = NoCap /\ cap'[p] = w /\ \A x \in CTE \ {child, p} : cap'[x] = cap[x]
    BY <1>1, <2>3, <2>6
  <2> HIDE DEF u, c
  <2>8. ASSUME NEW y \in CTE, NEW h \in Harts, NEW i \in Slots, Runs(y, h, i)'
        PROVE  (Runs(y, h, i) /\ cap[y].end = cap'[y].end)
                 \/ (y = p /\ h = u.hart /\ c.mrk <= i /\ i < u.mrk)
    <3>0. i \in Nat
      BY DEF Slots
    <3>1. CASE y = p
      <4>1. h = u.hart /\ c.mrk <= i /\ i < u.end
        BY <2>5, <2>7, <2>8, <3>1 DEF Runs
      <4> QED
        BY <1>1, <1>2, <2>5, <2>7, <3>0, <3>1, <4>1 DEF Runs, u
    <3>2. CASE y = child
      BY <2>7, <2>8, <3>2, NoCapTyped DEF Runs
    <3>3. CASE y # p /\ y # child
      BY <2>7, <2>8, <3>3 DEF Runs, Live
    <3> QED
      BY <3>1, <3>2, <3>3
  <2>9. ASSUME NEW y \in CTE, NEW h \in Harts, NEW i \in Slots, Runs(y, h, i)
        PROVE  Runs(y, h, i)' \/ (h = u.hart /\ c.mrk <= i /\ i < u.mrk)
    <3>0. i \in Nat
      BY DEF Slots
    <3>1. CASE y = p
      <4>1. h = u.hart /\ u.mrk <= i /\ i < u.end
        BY <2>9, <3>1 DEF Runs, u
      <4>2. c.mrk <= i
        BY <1>2, <2>4, <3>0, <4>1
      <4> QED
        BY <2>5, <2>7, <3>1, <4>1, <4>2 DEF Runs, Live
    <3>2. CASE y = child
      <4>1. h = c.hart /\ c.mrk <= i /\ i < c.end
        BY <2>9, <3>2 DEF Runs, c
      <4> QED
        BY <1>2, <2>4, <3>0, <4>1
    <3>3. CASE y # p /\ y # child
      BY <2>7, <2>9, <3>3 DEF Runs, Live
    <3> QED
      BY <3>1, <3>2, <3>3
  <2>10. p \in Live' /\ cap'[p].type = "time" /\ cap'[p].hart = u.hart /\ cap'[p].end = u.end
         /\ cap'[p].mrk <= c.mrk
    BY <2>4, <2>5, <2>7 DEF Live
  <2> QED
    <3>1. u.hart \in Harts /\ c.mrk \in Nat /\ u.mrk \in Nat /\ u.mrk <= u.end
      BY <1>2, <2>4
    <3>2. PICK from \in Nat : from = c.mrk
      BY <3>1
    <3>3. /\ slots' = sched_update(cte_pid(p), u.end, u.hart, from, u.mrk)
          /\ cap'[p].mrk <= from
      BY <2>6, <2>10, <3>2
    <3>4. \A y \in CTE, h \in Harts, i \in Slots :
            Runs(y, h, i)' => (Runs(y, h, i) /\ cap[y].end = cap'[y].end)
                              \/ (y = p /\ h = u.hart /\ from <= i /\ i < u.mrk)
      BY <2>8, <3>2
    <3>5. \A y \in CTE, h \in Harts, i \in Slots :
            Runs(y, h, i) => Runs(y, h, i)' \/ (h = u.hart /\ from <= i /\ i < u.mrk)
      BY <2>9, <3>2
    <3> QED
      BY <2>10, <3>1, <3>3, <3>4, <3>5, SlotsGiven DEF Steady
<1>5. CASE ~time_child(u, c)
  <2> DEFINE w == [u EXCEPT !.mrk = u.bgn]
  <2>5. /\ w.type = "time" /\ w.hart = u.hart /\ w.end = u.end /\ w.mrk = u.bgn
    BY <1>2, <1>3
  <2>6. /\ cap' = [cap EXCEPT ![p] = w]
        /\ slots' = sched_update(cte_pid(p), u.end, u.hart, u.bgn, u.mrk)
    BY <1>5 DEF cap_revoke_time, reset
  <2> HIDE DEF w, child
  <2>7. cap'[p] = w /\ \A x \in CTE \ {p} : cap'[x] = cap[x]
    BY <1>1, <2>6
  <2> HIDE DEF u, c
  <2>8. ASSUME NEW y \in CTE, NEW h \in Harts, NEW i \in Slots, Runs(y, h, i)'
        PROVE  (Runs(y, h, i) /\ cap[y].end = cap'[y].end)
                 \/ (y = p /\ h = u.hart /\ u.bgn <= i /\ i < u.mrk)
    <3>0. i \in Nat
      BY DEF Slots
    <3>1. CASE y = p
      <4>1. h = u.hart /\ u.bgn <= i /\ i < u.end
        BY <2>5, <2>7, <2>8, <3>1 DEF Runs
      <4> QED
        BY <1>1, <1>2, <2>5, <2>7, <3>0, <3>1, <4>1 DEF Runs, u
    <3>3. CASE y # p
      BY <2>7, <2>8, <3>3 DEF Runs, Live
    <3> QED
      BY <3>1, <3>3
  <2>9. ASSUME NEW y \in CTE, NEW h \in Harts, NEW i \in Slots, Runs(y, h, i)
        PROVE  Runs(y, h, i)' \/ (h = u.hart /\ u.bgn <= i /\ i < u.mrk)
    <3>0. i \in Nat
      BY DEF Slots
    <3>1. CASE y = p
      <4>1. h = u.hart /\ u.mrk <= i /\ i < u.end
        BY <2>9, <3>1 DEF Runs, u
      <4>2. u.bgn <= i
        BY <1>2, <3>0, <4>1
      <4> QED
        BY <2>5, <2>7, <3>1, <4>1, <4>2 DEF Runs, Live
    <3>3. CASE y # p
      BY <2>7, <2>9, <3>3 DEF Runs, Live
    <3> QED
      BY <3>1, <3>3
  <2>10. p \in Live' /\ cap'[p].type = "time" /\ cap'[p].hart = u.hart /\ cap'[p].end = u.end
         /\ cap'[p].mrk <= u.bgn
    BY <1>2, <2>5, <2>7 DEF Live
  <2> QED
    BY <1>2, <2>6, <2>8, <2>9, <2>10, SlotsGiven DEF Steady
<1> QED
  BY <1>4, <1>5

LEMMA DeriveTimeSchedule ==
  ASSUME Steady, Given, Covered, NEW src \in CTE, NEW dst \in CTE, dst \notin Live,
         NEW new \in Cap, cap_is_valid(new), cap_derive_time(src, dst, new)
  PROVE  Given' /\ Covered'
<1> DEFINE s == cap[src]
           w == [s EXCEPT !.mrk = new.end]
<1>1. /\ TypeInv /\ s.type = "time" /\ new.type = "time" /\ cap \in [CTE -> Cap] /\ src # dst
      /\ new.hart = s.hart /\ new.bgn = s.mrk /\ new.end <= s.end
  BY DEF Steady, TypeInv, TypeOK, cap_derive_time, Live
<1>2. s \in TimeCap /\ s.hart \in Harts /\ s.mrk \in Nat /\ s.end \in Nat
  BY <1>1, TimeFields
<1>3. new \in TimeCap /\ new.mrk = new.bgn /\ new.bgn < new.end
  BY <1>1, CapVariant DEF cap_is_valid
<1>4. new.hart \in Harts /\ new.bgn \in Nat /\ new.end \in Nat
  BY <1>3 DEF TimeCap
<1>5. w.type = "time" /\ w.hart = s.hart /\ w.end = s.end /\ w.mrk = new.end
  BY <1>1, <1>2, <1>4 DEF TimeCap
<1>6. /\ cap' = [cap EXCEPT ![src] = w, ![dst] = new]
      /\ slots' = sched_update(cte_pid(dst), new.end, new.hart, new.bgn, new.end)
  BY DEF cap_derive_time, derive_into
<1> HIDE DEF w
<1>7. cap'[src] = w /\ cap'[dst] = new /\ \A x \in CTE \ {src, dst} : cap'[x] = cap[x]
  BY <1>1, <1>6
<1> HIDE DEF s
<1>8. ASSUME NEW y \in CTE, NEW h \in Harts, NEW i \in Slots, Runs(y, h, i)'
      PROVE  (Runs(y, h, i) /\ cap[y].end = cap'[y].end)
               \/ (y = dst /\ h = new.hart /\ new.bgn <= i /\ i < new.end)
  <2>1. CASE y = src
    <3>1. h = s.hart /\ new.end <= i /\ i < s.end
      BY <1>5, <1>7, <1>8, <2>1 DEF Runs
    <3>2. s.mrk <= i
      BY <1>1, <1>2, <1>3, <1>4, <3>1 DEF Slots
    <3> QED
      BY <1>1, <1>5, <1>7, <2>1, <3>1, <3>2 DEF Runs, Live, s
  <2>2. CASE y = dst
    BY <1>3, <1>7, <1>8, <2>2 DEF Runs
  <2>3. CASE y # src /\ y # dst
    BY <1>7, <1>8, <2>3 DEF Runs, Live
  <2> QED
    BY <2>1, <2>2, <2>3
<1>9. ASSUME NEW y \in CTE, NEW h \in Harts, NEW i \in Slots, Runs(y, h, i)
      PROVE  Runs(y, h, i)' \/ (h = new.hart /\ new.bgn <= i /\ i < new.end)
  <2>1. CASE y = src
    <3>1. h = s.hart /\ s.mrk <= i /\ i < s.end
      BY <1>9, <2>1 DEF Runs, s
    <3>2. new.end <= i \/ i < new.end
      BY <1>4 DEF Slots
    <3> QED
      BY <1>1, <1>5, <1>7, <2>1, <3>1, <3>2 DEF Runs, Live
  <2>2. CASE y = dst
    BY <1>9, <2>2 DEF Runs
  <2>3. CASE y # src /\ y # dst
    BY <1>7, <1>9, <2>3 DEF Runs, Live
  <2> QED
    BY <2>1, <2>2, <2>3
<1>10. /\ dst \in Live' /\ cap'[dst].type = "time" /\ cap'[dst].hart = new.hart
       /\ cap'[dst].end = new.end /\ cap'[dst].mrk <= new.bgn /\ new.end <= new.end
  BY <1>1, <1>3, <1>4, <1>7 DEF Live
<1>11. PICK from \in Nat, to \in Nat, hart \in Harts :
         from = new.bgn /\ to = new.end /\ hart = new.hart
  BY <1>4
<1>12. \A y \in CTE, h \in Harts, i \in Slots :
         /\ Runs(y, h, i)' => (Runs(y, h, i) /\ cap[y].end = cap'[y].end)
                             \/ (y = dst /\ h = hart /\ from <= i /\ i < to)
         /\ Runs(y, h, i) => Runs(y, h, i)' \/ (h = hart /\ from <= i /\ i < to)
  BY <1>8, <1>9, <1>11
<1>13. /\ slots' = sched_update(cte_pid(dst), to, hart, from, to)
       /\ dst \in Live' /\ cap'[dst].type = "time" /\ cap'[dst].hart = hart
       /\ cap'[dst].end = to /\ cap'[dst].mrk <= from /\ to <= to
  BY <1>6, <1>10, <1>11
<1> QED
  BY <1>12, <1>13, SlotsGiven DEF Steady

\* The other revocations and derivations, and the PMP calls, do not touch time.
LEMMA OtherRevokeSchedule ==
  ASSUME TypeOK, Given, Covered, NEW p \in CTE,
         \/ cap_revoke_memory(p) \/ cap_revoke_monitor(p) \/ cap_revoke_channel(p)
         \/ cap_revoke_socket(p)
  PROVE  Given' /\ Covered'
<1> DEFINE c == cap[next[p]]
<1>1. cap \in [CTE -> Cap] /\ next[p] \in CTE /\ cap[p] \in Cap
  BY DEF TypeOK
<1>2. UNCHANGED slots /\ cap[p].type \in {"mem", "mon", "chan", "sock"}
  BY DEF cap_revoke_memory, cap_revoke_monitor, cap_revoke_channel, cap_revoke_socket
<1>3. PICK u \in Cap :
        /\ u.type = cap[p].type
        /\ \/ c.type # "time" /\ cap' = [cap EXCEPT ![next[p]] = NoCap, ![p] = u]
           \/ c.type # "time" /\ cap' = [cap EXCEPT ![next[p]] = NoCap]
           \/ cap' = [cap EXCEPT ![p] = u]
  <2>1. CASE cap_revoke_memory(p)
    <3>1. cap[p] \in MemCap
      BY <1>1, <2>1, CapVariant DEF cap_revoke_memory
    <3>2. CASE memory_child(cap[p], c)
      <4>1. c \in MemCap
        BY <1>1, <3>2, CapVariant DEF memory_child
      <4>2. c.mrk \in Nat /\ c.lck \in BOOLEAN
        BY <4>1 DEF MemCap
      <4> DEFINE u == Relocked(cap[p], c.mrk, c.lck)
      <4>3. u \in Cap /\ u.type = "mem"
        BY <1>1, <2>1, <4>2, ViewLock DEF cap_revoke_memory
      <4>4. cap' = [cap EXCEPT ![next[p]] = NoCap, ![p] = u]
        BY <2>1, <3>2 DEF cap_revoke_memory, absorb, memory_child, pmp_child, Relocked
      <4> HIDE DEF u
      <4> QED
        BY <2>1, <3>2, <4>3, <4>4 DEF cap_revoke_memory, memory_child
    <3>3. CASE pmp_child(cap[p], c)
      BY <1>1, <2>1, <3>3 DEF cap_revoke_memory, drop, memory_child, pmp_child
    <3>4. CASE ~memory_child(cap[p], c) /\ ~pmp_child(cap[p], c)
      <4>1. PICK l \in BOOLEAN : l = FALSE
        OBVIOUS
      <4>2. cap[p].bgn \in Nat
        BY <3>1 DEF MemCap
      <4> DEFINE u == Relocked(cap[p], cap[p].bgn, l)
      <4>3. u \in Cap /\ u.type = "mem"
        BY <1>1, <2>1, <4>2, ViewLock DEF cap_revoke_memory
      <4>4. cap' = [cap EXCEPT ![p] = u]
        BY <2>1, <3>4, <4>1 DEF cap_revoke_memory, reset, Relocked
      <4> HIDE DEF u
      <4> QED
        BY <2>1, <4>3, <4>4 DEF cap_revoke_memory
    <3> QED
      BY <3>2, <3>3, <3>4
  <2>2. CASE cap_revoke_monitor(p) \/ cap_revoke_channel(p)
    <3>1. cap[p].type \in {"time", "mon", "chan"} /\ (cap[p] \in MonCap \/ cap[p] \in ChanCap)
      BY <1>1, <2>2, CapVariant DEF cap_revoke_monitor, cap_revoke_channel
    <3>2. cap[p].bgn \in Nat
      BY <3>1 DEF MonCap, ChanCap
    <3>3. c.type = cap[p].type => c.mrk \in Nat
      BY <1>1, <1>2, <3>1, CapVariant DEF MonCap, ChanCap
    <3>4. PICK m \in Nat :
            \/ c.type # "time" /\ cap' = [cap EXCEPT ![next[p]] = NoCap, ![p] = [cap[p] EXCEPT !.mrk = m]]
            \/ c.type # "time" /\ cap' = [cap EXCEPT ![next[p]] = NoCap]
            \/ cap' = [cap EXCEPT ![p] = [cap[p] EXCEPT !.mrk = m]]
      BY <2>2, <3>2, <3>3 DEF cap_revoke_monitor, cap_revoke_channel, absorb, drop, reset,
           monitor_child, channel_child, chan_sock_child
    <3>5. [cap[p] EXCEPT !.mrk = m] \in Cap /\ [cap[p] EXCEPT !.mrk = m].type = cap[p].type
      BY <1>1, <3>1, ViewMark
    <3> QED
      BY <3>4, <3>5
  <2>3. CASE cap_revoke_socket(p)
    BY <1>1, <2>3 DEF cap_revoke_socket, drop, socket_child
  <2> QED
    BY <2>1, <2>2, <2>3
<1> HIDE DEF c
<1>4. \A x \in CTE : cap[x].type = "time" \/ cap'[x].type = "time" => cap'[x] = cap[x]
  BY <1>1, <1>2, <1>3, NoCapTyped DEF c
<1> QED
  BY <1>2, <1>4, QuietSchedule

LEMMA OtherDeriveSchedule ==
  ASSUME TypeOK, Given, Covered, NEW src \in CTE, NEW dst \in CTE, dst \notin Live, NEW new \in Cap,
         \/ cap_derive_memory(src, dst, new) \/ cap_derive_monitor(src, dst, new)
         \/ cap_derive_channel(src, dst, new) \/ cap_derive_socket(src, dst, new)
  PROVE  Given' /\ Covered'
<1> DEFINE s == cap[src]
<1>1. /\ cap \in [CTE -> Cap] /\ s \in Cap /\ s.type # "time" /\ new.type # "time" /\ UNCHANGED slots
      /\ cap[dst].type = "none" /\ src # dst
  BY DEF TypeOK, cap_derive_memory, cap_derive_monitor, cap_derive_channel, cap_derive_socket, Live
<1>2. PICK u : u.type = s.type /\ cap' = [cap EXCEPT ![src] = u, ![dst] = new]
  <2>1. CASE s.type = "mem"
    <3>1. s \in MemCap
      BY <1>1, <2>1, CapVariant
    <3>2. /\ [s EXCEPT !.mrk = new.end].type = "mem"
          /\ [s EXCEPT !.lck = TRUE].type = "mem"
      BY <3>1 DEF MemCap
    <3> QED
      BY <2>1, <3>2 DEF cap_derive_memory, cap_derive_monitor, cap_derive_channel,
           cap_derive_socket, derive_into
  <2>2. CASE s.type \in {"mon", "chan"}
    <3>1. s \in MonCap \/ s \in ChanCap
      BY <1>1, <2>2, CapVariant
    <3>2. \A m : [s EXCEPT !.mrk = m].type = s.type
      BY <3>1 DEF MonCap, ChanCap
    <3> QED
      BY <2>2, <3>2 DEF cap_derive_memory, cap_derive_monitor, cap_derive_channel,
           cap_derive_socket, derive_into
  <2>3. CASE s.type = "sock"
    BY <2>3 DEF cap_derive_memory, cap_derive_monitor, cap_derive_channel,
         cap_derive_socket, derive_into
  <2> QED
    BY <2>1, <2>2, <2>3 DEF cap_derive_memory, cap_derive_monitor, cap_derive_channel,
         cap_derive_socket
<1>3. \A x \in CTE : cap[x].type = "time" \/ cap'[x].type = "time" => cap'[x] = cap[x]
  BY <1>1, <1>2
<1> QED
  BY <1>1, <1>3, QuietSchedule

LEMMA PmpSchedule ==
  ASSUME TypeOK, Given, Covered, NEW c \in CTE,
         (\E slot \in PmpSlots : cap_pmp_load(c, slot)) \/ cap_pmp_unload(c)
  PROVE  Given' /\ Covered'
<1>1. cap \in [CTE -> Cap] /\ cap[c] \in Cap /\ cap[c].type = "pmp" /\ UNCHANGED slots
  BY DEF TypeOK, cap_pmp_load, cap_pmp_unload
<1>2. cap[c] \in PmpCap
  BY <1>1, CapVariant
<1>3. PICK u, i : cap' = [cap EXCEPT ![c] = [cap[c] EXCEPT !.used = u, !.slot = i]]
  BY DEF cap_pmp_load, cap_pmp_unload
<1>4. [cap[c] EXCEPT !.used = u, !.slot = i].type = "pmp"
  BY <1>2 DEF PmpCap
<1>5. \A x \in CTE : cap[x].type = "time" \/ cap'[x].type = "time" => cap'[x] = cap[x]
  BY <1>1, <1>3, <1>4
<1> QED
  BY <1>1, <1>5, QuietSchedule

LEMMA MessageSchedule ==
  ASSUME Steady, Given, Covered, NEW sock \in CTE, NEW buf \in CTE, NEW send_cap,
         \/ cap_sock_send(sock, buf, send_cap) \/ cap_sock_recv(sock, buf)
         \/ cap_sock_sendrecv(sock, buf, send_cap)
  PROVE  Given' /\ Covered'
<1> DEFINE s == cap[sock]
           dst == channels[s.chan].cap_buf
<1>1. /\ s.type = "sock" /\ TypeInv /\ TypeOK
      /\ do_send(s, buf, send_cap) \/ UNCHANGED capVars \/ cap_delete(buf)
  BY DEF Steady, TypeInv, cap_sock_send, cap_sock_recv, cap_sock_sendrecv
<1>2. CASE do_send(s, buf, send_cap)
  <2>1. s.chan \in Chans /\ (channels[s.chan].server # NULL \/ channels[s.chan].client # NULL)
    BY <1>1, <1>2, SocketChannel DEF do_send, receiver
  <2>2. dst \in CTE
    BY <1>1, <2>1 DEF TypeInv, TypeOK, ReceiverHasBuffer, Channel
  <2>3. cap_move(buf, dst) \/ UNCHANGED capVars
    BY <1>2 DEF do_send
  <2> HIDE DEF dst
  <2>4. CASE cap_move(buf, dst)
    BY <2>2, <2>4, MoveSchedule
  <2>5. CASE UNCHANGED capVars
    BY <1>1, <2>5, QuietSchedule DEF capVars
  <2> QED
    BY <2>3, <2>4, <2>5
<1>3. CASE UNCHANGED capVars
  BY <1>1, <1>3, QuietSchedule DEF capVars
<1>4. CASE cap_delete(buf)
  BY <1>4, DeleteSchedule
<1> QED
  BY <1>1, <1>2, <1>3, <1>4

LEMMA BootSchedule ==
  ASSUME WholeTime, Init
  PROVE  Given /\ Covered
<1> PICK init_caps \in Platforms : boot(init_caps, Len(init_caps))
  BY DEF Init
<1> DEFINE n == Len(init_caps)
<1>0. n \in Nat /\ 2 <= n /\ n <= CAP_CNT
  BY PlatformsAssumption, CountsAssumption
<1>1. /\ \A i \in 1..n : init_caps[i] \in Cap /\ cap_is_valid(init_caps[i])
      /\ init_caps[1] \in PmpCap
      /\ \A i \in 1..n : init_caps[i].type = "time" => init_caps[i].end <= SLOT_CNT
      /\ \A i, j \in 1..n : i < j /\ SameResource(init_caps[i], init_caps[j]) =>
                              init_caps[i].end <= init_caps[j].bgn
  BY PlatformsAssumption
<1>2. \A i \in 1..n : init_caps[i].type = "time" =>
        /\ init_caps[i].bgn \in Nat /\ init_caps[i].end \in Nat
        /\ init_caps[i].mrk = init_caps[i].bgn /\ init_caps[i].bgn < init_caps[i].end
  BY <1>1, CapVariant DEF cap_is_valid, TimeCap
<1>3. ASSUME NEW i \in 1..n, init_caps[i].type = "time", init_caps[i].hart \in Harts
      PROVE  init_caps[i].bgn = 0 /\ init_caps[i].end = SLOT_CNT
  <2>1. PICK j \in 1..n : /\ init_caps[j].type = "time" /\ init_caps[j].hart = init_caps[i].hart
                          /\ init_caps[j].bgn = 0 /\ init_caps[j].end = SLOT_CNT
    BY <1>3 DEF WholeTime
  <2>2. SameResource(init_caps[i], init_caps[j]) /\ SameResource(init_caps[j], init_caps[i])
    BY <1>3, <2>1 DEF SameResource
  <2>3. ASSUME i < j PROVE FALSE
    <3>1. init_caps[i].end <= 0
      BY <1>1, <2>1, <2>2, <2>3
    <3> QED
      BY <1>2, <1>3, <3>1
  <2>4. ASSUME j < i PROVE FALSE
    <3>1. SLOT_CNT <= init_caps[i].bgn /\ init_caps[i].end <= SLOT_CNT
      BY <1>1, <1>3, <2>1, <2>2, <2>4
    <3>2. init_caps[i].bgn \in Nat /\ init_caps[i].end \in Nat /\ init_caps[i].bgn < init_caps[i].end
      BY <1>2, <1>3
    <3>3. SLOT_CNT \in Nat
      BY SlotCntAssumption
    <3> QED
      BY <3>1, <3>2, <3>3
  <2>5. i = j
    BY <2>3, <2>4, <1>0
  <2> QED
    BY <2>1, <2>5
<1>4. /\ ctable0 \in CTE /\ cap \in [CTE -> Cap]
      /\ \A i \in 1..n : BootSlot(i) \in CTE /\ IsBoot(n, BootSlot(i)) /\ BootIndex(BootSlot(i)) = i
      /\ \A c \in CTE : IsBoot(n, c) => BootIndex(c) \in 1..n /\ c = BootSlot(BootIndex(c))
  <2>1. 0 \in Pids /\ \A i \in 1..n : i - 1 \in 0 .. CAP_CNT - 1
    BY <1>0, CountsAssumption DEF Pids
  <2>2. cap \in [CTE -> Cap]
    BY TypeInit DEF TypeInv, TypeOK
  <2> QED
    BY <2>1, <2>2, <1>0 DEF BootSlot, CTE, IsBoot, BootIndex, ctable0
<1> DEFINE first == [init_caps[1] EXCEPT !.used = TRUE, !.slot = 0]
<1>5. first.type = "pmp" /\ init_caps[1].type = "pmp"
  BY <1>1 DEF PmpCap
<1>6. cap = [c \in CTE |->
             IF c = ctable0 THEN first ELSE IF IsBoot(n, c) THEN init_caps[BootIndex(c)] ELSE NoCap]
  BY DEF boot
<1> HIDE DEF first, n
<1>7. ASSUME NEW c \in CTE, cap[c].type = "time"
      PROVE  cte_pid(c) = 0 /\ BootIndex(c) \in 1..n /\ cap[c] = init_caps[BootIndex(c)]
  <2>1. c # ctable0 /\ IsBoot(n, c)
    BY <1>5, <1>6, <1>7, NoCapTyped
  <2> QED
    BY <1>4, <1>6, <2>1 DEF IsBoot, cte_pid
<1>8. \A h \in Harts, i \in Slots : slots[h][i] = [pid |-> 0, length |-> SLOT_CNT - i]
  BY DEF boot
<1>9. ASSUME NEW c \in CTE, NEW h \in Harts, NEW i \in Slots, Runs(c, h, i)
      PROVE  slots[h][i] = [pid |-> cte_pid(c), length |-> cap[c].end - i]
  BY <1>3, <1>7, <1>8, <1>9 DEF Runs
<1>10. ASSUME NEW h \in Harts, NEW i \in Slots
       PROVE  \E c \in CTE : Runs(c, h, i)
  <2>1. PICK j \in 1..n : /\ init_caps[j].type = "time" /\ init_caps[j].hart = h
                          /\ init_caps[j].bgn = 0 /\ init_caps[j].end = SLOT_CNT
    BY DEF WholeTime, n
  <2>2. BootSlot(j) \in CTE /\ IsBoot(n, BootSlot(j)) /\ BootIndex(BootSlot(j)) = j
        /\ BootSlot(j) # ctable0
    BY <1>4, <1>5, <2>1, <1>0 DEF ctable0
  <2>3. cap[BootSlot(j)] = init_caps[j]
    BY <1>6, <2>2
  <2>4. 0 <= i /\ i < SLOT_CNT /\ init_caps[j].mrk = 0
    BY <1>2, <2>1, SlotCntAssumption DEF Slots
  <2> QED
    BY <2>1, <2>2, <2>3, <2>4 DEF Runs, Live
<1> QED
  BY <1>9, <1>10 DEF Given, Covered

ScheduleInv == ~shrunk => Given /\ Covered

LEMMA ScheduleStep ==
  ASSUME TypeInv, TreeInv, Exclusive, ScheduleInv, TypeInv', Exclusive', [Next]_vars
  PROVE  ScheduleInv'
<1> SUFFICES ASSUME ~shrunk' PROVE Given' /\ Covered'
  BY DEF ScheduleInv
<1>1. CASE UNCHANGED vars
  BY <1>1, QuietSchedule DEF vars, ScheduleInv, TypeInv
<1>2. CASE Next
  <2>0. watch
    BY <1>2 DEF Next
  <2>1. ~shrunk
    BY <2>0 DEF watch
  <2>2. Steady /\ Given /\ Covered /\ TypeOK
    BY <2>1 DEF TreeInv, Listed, TypeInv, Steady, ScheduleInv
  <2>3. ASSUME NEW src \in CTE, NEW dst \in CTE, cap_move(src, dst) PROVE Given' /\ Covered'
    BY <2>2, <2>3, MoveSchedule
  <2>4. ASSUME NEW c \in CTE, cap_delete(c) PROVE Given' /\ Covered'
    BY <2>2, <2>4, DeleteSchedule
  <2>5. ASSUME NEW parent \in CTE,
               \/ cap_revoke_time(parent) \/ cap_revoke_memory(parent) \/ cap_revoke_monitor(parent)
               \/ cap_revoke_channel(parent) \/ cap_revoke_socket(parent)
        PROVE  Given' /\ Covered'
    BY <2>2, <2>5, RevokeTimeSchedule, OtherRevokeSchedule
  <2>6. ASSUME NEW src \in Live, NEW dst \in CTE, dst \notin Live, NEW new \in Requests,
               cap_derive(src, dst, new)
        PROVE  Given' /\ Covered'
    <3>1. new \in Cap /\ src \in CTE
      BY <2>6, RequestsAssumption DEF Live
    <3> QED
      BY <3>1, <2>2, <2>6, DeriveTimeSchedule, OtherDeriveSchedule DEF cap_derive
  <2>7. ASSUME NEW c \in CTE, (\E slot \in PmpSlots : cap_pmp_load(c, slot)) \/ cap_pmp_unload(c)
        PROVE  Given' /\ Covered'
    BY <2>2, <2>7, PmpSchedule
  <2>8. ASSUME NEW sock \in CTE, NEW buf \in CTE, NEW send_cap \in BOOLEAN,
               \/ cap_sock_send(sock, buf, send_cap) \/ cap_sock_recv(sock, buf)
               \/ cap_sock_sendrecv(sock, buf, send_cap)
        PROVE  Given' /\ Covered'
    BY <2>2, <2>8, MessageSchedule
  <2>9. \A c \in Live : c \in CTE /\ \A d \in Own(c) : d \in CTE
    BY SlotsNamed
  <2> QED
    BY <1>2, <2>3, <2>4, <2>5, <2>6, <2>7, <2>8, <2>9, Zenon DEF Next
<1> QED
  BY <1>1, <1>2

\* Where INIT_CAPS lists the whole time of every hart, the schedule follows the
\* time capabilities through every move, derivation, revocation and deletion: a
\* slot runs the process that holds the capability for it, up to the end of that
\* capability, and nobody where no capability is left.
THEOREM ScheduleMatchesHolds ==
  ASSUME WholeTime
  PROVE  Spec => []ScheduleMatches
<1>1. Init => ScheduleInv
  BY BootSchedule DEF ScheduleInv
<1>2. TypeInv /\ TreeInv /\ Exclusive /\ ScheduleInv /\ TypeInv' /\ Exclusive' /\ [Next]_vars
        => ScheduleInv'
  BY ScheduleStep
<1>3. TypeInv /\ ScheduleInv => ScheduleMatches
  BY SlotwiseMatches DEF ScheduleInv, ScheduleMatches
<1> QED
  BY TreeInvariant, ExclusiveHolds, <1>1, <1>2, <1>3, PTL DEF Spec

-----------------------------------------------------------------------------
(* The predicates of the user library.                                     *)

LEMMA DescendantRevokable ==
  ASSUME TypeOK, Listed, NEW x \in Live, NEW y \in Live, x \in anc[y]
  PROVE  s3k_cap_is_revokable(cap[x], cap[y])
<1> DEFINE p == cap[x]
           c == cap[y]
           u == View(p)
           v == View(c)
<1>1. x \in CTE /\ y \in CTE /\ p \in Cap /\ c \in Cap
  BY DEF Live, TypeOK
<1>2. view[x] = u /\ view[y] = v
  BY <1>1 DEF view
<1>3. ChildKind(u, v) /\ Within(u, v)
  BY <1>2 DEF Listed, Tree
<1>4. u.lo <= v.lo /\ v.hi <= u.hi
  BY <1>3 DEF Within
<1> HIDE DEF p, c
<1>5. CASE u.kind = "time" /\ v.kind = "time" /\ u.key = v.key
  BY <1>1, <1>4, <1>5, ViewFields DEF s3k_cap_is_revokable, s3k_cap_time_revokable, is_range_subset, p, c
<1>6. CASE u.kind = "mem" /\ v.kind = "mem" /\ u.key = v.key
  <2>1. p \in MemCap /\ c \in MemCap /\ p.type = "mem" /\ c.type = "mem" /\ p.tag = c.tag
    BY <1>1, <1>6, ViewFields, CapVariant
  <2>2. /\ tag_block_to_addr(p.tag, p.bgn) <= tag_block_to_addr(p.tag, c.bgn)
        /\ tag_block_to_addr(p.tag, c.end) <= tag_block_to_addr(p.tag, p.end)
    BY <1>1, <1>4, <2>1, ViewFields
  <2>3. p.tag \in Nat /\ p.bgn \in Nat /\ c.bgn \in Nat /\ p.end \in Nat /\ c.end \in Nat
    BY <2>1 DEF MemCap
  <2>4. p.bgn <= c.bgn /\ c.end <= p.end
    BY <2>2, <2>3, Address
  <2> QED
    BY <2>1, <2>4 DEF s3k_cap_is_revokable, s3k_cap_mem_revokable, is_range_subset, p, c
<1>7. CASE u.kind = "mem" /\ v.kind = "pmp"
  <2>1. p.type = "mem" /\ c.type = "pmp" /\ c \in PmpCap
    BY <1>1, <1>7, ViewFields, CapVariant
  <2>2. /\ u.lo = tag_block_to_addr(p.tag, p.bgn) /\ u.hi = tag_block_to_addr(p.tag, p.end)
        /\ v.lo = c.base /\ v.hi = c.base + c.size /\ u.hi \in Nat
    BY <1>1, <2>1, ViewFields
  <2>3. c.base \in Nat /\ c.size \in Nat
    BY <2>1 DEF PmpCap
  <2>4. tag_block_to_addr(p.tag, p.bgn) <= c.base /\ c.size <= tag_block_to_addr(p.tag, p.end)
    BY <1>4, <2>2, <2>3
  <2> QED
    BY <2>1, <2>4 DEF s3k_cap_is_revokable, s3k_cap_mem_revokable, is_range_subset, p, c
<1>8. CASE u.kind = v.kind /\ u.kind \in {"mon", "chan"}
  BY <1>1, <1>4, <1>8, ViewFields DEF s3k_cap_is_revokable, s3k_cap_mon_revokable,
       s3k_cap_chan_revokable, is_range_subset, p, c
<1>9. CASE u.kind = "chan" /\ v.kind = "sock"
  BY <1>1, <1>4, <1>9, ViewFields DEF s3k_cap_is_revokable,
       s3k_cap_chan_revokable, is_range_subset, p, c
<1>10. CASE u.kind = "sock" /\ v.kind = "sock" /\ u.tag = 0 /\ v.tag # 0 /\ u.lo = v.lo
  BY <1>1, <1>10, ViewFields DEF s3k_cap_is_revokable, s3k_cap_sock_revokable, p, c
<1> QED
  BY <1>3, <1>5, <1>6, <1>7, <1>8, <1>9, <1>10 DEF ChildKind

LEMMA RevokeIsForeseen ==
  ASSUME TypeInv, TreeInv
  PROVE  RevokeForeseen
<1> SUFFICES ASSUME ~shrunk, NEW x \in Live,
                    NEW y \in Descendants(x) \union (IF cap[x].type = "mem" THEN {} ELSE Victims(x))
             PROVE  s3k_cap_is_revokable(cap[x], cap[y])
  BY DEF RevokeForeseen
<1>1. TypeOK /\ Listed /\ Apart
  BY DEF TypeInv, TreeInv, Listed
<1>2. CASE y \in Descendants(x)
  BY <1>1, <1>2, DescendantRevokable DEF Descendants
<1>3. CASE cap[x].type # "mem" /\ y \in Victims(x)
  <2>1. revokes(cap[x], cap[next[x]]) /\ y = next[x]
    BY <1>3 DEF Victims
  <2>2. cap[next[x]].type # "pmp"
    BY <1>3, <2>1 DEF revokes, time_child, monitor_child, channel_child, chan_sock_child, socket_child
  <2>3. x \in anc[y] /\ y \in after[x]
    BY <1>1, <2>1, <2>2, VictimDerived
  <2>4. y \in Live
    BY <1>1, <2>3, RelationsLive
  <2> QED
    BY <1>1, <2>3, <2>4, DescendantRevokable
<1> QED
  BY <1>2, <1>3

\* A descriptor that the kernel derives is one that the library allows.
LEMMA DeriveAllowed ==
  ASSUME TypeOK, NEW src \in CTE, NEW dst \in CTE, NEW new \in Cap, cap_derive(src, dst, new),
         SaidAlike(cap[src], new)
  PROVE  s3k_cap_is_valid(new) /\ s3k_cap_is_derivable(cap[src], new)
<1> DEFINE p == cap[src]
<1>0. p \in Cap /\ p.type # "time" /\ cap_is_valid(new)
  BY DEF TypeOK, SaidAlike, cap_derive
<1>1. CASE cap_derive_memory(src, dst, new) /\ new.type = "mem"
  BY <1>0, <1>1 DEF cap_derive_memory, cap_is_valid, s3k_cap_is_valid, s3k_cap_is_derivable,
       s3k_cap_mem_derivable, is_range_subset
<1>2. CASE cap_derive_memory(src, dst, new) /\ new.type = "pmp"
  <2>1. new \in PmpCap /\ p \in MemCap
    BY <1>0, <1>2, CapVariant DEF cap_derive_memory
  <2>2. new.base \in Nat /\ new.size \in Nat /\ tag_block_to_addr(p.tag, p.end) \in Nat
    BY <2>1, Address DEF PmpCap, MemCap
  <2>3. /\ tag_block_to_addr(p.tag, p.mrk) <= new.base /\ new.rwx \subseteq p.rwx /\ p.type = "mem"
        /\ new.base + new.size <= tag_block_to_addr(p.tag, p.end)
    BY <1>2 DEF cap_derive_memory
  <2>4. new.size <= tag_block_to_addr(p.tag, p.end)
    BY <2>2, <2>3
  <2> QED
    BY <1>0, <1>2, <2>3, <2>4 DEF cap_is_valid, s3k_cap_is_valid, s3k_cap_is_derivable,
         s3k_cap_mem_derivable, is_range_subset
<1>3. CASE cap_derive_monitor(src, dst, new)
  BY <1>0, <1>3 DEF cap_derive_monitor, cap_is_valid, s3k_cap_is_valid, s3k_cap_is_derivable,
       s3k_cap_mon_derivable, is_range_subset
<1>4. CASE cap_derive_channel(src, dst, new) /\ new.type = "chan"
  BY <1>0, <1>4 DEF cap_derive_channel, cap_is_valid, s3k_cap_is_valid, s3k_cap_is_derivable,
       s3k_cap_chan_derivable, is_range_subset
<1>5. new.type = "sock" => s3k_cap_is_valid(new)
  <2>1. new.type = "sock" => new \in SockCap
    BY CapVariant
  <2> QED
    BY <1>0, <2>1 DEF SockCap, cap_is_valid, s3k_cap_is_valid
<1>6. CASE cap_derive_channel(src, dst, new) /\ new.type = "sock"
  <2>1. p \in ChanCap /\ new \in SockCap /\ p.type = "chan"
    BY <1>0, <1>6, CapVariant DEF cap_derive_channel
  <2>2. p.end \in Nat /\ new.chan \in Nat
    BY <2>1 DEF ChanCap, SockCap, Chans
  <2>3. p.mrk <= new.chan /\ new.chan + 1 <= p.end /\ new.tag = 0
    BY <1>6, <2>1, <2>2 DEF cap_derive_channel, SaidAlike
  <2> QED
    BY <1>5, <1>6, <2>1, <2>3 DEF s3k_cap_is_derivable, s3k_cap_chan_derivable, is_range_subset
<1>7. CASE cap_derive_socket(src, dst, new)
  BY <1>5, <1>7 DEF cap_derive_socket, s3k_cap_is_derivable, s3k_cap_sock_derivable
<1> QED
  BY <1>0, <1>1, <1>2, <1>3, <1>4, <1>6, <1>7 DEF cap_derive, cap_derive_time, cap_derive_memory,
       cap_derive_channel

\* A move takes a capability elsewhere: their number stays.
LEMMA MoveKeepsCount ==
  ASSUME TypeOK, NEW src \in CTE, NEW dst \in CTE, cap_move(src, dst)
  PROVE  Cardinality(Live') = Cardinality(Live)
<1>1. cap \in [CTE -> Cap] /\ src \in Live /\ dst \notin Live /\ src # dst
  BY DEF TypeOK, cap_move, cte_is_empty, Live
<1>2. cap'[src] = NoCap /\ cap'[dst].type # "none" /\ \A x \in CTE \ {src, dst} : cap'[x] = cap[x]
  <2>1. cap'[src] = NoCap /\ \A x \in CTE \ {src, dst} : cap'[x] = cap[x]
    BY <1>1 DEF cap_move, cap_ipc_move_hook
  <2> DEFINE e == [cap[src] EXCEPT !.used = FALSE, !.slot = IF cap[src].used THEN 0 ELSE cap[src].slot]
  <2>2. cap[src].type = "pmp" => e.type = "pmp"
    BY <1>1, CapVariant DEF PmpCap
  <2>3. \/ cap' = [cap EXCEPT ![src] = NoCap, ![dst] = cap[src]]
        \/ cap[src].type = "pmp" /\ cap' = [cap EXCEPT ![src] = NoCap, ![dst] = e]
    BY DEF cap_move, cap_ipc_move_hook
  <2> HIDE DEF e
  <2>4. cap'[dst] = cap[src] \/ (cap[src].type = "pmp" /\ cap'[dst] = e)
    BY <1>1, <2>3
  <2> QED
    BY <1>1, <2>1, <2>2, <2>4 DEF Live
<1>3. Live' = (Live \ {src}) \union {dst}
  BY <1>1, <1>2, NoCapTyped DEF Live
<1>4. IsFiniteSet(Live)
  <2>1. IsFiniteSet(Pids) /\ IsFiniteSet(0 .. CAP_CNT - 1)
    BY FS_Interval, CountsAssumption DEF Pids
  <2>2. IsFiniteSet(CTE)
    BY <2>1, FS_Product DEF CTE
  <2> QED
    BY <2>2, FS_Subset DEF Live
<1>5. IsFiniteSet(Live \ {src}) /\ Cardinality(Live \ {src}) = Cardinality(Live) - 1
  BY <1>1, <1>4, FS_RemoveElement
<1>6. Cardinality((Live \ {src}) \union {dst}) = Cardinality(Live \ {src}) + 1
  BY <1>1, <1>5, FS_AddElement
<1>7. Cardinality(Live) \in Nat
  BY <1>4, FS_CardinalityType
<1> QED
  BY <1>3, <1>5, <1>6, <1>7

\* Only a move and a derivation fill an empty slot.
LEMMA RevokeFillsNothing ==
  ASSUME TypeOK, NEW p \in CTE,
         \/ cap_revoke_time(p) \/ cap_revoke_memory(p) \/ cap_revoke_monitor(p)
         \/ cap_revoke_channel(p) \/ cap_revoke_socket(p)
  PROVE  Live' \subseteq Live
<1>1. cap \in [CTE -> Cap] /\ next[p] \in CTE /\ p \in Live
  BY DEF TypeOK, Live, cap_revoke_time, cap_revoke_memory, cap_revoke_monitor, cap_revoke_channel,
       cap_revoke_socket
<1>2. \A x \in CTE \ {p} : cap'[x] = cap[x] \/ cap'[x] = NoCap
  BY <1>1 DEF cap_revoke_time, cap_revoke_memory, cap_revoke_monitor, cap_revoke_channel,
       cap_revoke_socket, absorb, drop, reset
<1> QED
  BY <1>1, <1>2, NoCapTyped DEF Live

LEMMA DeriveIsForeseen ==
  ASSUME TypeInv, TreeInv, Next
  PROVE  DeriveForeseen
<1> SUFFICES ASSUME ~shrunk, NEW d \in CTE, d \notin Live, d \in Live',
                    Cardinality(Live') > Cardinality(Live),
                    SaidAlike(cap[prev'[d]], cap'[d])
             PROVE  s3k_cap_is_valid(cap'[d]) /\ s3k_cap_is_derivable(cap[prev'[d]], cap'[d])
  BY DEF DeriveForeseen, Live, cte_is_empty
<1> DEFINE Goal == s3k_cap_is_valid(cap'[d]) /\ s3k_cap_is_derivable(cap[prev'[d]], cap'[d])
<1>1. TypeOK /\ Listed /\ ~(Live' \subseteq Live) /\ cap \in [CTE -> Cap]
  BY DEF TypeInv, TypeOK, TreeInv, Listed
<1>2. ASSUME NEW src \in CTE, NEW dst \in CTE, cap_move(src, dst) PROVE Goal
  <2>1. Cardinality(Live) > Cardinality(Live)
    BY <1>1, <1>2, MoveKeepsCount
  <2>2. Cardinality(Live) \in Nat
    <3>1. IsFiniteSet(Pids) /\ IsFiniteSet(0 .. CAP_CNT - 1)
      BY FS_Interval, CountsAssumption DEF Pids
    <3>2. IsFiniteSet(CTE)
      BY <3>1, FS_Product DEF CTE
    <3> QED
      BY <3>2, FS_Subset, FS_CardinalityType DEF Live
  <2> QED
    BY <2>1, <2>2
<1>3. ASSUME NEW c \in CTE, cap_delete(c) PROVE Goal
  BY <1>1, <1>3, NoCapTyped DEF cap_delete, Live
<1>4. ASSUME NEW p \in CTE,
             \/ cap_revoke_time(p) \/ cap_revoke_memory(p) \/ cap_revoke_monitor(p)
             \/ cap_revoke_channel(p) \/ cap_revoke_socket(p)
      PROVE  Goal
  BY <1>1, <1>4, RevokeFillsNothing
<1>5. ASSUME NEW src \in Live, NEW dst \in CTE, dst \notin Live, NEW new \in Requests,
             cap_derive(src, dst, new)
      PROVE  Goal
  <2>1. new \in Cap /\ src \in CTE /\ src # dst
    BY <1>5, RequestsAssumption DEF Live
  <2>2. PICK s : cap' = [cap EXCEPT ![src] = s, ![dst] = new] /\ cte_insert(dst, src)
    BY <1>5 DEF cap_derive, cap_derive_time, cap_derive_memory, cap_derive_monitor,
         cap_derive_channel, cap_derive_socket, derive_into
  <2>3. d = dst /\ cap'[d] = new
    BY <1>1, <1>5, <2>1, <2>2 DEF Live
  <2>4. next[src] \in Live /\ prev \in [CTE -> CTE]
    BY <1>1 DEF Listed, Ring, TypeOK
  <2>5. prev'[dst] = src
    BY <1>5, <2>2, <2>4 DEF cte_insert, Live
  <2> QED
    BY <1>1, <1>5, <2>1, <2>3, <2>5, DeriveAllowed
<1>6. ASSUME NEW c \in CTE, (\E slot \in PmpSlots : cap_pmp_load(c, slot)) \/ cap_pmp_unload(c)
      PROVE  Goal
  BY <1>1, <1>6 DEF cap_pmp_load, cap_pmp_unload, Live
<1>7. ASSUME NEW sock \in CTE, NEW buf \in CTE, NEW send_cap \in BOOLEAN,
             \/ cap_sock_send(sock, buf, send_cap) \/ cap_sock_recv(sock, buf)
             \/ cap_sock_sendrecv(sock, buf, send_cap)
      PROVE  Goal
  <2> DEFINE s == cap[sock]
             dst == channels[s.chan].cap_buf
  <2>1. s.type = "sock" /\ (do_send(s, buf, send_cap) \/ UNCHANGED capVars \/ cap_delete(buf))
    BY <1>7 DEF cap_sock_send, cap_sock_recv, cap_sock_sendrecv
  <2>2. UNCHANGED capVars => Goal
    BY <1>1 DEF capVars, Live
  <2>3. CASE do_send(s, buf, send_cap)
    <3>1. s.chan \in Chans /\ (channels[s.chan].server # NULL \/ channels[s.chan].client # NULL)
      BY <2>1, <2>3, SocketChannel DEF do_send, receiver
    <3>2. dst \in CTE
      BY <3>1 DEF TypeInv, TypeOK, ReceiverHasBuffer, Channel
    <3>3. cap_move(buf, dst) \/ UNCHANGED capVars
      BY <2>3 DEF do_send
    <3> HIDE DEF dst, Goal
    <3> QED
      BY <1>2, <2>2, <3>2, <3>3
  <2> HIDE DEF Goal
  <2> QED
    BY <1>3, <2>1, <2>2, <2>3
<1>8. \A c \in Live : c \in CTE /\ \A e \in Own(c) : e \in CTE
  BY SlotsNamed
<1> HIDE DEF Goal
<1>9. Goal
  BY <1>2, <1>3, <1>4, <1>5, <1>6, <1>7, <1>8, Zenon DEF Next
<1> QED
  BY <1>9 DEF Goal

\* A process that asks the library of the user programs before it acts is not
\* surprised: what cap_derive puts into the table is what the library allows,
\* and what a revocation deletes, or has to delete, is what the library names.
THEOREM LibraryForeseesHolds == Spec => LibraryForesees
<1>1. TypeInv /\ TreeInv /\ [Next]_vars => [DeriveForeseen]_vars
  BY DeriveIsForeseen
<1>2. TypeInv /\ TreeInv => RevokeForeseen
  BY RevokeIsForeseen
<1> QED
  BY TreeInvariant, <1>1, <1>2, PTL DEF Spec, LibraryForesees
=============================================================================
