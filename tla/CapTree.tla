------------------------------- MODULE CapTree -------------------------------
(***************************************************************************)
(* The shape of the derivation tree in the capability list.  The code      *)
(* keeps no tree: it inserts a new capability right behind its parent, and *)
(* a revocation deletes what follows a capability in the list as long as   *)
(* its range says that it is a child.  The invariant below says why that   *)
(* works.  It sees a capability as an interval of its resource; the        *)
(* predicates are about any list L with `after' A, ancestors N, roots R    *)
(* and views V.                                                            *)
(***************************************************************************)
EXTENDS CapSafety

\* The interval [lo, hi) of a capability, of which [lo, mk) is passed on.
\* Memory is seen by address, a socket is to one channel.
View(c) ==
  LET interval(lo, mk, hi) ==
        [kind |-> c.type, lo |-> lo, mk |-> mk, hi |-> hi,
         key |-> CASE c.type = "time" -> c.hart [] c.type = "mem" -> c.tag [] OTHER -> 0,
         lck |-> c.type = "mem" /\ c.lck,
         tag |-> IF c.type = "sock" THEN c.tag ELSE 0]
  IN  CASE c.type \in {"time", "mon", "chan"} -> interval(c.bgn, c.mrk, c.end)
        [] c.type = "mem" -> interval(tag_block_to_addr(c.tag, c.bgn),
                                      tag_block_to_addr(c.tag, c.mrk),
                                      tag_block_to_addr(c.tag, c.end))
        [] c.type = "pmp" -> interval(c.base, c.base, c.base + c.size)
        [] c.type = "sock" -> interval(c.chan, c.chan, c.chan + 1)
        [] OTHER -> interval(0, 0, 0)
view == [c \in CTE |-> View(cap[c])]

-----------------------------------------------------------------------------
(* The list.                                                               *)

\* `after' is a linear order.
LinearOrder(L, A) ==
  /\ \A x \in L : A[x] \subseteq L /\ x \notin A[x]
  /\ \A x, y \in L : x = y \/ x \in A[y] \/ y \in A[x]
  /\ \A x \in L : \A y \in A[x] : A[y] \subseteq A[x]

\* The links nx and pv close it to a ring.
Ring(L, A, nx, pv) ==
  \A x \in L :
    /\ nx[x] \in L /\ pv[x] \in L
    /\ pv[nx[x]] = x /\ nx[pv[x]] = x
    /\ A[x] # {} => nx[x] \in A[x] /\ A[nx[x]] = A[x] \ {nx[x]}
    /\ A[x] = {} => A[nx[x]] = L \ {nx[x]}

-----------------------------------------------------------------------------
(* The tree.                                                               *)

Shape(u) == u.lo <= u.mk /\ u.mk <= u.hi /\ u.lo < u.hi

\* v is of a kind that is derived from u.
ChildKind(u, v) ==
  \/ u.kind \in {"time", "mem", "mon", "chan"} /\ v.kind = u.kind /\ v.key = u.key
  \/ u.kind = "mem" /\ v.kind = "pmp"
  \/ u.kind = "chan" /\ v.kind = "sock"
  \/ u.kind = "sock" /\ v.kind = "sock" /\ u.tag = 0 /\ v.tag # 0 /\ u.lo = v.lo

\* v lies in the part of u that is passed on; or it is a PMP region of what is
\* not, and u is locked.
Within(u, v) ==
  /\ u.lo <= v.lo /\ v.hi <= u.hi
  /\ u.kind # "sock" => v.hi <= u.mk \/ (v.kind = "pmp" /\ u.lck /\ u.mk <= v.lo)

\* u and v are parts of one thing; `kin': they go back to one boot capability.
Related(u, v, kin) ==
  \/ u.kind = v.kind /\ u.kind \in {"time", "mem", "mon"} /\ u.key = v.key
  \/ u.kind \in {"chan", "sock"} /\ v.kind \in {"chan", "sock"}
  \/ kin /\ u.kind = "mem" /\ v.kind \in {"mem", "pmp"}
  \/ kin /\ u.kind = "pmp" /\ v.kind = "mem"

\* v lies below u.  Clients of a channel are the exception.
Below(u, v) ==
  \/ v.hi <= u.lo
  \/ u.kind = "sock" /\ v.kind = "sock" /\ u.tag # 0 /\ v.tag # 0 /\ u.lo = v.lo

\* The descendants of an entry follow it without a gap, and lie within it.  What
\* follows it and is not a descendant lies below it: later derivations have
\* higher ranges and come first.
Tree(L, A, N, R, V) ==
  /\ \A x \in L : Shape(V[x])
  /\ \A y \in L : \A x \in N[y] :
       /\ x \in L /\ y \in A[x] /\ R[x] = R[y]
       /\ ChildKind(V[x], V[y]) /\ Within(V[x], V[y])
  /\ \A x, y, z \in L : x \in N[z] /\ y \in A[x] /\ z \in A[y] => x \in N[y]
  /\ \A x \in L : \A y \in A[x] :
       x \notin N[y] /\ Related(V[x], V[y], R[x] = R[y]) => Below(V[x], V[y])

TreeInv ==
  ~shrunk =>
    /\ Apart
    /\ LinearOrder(Live, after)
    /\ Ring(Live, after, next, prev)
    /\ Tree(Live, after, anc, root, view)
=============================================================================
