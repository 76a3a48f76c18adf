------------------------------ MODULE CapSafety ------------------------------
(***************************************************************************)
(* What the capability operations guarantee.  Most statements are about a  *)
(* table in which the two ends of the list were always capabilities to     *)
(* different resources (~shrunk): the list is a ring, and the code takes   *)
(* the head of the list for a successor of its tail.                       *)
(***************************************************************************)
EXTENDS CapOps

\* The state up to a renaming of the table slots of a process: the
\* capabilities by their place in the list, with their links as places.  The
\* links of empty slots are left out (no operation reads them), and all states
\* after the table shrank count as one.  Of the buffer of a channel its owner,
\* its place and the channels that share it are seen.
Place(c) == IF c \in Live THEN Cardinality(Live) - Cardinality(after[c]) ELSE 0
BufferSeen(ch) ==
  LET b == channels[ch].cap_buf IN
  IF b = NULL THEN <<>>
  ELSE <<cte_pid(b), Place(b), {d \in Chans : channels[d].cap_buf = b}>>
Observed ==
  << TypeOK,   \* asked first: it makes TLC evaluate the histories, once
     IF shrunk THEN <<>>
     ELSE << slots, pmp,
             [ch \in Chans |-> <<channels[ch].server, channels[ch].client, BufferSeen(ch)>>],
             {<<Place(c), cte_pid(c), cap[c], root[c], {Place(a) : a \in anc[c]},
                Place(next[c]), Place(prev[c])>> : c \in Live} >> >>

Ranged == {"time", "mem", "mon", "chan"}

\* Capabilities that hand out parts of the same resource.
SameSpace(a, b) == a.type = b.type /\ a.type \in Ranged /\ SameResource(a, b)

ServerSockets(ch) ==
  {x \in Live : cap[x].type = "sock" /\ cap[x].tag = 0 /\ cap[x].chan = ch}

Descendants(x) == {y \in Live : x \in anc[y]}

\* What one iteration of cap_revoke(x) deletes.
Victims(x) == IF revokes(cap[x], cap[next[x]]) THEN {next[x]} ELSE {}

-----------------------------------------------------------------------------
(* The list.                                                               *)

\* The capabilities in the table, and no others, form one doubly linked ring:
\* `next' and `prev' are inverse on them and following `next' from the head
\* visits them all, whatever order cte_insert, cte_delete and cte_move ran in.
OneRing ==
  ~shrunk =>
    \A x \in Live :
      /\ next[x] \in Live /\ prev[x] \in Live
      /\ prev[next[x]] = x /\ next[prev[x]] = x
      /\ after[x] # {} => next[x] \in after[x] /\ after[next[x]] = after[x] \ {next[x]}
      /\ after[x] = {} => after[next[x]] = Live \ {next[x]}

-----------------------------------------------------------------------------
(* Derivation and revocation.                                              *)

\* Two capabilities to the same resource never both hold a part of it that
\* neither has passed on: the parts [mrk, end) are disjoint, and a channel has
\* one server socket.  A revocation that is preempted half way, or runs while
\* others derive, keeps this.
Exclusive ==
  ~shrunk =>
    /\ \A x, y \in Live :
         x # y /\ SameSpace(cap[x], cap[y])
           => cap[x].end <= cap[y].mrk \/ cap[y].end <= cap[x].mrk
    /\ \A ch \in Chans : Cardinality(ServerSockets(ch)) <= 1

\* cap_revoke returns SUCCESS only when no capability derived from the parent,
\* directly or not, is left, wherever it was moved to and whichever of the
\* capabilities in between were deleted; and it deletes nothing that was not
\* derived from the parent.  (The second for memory only within the tree of a
\* boot capability: with no PMP capability of its own, a revocation of memory
\* may take that of another memory capability.)
RevokesTree ==
  ~shrunk =>
    \A x \in Live :
      /\ revoke_done(x) => Descendants(x) \subseteq Victims(x)
      /\ \A y \in Victims(x) :
           cap[x].type # "mem" \/ root[y] = root[x] => y \in Descendants(x)

-----------------------------------------------------------------------------
(* Time.                                                                   *)

\* INIT_CAPS lists the whole time of every hart, as sched_init gives it out.
WholeTime ==
  \A init_caps \in Platforms, h \in Harts : \E i \in 1..Len(init_caps) :
    /\ init_caps[i].type = "time" /\ init_caps[i].hart = h
    /\ init_caps[i].bgn = 0 /\ init_caps[i].end = SLOT_CNT

\* The schedule and the time capabilities agree: a slot belongs to the
\* process that holds the capability for it, with the length to the end of
\* that capability, and a slot no capability covers is deleted.
ScheduleMatches ==
  ~shrunk =>
    /\ \A x \in Live : cap[x].type = "time" =>
         \A i \in cap[x].mrk .. (cap[x].end - 1) :
           slots[cap[x].hart][i] = [pid |-> cte_pid(x), length |-> cap[x].end - i]
    /\ \A h \in Harts, i \in Slots :
         slots[h][i].length > 0 =>
           \E x \in Live : /\ cap[x].type = "time" /\ cap[x].hart = h
                           /\ cap[x].mrk <= i /\ i < cap[x].end

-----------------------------------------------------------------------------
(* Memory.                                                                 *)

\* The PMP table of a process holds exactly the regions of the PMP
\* capabilities it has in use, each in the slot its capability names.
PmpMatches ==
  /\ \A c \in CTE : cap[c].type = "pmp" /\ cap[c].used =>
       pmp[cte_pid(c)][cap[c].slot] = Region(cap[c])
  /\ \A p \in Pids, s \in PmpSlots : pmp[p][s].on =>
       \E c \in CTE : /\ cte_pid(c) = p /\ cap[c].type = "pmp"
                      /\ cap[c].used /\ cap[c].slot = s
  /\ \A c, d \in CTE :
       /\ cap[c].type = "pmp" /\ cap[c].used /\ cap[d].type = "pmp" /\ cap[d].used
       /\ cte_pid(c) = cte_pid(d) /\ cap[c].slot = cap[d].slot
       => c = d

Overlaps(m, p) ==
  /\ p.base < tag_block_to_addr(m.tag, m.end)
  /\ tag_block_to_addr(m.tag, m.mrk) < p.base + p.size

\* The part of a memory capability that is not passed on is in no other memory
\* capability, and unless the capability is locked it is private: no derived
\* PMP region gives anyone access to it, and after a revocation it is so again.
MemoryPrivate ==
  /\ Exclusive
  /\ ~shrunk =>
       \A x, y \in Live :
         /\ cap[x].type = "mem" /\ ~cap[x].lck
         /\ cap[y].type = "pmp" /\ root[y] = root[x]
         => ~Overlaps(cap[x], cap[y])

-----------------------------------------------------------------------------
(* Channels.                                                               *)

\* When a channel loses its server socket, however that comes about, its client
\* is unregistered in the same step, and nobody but the process that held the
\* socket (and goes on waiting in its own call) stays registered as server.
SocketLossUnregisters ==
  [][~shrunk => \A ch \in Chans :
       ServerSockets(ch) # {} /\ ServerSockets(ch)' = {} =>
         /\ channels'[ch].client = NULL
         /\ channels'[ch].server \in {NULL} \union {cte_pid(x) : x \in ServerSockets(ch)}
    ]_vars

\* do_send never moves a capability through a null pointer: a channel with
\* somebody to receive has a buffer.
ReceiverHasBuffer ==
  \A ch \in Chans :
    channels[ch].server # NULL \/ channels[ch].client # NULL => channels[ch].cap_buf # NULL
=============================================================================
