----------------------------- MODULE ProcProofs -----------------------------
(* A process is on at most one hart, whatever the number of harts, processes *)
(* and channels, and a server that waits is ready for a message.             *)
EXTENDS ProcIpc, FiniteSetTheorems, TLAPS

-----------------------------------------------------------------------------
(* Harts, calls and what a hart holds.                                       *)

Phases == {"off", "sched", "cas", "user", "lock", "handler", "suspend", "release"}
Running == {"user", "lock", "handler", "suspend"}

LEMMA CallFields ==
  ASSUME NEW c \in Calls
  PROVE  /\ c.op \in {"suspend", "resume", "yield"} => c.of \in Procs
         /\ c.op \in {"send", "recv", "sendrecv"} => c.ch \in Chans
BY DEF Calls

LEMMA OneStarted ==
  ASSUME Started \in Builds, Cardinality(Started) = 1, NEW g \in Started, NEW h \in Started
  PROVE  g = h
<1>1. IsFiniteSet(Started)
  BY ConfigAssumption, FS_Subset DEF Started
<1>2. PICK x : Started = {x}
  BY <1>1, FS_Singleton
<1>3. QED
  BY <1>2

LEMMA StartedCount ==
  ASSUME Started \in Builds
  PROVE  Cardinality(Started) \in 1 .. Cardinality(Harts)
<1>1. IsFiniteSet(Harts) /\ Started \subseteq Harts /\ Started # {}
  BY ConfigAssumption
<1>2. IsFiniteSet(Started) /\ Cardinality(Started) <= Cardinality(Harts)
  BY <1>1, FS_Subset
<1>3. Cardinality(Started) \in Nat /\ Cardinality(Harts) \in Nat /\ Cardinality(Started) # 0
  BY <1>1, <1>2, FS_CardinalityType, FS_EmptySet
<1>4. QED
  BY <1>2, <1>3

\* A step of a hart that is started leaves the set of started harts alone.
LEMMA StartedKept ==
  ASSUME TypeOK, NEW h \in Harts, pc[h] # "off", NEW x, x # "off", pc' = [pc EXCEPT ![h] = x]
  PROVE  Started' = Started
BY DEF Started, TypeOK

\* No process changes hands.
LEMMA Kept ==
  ASSUME OneHart, \A g \in Harts : Holds(g)' = Holds(g),
         \A p \in Procs : "busy" \in state'[p] <=> "busy" \in state[p]
  PROVE  OneHart'
BY DEF OneHart

\* Hart h acquires process p, which nobody holds.
LEMMA Acquired ==
  ASSUME OneHart, NEW h \in Harts, NEW p \in Procs, "busy" \notin state[p],
         Holds(h)' = Holds(h) \union {p}, \A g \in Harts \ {h} : Holds(g)' = Holds(g),
         "busy" \in state'[p],
         \A q \in Procs \ {p} : "busy" \in state'[q] <=> "busy" \in state[q]
  PROVE  OneHart'
<1>1. \A g \in Harts : p \notin Holds(g)
  BY DEF OneHart
<1>2. \A f, g \in Harts : f # g => Holds(f)' \intersect Holds(g)' = {}
  BY <1>1 DEF OneHart
<1>3. \A q \in Procs : "busy" \in state'[q] <=> \E g \in Harts : q \in Holds(g)'
  <2> SUFFICES ASSUME NEW q \in Procs
               PROVE  "busy" \in state'[q] <=> \E g \in Harts : q \in Holds(g)'
    OBVIOUS
  <2>1. CASE q = p
    BY <2>1
  <2>2. CASE q # p
    BY <2>2 DEF OneHart
  <2>3. QED
    BY <2>1, <2>2
<1>4. QED
  BY <1>2, <1>3 DEF OneHart

\* Hart h releases process p, which it holds.
LEMMA Released ==
  ASSUME OneHart, NEW h \in Harts, NEW p \in Procs, p \in Holds(h),
         Holds(h)' = Holds(h) \ {p}, \A g \in Harts \ {h} : Holds(g)' = Holds(g),
         "busy" \notin state'[p],
         \A q \in Procs \ {p} : "busy" \in state'[q] <=> "busy" \in state[q]
  PROVE  OneHart'
<1>1. \A g \in Harts \ {h} : p \notin Holds(g)
  BY DEF OneHart
<1>2. \A f, g \in Harts : f # g => Holds(f)' \intersect Holds(g)' = {}
  BY DEF OneHart
<1>3. \A q \in Procs : "busy" \in state'[q] <=> \E g \in Harts : q \in Holds(g)'
  <2> SUFFICES ASSUME NEW q \in Procs
               PROVE  "busy" \in state'[q] <=> \E g \in Harts : q \in Holds(g)'
    OBVIOUS
  <2>1. CASE q = p
    BY <1>1, <2>1
  <2>2. CASE q # p
    BY <2>2 DEF OneHart
  <2>3. QED
    BY <2>1, <2>2
<1>4. QED
  BY <1>2, <1>3 DEF OneHart

\* The other harts are as they were.
OthersKept(h) ==
  \A g \in Harts \ {h} :
    pc'[g] = pc[g] /\ run'[g] = run[g] /\ next'[g] = next[g] /\ call'[g] = call[g]
    /\ expected'[g] = expected[g]

\* A step of hart h under which processes that h does not hold begin to wait
\* on no channel leaves the other harts sound.
LEMMA OthersSound ==
  ASSUME ProcInv, NEW h \in Harts, pc[h] # "off", Started' = Started, OthersKept(h),
         \A p \in Procs : p \notin Holds(h) => state'[p] \intersect Chans \subseteq state[p]
  PROVE  \A g \in Harts \ {h} : HartSound(g)' /\ Holds(g)' = Holds(g)
<1> SUFFICES ASSUME NEW g \in Harts \ {h} PROVE HartSound(g)' /\ Holds(g)' = Holds(g)
  OBVIOUS
<1>1. pc'[g] = pc[g] /\ run'[g] = run[g] /\ next'[g] = next[g] /\ call'[g] = call[g]
      /\ expected'[g] = expected[g]
  BY DEF OthersKept
<1>2. HartSound(g) /\ Holds(g) \intersect Holds(h) = {}
  BY DEF ProcInv, OneHart
<1>3. pc[g] # "suspend"
  BY <1>2, OneStarted DEF ProcInv, HartSound, Started
<1>4. pc[g] \in Running => run[g] \in Procs /\ run[g] \in Holds(g)
  BY DEF ProcInv, TypeOK, Holds, Running
<1>5. next[g] # NONE => next[g] \in Procs /\ next[g] \in Holds(g)
  BY DEF ProcInv, TypeOK, Holds
<1>6. pc[g] \in Running => state'[run[g]] \intersect Chans = {}
  BY <1>2, <1>4 DEF HartSound, Running
<1>7. next[g] # NONE => state'[next[g]] \intersect Chans = {}
  BY <1>2, <1>5 DEF HartSound
<1>8. HartSound(g)'
  BY <1>1, <1>2, <1>3, <1>6, <1>7 DEF HartSound, MayCall, Running
<1>9. Holds(g)' = Holds(g)
  BY <1>1 DEF Holds
<1>10. QED
  BY <1>8, <1>9

-----------------------------------------------------------------------------
(* Steps that change no state word and no channel.                           *)

LEMMA Quiet ==
  ASSUME ProcInv, NEW h \in Harts, pc[h] # "off", Started' = Started, OthersKept(h),
         UNCHANGED <<state, channels>>, TypeOK', HartSound(h)', Holds(h)' = Holds(h)
  PROVE  ProcInv'
<1>1. \A g \in Harts \ {h} : HartSound(g)' /\ Holds(g)' = Holds(g)
  BY OthersSound
<1>2. OneHart'
  BY <1>1, Kept DEF ProcInv
<1>3. WaitersSound' /\ WaitingServerReady'
  BY DEF ProcInv, WaitersSound, WaitingServerReady
<1>4. QED
  BY <1>1, <1>2, <1>3 DEF ProcInv

LEMMA Time ==
  ASSUME ProcInv, UNCHANGED <<state, channels, lock>>, UNCHANGED hartVars,
         timeout' \in [Procs -> Times], due' \in [Harts -> BOOLEAN]
  PROVE  ProcInv'
<1>1. TypeOK'
  BY DEF ProcInv, TypeOK, hartVars
<1>2. Started' = Started
  BY DEF Started, hartVars
<1>3. \A h \in Harts : HartSound(h)'
  BY <1>2 DEF ProcInv, HartSound, hartVars, MayCall
<1>4. WaitersSound' /\ WaitingServerReady'
  BY DEF ProcInv, WaitersSound, WaitingServerReady
<1>5. OneHart'
  BY DEF ProcInv, OneHart, Holds, hartVars
<1>6. QED
  BY <1>1, <1>2, <1>3, <1>4, <1>5 DEF ProcInv

LEMMA Timer ==
  ASSUME ProcInv, NEW h \in Harts, timer(h)
  PROVE  ProcInv'
<1>1. timeout' \in [Procs -> Times] /\ due' \in [Harts -> BOOLEAN]
  BY DEF ProcInv, TypeOK, timer, Times
<1>2. QED
  BY <1>1, Time DEF timer

LEMMA Expire ==
  ASSUME ProcInv, NEW p \in Procs, expire(p)
  PROVE  ProcInv'
<1>1. timeout' \in [Procs -> Times] /\ due' \in [Harts -> BOOLEAN]
  BY DEF ProcInv, TypeOK, expire, Times
<1>2. QED
  BY <1>1, Time DEF expire

LEMMA SchedLoad ==
  ASSUME ProcInv, NEW h \in Harts, NEW p \in Procs, sched_load(h, p)
  PROVE  ProcInv'
<1>1. Started' = Started /\ pc[h] # "off"
  BY StartedKept DEF ProcInv, sched_load
<1>2. TypeOK'
  BY ConfigAssumption DEF ProcInv, TypeOK, sched_load
<1>3. HartSound(h) /\ "busy" \notin state[p]
  BY DEF ProcInv, sched_load, acquirable
<1>4. OthersKept(h) /\ HartSound(h)' /\ Holds(h)' = Holds(h)
  BY <1>3 DEF ProcInv, TypeOK, sched_load, OthersKept, HartSound, Holds
<1>5. QED
  BY <1>1, <1>2, <1>4, Quiet DEF sched_load

\* The types of what the harts keep.
HartTypes ==
  /\ pc \in [Harts -> Phases] /\ run \in [Harts -> Procs \union {NONE}]
  /\ next \in [Harts -> Procs \union {NONE}] /\ call \in [Harts -> Calls \union {NoCall}]
  /\ expected \in [Harts -> SUBSET Flags]
  /\ \A h \in Harts : run[h] = NONE <=> pc[h] \in {"off", "sched"}

LEMMA LeaveTypes ==
  ASSUME ProcInv, NEW h \in Harts, pc[h] \in Running, NEW n \in Procs \union {NONE}, leave_for(h, n)
  PROVE  HartTypes' /\ Started' = Started /\ OthersKept(h)
<1>1. HartTypes'
  BY DEF ProcInv, TypeOK, HartTypes, leave_for, Running, Phases
<1>2. Started' = Started
  BY StartedKept DEF ProcInv, leave_for, Running
<1>3. QED
  BY <1>1, <1>2 DEF ProcInv, TypeOK, leave_for, OthersKept

LEMMA ReturnTypes ==
  ASSUME ProcInv, NEW h \in Harts, pc[h] \in Running, return_to(h)
  PROVE  HartTypes' /\ Started' = Started /\ OthersKept(h)
<1>1. HartTypes'
  BY DEF ProcInv, TypeOK, HartTypes, return_to, Running, Phases
<1>2. Started' = Started
  BY StartedKept DEF ProcInv, return_to, Running
<1>3. QED
  BY <1>1, <1>2 DEF ProcInv, TypeOK, return_to, OthersKept

\* The hart goes to the release, or back to user mode, and nothing else happens.
LEMMA Leaves ==
  ASSUME ProcInv, NEW h \in Harts, pc[h] \in Running,
         leave_for(h, NONE) \/ return_to(h),
         UNCHANGED <<state, channels>>, timeout' \in [Procs -> Times],
         lock' \in {lock, NONE}, due' \in [Harts -> BOOLEAN]
  PROVE  ProcInv'
<1>1. Started' = Started /\ pc[h] # "off" /\ HartTypes'
  BY LeaveTypes, ReturnTypes DEF Running
<1>2. TypeOK'
  BY <1>1 DEF ProcInv, TypeOK, HartTypes, Phases
<1>3. HartSound(h) /\ run[h] \in Procs /\ NONE \notin Procs
  BY ConfigAssumption DEF ProcInv, TypeOK, Running
<1>4. OthersKept(h) /\ HartSound(h)' /\ Holds(h)' = Holds(h)
  BY <1>3 DEF ProcInv, TypeOK, leave_for, return_to, OthersKept, HartSound, Holds, Running
<1>5. QED
  BY <1>1, <1>2, <1>4, Quiet

LEMMA Interrupt ==
  ASSUME ProcInv, NEW h \in Harts,
         interrupt_handler(h) \/ lock_preempted(h) \/ sock_preempted(h) \/ sock_refused(h)
  PROVE  ProcInv'
<1>1. /\ pc[h] \in Running /\ (leave_for(h, NONE) \/ return_to(h))
      /\ UNCHANGED <<state, timeout, channels, due>> /\ lock' \in {lock, NONE}
  BY DEF interrupt_handler, lock_preempted, sock_preempted, sock_refused, executes, Running
<1>2. timeout' \in [Procs -> Times] /\ due' \in [Harts -> BOOLEAN]
  BY <1>1 DEF ProcInv, TypeOK
<1>3. QED
  BY <1>1, <1>2, Leaves

LEMMA SyncSleep ==
  ASSUME ProcInv, NEW h \in Harts, handle_sync(h) \/ handle_sleep(h)
  PROVE  ProcInv'
<1>1. /\ pc[h] \in Running /\ leave_for(h, NONE)
      /\ UNCHANGED <<state, channels, lock, due>>
  BY DEF handle_sync, handle_sleep, Running
<1>2. run[h] \in Procs
  BY <1>1 DEF ProcInv, TypeOK, Running
<1>3. timeout' \in [Procs -> Times] /\ due' \in [Harts -> BOOLEAN]
  BY <1>1, <1>2 DEF ProcInv, TypeOK, handle_sync, handle_sleep, Times
<1>4. QED
  BY <1>1, <1>3, Leaves

LEMMA Syscall ==
  ASSUME ProcInv, NEW h \in Harts, NEW c \in Calls, syscall_handler(h, c)
  PROVE  ProcInv'
<1>1. Started' = Started /\ pc[h] # "off"
  BY StartedKept DEF ProcInv, syscall_handler
<1>2. TypeOK'
  BY DEF ProcInv, TypeOK, syscall_handler
<1>3. HartSound(h)
  BY DEF ProcInv
<1>4. OthersKept(h) /\ Holds(h)' = Holds(h)
  BY DEF ProcInv, TypeOK, syscall_handler, OthersKept, Holds
<1>5. HartSound(h)'
  BY <1>1, <1>3 DEF ProcInv, TypeOK, syscall_handler, HartSound, MayCall
<1>6. QED
  BY <1>1, <1>2, <1>4, <1>5, Quiet DEF syscall_handler

LEMMA Lock ==
  ASSUME ProcInv, NEW h \in Harts, taslock_acquire(h)
  PROVE  ProcInv'
<1>1. Started' = Started /\ pc[h] # "off"
  BY StartedKept DEF ProcInv, taslock_acquire
<1>2. TypeOK'
  BY DEF ProcInv, TypeOK, taslock_acquire
<1>3. HartSound(h)
  BY DEF ProcInv
<1>4. OthersKept(h) /\ Holds(h)' = Holds(h)
  BY DEF ProcInv, TypeOK, taslock_acquire, OthersKept, Holds
<1>5. HartSound(h)'
  BY <1>1, <1>3 DEF ProcInv, TypeOK, taslock_acquire, HartSound, MayCall
<1>6. QED
  BY <1>1, <1>2, <1>4, <1>5, Quiet DEF taslock_acquire

-----------------------------------------------------------------------------
(* Steps that change state words.                                            *)

\* No process begins to wait, and servers and buffers stay registered.
LEMMA NoWait ==
  ASSUME ProcInv, \A p \in Procs : state'[p] \intersect Chans \subseteq state[p],
         \A ch \in Chans : channels'[ch].server = channels[ch].server
                          /\ channels'[ch].cap_buf = channels[ch].cap_buf
  PROVE  WaitersSound' /\ WaitingServerReady'
BY ConfigAssumption DEF ProcInv, WaitersSound, WaitingServerReady

LEMMA Exchange ==
  ASSUME ProcInv, NEW h \in Harts, sched_exchange(h)
  PROVE  ProcInv'
<1> DEFINE p == run[h]
<1>1. pc[h] = "cas" /\ p \in Procs /\ HartSound(h) /\ Holds(h) = {}
  BY DEF ProcInv, TypeOK, sched_exchange, HartSound, Holds
<1>2. CASE state[p] = expected[h] /\ state' = [state EXCEPT ![p] = {"busy"}]
           /\ timeout' = [timeout EXCEPT ![p] = h] /\ pc' = [pc EXCEPT ![h] = "user"]
           /\ UNCHANGED run
  <2>1. Started' = Started /\ "busy" \notin state[p]
    BY <1>1, <1>2, StartedKept DEF ProcInv, HartSound
  <2>2. TypeOK'
    BY <1>1, <1>2 DEF ProcInv, TypeOK, sched_exchange, Flags, Times
  <2>3. \A q \in Procs : state'[q] \intersect Chans \subseteq state[q]
    BY <1>2, NamesAssumption DEF ProcInv, TypeOK
  <2>4. OthersKept(h)
    BY <1>2 DEF ProcInv, TypeOK, OthersKept, sched_exchange
  <2>5. \A g \in Harts \ {h} : HartSound(g)' /\ Holds(g)' = Holds(g)
    BY <1>1, <2>1, <2>3, <2>4, OthersSound
  <2>6. next[h] = NONE /\ pc'[h] = "user" /\ run'[h] = p /\ next'[h] = NONE /\ state'[p] = {"busy"}
    BY <1>1, <1>2 DEF ProcInv, TypeOK, HartSound, sched_exchange
  <2>7. HartSound(h)' /\ Holds(h)' = Holds(h) \union {p}
    BY <1>1, <2>6, NamesAssumption DEF HartSound, Holds
  <2>8. OneHart'
    BY <1>1, <1>2, <2>1, <2>5, <2>7, Acquired DEF ProcInv, TypeOK
  <2>9. WaitersSound' /\ WaitingServerReady'
    BY <2>3, NoWait DEF sched_exchange
  <2>10. QED
    BY <2>1, <2>2, <2>5, <2>7, <2>8, <2>9 DEF ProcInv
<1>3. CASE pc' = [pc EXCEPT ![h] = "sched"] /\ run' = [run EXCEPT ![h] = NONE]
           /\ UNCHANGED <<state, timeout>>
  <2>1. Started' = Started
    BY <1>1, <1>3, StartedKept DEF ProcInv
  <2>2. TypeOK'
    BY <1>1, <1>3, ConfigAssumption DEF ProcInv, TypeOK, sched_exchange
  <2>3. OthersKept(h) /\ HartSound(h)' /\ Holds(h)' = Holds(h)
    BY <1>1, <1>3 DEF ProcInv, TypeOK, sched_exchange, OthersKept, HartSound, Holds
  <2>4. QED
    BY <1>1, <1>3, <2>1, <2>2, <2>3, Quiet DEF sched_exchange
<1>4. QED
  BY <1>2, <1>3 DEF sched_exchange

LEMMA Release ==
  ASSUME ProcInv, NEW h \in Harts, proc_release(h)
  PROVE  ProcInv'
<1> DEFINE p == run[h]
           n == next[h]
<1>1. /\ pc[h] = "release" /\ p \in Procs /\ HartSound(h) /\ n \in Procs \union {NONE} /\ n # p
      /\ Holds(h) = {p} \union ({n} \ {NONE})
  BY DEF ProcInv, TypeOK, proc_release, HartSound, Holds
<1>2. "busy" \in state[p]
  BY <1>1 DEF ProcInv, OneHart
<1>3. /\ state' = [state EXCEPT ![p] = @ \ {"busy"}]
      /\ run' = [run EXCEPT ![h] = n] /\ next' = [next EXCEPT ![h] = NONE]
      /\ pc' = [pc EXCEPT ![h] = IF n = NONE THEN "sched" ELSE "user"]
      /\ UNCHANGED <<channels, lock, call, expected>>
  <2>1. (state[p] \ {"busy"}) \union ({"busy"} \ state[p]) = state[p] \ {"busy"}
    BY <1>2
  <2>2. state' = [state EXCEPT ![p] = @ \ {"busy"}]
    BY <2>1, Zenon DEF proc_release
  <2>3. pc' = [pc EXCEPT ![h] = IF n = NONE THEN "sched" ELSE "user"]
    <3>1. CASE n = NONE
      BY <3>1 DEF proc_release
    <3>2. CASE n # NONE
      BY <3>2 DEF proc_release
    <3>3. QED
      BY <3>1, <3>2
  <2>4. QED
    BY <2>2, <2>3 DEF proc_release
<1>4. timeout' \in [Procs -> Times] /\ due' \in [Harts -> BOOLEAN]
  BY DEF ProcInv, TypeOK, proc_release, Times
<1>5. TypeOK'
  <2>1. HartTypes'
    BY <1>1, <1>3, ConfigAssumption DEF ProcInv, TypeOK, HartTypes, Phases
  <2>2. state' \in [Procs -> SUBSET Flags]
    BY <1>3 DEF ProcInv, TypeOK
  <2>3. QED
    BY <1>3, <1>4, <2>1, <2>2 DEF ProcInv, TypeOK, HartTypes, Phases
<1>6. Started' = Started /\ OthersKept(h)
  BY <1>1, <1>3, StartedKept DEF ProcInv, TypeOK, OthersKept
<1>7. \A q \in Procs : state'[q] \intersect Chans \subseteq state[q]
  BY <1>3 DEF ProcInv, TypeOK
<1>8. \A g \in Harts \ {h} : HartSound(g)' /\ Holds(g)' = Holds(g)
  BY <1>1, <1>6, <1>7, OthersSound
<1>9. /\ pc'[h] = IF n = NONE THEN "sched" ELSE "user"
      /\ run'[h] = n /\ next'[h] = NONE
      /\ n # NONE => state'[n] \intersect Chans = {}
  BY <1>1, <1>3 DEF ProcInv, TypeOK, HartSound
<1>10. HartSound(h)'
  BY <1>9 DEF HartSound
<1>11. Holds(h)' = Holds(h) \ {p}
  BY <1>1, <1>9 DEF Holds
<1>12. "busy" \notin state'[p] /\ \A q \in Procs \ {p} : "busy" \in state'[q] <=> "busy" \in state[q]
  BY <1>1, <1>3 DEF ProcInv, TypeOK
<1>13. OneHart'
  BY <1>1, <1>8, <1>11, <1>12, Released DEF ProcInv
<1>14. WaitersSound' /\ WaitingServerReady'
  BY <1>3, <1>7, NoWait
<1>15. QED
  BY <1>5, <1>6, <1>8, <1>10, <1>13, <1>14 DEF ProcInv

\* The handler returns to its caller, having changed state words of processes
\* without making one wait or changing who is busy.
LEMMA ReturnKept ==
  ASSUME ProcInv, NEW h \in Harts, pc[h] \in Running, return_to(h),
         state' \in [Procs -> SUBSET Flags],
         \A p \in Procs : /\ state'[p] \intersect Chans \subseteq state[p]
                          /\ "busy" \in state'[p] <=> "busy" \in state[p],
         channels' \in [Chans -> [server : Procs \union {NONE}, client : Procs \union {NONE},
                                  cap_buf : Procs \union {NONE}]],
         \A ch \in Chans : channels'[ch].server = channels[ch].server
                          /\ channels'[ch].cap_buf = channels[ch].cap_buf,
         timeout' \in [Procs -> Times], lock' = NONE, UNCHANGED due
  PROVE  ProcInv'
<1>1. Started' = Started /\ pc[h] # "off" /\ HartTypes' /\ OthersKept(h)
  BY ReturnTypes DEF Running
<1>2. TypeOK'
  BY <1>1 DEF ProcInv, TypeOK, HartTypes, Phases
<1>3. \A g \in Harts \ {h} : HartSound(g)' /\ Holds(g)' = Holds(g)
  BY <1>1, OthersSound
<1>4. HartSound(h) /\ run[h] \in Procs /\ next[h] = NONE /\ state[run[h]] \intersect Chans = {}
  BY DEF ProcInv, TypeOK, Running, HartSound
<1>5. pc'[h] = "user" /\ run'[h] = run[h] /\ next'[h] = NONE
  BY <1>4 DEF ProcInv, TypeOK, return_to
<1>6. HartSound(h)' /\ Holds(h)' = Holds(h)
  BY <1>4, <1>5 DEF HartSound, Holds, Running
<1>7. OneHart'
  BY <1>3, <1>6, Kept DEF ProcInv
<1>8. WaitersSound' /\ WaitingServerReady'
  BY NoWait
<1>9. QED
  BY <1>1, <1>2, <1>3, <1>6, <1>7, <1>8 DEF ProcInv

\* The handler acquires process n and goes on with it; only the caller may have
\* begun to wait.
LEMMA LeaveAcquired ==
  ASSUME ProcInv, NEW h \in Harts, pc[h] \in Running, NEW n \in Procs, leave_for(h, n),
         "busy" \notin state[n], state'[n] = {"busy"}, state' \in [Procs -> SUBSET Flags],
         \A p \in Procs \ {n} : /\ p # run[h] => state'[p] \intersect Chans \subseteq state[p]
                                /\ "busy" \in state'[p] <=> "busy" \in state[p],
         channels' \in [Chans -> [server : Procs \union {NONE}, client : Procs \union {NONE},
                                  cap_buf : Procs \union {NONE}]],
         WaitersSound' /\ WaitingServerReady',
         timeout' \in [Procs -> Times], lock' = NONE, UNCHANGED due
  PROVE  ProcInv'
<1>1. Started' = Started /\ pc[h] # "off" /\ HartTypes' /\ OthersKept(h)
  BY LeaveTypes DEF Running
<1>2. TypeOK'
  BY <1>1 DEF ProcInv, TypeOK, HartTypes, Phases
<1>3. HartSound(h) /\ run[h] \in Procs /\ next[h] = NONE /\ Holds(h) = {run[h]}
  BY DEF ProcInv, TypeOK, Running, HartSound, Holds
<1>4. "busy" \in state[run[h]] /\ run[h] # n
  BY <1>3 DEF ProcInv, OneHart
<1>5. \A g \in Harts \ {h} : HartSound(g)' /\ Holds(g)' = Holds(g)
  <2>1. \A p \in Procs : p \notin Holds(h) => state'[p] \intersect Chans \subseteq state[p]
    BY <1>3, NamesAssumption
  <2>2. QED
    BY <1>1, <2>1, OthersSound
<1>6. pc'[h] = "release" /\ run'[h] = run[h] /\ next'[h] = n /\ n # NONE
  BY ConfigAssumption DEF ProcInv, TypeOK, leave_for
<1>7. HartSound(h)' /\ Holds(h)' = Holds(h) \union {n}
  BY <1>3, <1>4, <1>6, NamesAssumption DEF HartSound, Holds
<1>8. OneHart'
  BY <1>5, <1>7, Acquired DEF ProcInv
<1>9. QED
  BY <1>1, <1>2, <1>5, <1>7, <1>8 DEF ProcInv

\* The handler goes to the release and the scheduler; only the caller may have
\* begun to wait.
LEMMA LeaveKept ==
  ASSUME ProcInv, NEW h \in Harts, pc[h] \in Running, leave_for(h, NONE),
         state' \in [Procs -> SUBSET Flags],
         \A p \in Procs : /\ p # run[h] => state'[p] \intersect Chans \subseteq state[p]
                          /\ "busy" \in state'[p] <=> "busy" \in state[p],
         channels' \in [Chans -> [server : Procs \union {NONE}, client : Procs \union {NONE},
                                  cap_buf : Procs \union {NONE}]],
         WaitersSound' /\ WaitingServerReady',
         timeout' \in [Procs -> Times], lock' = NONE, UNCHANGED due
  PROVE  ProcInv'
<1>1. Started' = Started /\ pc[h] # "off" /\ HartTypes' /\ OthersKept(h)
  BY LeaveTypes DEF Running
<1>2. TypeOK'
  BY <1>1 DEF ProcInv, TypeOK, HartTypes, Phases
<1>3. HartSound(h) /\ run[h] \in Procs /\ next[h] = NONE /\ Holds(h) = {run[h]}
  BY DEF ProcInv, TypeOK, Running, HartSound, Holds
<1>4. \A g \in Harts \ {h} : HartSound(g)' /\ Holds(g)' = Holds(g)
  <2>1. \A p \in Procs : p \notin Holds(h) => state'[p] \intersect Chans \subseteq state[p]
    BY <1>3
  <2>2. QED
    BY <1>1, <2>1, OthersSound
<1>5. pc'[h] = "release" /\ run'[h] = run[h] /\ next'[h] = NONE
  BY DEF ProcInv, TypeOK, leave_for
<1>6. HartSound(h)' /\ Holds(h)' = Holds(h)
  <2>1. run[h] # NONE
    BY <1>3, ConfigAssumption
  <2>2. HartSound(h)'
    BY <1>5, <2>1 DEF HartSound
  <2>3. QED
    BY <1>3, <1>5, <2>2 DEF Holds
<1>7. OneHart'
  BY <1>4, <1>6, Kept DEF ProcInv
<1>8. QED
  BY <1>1, <1>2, <1>4, <1>6, <1>7 DEF ProcInv

-----------------------------------------------------------------------------
(* The monitor calls.                                                        *)

\* Hart h executes a call with its capabilities.
LEMMA Executing ==
  ASSUME ProcInv, NEW h \in Harts, NEW op, executes(h, op) \/ (pc[h] = "suspend" /\ op = "suspend"),
         op \in {"suspend", "resume", "yield", "send", "recv", "sendrecv"}
  PROVE  /\ pc[h] \in Running /\ run[h] \in Procs /\ HartSound(h) /\ call[h].op = op
         /\ MayCall(run[h], call[h]) /\ state[run[h]] \intersect Chans = {}
         /\ Holds(h) = {run[h]} /\ next[h] = NONE /\ "busy" \in state[run[h]]
         /\ op \in {"suspend", "resume", "yield"} => call[h].of \in Procs
         /\ op \in {"send", "recv", "sendrecv"} => call[h].ch \in Chans
<1>1. HartSound(h) /\ pc[h] \in {"handler", "suspend"} /\ call[h].op = op
  BY DEF ProcInv, executes, HartSound
<1>2. run[h] \in Procs /\ Holds(h) = {run[h]} /\ next[h] = NONE
  BY <1>1 DEF ProcInv, TypeOK, HartSound, Holds
<1>3. "busy" \in state[run[h]]
  BY <1>2 DEF ProcInv, OneHart
<1>4. QED
  BY <1>1, <1>2, <1>3, CallFields DEF HartSound, Running

LEMMA Suspend ==
  ASSUME ProcInv, SafeSuspends, NEW h \in Harts, cap_monitor_suspend(h)
  PROVE  ProcInv'
<1> DEFINE q == call[h].of
<1>1. /\ executes(h, "suspend") /\ pc[h] = "handler"
      /\ state' = [state EXCEPT ![q] = @ \union {"suspended"}]
      /\ UNCHANGED <<timeout, channels, due>>
  BY DEF cap_monitor_suspend, executes
<1>2. /\ pc[h] \in Running /\ run[h] \in Procs /\ q \in Procs /\ HartSound(h) /\ call[h].op = "suspend"
      /\ MayCall(run[h], call[h]) /\ state[run[h]] \intersect Chans = {}
      /\ Holds(h) = {run[h]} /\ next[h] = NONE
  BY <1>1, Executing
<1>3. /\ state' \in [Procs -> SUBSET Flags]
      /\ \A p \in Procs : /\ state'[p] \intersect Chans \subseteq state[p]
                          /\ "busy" \in state'[p] <=> "busy" \in state[p]
  BY <1>1, <1>2, NamesAssumption DEF ProcInv, TypeOK, Flags
<1>4. CASE return_to(h) /\ lock' = NONE
  BY <1>1, <1>2, <1>3, <1>4, ReturnKept DEF ProcInv, TypeOK
<1>5. CASE state[q] \intersect Chans # {} /\ pc' = [pc EXCEPT ![h] = "suspend"]
           /\ UNCHANGED <<lock, run, next, call, expected>>
  <2>1. Cardinality(Started) = 1
    <3>1. PICK ch \in Chans : ch \in state[q]
      BY <1>5
    <3>2. q \in Clients[ch] \union {Server[ch]}
      BY <1>2, <3>1 DEF ProcInv, WaitersSound
    <3>3. <<run[h], q>> \in Suspends[Cardinality(Started)] /\ <<run[h], q>>[2] = q
      BY <1>2 DEF MayCall
    <3>4. Cardinality(Started) \notin 2 .. Cardinality(Harts)
      BY <3>2, <3>3 DEF SafeSuspends
    <3>5. Cardinality(Started) \in 1 .. Cardinality(Harts)
      BY StartedCount DEF ProcInv
    <3>6. Cardinality(Harts) \in Nat
      BY ConfigAssumption, FS_CardinalityType
    <3>7. QED
      BY <3>4, <3>5, <3>6
  <2>2. q # run[h]
    BY <1>2, <1>5
  <2>3. "busy" \notin state[q]
    <3>1. SUFFICES ASSUME NEW g \in Harts, q \in Holds(g) PROVE FALSE
      BY <1>2 DEF ProcInv, OneHart
    <3>2. g \in Started /\ h \in Started
      BY <1>1, <1>2, <3>1, ConfigAssumption DEF Started, Holds, ProcInv, HartSound
    <3>3. g = h
      BY <2>1, <3>2, OneStarted DEF ProcInv
    <3>4. QED
      BY <1>2, <2>2, <3>1, <3>3
  <2>4. Started' = Started /\ OthersKept(h)
    BY <1>1, <1>5, StartedKept DEF ProcInv, TypeOK, OthersKept
  <2>5. TypeOK'
    BY <1>1, <1>2, <1>3, <1>5 DEF ProcInv, TypeOK
  <2>6. \A g \in Harts \ {h} : HartSound(g)' /\ Holds(g)' = Holds(g)
    BY <1>1, <1>3, <2>4, OthersSound
  <2>7. pc'[h] = "suspend"
    BY <1>5 DEF ProcInv, TypeOK
  <2>8. HartSound(h)'
    BY <1>1, <1>2, <1>3, <1>5, <2>1, <2>3, <2>4, <2>7 DEF HartSound, MayCall
  <2>9. Holds(h)' = Holds(h)
    BY <1>1, <1>2, <1>5, <2>7 DEF Holds
  <2>10. OneHart'
    BY <1>3, <2>6, <2>9, Kept DEF ProcInv
  <2>11. WaitersSound' /\ WaitingServerReady'
    BY <1>1, <1>3, NoWait
  <2>12. QED
    BY <2>4, <2>5, <2>6, <2>8, <2>10, <2>11 DEF ProcInv
<1>6. QED
  BY <1>4, <1>5 DEF cap_monitor_suspend

LEMMA SuspendStore ==
  ASSUME ProcInv, NEW h \in Harts, suspend_store(h)
  PROVE  ProcInv'
<1> DEFINE q == call[h].of
<1>1. /\ pc[h] = "suspend" /\ return_to(h) /\ lock' = NONE
      /\ state' = [state EXCEPT ![q] = {"suspended"}]
      /\ UNCHANGED <<timeout, channels, due>>
  BY DEF suspend_store
<1>2. pc[h] \in Running /\ q \in Procs /\ HartSound(h)
  BY <1>1, Executing
<1>3. "busy" \notin state[q]
  BY <1>1, <1>2 DEF HartSound
<1>4. /\ state' \in [Procs -> SUBSET Flags]
      /\ \A p \in Procs : /\ state'[p] \intersect Chans \subseteq state[p]
                          /\ "busy" \in state'[p] <=> "busy" \in state[p]
  BY <1>1, <1>2, <1>3, NamesAssumption DEF ProcInv, TypeOK, Flags
<1>5. QED
  BY <1>1, <1>2, <1>4, ReturnKept DEF ProcInv, TypeOK

LEMMA Resume ==
  ASSUME ProcInv, NEW h \in Harts, cap_monitor_resume(h)
  PROVE  ProcInv'
<1> DEFINE q == call[h].of
<1>1. /\ executes(h, "resume") /\ return_to(h) /\ lock' = NONE
      /\ state' = [state EXCEPT ![q] = @ \ {"suspended"}]
      /\ UNCHANGED <<channels, due>>
  BY DEF cap_monitor_resume
<1>2. pc[h] \in Running /\ q \in Procs
  BY <1>1, Executing
<1>3. /\ state' \in [Procs -> SUBSET Flags]
      /\ \A p \in Procs : /\ state'[p] \intersect Chans \subseteq state[p]
                          /\ "busy" \in state'[p] <=> "busy" \in state[p]
  BY <1>1, <1>2 DEF ProcInv, TypeOK
<1>4. timeout' \in [Procs -> Times]
  BY <1>2 DEF ProcInv, TypeOK, cap_monitor_resume, Times
<1>5. QED
  BY <1>1, <1>2, <1>3, <1>4, ReturnKept DEF ProcInv, TypeOK

LEMMA Yield ==
  ASSUME ProcInv, NEW h \in Harts, cap_monitor_yield(h)
  PROVE  ProcInv'
<1> DEFINE q == call[h].of
<1>1. /\ executes(h, "yield") /\ lock' = NONE
      /\ UNCHANGED <<timeout, channels, due>>
  BY DEF cap_monitor_yield
<1>2. pc[h] \in Running /\ q \in Procs
  BY <1>1, Executing
<1>3. CASE return_to(h) /\ UNCHANGED state
  BY <1>1, <1>2, <1>3, ReturnKept DEF ProcInv, TypeOK
<1>4. CASE acquirable(state[q], q) /\ state' = [state EXCEPT ![q] = {"busy"}] /\ leave_for(h, q)
  <2>1. "busy" \notin state[q]
    BY <1>4 DEF acquirable
  <2>2. /\ state'[q] = {"busy"} /\ state' \in [Procs -> SUBSET Flags]
        /\ \A p \in Procs : state'[p] \intersect Chans \subseteq state[p]
        /\ \A p \in Procs \ {q} : "busy" \in state'[p] <=> "busy" \in state[p]
    BY <1>2, <1>4, NamesAssumption DEF ProcInv, TypeOK, Flags
  <2>3. WaitersSound' /\ WaitingServerReady'
    BY <1>1, <2>2, NoWait
  <2>4. QED
    BY <1>1, <1>2, <1>4, <2>1, <2>2, <2>3, LeaveAcquired DEF ProcInv, TypeOK
<1>5. QED
  BY <1>3, <1>4 DEF cap_monitor_yield

-----------------------------------------------------------------------------
(* The socket calls.                                                         *)

ChanRec == [server : Procs \union {NONE}, client : Procs \union {NONE}, cap_buf : Procs \union {NONE}]

LEMMA TakeReceiver ==
  ASSUME channels \in [Chans -> ChanRec], NEW p, NEW ch \in Chans
  PROVE  /\ take_receiver(p, ch) \in [Chans -> ChanRec]
         /\ \A c \in Chans : take_receiver(p, ch)[c].server = channels[c].server
                            /\ take_receiver(p, ch)[c].cap_buf = channels[c].cap_buf
BY DEF take_receiver, ChanRec

\* do_recv registers the process and puts its buffer up.
LEMMA DoRecv ==
  ASSUME NEW chs \in [Chans -> ChanRec], NEW p \in Procs, NEW ch \in Chans
  PROVE  /\ do_recv(chs, p, ch) \in [Chans -> ChanRec]
         /\ \A c \in Chans \ {ch} : do_recv(chs, p, ch)[c] = chs[c]
         /\ do_recv(chs, p, ch)[ch].cap_buf = p
         /\ do_recv(chs, p, ch)[ch].server = IF is_server(p, ch) THEN p ELSE chs[ch].server
BY DEF do_recv, is_server, ChanRec

\* Process p, on hart h, begins to wait on ch, and is registered; when it is
\* not the server, the server does not wait any more.
LEMMA Waits ==
  ASSUME ProcInv, NEW p \in Procs, NEW ch \in Chans, p \in Clients[ch] \union {Server[ch]},
         state' \in [Procs -> SUBSET Flags], state'[p] \subseteq {"busy", ch},
         \A q \in Procs \ {p} : state'[q] \intersect Chans \subseteq state[q],
         \A c \in Chans \ {ch} : channels'[c].server = channels[c].server
                                /\ channels'[c].cap_buf = channels[c].cap_buf,
         channels'[ch].server = IF is_server(p, ch) THEN p ELSE channels[ch].server,
         is_server(p, ch) => channels'[ch].cap_buf = p,
         ~is_server(p, ch) => ch \notin state'[Server[ch]]
  PROVE  WaitersSound' /\ WaitingServerReady'
<1>1. \A q \in Procs, c \in Chans : c \in state'[q] => c \in state[q] \/ (q = p /\ c = ch)
  BY NamesAssumption
<1>2. WaitersSound'
  BY <1>1 DEF ProcInv, WaitersSound, is_server
<1>3. WaitingServerReady'
  BY <1>1, ConfigAssumption DEF ProcInv, WaitingServerReady, is_server
<1>4. QED
  BY <1>2, <1>3

\* What is known of the receiver of a message.
LEMMA Receiver ==
  ASSUME ProcInv, NEW p \in Procs, NEW ch \in Chans, ipc_acquirable(receiver(p, ch), ch)
  PROVE  /\ receiver(p, ch) \in Procs /\ state[receiver(p, ch)] = {ch}
         /\ "busy" \notin state[receiver(p, ch)]
         /\ ~is_server(p, ch) => receiver(p, ch) = Server[ch]
<1>1. receiver(p, ch) \in Procs \union {NONE}
  BY DEF ProcInv, TypeOK, receiver
<1>2. ~is_server(p, ch) => receiver(p, ch) \in {NONE, Server[ch]}
  BY DEF ProcInv, WaitersSound, receiver
<1>3. QED
  BY <1>1, <1>2, NamesAssumption DEF ipc_acquirable

\* A delivery makes the receiver run or lets it go, and no process wait.
LEMMA Delivered ==
  ASSUME ProcInv, NEW r \in Procs, NEW p \in Procs, NEW ch \in Chans, state[r] = {ch}
  PROVE  /\ delivered_state(r, ch) \in [Procs -> SUBSET Flags]
         /\ delivered_timeout(r, ch, p) \in [Procs -> Times]
         /\ delivered_state(r, ch)[r] = IF Mode[ch] = "yield" THEN {"busy"} ELSE {}
         /\ \A q \in Procs \ {r} : delivered_state(r, ch)[q] = state[q]
BY DEF ProcInv, TypeOK, delivered_state, delivered_timeout, Flags, Times

LEMMA RecvTimeout ==
  ASSUME NEW t \in [Procs -> Times], NEW p \in Procs, NEW ch \in Chans
  PROVE  recv_timeout(t, p, ch) \in [Procs -> Times]
BY DEF recv_timeout, Times

LEMMA Send ==
  ASSUME ProcInv, NEW h \in Harts, cap_sock_send(h)
  PROVE  ProcInv'
<1> DEFINE p == run[h]
           ch == call[h].ch
           r == receiver(p, ch)
<1>1. /\ executes(h, "send") /\ lock' = NONE /\ UNCHANGED due
      /\ channels' = take_receiver(p, ch)
  BY DEF cap_sock_send
<1>2. pc[h] \in Running /\ p \in Procs /\ ch \in Chans
  BY <1>1, Executing
<1>3. /\ channels' \in [Chans -> ChanRec]
      /\ \A c \in Chans : channels'[c].server = channels[c].server
                         /\ channels'[c].cap_buf = channels[c].cap_buf
  BY <1>1, <1>2, TakeReceiver DEF ProcInv, TypeOK, ChanRec
<1>4. CASE return_to(h) /\ UNCHANGED <<state, timeout>>
  BY <1>1, <1>2, <1>3, <1>4, ReturnKept DEF ProcInv, TypeOK, ChanRec
<1>5. CASE /\ ipc_acquirable(r, ch)
           /\ state' = delivered_state(r, ch) /\ timeout' = delivered_timeout(r, ch, p)
           /\ \/ Mode[ch] = "yield" /\ leave_for(h, r)
              \/ Mode[ch] = "noyield" /\ return_to(h)
  <2>1. r \in Procs /\ state[r] = {ch} /\ "busy" \notin state[r]
    BY <1>2, <1>5, Receiver
  <2>2. /\ state' \in [Procs -> SUBSET Flags] /\ timeout' \in [Procs -> Times]
        /\ state'[r] = IF Mode[ch] = "yield" THEN {"busy"} ELSE {}
        /\ \A q \in Procs \ {r} : state'[q] = state[q]
    BY <1>2, <1>5, <2>1, Delivered
  <2>3. \A q \in Procs : state'[q] \intersect Chans \subseteq state[q]
    BY <2>1, <2>2, NamesAssumption
  <2>4. CASE Mode[ch] = "yield" /\ leave_for(h, r)
    <3>1. WaitersSound' /\ WaitingServerReady'
      BY <1>3, <2>3, NoWait
    <3>2. QED
      BY <1>1, <1>2, <1>3, <2>1, <2>2, <2>3, <2>4, <3>1, LeaveAcquired DEF ChanRec
  <2>5. CASE Mode[ch] = "noyield" /\ return_to(h)
    <3>1. "busy" \notin state'[r]
      BY <2>2, <2>5
    <3>2. QED
      BY <1>1, <1>2, <1>3, <2>1, <2>2, <2>3, <2>5, <3>1, ReturnKept DEF ChanRec
  <2>6. QED
    BY <1>5, <2>4, <2>5
<1>6. QED
  BY <1>4, <1>5 DEF cap_sock_send

LEMMA Recv ==
  ASSUME ProcInv, NEW h \in Harts, cap_sock_recv(h)
  PROVE  ProcInv'
<1> DEFINE p == run[h]
           ch == call[h].ch
           s == channels[ch].server
<1>1. executes(h, "recv") /\ lock' = NONE /\ UNCHANGED due
  BY DEF cap_sock_recv
<1>2. /\ pc[h] \in Running /\ p \in Procs /\ ch \in Chans /\ "busy" \in state[p]
      /\ p \in Clients[ch] \union {Server[ch]}
  <2>1. /\ pc[h] \in Running /\ p \in Procs /\ ch \in Chans /\ "busy" \in state[p]
        /\ call[h].op \in {"recv", "sendrecv"} /\ MayCall(p, call[h])
    BY <1>1, Executing
  <2>2. QED
    BY <2>1 DEF MayCall
<1>3. CASE /\ is_server(p, ch) /\ channels' = do_recv(channels, p, ch)
           /\ state' = [state EXCEPT ![p] = {"busy", ch}]
           /\ timeout' = recv_timeout(timeout, p, ch) /\ leave_for(h, NONE)
  <2>1. /\ state' \in [Procs -> SUBSET Flags] /\ state'[p] = {"busy", ch}
        /\ \A q \in Procs \ {p} : state'[q] = state[q]
    BY <1>2, <1>3 DEF ProcInv, TypeOK, Flags
  <2>2. /\ channels' \in [Chans -> ChanRec]
        /\ \A c \in Chans \ {ch} : channels'[c] = channels[c]
        /\ channels'[ch].cap_buf = p /\ channels'[ch].server = p
    BY <1>2, <1>3, DoRecv DEF ProcInv, TypeOK, ChanRec
  <2>3. WaitersSound' /\ WaitingServerReady'
    BY <1>2, <1>3, <2>1, <2>2, Waits
  <2>4. timeout' \in [Procs -> Times]
    BY <1>2, <1>3, RecvTimeout DEF ProcInv, TypeOK
  <2>5. QED
    BY <1>1, <1>2, <1>3, <2>1, <2>2, <2>3, <2>4, LeaveKept DEF ChanRec
<1>4. CASE /\ ~is_server(p, ch) /\ s # NONE /\ Mode[ch] = "yield" /\ acquirable(state[s], s)
           /\ channels' = [channels EXCEPT ![ch].cap_buf = p]
           /\ state' = [state EXCEPT ![p] = {"busy", ch}, ![s] = {"busy"}]
           /\ timeout' = [timeout EXCEPT ![s] = timeout[p]] /\ leave_for(h, s)
  <2>1. s \in Procs /\ s = Server[ch] /\ "busy" \notin state[s] /\ s # p
    BY <1>2, <1>4, ConfigAssumption DEF ProcInv, WaitersSound, acquirable
  <2>2. /\ state' \in [Procs -> SUBSET Flags] /\ state'[p] = {"busy", ch} /\ state'[s] = {"busy"}
        /\ \A q \in Procs \ {p, s} : state'[q] = state[q]
    BY <1>2, <1>4, <2>1 DEF ProcInv, TypeOK, Flags
  <2>3. /\ channels' \in [Chans -> ChanRec]
        /\ \A c \in Chans \ {ch} : channels'[c] = channels[c]
        /\ channels'[ch].server = channels[ch].server
    BY <1>2, <1>4 DEF ProcInv, TypeOK, ChanRec
  <2>4. WaitersSound' /\ WaitingServerReady'
    BY <1>2, <1>4, <2>1, <2>2, <2>3, NamesAssumption, Waits
  <2>5. timeout' \in [Procs -> Times]
    BY <1>2, <1>4, <2>1 DEF ProcInv, TypeOK
  <2>6. QED
    BY <1>1, <1>2, <1>4, <2>1, <2>2, <2>3, <2>4, <2>5, LeaveAcquired DEF ChanRec
<1>5. QED
  BY <1>3, <1>4, Zenon DEF cap_sock_recv

LEMMA SendRecv ==
  ASSUME ProcInv, NEW h \in Harts, cap_sock_sendrecv(h)
  PROVE  ProcInv'
<1> DEFINE p == run[h]
           ch == call[h].ch
           r == receiver(p, ch)
           taken == take_receiver(p, ch)
<1>1. executes(h, "sendrecv") /\ lock' = NONE /\ UNCHANGED due
  BY DEF cap_sock_sendrecv
<1>2. /\ pc[h] \in Running /\ p \in Procs /\ ch \in Chans /\ "busy" \in state[p]
      /\ p \in Clients[ch] \union {Server[ch]}
  <2>1. /\ pc[h] \in Running /\ p \in Procs /\ ch \in Chans /\ "busy" \in state[p]
        /\ call[h].op \in {"recv", "sendrecv"} /\ MayCall(p, call[h])
    BY <1>1, Executing
  <2>2. QED
    BY <2>1 DEF MayCall
<1>3. /\ taken \in [Chans -> ChanRec]
      /\ \A c \in Chans : taken[c].server = channels[c].server /\ taken[c].cap_buf = channels[c].cap_buf
  BY <1>2, TakeReceiver DEF ProcInv, TypeOK, ChanRec
<1> HIDE DEF taken
<1>4. /\ do_recv(taken, p, ch) \in [Chans -> ChanRec]
      /\ \A c \in Chans \ {ch} : do_recv(taken, p, ch)[c].server = channels[c].server
                               /\ do_recv(taken, p, ch)[c].cap_buf = channels[c].cap_buf
      /\ do_recv(taken, p, ch)[ch].cap_buf = p
      /\ do_recv(taken, p, ch)[ch].server = IF is_server(p, ch) THEN p ELSE channels[ch].server
  BY <1>2, <1>3, DoRecv
<1>5. CASE leave_for(h, NONE) /\ UNCHANGED <<state, timeout, channels>>
  BY <1>1, <1>2, <1>5, Leaves DEF ProcInv, TypeOK
<1>6. CASE /\ is_server(p, ch) /\ channels' = do_recv(taken, p, ch)
           /\ state' = [state EXCEPT ![p] = {"busy", ch}]
           /\ timeout' = recv_timeout(timeout, p, ch) /\ leave_for(h, NONE)
  <2>1. /\ state' \in [Procs -> SUBSET Flags] /\ state'[p] = {"busy", ch}
        /\ \A q \in Procs \ {p} : state'[q] = state[q]
    BY <1>2, <1>6 DEF ProcInv, TypeOK, Flags
  <2>2. WaitersSound' /\ WaitingServerReady'
    BY <1>2, <1>4, <1>6, <2>1, Waits
  <2>3. timeout' \in [Procs -> Times]
    BY <1>2, <1>6, RecvTimeout DEF ProcInv, TypeOK
  <2>4. QED
    BY <1>1, <1>2, <1>4, <1>6, <2>1, <2>2, <2>3, LeaveKept DEF ChanRec
<1>7. CASE /\ ipc_acquirable(r, ch) /\ channels' = do_recv(taken, p, ch)
           /\ state' = [delivered_state(r, ch) EXCEPT ![p] = {"busy", ch}]
           /\ timeout' = recv_timeout(delivered_timeout(r, ch, p), p, ch)
           /\ leave_for(h, IF Mode[ch] = "yield" THEN r ELSE NONE)
  <2>1. /\ r \in Procs /\ state[r] = {ch} /\ "busy" \notin state[r] /\ r # p
        /\ ~is_server(p, ch) => r = Server[ch]
    BY <1>2, <1>7, Receiver
  <2>2. /\ delivered_state(r, ch) \in [Procs -> SUBSET Flags]
        /\ delivered_timeout(r, ch, p) \in [Procs -> Times]
        /\ delivered_state(r, ch)[r] = IF Mode[ch] = "yield" THEN {"busy"} ELSE {}
        /\ \A q \in Procs \ {r} : delivered_state(r, ch)[q] = state[q]
    BY <1>2, <2>1, Delivered
  <2>3. /\ state' \in [Procs -> SUBSET Flags] /\ state'[p] = {"busy", ch}
        /\ state'[r] = IF Mode[ch] = "yield" THEN {"busy"} ELSE {}
        /\ \A q \in Procs \ {p, r} : state'[q] = state[q]
    BY <1>2, <1>7, <2>1, <2>2 DEF Flags
  <2>4. timeout' \in [Procs -> Times]
    BY <1>2, <1>7, <2>2, RecvTimeout
  <2>5. ch \notin state'[r] /\ \A q \in Procs \ {p} : state'[q] \intersect Chans \subseteq state[q]
    BY <1>2, <2>1, <2>3, NamesAssumption
  <2>6. WaitersSound' /\ WaitingServerReady'
    BY <1>2, <1>4, <1>7, <2>1, <2>3, <2>5, Waits
  <2>7. CASE Mode[ch] = "yield"
    BY <1>1, <1>2, <1>4, <1>7, <2>1, <2>3, <2>4, <2>5, <2>6, <2>7, LeaveAcquired DEF ChanRec
  <2>8. CASE Mode[ch] # "yield"
    BY <1>1, <1>2, <1>4, <1>7, <2>1, <2>3, <2>4, <2>5, <2>6, <2>8, LeaveKept DEF ChanRec
  <2>9. QED
    BY <2>7, <2>8
<1>8. QED
  BY <1>5, <1>6, <1>7, Zenon DEF cap_sock_sendrecv, taken

-----------------------------------------------------------------------------
LEMMA InitInv == Init => ProcInv
<1> SUFFICES ASSUME Init PROVE ProcInv
  OBVIOUS
<1>1. PICK started \in Builds : pc = [h \in Harts |-> IF h \in started THEN "sched" ELSE "off"]
  BY DEF Init, hart_start
<1>2. Started = started /\ started \subseteq Harts
  BY <1>1, ConfigAssumption DEF Started
<1>3. TypeOK
  BY <1>1, ConfigAssumption DEF Init, TypeOK, Flags, Times
<1>4. \A h \in Harts : HartSound(h) /\ Holds(h) = {}
  BY <1>1, <1>3, ConfigAssumption DEF Init, HartSound, Holds
<1>5. OneHart
  BY <1>4 DEF Init, OneHart
<1>6. WaitersSound /\ WaitingServerReady
  BY ConfigAssumption, NamesAssumption DEF Init, WaitersSound, WaitingServerReady
<1>7. QED
  BY <1>1, <1>2, <1>3, <1>4, <1>5, <1>6 DEF ProcInv

LEMMA StepInv ==
  ASSUME SafeSuspends, ProcInv, [Next]_vars
  PROVE  ProcInv'
<1>1. ASSUME NEW p \in Procs, expire(p) PROVE ProcInv'
  BY <1>1, Expire
<1>2. ASSUME NEW h \in Harts, NEW p \in Procs, sched_load(h, p) PROVE ProcInv'
  BY <1>2, SchedLoad
<1>3. ASSUME NEW h \in Harts, NEW c \in Calls, syscall_handler(h, c) PROVE ProcInv'
  BY <1>3, Syscall
<1>4. ASSUME NEW h \in Harts,
             \/ timer(h) \/ sched_exchange(h) \/ proc_release(h)
             \/ interrupt_handler(h) \/ handle_sync(h) \/ handle_sleep(h)
             \/ lock_preempted(h) \/ taslock_acquire(h)
      PROVE  ProcInv'
  BY <1>4, Timer, Exchange, Release, Interrupt, SyncSleep, Lock
<1>5. ASSUME NEW h \in Harts,
             \/ cap_monitor_suspend(h) \/ suspend_store(h)
             \/ cap_monitor_resume(h) \/ cap_monitor_yield(h)
             \/ sock_preempted(h) \/ sock_refused(h)
             \/ cap_sock_send(h) \/ cap_sock_recv(h) \/ cap_sock_sendrecv(h)
      PROVE  ProcInv'
  BY <1>5, Suspend, SuspendStore, Resume, Yield, Interrupt, Send, Recv, SendRecv
<1>6. CASE UNCHANGED vars
  <2>1. timeout' \in [Procs -> Times] /\ due' \in [Harts -> BOOLEAN]
    BY <1>6 DEF ProcInv, TypeOK, vars
  <2>2. QED
    BY <1>6, <2>1, Time DEF vars, hartVars
<1>7. QED
  BY <1>1, <1>2, <1>3, <1>4, <1>5, <1>6, Zenon DEF Next

\* A process is on at most one hart and is marked busy exactly while it is on
\* one (proc_acquire, proc_release, proc_ipc_acquire), for any harts,
\* processes, channels and capabilities, as long as processes that wait are
\* suspended only where one hart runs.
THEOREM OneHartHolds ==
  ASSUME SafeSuspends
  PROVE  Spec => []OneHart
<1>1. Init => ProcInv
  BY InitInv
<1>2. ProcInv /\ [Next]_vars => ProcInv'
  BY StepInv
<1>3. ProcInv => OneHart
  BY DEF ProcInv
<1>4. QED
  BY <1>1, <1>2, <1>3, PTL DEF Spec

\* The assertion of proc_release holds under the same condition.
THEOREM ReleaseAssertedHolds ==
  ASSUME SafeSuspends
  PROVE  Spec => []ReleaseAsserted
<1>1. Init => ProcInv
  BY InitInv
<1>2. ProcInv /\ [Next]_vars => ProcInv'
  BY StepInv
<1>3. ProcInv => ReleaseAsserted
  BY DEF ProcInv, TypeOK, OneHart, ReleaseAsserted, Holds
<1>4. QED
  BY <1>1, <1>2, <1>3, PTL DEF Spec

\* A server that waits is registered and its buffer is the channel's (do_recv).
THEOREM WaitingServerReadyHolds ==
  ASSUME SafeSuspends
  PROVE  Spec => []WaitingServerReady
<1>1. Init => ProcInv
  BY InitInv
<1>2. ProcInv /\ [Next]_vars => ProcInv'
  BY StepInv
<1>3. ProcInv => WaitingServerReady
  BY DEF ProcInv
<1>4. QED
  BY <1>1, <1>2, <1>3, PTL DEF Spec

-----------------------------------------------------------------------------
(* Clients on one hart.                                                      *)

\* A process that does not wait needs nothing.
LEMMA Idle ==
  ASSUME NEW p \in Procs, state'[p] \intersect Chans = {}
  PROVE  ClientOk(p)'
BY DEF ClientOk

\* The calls of the harts that are between the stores of proc_suspend go on.
SuspendsKept == \A g \in Harts : pc[g] = "suspend" => pc'[g] = "suspend" /\ call'[g] = call[g]

\* A process whose state word stays, whose timeout does not become infinite
\* and whose registrations stay, is as well off as before.
LEMMA Same ==
  ASSUME NEW p \in Procs, ClientOk(p), state'[p] = state[p] \/ state'[p] = state[p] \ {"busy"},
         timeout'[p] = "never" => timeout[p] = "never", SuspendsKept,
         \A ch \in Chans : channels[ch].client = p => channels'[ch].client = p
  PROVE  ClientOk(p)'
<1>1. \A ch \in Chans : ch \in state'[p] => ch \in state[p]
  OBVIOUS
<1>2. state'[p] \intersect Chans = state[p] \intersect Chans
  BY NamesAssumption
<1>3. "suspended" \in state'[p] <=> "suspended" \in state[p]
  OBVIOUS
<1>4. QED
  BY <1>1, <1>2, <1>3 DEF ClientOk, SuspendsKept

\* The steps that do not concern those who wait.
LEMMA ClientQuiet ==
  ASSUME ProcInv, ClientInv, Cardinality(Started) = 1, SuspendsKept, UNCHANGED channels,
         \A p \in Procs :
           \/ state'[p] \intersect Chans = {}
           \/ /\ state'[p] = state[p] \/ state'[p] = state[p] \ {"busy"}
              /\ timeout'[p] = "never" => timeout[p] = "never"
  PROVE  \A p \in Procs : ClientOk(p)'
<1> SUFFICES ASSUME NEW p \in Procs PROVE ClientOk(p)'
  OBVIOUS
<1>1. CASE state'[p] \intersect Chans = {}
  BY <1>1, Idle
<1>2. CASE /\ state'[p] = state[p] \/ state'[p] = state[p] \ {"busy"}
           /\ timeout'[p] = "never" => timeout[p] = "never"
  BY <1>2, Same DEF ClientInv
<1>3. QED
  BY <1>1, <1>2

\* Where one hart runs, a process that it does not hold is not busy.
LEMMA Alone ==
  ASSUME ProcInv, Cardinality(Started) = 1, NEW h \in Harts, pc[h] # "off",
         NEW p \in Procs, p \notin Holds(h)
  PROVE  "busy" \notin state[p]
<1> SUFFICES ASSUME NEW g \in Harts, p \in Holds(g) PROVE FALSE
  BY DEF ProcInv, OneHart
<1>1. g \in Started /\ h \in Started
  BY ConfigAssumption DEF Started, Holds, ProcInv, HartSound
<1>2. g = h
  BY <1>1, OneStarted DEF ProcInv
<1>3. QED
  BY <1>2

\* Where one hart runs and does not execute the stores of proc_suspend, no
\* process that waits is marked suspended.
LEMMA NotSuspended ==
  ASSUME ProcInv, ClientInv, Cardinality(Started) = 1, NEW h \in Harts, pc[h] \notin {"off", "suspend"},
         NEW p \in Procs, state[p] \intersect Chans # {}
  PROVE  "suspended" \notin state[p]
<1> SUFFICES ASSUME NEW g \in Harts, pc[g] = "suspend" PROVE FALSE
  BY DEF ClientInv, ClientOk
<1>1. g \in Started /\ h \in Started
  BY DEF Started
<1>2. QED
  BY <1>1, OneStarted DEF ProcInv

\* After a server took its client off the channel, the client runs, or was not
\* waiting for it.
LEMMA Taken ==
  ASSUME ProcInv, ClientInv, SoleClients, Cardinality(Started) = 1,
         NEW h \in Harts, pc[h] = "handler", NEW ch \in Chans, is_server(run[h], ch),
         NEW p \in Procs, ch \in state[p], p \in Clients[ch], timeout[p] = "never", p # run[h]
  PROVE  ipc_acquirable(receiver(run[h], ch), ch) /\ receiver(run[h], ch) = p
<1>1. Holds(h) = {run[h]}
  BY DEF ProcInv, HartSound, Holds
<1>2. "busy" \notin state[p] /\ "suspended" \notin state[p]
  BY <1>1, Alone, NotSuspended
<1>3. state[p] \intersect Chans = {ch} /\ channels[ch].client = p
  BY <1>2 DEF ClientInv, ClientOk
<1>4. state[p] = {ch}
  BY <1>2, <1>3 DEF ProcInv, TypeOK, Flags
<1>5. QED
  BY <1>3, <1>4, ConfigAssumption DEF ipc_acquirable, receiver

\* A process that goes on waiting is as well off as before when its
\* registration stays.
LEMMA GoesOn ==
  ASSUME NEW p \in Procs, ClientOk(p), state'[p] = state[p], SuspendsKept,
         \A ch \in Chans : ch \in state[p] /\ "suspended" \notin state[p] /\ p \in Clients[ch]
                           /\ timeout'[p] = "never" => channels'[ch].client = p
  PROVE  ClientOk(p)'
BY DEF ClientOk, SuspendsKept

\* Every step of a hart moves that hart, and starts or stops none.
Moves(h) == pc[h] # "off" /\ \E x \in Phases \ {"off"} : pc' = [pc EXCEPT ![h] = x]

LEMMA Goes ==
  ASSUME NEW h \in Harts, pc[h] # "off", return_to(h) \/ (\E n : leave_for(h, n))
  PROVE  Moves(h)
BY DEF return_to, leave_for, Moves, Phases

LEMMA Moved ==
  ASSUME ProcInv, NEW h \in Harts,
         \/ sched_exchange(h) \/ proc_release(h)
         \/ interrupt_handler(h) \/ handle_sync(h) \/ handle_sleep(h)
         \/ lock_preempted(h) \/ taslock_acquire(h)
         \/ cap_monitor_suspend(h) \/ suspend_store(h)
         \/ cap_monitor_resume(h) \/ cap_monitor_yield(h)
         \/ sock_preempted(h) \/ sock_refused(h)
         \/ cap_sock_send(h) \/ cap_sock_recv(h) \/ cap_sock_sendrecv(h)
  PROVE  Moves(h)
<1>1. CASE sched_exchange(h) \/ proc_release(h) \/ taslock_acquire(h)
  BY <1>1 DEF sched_exchange, proc_release, taslock_acquire, Moves, Phases
<1>2. CASE interrupt_handler(h) \/ handle_sync(h) \/ handle_sleep(h) \/ lock_preempted(h)
           \/ suspend_store(h)
  BY <1>2, Goes DEF interrupt_handler, handle_sync, handle_sleep, lock_preempted, suspend_store
<1>3. CASE cap_monitor_suspend(h)
  <2>1. pc[h] # "off" /\ (return_to(h) \/ pc' = [pc EXCEPT ![h] = "suspend"])
    BY <1>3 DEF cap_monitor_suspend, executes
  <2>2. QED
    BY <2>1, Goes DEF Moves, Phases
<1>4. CASE cap_monitor_resume(h) \/ cap_monitor_yield(h) \/ sock_preempted(h) \/ sock_refused(h)
  BY <1>4, Goes DEF cap_monitor_resume, cap_monitor_yield, sock_preempted, sock_refused, executes
<1>5. CASE cap_sock_send(h) \/ cap_sock_recv(h) \/ cap_sock_sendrecv(h)
  <2>1. pc[h] # "off"
    BY <1>5 DEF cap_sock_send, cap_sock_recv, cap_sock_sendrecv, executes
  <2>2. return_to(h) \/ \E n : leave_for(h, n)
    BY <1>5, Zenon DEF cap_sock_send, cap_sock_recv, cap_sock_sendrecv
  <2>3. QED
    BY <2>1, <2>2, Goes
<1>6. QED
  BY <1>1, <1>2, <1>3, <1>4, <1>5

LEMMA StartedStep ==
  ASSUME ProcInv, [Next]_vars
  PROVE  Started' = Started
<1>1. ASSUME NEW h \in Harts, Moves(h) PROVE Started' = Started
  BY <1>1, StartedKept DEF Moves, ProcInv
<1>2. CASE UNCHANGED pc
  BY <1>2 DEF Started
<1>3. ASSUME NEW h \in Harts, NEW p \in Procs, sched_load(h, p) PROVE Moves(h)
  BY <1>3 DEF sched_load, Moves, Phases
<1>4. ASSUME NEW h \in Harts, NEW c \in Calls, syscall_handler(h, c) PROVE Moves(h)
  BY <1>4 DEF syscall_handler, Moves, Phases
<1>5. ASSUME NEW h \in Harts, timer(h) PROVE Started' = Started
  BY <1>2, <1>5 DEF timer, hartVars
<1>6. ASSUME NEW p \in Procs, expire(p) PROVE Started' = Started
  BY <1>2, <1>6 DEF expire, hartVars
<1>7. CASE UNCHANGED vars
  BY <1>2, <1>7 DEF vars
<1>8. QED
  BY <1>1, <1>3, <1>4, <1>5, <1>6, <1>7, Moved, Zenon DEF Next

\* What a step of a hart leaves alone while it is not in proc_suspend.
LEMMA NoStore ==
  ASSUME ProcInv, NEW h \in Harts, pc[h] # "suspend", Moves(h),
         \A g \in Harts \ {h} : call'[g] = call[g]
  PROVE  SuspendsKept
BY DEF SuspendsKept, Moves, ProcInv, TypeOK

\* The steps outside the handlers, and the calls that change no channel.
LEMMA ClientTimes ==
  ASSUME ProcInv, ClientInv, Cardinality(Started) = 1,
         (\E h \in Harts : timer(h)) \/ (\E p \in Procs : expire(p)) \/ UNCHANGED vars
  PROVE  \A p \in Procs : ClientOk(p)'
<1>1. SuspendsKept /\ UNCHANGED <<state, channels>>
  BY DEF timer, expire, vars, hartVars, SuspendsKept
<1>2. \A p \in Procs : timeout'[p] = "never" => timeout[p] = "never"
  BY DEF timer, expire, vars, ProcInv, TypeOK
<1>3. QED
  BY <1>1, <1>2, ClientQuiet

LEMMA ClientSched ==
  ASSUME ProcInv, ClientInv, Cardinality(Started) = 1, NEW h \in Harts,
         \/ \E p \in Procs : sched_load(h, p)
         \/ \E c \in Calls : syscall_handler(h, c)
         \/ taslock_acquire(h)
  PROVE  \A p \in Procs : ClientOk(p)'
<1>1. SuspendsKept /\ UNCHANGED <<state, channels, timeout>>
  BY DEF sched_load, syscall_handler, taslock_acquire, SuspendsKept, ProcInv, TypeOK
<1>2. QED
  BY <1>1, ClientQuiet

LEMMA CallsKept ==
  ASSUME ProcInv, NEW h \in Harts, return_to(h) \/ (\E n : leave_for(h, n)), pc[h] \notin {"off", "suspend"}
  PROVE  SuspendsKept
<1>1. \A g \in Harts \ {h} : call'[g] = call[g]
  BY DEF return_to, leave_for, ProcInv, TypeOK
<1>2. QED
  BY <1>1, Goes, NoStore

LEMMA ClientExchange ==
  ASSUME ProcInv, ClientInv, Cardinality(Started) = 1, NEW h \in Harts, sched_exchange(h)
  PROVE  \A p \in Procs : ClientOk(p)'
<1>1. SuspendsKept /\ UNCHANGED channels
  BY Moved, NoStore DEF sched_exchange
<1>2. run[h] \in Procs
  BY DEF sched_exchange, ProcInv, TypeOK
<1>3. \A p \in Procs : state'[p] = {"busy"} \/ (state'[p] = state[p] /\ timeout'[p] = timeout[p])
  BY <1>2 DEF sched_exchange, ProcInv, TypeOK
<1>4. QED
  BY <1>1, <1>3, ClientQuiet, NamesAssumption

LEMMA ClientRelease ==
  ASSUME ProcInv, ClientInv, Cardinality(Started) = 1, NEW h \in Harts, proc_release(h)
  PROVE  \A p \in Procs : ClientOk(p)'
<1>1. SuspendsKept /\ UNCHANGED channels
  BY Moved, NoStore DEF proc_release
<1>2. run[h] \in Procs /\ run[h] \in Holds(h)
  BY DEF proc_release, ProcInv, TypeOK, Holds
<1>3. "busy" \in state[run[h]]
  BY <1>2 DEF ProcInv, OneHart
<1>4. \A p \in Procs : state'[p] = state[p] \/ state'[p] = state[p] \ {"busy"}
  BY <1>2, <1>3 DEF proc_release, ProcInv, TypeOK
<1>5. \A p \in Procs : timeout'[p] = "never" => timeout[p] = "never"
  BY DEF proc_release, ProcInv, TypeOK
<1>6. QED
  BY <1>1, <1>4, <1>5, ClientQuiet

LEMMA ClientLeaves ==
  ASSUME ProcInv, ClientInv, Cardinality(Started) = 1, NEW h \in Harts,
         \/ interrupt_handler(h) \/ handle_sync(h) \/ handle_sleep(h) \/ lock_preempted(h)
         \/ sock_preempted(h) \/ sock_refused(h)
  PROVE  \A p \in Procs : ClientOk(p)'
<1>1. /\ pc[h] \in {"user", "lock", "handler"} /\ UNCHANGED <<state, channels>>
      /\ return_to(h) \/ \E n : leave_for(h, n)
  BY DEF interrupt_handler, handle_sync, handle_sleep, lock_preempted, sock_preempted, sock_refused,
         executes
<1>2. SuspendsKept
  BY <1>1, CallsKept
<1>3. run[h] \in Procs /\ state[run[h]] \intersect Chans = {}
  BY <1>1 DEF ProcInv, TypeOK, HartSound
<1>4. \A p \in Procs : p # run[h] => timeout'[p] = timeout[p]
  BY <1>3 DEF interrupt_handler, handle_sync, handle_sleep, lock_preempted, sock_preempted,
              sock_refused, ProcInv, TypeOK
<1>5. QED
  BY <1>1, <1>2, <1>3, <1>4, ClientQuiet

LEMMA ClientSuspend ==
  ASSUME ProcInv, ClientInv, Cardinality(Started) = 1, NEW h \in Harts, cap_monitor_suspend(h)
  PROVE  \A p \in Procs : ClientOk(p)'
<1>1. executes(h, "suspend")
  BY DEF cap_monitor_suspend
<1>2. PICK q \in Procs : q = call[h].of
  BY <1>1, Executing
<1>3. /\ executes(h, "suspend") /\ pc[h] = "handler" /\ UNCHANGED <<timeout, channels>>
      /\ state' = [state EXCEPT ![q] = @ \union {"suspended"}]
  BY <1>2 DEF cap_monitor_suspend, executes
<1>4. SuspendsKept
  <2>1. CASE return_to(h)
    BY <1>3, <2>1, CallsKept
  <2>2. CASE UNCHANGED call
    BY <1>3, <2>2, Moved, NoStore
  <2>3. QED
    BY <2>1, <2>2 DEF cap_monitor_suspend
<1>5. ASSUME NEW p \in Procs, p # q PROVE ClientOk(p)'
  BY <1>2, <1>3, <1>4, <1>5, Same DEF ClientInv, ProcInv, TypeOK
<1>6. state'[q] = state[q] \union {"suspended"} /\ state'[q] \intersect Chans = state[q] \intersect Chans
  BY <1>2, <1>3, NamesAssumption DEF ProcInv, TypeOK
<1>7. CASE state[q] \intersect Chans = {}
  BY <1>2, <1>5, <1>6, <1>7, Idle
<1>8. CASE state[q] \intersect Chans # {}
  <2>1. pc'[h] = "suspend" /\ call'[h] = call[h]
    BY <1>2, <1>8 DEF cap_monitor_suspend, ProcInv, TypeOK
  <2>2. ClientOk(q)'
    BY <1>2, <1>6, <2>1 DEF ClientInv, ClientOk
  <2>3. QED
    BY <1>5, <2>2
<1>9. QED
  BY <1>7, <1>8

LEMMA ClientStore ==
  ASSUME ProcInv, ClientInv, Cardinality(Started) = 1, NEW h \in Harts, suspend_store(h)
  PROVE  \A p \in Procs : ClientOk(p)'
<1>1. PICK q \in Procs : q = call[h].of
  BY Executing DEF suspend_store
<1>2. /\ pc[h] = "suspend" /\ return_to(h) /\ UNCHANGED <<timeout, channels>>
      /\ state' = [state EXCEPT ![q] = {"suspended"}]
  BY <1>1 DEF suspend_store
<1>3. \A g \in Harts : pc[g] = "suspend" => g = h
  BY <1>2, OneStarted DEF ProcInv, Started
<1>4. ASSUME NEW p \in Procs, p # q PROVE ClientOk(p)'
  <2>1. state'[p] = state[p]
    BY <1>1, <1>2, <1>4 DEF ProcInv, TypeOK
  <2>2. \A ch \in Chans : ch \in state[p] => "suspended" \notin state[p]
    BY <1>1, <1>3, <1>4 DEF ClientInv, ClientOk
  <2>3. QED
    BY <1>2, <2>1, <2>2 DEF ClientInv, ClientOk
<1>5. ClientOk(q)'
  BY <1>1, <1>2, NamesAssumption, Idle DEF ProcInv, TypeOK
<1>6. QED
  BY <1>4, <1>5

LEMMA ClientResume ==
  ASSUME ProcInv, ClientInv, Cardinality(Started) = 1, NEW h \in Harts,
         cap_monitor_resume(h) \/ cap_monitor_yield(h)
  PROVE  \A p \in Procs : ClientOk(p)'
<1> DEFINE q == call[h].of
<1>1. /\ executes(h, "resume") \/ executes(h, "yield")
      /\ pc[h] = "handler" /\ UNCHANGED channels
      /\ return_to(h) \/ \E n : leave_for(h, n)
  BY DEF cap_monitor_resume, cap_monitor_yield, executes
<1>2. SuspendsKept /\ q \in Procs
  BY <1>1, CallsKept, Executing
<1>3. \A p \in Procs : p # q => state'[p] = state[p] /\ timeout'[p] = timeout[p]
  BY <1>2 DEF cap_monitor_resume, cap_monitor_yield, ProcInv, TypeOK
<1>4. CASE cap_monitor_resume(h)
  <2>1. state'[q] = state[q] \ {"suspended"}
    BY <1>2, <1>4 DEF cap_monitor_resume, ProcInv, TypeOK
  <2>2. timeout'[q] = "never" => timeout[q] = "never"
    BY <1>2, <1>4 DEF cap_monitor_resume, ProcInv, TypeOK
  <2>3. state[q] \intersect Chans # {} => "suspended" \notin state[q]
    BY <1>1, <1>2, NotSuspended
  <2>4. QED
    BY <1>1, <1>2, <1>3, <2>1, <2>2, <2>3, ClientQuiet
<1>5. CASE cap_monitor_yield(h)
  <2>1. UNCHANGED timeout /\ (state'[q] = {"busy"} \/ state'[q] = state[q])
    BY <1>2, <1>5 DEF cap_monitor_yield, ProcInv, TypeOK
  <2>2. QED
    BY <1>1, <1>2, <1>3, <2>1, ClientQuiet, NamesAssumption
<1>6. QED
  BY <1>4, <1>5

\* A process other than the caller and the receiver goes on waiting: the
\* caller, as a server, takes only the receiver off the channel and, as a
\* client, replaces nobody else.
LEMMA Bystander ==
  ASSUME ProcInv, ClientInv, SoleClients, Cardinality(Started) = 1, NEW h \in Harts,
         pc[h] = "handler", run[h] \in Procs, NEW ch \in Chans, SuspendsKept,
         run[h] \in Clients[ch] \/ channels'[ch].client = channels[ch].client \/ is_server(run[h], ch),
         \A c \in Chans \ {ch} : channels'[c].client = channels[c].client,
         NEW p \in Procs, p # run[h], state'[p] = state[p], timeout'[p] = timeout[p],
         ~(ipc_acquirable(receiver(run[h], ch), ch) /\ receiver(run[h], ch) = p)
         \/ channels'[ch].client = channels[ch].client
  PROVE  ClientOk(p)'
<1> SUFFICES ASSUME NEW c \in Chans, c \in state[p], "suspended" \notin state[p], p \in Clients[c],
                    timeout[p] = "never"
             PROVE  channels'[c].client = p
  BY GoesOn DEF ClientInv
<1>1. channels[c].client = p
  BY DEF ClientInv, ClientOk
<1>2. CASE c # ch \/ channels'[ch].client = channels[ch].client
  BY <1>1, <1>2
<1>3. CASE c = ch /\ is_server(run[h], ch) /\ channels'[ch].client # channels[ch].client
  BY <1>3, Taken
<1>4. CASE c = ch /\ ~is_server(run[h], ch) /\ channels'[ch].client # channels[ch].client
  BY <1>4 DEF SoleClients, is_server
<1>5. QED
  BY <1>2, <1>3, <1>4

\* What the socket calls do to the registered clients.
LEMMA TakeClient ==
  ASSUME channels \in [Chans -> ChanRec], NEW p, NEW ch \in Chans
  PROVE  \A c \in Chans : (c # ch \/ ~is_server(p, ch)) =>
                              take_receiver(p, ch)[c].client = channels[c].client
BY DEF take_receiver, ChanRec

LEMMA RecvClient ==
  ASSUME NEW chs \in [Chans -> ChanRec], NEW p \in Procs, NEW ch \in Chans
  PROVE  /\ \A c \in Chans : (c # ch \/ is_server(p, ch)) =>
                              do_recv(chs, p, ch)[c].client = chs[c].client
         /\ ~is_server(p, ch) => do_recv(chs, p, ch)[ch].client = p
BY DEF do_recv, ChanRec

\* The caller, which may be about to wait.
LEMMA Caller ==
  ASSUME NEW p \in Procs, NEW ch \in Chans,
         \/ state'[p] \intersect Chans = {}
         \/ state'[p] = {"busy", ch} /\ (p \notin Clients[ch] \/ channels'[ch].client = p)
  PROVE  ClientOk(p)'
<1>1. CASE state'[p] \intersect Chans = {}
  BY <1>1, Idle
<1>2. CASE state'[p] = {"busy", ch} /\ (p \notin Clients[ch] \/ channels'[ch].client = p)
  <2>1. state'[p] \intersect Chans = {ch} /\ "suspended" \notin state'[p]
    BY <1>2, NamesAssumption
  <2>2. \A c \in Chans : c \in state'[p] => c = ch
    BY <2>1
  <2>3. QED
    BY <1>2, <2>1, <2>2 DEF ClientOk
<1>3. QED
  BY <1>1, <1>2

LEMMA ClientSend ==
  ASSUME ProcInv, ClientInv, SoleClients, Cardinality(Started) = 1, NEW h \in Harts, cap_sock_send(h)
  PROVE  \A p \in Procs : ClientOk(p)'
<1> DEFINE p == run[h]
           r == receiver(p, call[h].ch)
<1>1. /\ executes(h, "send") /\ pc[h] = "handler" /\ channels' = take_receiver(p, call[h].ch)
      /\ return_to(h) \/ \E n : leave_for(h, n)
  BY DEF cap_sock_send, executes
<1>2. SuspendsKept /\ p \in Procs /\ call[h].ch \in Chans /\ state[p] \intersect Chans = {}
  BY <1>1, CallsKept, Executing
<1>3. PICK ch \in Chans : ch = call[h].ch
  BY <1>2
<1>4. \A c \in Chans : (c # ch \/ ~is_server(p, ch)) => channels'[c].client = channels[c].client
  BY <1>1, <1>2, <1>3, TakeClient DEF ProcInv, TypeOK, ChanRec
<1>5. \/ /\ ipc_acquirable(r, ch) /\ state' = delivered_state(r, ch)
         /\ timeout' = delivered_timeout(r, ch, p)
      \/ ~ipc_acquirable(r, ch) /\ UNCHANGED <<state, timeout>>
  BY <1>3 DEF cap_sock_send
<1>6. ASSUME NEW q \in Procs PROVE ClientOk(q)'
  <2>1. CASE ipc_acquirable(r, ch) /\ q = r
    <3>1. state'[q] \intersect Chans = {}
      BY <1>2, <1>3, <1>5, <2>1, NamesAssumption DEF delivered_state, ProcInv, TypeOK
    <3>2. QED
      BY <3>1, Idle
  <2>2. CASE ~(ipc_acquirable(r, ch) /\ q = r)
    <3>1. state'[q] = state[q] /\ timeout'[q] = timeout[q]
      BY <1>3, <1>5, <2>2 DEF delivered_state, delivered_timeout, ProcInv, TypeOK
    <3>2. CASE q = p
      BY <1>2, <3>1, <3>2, Idle
    <3>3. CASE q # p
      BY <1>1, <1>2, <1>3, <1>4, <2>2, <3>1, <3>3, Bystander
    <3>4. QED
      BY <3>2, <3>3
  <2>3. QED
    BY <2>1, <2>2
<1>7. QED
  BY <1>6

LEMMA ClientRecv ==
  ASSUME ProcInv, ClientInv, SoleClients, Cardinality(Started) = 1, NEW h \in Harts, cap_sock_recv(h)
  PROVE  \A p \in Procs : ClientOk(p)'
<1>1. /\ executes(h, "recv") /\ pc[h] = "handler" /\ \E n : leave_for(h, n)
  BY DEF cap_sock_recv, executes
<1>2. SuspendsKept /\ run[h] \in Procs /\ call[h].ch \in Chans
  BY <1>1, CallsKept, Executing
<1>3. PICK p \in Procs : p = run[h]
  BY <1>2
<1>4. PICK ch \in Chans : ch = call[h].ch
  BY <1>2
<1>5. CASE /\ is_server(p, ch)
           /\ channels' = do_recv(channels, p, ch)
           /\ state' = [state EXCEPT ![p] = {"busy", ch}]
           /\ timeout' = recv_timeout(timeout, p, ch)
  <2>1. \A c \in Chans : channels'[c].client = channels[c].client
    BY <1>5, RecvClient DEF ProcInv, TypeOK, ChanRec
  <2>2. \A q \in Procs : q # p => state'[q] = state[q] /\ timeout'[q] = timeout[q]
    BY <1>5 DEF recv_timeout, ProcInv, TypeOK
  <2>3. state'[p] = {"busy", ch} /\ p \notin Clients[ch]
    BY <1>5, ConfigAssumption DEF ProcInv, TypeOK, is_server
  <2>4. ClientOk(p)'
    BY <2>3, Caller
  <2>5. ASSUME NEW q \in Procs, q # p PROVE ClientOk(q)'
    BY <1>2, <2>1, <2>2, <2>5, Same DEF ClientInv
  <2>6. QED
    BY <2>4, <2>5
<1>6. CASE /\ ~is_server(p, ch) /\ channels[ch].client = p /\ channels[ch].server # NONE
           /\ channels' = [channels EXCEPT ![ch].cap_buf = p]
           /\ state' = [state EXCEPT ![p] = {"busy", ch}, ![channels[ch].server] = {"busy"}]
           /\ timeout' = [timeout EXCEPT ![channels[ch].server] = timeout[p]]
  <2>1. PICK s \in Procs : s = channels[ch].server /\ s # p
    BY <1>6 DEF ProcInv, TypeOK, WaitersSound, is_server
  <2>2. channels \in [Chans -> ChanRec]
    BY DEF ProcInv, TypeOK, ChanRec
  <2>3. \A c \in Chans : channels'[c].client = channels[c].client
    BY <1>6, <2>2 DEF ChanRec
  <2>4. /\ state'[p] = {"busy", ch} /\ state'[s] = {"busy"}
        /\ \A q \in Procs : q # p /\ q # s => state'[q] = state[q] /\ timeout'[q] = timeout[q]
    BY <1>6, <2>1 DEF ProcInv, TypeOK
  <2>5. ClientOk(p)'
    BY <1>6, <2>3, <2>4, Caller
  <2>6. ClientOk(s)'
    BY <2>4, Idle, NamesAssumption
  <2>7. ASSUME NEW q \in Procs, q # p, q # s PROVE ClientOk(q)'
    BY <1>2, <2>3, <2>4, <2>7, Same DEF ClientInv
  <2>8. QED
    BY <2>5, <2>6, <2>7
<1>7. QED
  BY <1>3, <1>4, <1>5, <1>6, Zenon DEF cap_sock_recv

LEMMA ClientSendRecv ==
  ASSUME ProcInv, ClientInv, SoleClients, Cardinality(Started) = 1, NEW h \in Harts, cap_sock_sendrecv(h)
  PROVE  \A p \in Procs : ClientOk(p)'
<1>1. /\ executes(h, "sendrecv") /\ pc[h] = "handler" /\ \E n : leave_for(h, n)
  BY DEF cap_sock_sendrecv, executes
<1>2. /\ SuspendsKept /\ run[h] \in Procs /\ call[h].ch \in Chans /\ "busy" \in state[run[h]]
      /\ MayCall(run[h], call[h]) /\ call[h].op = "sendrecv"
  BY <1>1, CallsKept, Executing
<1>3. PICK p \in Procs : p = run[h]
  BY <1>2
<1>4. PICK ch \in Chans : ch = call[h].ch
  BY <1>2
<1>5. is_server(p, ch) \/ p \in Clients[ch]
  BY <1>2, <1>3, <1>4 DEF MayCall, is_server
<1>6. CASE UNCHANGED <<state, timeout, channels>>
  BY <1>2, <1>6, ClientQuiet
<1>7. ASSUME channels' = do_recv(take_receiver(p, ch), p, ch),
             state'[p] = {"busy", ch},
             \A q \in Procs \ {p} :
               \/ ipc_acquirable(receiver(p, ch), ch) /\ receiver(p, ch) = q
                  /\ state'[q] \intersect Chans = {}
               \/ ~(ipc_acquirable(receiver(p, ch), ch) /\ receiver(p, ch) = q)
                  /\ state'[q] = state[q] /\ timeout'[q] = timeout[q]
      PROVE  \A q \in Procs : ClientOk(q)'
  <2>1. channels \in [Chans -> ChanRec]
    BY DEF ProcInv, TypeOK, ChanRec
  <2>2. /\ \A c \in Chans \ {ch} : channels'[c].client = channels[c].client
        /\ ~is_server(p, ch) => channels'[ch].client = p
    BY <1>7, <2>1, TakeReceiver, TakeClient, RecvClient
  <2>3. is_server(p, ch) => p \notin Clients[ch]
    BY ConfigAssumption DEF is_server
  <2>4. ClientOk(p)'
    BY <1>7, <2>2, <2>3, Caller
  <2>5. ASSUME NEW q \in Procs, q # p PROVE ClientOk(q)'
    <3>1. CASE state'[q] \intersect Chans = {}
      BY <3>1, Idle
    <3>2. CASE /\ ~(ipc_acquirable(receiver(p, ch), ch) /\ receiver(p, ch) = q)
               /\ state'[q] = state[q] /\ timeout'[q] = timeout[q]
      BY <1>1, <1>2, <1>3, <1>5, <2>2, <2>5, <3>2, Bystander
    <3>3. QED
      BY <1>7, <2>5, <3>1, <3>2
  <2>6. QED
    BY <2>4, <2>5
<1>8. CASE /\ ipc_acquirable(receiver(p, ch), ch)
           /\ channels' = do_recv(take_receiver(p, ch), p, ch)
           /\ state' = [delivered_state(receiver(p, ch), ch) EXCEPT ![p] = {"busy", ch}]
           /\ timeout' = recv_timeout(delivered_timeout(receiver(p, ch), ch, p), p, ch)
  <2>1. PICK r \in Procs : r = receiver(p, ch) /\ r # p
    BY <1>2, <1>3, <1>8, Receiver
  <2>2. /\ delivered_state(r, ch) \in [Procs -> SUBSET Flags]
        /\ delivered_timeout(r, ch, p) \in [Procs -> Times]
        /\ delivered_state(r, ch)[r] = IF Mode[ch] = "yield" THEN {"busy"} ELSE {}
        /\ \A q \in Procs \ {r} : delivered_state(r, ch)[q] = state[q]
    BY <1>8, <2>1, Receiver, Delivered
  <2>3. \A q \in Procs \ {r} : delivered_timeout(r, ch, p)[q] = timeout[q]
    BY <2>1 DEF delivered_timeout, ProcInv, TypeOK
  <2>4. \A q \in Procs \ {r, p} : state'[q] = state[q] /\ timeout'[q] = timeout[q]
    BY <1>8, <2>1, <2>2, <2>3 DEF recv_timeout
  <2>5. state'[p] = {"busy", ch} /\ state'[r] \intersect Chans = {}
    BY <1>8, <2>1, <2>2, NamesAssumption
  <2>6. QED
    BY <1>7, <1>8, <2>1, <2>4, <2>5
<1>9. CASE /\ ~ipc_acquirable(receiver(p, ch), ch)
           /\ channels' = do_recv(take_receiver(p, ch), p, ch)
           /\ state' = [state EXCEPT ![p] = {"busy", ch}]
           /\ timeout' = recv_timeout(timeout, p, ch)
  <2>1. \A q \in Procs \ {p} : state'[q] = state[q] /\ timeout'[q] = timeout[q]
    BY <1>9 DEF recv_timeout, ProcInv, TypeOK
  <2>2. state'[p] = {"busy", ch}
    BY <1>9 DEF ProcInv, TypeOK
  <2>3. QED
    BY <1>7, <1>9, <2>1, <2>2
<1>10. QED
  BY <1>3, <1>4, <1>6, <1>8, <1>9, Zenon DEF cap_sock_sendrecv

LEMMA StepClient ==
  ASSUME SoleClients, ProcInv, ClientInv, [Next]_vars
  PROVE  ClientInv'
<1> SUFFICES ASSUME Cardinality(Started) = 1 PROVE \A p \in Procs : ClientOk(p)'
  BY StartedStep DEF ClientInv
<1> DEFINE Goal == \A p \in Procs : ClientOk(p)'
<1>1. ASSUME NEW p \in Procs, expire(p) PROVE Goal
  BY <1>1, ClientTimes
<1>2. ASSUME NEW h \in Harts, NEW p \in Procs, sched_load(h, p) PROVE Goal
  BY <1>2, ClientSched
<1>3. ASSUME NEW h \in Harts, NEW c \in Calls, syscall_handler(h, c) PROVE Goal
  BY <1>3, ClientSched
<1>4. ASSUME NEW h \in Harts, timer(h) PROVE Goal
  BY <1>4, ClientTimes
<1>5. ASSUME NEW h \in Harts,
             \/ sched_exchange(h) \/ proc_release(h)
             \/ interrupt_handler(h) \/ handle_sync(h) \/ handle_sleep(h)
             \/ lock_preempted(h) \/ taslock_acquire(h)
             \/ cap_monitor_suspend(h) \/ suspend_store(h)
             \/ cap_monitor_resume(h) \/ cap_monitor_yield(h)
             \/ sock_preempted(h) \/ sock_refused(h)
             \/ cap_sock_send(h) \/ cap_sock_recv(h) \/ cap_sock_sendrecv(h)
      PROVE  Goal
  BY <1>5, ClientExchange, ClientRelease, ClientLeaves, ClientSched, ClientSuspend, ClientStore,
     ClientResume, ClientSend, ClientRecv, ClientSendRecv
<1>6. CASE UNCHANGED vars
  BY <1>6, ClientTimes
<1>7. QED
  BY <1>1, <1>2, <1>3, <1>4, <1>5, <1>6, Zenon DEF Next

\* In a build for one hart, a client that waits without a timeout is still the
\* registered client of its channel (do_recv, do_send), for any processes,
\* channels and monitor capabilities, as long as no channel has two clients
\* that wait for replies.
THEOREM ClientNotForgottenHolds ==
  ASSUME SafeSuspends, SoleClients
  PROVE  Spec => []ClientNotForgotten
<1>1. Init => ProcInv /\ ClientInv
  <2>1. SUFFICES ASSUME Init PROVE ClientInv
    BY InitInv
  <2>2. QED
    BY <2>1, NamesAssumption DEF Init, ClientInv, ClientOk
<1>2. ProcInv /\ ClientInv /\ [Next]_vars => (ProcInv /\ ClientInv)'
  BY StepInv, StepClient
<1>3. ClientInv => ClientNotForgotten
  BY ConfigAssumption, NamesAssumption DEF ClientInv, ClientOk, ClientNotForgotten
<1>4. QED
  BY <1>1, <1>2, <1>3, PTL DEF Spec
=============================================================================
