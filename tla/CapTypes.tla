------------------------------- MODULE CapTypes -------------------------------
(***************************************************************************)
(* The capability descriptors of kernel/inc/cap_types.h and the pure       *)
(* predicates on them of kernel/src/cap_util.c.  A descriptor is a record  *)
(* per variant of the union cap_t.  Addresses are counted in memory blocks *)
(* (1 << MIN_BLOCK_SIZE bytes), TAG_BLOCKS blocks to a tag; a PMP region   *)
(* is kept decoded, as the base and size pmp_napot_decode returns, and is  *)
(* at least one block long.                                                *)
(***************************************************************************)
EXTENDS Integers

CONSTANTS
  PROC_CNT,    \* S3K_PROC_CNT
  CAP_CNT,     \* S3K_CAP_CNT
  CHAN_CNT,    \* S3K_CHAN_CNT
  SLOT_CNT,    \* S3K_SLOT_CNT
  PMP_CNT,     \* S3K_PMP_CNT
  TAG_BLOCKS,  \* 1 << (MAX_BLOCK_SIZE - MIN_BLOCK_SIZE)
  Harts        \* S3K_MIN_HART .. S3K_MAX_HART

ASSUME CountsAssumption ==
  /\ PROC_CNT \in Nat \ {0} /\ CAP_CNT \in Nat \ {0}
  /\ CHAN_CNT \in Nat /\ PMP_CNT \in Nat \ {0} /\ TAG_BLOCKS \in Nat \ {0}

\* sched_update packs a slot's remaining length into 8 bits.
ASSUME SlotCntAssumption == SLOT_CNT \in 1..255

Pids == 0 .. PROC_CNT - 1
Slots == 0 .. SLOT_CNT - 1
Chans == 0 .. CHAN_CNT - 1
PmpSlots == 0 .. PMP_CNT - 1

MEM_RWX == {"r", "w", "x"}

TimeCap == [type : {"time"}, hart : Harts, bgn : Nat, mrk : Nat, end : Nat]
MemCap  == [type : {"mem"}, tag : Nat, bgn : Nat, mrk : Nat, end : Nat,
            rwx : SUBSET MEM_RWX, lck : BOOLEAN]
PmpCap  == [type : {"pmp"}, base : Nat, size : Nat \ {0}, rwx : SUBSET MEM_RWX,
            used : BOOLEAN, slot : PmpSlots]
MonCap  == [type : {"mon"}, bgn : Nat, mrk : Nat, end : Nat]
ChanCap == [type : {"chan"}, bgn : Nat, mrk : Nat, end : Nat]
SockCap == [type : {"sock"}, chan : Nat, mode : {"yield", "noyield"},
            perm : SUBSET {"sdata", "scap", "cdata", "ccap"}, tag : Nat]
NoCap   == [type |-> "none"]

Cap == TimeCap \union MemCap \union PmpCap \union MonCap \union ChanCap
         \union SockCap \union {NoCap}

\* The constructors the boot table INIT_CAPS is written with.
cap_mk_time(hart, bgn, end) ==
  [type |-> "time", hart |-> hart, bgn |-> bgn, mrk |-> bgn, end |-> end]
cap_mk_memory(tag, bgn, end, rwx) ==
  [type |-> "mem", tag |-> tag, bgn |-> bgn, mrk |-> bgn, end |-> end,
   rwx |-> rwx, lck |-> FALSE]
cap_mk_pmp(base, size, rwx) ==
  [type |-> "pmp", base |-> base, size |-> size, rwx |-> rwx,
   used |-> FALSE, slot |-> 0]
cap_mk_monitor(bgn, end) ==
  [type |-> "mon", bgn |-> bgn, mrk |-> bgn, end |-> end]
cap_mk_channel(bgn, end) ==
  [type |-> "chan", bgn |-> bgn, mrk |-> bgn, end |-> end]
cap_mk_socket(chan, mode, perm, tag) ==
  [type |-> "sock", chan |-> chan, mode |-> mode, perm |-> perm, tag |-> tag]

\* The kernel's check of a descriptor that a process passes to cap_derive.
cap_is_valid(c) ==
  CASE c.type \in {"time", "mon", "chan"} -> c.bgn < c.end /\ c.mrk = c.bgn
    [] c.type = "mem"  -> ~c.lck /\ c.bgn < c.end /\ c.mrk = c.bgn
    [] c.type = "pmp"  -> ~c.used /\ c.slot = 0
    [] c.type = "sock" -> c.mode \in {"yield", "noyield"}
    [] OTHER -> FALSE

\* The address, in blocks, of a block under a tag.
tag_block_to_addr(tag, block) == tag * TAG_BLOCKS + block
=============================================================================
