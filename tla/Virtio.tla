-------------------------------- MODULE Virtio --------------------------------
(***************************************************************************)
(* The block driver of the file system tutorial and of the exercise        *)
(* (virtio_disk.c) with the layer that FatFs calls (diskio.c), and the     *)
(* device, which works on its own: it takes chains of descriptors from the *)
(* ring `avail', moves the data of a sector and puts the chains into the   *)
(* ring `used', which the driver polls.                                    *)
(*                                                                         *)
(* The steps of the driver are those between which the device can tell the *)
(* memory apart.  A buffer holds one sector.                               *)
(***************************************************************************)
EXTENDS Integers, Sequences

CONSTANTS
  NUM,      \* the number of descriptors, a power of two
  IDX,      \* 65536: the indices of the rings are uint16
  SECTORS,  \* the number of sectors of the medium
  Data      \* what a sector can hold

ASSUME VirtioAssumption ==
  /\ NUM \in Nat /\ NUM >= 3 /\ IDX \in Nat /\ IDX > NUM /\ IDX % NUM = 0
  /\ SECTORS \in Nat \ {0} /\ 0 \in Data

VARIABLES
  disk,    \* the static struct disk of the driver
  buf,     \* the struct buf of disk_read or disk_write, and what remains to do
  at,      \* where virtio_disk_rw is
  idx,     \* its three descriptors
  dev,     \* the device
  medium   \* the sectors of the medium

virtioVars == <<disk, buf, at, idx, dev, medium>>

Descs == 0 .. NUM - 1
ring0 == [idx |-> 0, ring |-> [i \in Descs |-> 0]]

\* A descriptor: what it points to, its flags and the next one of its chain.
desc0 == [addr |-> "null", of |-> 0, write |-> FALSE, more |-> FALSE, next |-> 0]

\* The driver's memory before main: the two pages that it shares with the device
\* (desc, avail, used) and its own notes.
disk0 ==
  [desc |-> [i \in Descs |-> desc0], avail |-> ring0, used |-> ring0,
   free |-> [i \in Descs |-> FALSE], used_idx |-> 0,
   info |-> [i \in Descs |-> [b |-> FALSE, status |-> 0]],
   ops |-> [i \in Descs |-> [type |-> "in", sector |-> 0]],
   initialised |-> FALSE]

buf0 == [disk |-> FALSE, blockno |-> 0, data |-> 0, write |-> FALSE, todo |-> <<>>, buff |-> <<>>]

\* A device with a queue of `max' descriptors.
dev0(max) ==
  [max |-> max, on |-> FALSE, seen |-> 0, used |-> 0, head |-> 0, at |-> "idle", broken |-> FALSE]

VirtioInit(maxs, media) ==
  /\ disk = disk0 /\ buf = buf0 /\ at = "idle" /\ idx = <<0, 0, 0>>
  /\ dev \in {dev0(max) : max \in maxs}
  /\ medium \in media

-----------------------------------------------------------------------------
(* The driver.                                                             *)

virtio_disk_status == disk.initialised

\* The pages are cleared and all descriptors are free; the driver's used_idx and
\* the device's own indices stay as they are.  Without a queue that is long
\* enough the driver gives up.
virtio_disk_init ==
  /\ at = "idle"
  /\ disk' = IF dev.max < NUM THEN disk
             ELSE [disk EXCEPT !.desc = disk0.desc, !.avail = ring0, !.used = ring0,
                               !.free = [i \in Descs |-> TRUE], !.initialised = TRUE]
  /\ UNCHANGED <<buf, at, idx, dev, medium>>

\* The free descriptor that alloc_desc finds when those of S are taken, or -1.
alloc_desc(S) ==
  LET avail == {i \in Descs \ S : disk.free[i]} IN
  IF avail = {} THEN -1 ELSE CHOOSE i \in avail : \A j \in avail : i <= j

alloc3_desc ==
  LET i1 == alloc_desc({})
      i2 == alloc_desc({i1})
      i3 == alloc_desc({i1, i2})
  IN  <<i1, i2, i3>>

\* The chain from descriptor i on; a chain is at most three long.
chain(i) ==
  LET d == disk.desc
      rest(j) == IF d[j].more THEN {d[j].next} ELSE {}
      second == rest(i)
  IN  {i} \union second \union UNION {rest(j) : j \in second}

\* free_desc for each descriptor of the chain.
free_chain(i) ==
  [disk EXCEPT !.desc = [j \in Descs |-> IF j \in chain(i) THEN desc0 ELSE disk.desc[j]],
               !.free = [j \in Descs |-> disk.free[j] \/ j \in chain(i)],
               !.info[i].b = FALSE]

\* virtio_disk_rw fills three descriptors in, for the header, the data and the
\* status, and puts the first into the ring.  It waits while there are none.
rw_format ==
  LET t == alloc3_desc IN
  /\ at = "format" /\ -1 \notin {t[1], t[2], t[3]}
  /\ idx' = t
  /\ disk' = [disk EXCEPT
       !.free = [i \in Descs |-> disk.free[i] /\ i \notin {t[1], t[2], t[3]}],
       !.ops[t[1]] = [type |-> IF buf.write THEN "out" ELSE "in", sector |-> buf.blockno],
       !.desc = [disk.desc EXCEPT
          ![t[1]] = [addr |-> "op", of |-> t[1], write |-> FALSE, more |-> TRUE, next |-> t[2]],
          ![t[2]] = [addr |-> "data", of |-> 0, write |-> ~buf.write, more |-> TRUE, next |-> t[3]],
          ![t[3]] = [addr |-> "status", of |-> t[1], write |-> TRUE, more |-> FALSE, next |-> 0]],
       !.info[t[1]] = [b |-> TRUE, status |-> 255],
       !.avail.ring[disk.avail.idx % NUM] = t[1]]
  /\ buf' = [buf EXCEPT !.disk = TRUE]
  /\ at' = "publish"
  /\ UNCHANGED <<dev, medium>>

rw_publish ==
  /\ at = "publish"
  /\ disk' = [disk EXCEPT !.avail.idx = (@ + 1) % IDX]
  /\ at' = "notify"
  /\ UNCHANGED <<buf, idx, dev, medium>>

rw_notify ==
  /\ at = "notify"
  /\ dev' = [dev EXCEPT !.on = TRUE]
  /\ at' = "poll"
  /\ UNCHANGED <<disk, buf, idx, medium>>

\* Mutant: a request counts as finished once it is in the ring.
virtio_disk_intr_early ==
  /\ at = "poll" /\ buf.disk
  /\ buf' = [buf EXCEPT !.disk = FALSE]
  /\ UNCHANGED <<disk, at, idx, dev, medium>>

\* One entry of the used ring.  An entry whose status is an error stays there, so
\* that virtio_disk_rw polls for ever.
virtio_disk_intr ==
  LET id == disk.used.ring[disk.used_idx % NUM] IN
  /\ at = "poll" /\ buf.disk
  /\ disk.used_idx # disk.used.idx
  /\ disk.info[id].status = 0
  /\ buf' = [buf EXCEPT !.disk = ~disk.info[id].b]
  /\ disk' = [disk EXCEPT !.used_idx = (@ + 1) % IDX]
  /\ UNCHANGED <<at, idx, dev, medium>>

\* virtio_disk_rw returns to the loop of disk_read or disk_write, which goes on
\* with the next piece of the caller's memory and with the same block number.
rw_return ==
  /\ at = "poll" /\ ~buf.disk
  /\ disk' = free_chain(idx[1])
  /\ buf' = [buf EXCEPT !.buff = Append(@, buf.data), !.todo = Tail(@),
                        !.data = IF Len(buf.todo) = 1 THEN @ ELSE buf.todo[2]]
  /\ at' = IF Len(buf.todo) = 1 THEN "idle" ELSE "format"
  /\ UNCHANGED <<idx, dev, medium>>

-----------------------------------------------------------------------------
(* What FatFs calls (diskio.c).                                            *)

disk_status == IF virtio_disk_status THEN {} ELSE {"STA_NOINIT"}

disk_initialize == virtio_disk_init

\* `todo' is what the driver's buffer is filled with for each of the sectors from
\* `sector' on: zeroes for a read.  The loop starts with the first.
disk_rw(sector, todo, write) ==
  /\ at = "idle" /\ disk_status = {}
  /\ buf' = [buf0 EXCEPT !.blockno = sector, !.todo = todo, !.data = todo[1], !.write = write]
  /\ at' = "format"
  /\ UNCHANGED <<disk, idx, dev, medium>>

disk_read(sector, count) == disk_rw(sector, [i \in 1..count |-> 0], FALSE)
disk_write(sector, pieces) == disk_rw(sector, pieces, TRUE)

-----------------------------------------------------------------------------
(* The device (external).  It keeps its own count of what it has seen in   *)
(* `avail' and gives up when the driver's index does not follow it.        *)

device_fetch ==
  /\ dev.on /\ ~dev.broken /\ dev.at = "idle" /\ disk.avail.idx # dev.seen
  /\ dev' = IF (disk.avail.idx - dev.seen) % IDX > NUM THEN [dev EXCEPT !.broken = TRUE]
            ELSE [dev EXCEPT !.head = disk.avail.ring[dev.seen % NUM],
                             !.seen = (@ + 1) % IDX, !.at = "transfer"]
  /\ UNCHANGED <<disk, buf, at, idx, medium>>

\* The transfer, or an error, and the status byte.
device_transfer ==
  LET d1 == disk.desc[dev.head]
      d2 == disk.desc[d1.next]
      d3 == disk.desc[d2.next]
      op == disk.ops[d1.of]
  IN  /\ dev.at = "transfer" /\ d1.addr = "op" /\ d2.addr = "data" /\ d3.addr = "status"
      /\ \/ /\ disk' = [disk EXCEPT !.info[d3.of].status = 0]
            /\ buf' = IF d2.write /\ op.type = "in" THEN [buf EXCEPT !.data = medium[op.sector]] ELSE buf
            /\ medium' = IF op.type = "out" THEN [medium EXCEPT ![op.sector] = buf.data] ELSE medium
         \/ /\ disk' = [disk EXCEPT !.info[d3.of].status = 1]
            /\ UNCHANGED <<buf, medium>>
      /\ dev' = [dev EXCEPT !.at = "used"]
      /\ UNCHANGED <<at, idx>>

device_used ==
  /\ dev.at = "used"
  /\ disk' = [disk EXCEPT !.used = [idx |-> (dev.used + 1) % IDX,
                                    ring |-> [disk.used.ring EXCEPT ![dev.used % NUM] = dev.head]]]
  /\ dev' = [dev EXCEPT !.used = (@ + 1) % IDX, !.at = "idle"]
  /\ UNCHANGED <<buf, at, idx, medium>>

device == device_fetch \/ device_transfer \/ device_used

-----------------------------------------------------------------------------
(* Properties.                                                             *)

\* disk_read and disk_write return when the device has done the request: what
\* the caller of a transfer of one sector (`Start sector in LBA', `Number of
\* sectors to read', diskio.c:63-64) got, or gave, is what the sector holds; and
\* whatever the count, the device no longer uses the buffer, which is on the stack
\* of the function, and every descriptor is free again.  Of the data of a transfer
\* of several sectors nothing is claimed, because the code fails there: the loop
\* (diskio.c:73-79, 106-112) advances the caller's memory and never the sector, so
\* every piece of a read is the first sector and every piece of a write goes there.
DiskAnswers ==
  at = "idle" =>
    /\ Len(buf.buff) = 1 => buf.buff[1] = medium[buf.blockno]
    /\ dev.at = "idle"
    /\ disk.initialised => \A i \in Descs : disk.free[i]
=============================================================================
