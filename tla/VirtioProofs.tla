----------------------------- MODULE VirtioProofs -----------------------------
(***************************************************************************)
(* The block driver of Virtio.tla under the programs of Tutorials.tla: a   *)
(* call of disk_read or disk_write that returns was answered by the device *)
(* and left nothing behind, for any length of the queue, any width of the  *)
(* indices beyond it and any number of sectors.                            *)
(*                                                                         *)
(* The driver and the device count the requests on their own.  Either the  *)
(* counts agree, or a mount failed after the boot sector was read and the  *)
(* driver has started its rings anew; the device, which has not, waits for *)
(* an index that never comes, and the read of the boot sector does not     *)
(* return.                                                                 *)
(***************************************************************************)
EXTENDS Tutorials, TLAPS

-----------------------------------------------------------------------------
(* Types.                                                                  *)

Indices == 0 .. IDX - 1
Sectors == 0 .. SECTORS - 1
Rings == [idx : Indices, ring : [Descs -> Descs]]
Descriptors ==
  [addr : {"null", "op", "data", "status"}, of : Descs, write : BOOLEAN, more : BOOLEAN, next : Descs]
Tables == [Descs -> Descriptors]
Infos == [Descs -> [b : BOOLEAN, status : {0, 1, 255}]]
Headers == [Descs -> [type : {"in", "out"}, sector : Sectors]]
Disks ==
  [desc : Tables, avail : Rings, used : Rings, free : [Descs -> BOOLEAN],
   used_idx : Indices, info : Infos, ops : Headers, initialised : BOOLEAN]
Devices ==
  [max : {0, NUM}, on : BOOLEAN, seen : Indices, used : Indices, head : Descs,
   at : {"idle", "transfer", "used"}, broken : BOOLEAN]

DriverTypes ==
  /\ disk \in Disks /\ dev \in Devices
  /\ DOMAIN buf = DOMAIN buf0 /\ buf.blockno \in Sectors
  /\ buf.disk \in BOOLEAN /\ buf.write \in BOOLEAN
  /\ \E S : buf.buff \in Seq(S)
  /\ DOMAIN medium = Sectors
  /\ at \in {"idle", "format", "publish", "notify", "poll"}

-----------------------------------------------------------------------------
(* The counts.                                                             *)

\* The device has taken and answered n requests.
Answered(n) == dev.at = "idle" /\ dev.seen = n /\ dev.used = n

\* The driver and the device agree that all requests are answered.
Settled ==
  /\ Answered(disk.used_idx)
  /\ disk.avail.idx = disk.used_idx /\ disk.used.idx = disk.used_idx

\* The driver has started anew after one request.
Behind ==
  /\ vol # "mounted" /\ buf.buff = <<>>
  /\ Answered(1) /\ disk.used_idx = 1 /\ disk.used = ring0

\* While the volume is not mounted there was one request at most, that for the
\* boot sector; from the next mount on the driver is behind.
Mounting ==
  /\ vol \in {"none", "mounting", "mounted"}
  /\ vol = "none" => at = "idle" /\ buf.buff = <<>>
  /\ vol # "mounted" => /\ disk.used_idx \in {0, 1}
                        /\ at # "idle" => buf.buff = <<>> /\ Len(buf.todo) = 1
  /\ vol = "mounting" /\ buf.buff = <<>> =>
       disk.used_idx = 0 \/ Behind \/ (at = "poll" /\ ~buf.disk)

\* Without a queue that is long enough nothing happens.
Started ==
  /\ dev.max < NUM => ~disk.initialised
  /\ ~disk.initialised => at = "idle" /\ disk.used_idx = 0

-----------------------------------------------------------------------------
(* The request.                                                            *)

AllFree == \A i \in Descs : disk.free[i]

\* The three descriptors of the request of buf are filled in, and no others.
Formed ==
  /\ idx = <<0, 1, 2>>
  /\ \A i \in Descs : disk.free[i] <=> i \notin {0, 1, 2}
  /\ disk.ops[0] = [type |-> IF buf.write THEN "out" ELSE "in", sector |-> buf.blockno]
  /\ disk.desc[0].addr = "op" /\ disk.desc[0].of = 0 /\ disk.desc[0].more /\ disk.desc[0].next = 1
  /\ disk.desc[1].addr = "data" /\ (disk.desc[1].write <=> ~buf.write)
  /\ disk.desc[1].more /\ disk.desc[1].next = 2
  /\ disk.desc[2].addr = "status" /\ disk.desc[2].of = 0 /\ ~disk.desc[2].more
  /\ disk.info[0].b

Pending == buf.disk /\ disk.info[0].status = 255

\* What the caller asked for is in the buffer or on the medium.
Transferred == buf.data = medium[buf.blockno]

\* The request is in the available ring, and the device ...
Published ==
  /\ disk.avail.idx = (disk.used_idx + 1) % IDX
  /\ disk.avail.ring[disk.used_idx % NUM] = 0

\* ... has not looked at it,
Waiting == Published /\ Pending /\ Answered(disk.used_idx) /\ disk.used.idx = disk.used_idx

\* ... is about to transfer the data, or has done so, successfully or not,
Taken ==
  /\ Published /\ buf.disk /\ dev.at \in {"transfer", "used"} /\ dev.head = 0
  /\ dev.seen = disk.avail.idx /\ dev.used = disk.used_idx /\ disk.used.idx = disk.used_idx
  /\ dev.at = "used" /\ disk.info[0].status = 0 => Transferred

\* ... has answered it,
Given ==
  /\ Published /\ buf.disk /\ Answered(disk.avail.idx)
  /\ disk.used.idx = disk.avail.idx /\ disk.used.ring[disk.used_idx % NUM] = 0
  /\ disk.info[0].status = 0 => Transferred

\* ... or the driver has taken the answer off the used ring.
Collected == ~buf.disk /\ Settled /\ Transferred

\* The request that the device does not see: its index is one the device has
\* dealt with.
Unseen == Behind /\ disk.avail.idx = 1 /\ Pending

AtIdle ==
  /\ Settled \/ (Behind /\ disk.avail.idx = 0)
  /\ disk.initialised => AllFree
  /\ buf.buff # <<>> => buf.buff[Len(buf.buff)] = medium[buf.blockno]
AtFormat == AllFree /\ (Settled \/ (Behind /\ disk.avail.idx = 0))
AtPublish ==
  /\ Formed /\ Pending
  /\ \/ Settled /\ disk.avail.ring[disk.used_idx % NUM] = 0
     \/ Behind /\ disk.avail.idx = 0
AtPoll == Formed /\ (Waiting \/ Taken \/ Given \/ Unseen \/ (at = "poll" /\ Collected))

Phases ==
  /\ at = "idle" => AtIdle
  /\ at = "format" => AtFormat
  /\ at = "publish" => AtPublish
  /\ at \in {"notify", "poll"} => AtPoll

DriverInv == DriverTypes /\ Mounting /\ Started /\ Phases

-----------------------------------------------------------------------------
(* The operators.                                                          *)

\* Counting modulo the width of an index.
LEMMA Indexing ==
  /\ 0 \in Descs /\ 1 \in Descs /\ 2 \in Descs /\ Descs \subseteq Nat
  /\ 0 \in Indices /\ 1 \in Indices /\ 1 % IDX = 1
  /\ \A n \in Indices : (n + 1) % IDX \in Indices /\ n % NUM \in Descs
  /\ (0 - 1) % IDX > NUM
<1>1. NUM \in Nat /\ NUM >= 3 /\ IDX \in Nat /\ IDX > NUM /\ IDX % NUM = 0
  BY VirtioAssumption
<1>2. IDX # NUM + 1
  <2> SUFFICES ASSUME IDX = NUM + 1 PROVE FALSE
    OBVIOUS
  <2>1. (NUM + 1) % NUM = 1
    BY <1>1
  <2> QED
    BY <1>1, <2>1
<1>3. 1 % IDX = 1
  BY <1>1
<1>4. \A n \in Indices : (n + 1) % IDX \in Indices
  BY <1>1 DEF Indices
<1>5. \A n \in Indices : n % NUM \in Descs
  BY <1>1 DEF Indices, Descs
<1>6. (0 - 1) % IDX = IDX - 1
  BY <1>1
<1> QED
  BY <1>1, <1>2, <1>3, <1>4, <1>5, <1>6 DEF Descs, Indices

\* With all descriptors free, the first three are taken.
LEMMA Allocates ==
  ASSUME disk \in Disks, AllFree
  PROVE  alloc3_desc = <<0, 1, 2>>
<1>1. \A i \in Descs : disk.free[i] = TRUE
  BY DEF AllFree, Disks
<1>2. Descs = 0 .. NUM - 1 /\ NUM \in Nat /\ NUM >= 3
  BY VirtioAssumption DEF Descs
<1>3. alloc_desc({}) = 0
  BY <1>1, <1>2 DEF alloc_desc
<1>4. alloc_desc({0}) = 1
  BY <1>1, <1>2 DEF alloc_desc
<1>5. alloc_desc({0, 1}) = 2
  BY <1>1, <1>2 DEF alloc_desc
<1> QED
  BY <1>3, <1>4, <1>5 DEF alloc3_desc

LEMMA Chained ==
  ASSUME Formed
  PROVE  chain(0) = {0, 1, 2}
BY DEF Formed, chain

LEMMA Appended ==
  ASSUME NEW S, NEW s \in Seq(S), NEW x
  PROVE  /\ Append(s, x) \in Seq(S \union {x}) /\ Append(s, x) # <<>>
         /\ Append(s, x)[Len(Append(s, x))] = x
<1>1. s \in Seq(S \union {x})
  OBVIOUS
<1> QED
  BY <1>1

-----------------------------------------------------------------------------
(* The steps of the device.                                                *)

LEMMA FetchKeeps ==
  ASSUME DriverInv, device_fetch, UNCHANGED vol
  PROVE  DriverInv'
<1> USE DEF DriverInv
<1>1. disk' = disk /\ buf' = buf /\ at' = at /\ idx' = idx /\ medium' = medium /\ vol' = vol
  BY DEF device_fetch
<1>2. /\ dev \in Devices /\ disk \in Disks
      /\ dev.at = "idle" /\ disk.avail.idx # dev.seen /\ dev.seen \in Indices
  BY DEF device_fetch, DriverTypes, Devices
<1>3. CASE dev' = [dev EXCEPT !.broken = TRUE]
  <2>1. /\ dev' \in Devices /\ dev'.at = dev.at /\ dev'.seen = dev.seen /\ dev'.used = dev.used
        /\ dev'.head = dev.head /\ dev'.max = dev.max
    BY <1>2, <1>3 DEF Devices
  <2>2. DriverTypes'
    BY <1>1, <2>1 DEF DriverTypes
  <2>3. /\ \A n : Answered(n)' = Answered(n)
        /\ Taken' = Taken
    BY <1>1, <2>1 DEF Answered, Taken, Published, Transferred
  <2>4. /\ Settled' = Settled /\ Behind' = Behind /\ Waiting' = Waiting /\ Given' = Given
        /\ Unseen' = Unseen /\ Collected' = Collected
    BY <1>1, <2>1 DEF Settled, Behind, Waiting, Given, Unseen, Collected, Answered, Published, Pending,
                      Transferred
  <2>5. Mounting' /\ Started'
    BY <1>1, <2>1, <2>4 DEF Mounting, Started
  <2>6. Phases'
    BY <1>1, <2>3, <2>4 DEF Phases, AtIdle, AtFormat, AtPublish, AtPoll, AllFree, Formed, Pending
  <2> QED
    BY <2>2, <2>5, <2>6
<1>4. CASE /\ ~((disk.avail.idx - dev.seen) % IDX > NUM)
           /\ dev' = [dev EXCEPT !.head = disk.avail.ring[dev.seen % NUM],
                                 !.seen = (dev.seen + 1) % IDX, !.at = "transfer"]
  <2>1. ~Settled /\ ~Given
    BY <1>2 DEF Settled, Answered, Given
  <2>2. ~(Behind /\ disk.avail.idx = 0)
    BY <1>4, Indexing DEF Behind, Answered
  <2>3. ~Taken /\ ~Unseen /\ ~Collected
    BY <1>2, <2>1 DEF Taken, Unseen, Behind, Answered, Collected
  <2>4. at \in {"notify", "poll"} /\ Formed /\ Waiting
    BY <2>1, <2>2, <2>3 DEF Phases, AtIdle, AtFormat, AtPublish, AtPoll, DriverTypes
  <2>5. dev.seen = disk.used_idx /\ dev.used = disk.used_idx /\ disk.used.idx = disk.used_idx
        /\ Published /\ buf.disk
    BY <2>4 DEF Waiting, Answered, Pending
  <2>6. dev.seen % NUM \in Descs /\ (dev.seen + 1) % IDX \in Indices
    BY <1>2, Indexing
  <2>7. disk.avail.ring[dev.seen % NUM] = 0 /\ (dev.seen + 1) % IDX = disk.avail.idx
    BY <2>5 DEF Published
  <2>8. /\ dev' \in Devices /\ dev'.at = "transfer" /\ dev'.head = 0 /\ dev'.max = dev.max
        /\ dev'.seen = disk.avail.idx /\ dev'.used = dev.used
    BY <1>2, <1>4, <2>6, <2>7, Indexing DEF Devices
  <2>9. Taken'
    BY <1>1, <2>5, <2>8 DEF Taken, Published
  <2>10. DriverTypes'
    BY <1>1, <2>8 DEF DriverTypes
  <2>11. Formed'
    BY <1>1, <2>4 DEF Formed
  <2>12. Phases'
    BY <1>1, <2>4, <2>9, <2>11 DEF Phases, AtPoll
  <2>13. ~Behind
    BY <2>5 DEF Behind, ring0
  <2>14. Mounting' /\ Started'
    BY <1>1, <2>8, <2>13 DEF Mounting, Started
  <2> QED
    BY <2>10, <2>12, <2>14
<1> QED
  BY <1>2, <1>3, <1>4 DEF device_fetch

LEMMA TransferKeeps ==
  ASSUME DriverInv, device_transfer, UNCHANGED vol
  PROVE  DriverInv'
<1> USE DEF DriverInv
<1>1. dev.at = "transfer" /\ at' = at /\ idx' = idx /\ vol' = vol
  BY DEF device_transfer
<1>2. ~Settled /\ ~Behind /\ ~Waiting /\ ~Given /\ ~Unseen /\ ~Collected
  BY <1>1 DEF Settled, Behind, Waiting, Given, Unseen, Collected, Answered
<1>3. at \in {"notify", "poll"} /\ Formed /\ Taken
  BY <1>2 DEF Phases, AtIdle, AtFormat, AtPublish, AtPoll, DriverTypes
<1>4. /\ dev.head = 0 /\ disk.desc[0].next = 1 /\ disk.desc[1].next = 2 /\ disk.desc[0].of = 0
      /\ disk.desc[2].of = 0 /\ (disk.desc[1].write <=> ~buf.write)
      /\ disk.ops[0] = [type |-> IF buf.write THEN "out" ELSE "in", sector |-> buf.blockno]
  BY <1>3 DEF Taken, Formed
<1>5. /\ dev' = [dev EXCEPT !.at = "used"]
      /\ \/ /\ disk' = [disk EXCEPT !.info[0].status = 0]
            /\ buf' = IF disk.desc[1].write /\ disk.ops[0].type = "in"
                      THEN [buf EXCEPT !.data = medium[disk.ops[0].sector]] ELSE buf
            /\ medium' = IF disk.ops[0].type = "out"
                         THEN [medium EXCEPT ![disk.ops[0].sector] = buf.data] ELSE medium
         \/ /\ disk' = [disk EXCEPT !.info[0].status = 1]
            /\ buf' = buf /\ medium' = medium
  BY <1>4 DEF device_transfer
<1>6. disk \in Disks /\ dev \in Devices /\ 0 \in Descs /\ buf.write \in BOOLEAN /\ buf.blockno \in Sectors
      /\ DOMAIN medium = Sectors /\ DOMAIN buf = DOMAIN buf0
  BY Indexing DEF DriverTypes
<1>7. /\ dev' \in Devices /\ dev'.at = "used" /\ dev'.head = dev.head /\ dev'.max = dev.max
      /\ dev'.seen = dev.seen /\ dev'.used = dev.used
  BY <1>5, <1>6 DEF Devices
<1>8. PICK st \in {0, 1} :
        /\ disk' = [disk EXCEPT !.info[0].status = st]
        /\ st = 0 =>
             /\ buf' = IF disk.desc[1].write /\ disk.ops[0].type = "in"
                       THEN [buf EXCEPT !.data = medium[disk.ops[0].sector]] ELSE buf
             /\ medium' = IF disk.ops[0].type = "out"
                          THEN [medium EXCEPT ![disk.ops[0].sector] = buf.data] ELSE medium
  <2>1. CASE disk' = [disk EXCEPT !.info[0].status = 1]
    BY <2>1
  <2>2. CASE disk' # [disk EXCEPT !.info[0].status = 1]
    BY <1>5, <2>2
  <2> QED
    BY <2>1, <2>2
<1>9. /\ disk' \in Disks /\ disk'.info[0].b = disk.info[0].b /\ disk'.info[0].status = st
      /\ disk'.desc = disk.desc /\ disk'.avail = disk.avail /\ disk'.used = disk.used
      /\ disk'.free = disk.free /\ disk'.used_idx = disk.used_idx /\ disk'.ops = disk.ops
      /\ disk'.initialised = disk.initialised
  <2> DEFINE info == [disk.info EXCEPT ![0].status = st]
  <2>1. disk.info \in Infos /\ disk' = [disk EXCEPT !.info = info]
    BY <1>6, <1>8 DEF Disks
  <2>2. info \in Infos /\ info[0].b = disk.info[0].b /\ info[0].status = st
    BY <1>6, <2>1 DEF Infos
  <2> HIDE DEF info
  <2> QED
    BY <1>6, <2>1, <2>2 DEF Disks
<1>10. /\ DOMAIN buf' = DOMAIN buf0 /\ buf'.blockno = buf.blockno /\ buf'.disk = buf.disk
       /\ buf'.write = buf.write /\ buf'.buff = buf.buff /\ buf'.todo = buf.todo
       /\ DOMAIN medium' = Sectors
  BY <1>5, <1>6 DEF buf0
<1>11. st = 0 => Transferred'
  <2> SUFFICES ASSUME st = 0 PROVE Transferred'
    OBVIOUS
  <2>1. /\ buf' = IF disk.desc[1].write /\ disk.ops[0].type = "in"
                  THEN [buf EXCEPT !.data = medium[disk.ops[0].sector]] ELSE buf
        /\ medium' = IF disk.ops[0].type = "out"
                     THEN [medium EXCEPT ![disk.ops[0].sector] = buf.data] ELSE medium
    BY <1>8
  <2>2. CASE buf.write
    BY <1>4, <1>6, <2>1, <2>2 DEF Transferred
  <2>3. CASE ~buf.write
    BY <1>4, <1>6, <2>1, <2>3 DEF Transferred, buf0
  <2> QED
    BY <1>6, <2>2, <2>3
<1>12. DriverTypes'
  BY <1>1, <1>7, <1>9, <1>10 DEF DriverTypes
<1>13. Formed'
  BY <1>1, <1>3, <1>9, <1>10 DEF Formed
<1>14. Taken'
  BY <1>3, <1>7, <1>9, <1>10, <1>11 DEF Taken, Published
<1>15. Mounting' /\ Started'
  BY <1>1, <1>2, <1>7, <1>9, <1>10 DEF Mounting, Started
<1>16. Phases'
  BY <1>1, <1>3, <1>13, <1>14 DEF Phases, AtPoll
<1> QED
  BY <1>12, <1>15, <1>16

LEMMA UsedKeeps ==
  ASSUME DriverInv, device_used, UNCHANGED vol
  PROVE  DriverInv'
<1> USE DEF DriverInv
<1>1. /\ dev.at = "used" /\ buf' = buf /\ at' = at /\ idx' = idx /\ medium' = medium /\ vol' = vol
      /\ disk' = [disk EXCEPT !.used = [idx |-> (dev.used + 1) % IDX,
                                        ring |-> [disk.used.ring EXCEPT ![dev.used % NUM] = dev.head]]]
      /\ dev' = [dev EXCEPT !.used = (dev.used + 1) % IDX, !.at = "idle"]
  BY DEF device_used
<1>2. ~Settled /\ ~Behind /\ ~Waiting /\ ~Given /\ ~Unseen /\ ~Collected
  BY <1>1 DEF Settled, Behind, Waiting, Given, Unseen, Collected, Answered
<1>3. at \in {"notify", "poll"} /\ Formed /\ Taken
  BY <1>2 DEF Phases, AtIdle, AtFormat, AtPublish, AtPoll, DriverTypes
<1>4. /\ disk \in Disks /\ dev \in Devices /\ dev.used \in Indices
      /\ dev.used % NUM \in Descs /\ (dev.used + 1) % IDX \in Indices
  <2>1. disk \in Disks /\ dev \in Devices
    BY DEF DriverTypes
  <2>2. dev.used \in Indices
    BY <2>1 DEF Devices
  <2> QED
    BY <2>1, <2>2, Indexing
<1>5. /\ dev.head = 0 /\ dev.used = disk.used_idx /\ dev.seen = disk.avail.idx
      /\ disk.avail.idx = (dev.used + 1) % IDX
  BY <1>3 DEF Taken, Published
<1>6. /\ dev' \in Devices /\ dev'.at = "idle" /\ dev'.max = dev.max
      /\ dev'.seen = disk.avail.idx /\ dev'.used = disk.avail.idx
  BY <1>1, <1>4, <1>5 DEF Devices
<1>7. /\ disk' \in Disks /\ disk'.info = disk.info
      /\ disk'.desc = disk.desc /\ disk'.avail = disk.avail
      /\ disk'.free = disk.free /\ disk'.used_idx = disk.used_idx /\ disk'.ops = disk.ops
      /\ disk'.initialised = disk.initialised
      /\ disk'.used.idx = disk.avail.idx /\ disk'.used.ring[disk.used_idx % NUM] = 0
  <2> DEFINE used == [idx |-> (dev.used + 1) % IDX,
                      ring |-> [disk.used.ring EXCEPT ![dev.used % NUM] = dev.head]]
  <2>1. disk.used.ring \in [Descs -> Descs]
    BY <1>4 DEF Disks, Rings
  <2>2. used \in Rings /\ used.idx = disk.avail.idx /\ used.ring[disk.used_idx % NUM] = 0
    BY <1>4, <1>5, <2>1, Indexing DEF Rings
  <2>3. disk' = [disk EXCEPT !.used = used]
    BY <1>1
  <2> HIDE DEF used
  <2> QED
    BY <1>4, <2>2, <2>3 DEF Disks
<1>8. DriverTypes'
  BY <1>1, <1>6, <1>7 DEF DriverTypes
<1>9. Formed'
  BY <1>1, <1>3, <1>7 DEF Formed
<1>10. Given'
  BY <1>1, <1>3, <1>6, <1>7 DEF Given, Taken, Published, Answered, Transferred
<1>11. Mounting' /\ Started'
  BY <1>1, <1>2, <1>6, <1>7 DEF Mounting, Started
<1>12. Phases'
  BY <1>1, <1>3, <1>9, <1>10 DEF Phases, AtPoll
<1> QED
  BY <1>8, <1>11, <1>12

-----------------------------------------------------------------------------
(* The steps of the driver.                                                *)

\* The caller of the volume mounts it: the rings start anew.  If the device has
\* answered a request already, the driver is behind from here on.
LEMMA InitKeeps ==
  ASSUME DriverInv, virtio_disk_init, vol = "none", vol' = "mounting"
  PROVE  DriverInv'
<1> USE DEF DriverInv
<1>1. /\ at = "idle" /\ at' = at /\ buf' = buf /\ idx' = idx /\ dev' = dev /\ medium' = medium
      /\ buf.buff = <<>>
  BY DEF virtio_disk_init, Mounting
<1>2. CASE dev.max < NUM
  <2>1. disk' = disk
    BY <1>2 DEF virtio_disk_init
  <2>2. disk.used_idx = 0 /\ ~disk.initialised
    BY <1>2 DEF Started
  <2>3. ~Behind
    BY <2>2 DEF Behind
  <2>4. Settled /\ AtIdle
    BY <1>1, <2>3 DEF Phases, AtIdle
  <2>5. Settled'
    BY <1>1, <2>1, <2>4 DEF Settled, Answered
  <2>6. Phases'
    BY <1>1, <2>1, <2>2, <2>5 DEF Phases, AtIdle
  <2> QED
    BY <1>1, <2>1, <2>2, <2>6 DEF DriverTypes, Mounting, Started
<1>3. CASE ~(dev.max < NUM)
  <2>1. disk \in Disks /\ disk0.desc \in Tables /\ ring0 \in Rings /\ ring0.idx = 0
    <3>1. desc0 \in Descriptors
      BY Indexing DEF desc0, Descriptors
    <3>2. disk0.desc \in Tables
      BY <3>1 DEF disk0, Tables
    <3> QED
      BY <3>2, Indexing DEF ring0, Rings, DriverTypes
  <2>2. disk' = [disk EXCEPT !.desc = disk0.desc, !.avail = ring0, !.used = ring0,
                             !.free = [i \in Descs |-> TRUE], !.initialised = TRUE]
    BY <1>3 DEF virtio_disk_init
  <2>3. /\ disk' \in Disks /\ disk'.avail = ring0 /\ disk'.used = ring0
        /\ disk'.free = [i \in Descs |-> TRUE]
        /\ disk'.initialised = TRUE /\ disk'.used_idx = disk.used_idx
    BY <2>1, <2>2 DEF Disks
  <2>4. AllFree'
    BY <2>3 DEF AllFree
  <2>5. disk.used_idx \in {0, 1} /\ Answered(disk.used_idx)
    BY <1>1 DEF Mounting, Phases, AtIdle, Settled, Behind
  <2>6. IF disk.used_idx = 0 THEN Settled' ELSE Behind' /\ disk'.avail.idx = 0
    BY <1>1, <2>1, <2>3, <2>5 DEF Settled, Behind, Answered
  <2>7. Phases'
    BY <1>1, <2>4, <2>6 DEF Phases, AtIdle
  <2>8. DriverTypes'
    BY <1>1, <2>3 DEF DriverTypes
  <2>9. Mounting' /\ Started'
    BY <1>1, <1>3, <2>3, <2>5, <2>6 DEF Mounting, Started
  <2> QED
    BY <2>7, <2>8, <2>9
<1> QED
  BY <1>2, <1>3

\* disk_read and disk_write begin.
LEMMA RwKeeps ==
  ASSUME DriverInv, NEW sector \in Sectors, NEW todo, NEW write \in BOOLEAN,
         disk_rw(sector, todo, write), UNCHANGED vol, vol # "none",
         vol # "mounted" => buf.buff = <<>> /\ Len(todo) = 1
  PROVE  DriverInv'
<1> USE DEF DriverInv
<1>1. /\ at = "idle" /\ at' = "format" /\ disk' = disk /\ idx' = idx /\ dev' = dev
      /\ medium' = medium /\ vol' = vol
      /\ buf' = [buf0 EXCEPT !.blockno = sector, !.todo = todo, !.data = todo[1], !.write = write]
  BY DEF disk_rw
<1>2. disk.initialised
  BY DEF disk_rw, disk_status, virtio_disk_status
<1>3. /\ DOMAIN buf' = DOMAIN buf0 /\ buf'.blockno = sector /\ buf'.disk = FALSE
      /\ buf'.write = write /\ buf'.buff = <<>> /\ buf'.todo = todo
  BY <1>1 DEF buf0
<1>4. DriverTypes'
  <2>1. <<>> \in Seq({})
    OBVIOUS
  <2> QED
    BY <1>1, <1>3, <2>1 DEF DriverTypes
<1>5. AtIdle
  BY <1>1 DEF Phases
<1>6. (Behind => Behind') /\ (Settled => Settled')
  BY <1>1, <1>3 DEF Behind, Settled, Answered
<1>7. Phases'
  BY <1>1, <1>2, <1>5, <1>6 DEF Phases, AtIdle, AtFormat, AllFree
<1>8. Mounting'
  BY <1>1, <1>3, <1>6 DEF Mounting
<1>9. Started'
  BY <1>1, <1>2 DEF Started
<1> QED
  BY <1>4, <1>7, <1>8, <1>9

LEMMA FormatKeeps ==
  ASSUME DriverInv, rw_format, UNCHANGED vol
  PROVE  DriverInv'
<1> USE DEF DriverInv
<1>1. at = "format" /\ at' = "publish" /\ dev' = dev /\ medium' = medium /\ vol' = vol
      /\ buf' = [buf EXCEPT !.disk = TRUE]
  BY DEF rw_format
<1>2. /\ disk \in Disks /\ AtFormat /\ buf.write \in BOOLEAN /\ buf.blockno \in Sectors
      /\ disk.used_idx \in Indices /\ disk.avail \in Rings /\ disk.avail.idx \in Indices
      /\ DOMAIN buf = DOMAIN buf0
  BY <1>1 DEF Phases, DriverTypes, Disks, Rings
<1>3. alloc3_desc = <<0, 1, 2>>
  BY <1>2, Allocates DEF AtFormat
<1> DEFINE free == [i \in Descs |-> disk.free[i] /\ i \notin {0, 1, 2}]
           op == [type |-> IF buf.write THEN "out" ELSE "in", sector |-> buf.blockno]
           ops == [disk.ops EXCEPT ![0] = op]
           d0 == [addr |-> "op", of |-> 0, write |-> FALSE, more |-> TRUE, next |-> 1]
           d1 == [addr |-> "data", of |-> 0, write |-> ~buf.write, more |-> TRUE, next |-> 2]
           d2 == [addr |-> "status", of |-> 0, write |-> TRUE, more |-> FALSE, next |-> 0]
           desc == [disk.desc EXCEPT ![0] = d0, ![1] = d1, ![2] = d2]
           info == [disk.info EXCEPT ![0] = [b |-> TRUE, status |-> 255]]
           avail == [disk.avail EXCEPT !.ring[disk.avail.idx % NUM] = 0]
<1>4. idx' = <<0, 1, 2>>
  BY <1>3 DEF rw_format
<1>5. disk' = [disk EXCEPT !.free = free, !.ops = ops, !.desc = desc, !.info = info, !.avail = avail]
  <2> HIDE DEF op, d0, d1, d2
  <2>1. disk' = [disk EXCEPT
                   !.free = [i \in Descs |-> disk.free[i] /\ i \notin {0, 1, 2}],
                   !.ops[0] = op, !.desc = [disk.desc EXCEPT ![0] = d0, ![1] = d1, ![2] = d2],
                   !.info[0] = [b |-> TRUE, status |-> 255],
                   !.avail.ring[disk.avail.idx % NUM] = 0]
    BY <1>3 DEF rw_format, op, d0, d1, d2
  <2> QED
    BY <1>2, <2>1 DEF Disks
<1>6. free \in [Descs -> BOOLEAN] /\ \A i \in Descs : free[i] <=> i \notin {0, 1, 2}
  BY <1>2 DEF AtFormat, AllFree
<1>7. ops \in Headers /\ ops[0] = op
  BY <1>2, Indexing DEF Headers, Disks
<1>8. /\ desc \in Tables
      /\ desc[0] = d0 /\ desc[1] = d1 /\ desc[2] = d2
  <2>1. d0 \in Descriptors /\ d1 \in Descriptors /\ d2 \in Descriptors
    BY <1>2, Indexing DEF Descriptors
  <2>2. disk.desc \in Tables
    BY <1>2 DEF Disks
  <2> HIDE DEF d0, d1, d2
  <2> QED
    BY <2>1, <2>2, Indexing DEF Tables
<1>9. info \in Infos /\ info[0].b = TRUE /\ info[0].status = 255
  BY <1>2, Indexing DEF Infos, Disks
<1>10. avail \in Rings /\ avail.idx = disk.avail.idx /\ avail.ring[disk.avail.idx % NUM] = 0
  BY <1>2, Indexing DEF Rings
<1> HIDE DEF free, ops, desc, info, avail
<1>11. /\ disk' \in Disks /\ disk'.free = free /\ disk'.ops = ops /\ disk'.desc = desc
       /\ disk'.info = info /\ disk'.avail = avail
       /\ disk'.used = disk.used /\ disk'.used_idx = disk.used_idx
       /\ disk'.initialised = disk.initialised
  BY <1>2, <1>5, <1>6, <1>7, <1>8, <1>9, <1>10 DEF Disks
<1>12. /\ DOMAIN buf' = DOMAIN buf0 /\ buf'.disk = TRUE /\ buf'.blockno = buf.blockno
       /\ buf'.write = buf.write /\ buf'.buff = buf.buff /\ buf'.todo = buf.todo
  BY <1>1, <1>2 DEF buf0
<1>13. DriverTypes'
  BY <1>1, <1>11, <1>12 DEF DriverTypes
<1>14. Formed'
  <2>1. /\ desc[0].addr = "op" /\ desc[0].of = 0 /\ desc[0].more /\ desc[0].next = 1
        /\ desc[1].addr = "data" /\ desc[1].more /\ desc[1].next = 2
        /\ desc[2].addr = "status" /\ desc[2].of = 0 /\ ~desc[2].more
    BY <1>8
  <2>2. desc[1].write <=> ~buf'.write
    <3>1. desc[1].write = ~buf.write
      BY <1>8
    <3>2. buf'.write = buf.write
      BY <1>12
    <3> QED
      BY <3>1, <3>2
  <2>3. ops[0] = [type |-> IF buf'.write THEN "out" ELSE "in", sector |-> buf'.blockno]
    BY <1>7, <1>12
  <2> QED
    BY <1>4, <1>6, <1>9, <1>11, <2>1, <2>2, <2>3 DEF Formed
<1>15. Pending'
  BY <1>9, <1>11, <1>12 DEF Pending
<1>16. /\ Settled => Settled' /\ disk'.avail.ring[disk'.used_idx % NUM] = 0
       /\ Behind => Behind' /\ disk'.avail.idx = disk.avail.idx
  BY <1>1, <1>10, <1>11, <1>12 DEF Settled, Behind, Answered
<1>17. Phases'
  BY <1>1, <1>2, <1>10, <1>11, <1>14, <1>15, <1>16 DEF Phases, AtFormat, AtPublish
<1>18. Mounting' /\ Started'
  BY <1>1, <1>11, <1>12, <1>16 DEF Mounting, Started
<1> QED
  BY <1>13, <1>17, <1>18

LEMMA PublishKeeps ==
  ASSUME DriverInv, rw_publish, UNCHANGED vol
  PROVE  DriverInv'
<1> USE DEF DriverInv
<1>1. /\ at = "publish" /\ at' = "notify" /\ dev' = dev /\ medium' = medium /\ vol' = vol
      /\ buf' = buf /\ idx' = idx /\ disk' = [disk EXCEPT !.avail.idx = (disk.avail.idx + 1) % IDX]
  BY DEF rw_publish
<1>2. AtPublish /\ disk \in Disks /\ disk.avail \in Rings /\ disk.avail.idx \in Indices
      /\ (disk.avail.idx + 1) % IDX \in Indices
  <2>1. AtPublish /\ disk \in Disks
    BY <1>1 DEF Phases, DriverTypes
  <2>2. disk.avail \in Rings /\ disk.avail.idx \in Indices
    BY <2>1 DEF Disks, Rings
  <2> QED
    BY <2>1, <2>2, Indexing
<1> DEFINE avail == [disk.avail EXCEPT !.idx = (disk.avail.idx + 1) % IDX]
<1>3. disk' = [disk EXCEPT !.avail = avail]
  BY <1>1, <1>2 DEF Disks
<1>4. avail \in Rings /\ avail.idx = (disk.avail.idx + 1) % IDX /\ avail.ring = disk.avail.ring
  BY <1>2 DEF Rings
<1> HIDE DEF avail
<1>5. /\ disk' \in Disks /\ disk'.avail = avail /\ disk'.info = disk.info /\ disk'.desc = disk.desc
      /\ disk'.used = disk.used /\ disk'.free = disk.free /\ disk'.used_idx = disk.used_idx
      /\ disk'.ops = disk.ops /\ disk'.initialised = disk.initialised
  BY <1>2, <1>3, <1>4 DEF Disks
<1>6. DriverTypes' /\ Formed' /\ Pending'
  BY <1>1, <1>2, <1>5 DEF DriverTypes, AtPublish, Formed, Pending
<1>7. Settled /\ disk.avail.ring[disk.used_idx % NUM] = 0 => Waiting'
  BY <1>1, <1>4, <1>5, <1>6 DEF Settled, Waiting, Answered, Published
<1>8. Behind /\ disk.avail.idx = 0 => Unseen'
  <2> SUFFICES ASSUME Behind, disk.avail.idx = 0 PROVE Unseen'
    OBVIOUS
  <2>1. disk'.avail.idx = 1
    BY <1>4, <1>5, Indexing
  <2> QED
    BY <1>1, <1>5, <1>6, <2>1 DEF Behind, Unseen, Answered
<1>9. Behind => Behind'
  BY <1>1, <1>5 DEF Behind, Answered
<1>10. Phases'
  BY <1>1, <1>2, <1>6, <1>7, <1>8 DEF Phases, AtPublish, AtPoll
<1>11. Mounting' /\ Started'
  BY <1>1, <1>5, <1>9 DEF Mounting, Started
<1> QED
  BY <1>6, <1>10, <1>11

LEMMA NotifyKeeps ==
  ASSUME DriverInv, rw_notify, UNCHANGED vol
  PROVE  DriverInv'
<1> USE DEF DriverInv
<1>1. /\ at = "notify" /\ at' = "poll" /\ medium' = medium /\ vol' = vol
      /\ buf' = buf /\ idx' = idx /\ disk' = disk /\ dev' = [dev EXCEPT !.on = TRUE]
  BY DEF rw_notify
<1>2. AtPoll /\ dev \in Devices
  BY <1>1 DEF Phases, DriverTypes
<1>3. /\ dev' \in Devices /\ dev'.at = dev.at /\ dev'.seen = dev.seen /\ dev'.used = dev.used
      /\ dev'.head = dev.head /\ dev'.max = dev.max
  BY <1>1, <1>2 DEF Devices
<1>4. /\ Waiting' = Waiting /\ Taken' = Taken /\ Given' = Given /\ Unseen' = Unseen
      /\ Behind' = Behind /\ Formed' = Formed
  BY <1>1, <1>3 DEF Waiting, Taken, Given, Unseen, Behind, Formed, Answered, Published, Pending, Transferred
<1>5. Phases'
  BY <1>1, <1>2, <1>4 DEF Phases, AtPoll
<1>6. DriverTypes' /\ Mounting' /\ Started'
  BY <1>1, <1>3, <1>4 DEF DriverTypes, Mounting, Started
<1> QED
  BY <1>5, <1>6

LEMMA IntrKeeps ==
  ASSUME DriverInv, virtio_disk_intr, UNCHANGED vol
  PROVE  DriverInv'
<1> USE DEF DriverInv
<1> DEFINE id == disk.used.ring[disk.used_idx % NUM]
<1>1. /\ at = "poll" /\ at' = at /\ idx' = idx /\ dev' = dev /\ medium' = medium /\ vol' = vol
      /\ buf.disk /\ disk.used_idx # disk.used.idx /\ disk.info[id].status = 0
      /\ buf' = [buf EXCEPT !.disk = ~disk.info[id].b]
      /\ disk' = [disk EXCEPT !.used_idx = (disk.used_idx + 1) % IDX]
  BY DEF virtio_disk_intr
<1>2. /\ AtPoll /\ disk \in Disks /\ disk.used_idx \in Indices /\ DOMAIN buf = DOMAIN buf0
      /\ (disk.used_idx + 1) % IDX \in Indices /\ 1 % NUM \in Descs
  <2>1. AtPoll /\ disk \in Disks /\ DOMAIN buf = DOMAIN buf0
    BY <1>1 DEF Phases, DriverTypes
  <2>2. disk.used_idx \in Indices
    BY <2>1 DEF Disks
  <2> QED
    BY <2>1, <2>2, Indexing
<1>3. ~Unseen
  <2> SUFFICES ASSUME Unseen PROVE FALSE
    OBVIOUS
  <2>1. id = 0
    BY <1>2 DEF Unseen, Behind, ring0
  <2> QED
    BY <1>1, <2>1 DEF Unseen, Pending
<1>4. Formed /\ Given
  BY <1>1, <1>2, <1>3 DEF AtPoll, Waiting, Taken, Collected
<1>5. id = 0 /\ disk.info[0].b /\ Transferred /\ Published
  BY <1>1, <1>4 DEF Given, Formed
<1>6. /\ disk' \in Disks /\ disk'.used_idx = disk.avail.idx /\ disk'.avail = disk.avail
      /\ disk'.info = disk.info /\ disk'.desc = disk.desc
      /\ disk'.used = disk.used /\ disk'.free = disk.free
      /\ disk'.ops = disk.ops /\ disk'.initialised = disk.initialised
  BY <1>1, <1>2, <1>5 DEF Disks, Published
<1>7. /\ DOMAIN buf' = DOMAIN buf0 /\ buf'.disk = FALSE /\ buf'.blockno = buf.blockno
      /\ buf'.write = buf.write /\ buf'.buff = buf.buff /\ buf'.todo = buf.todo /\ buf'.data = buf.data
  BY <1>1, <1>2, <1>5 DEF buf0
<1>8. DriverTypes'
  BY <1>1, <1>6, <1>7 DEF DriverTypes
<1>9. Formed'
  BY <1>1, <1>4, <1>6, <1>7 DEF Formed
<1>10. Collected'
  BY <1>1, <1>4, <1>5, <1>6, <1>7 DEF Collected, Given, Settled, Answered, Transferred
<1>11. Phases'
  BY <1>1, <1>9, <1>10 DEF Phases, AtPoll
<1>12. ~Behind
  BY <1>4 DEF Behind, Given, Answered, ring0
<1>13. vol # "mounted" => disk'.used_idx = 1
  <2> SUFFICES ASSUME vol # "mounted" PROVE disk'.used_idx = 1
    OBVIOUS
  <2>1. vol = "mounting" /\ buf.buff = <<>>
    BY <1>1 DEF Mounting
  <2>2. disk.used_idx = 0
    BY <1>1, <1>12, <2>1 DEF Mounting
  <2> QED
    BY <1>5, <1>6, <2>2, Indexing DEF Published
<1>14. Mounting' /\ Started'
  BY <1>1, <1>6, <1>7, <1>13 DEF Mounting, Started
<1> QED
  BY <1>8, <1>11, <1>14

LEMMA ReturnKeeps ==
  ASSUME DriverInv, rw_return, UNCHANGED vol
  PROVE  DriverInv'
<1> USE DEF DriverInv
<1>1. /\ at = "poll" /\ idx' = idx /\ dev' = dev /\ medium' = medium /\ vol' = vol
      /\ ~buf.disk /\ disk' = free_chain(idx[1])
      /\ buf' = [buf EXCEPT !.buff = Append(buf.buff, buf.data), !.todo = Tail(buf.todo),
                            !.data = IF Len(buf.todo) = 1 THEN buf.data ELSE buf.todo[2]]
      /\ at' = IF Len(buf.todo) = 1 THEN "idle" ELSE "format"
  BY DEF rw_return
<1>2. AtPoll /\ disk \in Disks /\ DOMAIN buf = DOMAIN buf0
  BY <1>1 DEF Phases, DriverTypes
<1>3. Formed /\ Collected
  BY <1>1, <1>2 DEF AtPoll, Waiting, Taken, Given, Unseen, Pending
<1>4. idx[1] = 0 /\ chain(0) = {0, 1, 2}
  BY <1>3, Chained DEF Formed
<1> DEFINE desc == [j \in Descs |-> IF j \in chain(0) THEN desc0 ELSE disk.desc[j]]
           free == [j \in Descs |-> disk.free[j] \/ j \in chain(0)]
           info == [disk.info EXCEPT ![0].b = FALSE]
<1>5. disk' = [disk EXCEPT !.desc = desc, !.free = free, !.info = info]
  BY <1>1, <1>2, <1>4 DEF free_chain, Disks
<1>6. desc \in Tables
  <2>1. desc0 \in Descriptors /\ disk.desc \in Tables
    BY <1>2, Indexing DEF desc0, Descriptors, Disks
  <2> QED
    BY <2>1 DEF Tables
<1>7. free \in [Descs -> BOOLEAN] /\ \A j \in Descs : free[j]
  BY <1>3, <1>4 DEF Formed
<1>8. info \in Infos
  <2> DEFINE Info == [b : BOOLEAN, status : {0, 1, 255}]
             x == [disk.info[0] EXCEPT !.b = FALSE]
  <2>1. disk.info \in [Descs -> Info] /\ 0 \in Descs
    BY <1>2, Indexing DEF Disks, Infos
  <2>2. disk.info[0] \in Info
    BY <2>1
  <2>3. x \in Info
    BY <2>2
  <2>4. info = [disk.info EXCEPT ![0] = x]
    OBVIOUS
  <2> HIDE DEF Info, x, info
  <2>5. info \in [Descs -> Info]
    BY <2>1, <2>3, <2>4
  <2> QED
    BY <2>5 DEF Infos, Info
<1> HIDE DEF desc, free, info
<1>9. /\ disk' \in Disks /\ disk'.free = free /\ disk'.avail = disk.avail /\ disk'.used = disk.used
      /\ disk'.used_idx = disk.used_idx /\ disk'.initialised = disk.initialised
  BY <1>2, <1>5, <1>6, <1>7, <1>8 DEF Disks
<1>10. /\ DOMAIN buf' = DOMAIN buf0 /\ buf'.disk = buf.disk /\ buf'.blockno = buf.blockno
       /\ buf'.write = buf.write /\ buf'.buff = Append(buf.buff, buf.data)
  BY <1>1, <1>2 DEF buf0
<1>11. PICK S : buf.buff \in Seq(S)
  BY DEF DriverTypes
<1>12. /\ buf'.buff \in Seq(S \union {buf.data}) /\ buf'.buff # <<>>
       /\ buf'.buff[Len(buf'.buff)] = buf.data
  BY <1>10, <1>11, Appended
<1>13. DriverTypes'
  BY <1>1, <1>9, <1>10, <1>12 DEF DriverTypes
<1>14. AllFree' /\ Settled'
  BY <1>1, <1>3, <1>7, <1>9 DEF AllFree, Collected, Settled, Answered
<1>15. buf'.buff[Len(buf'.buff)] = medium'[buf'.blockno]
  BY <1>1, <1>3, <1>10, <1>12 DEF Collected, Transferred
<1>16. Phases'
  BY <1>1, <1>14, <1>15 DEF Phases, AtIdle, AtFormat
<1>17. vol # "mounted" => at' = "idle"
  BY <1>1 DEF Mounting
<1>18. Mounting'
  BY <1>1, <1>9, <1>12, <1>17 DEF Mounting
<1>19. Started'
  BY <1>1, <1>9 DEF Started
<1> QED
  BY <1>13, <1>16, <1>18, <1>19

\* The caller has what it asked for, or has given up on the volume.
LEMMA ForgetKeeps ==
  ASSUME DriverInv, at = "idle", buf' = buf0, UNCHANGED <<disk, at, idx, dev, medium>>,
         \/ vol = "mounted" /\ vol' = vol
         \/ vol = "mounting" /\ vol' = "none"
         \/ vol = "mounting" /\ buf.buff # <<>> /\ vol' = "mounted"
  PROVE  DriverInv'
<1> USE DEF DriverInv
<1>1. /\ buf'.buff = <<>> /\ buf'.disk = FALSE /\ buf'.write = FALSE /\ buf'.blockno = 0
      /\ DOMAIN buf' = DOMAIN buf0 /\ 0 \in Sectors
  BY VirtioAssumption DEF buf0, Sectors
<1>2. DriverTypes'
  <2>1. <<>> \in Seq({})
    OBVIOUS
  <2> QED
    BY <1>1, <2>1 DEF DriverTypes
<1>3. AtIdle
  BY DEF Phases
<1>4. /\ Settled => Settled'
      /\ Behind => Behind'
  BY <1>1 DEF Settled, Behind, Answered
<1>5. Phases'
  BY <1>1, <1>3, <1>4 DEF Phases, AtIdle, AllFree
<1>6. Mounting' /\ Started'
  BY <1>1, <1>4 DEF Mounting, Started
<1> QED
  BY <1>2, <1>5, <1>6

\* What leaves the driver, the device and the volume alone.
LEMMA StutterKeeps ==
  ASSUME DriverInv, UNCHANGED virtioVars, UNCHANGED vol
  PROVE  DriverInv'
BY DEF virtioVars, DriverInv, DriverTypes, Mounting, Started, Phases, AtIdle, AtFormat, AtPublish, AtPoll,
       Settled, Behind, Waiting, Taken, Given, Unseen, Collected, Answered, Published, Pending,
       Transferred, Formed, AllFree

-----------------------------------------------------------------------------
(* The whole.                                                              *)

LEMMA DriverStart ==
  ASSUME TutInit
  PROVE  DriverInv
<1>1. /\ disk = disk0 /\ buf = buf0 /\ at = "idle" /\ vol = "none"
      /\ dev \in {dev0(max) : max \in {0, NUM}}
      /\ medium = [s \in Sectors |-> IF s = 0 THEN 1 ELSE 0]
  BY DEF TutInit, VirtioInit, Sectors
<1>2. 0 \in Descs /\ 0 \in Indices /\ 0 \in Sectors /\ NUM \in Nat
  BY Indexing, VirtioAssumption DEF Sectors
<1>3. disk0 \in Disks
  <2>1. desc0 \in Descriptors
    BY <1>2 DEF desc0, Descriptors
  <2>2. [i \in Descs |-> desc0] \in Tables
    BY <2>1 DEF Tables
  <2>3. ring0 \in Rings
    BY <1>2 DEF ring0, Rings
  <2>4. [i \in Descs |-> [b |-> FALSE, status |-> 0]] \in Infos
    BY DEF Infos
  <2>5. [i \in Descs |-> [type |-> "in", sector |-> 0]] \in Headers
    BY <1>2 DEF Headers
  <2>6. [i \in Descs |-> FALSE] \in [Descs -> BOOLEAN]
    OBVIOUS
  <2> QED
    BY <1>2, <2>2, <2>3, <2>4, <2>5, <2>6 DEF disk0, Disks
<1>4. /\ dev \in Devices /\ dev.at = "idle" /\ dev.seen = 0 /\ dev.used = 0
  <2>1. PICK max \in {0, NUM} : dev = dev0(max)
    BY <1>1
  <2> QED
    BY <1>2, <2>1 DEF dev0, Devices
<1>5. /\ buf.buff = <<>> /\ buf.disk = FALSE /\ buf.write = FALSE /\ buf.blockno = 0
      /\ DOMAIN buf = DOMAIN buf0 /\ <<>> \in Seq({})
  BY <1>1 DEF buf0
<1>6. /\ disk.used_idx = 0 /\ disk.avail.idx = 0 /\ disk.used.idx = 0 /\ disk.initialised = FALSE
  BY <1>1 DEF disk0, ring0
<1>7. DriverTypes
  BY <1>1, <1>2, <1>3, <1>4, <1>5 DEF DriverTypes
<1>8. Settled
  BY <1>4, <1>6 DEF Settled, Answered
<1>9. Mounting /\ Started /\ Phases
  BY <1>1, <1>5, <1>6, <1>8 DEF Mounting, Started, Phases, AtIdle
<1> QED
  BY <1>7, <1>9 DEF DriverInv

LEMMA DriverStep ==
  ASSUME DriverInv, [TutNext]_tutVars
  PROVE  DriverInv'
<1>1. CASE UNCHANGED tutVars
  BY <1>1, StutterKeeps DEF tutVars, progVars
<1>2. CASE KernelNext /\ UNCHANGED virtioVars /\ UNCHANGED progVars
  BY <1>2, StutterKeeps DEF progVars
<1>3. CASE device /\ stays /\ UNCHANGED progVars
  <2>1. UNCHANGED vol
    BY <1>3 DEF progVars
  <2> QED
    BY <1>3, <2>1, FetchKeeps, TransferKeeps, UsedKeeps DEF device
<1>4. ASSUME NEW h \in Harts, NEW s, program(h, s)
      PROVE  DriverInv'
  <2>1. CASE program_call(h, s)
    BY <2>1, StutterKeeps DEF program_call, progVars
  <2>2. CASE program_return(h, s)
    BY <2>2, StutterKeeps DEF program_return, progVars
  <2>3. CASE program_set(h, s)
    BY <2>3, StutterKeeps DEF program_set
  <2>4. CASE program_access(h, s)
    BY <2>4, StutterKeeps DEF program_access
  <2>5. CASE program_fault(h, s)
    BY <2>5, StutterKeeps DEF program_fault, progVars
  <2>6. CASE program_mret(h, s)
    BY <2>6, StutterKeeps DEF program_mret, progVars
  <2>7. CASE mount_volume(h, s)
    <3>1. CASE vol = "none" /\ disk_initialize /\ vol' = "mounting"
      BY <3>1, InitKeeps DEF disk_initialize
    <3>2. CASE vol = "mounting" /\ buf.buff = <<>> /\ disk_read(0, 1) /\ UNCHANGED vol
      <4>1. 0 \in Sectors /\ FALSE \in BOOLEAN
        BY VirtioAssumption DEF Sectors
      <4>2. Len([i \in 1..1 |-> 0]) = 1
        OBVIOUS
      <4>3. disk_rw(0, [i \in 1..1 |-> 0], FALSE)
        BY <3>2 DEF disk_read
      <4> QED
        BY <3>2, <4>1, <4>2, <4>3, RwKeeps
    <3> QED
      BY <2>7, <3>1, <3>2 DEF mount_volume
  <2>8. CASE mount_done(h, s)
    BY <2>8, ForgetKeeps DEF mount_done
  <2>9. CASE file_access(h, s)
    <3>1. vol = "mounted" /\ UNCHANGED vol
      BY <2>9 DEF file_access
    <3>2. PICK sector \in 1 .. SECTORS - 1 :
             \/ \E n \in 1 .. s.val : disk_read(sector, n)
             \/ s.must /\ \E d \in Data : disk_write(sector, <<d>>)
      BY <2>9 DEF file_access
    <3>3. sector \in Sectors
      BY VirtioAssumption DEF Sectors
    <3>4. ASSUME NEW n, disk_read(sector, n) PROVE DriverInv'
      <4>1. disk_rw(sector, [i \in 1..n |-> 0], FALSE)
        BY <3>4 DEF disk_read
      <4> QED
        BY <3>1, <3>3, <4>1, RwKeeps
    <3>5. ASSUME NEW d, disk_write(sector, <<d>>) PROVE DriverInv'
      <4>1. disk_rw(sector, <<d>>, TRUE)
        BY <3>5 DEF disk_write
      <4> QED
        BY <3>1, <3>3, <4>1, RwKeeps
    <3> QED
      BY <3>2, <3>4, <3>5
  <2>10. CASE file_driver(h, s)
    BY <2>10, FormatKeeps, PublishKeeps, NotifyKeeps, IntrKeeps, ReturnKeeps DEF file_driver
  <2>11. CASE file_return(h, s)
    BY <2>11, ForgetKeeps DEF file_return
  <2> QED
    BY <1>4, <2>1, <2>2, <2>3, <2>4, <2>5, <2>6, <2>7, <2>8, <2>9, <2>10, <2>11 DEF program
<1> QED
  BY <1>1, <1>2, <1>3, <1>4 DEF TutNext

\* The inductive invariant: in every phase of a request, where the driver's and
\* the device's counts are, and what is in the descriptors and the rings.
THEOREM DriverInvariant == TutSpec => []DriverInv
BY DriverStart, DriverStep, PTL DEF TutSpec

\* disk_read and disk_write return when the device has done the request and is
\* done with the buffer and the descriptors, and one sector comes from and goes to
\* its place on the disk, whatever the programs do, wherever their time slices
\* end, and however the device and the driver interleave.
THEOREM DiskAnswersHolds == TutSpec => []DiskAnswers
<1>1. ASSUME DriverInv PROVE DiskAnswers
  <2> SUFFICES ASSUME at = "idle"
               PROVE  /\ Len(buf.buff) = 1 => buf.buff[1] = medium[buf.blockno]
                      /\ dev.at = "idle"
                      /\ disk.initialised => \A i \in Descs : disk.free[i]
    BY DEF DiskAnswers
  <2>1. AtIdle
    BY <1>1 DEF DriverInv, Phases
  <2> QED
    BY <2>1 DEF AtIdle, Settled, Behind, Answered, AllFree
<1> QED
  BY DriverInvariant, <1>1, PTL
=============================================================================
