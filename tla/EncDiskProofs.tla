---------------------------- MODULE EncDiskProofs ----------------------------
(* What is stored on the encrypted disk is read back, and its key is on the *)
(* disk, for every size of disk, every disk to start with, and any number   *)
(* of keys, failures and resets.                                            *)
EXTENDS EncDisk, TLAPS

------------------------------------------------------------------------------
(* The TPM: how many objects a sequence of commands can leave behind.       *)

Outcome == [up : BOOLEAN, n : Nat, f : Nat, ok : BOOLEAN]

\* Outcome p comes after outcome o: at most d more objects than failures.
After(o, p, d) ==
  p \in Outcome /\ p.n <= SLOTS /\ o.f <= p.f /\ p.n - p.f <= o.n - o.f + d

LEMMA OutcomeUpdates ==
  /\ \A o \in Outcome, m \in Nat, b \in BOOLEAN :
       /\ [o EXCEPT !.f = m, !.ok = b] \in Outcome /\ [o EXCEPT !.n = m, !.ok = b] \in Outcome
       /\ [o EXCEPT !.ok = b] \in Outcome
BY DEF Outcome

LEMMA Fail ==
  ASSUME NEW o \in Outcome
  PROVE  /\ fail(o) \in Outcome /\ fail(o).n = o.n /\ fail(o).f = o.f + 1
         /\ fail(o).up = o.up /\ fail(o).ok = FALSE
<1>1. o.f + 1 \in Nat
  BY DEF Outcome
<1>2. fail(o) \in Outcome
  BY <1>1, OutcomeUpdates, Zenon DEF fail
<1>3. QED
  BY <1>2 DEF fail, Outcome

\* A command that loads an object leaves one, or none more than it failed.
LEMMA LoadObject ==
  ASSUME NEW o \in Outcome, o.n <= SLOTS, NEW p \in load_object(o)
  PROVE  /\ After(o, p, IF p.ok THEN 1 ELSE 0) /\ o.n <= p.n
         /\ p.ok => p.n = o.n + 1 /\ p.f = o.f
<1> DEFINE q == [o EXCEPT !.n = @ + 1, !.ok = TRUE]
<1>1. p = fail(o) \/ (o.n < SLOTS /\ (p = q \/ p = fail(q)))
  <2>1. p \in {fail(o)} \union {x \in {q, fail(q)} : o.up /\ o.n < SLOTS}
    BY Zenon DEF load_object
  <2> HIDE DEF q
  <2>3. QED
    BY <2>1
<1>2. q \in Outcome /\ q.n = o.n + 1 /\ q.f = o.f /\ q.ok = TRUE
  <2>1. o.n + 1 \in Nat
    BY DEF Outcome
  <2>2. q \in Outcome
    BY <2>1, OutcomeUpdates, Zenon
  <2>3. QED
    BY <2>2, Zenon DEF Outcome
<1>3. CASE p = fail(o)
  <2>1. p \in Outcome /\ p.n = o.n /\ p.f = o.f + 1 /\ p.ok = FALSE
    BY <1>3, Fail
  <2>2. QED
    BY <2>1, EncDiskAssumption DEF After, Outcome
<1>4. CASE o.n < SLOTS /\ p = q
  BY <1>2, <1>4, EncDiskAssumption DEF After, Outcome
<1>5. CASE o.n < SLOTS /\ p = fail(q)
  <2>1. p \in Outcome /\ p.n = q.n /\ p.f = q.f + 1 /\ p.ok = FALSE
    BY <1>2, <1>5, Fail
  <2>2. QED
    BY <1>2, <1>5, <2>1, EncDiskAssumption DEF After, Outcome
<1>6. QED
  BY <1>1, <1>3, <1>4, <1>5

\* The outcomes of a command without an effect on the objects.
LEMMA Answered ==
  ASSUME NEW o \in Outcome, o.n <= SLOTS, NEW b \in BOOLEAN,
         NEW p, p = fail(o) \/ p = [o EXCEPT !.ok = b]
  PROVE  After(o, p, 0) /\ p.n = o.n /\ (p = fail(o) => After(o, p, -1) /\ ~p.ok)
<1>1. p = fail(o) => p \in Outcome /\ p.n = o.n /\ p.f = o.f + 1 /\ ~p.ok
  BY Fail
<1>2. p = [o EXCEPT !.ok = b] => p \in Outcome /\ p.n = o.n /\ p.f = o.f
  BY DEF Outcome
<1>3. QED
  BY <1>1, <1>2, EncDiskAssumption DEF After, Outcome

LEMMA SendRaw ==
  ASSUME NEW o \in Outcome, o.n <= SLOTS, NEW p \in send_raw_command(o)
  PROVE  After(o, p, IF p.ok THEN 0 ELSE -1) /\ p.n = o.n
<1>1. p = fail(o) \/ p = [o EXCEPT !.ok = TRUE]
  BY DEF send_raw_command
<1>2. After(o, p, 0) /\ p.n = o.n /\ (p = fail(o) => After(o, p, -1) /\ ~p.ok)
  BY <1>1, Answered
<1>3. p = [o EXCEPT !.ok = TRUE] => p.ok
  BY DEF Outcome
<1>4. CASE p = fail(o)
  BY <1>2, <1>4
<1>5. CASE p.ok
  BY <1>2, <1>5
<1>6. QED
  BY <1>1, <1>3, <1>4, <1>5

LEMMA Unseal ==
  ASSUME NEW o \in Outcome, o.n <= SLOTS, NEW right \in BOOLEAN, NEW p \in tpm2_unseal(o, right)
  PROVE  After(o, p, 0) /\ p.n = o.n
<1>1. p = fail(o) \/ p = [o EXCEPT !.ok = right]
  BY DEF tpm2_unseal
<1>2. QED
  BY <1>1, Answered

\* flush_context takes an object out or counts a failure.
LEMMA Flush ==
  ASSUME NEW o \in Outcome, 0 < o.n, o.n <= SLOTS, NEW p \in flush_context(o)
  PROVE  After(o, p, -1) /\ o.n - 1 <= p.n
<1> DEFINE done == [o EXCEPT !.n = @ - 1, !.ok = TRUE]
<1>1. p = done \/ p = fail(done) \/ p = fail(o) \/ p = [fail(o) EXCEPT !.ok = TRUE]
  BY DEF flush_context
<1>2. done \in Outcome /\ done.n = o.n - 1 /\ done.f = o.f
  <2>1. o.n - 1 \in Nat
    BY DEF Outcome
  <2>2. done \in Outcome
    BY <2>1, OutcomeUpdates, Zenon
  <2>3. QED
    BY <2>2, Zenon DEF Outcome
<1>3. p = fail(done) => p \in Outcome /\ p.n = o.n - 1 /\ p.f = o.f + 1
  BY <1>2, Fail
<1>4. p = fail(o) => p \in Outcome /\ p.n = o.n /\ p.f = o.f + 1
  BY Fail
<1>5. p = [fail(o) EXCEPT !.ok = TRUE] => p \in Outcome /\ p.n = o.n /\ p.f = o.f + 1
  BY Fail DEF Outcome
<1>6. o.n \in Nat /\ o.f \in Nat
  BY DEF Outcome
<1>7. p \in Outcome /\ o.n - 1 <= p.n /\ p.n <= o.n /\ o.f <= p.f /\ p.n - p.f <= o.n - o.f - 1
  <2>1. CASE p = done
    BY <1>2, <1>6, <2>1
  <2>2. CASE p # done
    BY <1>1, <1>3, <1>4, <1>5, <1>6, <2>2
  <2>3. QED
    BY <2>1, <2>2
<1>8. QED
  BY <1>6, <1>7, EncDiskAssumption DEF After, Outcome

\* The same when the result of flush_context is ignored.
LEMMA FlushKeep ==
  ASSUME NEW o \in Outcome, 0 < o.n, o.n <= SLOTS, NEW q \in flush_context(o), NEW b \in BOOLEAN
  PROVE  LET p == [q EXCEPT !.ok = b]
         IN  After(o, p, -1) /\ o.n - 1 <= p.n
<1>1. After(o, q, -1) /\ o.n - 1 <= q.n
  BY Flush
<1>2. QED
  BY <1>1 DEF After, Outcome

LEMMA Provision ==
  ASSUME NEW o \in Outcome, o.n <= SLOTS, NEW p \in provision_master_key(o)
  PROVE  After(o, p, 0)
<1>1. PICK q \in Then(create_primary_srk(o), tpm2_create) :
        IF q.ok THEN p \in flush_context(q) ELSE p = q
  BY DEF provision_master_key, Then
<1>2. PICK r \in load_object(o) : IF r.ok THEN q \in send_raw_command(r) ELSE q = r
  BY <1>1 DEF Then, create_primary_srk, tpm2_create
<1>3. After(o, r, IF r.ok THEN 1 ELSE 0) /\ (r.ok => r.n = o.n + 1 /\ r.f = o.f)
  BY <1>2, LoadObject
<1>4. CASE ~r.ok
  BY <1>1, <1>2, <1>3, <1>4 DEF After
<1>5. CASE r.ok
  <2>1. After(r, q, IF q.ok THEN 0 ELSE -1) /\ q.n = r.n
    BY <1>2, <1>3, <1>5, SendRaw DEF After
  <2>2. CASE ~q.ok
    BY <1>1, <1>3, <1>5, <2>1, <2>2 DEF After, Outcome
  <2>3. CASE q.ok
    <3>1. After(q, p, -1)
      BY <1>1, <1>3, <1>5, <2>1, <2>3, Flush DEF After, Outcome
    <3>2. QED
      BY <1>3, <1>5, <2>1, <2>3, <3>1 DEF After, Outcome
  <2>4. QED
    BY <2>2, <2>3
<1>6. QED
  BY <1>4, <1>5

LEMMA Decrypt ==
  ASSUME NEW o \in Outcome, o.n <= SLOTS, NEW right \in BOOLEAN,
         NEW p \in decrypt_master_key(o, right)
  PROVE  After(o, p, 0)
<1> DEFINE keep(a, ok) == {[q EXCEPT !.ok = ok] : q \in flush_context(a)}
           unseal(a) == UNION {UNION {keep(s, r.ok) : s \in keep(r, r.ok)}
                                 : r \in tpm2_unseal(a, right)}
           load(a) == UNION {IF q.ok THEN unseal(q) ELSE keep(q, FALSE) : q \in tpm2_load(a)}
<1>1. PICK a \in load_object(o) : IF a.ok THEN p \in load(a) ELSE p = a
  BY DEF decrypt_master_key, Then, create_primary_srk
<1>2. After(o, a, IF a.ok THEN 1 ELSE 0) /\ (a.ok => a.n = o.n + 1 /\ a.f = o.f)
  BY <1>1, LoadObject
<1>3. CASE ~a.ok
  BY <1>1, <1>2, <1>3 DEF After
<1>4. CASE a.ok
  <2>1. PICK q \in load_object(a) : p \in IF q.ok THEN unseal(q) ELSE keep(q, FALSE)
    BY <1>1, <1>4 DEF tpm2_load
  <2>2. After(a, q, IF q.ok THEN 1 ELSE 0) /\ a.n <= q.n /\ (q.ok => q.n = a.n + 1 /\ q.f = a.f)
    BY <1>2, <2>1, LoadObject DEF After
  <2>3. q \in Outcome /\ q.n <= SLOTS /\ a \in Outcome
    BY <1>2, <2>2 DEF After
  <2>4. CASE ~q.ok
    <3>1. 0 < q.n
      BY <1>2, <1>4, <2>2, <2>3 DEF Outcome
    <3>2. PICK z \in flush_context(q) : p = [z EXCEPT !.ok = FALSE]
      BY <2>1, <2>4
    <3>3. After(q, p, -1)
      BY <2>3, <3>1, <3>2, FlushKeep
    <3>4. QED
      BY <1>2, <1>4, <2>2, <2>3, <2>4, <3>3 DEF After, Outcome
  <2>5. CASE q.ok
    <3>1. PICK r \in tpm2_unseal(q, right) : p \in UNION {keep(s, r.ok) : s \in keep(r, r.ok)}
      BY <2>1, <2>5
    <3>2. After(q, r, 0) /\ r.n = q.n
      BY <2>3, <3>1, Unseal
    <3>3. PICK s \in keep(r, r.ok) : p \in keep(s, r.ok)
      BY <3>1
    <3>4. r \in Outcome /\ r.n >= 2 /\ r.n <= SLOTS /\ r.ok \in BOOLEAN
      BY <1>2, <1>4, <2>2, <2>3, <2>5, <3>2 DEF After, Outcome
    <3>5. After(r, s, -1) /\ r.n - 1 <= s.n
      <4>1. PICK z \in flush_context(r) : s = [z EXCEPT !.ok = r.ok]
        BY <3>3
      <4>2. QED
        BY <3>4, <4>1, FlushKeep DEF Outcome
    <3>6. s \in Outcome /\ 0 < s.n /\ s.n <= SLOTS
      BY <3>4, <3>5 DEF After, Outcome
    <3>7. After(s, p, -1)
      <4>1. PICK z \in flush_context(s) : p = [z EXCEPT !.ok = r.ok]
        BY <3>3
      <4>2. QED
        BY <3>4, <3>6, <4>1, FlushKeep
    <3>8. QED
      BY <1>2, <1>4, <2>2, <2>3, <2>5, <3>2, <3>4, <3>5, <3>6, <3>7 DEF After, Outcome
  <2>6. QED
    BY <2>4, <2>5
<1>5. QED
  BY <1>3, <1>4

------------------------------------------------------------------------------
(* The invariant.                                                           *)

LEMMA Blobs ==
  /\ NoBlob \in [key : 0 .. MaxKeys, pin : Pins \union {"none"}]
  /\ \A k \in 0 .. MaxKeys, p \in Pins :
       [key |-> k, pin |-> p] \in [key : 0 .. MaxKeys, pin : Pins \union {"none"}]
BY EncDiskAssumption DEF NoBlob, NOKEY

LEMMA NewMetadataOk == NewMetadata \in Metadata /\ NewMetadata.magic = TRUE /\ NewMetadata.enc = FALSE
BY Blobs, Zenon DEF NewMetadata, Metadata

LEMMA MetadataUpdates ==
  \A m \in Metadata :
    LET s == [m EXCEPT !.enc = FALSE, !.blob = NoBlob]
    IN  s \in Metadata /\ s.magic = m.magic /\ s.enc = FALSE
BY Blobs, Zenon DEF Metadata

LEMMA TpmOk ==
  \A u \in BOOLEAN, n \in 0 .. SLOTS : [up |-> u, n |-> n] \in [up : BOOLEAN, n : 0 .. SLOTS]
BY Zenon

LEMMA Sectors ==
  /\ \A v \in Values \union {"boot", "zero", "junk"} : Plain(v) \in Sector
  /\ \A v \in Values \union {"boot", "zero", "junk"}, b \in Blocks, k \in 0 .. MaxKeys :
       encrypt_data(v, b, k) \in Sector
  /\ \A c \in Sector, b \in Int, k \in 0 .. MaxKeys :
       decrypt_data(c, b, k) \in Values \union {"boot", "zero", "junk"}
BY EncDiskAssumption DEF Plain, Sector, NOKEY, encrypt_data, decrypt_data, Blocks

LEMMA InitInv == Init => EncDiskInv
<1> SUFFICES ASSUME Init PROVE EncDiskInv
  OBVIOUS
<1> USE EncDiskAssumption
<1>1. PICK d \in Disks : meta = d.meta /\ data = d.data
  BY DEF Init
<1>2. meta \in Metadata /\ data \in [Blocks -> Sector]
  BY <1>1, DisksAssumption
<1>3. 0 \in Blocks
  BY DEF Blocks
<1>4. TypeOK
  <2>1. 0 \in 0 .. SLOTS
    OBVIOUS
  <2>2. tpm \in [up : BOOLEAN, n : 0 .. SLOTS]
    BY <2>1, TpmOk, Zenon DEF Init
  <2>3. written \in [Blocks -> Values \union {"boot", "zero", "none"}]
    BY DEF Init
  <2>4. md \in Metadata /\ key \in 0 .. MaxKeys /\ at \in 0 .. BLOCKS
    BY NewMetadataOk DEF Init, NOKEY
  <2>5. /\ mode \in {"Normal", "Encrypted", "Unlocked"} /\ spoiled \subseteq Blocks
        /\ pc \in {"boot", "clear", "load", "format", "serve", "disable", "dead"}
        /\ booting \in BOOLEAN /\ mounted \in BOOLEAN
    BY DEF Init
  <2>6. keys \in 0 .. MaxKeys /\ fails \in 0 .. MaxFails /\ resets \in 0 .. MaxResets
    BY DEF Init
  <2>7. QED
    BY <1>2, <2>2, <2>3, <2>4, <2>5, <2>6, Zenon DEF TypeOK
<1>5. DiskAgrees
  BY DEF Init, DiskAgrees
<1>6. MemoryAgrees
  BY <1>3, NewMetadataOk DEF Init, MemoryAgrees
<1>7. QED
  BY <1>4, <1>5, <1>6 DEF EncDiskInv, Init

LEMMA New == EncDiskInv /\ new => EncDiskInv'
<1> SUFFICES ASSUME EncDiskInv, new PROVE EncDiskInv'
  OBVIOUS
<1> USE EncDiskAssumption
<1>0. meta.magic \in BOOLEAN /\ meta.enc \in BOOLEAN
  BY DEF EncDiskInv, TypeOK, Metadata
<1>1. CASE meta.magic
  <2>1. TypeOK'
    BY <1>0, <1>1 DEF EncDiskInv, TypeOK, new, NOKEY
  <2>2. DiskAgrees'
    BY <1>1 DEF EncDiskInv, DiskAgrees, new
  <2>3. MemoryAgrees'
    BY <1>0, <1>1 DEF EncDiskInv, MemoryAgrees, TypeOK, new
  <2>4. QED
    BY <2>1, <2>2, <2>3 DEF EncDiskInv, new
<1>2. CASE ~meta.magic
  <2>1. TypeOK'
    BY <1>2, NewMetadataOk DEF EncDiskInv, TypeOK, new, NOKEY
  <2>2. DiskAgrees'
    BY <1>2 DEF EncDiskInv, DiskAgrees, MemoryAgrees, new
  <2>3. MemoryAgrees'
    BY <1>2, NewMetadataOk DEF EncDiskInv, MemoryAgrees, TypeOK, new
  <2>4. QED
    BY <2>1, <2>2, <2>3 DEF EncDiskInv, new
<1>3. QED
  BY <1>1, <1>2

LEMMA Clear == EncDiskInv /\ new_clear => EncDiskInv'
<1> SUFFICES ASSUME EncDiskInv, new_clear PROVE EncDiskInv'
  OBVIOUS
<1> USE EncDiskAssumption
<1>1. at \in Blocks /\ 0 \in Blocks /\ Plain("zero") \in Sector
  BY Sectors DEF EncDiskInv, TypeOK, MemoryAgrees, new_clear, Blocks
<1>2. TypeOK'
  BY <1>1, NewMetadataOk DEF EncDiskInv, TypeOK, new_clear, Blocks
<1>3. DiskAgrees'
  BY <1>1 DEF EncDiskInv, TypeOK, DiskAgrees, MemoryAgrees, new_clear
<1>4. MemoryAgrees'
  BY <1>1, NewMetadataOk DEF EncDiskInv, MemoryAgrees, TypeOK, new_clear, Blocks
<1>5. QED
  BY <1>2, <1>3, <1>4 DEF EncDiskInv, new_clear

\* A step that changes neither the disk nor the mode, the key and the metadata
\* in memory, and does not enter a phase with conditions of its own.
LEMMA Quiet ==
  ASSUME EncDiskInv, TypeOK', UNCHANGED <<disk, state>>,
         \/ pc' \in {"serve", "dead"} /\ (pc \notin {"boot", "clear", "dead"} \/ pc' = "dead")
         \/ pc' = pc /\ at' = at
         \/ pc' = "load" /\ mode # "Encrypted" /\ pc \notin {"boot", "clear", "dead"}
         \/ pc' = "format" /\ pc = "load" /\ at' = 0
         \/ pc' = "disable" /\ at' = 0 /\ mode = "Unlocked" /\ pc = "serve",
         tpm'.n <= fails'
  PROVE  EncDiskInv'
<1> USE EncDiskAssumption
<1>1. DiskAgrees'
  BY DEF EncDiskInv, DiskAgrees, disk
<1>2. MemoryAgrees'
  BY DEF EncDiskInv, MemoryAgrees, TypeOK, disk, state, Blocks
<1>3. QED
  BY <1>1, <1>2 DEF EncDiskInv

\* An input or output fails: the counter of failures grows.
LEMMA Counted ==
  ASSUME EncDiskInv, IOFails, UNCHANGED tpm
  PROVE  fails' \in 0 .. MaxFails /\ tpm'.n <= fails'
BY EncDiskAssumption DEF EncDiskInv, TypeOK, IOFails

LEMMA NewFails == EncDiskInv /\ new_fails => EncDiskInv'
<1> SUFFICES ASSUME EncDiskInv, new_fails PROVE EncDiskInv'
  OBVIOUS
<1>1. fails' \in 0 .. MaxFails /\ tpm'.n <= fails'
  BY Counted DEF new_fails, panic
<1>2. TypeOK'
  BY <1>1 DEF EncDiskInv, TypeOK, new_fails, panic, disk, state
<1>3. QED
  BY <1>1, <1>2, Quiet DEF new_fails, panic

LEMMA Load == EncDiskInv /\ FAT32_new => EncDiskInv'
<1> SUFFICES ASSUME EncDiskInv, FAT32_new PROVE EncDiskInv'
  OBVIOUS
<1>1. TypeOK'
  <2>1. booting' \in BOOLEAN /\ mounted' \in BOOLEAN
    BY Zenon DEF EncDiskInv, TypeOK, FAT32_new, served
  <2>2. /\ pc' \in {"format", "serve"} /\ at' = 0
        /\ UNCHANGED <<disk, state, tpm, keys, fails, resets>>
    BY DEF FAT32_new, served
  <2>3. QED
    BY <2>1, <2>2, EncDiskAssumption DEF EncDiskInv, TypeOK, disk, state
<1>2. UNCHANGED <<disk, state>> /\ tpm'.n <= fails'
  BY DEF FAT32_new, EncDiskInv
<1>3. pc = "load" /\ (pc' = "serve" \/ (pc' = "format" /\ at' = 0))
  BY DEF FAT32_new, served
<1>4. QED
  BY <1>1, <1>2, <1>3, Quiet

LEMMA LoadFails == EncDiskInv /\ load_fs_fails => EncDiskInv'
<1> SUFFICES ASSUME EncDiskInv, load_fs_fails PROVE EncDiskInv'
  OBVIOUS
<1>1. fails' \in 0 .. MaxFails /\ tpm'.n <= fails'
  BY Counted DEF load_fs_fails, panic
<1>2. TypeOK'
  <2>1. booting' \in BOOLEAN /\ mounted' \in BOOLEAN
    BY Zenon DEF EncDiskInv, TypeOK, load_fs_fails, panic, served
  <2>2. /\ pc' \in {"dead", "serve"} /\ at' \in {0, at}
        /\ UNCHANGED <<disk, state, tpm, keys, resets>>
    BY DEF load_fs_fails, panic, served
  <2>3. QED
    BY <1>1, <2>1, <2>2, EncDiskAssumption DEF EncDiskInv, TypeOK, disk, state
<1>3. UNCHANGED <<disk, state>> /\ pc \in {"load", "format"} /\ pc' \in {"serve", "dead"}
  BY DEF load_fs_fails, panic, served
<1>4. QED
  BY <1>1, <1>2, <1>3, Quiet

LEMMA GetFs == EncDiskInv /\ get_fs => EncDiskInv'
<1> SUFFICES ASSUME EncDiskInv, get_fs PROVE EncDiskInv'
  OBVIOUS
<1>1. TypeOK'
  BY EncDiskAssumption DEF EncDiskInv, TypeOK, get_fs, panic, disk, state
<1>2. QED
  BY <1>1, Quiet DEF get_fs, panic, EncDiskInv

LEMMA Disable == EncDiskInv /\ disable_encryption => EncDiskInv'
<1> SUFFICES ASSUME EncDiskInv, disable_encryption PROVE EncDiskInv'
  OBVIOUS
<1>1. TypeOK'
  BY EncDiskAssumption DEF EncDiskInv, TypeOK, disable_encryption, disk, state
<1>2. QED
  BY <1>1, Quiet DEF disable_encryption, EncDiskInv

\* write_block stores the value as the mode says.
LEMMA WriteBlock ==
  ASSUME EncDiskInv, NEW b \in Blocks, NEW v \in Values \union {"boot", "zero"},
         pc \notin {"boot", "clear", "dead"}, write_block(b, v), UNCHANGED meta
  PROVE  /\ data' \in [Blocks -> Sector] /\ spoiled' \subseteq Blocks
         /\ written' \in [Blocks -> Values \union {"boot", "zero", "none"}]
         /\ DiskAgrees'
<1> DEFINE c == IF mode = "Normal" THEN Plain(v) ELSE encrypt_data(v, b, key)
<1>1. c \in Sector
  BY Sectors DEF EncDiskInv, TypeOK
<1>2. c = IF meta.enc THEN encrypt_data(v, b, meta.blob.key) ELSE Plain(v)
  BY DEF EncDiskInv, TypeOK, MemoryAgrees, write_block
<1>3. /\ data' = [data EXCEPT ![b] = c] /\ written' = [written EXCEPT ![b] = v]
      /\ spoiled' = spoiled \ {b}
  BY DEF write_block
<1> HIDE DEF c
<1>4. QED
  BY <1>1, <1>2, <1>3 DEF EncDiskInv, TypeOK, DiskAgrees

LEMMA Format == EncDiskInv /\ format_device => EncDiskInv'
<1> SUFFICES ASSUME EncDiskInv, format_device PROVE EncDiskInv'
  OBVIOUS
<1> USE EncDiskAssumption
<1>1. at \in Blocks /\ 0 \in Blocks /\ mode # "Encrypted"
  BY DEF EncDiskInv, MemoryAgrees, TypeOK, format_device, Blocks
<1>2. PICK v \in {"boot", "zero"} : write_block(at, v)
  BY DEF format_device
<1>3. /\ data' \in [Blocks -> Sector] /\ spoiled' \subseteq Blocks
      /\ written' \in [Blocks -> Values \union {"boot", "zero", "none"}]
      /\ DiskAgrees'
  BY <1>1, <1>2, WriteBlock DEF format_device
<1>4. TypeOK'
  <2>1. booting' \in BOOLEAN /\ mounted' \in BOOLEAN
    BY Zenon DEF EncDiskInv, TypeOK, format_device, served
  <2>2. /\ pc' \in {"format", "serve"} /\ at' \in 0 .. BLOCKS
        /\ UNCHANGED <<meta, state, tpm, keys, fails, resets>>
    BY <1>1 DEF format_device, served, Blocks
  <2>3. QED
    BY <1>3, <2>1, <2>2 DEF EncDiskInv, TypeOK, state
<1>5. written'[0] \in {"none", "zero", "boot"}
  BY <1>1, <1>2 DEF EncDiskInv, TypeOK, MemoryAgrees, write_block
<1>6. MemoryAgrees'
  BY <1>1, <1>5 DEF EncDiskInv, MemoryAgrees, TypeOK, format_device, served, state, Blocks
<1>7. QED
  BY <1>3, <1>4, <1>6 DEF EncDiskInv, format_device

LEMMA Store ==
  ASSUME EncDiskInv, NEW b \in Blocks, NEW v \in Values, FileWrite(b, v)
  PROVE  EncDiskInv'
<1> USE EncDiskAssumption
<1>1. /\ data' \in [Blocks -> Sector] /\ spoiled' \subseteq Blocks
      /\ written' \in [Blocks -> Values \union {"boot", "zero", "none"}]
      /\ DiskAgrees'
  BY WriteBlock DEF FileWrite
<1>2. TypeOK'
  BY <1>1 DEF EncDiskInv, TypeOK, FileWrite, state
<1>3. written'[0] \in {"none", "zero", "boot"} /\ 0 \in Blocks
  BY DEF EncDiskInv, TypeOK, MemoryAgrees, FileWrite, write_block, Blocks
<1>4. MemoryAgrees'
  BY <1>3 DEF EncDiskInv, MemoryAgrees, TypeOK, FileWrite, state
<1>5. QED
  BY <1>1, <1>2, <1>4 DEF EncDiskInv, FileWrite

\* An outcome in which no more objects are left than commands failed.
Clean(o) == o \in Outcome /\ o.n <= SLOTS /\ o.n <= o.f

LEMMA StartTpm ==
  ASSUME EncDiskInv, NEW s \in tpm_start
  PROVE  Clean(s)
<1> DEFINE o == [up |-> tpm.up, n |-> tpm.n, f |-> fails, ok |-> TRUE]
<1>0. PICK p \in init_tpm(o) : s = [p EXCEPT !.ok = TRUE]
  BY Zenon DEF tpm_start
<1> DEFINE q == [p EXCEPT !.ok = TRUE]
<1> SUFFICES Clean(q)
  BY <1>0
<1>1. tpm.up \in BOOLEAN /\ tpm.n \in 0 .. SLOTS /\ fails \in 0 .. MaxFails /\ tpm.n <= fails
  BY DEF EncDiskInv, TypeOK
<1>2. tpm.n \in Nat /\ fails \in Nat /\ tpm.n <= SLOTS
  BY <1>1, EncDiskAssumption
<1>3. o \in Outcome
  BY <1>1, <1>2, Zenon DEF Outcome
<1>4. o.n = tpm.n /\ o.f = fails
  BY Zenon
<1> HIDE DEF o
<1>5. p = [o EXCEPT !.up = TRUE] \/ p = fail(o)
  BY Zenon DEF init_tpm, o
<1>6. CASE p = [o EXCEPT !.up = TRUE]
  <2>1. p \in Outcome /\ p.n = o.n /\ p.f = o.f
    BY <1>3, <1>6, Zenon DEF Outcome
  <2>2. q \in Outcome /\ q.n = p.n /\ q.f = p.f
    BY <2>1, Zenon DEF Outcome
  <2> HIDE DEF q
  <2>3. QED
    BY <1>1, <1>2, <1>4, <2>1, <2>2 DEF Clean, q
<1>7. CASE p = fail(o)
  <2>1. p \in Outcome /\ p.n = o.n /\ p.f = o.f + 1
    BY <1>3, <1>7, Fail
  <2>2. q \in Outcome /\ q.n = p.n /\ q.f = p.f
    BY <2>1, Zenon DEF Outcome
  <2>3. tpm.n <= p.f /\ p.n = tpm.n
    BY <1>1, <1>2, <1>4, <2>1
  <2>4. q.n <= SLOTS /\ q.n <= q.f
    BY <1>2, <2>2, <2>3
  <2>5. QED
    BY <2>2, <2>4 DEF Clean
<1>8. QED
  BY <1>5, <1>6, <1>7

LEMMA CleanAfter ==
  ASSUME NEW o, Clean(o), NEW p, After(o, p, 0)
  PROVE  Clean(p)
BY DEF Clean, After, Outcome

LEMMA RandomClean ==
  ASSUME NEW s, Clean(s), NEW r \in bounded(get_random_number(s))
  PROVE  Clean(r) /\ r.f <= MaxFails
<1>1. r.f <= MaxFails /\ r \in send_raw_command(s)
  BY Zenon DEF bounded, get_random_number
<1>2. After(s, r, IF r.ok THEN 0 ELSE -1) /\ r.n = s.n
  BY <1>1, SendRaw DEF Clean
<1>3. After(s, r, 0)
  BY <1>2 DEF Clean, After, Outcome
<1>4. QED
  BY <1>1, <1>3, CleanAfter

LEMMA ProvisionClean ==
  ASSUME NEW s, Clean(s), NEW r \in bounded(provision_master_key(s))
  PROVE  Clean(r) /\ r.f <= MaxFails
BY Provision, CleanAfter DEF bounded, Clean

LEMMA DecryptClean ==
  ASSUME NEW s, Clean(s), NEW right \in BOOLEAN, NEW r \in bounded(decrypt_master_key(s, right))
  PROVE  Clean(r) /\ r.f <= MaxFails
BY Decrypt, CleanAfter DEF bounded, Clean

LEMMA FailClean ==
  ASSUME NEW o, Clean(o), o.f < MaxFails
  PROVE  Clean(fail(o)) /\ fail(o).f <= MaxFails
<1>1. fail(o) \in Outcome /\ fail(o).n = o.n /\ fail(o).f = o.f + 1
  BY Fail DEF Clean
<1>2. QED
  BY <1>1, EncDiskAssumption DEF Clean, Outcome

\* A clean outcome keeps the types of the TPM and of the counter.
LEMMA Leave ==
  ASSUME NEW o, Clean(o), o.f <= MaxFails, tpm_leave(o)
  PROVE  /\ tpm' \in [up : BOOLEAN, n : 0 .. SLOTS] /\ fails' \in 0 .. MaxFails
         /\ tpm'.n <= fails'
<1>1. o.up \in BOOLEAN /\ o.n \in 0 .. SLOTS /\ o.f \in 0 .. MaxFails /\ o.n <= o.f
  BY EncDiskAssumption DEF Clean, Outcome
<1>2. tpm' = [up |-> o.up, n |-> o.n] /\ fails' = o.f
  BY DEF tpm_leave
<1>3. tpm' \in [up : BOOLEAN, n : 0 .. SLOTS] /\ tpm'.n = o.n
  BY <1>1, <1>2, TpmOk, Zenon
<1>4. QED
  BY <1>1, <1>2, <1>3

LEMMA Unlock ==
  ASSUME EncDiskInv, NEW pin \in Pins, unlock_device(pin)
  PROVE  EncDiskInv'
<1> USE EncDiskAssumption
<1>0. PICK s \in tpm_start : \E o \in bounded(decrypt_master_key(s, pin = md.blob.pin)) :
        /\ tpm_leave(o)
        /\ IF o.ok THEN key' = md.blob.key /\ mode' = "Unlocked" /\ pc' = "load"
           ELSE UNCHANGED <<key, mode, pc>>
  BY DEF unlock_device
<1>1. PICK o \in bounded(decrypt_master_key(s, pin = md.blob.pin)) :
        /\ tpm_leave(o)
        /\ IF o.ok THEN key' = md.blob.key /\ mode' = "Unlocked" /\ pc' = "load"
           ELSE UNCHANGED <<key, mode, pc>>
  BY <1>0
<1>2. Clean(o) /\ o.f <= MaxFails
  BY StartTpm, DecryptClean
<1>3. /\ tpm' \in [up : BOOLEAN, n : 0 .. SLOTS] /\ fails' \in 0 .. MaxFails
      /\ tpm'.n <= fails'
  BY <1>1, <1>2, Leave
<1>4. /\ pc = "serve" /\ mode = "Encrypted"
      /\ UNCHANGED <<disk, md, at, booting, mounted, keys, resets>>
  BY DEF unlock_device
<1>5. \/ UNCHANGED <<key, mode, pc>>
      \/ key' = md.blob.key /\ mode' = "Unlocked" /\ pc' = "load"
  BY <1>1
<1>6. TypeOK'
  BY <1>3, <1>4, <1>5 DEF EncDiskInv, TypeOK, Metadata, disk
<1>7. DiskAgrees'
  BY <1>4 DEF EncDiskInv, DiskAgrees, disk
<1>8. MemoryAgrees'
  BY <1>4, <1>5 DEF EncDiskInv, MemoryAgrees, disk
<1>9. QED
  BY <1>3, <1>6, <1>7, <1>8 DEF EncDiskInv

LEMMA Enable ==
  ASSUME EncDiskInv, NEW pin \in Pins, enable_encryption(pin)
  PROVE  EncDiskInv'
<1> USE EncDiskAssumption
<1> DEFINE new_key == keys + 1
           sealed == [md EXCEPT !.enc = TRUE, !.blob = [key |-> new_key, pin |-> pin]]
<1>1. /\ pc = "serve" /\ mode = "Normal" /\ keys < MaxKeys
      /\ UNCHANGED <<at, booting, mounted, resets>>
  BY Zenon DEF enable_encryption
<1>2. new_key \in 0 .. MaxKeys /\ md \in Metadata
  BY <1>1 DEF EncDiskInv, TypeOK
<1>3. sealed \in Metadata /\ sealed.magic = md.magic /\ sealed.enc = TRUE /\ sealed.blob.key = new_key
  <2> HIDE DEF new_key
  <2>1. QED
    BY <1>2, Blobs, Zenon DEF Metadata
<1> DEFINE Enabled(r) ==
       \/ ~r.ok /\ tpm_leave(r) /\ UNCHANGED <<disk, state, pc, keys>>
       \/ /\ r.ok
          /\ key' = new_key /\ keys' = new_key
          /\ \E o \in bounded(provision_master_key(r)) :
               \/ ~o.ok /\ tpm_leave(o) /\ UNCHANGED <<disk, mode, md, pc>>
               \/ /\ o.ok /\ tpm_leave(fail(o)) /\ o.f < MaxFails
                  /\ md' = sealed /\ UNCHANGED <<disk, mode, pc>>
               \/ /\ o.ok /\ tpm_leave(o)
                  /\ md' = sealed /\ meta' = sealed /\ mode' = "Unlocked" /\ pc' = "load"
                  /\ written' = [b \in Blocks |-> "none"] /\ spoiled' = {}
                  /\ UNCHANGED data
<1>0. PICK s \in tpm_start : \E r \in bounded(get_random_number(s)) : Enabled(r)
  BY Zenon DEF enable_encryption
<1> HIDE DEF sealed, new_key
<1>4. PICK r \in bounded(get_random_number(s)) : Enabled(r)
  BY <1>0
<1>5. Clean(r) /\ r.f <= MaxFails
  BY StartTpm, RandomClean
<1>6. PICK z : /\ Clean(z) /\ z.f <= MaxFails /\ tpm_leave(z)
               /\ \/ UNCHANGED <<disk, state, pc, keys>>
                  \/ /\ key' = new_key /\ keys' = new_key
                     /\ md' \in {md, sealed} /\ UNCHANGED <<disk, mode, pc>>
                  \/ /\ key' = new_key /\ keys' = new_key
                     /\ md' = sealed /\ meta' = sealed /\ mode' = "Unlocked" /\ pc' = "load"
                     /\ written' = [b \in Blocks |-> "none"] /\ spoiled' = {}
                     /\ UNCHANGED data
  <2>1. CASE ~r.ok /\ tpm_leave(r) /\ UNCHANGED <<disk, state, pc, keys>>
    BY <1>5, <2>1
  <2>2. ASSUME NEW o \in bounded(provision_master_key(r))
        PROVE  Clean(o) /\ o.f <= MaxFails /\ (o.f < MaxFails => Clean(fail(o)) /\ fail(o).f <= MaxFails)
    BY <1>5, ProvisionClean, FailClean
  <2>3. QED
    BY <1>4, <2>1, <2>2, Zenon
<1>7. /\ tpm' \in [up : BOOLEAN, n : 0 .. SLOTS] /\ fails' \in 0 .. MaxFails
      /\ tpm'.n <= fails'
  BY <1>6, Leave
<1>8. TypeOK'
  BY <1>1, <1>2, <1>3, <1>6, <1>7 DEF EncDiskInv, TypeOK, disk, state
<1>9. DiskAgrees'
  BY <1>6 DEF EncDiskInv, DiskAgrees, disk
<1>10. 0 \in Blocks
  BY DEF Blocks
<1>11. MemoryAgrees'
  BY <1>1, <1>3, <1>6, <1>10 DEF EncDiskInv, MemoryAgrees, disk, state
<1>12. QED
  BY <1>7, <1>8, <1>9, <1>11 DEF EncDiskInv

\* A batch, or part of one, spoils the blocks it goes over and no other.
LEMMA Batch ==
  ASSUME EncDiskInv, NEW count \in Nat, decrypt_batch(count), UNCHANGED written
  PROVE  /\ data' \in [Blocks -> Sector] /\ spoiled' \subseteq Blocks
         /\ spoiled \subseteq spoiled' /\ (UNCHANGED meta => DiskAgrees')
         /\ \A b \in Blocks : at <= b /\ b < at + count => b \in spoiled'
<1> DEFINE batch == {b \in Blocks : at <= b /\ b < at + count}
           plain(b) == Plain(decrypt_data(data[b], b + 1, key))
<1>1. /\ data' = [b \in Blocks |-> IF b \in batch THEN plain(b) ELSE data[b]]
      /\ spoiled' = spoiled \union batch
  BY DEF decrypt_batch
<1>2. \A b \in Blocks : plain(b) \in Sector
  BY Sectors DEF EncDiskInv, TypeOK, Blocks
<1> HIDE DEF plain
<1>3. data' \in [Blocks -> Sector] /\ spoiled' \subseteq Blocks
  BY <1>1, <1>2 DEF EncDiskInv, TypeOK
<1>4. UNCHANGED meta => DiskAgrees'
  BY <1>1 DEF EncDiskInv, DiskAgrees
<1>5. QED
  BY <1>1, <1>3, <1>4

LEMMA DisableBatch == EncDiskInv /\ disable_batch => EncDiskInv'
<1> SUFFICES ASSUME EncDiskInv, disable_batch PROVE EncDiskInv'
  OBVIOUS
<1> USE EncDiskAssumption
<1>1. /\ data' \in [Blocks -> Sector] /\ spoiled' \subseteq Blocks
      /\ spoiled \subseteq spoiled' /\ DiskAgrees'
      /\ \A b \in Blocks : at <= b /\ b < at + BATCH => b \in spoiled'
  BY Batch DEF disable_batch
<1>2. TypeOK'
  BY <1>1 DEF EncDiskInv, TypeOK, disable_batch, state
<1>3. \A b \in Blocks : b < at' => b \in spoiled'
  BY <1>1 DEF EncDiskInv, TypeOK, MemoryAgrees, disable_batch, Blocks
<1>4. MemoryAgrees'
  BY <1>3 DEF EncDiskInv, MemoryAgrees, disable_batch, state
<1>5. QED
  BY <1>1, <1>2, <1>4 DEF EncDiskInv, disable_batch

LEMMA DisableDone == EncDiskInv /\ disable_done => EncDiskInv'
<1> SUFFICES ASSUME EncDiskInv, disable_done PROVE EncDiskInv'
  OBVIOUS
<1> USE EncDiskAssumption
<1>1. md' \in Metadata /\ md'.magic = md.magic /\ md'.enc = FALSE
  BY MetadataUpdates, Zenon DEF EncDiskInv, TypeOK, disable_done
<1>2. /\ pc = "disable" /\ at = BLOCKS /\ meta' = md' /\ mode' = "Normal" /\ key' = NOKEY
      /\ pc' = "serve" /\ at' = 0
      /\ UNCHANGED <<data, written, spoiled, tpm, booting, mounted, keys, fails, resets>>
  BY Zenon DEF disable_done
<1>3. TypeOK'
  BY <1>1, <1>2 DEF EncDiskInv, TypeOK, NOKEY
<1>4. DiskAgrees'
  BY <1>2 DEF EncDiskInv, DiskAgrees, MemoryAgrees, TypeOK, Blocks
<1>5. MemoryAgrees'
  BY <1>1, <1>2 DEF EncDiskInv, MemoryAgrees
<1>6. QED
  BY <1>2, <1>3, <1>4, <1>5 DEF EncDiskInv

LEMMA DisableFails == EncDiskInv /\ disable_fails => EncDiskInv'
<1> SUFFICES ASSUME EncDiskInv, disable_fails PROVE EncDiskInv'
  OBVIOUS
<1> USE EncDiskAssumption
<1>1. /\ pc = "disable" /\ IOFails /\ pc' = "serve" /\ at' = 0
      /\ UNCHANGED <<meta, written, mode, key, tpm, booting, mounted, keys, resets>>
  BY Zenon DEF disable_fails
<1>2. PICK count \in 0 .. BATCH : decrypt_batch(count)
  BY Zenon DEF disable_fails
<1>3. /\ data' \in [Blocks -> Sector] /\ spoiled' \subseteq Blocks
      /\ spoiled \subseteq spoiled' /\ DiskAgrees'
  BY <1>1, <1>2, Batch
<1>4. md' \in Metadata /\ md'.magic = md.magic
  <2>1. CASE at = BLOCKS
    BY <2>1, MetadataUpdates, Zenon DEF EncDiskInv, TypeOK, disable_fails
  <2>2. CASE at # BLOCKS
    BY <2>2, Zenon DEF EncDiskInv, TypeOK, disable_fails
  <2>3. QED
    BY <2>1, <2>2
<1>5. fails' \in 0 .. MaxFails /\ tpm'.n <= fails'
  BY <1>1, Counted
<1>6. TypeOK'
  BY <1>1, <1>3, <1>4, <1>5 DEF EncDiskInv, TypeOK
<1>7. MemoryAgrees'
  BY <1>1, <1>3, <1>4 DEF EncDiskInv, MemoryAgrees
<1>8. QED
  BY <1>3, <1>5, <1>6, <1>7 DEF EncDiskInv

LEMMA Restart == EncDiskInv /\ Reset => EncDiskInv'
<1> SUFFICES ASSUME EncDiskInv, Reset PROVE EncDiskInv'
  OBVIOUS
<1> USE EncDiskAssumption
<1>1. /\ resets < MaxResets /\ pc # "boot" /\ mode' = "Normal" /\ key' = NOKEY /\ md' = NewMetadata
      /\ tpm' = [up |-> FALSE, n |-> 0]
      /\ pc' = "boot" /\ at' = 0 /\ booting' = TRUE /\ mounted' = FALSE
      /\ resets' = resets + 1 /\ UNCHANGED <<meta, written, keys, fails>>
  BY Zenon DEF Reset
<1>2. data' \in [Blocks -> Sector] /\ spoiled' \subseteq Blocks /\ DiskAgrees'
  <2>1. CASE pc = "disable"
    <3>1. PICK count \in 0 .. BATCH : decrypt_batch(count)
      BY <2>1, Zenon DEF Reset
    <3>2. QED
      BY <1>1, <3>1, Batch
  <2>2. CASE pc # "disable"
    BY <1>1, <2>2 DEF EncDiskInv, TypeOK, DiskAgrees, Reset
  <2>3. QED
    BY <2>1, <2>2
<1>3. tpm' \in [up : BOOLEAN, n : 0 .. SLOTS] /\ tpm'.n = 0
  <2>1. 0 \in 0 .. SLOTS
    OBVIOUS
  <2>2. QED
    BY <1>1, <2>1, TpmOk, Zenon
<1>4. TypeOK'
  <2>1. booting' \in BOOLEAN /\ mounted' \in BOOLEAN
    BY <1>1, Zenon
  <2>2. resets' \in 0 .. MaxResets /\ fails' \in 0 .. MaxFails /\ keys' \in 0 .. MaxKeys
    BY <1>1 DEF EncDiskInv, TypeOK
  <2>3. meta' \in Metadata /\ md' \in Metadata /\ key' \in 0 .. MaxKeys /\ at' \in 0 .. BLOCKS
    BY <1>1, NewMetadataOk DEF EncDiskInv, TypeOK, NOKEY
  <2>4. /\ mode' \in {"Normal", "Encrypted", "Unlocked"}
        /\ pc' \in {"boot", "clear", "load", "format", "serve", "disable", "dead"}
        /\ written' \in [Blocks -> Values \union {"boot", "zero", "none"}]
    BY <1>1 DEF EncDiskInv, TypeOK
  <2>5. QED
    BY <1>2, <1>3, <2>1, <2>2, <2>3, <2>4, Zenon DEF TypeOK
<1>5. MemoryAgrees'
  BY <1>1, NewMetadataOk DEF EncDiskInv, MemoryAgrees
<1>6. QED
  BY <1>1, <1>2, <1>3, <1>4, <1>5 DEF EncDiskInv, TypeOK

------------------------------------------------------------------------------
LEMMA StepInv == EncDiskInv /\ [Next]_vars => EncDiskInv'
<1> SUFFICES ASSUME EncDiskInv, [Next]_vars PROVE EncDiskInv'
  OBVIOUS
<1>1. CASE Next
  <2>1. CASE new \/ new_clear \/ new_fails \/ FAT32_new \/ format_device \/ load_fs_fails \/ get_fs
    BY <2>1, New, Clear, NewFails, Load, Format, LoadFails, GetFs
  <2>2. CASE \E b \in Blocks, v \in Values : FileWrite(b, v)
    BY <2>2, Store
  <2>3. CASE \E pin \in Pins : enable_encryption(pin) \/ unlock_device(pin)
    BY <2>3, Enable, Unlock
  <2>4. CASE disable_encryption \/ disable_batch \/ disable_done \/ disable_fails \/ Reset
    BY <2>4, Disable, DisableBatch, DisableDone, DisableFails, Restart
  <2>5. QED
    BY <1>1, <2>1, <2>2, <2>3, <2>4, Zenon DEF Next
<1>2. CASE UNCHANGED vars
  BY <1>2, Zenon DEF vars, EncDiskInv, TypeOK, DiskAgrees, MemoryAgrees
<1>3. QED
  BY <1>1, <1>2

\* The invariant behind all that follows: whatever the server, the TPM and the
\* disk do, the disk agrees with what was stored and the memory with the disk.
THEOREM Invariant == Spec => []EncDiskInv
BY InitInv, StepInv, PTL DEF Spec

\* What a client stored it reads back (read_block, write_block), on every disk
\* and through any number of resets and failures.
THEOREM ReadBackHolds == Spec => []ReadBack
<1>1. EncDiskInv => ReadBack
  BY DEF EncDiskInv, TypeOK, DiskAgrees, MemoryAgrees, ReadBack, read_block, decrypt_data,
         encrypt_data, Plain, NOKEY
<1>2. QED
  BY <1>1, Invariant, PTL

\* The key of what is stored encrypted is sealed on the disk
\* (enable_encryption, disable_encryption).
THEOREM KeyIsOnDiskHolds == Spec => []KeyIsOnDisk
<1>1. EncDiskInv => KeyIsOnDisk
  BY DEF EncDiskInv, TypeOK, DiskAgrees, KeyIsOnDisk, encrypt_data, Plain
<1>2. QED
  BY <1>1, Invariant, PTL

\* No more objects stay in the TPM than commands failed (decrypt_master_key,
\* provision_master_key).
THEOREM LeakNeedsFailureHolds == Spec => []LeakNeedsFailure
<1>1. EncDiskInv => LeakNeedsFailure
  BY DEF EncDiskInv, LeakNeedsFailure
<1>2. QED
  BY <1>1, Invariant, PTL

\* load_fs formats no disk that holds a file system (FAT32FileSystem::new).
THEOREM FormatsOnlyBlankHolds == Spec => FormatsOnlyBlank
<1> DEFINE A == pc # "format" /\ pc' = "format" => written[0] \in {"none", "zero"} \/ 0 \in spoiled
<1>1. EncDiskInv /\ [Next]_vars => [A]_vars
  <2> SUFFICES ASSUME EncDiskInv, Next, pc # "format", pc' = "format"
               PROVE  written[0] \in {"none", "zero"} \/ 0 \in spoiled
    OBVIOUS
  <2>1. FAT32_new
    BY DEF Next, new, new_clear, new_fails, panic, format_device, load_fs_fails, served, get_fs,
           FileWrite, enable_encryption, unlock_device, disable_encryption, disable_batch,
           disable_done, disable_fails, Reset, EncDiskInv, TypeOK
  <2>2. pc = "load" /\ read_block(0) # "boot"
    BY <2>1 DEF FAT32_new, served
  <2>3. 0 \in Blocks
    BY EncDiskAssumption DEF Blocks
  <2>4. ReadBack
    BY DEF EncDiskInv, TypeOK, DiskAgrees, MemoryAgrees, ReadBack, read_block, decrypt_data,
           encrypt_data, Plain, NOKEY
  <2>5. QED
    BY <2>2, <2>3, <2>4 DEF EncDiskInv, MemoryAgrees, ReadBack
<1>2. QED
  BY <1>1, Invariant, PTL DEF Spec, FormatsOnlyBlank
=============================================================================
