------------------------------- MODULE EncDisk -------------------------------
(***************************************************************************)
(* The encrypted block device of the file server (fsd/src/device/          *)
(* virtio_enc.rs) with the TPM that seals its key (device/tpm/tpm.rs), and *)
(* the part of fsd/src/main.rs that drives them: start-up, the requests    *)
(* that enable, disable and unlock the encryption, and load_fs, which      *)
(* formats a disk on which it finds no boot sector.                        *)
(*                                                                         *)
(* The server is single threaded, so a request is a step except where it   *)
(* writes several sectors: there, each write is a step, because the        *)
(* machine may be reset between two of them.  A sector holds a value in    *)
(* the clear or a ciphertext [v, k, t] under key k and tweak t; decryption *)
(* with another key or tweak gives junk, which no later step can undo,     *)
(* since the code never encrypts a sector in place.  A write that the      *)
(* device reports as failed leaves its sector as it was.  A reset resets   *)
(* the TPM too.                                                            *)
(***************************************************************************)
EXTENDS Integers

CONSTANTS
  BLOCKS,        \* data sectors of the disk (sector 0, the metadata, excluded)
  BATCH,         \* BATCH_SIZE_SECTORS
  SLOTS,         \* transient objects that the TPM can hold
  Pins, Values,  \* what users type, what they store
  Disks,         \* disks that the machine may start with
  MaxKeys, MaxFails, MaxResets  \* bounds of the model

ASSUME EncDiskAssumption ==
  /\ BLOCKS \in Nat \ {0} /\ BATCH \in Nat \ {0} /\ SLOTS \in Nat \ {0, 1}
  /\ MaxKeys \in Nat /\ MaxFails \in Nat /\ MaxResets \in Nat

Blocks == 0 .. BLOCKS - 1
NOKEY == 0
Sector == [v : Values \union {"boot", "zero", "junk"}, k : 0 .. MaxKeys, t : 0 .. BLOCKS]
Metadata == [magic : BOOLEAN, enc : BOOLEAN,
             blob : [key : 0 .. MaxKeys, pin : Pins \union {"none"}]]

\* The machine may start with any disk.
ASSUME DisksAssumption == Disks \subseteq [meta : Metadata, data : [Blocks -> Sector]]

Plain(v) == [v |-> v, k |-> NOKEY, t |-> 0]
NoBlob == [key |-> NOKEY, pin |-> "none"]
NewMetadata == [magic |-> TRUE, enc |-> FALSE, blob |-> NoBlob]

VARIABLES
  meta,     \* sector 0: magic, is_encrypted and sealed_blob
  data,     \* the data sectors, by block number
  mode,     \* working_mode
  key,      \* algo_param
  md,       \* device_metadata, the copy of meta in memory
  tpm,      \* [up, n]: started, transient objects held
  pc, at,   \* what the server is doing, and at which block
  booting,  \* main has not reached handle_client
  mounted,  \* FS is Some
  \* History and bounds.
  written,  \* the last value stored in a block, "none" if there is none
  spoiled,  \* blocks that disable_encryption has gone over since then
  keys, fails, resets

vars == <<meta, data, mode, key, md, tpm, pc, at, booting, mounted,
          written, spoiled, keys, fails, resets>>
disk == <<meta, data, written, spoiled>>
state == <<mode, key, md>>

Init ==
  /\ \E d \in Disks : meta = d.meta /\ data = d.data
  /\ mode = "Normal" /\ key = NOKEY /\ md = NewMetadata
  /\ tpm = [up |-> FALSE, n |-> 0]
  /\ pc = "boot" /\ at = 0 /\ booting = TRUE /\ mounted = FALSE
  /\ written = [b \in Blocks |-> "none"] /\ spoiled = {}
  /\ keys = 0 /\ fails = 0 /\ resets = 0

------------------------------------------------------------------------------
(* Sectors.                                                                 *)

encrypt_data(v, b, k) == [v |-> v, k |-> k, t |-> b]

decrypt_data(c, b, k) == IF c.k = k /\ c.t = b THEN c.v ELSE "junk"

read_block(b) ==
  CASE mode = "Normal" -> IF data[b].k = NOKEY THEN data[b].v ELSE "junk"
    [] mode = "Unlocked" -> decrypt_data(data[b], b, key)
    [] OTHER -> "EUNDEF"

\* A write in plain, whatever the mode.
write_block_clear(b, v) ==
  /\ mode # "Encrypted"
  /\ data' = [data EXCEPT ![b] = Plain(v)]
  /\ written' = [written EXCEPT ![b] = v]
  /\ spoiled' = spoiled \ {b}

write_block(b, v) ==
  /\ mode # "Encrypted"
  /\ data' = [data EXCEPT ![b] =
       IF mode = "Normal" THEN Plain(v) ELSE encrypt_data(v, b, key)]
  /\ written' = [written EXCEPT ![b] = v]
  /\ spoiled' = spoiled \ {b}

------------------------------------------------------------------------------
(* The TPM.  A command takes the TPM to one of several outcomes            *)
(* [up, n, f, ok]: it may fail, before or after it took effect, and f      *)
(* counts the failures.                                                    *)

fail(o) == [o EXCEPT !.f = @ + 1, !.ok = FALSE]

\* A command without an effect on the objects held: refused before Startup,
\* not accepted, timed out or answered with an error.
send_raw_command(o) == {fail(o)} \union (IF o.up THEN {[o EXCEPT !.ok = TRUE]} ELSE {})

\* A command that loads an object, if there is a slot for it; a late answer
\* leaves the object in the TPM and its handle unknown.
load_object(o) ==
  LET loaded == [o EXCEPT !.n = @ + 1, !.ok = TRUE]
  IN  {fail(o)} \union {p \in {loaded, fail(loaded)} : o.up /\ o.n < SLOTS}

create_primary_srk(o) == load_object(o)

tpm2_load(o) == load_object(o)

tpm2_create(o) == send_raw_command(o)

\* The answer to a wrong PIN is not counted as a failure.
tpm2_unseal(o, right) ==
  {fail(o)} \union (IF o.up THEN {[o EXCEPT !.ok = right]} ELSE {})

get_random_number(o) == send_raw_command(o)

\* The response code is not looked at: an error response passes for success.
flush_context(o) ==
  LET done == [o EXCEPT !.n = @ - 1, !.ok = TRUE]
  IN  {done, fail(done), fail(o), [fail(o) EXCEPT !.ok = TRUE]}

Then(outcomes, F(_)) == UNION {IF o.ok THEN F(o) ELSE {o} : o \in outcomes}

\* An error of tpm2_create leaves the primary key in the TPM.
provision_master_key(o) ==
  Then(Then(create_primary_srk(o), tpm2_create), flush_context)

\* Returns at once when the PIN was wrong.
decrypt_master_key_early_return(o, right) ==
  LET keep(p, ok) == {[q EXCEPT !.ok = ok] : q \in flush_context(p)}
      unseal(p) == UNION {IF r.ok THEN UNION {keep(s, TRUE) : s \in keep(r, TRUE)} ELSE {r}
                            : r \in tpm2_unseal(p, right)}
      load(p) == UNION {IF q.ok THEN unseal(q) ELSE keep(q, FALSE) : q \in tpm2_load(p)}
  IN  Then(create_primary_srk(o), load)

\* Both handles are flushed whatever unseal said, and what flush says is ignored.
decrypt_master_key(o, right) ==
  LET keep(p, ok) == {[q EXCEPT !.ok = ok] : q \in flush_context(p)}
      unseal(p) == UNION {UNION {keep(s, r.ok) : s \in keep(r, r.ok)}
                            : r \in tpm2_unseal(p, right)}
      load(p) == UNION {IF q.ok THEN unseal(q) ELSE keep(q, FALSE) : q \in tpm2_load(p)}
  IN  Then(create_primary_srk(o), load)

\* Startup, sent before every use; whether it succeeded is only logged.
init_tpm(o) == {[o EXCEPT !.up = TRUE], fail(o)}

bounded(outcomes) == {o \in outcomes : o.f <= MaxFails}

\* Where a sequence of commands starts: after init_tpm.
tpm_start ==
  LET o == [up |-> tpm.up, n |-> tpm.n, f |-> fails, ok |-> TRUE]
  IN  {[p EXCEPT !.ok = TRUE] : p \in init_tpm(o)}

tpm_leave(o) == tpm' = [up |-> o.up, n |-> o.n] /\ fails' = o.f

------------------------------------------------------------------------------
(* Start-up.                                                                *)

IOFails == fails < MaxFails /\ fails' = fails + 1

\* VirtIOBlkDeviceWithEncryption::new, up to the loop that clears the disk.
new ==
  /\ pc = "boot"
  /\ IF meta.magic
     THEN /\ md' = meta
          /\ mode' = IF meta.enc THEN "Encrypted" ELSE "Normal"
          /\ pc' = IF meta.enc THEN "serve" ELSE "load"
          /\ booting' = ~meta.enc
          /\ UNCHANGED meta
     ELSE /\ meta' = NewMetadata
          /\ pc' = "clear" /\ at' = 0
          /\ UNCHANGED <<md, mode, booting>>
  /\ key' = NOKEY /\ (meta.magic => UNCHANGED at)
  /\ UNCHANGED <<data, tpm, mounted, written, spoiled, keys, fails, resets>>

\* One turn of that loop, and what follows it.
new_clear ==
  /\ pc = "clear"
  /\ data' = [data EXCEPT ![at] = Plain("zero")]
  /\ written' = [written EXCEPT ![at] = "zero"]
  /\ IF at < BLOCKS - 1
     THEN at' = at + 1 /\ UNCHANGED <<pc, md, mode>>
     ELSE at' = 0 /\ pc' = "load" /\ md' = NewMetadata /\ mode' = "Normal"
  /\ UNCHANGED <<meta, key, tpm, booting, mounted, spoiled, keys, fails, resets>>

\* unwrap, the ? of main, and expect: the server panics and stays there.
panic ==
  /\ pc' = "dead"
  /\ UNCHANGED <<disk, state, tpm, at, booting, mounted, keys, resets>>

new_fails == pc \in {"boot", "clear"} /\ IOFails /\ panic

------------------------------------------------------------------------------
(* load_fs: mount, or format and mount.  It runs at start-up when the disk  *)
(* is not encrypted, and after a successful enable or unlock.               *)

\* Handling a request, or the rest of main.
served == pc' = "serve" /\ booting' = FALSE

FAT32_new ==
  /\ pc = "load"
  /\ IF read_block(0) = "boot"
     THEN served /\ mounted' = TRUE
     ELSE pc' = "format" /\ UNCHANGED <<booting, mounted>>
  /\ at' = 0
  /\ UNCHANGED <<disk, state, tpm, keys, fails, resets>>

\* The boot sector first, then the rest (FATs and root directory, all zero).
format_device ==
  /\ pc = "format"
  /\ write_block(at, IF at = 0 THEN "boot" ELSE "zero")
  /\ IF at < BLOCKS - 1
     THEN at' = at + 1 /\ UNCHANGED <<pc, booting, mounted>>
     ELSE at' = 0 /\ mounted' = TRUE /\ served
  /\ UNCHANGED <<meta, state, tpm, keys, fails, resets>>

\* A read or a write fails.  At start-up main panics; after a request the
\* error is sent to the client and the old file system, if any, stays.
load_fs_fails ==
  /\ pc \in {"load", "format"} /\ IOFails
  /\ \/ booting /\ panic
     \/ ~booting /\ served /\ at' = 0
        /\ UNCHANGED <<disk, state, tpm, mounted, keys, resets>>

------------------------------------------------------------------------------
(* Requests.                                                                *)

\* Any request on files before there is a file system panics.
get_fs == pc = "serve" /\ ~mounted /\ panic /\ UNCHANGED fails

\* The file system stores a value in a block other than the boot sector.
FileWrite(b, v) ==
  /\ pc = "serve" /\ mounted /\ b # 0
  /\ write_block(b, v)
  /\ UNCHANGED <<meta, state, tpm, pc, at, booting, mounted, keys, fails, resets>>

\* The key in memory changes first, then the copy of the metadata, then the
\* metadata on the disk; an error in between leaves the mode Normal.  What
\* was stored is given up: the client says that the disk will be formatted.
enable_encryption(pin) ==
  /\ pc = "serve" /\ mode = "Normal" /\ keys < MaxKeys
  /\ LET new_key == keys + 1
         sealed == [md EXCEPT !.enc = TRUE, !.blob = [key |-> new_key, pin |-> pin]]
     IN
     \E s \in tpm_start : \E r \in bounded(get_random_number(s)) :
       \/ ~r.ok /\ tpm_leave(r) /\ UNCHANGED <<disk, state, pc, keys>>
       \/ /\ r.ok
          /\ key' = new_key /\ keys' = new_key
          /\ \E o \in bounded(provision_master_key(r)) :
               \/ ~o.ok /\ tpm_leave(o) /\ UNCHANGED <<disk, mode, md, pc>>
               \/ /\ o.ok /\ tpm_leave(fail(o)) /\ o.f < MaxFails
                  /\ md' = sealed /\ UNCHANGED <<disk, mode, pc>>
               \/ /\ o.ok /\ tpm_leave(o)
                  /\ md' = sealed /\ meta' = sealed /\ mode' = "Unlocked" /\ pc' = "load"
                  /\ written' = [b \in Blocks |-> "none"] /\ spoiled' = {}
                  /\ UNCHANGED data
  /\ UNCHANGED <<at, booting, mounted, resets>>

\* The key is replaced although the TPM refused to unseal it.
unlock_device_any_pin(pin) ==
  /\ pc = "serve" /\ mode = "Encrypted"
  /\ \E s \in tpm_start : \E o \in bounded(decrypt_master_key(s, pin = md.blob.pin)) :
       /\ tpm_leave(o)
       /\ key' = IF o.ok THEN md.blob.key ELSE NOKEY
       /\ mode' = "Unlocked" /\ pc' = "load"
  /\ UNCHANGED <<disk, md, at, booting, mounted, keys, resets>>

unlock_device(pin) ==
  /\ pc = "serve" /\ mode = "Encrypted"
  /\ \E s \in tpm_start : \E o \in bounded(decrypt_master_key(s, pin = md.blob.pin)) :
       /\ tpm_leave(o)
       /\ IF o.ok
          THEN key' = md.blob.key /\ mode' = "Unlocked" /\ pc' = "load"
          ELSE UNCHANGED <<key, mode, pc>>
  /\ UNCHANGED <<disk, md, at, booting, mounted, keys, resets>>

------------------------------------------------------------------------------
(* Disabling: the sectors are decrypted in place, batch by batch, and then  *)
(* the metadata is written.  File system and descriptors stay as they are.  *)

\* The metadata is written before the sectors.
disable_encryption_metadata_first ==
  /\ pc = "serve" /\ mode = "Unlocked"
  /\ pc' = "disable" /\ at' = 0
  /\ meta' = [md EXCEPT !.enc = FALSE, !.blob = NoBlob]
  /\ UNCHANGED <<data, written, spoiled, state, tpm, booting, mounted, keys, fails, resets>>

disable_encryption ==
  /\ pc = "serve" /\ mode = "Unlocked"
  /\ pc' = "disable" /\ at' = 0
  /\ UNCHANGED <<disk, state, tpm, booting, mounted, keys, fails, resets>>

\* Blocks at, at + 1, ... up to count - 1 are written back.  The tweak is the
\* number of the sector on the disk, one more than the number of the block.
decrypt_batch(count) ==
  LET batch == {b \in Blocks : at <= b /\ b < at + count}
  IN  /\ data' = [b \in Blocks |->
                    IF b \in batch THEN Plain(decrypt_data(data[b], b + 1, key)) ELSE data[b]]
      /\ spoiled' = spoiled \union batch

disable_batch ==
  /\ pc = "disable" /\ at < BLOCKS
  /\ decrypt_batch(BATCH)
  /\ at' = IF at + BATCH < BLOCKS THEN at + BATCH ELSE BLOCKS
  /\ UNCHANGED <<meta, written, state, tpm, pc, booting, mounted, keys, fails, resets>>

disable_done ==
  /\ pc = "disable" /\ at = BLOCKS
  /\ md' = [md EXCEPT !.enc = FALSE, !.blob = NoBlob]
  /\ meta' = md' /\ mode' = "Normal" /\ key' = NOKEY
  /\ pc' = "serve" /\ at' = 0
  /\ UNCHANGED <<data, written, spoiled, tpm, booting, mounted, keys, fails, resets>>

\* A batch, or the metadata, cannot be written: some sectors of the batch may
\* have been.  The copy of the metadata has already changed, the mode has not.
disable_fails ==
  /\ pc = "disable" /\ IOFails
  /\ \E count \in 0 .. BATCH : decrypt_batch(count)
  /\ md' = IF at = BLOCKS THEN [md EXCEPT !.enc = FALSE, !.blob = NoBlob] ELSE md
  /\ pc' = "serve" /\ at' = 0
  /\ UNCHANGED <<meta, written, mode, key, tpm, booting, mounted, keys, resets>>

\* The machine is reset, at any moment; a batch may be half written.
Reset ==
  /\ resets < MaxResets /\ pc # "boot"
  /\ IF pc = "disable"
     THEN \E count \in 0 .. BATCH : decrypt_batch(count)
     ELSE UNCHANGED <<data, spoiled>>
  /\ mode' = "Normal" /\ key' = NOKEY /\ md' = NewMetadata
  /\ tpm' = [up |-> FALSE, n |-> 0]
  /\ pc' = "boot" /\ at' = 0 /\ booting' = TRUE /\ mounted' = FALSE
  /\ resets' = resets + 1
  /\ UNCHANGED <<meta, written, keys, fails>>

------------------------------------------------------------------------------
Next ==
  \/ new \/ new_clear \/ new_fails
  \/ FAT32_new \/ format_device \/ load_fs_fails
  \/ get_fs
  \/ \E b \in Blocks, v \in Values : FileWrite(b, v)
  \/ \E pin \in Pins : enable_encryption(pin) \/ unlock_device(pin)
  \/ disable_encryption \/ disable_batch \/ disable_done \/ disable_fails
  \/ Reset

Spec == Init /\ [][Next]_vars
------------------------------------------------------------------------------
TypeOK ==
  /\ mode \in {"Normal", "Encrypted", "Unlocked"} /\ key \in 0 .. MaxKeys
  /\ meta \in Metadata /\ md \in Metadata /\ data \in [Blocks -> Sector]
  /\ tpm \in [up : BOOLEAN, n : 0 .. SLOTS]
  /\ pc \in {"boot", "clear", "load", "format", "serve", "disable", "dead"}
  /\ at \in 0 .. BLOCKS /\ booting \in BOOLEAN /\ mounted \in BOOLEAN
  /\ written \in [Blocks -> Values \union {"boot", "zero", "none"}] /\ spoiled \subseteq Blocks
  /\ keys \in 0 .. MaxKeys /\ fails \in 0 .. MaxFails /\ resets \in 0 .. MaxResets

\* What holds of the disk whatever the server is doing: a block that was stored
\* and not spoiled is in the clear, or encrypted under the key that the
\* metadata on the disk seals.
DiskAgrees ==
  \A b \in Blocks \ spoiled : written[b] # "none" =>
    data[b] = IF meta.enc THEN encrypt_data(written[b], b, meta.blob.key) ELSE Plain(written[b])

\* How what is in memory relates to the disk once the metadata is loaded.
MemoryAgrees ==
  /\ md.magic /\ (~meta.magic => pc \in {"boot", "dead"})
  /\ (~meta.magic => \A b \in Blocks : written[b] = "none")
  /\ pc \in {"boot", "clear"} => mode = "Normal"
  /\ pc = "clear" => ~meta.enc /\ at < BLOCKS
  /\ pc \in {"load", "format", "disable"} => mode # "Encrypted"
  /\ pc = "format" => at < BLOCKS
  /\ pc = "disable" => mode = "Unlocked" /\ \A b \in Blocks : b < at => b \in spoiled
  /\ pc \notin {"boot", "clear", "dead"} =>
       /\ mode = "Normal" => ~meta.enc
       /\ mode = "Encrypted" => md = meta /\ meta.enc
       /\ mode = "Unlocked" => meta.enc /\ key = meta.blob.key
  /\ written[0] \in {"none", "zero", "boot"}

\* The inductive invariant.
EncDiskInv == TypeOK /\ DiskAgrees /\ MemoryAgrees /\ tpm.n <= fails

\* What a client stored is what it reads back, through resets, wrong PINs,
\* failed attempts to enable or disable and failed TPM commands, for every
\* block that disable_encryption has not gone over (read_block, write_block).
ReadBack ==
  mode # "Encrypted" /\ pc \notin {"boot", "clear", "dead"} =>
    \A b \in Blocks \ spoiled : written[b] # "none" => read_block(b) = written[b]

\* A block that is stored encrypted can be read again after a reset: the blob
\* on the disk, not just the one in memory, seals its key (enable_encryption,
\* disable_encryption).
KeyIsOnDisk ==
  \A b \in Blocks \ spoiled :
    written[b] # "none" /\ data[b].k # NOKEY => meta.enc /\ meta.blob.key = data[b].k

\* An object stays in the TPM only because a command failed: wrong PINs and
\* successful requests leave nothing behind (decrypt_master_key,
\* provision_master_key).
LeakNeedsFailure == tpm.n <= fails

\* load_fs formats only a disk without a file system: one that is new, has
\* just been enabled, or whose boot sector disable_encryption has spoiled.
\* A reset followed by unlock is no reason (FAT32FileSystem::new).
FormatsOnlyBlank ==
  [][pc # "format" /\ pc' = "format" => written[0] \in {"none", "zero"} \/ 0 \in spoiled]_vars

\* After disabling, what was stored is there in the clear: disable_encryption
\* says that it decrypts all data sectors.
DisableKeepsData ==
  mode = "Normal" /\ pc = "serve" =>
    \A b \in Blocks : written[b] # "none" => read_block(b) = written[b]
=============================================================================
