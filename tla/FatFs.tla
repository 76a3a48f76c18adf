-------------------------------- MODULE FatFs --------------------------------
(***************************************************************************)
(* The file system of the disk tutorials (app0/ff.c, configured by         *)
(* app0/ffconf.h: no long names, no exFAT, no locks, one volume, a buffer  *)
(* per file) on the block driver below it (diskio.c, virtio_disk.c).       *)
(*                                                                         *)
(* Everything but file data goes through one sector in memory, the window, *)
(* that is written back when another sector is needed; a file has a buffer *)
(* of its own.  What is on the disk therefore lags behind, and the order   *)
(* of the writes decides what a reset leaves.                              *)
(*                                                                         *)
(* A sector is <<kind, number, offset>>; a unit is 1/SS of it: a directory *)
(* entry <<name, attribute, cluster, size>> or a piece of data.  A call    *)
(* works on a record: the disk, the file system object, and the FIL or DIR *)
(* it uses; hist collects the disk before every write, err ends the call.  *)
(* The driver has no errors to report: a request the device refuses is     *)
(* never answered, and the call does not return (Virtio.tla).              *)
(***************************************************************************)
EXTENDS Integers, Sequences
LOCAL INSTANCE SequencesExt
LOCAL INSTANCE FiniteSetsExt

CONSTANTS
  SS, CSIZE,        \* units per sector, sectors per cluster
  CLUSTERS, EPS,    \* n_fatent, entries of the FAT per sector
  ROOTDIR,          \* n_rootdir of a FAT16 volume
  Paths,            \* that calls use
  Fils,             \* file objects of the program
  Reads, Writes,    \* lengths
  Offsets,          \* of seeks
  MaxOps, MaxCalls, MaxCrashes, MaxSize  \* bounds: calls on files, on paths, resets

ASSUME FatFsAssumption ==
  /\ {CSIZE, EPS, ROOTDIR} \subseteq Nat \ {0} /\ SS \in Nat /\ SS > 1
  /\ CLUSTERS \in Nat /\ CLUSTERS > 5

BCS == SS * CSIZE
Clusters == 2 .. CLUSTERS - 1
EOC == CLUSTERS
UNKNOWN == CLUSTERS + 1       \* 0xFFFFFFFF
ROOT == 2                     \* dirbase of a FAT32 volume
FatSect(c) == <<"fat", c \div EPS, 0>>
DataSect(c, n) == <<"data", c, n>>
FSINFO == <<"info", 0, 0>>
Boot(n) == <<"boot", n, 0>>   \* sector 0 of the disk; of its partition
Sectors ==
  {FSINFO, Boot(0), Boot(1)} \union {<<k, n, 0>> : k \in {"fat", "mirror"}, n \in 0 .. (CLUSTERS - 1) \div EPS}
    \union {<<"root", 0, n>> : n \in 0 .. ROOTDIR \div SS - 1}
    \union {DataSect(c, n) : c \in Clusters, n \in 0 .. CSIZE - 1}

Zero == <<"end", "ARC", 0, 0>>
Entry(name, attr, c, size) == <<name, attr, c, size>>
Datum(op, i) == <<"data", "ARC", op, i>>
DDEM == "deleted"

VARIABLES
  disk,             \* Sectors -> contents
  fs,               \* FATFS: the window (at, buf, dirty), free_clst, last_clst, fsi_flag, fs_type
  fil,              \* FILs
  dp,               \* the DIR of a program that lists a directory
  \* History and bounds.
  want,             \* by path: what the program has made of a file
  safe,             \* paths of files that have been synced and not changed since
  wrong,            \* f_read has returned something else
  torn,             \* a reset has hit one of the calls that are not safe against it
  ops, calls,       \* calls on open files, on paths
  crashes

vars == <<disk, fs, fil, dp, want, safe, wrong, torn, ops, calls, crashes>>

------------------------------------------------------------------------------
(* The disk and the window.                                                *)

\* n rounds of a loop, from s.
Loop(n, s, Step(_, _)) ==
  LET round[i \in 0 .. n] == IF i = 0 THEN s ELSE Step(round[i - 1], i) IN round[n]

Failed(s) == s.err # "OK"
Fail(s, e) == IF Failed(s) THEN s ELSE [s EXCEPT !.err = e]

disk_write(s, sect, b) ==
  IF Failed(s) THEN s
  ELSE [s EXCEPT !.d[sect] = b, !.hist = @ \union {<<s.d, s.risk>>}]

reflect(s) == IF s.at[1] = "fat" THEN disk_write(s, <<"mirror", s.at[2], 0>>, s.buf) ELSE s

sync_window(s) ==
  IF Failed(s) \/ ~s.dirty THEN s
  ELSE reflect(disk_write([s EXCEPT !.dirty = FALSE], s.at, s.buf))

show(s, sect) == [s EXCEPT !.at = sect, !.buf = s.d[sect]]

move_window(s, sect) == IF Failed(s) \/ sect = s.at THEN s ELSE show(sync_window(s), sect)

edit(s, i, v) == IF Failed(s) THEN s ELSE [s EXCEPT !.buf[i] = v, !.dirty = TRUE]

sync_fs_info(s) ==
  IF Failed(s) \/ ~(s.type = "FAT32" /\ s.fsi) THEN s
  ELSE disk_write([s EXCEPT !.at = FSINFO, !.buf = <<s.free, s.last>>, !.fsi = FALSE],
                  FSINFO, <<s.free, s.last>>)

\* Mutant: the window is not written back.
sync_fs_lazy(s) == sync_fs_info(s)

sync_fs(s) == sync_fs_info(sync_window(s))

------------------------------------------------------------------------------
(* The FAT.                                                                *)

\* The value of an entry, in the window or on the disk.
fat(s, c) == IF s.at = FatSect(c) THEN s.buf[c % EPS] ELSE s.d[FatSect(c)][c % EPS]

get_fat(s, c) == IF c \in Clusters THEN move_window(s, FatSect(c)) ELSE s

put_fat(s, c, v) ==
  IF c \notin Clusters THEN Fail(s, "INT_ERR")
  ELSE edit(move_window(s, FatSect(c)), c % EPS, v)

count_free(s) ==
  IF ~Failed(s) /\ s.free < CLUSTERS - 2 THEN [s EXCEPT !.free = @ + 1, !.fsi = TRUE] ELSE s

release(s, c) ==
  IF fat(s, c) = 0 THEN [get_fat(s, c) EXCEPT !.v = 0]
  ELSE [count_free(put_fat(get_fat(s, c), c, 0)) EXCEPT !.v = fat(s, c)]

remove_chain(s, c, pclst) ==
  IF c \notin Clusters THEN Fail(s, "INT_ERR")
  ELSE Loop(CLUSTERS, [(IF pclst = 0 THEN s ELSE put_fat(s, pclst, EOC)) EXCEPT !.v = c],
            LAMBDA t, i : IF Failed(t) \/ t.v \notin Clusters THEN t ELSE release(t, t.v))

\* The clusters after scl, then those up to it: the first free one, or 0, in s.v.
find_free(s, scl) ==
  LET try(t, c) == [get_fat(t, c) EXCEPT !.v = IF fat(t, c) = 0 THEN c ELSE 0] IN
  Loop(CLUSTERS - 2, [s EXCEPT !.v = 0],
       LAMBDA t, i : IF t.v # 0 THEN t ELSE try(t, 2 + ((scl + i - 2) % (CLUSTERS - 2))))

next_or_find(s, c) ==
  LET n == IF c + 1 >= CLUSTERS THEN 2 ELSE c + 1 IN
  IF fat(s, n) = 0 THEN [get_fat(s, n) EXCEPT !.v = n]
  ELSE find_free(get_fat(s, n), IF s.last \in Clusters THEN s.last ELSE c)

\* The cluster s.v ends a chain, then it is linked behind c.
take(s, c) ==
  IF s.v = 0 THEN s
  ELSE [(IF c = 0 THEN put_fat(s, s.v, EOC) ELSE put_fat(put_fat(s, s.v, EOC), c, s.v))
          EXCEPT !.last = s.v, !.free = IF @ <= CLUSTERS - 2 THEN @ - 1 ELSE @, !.fsi = TRUE]

\* A new chain, or the cluster behind c; s.v is 0 if the disk is full and 1 if
\* the chain is broken.
create_chain(s, c) ==
  IF Failed(s) THEN s
  ELSE IF c # 0 /\ (c \notin Clusters \/ fat(s, c) < 2) THEN [get_fat(s, c) EXCEPT !.v = 1]
  ELSE IF c # 0 /\ fat(s, c) \in Clusters THEN [get_fat(s, c) EXCEPT !.v = fat(s, c)]
  ELSE IF s.free = 0 THEN [get_fat(s, c) EXCEPT !.v = 0]
  ELSE take(IF c = 0 THEN find_free(s, IF s.last \in 1 .. CLUSTERS - 1 THEN s.last ELSE 1)
            ELSE next_or_find(get_fat(s, c), c), c)

------------------------------------------------------------------------------
(* Directories.  s.dj is the DIR: its table (0 for the root), the index of *)
(* the entry and its cluster (0 in a static table).                        *)

Place(dj) == IF dj.cl = 0 THEN <<"root", 0, dj.k \div SS>>
             ELSE DataSect(dj.cl, (dj.k \div SS) % CSIZE)
Slot(dj) == dj.k % SS
At(s) == s.buf[Slot(s.dj)]

Fill(v) == [i \in 0 .. SS - 1 |-> v]

\* The window is left on the first sector of the cluster.
dir_clear(s, c) ==
  IF Failed(s) THEN s
  ELSE Loop(CSIZE, [sync_window(s) EXCEPT !.at = DataSect(c, 0), !.buf = Fill(Zero)],
            LAMBDA t, n : disk_write(t, DataSect(c, n - 1), Fill(Zero)))

dir_sdi(s, sc) ==
  [s EXCEPT !.hit = FALSE,
     !.dj = [sc |-> sc, k |-> 0, cl |-> IF sc = 0 /\ s.type = "FAT32" THEN ROOT ELSE sc]]

into(s, c) == IF Failed(s) THEN s ELSE [s EXCEPT !.dj.cl = c, !.dj.k = @ + 1, !.risk = FALSE]

\* The new cluster is linked before it is cleared.
stretch_dir(s) ==
  IF s.v = 0 THEN Fail(s, "DENIED")
  ELSE IF s.v = 1 THEN Fail(s, "INT_ERR")
  ELSE into(dir_clear([s EXCEPT !.risk = TRUE], s.v), s.v)

dir_next(s, stretch) ==
  LET k == s.dj.k + 1 IN
  IF Failed(s) THEN s
  ELSE IF s.dj.cl = 0 THEN IF k >= ROOTDIR THEN Fail(s, "NO_FILE") ELSE [s EXCEPT !.dj.k = k]
  ELSE IF k % BCS # 0 THEN [s EXCEPT !.dj.k = k]
  ELSE IF fat(s, s.dj.cl) <= 1 THEN Fail(get_fat(s, s.dj.cl), "INT_ERR")
  ELSE IF fat(s, s.dj.cl) \in Clusters THEN into(get_fat(s, s.dj.cl), fat(s, s.dj.cl))
  ELSE IF ~stretch THEN Fail(get_fat(s, s.dj.cl), "NO_FILE")
  ELSE stretch_dir(create_chain(get_fat(s, s.dj.cl), s.dj.cl))

\* Goes through the table from where s.dj is to an entry that is Hit.
Seek(s, stretch, End(_), Hit(_)) ==
  LET look(t) == IF Failed(t) \/ End(At(t)) THEN Fail(t, "NO_FILE")
                 ELSE IF Hit(At(t)) THEN [t EXCEPT !.hit = TRUE] ELSE dir_next(t, stretch)
  IN Loop(BCS * CLUSTERS, s,
          LAMBDA t, i : IF Failed(t) \/ t.hit THEN t ELSE look(move_window(t, Place(t.dj))))

dir_alloc(s) == Seek(dir_sdi(s, s.dj.sc), TRUE, LAMBDA u : FALSE, LAMBDA u : u[1] \in {DDEM, "end"})

dir_find(s, name) == Seek(dir_sdi(s, s.dj.sc), FALSE, LAMBDA u : u = Zero, LAMBDA u : u[1] = name)

\* Mutant: a removed entry ends the listing.
dir_read_stops(s) ==
  Seek(s, FALSE, LAMBDA u : u = Zero \/ u[1] = DDEM, LAMBDA u : u[1] \notin {".", ".."})

dir_read(s) == Seek(s, FALSE, LAMBDA u : u = Zero, LAMBDA u : u[1] \notin {DDEM, ".", ".."})

\* No entry is to be had in a static table that is full.
dir_register(s, name) ==
  LET t == dir_alloc(s) IN
  IF t.err = "NO_FILE" THEN [t EXCEPT !.err = "DENIED"]
  ELSE edit(t, Slot(t.dj), Entry(name, "ARC", 0, 0))

\* Only the first byte of the name changes.
dir_remove(s, dj) ==
  LET t == move_window(s, Place(dj)) IN
  edit(t, Slot(dj), [t.buf[Slot(dj)] EXCEPT ![1] = DDEM])

\* s.dj is the directory of the last name, and its entry if it is there.
follow_path(s, path) ==
  LET enter(t) == IF At(t)[2] = "DIR" THEN [t EXCEPT !.dj.sc = At(t)[3]] ELSE Fail(t, "NO_PATH")
      missing(t, i) == IF t.err = "NO_FILE" /\ i < Len(path) THEN [t EXCEPT !.err = "NO_PATH"] ELSE t
      step(t, i) == IF Failed(t) THEN t
                    ELSE missing(dir_find(IF i = 1 THEN t ELSE enter(t), path[i]), i)
  IN Loop(Len(path), dir_sdi(s, 0), step)

------------------------------------------------------------------------------
(* Files.  s.fp is the FIL.                                                *)

Closed == [open |-> FALSE]
NoSect == <<"none", 0, 0>>

ABORT(s, e) == IF Failed(s) THEN s ELSE [Fail(s, e) EXCEPT !.fp.err = TRUE]

\* Mutant: the chain goes before the entry is written.
overwrite_chain_first(s) ==
  LET c == At(s)[3]
      clear(t) == edit(move_window(t, s.at), Slot(s.dj), Entry(At(s)[1], "ARC", 0, 0))
  IN IF Failed(s) \/ c = 0 THEN s ELSE [clear(remove_chain(s, c, 0)) EXCEPT !.last = c - 1]

\* The window shows the entry; the chain goes once the entry no longer has it.
overwrite(s) ==
  LET c == At(s)[3]
      t == edit(s, Slot(s.dj), Entry(At(s)[1], "ARC", 0, 0))
  IN IF Failed(s) \/ c = 0 THEN t
     ELSE [move_window(remove_chain(t, c, 0), s.at) EXCEPT !.last = c - 1]

Creates == {"CREATE_ALWAYS", "CREATE_NEW", "OPEN_ALWAYS", "OPEN_APPEND"}

open_entry(s, path, mode) ==
  IF mode \notin Creates
    THEN IF ~Failed(s) /\ At(s)[2] = "DIR" THEN Fail(s, "NO_FILE") ELSE s
  ELSE IF s.err = "NO_FILE" THEN dir_register([s EXCEPT !.err = "OK"], Last(path))
  ELSE IF Failed(s) THEN s
  ELSE IF At(s)[2] = "DIR" THEN Fail(s, "DENIED")
  ELSE IF mode = "CREATE_NEW" THEN Fail(s, "EXIST")
  ELSE IF mode = "CREATE_ALWAYS" THEN overwrite(s) ELSE s

\* follow: one step along the chain of the file, in s.v.
follow(s) ==
  IF Failed(s) THEN s
  ELSE IF s.v \notin Clusters \/ fat(s, s.v) <= 1 THEN Fail(get_fat(s, s.v), "INT_ERR")
  ELSE [get_fat(s, s.v) EXCEPT !.v = fat(s, s.v)]

seek_end(s) ==
  LET hops == (s.fp.size - 1) \div BCS
      t == Loop(hops, [s EXCEPT !.v = s.fp.sclust], LAMBDA u, i : follow(u))
      rest == s.fp.size - hops * BCS
      load(u) == IF Failed(u) \/ rest % SS = 0 THEN u
                 ELSE IF u.v \notin Clusters THEN Fail(u, "INT_ERR")
                 ELSE [u EXCEPT !.fp.sect = DataSect(u.v, rest \div SS),
                                !.fp.buf = u.d[DataSect(u.v, rest \div SS)]]
  IN load([t EXCEPT !.fp.fptr = s.fp.size, !.fp.clust = t.v])

\* The FIL of the entry in the window.
open_fil(s, path, mode, new) ==
  IF Failed(s) THEN s
  ELSE LET t == [s EXCEPT !.fp =
             [open |-> TRUE, path |-> path, write |-> mode # "READ", mod |-> new, dirty |-> FALSE,
              err |-> FALSE, fptr |-> 0, clust |-> 0, sclust |-> At(s)[3], size |-> At(s)[4],
              sect |-> NoSect, buf |-> Fill(Zero), dir |-> <<s.at, Slot(s.dj)>>, cut |-> FALSE]]
       IN IF mode = "OPEN_APPEND" /\ t.fp.size > 0 THEN seek_end(t) ELSE t

write_back(s) ==
  IF Failed(s) \/ ~s.fp.dirty THEN s
  ELSE [disk_write(s, s.fp.sect, s.fp.buf) EXCEPT !.fp.dirty = FALSE]

Csect(s) == (s.fp.fptr \div SS) % CSIZE
Here(s) == DataSect(s.fp.clust, Csect(s))
Least(a, b) == IF a < b THEN a ELSE b

read_cluster(s) ==
  LET c == IF s.fp.fptr = 0 THEN s.fp.sclust ELSE IF s.fp.clust \in Clusters THEN fat(s, s.fp.clust) ELSE 1
      t == IF s.fp.fptr = 0 THEN s ELSE get_fat(s, s.fp.clust)
  IN IF s.fp.fptr % BCS # 0 THEN s
     ELSE IF c \notin Clusters THEN ABORT(t, "INT_ERR") ELSE [t EXCEPT !.fp.clust = c]

\* Mutant: the buffer of the file is forgotten.
read_sectors_disk(s, cc) ==
  [s EXCEPT !.out = @ \o [i \in 1 .. cc * SS |-> s.d[Here(s)][(i - 1) % SS]],
            !.multi = @ \/ cc > 1, !.fp.fptr = @ + cc * SS, !.n = @ - cc * SS]

\* disk_read and disk_write of several sectors do not advance the sector number:
\* each piece is the first sector again.
transferred(s, j) == Here(s)

\* Whole sectors come from the disk, with the buffer laid over them if it is
\* dirty ...
read_sectors(s, cc) ==
  LET mine(j) == s.fp.dirty /\ s.fp.sect = DataSect(s.fp.clust, Csect(s) + j)
      got(j, i) == IF mine(j) THEN s.fp.buf[i] ELSE s.d[transferred(s, j)][i]
  IN [s EXCEPT !.out = @ \o [i \in 1 .. cc * SS |-> got((i - 1) \div SS, (i - 1) % SS)],
               !.multi = @ \/ cc > 1, !.fp.fptr = @ + cc * SS, !.n = @ - cc * SS]

\* ... and parts of one from the buffer.
load_buffer(s) ==
  IF Failed(s) \/ s.fp.fptr % SS # 0 \/ s.fp.sect = Here(s) THEN s
  ELSE [write_back(s) EXCEPT !.fp.sect = Here(s), !.fp.buf = write_back(s).d[Here(s)]]

read_part(s) ==
  LET r == Least(SS - (s.fp.fptr % SS), s.n)
  IN IF Failed(s) THEN s
     ELSE [s EXCEPT !.out = @ \o [i \in 1 .. r |-> s.fp.buf[(s.fp.fptr % SS) + i - 1]],
                    !.fp.fptr = @ + r, !.n = @ - r]

read_step(s) ==
  IF Failed(s) THEN s
  ELSE IF s.fp.fptr % SS = 0 /\ s.n >= SS
    THEN read_sectors(s, Least(s.n \div SS, CSIZE - Csect(s)))
  ELSE read_part(load_buffer(s))

read_loop(s) ==
  Loop(s.n, s, LAMBDA t, i : IF Failed(t) \/ t.n = 0 THEN t ELSE read_step(read_cluster(t)))

\* s.n becomes 0 when the disk is full.
write_cluster(s) ==
  LET t == IF s.fp.fptr # 0 THEN create_chain(s, s.fp.clust)
           ELSE IF s.fp.sclust # 0 THEN [s EXCEPT !.v = s.fp.sclust] ELSE create_chain(s, 0)
  IN IF s.fp.fptr % BCS # 0 THEN s
     ELSE IF t.v = 0 THEN [t EXCEPT !.n = 0]
     ELSE IF t.v = 1 THEN ABORT(t, "INT_ERR")
     ELSE [t EXCEPT !.fp.clust = t.v, !.fp.sclust = IF @ = 0 THEN t.v ELSE @]

advance(s, r) ==
  [s EXCEPT !.fp.fptr = @ + r, !.n = @ - r, !.k = @ + r,
            !.fp.size = IF s.fp.fptr + r > @ THEN s.fp.fptr + r ELSE @]

\* Whole sectors go to the disk; the buffer follows if it is one of them ...
write_sectors(s, cc) ==
  LET bytes(j) == [i \in 0 .. SS - 1 |-> Datum(ops, s.k + j * SS + i)]
      x(j) == DataSect(s.fp.clust, Csect(s) + j)
      t == Loop(cc, [s EXCEPT !.multi = @ \/ cc > 1],
                LAMBDA u, j : disk_write(u, transferred(s, j - 1), bytes(j - 1)))
      mine == {j \in 0 .. cc - 1 : s.fp.sect = x(j)}
  IN advance(IF mine = {} THEN t
             ELSE [t EXCEPT !.fp.buf = bytes(CHOOSE j \in mine : TRUE), !.fp.dirty = FALSE], cc * SS)

\* ... and parts of one go to the buffer, filled if the file reaches into it.
fill_buffer(s) ==
  IF Failed(s) \/ s.fp.fptr % SS # 0 THEN s
  ELSE [s EXCEPT !.fp.sect = Here(s),
          !.fp.buf = IF s.fp.sect # Here(s) /\ s.fp.fptr < s.fp.size THEN s.d[Here(s)] ELSE @]

write_part(s) ==
  LET r == Least(SS - (s.fp.fptr % SS), s.n)
      o == s.fp.fptr % SS
  IN IF Failed(s) THEN s
     ELSE advance([s EXCEPT !.fp.dirty = TRUE,
                     !.fp.buf = [i \in 0 .. SS - 1 |->
                        IF i >= o /\ i < o + r THEN Datum(ops, s.k + i - o) ELSE @[i]]], r)

write_step(s) ==
  IF Failed(s) \/ s.n = 0 THEN s
  ELSE IF s.fp.fptr % SS = 0 /\ s.n >= SS
    THEN write_sectors(write_back(s), Least(s.n \div SS, CSIZE - Csect(s)))
  ELSE write_part(fill_buffer(IF s.fp.fptr % SS = 0 THEN write_back(s) ELSE s))

write_loop(s) ==
  Loop(s.n, s, LAMBDA t, i : IF Failed(t) \/ t.n = 0 THEN t ELSE write_step(write_cluster(t)))

update_entry(s) ==
  LET t == move_window(s, s.fp.dir[1])
      e == t.buf[s.fp.dir[2]]
  IN edit(t, s.fp.dir[2], Entry(e[1], "ARC", s.fp.sclust, s.fp.size))

\* The data, then the entry, behind whatever the window held, then FSInfo.
sync_fil(s) ==
  IF Failed(s) \/ ~s.fp.mod THEN s
  ELSE [sync_fs(update_entry(write_back(s))) EXCEPT !.fp.mod = FALSE, !.fp.cut = FALSE]

\* One cluster further, s.n is what is left of the offset; in write mode the
\* chain is made longer, and a full disk ends the way here.
seek_cluster(s) ==
  LET t == [(IF s.fp.write THEN create_chain(s, s.fp.clust) ELSE follow([s EXCEPT !.v = s.fp.clust]))
              EXCEPT !.n = @ - BCS, !.fp.fptr = @ + BCS]
  IN IF Failed(s) \/ s.n <= BCS THEN s
     ELSE IF s.fp.write /\ t.v = 0 THEN [t EXCEPT !.n = 0]
     ELSE IF Failed(t) \/ t.v \notin Clusters THEN ABORT([t EXCEPT !.err = "OK"], "INT_ERR")
     ELSE [t EXCEPT !.fp.clust = t.v]

seek_start(s, ofs) ==
  LET at == s.fp.fptr
      back == (at - 1) \div BCS
      t == IF s.fp.sclust = 0 THEN create_chain(s, 0) ELSE [s EXCEPT !.v = s.fp.sclust]
  IN IF at > 0 /\ (ofs - 1) \div BCS >= back
       THEN [s EXCEPT !.fp.fptr = back * BCS, !.n = ofs - back * BCS]
     ELSE [t EXCEPT !.fp.sclust = t.v, !.fp.clust = t.v, !.fp.fptr = 0,
                    !.n = IF t.v = 0 THEN 0 ELSE ofs]

seek_end_of(s) == IF Failed(s) THEN s ELSE [s EXCEPT !.fp.fptr = @ + s.n]

\* A longer file has whatever its new clusters hold.
seek_size(s) ==
  IF Failed(s) \/ s.fp.fptr <= s.fp.size THEN s
  ELSE [s EXCEPT !.fp.size = s.fp.fptr, !.fp.mod = TRUE]

seek_path(s, ofs) ==
  IF ofs = 0 THEN [s EXCEPT !.fp.fptr = 0]
  ELSE seek_end_of(Loop(ofs \div BCS, seek_start(s, ofs), LAMBDA t, i : seek_cluster(t)))

seek_load(s) == IF s.fp.fptr % SS = 0 THEN s
                ELSE IF Failed(s) \/ s.fp.sect = Here(s) THEN s
                ELSE [write_back(s) EXCEPT !.fp.sect = Here(s), !.fp.buf = write_back(s).d[Here(s)]]

truncate_chain(s) ==
  IF s.fp.fptr = 0 THEN [remove_chain(s, s.fp.sclust, 0) EXCEPT !.fp.sclust = 0]
  ELSE IF s.fp.clust \notin Clusters \/ fat(s, s.fp.clust) = 1 THEN Fail(s, "INT_ERR")
  ELSE IF fat(s, s.fp.clust) >= CLUSTERS THEN get_fat(s, s.fp.clust)
  ELSE remove_chain(get_fat(s, s.fp.clust), fat(s, s.fp.clust), s.fp.clust)

truncate(s) ==
  IF s.fp.fptr >= s.fp.size THEN s
  ELSE LET t == write_back([truncate_chain([s EXCEPT !.risk = TRUE])
                              EXCEPT !.fp.size = s.fp.fptr, !.fp.mod = TRUE, !.fp.cut = TRUE])
       IN IF Failed(t) THEN [t EXCEPT !.fp.err = TRUE] ELSE t

------------------------------------------------------------------------------
(* Mounting.  A boot sector has a signature or not; it is the first sector *)
(* of a volume of type vbr, with the parameters bpb, or holds the table pt *)
(* of four partitions.  The limits on the number of clusters that tell the *)
(* types apart are left out: vbr is what they say.                         *)

NotMounted == [at |-> NoSect, buf |-> <<>>, dirty |-> FALSE, free |-> UNKNOWN,
               last |-> UNKNOWN, fsi |-> FALSE, type |-> "none"]

\* The window is invalidated first.  s.v is 0 for a volume, 2 or 3 for anything
\* else, with or without a signature.
check_fs(s, sect) ==
  LET b == s.d[sect] IN
  [show([s EXCEPT !.dirty = FALSE], sect)
     EXCEPT !.v = IF b.vbr # "none" THEN 0 ELSE IF b.signed THEN 2 ELSE 3]

\* A volume without partitions, or the first partition that is a volume.
find_volume(s) ==
  LET t == check_fs(s, Boot(0))
      try(u, x) == IF x = NoSect THEN [u EXCEPT !.v = 3] ELSE check_fs(u, x)
  IN IF t.v # 2 THEN t
     ELSE Loop(4, t, LAMBDA u, i : IF u.v < 2 THEN u ELSE try(u, t.buf.pt[i]))

\* The counts of FSInfo are taken as they are.
read_fsinfo(s) ==
  LET t == move_window(s, FSINFO) IN [t EXCEPT !.free = t.buf[1], !.last = t.buf[2]]

\* The parameters of a volume are possible: sectors of the size of the disk's, a
\* root directory of whole sectors, clusters, and a FAT that has an entry for each.
bpb_fits(b, type) ==
  LET sysect == b.nrsv + b.n_fats * b.fsize + b.n_rootdir \div SS
      nclst == (b.tsect - sysect) \div b.csize
  IN /\ b.ss = SS /\ b.n_fats \in {1, 2} /\ b.csize \in {2 ^ k : k \in 0 .. 7}
     /\ b.n_rootdir % SS = 0 /\ b.nrsv # 0
     /\ b.tsect >= sysect /\ nclst # 0
     /\ IF type = "FAT32" THEN b.fsver = 0 /\ b.n_rootdir = 0 ELSE b.n_rootdir # 0
     /\ b.fsize * EPS >= nclst + 2

\* The window shows the first sector of the volume.
analyze_bpb(s) ==
  LET t == [s EXCEPT !.free = UNKNOWN, !.last = UNKNOWN, !.fsi = FALSE, !.type = s.buf.vbr] IN
  IF ~bpb_fits(s.buf.bpb, s.buf.vbr) THEN Fail(s, "NO_FILESYSTEM")
  ELSE IF t.type = "FAT32" THEN read_fsinfo(t) ELSE t

mount_volume(s) ==
  LET t == find_volume([s EXCEPT !.type = "none"]) IN
  IF t.v >= 2 THEN Fail(t, "NO_FILESYSTEM") ELSE analyze_bpb(t)

------------------------------------------------------------------------------
(* What is on the volume.                                                  *)

\* The volume as the code sees it, through the window.
Volume == [disk EXCEPT ![fs.at] = fs.buf]

Chain(d, c) ==
  LET next(x) == d[FatSect(x)][x % EPS]
      walk[n \in 0 .. CLUSTERS] ==
        IF n = 0 THEN IF c \in Clusters THEN <<c>> ELSE <<>>
        ELSE LET w == walk[n - 1] IN
             IF w # <<>> /\ next(Last(w)) \in Clusters THEN Append(w, next(Last(w))) ELSE w
  IN walk[CLUSTERS]

Units(d, c) ==
  LET w == Chain(d, c) IN
  [i \in 1 .. BCS * Len(w) |->
     d[DataSect(w[1 + (i - 1) \div BCS], ((i - 1) \div SS) % CSIZE)][(i - 1) % SS]]

RootUnits(d) ==
  IF fs.type = "FAT32" THEN Units(d, ROOT)
  ELSE [i \in 1 .. ROOTDIR |-> d[<<"root", 0, (i - 1) \div SS>>][(i - 1) % SS]]

Entries(p, us) ==
  LET end == Min({i \in 1 .. Len(us) : us[i] = Zero} \union {Len(us) + 1}) IN
  {[path |-> Append(p, us[i][1]), dir |-> us[i][2] = "DIR", c |-> us[i][3], size |-> us[i][4]] :
     i \in {j \in 1 .. end - 1 : us[j][1] \notin {DDEM, ".", ".."}}}

------------------------------------------------------------------------------
(* Calls.                                                                  *)

Begin(d, o, fp) ==
  [d |-> d, at |-> o.at, buf |-> o.buf, dirty |-> o.dirty, free |-> o.free,
   last |-> o.last, fsi |-> o.fsi, type |-> o.type, fp |-> fp,
   dj |-> [sc |-> 0, k |-> 0, cl |-> 0], hit |-> FALSE, v |-> 0, n |-> 0, k |-> 0, out |-> <<>>,
   risk |-> FALSE, multi |-> FALSE, hist |-> {}, err |-> "OK"]

Start(fp) == Begin(disk, fs, fp)

Object(s) == [at |-> s.at, buf |-> s.buf, dirty |-> s.dirty, free |-> s.free,
              last |-> s.last, fsi |-> s.fsi, type |-> s.type]

Without(w, ps) == [p \in DOMAIN w \ ps |-> w[p]]

\* The call ends ...
Finish(s) == disk' = s.d /\ fs' = Object(s) /\ UNCHANGED <<torn, crashes>>
Return(s) == Finish(s) /\ UNCHANGED dp

\* ... or the machine is reset on the way; nothing is known of the files ps.
Reset(d, ps, risk) ==
  /\ crashes < MaxCrashes /\ crashes' = crashes + 1
  /\ disk' = d /\ fs' = Object(mount_volume(Begin(d, NotMounted, Closed)))
  /\ fil' = [f \in Fils |-> Closed] /\ dp' = Closed
  /\ want' = Without(want, DOMAIN want \ (safe \ ps)) /\ safe' = safe \ ps
  /\ torn' = (torn \/ risk \/ \E f \in Fils : fil[f].open /\ fil[f].cut)

Cut(s, ps) == \E h \in s.hist : Reset(h[1], ps, h[2]) /\ UNCHANGED wrong

\* Also f_mount: it does not write the window back, and invalidates every FIL
\* and DIR.
f_mount == Reset(disk, {}, FALSE) /\ UNCHANGED <<ops, calls, wrong>>

PathCall == calls < MaxCalls /\ calls' = calls + 1 /\ UNCHANGED ops
FileCall(f) == ~dp.open /\ ops < MaxOps /\ ops' = ops + 1 /\ UNCHANGED calls /\ fil[f].open
Opened(p) == {f \in Fils : fil[f].open /\ fil[f].path = p}
Usable(f) == FileCall(f) /\ ~fil[f].err

\* ffconf.h: the program does not open, remove or rename what is open.
Listed(path) == dp.open /\ IsPrefix(path, dp.path)

f_open(f, path, mode) ==
  /\ PathCall /\ ~fil[f].open
  /\ \A g \in Opened(path) : ~fil[g].write /\ mode = "READ"
  /\ \E s1 \in {follow_path(Start(Closed), path)} :
     \E new \in {mode = "CREATE_ALWAYS" \/ (mode \in Creates /\ Failed(s1))} :
     \E s2 \in {open_entry(s1, path, mode)} :
     \E s \in {open_fil(s2, path, mode, new)} :
     \/ /\ Return(s)
        /\ fil' = [fil EXCEPT ![f] = IF Failed(s) THEN Closed ELSE s.fp]
        /\ want' = IF Failed(s) \/ ~new THEN want ELSE (path :> <<>>) @@ want
        /\ safe' = IF Failed(s) \/ ~new THEN safe ELSE safe \ {path}
        /\ UNCHANGED wrong
     \/ Cut(s, IF new THEN {path} ELSE {})

Undefined == <<"any", "ARC", 0, 0>>
Match(a, w) == Len(a) = Len(w) /\ \A i \in DOMAIN a : w[i] \in {a[i], Undefined}
Known(p) == ~torn /\ p \in DOMAIN want

f_read(f, n) ==
  /\ Usable(f)
  /\ \E s \in {read_loop([Start(fil[f]) EXCEPT !.n = Least(n, fil[f].size - fil[f].fptr)])} :
     \/ /\ Return(s)
        /\ fil' = [fil EXCEPT ![f] = s.fp]
        /\ wrong' = (wrong \/ (~s.multi /\ Known(s.fp.path) /\
              ~Match(s.out, SubSeq(want[s.fp.path], fil[f].fptr + 1,
                                   Least(fil[f].fptr + n, Len(want[s.fp.path]))))))
        /\ UNCHANGED <<want, safe>>
     \/ Cut(s, {})

Overlay(old, off, n) ==
  [i \in 1 .. (IF off + n > Len(old) THEN off + n ELSE Len(old)) |->
     IF i > off /\ i <= off + n THEN Datum(ops, i - off - 1) ELSE old[i]]

f_write(f, n) ==
  /\ Usable(f) /\ fil[f].write /\ fil[f].fptr + n <= MaxSize
  /\ \E s \in {write_loop([Start(fil[f]) EXCEPT !.n = n])} :
     \/ /\ Return(s)
        /\ fil' = [fil EXCEPT ![f] = [s.fp EXCEPT !.mod = @ \/ ~Failed(s)]]
        /\ want' = IF s.multi THEN Without(want, {s.fp.path})
                   ELSE IF ~Known(s.fp.path) THEN want
                   ELSE [want EXCEPT ![s.fp.path] = Overlay(@, fil[f].fptr, s.k)]
        /\ safe' = safe \ {s.fp.path}
        /\ UNCHANGED wrong
     \/ Cut(s, {fil[f].path})

f_sync(f) ==
  /\ FileCall(f) /\ fil[f].mod
  /\ \E s \in {sync_fil(Start(fil[f]))} :
     \/ /\ Return(s)
        /\ fil' = [fil EXCEPT ![f] = s.fp]
        /\ safe' = safe \union ({s.fp.path} \cap DOMAIN want)
        /\ UNCHANGED <<want, wrong>>
     \/ Cut(s, {fil[f].path})

f_close(f) ==
  /\ FileCall(f)
  /\ \E s \in {sync_fil(Start(fil[f]))} :
     \/ /\ Return(s)
        /\ fil' = [fil EXCEPT ![f] = Closed]
        /\ safe' = IF fil[f].mod THEN safe \union ({s.fp.path} \cap DOMAIN want) ELSE safe
        /\ UNCHANGED <<want, wrong>>
     \/ Cut(s, {fil[f].path})

\* A file that is open to be read is not made longer.
f_lseek(f, to) ==
  /\ Usable(f)
  /\ \E ofs \in {IF fil[f].write THEN to ELSE Least(to, fil[f].size)} :
     \E s \in {seek_load(seek_size(seek_path(Start(fil[f]), ofs)))} :
     \/ /\ Return(s)
        /\ fil' = [fil EXCEPT ![f] = s.fp]
        /\ want' = IF ~Known(s.fp.path) THEN want
                   ELSE [want EXCEPT ![s.fp.path] =
                           @ \o [i \in 1 .. s.fp.size - fil[f].size |-> Undefined]]
        /\ safe' = IF s.fp.size > fil[f].size THEN safe \ {s.fp.path} ELSE safe
        /\ UNCHANGED wrong
     \/ Cut(s, {})

f_truncate(f) ==
  /\ Usable(f) /\ fil[f].write
  /\ \E s \in {truncate(Start(fil[f]))} :
     \/ /\ Return(s)
        /\ fil' = [fil EXCEPT ![f] = s.fp]
        /\ want' = IF ~Known(s.fp.path) THEN want ELSE [want EXCEPT ![s.fp.path] = SubSeq(@, 1, s.fp.size)]
        /\ safe' = IF s.fp.size < fil[f].size THEN safe \ {s.fp.path} ELSE safe
        /\ UNCHANGED wrong
     \/ Cut(s, {fil[f].path})

\* The call has removed an entry from the directory that is being listed.
Gone(s, path) ==
  dp' = IF Failed(s) \/ ~dp.open \/ Front(path) # dp.path THEN dp
        ELSE [dp EXCEPT !.stay = @ \ {Last(path)}, !.left = @ \ {Last(path)}]

Below(p) == {q \in DOMAIN want : IsPrefix(p, q)}

\* A directory must be empty.
unlink_check(s) ==
  LET t == dir_read(dir_sdi(s, At(s)[3])) IN
  IF Failed(s) \/ At(s)[2] # "DIR" THEN s
  ELSE IF ~Failed(t) THEN Fail(t, "DENIED")
  ELSE IF t.err = "NO_FILE" THEN [t EXCEPT !.err = "OK"] ELSE t

unlink(s, dj, c) ==
  LET t == dir_remove(s, dj) IN
  IF Failed(s) THEN s ELSE sync_fs(IF c = 0 THEN t ELSE remove_chain(t, c, 0))

f_unlink(path) ==
  /\ PathCall /\ Opened(path) = {} /\ ~Listed(path)
  /\ \E s1 \in {follow_path(Start(Closed), path)} :
     \E s \in {IF Failed(s1) THEN s1 ELSE unlink(unlink_check(s1), s1.dj, At(s1)[3])} :
     \/ /\ Finish(s) /\ Gone(s, path)
        /\ want' = IF Failed(s) THEN want ELSE Without(want, {path})
        /\ safe' = IF Failed(s) THEN safe ELSE safe \ {path}
        /\ UNCHANGED <<fil, wrong>>
     \/ Cut(s, {path})

dots(s, c, parent) ==
  edit(edit(s, 0, Entry(".", "DIR", c, 0)), 1, Entry("..", "DIR", parent, 0))

\* The table, then its entry; a directory without an entry gives it back.
make_dir(s, name) ==
  LET c == s.v
      t == dir_register(dots(dir_clear(s, c), c, s.dj.sc), name)
  IN IF c = 0 THEN Fail(s, "DENIED")
     ELSE IF Failed(t) THEN [remove_chain([t EXCEPT !.err = "OK"], c, 0) EXCEPT !.err = t.err]
     ELSE sync_fs(edit(t, Slot(t.dj), Entry(name, "DIR", c, 0)))

f_mkdir(path) ==
  /\ PathCall
  /\ \E s1 \in {follow_path(Start(Closed), path)} :
     \E s \in {IF s1.err = "NO_FILE"
               THEN make_dir(create_chain([s1 EXCEPT !.err = "OK"], 0), Last(path)) ELSE s1} :
     \/ Return(s) /\ UNCHANGED <<fil, want, safe, wrong>>
     \/ Cut(s, {})

\* The window may leave the sector with the new entry before the old one is
\* gone.
leave(s, sect) == [move_window(s, sect) EXCEPT !.risk = @ \/ s.at # sect]

dotdot(s, e, from) ==
  LET t == leave(s, DataSect(e[3], 0)) IN
  IF Failed(s) \/ e[2] # "DIR" \/ s.dj.sc = from THEN s
  ELSE IF e[3] \notin Clusters THEN Fail(s, "INT_ERR")
  ELSE IF t.buf[1][1] = ".." THEN edit(t, 1, [t.buf[1] EXCEPT ![3] = s.dj.sc]) ELSE t

put_entry(s, e, name) ==
  IF Failed(s) THEN s ELSE edit(s, Slot(s.dj), [e EXCEPT ![1] = name])

\* s1 has found the old entry: the new one is written, then the old one removed.
rename(s1, new) ==
  LET e == At(s1)
      n == follow_path(s1, new)
      same == ~Failed(n) /\ n.dj = s1.dj
      t == dotdot(put_entry(dir_register([n EXCEPT !.err = "OK"], Last(new)), e, Last(new)),
                  e, s1.dj.sc)
  IN IF Failed(n) /\ n.err # "NO_FILE" THEN n
     ELSE IF ~Failed(n) /\ ~same THEN Fail(n, "EXIST")
     ELSE IF Failed(t) THEN t
     ELSE sync_fs(dir_remove(leave(t, Place(s1.dj)), s1.dj))

Moved(p, old, new) == new \o SubSeq(p, Len(old) + 1, Len(p))
Move(w, old, new) ==
  [p \in {Moved(q, old, new) : q \in Below(old)} |-> w[old \o SubSeq(p, Len(new) + 1, Len(p))]]
    @@ Without(w, Below(old))

\* A directory is not moved below itself.
f_rename(old, new) ==
  /\ PathCall /\ ~IsStrictPrefix(old, new) /\ ~Listed(old)
  /\ \A f \in Fils : fil[f].open => ~IsPrefix(old, fil[f].path)
  /\ \E s1 \in {follow_path(Start(Closed), old)} :
     \E s \in {IF Failed(s1) THEN s1 ELSE rename(s1, new)} :
     \/ /\ Finish(s) /\ Gone(s, old)
        /\ want' = IF Failed(s) THEN want ELSE Move(want, old, new)
        /\ safe' = IF Failed(s) THEN safe
                   ELSE (safe \ Below(old)) \union {Moved(p, old, new) : p \in safe \cap Below(old)}
        /\ UNCHANGED <<fil, wrong>>
     \/ Cut(s, Below(old))

f_stat(path) ==
  /\ PathCall
  /\ \E s \in {follow_path(Start(Closed), path)} :
     \/ Return(s) /\ UNCHANGED <<fil, want, safe, wrong>>
     \/ Cut(s, {})

NamesIn(sc) ==
  {Last(e.path) : e \in Entries(<<>>, IF sc = 0 THEN RootUnits(Volume) ELSE Units(Volume, sc))}

rewind(s, path) ==
  [open |-> TRUE, path |-> path, dj |-> s.dj, end |-> FALSE, twice |-> FALSE,
   stay |-> NamesIn(s.dj.sc), left |-> NamesIn(s.dj.sc)]

open_dir(s, path) ==
  IF Failed(s) \/ path = <<>> THEN s
  ELSE IF At(s)[2] = "DIR" THEN dir_sdi(s, At(s)[3]) ELSE Fail(s, "NO_PATH")

\* A program that lists a directory does not work on files meanwhile: a bound of
\* the model.
f_opendir(path) ==
  /\ ops = 0 /\ ~dp.open /\ \A f \in Fils : ~fil[f].open
  /\ \E s \in {open_dir(follow_path(Start(Closed), path), path)} :
     \/ /\ Finish(s)
        /\ dp' = IF Failed(s) THEN Closed ELSE rewind(s, path)
        /\ UNCHANGED <<fil, want, safe, wrong, ops, calls>>
     \/ Cut(s, {}) /\ UNCHANGED <<ops, calls>>

f_closedir ==
  /\ dp.open /\ dp' = Closed
  /\ UNCHANGED <<disk, fs, fil, want, safe, wrong, torn, ops, calls, crashes>>

get_fileinfo(s) == At(s)[1]

\* dir_read has come to the entry s.dj: its name is returned, and dp goes on to
\* the next one or ends.
read_item(s) ==
  IF Failed(s) THEN [dp EXCEPT !.end = TRUE]
  ELSE LET name == get_fileinfo(s)
           t == dir_next(s, FALSE)
       IN [dp EXCEPT !.dj = t.dj, !.end = (t.err = "NO_FILE"), !.left = @ \ {name},
                     !.twice = @ \/ name \in dp.stay \ dp.left]

f_readdir ==
  /\ dp.open /\ ~dp.end
  /\ \E s \in {dir_read([Start(Closed) EXCEPT !.dj = dp.dj])} :
     \/ /\ Finish(IF Failed(s) THEN s ELSE dir_next(s, FALSE))
        /\ dp' = read_item(s)
        /\ UNCHANGED <<fil, want, safe, wrong, ops, calls>>
     \/ Cut(dir_next(s, FALSE), {}) /\ UNCHANGED <<ops, calls>>

\* f_readdir without a place for the result.
f_rewinddir ==
  /\ dp.open
  /\ dp' = rewind(dir_sdi(Start(Closed), dp.dj.sc), dp.path)
  /\ UNCHANGED <<disk, fs, fil, want, safe, wrong, torn, ops, calls, crashes>>

scan_fat(s) ==
  LET t == Loop(1 + (CLUSTERS - 1) \div EPS, s, LAMBDA u, k : move_window(u, <<"fat", k - 1, 0>>))
  IN [t EXCEPT !.free = Cardinality({c \in Clusters : fat(t, c) = 0}), !.fsi = TRUE]

f_getfree ==
  /\ PathCall /\ fs.free > CLUSTERS - 2
  /\ \E s \in {scan_fat(Start(Closed))} :
     \/ Return(s) /\ UNCHANGED <<fil, want, safe, wrong>>
     \/ Cut(s, {})

\* A volume in use: in the root, which is full, file a, directory d and two
\* empty files; the free clusters hold old data.
Table == <<Entry("a", "ARC", 4, BCS), Entry("d", "DIR", 3, 0),
           Entry("p", "ARC", 0, 0), Entry("q", "ARC", 0, 0)>>
Row(t, n) == [i \in 0 .. SS - 1 |-> IF n * SS + i + 1 <= Len(t) THEN t[n * SS + i + 1] ELSE Zero]

FirstFat(type) ==
  [c \in 0 .. (1 + (CLUSTERS - 1) \div EPS) * EPS - 1 |->
     IF c \in {0, 1, 3, 4} \/ (c = ROOT /\ type = "FAT32") THEN EOC ELSE 0]

\* Two FATs, and one sector before them, or two with FSInfo.
FirstBpb(type) ==
  LET nroot == IF type = "FAT32" THEN 0 ELSE ROOTDIR
      nrsv == IF type = "FAT32" THEN 2 ELSE 1
      fsize == (CLUSTERS + EPS - 1) \div EPS
  IN [ss |-> SS, n_fats |-> 2, csize |-> CSIZE, n_rootdir |-> nroot, nrsv |-> nrsv, fsize |-> fsize,
      tsect |-> nrsv + 2 * fsize + nroot \div SS + (CLUSTERS - 2) * CSIZE, fsver |-> 0]

\* FAT16 in the second partition of the disk, FAT32 without partitions.
FirstBoot(n, type) ==
  [signed |-> TRUE, pt |-> <<NoSect, Boot(1), NoSect, NoSect>>, bpb |-> FirstBpb(type),
   vbr |-> IF (n = 0) = (type = "FAT32") THEN type ELSE "none"]

FirstSector(x, type) ==
  CASE x[1] = "boot" -> FirstBoot(x[2], type)
    [] x[1] \in {"fat", "mirror"} -> [i \in 0 .. EPS - 1 |-> FirstFat(type)[x[2] * EPS + i]]
    [] x[1] = "info" -> <<CLUSTERS - 5, 4>>
    [] x[1] = "root" \/ (x[2] = ROOT /\ type = "FAT32") -> Row(Table, x[3])
    [] x[1] = "data" /\ x[2] = 3 ->
         Row(<<Entry(".", "DIR", 3, 0), Entry("..", "DIR", 0, 0)>>, x[3])
    [] OTHER -> [i \in 0 .. SS - 1 |-> Datum(-x[2], x[3] * SS + i)]

Init ==
  /\ \E type \in {"FAT16", "FAT32"} :
       /\ disk = [x \in Sectors |-> FirstSector(x, type)]
       /\ fs = Object(mount_volume(Begin(disk, NotMounted, Closed)))
  /\ fil = [f \in Fils |-> Closed] /\ dp = Closed
  /\ want = (<<"a">> :> [i \in 1 .. BCS |-> Datum(-4, i - 1)])
              @@ (<<"p">> :> <<>>) @@ (<<"q">> :> <<>>)
  /\ safe = DOMAIN want /\ wrong = FALSE /\ torn = FALSE
  /\ ops = 0 /\ calls = 0 /\ crashes = 0

Modes == Creates \union {"READ", "WRITE"}

Next ==
  \/ f_mount \/ f_getfree \/ f_closedir \/ f_readdir \/ f_rewinddir
  \/ \E path \in Paths \union {<<>>} : f_opendir(path)
  \/ \E path \in Paths :
       \/ f_unlink(path) \/ f_mkdir(path) \/ f_stat(path)
       \/ \E new \in Paths : f_rename(path, new)
  \/ \E f \in Fils :
       \/ \E path \in Paths, mode \in Modes : f_open(f, path, mode)
       \/ \E n \in Reads : f_read(f, n)
       \/ \E n \in Writes : f_write(f, n)
       \/ \E ofs \in Offsets : f_lseek(f, ofs)
       \/ f_truncate(f) \/ f_sync(f) \/ f_close(f)

Spec == Init /\ [][Next]_vars

------------------------------------------------------------------------------
(* Properties.                                                             *)

\* Paths have two names; a directory may be moved into another.
Tree(d) ==
  LET level[n \in 1 .. 3] ==
        IF n = 1 THEN Entries(<<>>, RootUnits(d))
        ELSE UNION {Entries(e.path, Units(d, e.c)) : e \in {x \in level[n - 1] : x.dir}}
  IN level[1] \union level[2] \union level[3]

Writer(p) == {f \in Opened(p) : fil[f].write}

\* Every object of the volume v: a file that is open to be written is what its
\* FIL says.
Objects(v) ==
  {e \in Tree(v) : Writer(e.path) = {}}
    \union {[path |-> fil[f].path, dir |-> FALSE, c |-> fil[f].sclust, size |-> fil[f].size] :
              f \in {g \in Fils : fil[g].open /\ fil[g].write}}
    \union (IF fs.type = "FAT32" THEN {[path |-> <<>>, dir |-> TRUE, c |-> ROOT, size |-> 0]} ELSE {})

\* What a program reads in object e.
Shown(v, e) ==
  LET u == Units(v, e.c)
      w == Chain(v, e.c)
      mine == Writer(e.path)
      sect(i) == DataSect(w[1 + (i - 1) \div BCS], ((i - 1) \div SS) % CSIZE)
  IN [i \in 1 .. Least(e.size, Len(u)) |->
        IF \E f \in mine : fil[f].sect = sect(i)
        THEN fil[CHOOSE f \in mine : TRUE].buf[(i - 1) % SS] ELSE u[i]]

(* Types of the variables; the volume is mounted again after a reset; no    *)
(* call on an open file meets an internal error (FR_INT_ERR) unless a reset *)
(* has left the disk damaged.                                               *)
TypeOK ==
  /\ DOMAIN disk = Sectors /\ fs.at \in Sectors /\ fs.type \in {"FAT16", "FAT32"}
  /\ fs.free \in (0 .. CLUSTERS - 2) \union {UNKNOWN}
  /\ fs.last \in (1 .. CLUSTERS - 1) \union {UNKNOWN}
  /\ \A f \in Fils : fil[f].open /\ fil[f].err => torn

(* The position of every open file (fptr, clust, sect) fits the chain of    *)
(* the file, through any sequence of reads, writes, seeks and truncations:  *)
(* clust is the cluster of the unit before fptr, sect its sector if fptr is *)
(* inside one, and a dirty buffer belongs to a sector of the file.          *)
CursorInChain ==
  ~torn => \E v \in {Volume} : \A f \in Fils : fil[f].open =>
    LET fp == fil[f]
        w == Chain(v, fp.sclust)
    IN /\ fp.fptr <= fp.size /\ fp.size <= BCS * Len(w)
       /\ fp.fptr > 0 => fp.clust = w[1 + (fp.fptr - 1) \div BCS]
       /\ fp.fptr % SS # 0 => fp.sect = DataSect(fp.clust, (fp.fptr \div SS) % CSIZE)
       /\ fp.dirty => fp.sect[2] \in ToSet(w)

(* The chains of files and directories end, use no free cluster and share   *)
(* none, also while files are open and their entries out of date, and after *)
(* a reset that did not hit a truncation, a rename or the growth of a       *)
(* directory.                                                               *)
ChainsSound ==
  ~torn => \E v \in {Volume} :
           \E os \in {{[o |-> o, w |-> Chain(v, o.c)] : o \in {x \in Objects(v) : x.c # 0}}} :
    /\ \A x \in os : /\ x.w # <<>> /\ IsInjective(x.w)
                     /\ v[FatSect(Last(x.w))][Last(x.w) % EPS] = EOC
    /\ \A x, y \in os : x = y \/ ToSet(x.w) \cap ToSet(y.w) = {}

(* A program reads what it wrote: f_read has returned it, and every file    *)
(* shows it through the window, the buffers and the disk, wherever the      *)
(* other files and directories have moved it.  Nothing is said of what a    *)
(* transfer of several sectors at a time reads or writes, which diskio.c    *)
(* takes from or puts into the first of them.                               *)
ReadBack ==
  ~torn => /\ ~wrong
           /\ \E v \in {Volume} : \E os \in {Objects(v)} : \A p \in DOMAIN want :
                \E o \in os : o.path = p /\ ~o.dir /\ Match(Shown(v, o), want[p])

(* After f_sync or f_close a file is on the disk as it is: a reset at any   *)
(* write of any later call on other files does not lose it or any part of   *)
(* it.                                                                      *)
Durable ==
  ~torn => \E t \in {Tree(disk)} : \A p \in safe : \E e \in t :
    e.path = p /\ ~e.dir /\ Match(SubSeq(Units(disk, e.c), 1, e.size), want[p])

(* A listing of a directory that is over has shown every entry that was     *)
(* there all the time, and none of them twice, whatever files were created, *)
(* removed and renamed in the directory meanwhile.                          *)
ListsAll ==
  ~torn /\ dp.open => ~dp.twice /\ (dp.end => dp.left = {})

(* Until a reset, the number of free clusters kept in memory is right       *)
(* whenever it is known, and the second FAT is a copy of the first.         *)
CountsRight ==
  crashes = 0 =>
    /\ \E v \in {Volume} :
         fs.free \in {UNKNOWN, Cardinality({c \in Clusters : v[FatSect(c)][c % EPS] = 0})}
    /\ \A n \in 0 .. (CLUSTERS - 1) \div EPS : disk[<<"mirror", n, 0>>] = disk[<<"fat", n, 0>>]

(* Until a reset, no cluster is lost: each one that is not free belongs to  *)
(* a file or a directory, also after calls that failed on a full disk.      *)
NoLeak ==
  crashes = 0 => \E v \in {Volume} :
    {c \in Clusters : v[FatSect(c)][c % EPS] # 0} = UNION {ToSet(Chain(v, o.c)) : o \in Objects(v)}

(* The volume and what FatFs keeps of it in memory fit together, after      *)
(* every call and, unless it hit one of the unsafe points, every reset.     *)
VolumeSound == TypeOK /\ CursorInChain /\ ChainsSound /\ CountsRight /\ NoLeak
=============================================================================
