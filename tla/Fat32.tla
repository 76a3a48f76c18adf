-------------------------------- MODULE Fat32 --------------------------------
(***************************************************************************)
(* The FAT32 file system of the file server (fsd/src/fat32), the inodes    *)
(* and descriptors above it (inode.rs, file.rs) and the requests that      *)
(* reach it (main.rs).                                                     *)
(*                                                                         *)
(* A unit is what the device writes at once: a slot of a directory or a    *)
(* chunk of a file; UPC units make a cluster.  A name is the sequence of   *)
(* its long entries in the order they are stored.  Directory entries are   *)
(* never removed, and "." and ".." never written: no request unlinks, and  *)
(* do_create compares the mode with S_IFDIR alone.                         *)
(*                                                                         *)
(* The server handles one request at a time.  A request works on a record  *)
(* [fat, data, mem, hist, err]: hist collects the disk before every device *)
(* write, so that the machine may be reset after any of them, and err ends *)
(* the request early, as `?' does.  A panic stops the server.              *)
(***************************************************************************)
EXTENDS Integers, Sequences
LOCAL INSTANCE SequencesExt
LOCAL INSTANCE FiniteSetsExt

CONSTANTS
  UPC,              \* units per cluster
  CLUSTERS,         \* max_cluster
  NameOrder,        \* the names that requests use, in the order of strings
  Buffers,          \* what they write
  Lengths, Offsets, \* of reads, of seeks
  MaxDepth, MaxSize, MaxFds, MaxOps, MaxCrashes  \* bounds of the model

ASSUME Fat32Assumption == UPC \in Nat \ {0} /\ CLUSTERS \in Nat /\ CLUSTERS > 2

Names == ToSet(NameOrder)
EMPTY == 0
EOF == 1
ROOT == 2
Clusters == 2 .. CLUSTERS - 1
Units == 0 .. UPC - 1
div_ceil(n) == (n + UPC - 1) \div UPC

Zero == <<"zero">>
Long(piece) == <<"long", piece>>
Short(dir, c, size) == <<"short", dir, c, size>>
Chunk(c, v) == <<"data", FALSE, c, v>>   \* written to the file that starts at c
Paths == UNION {[1 .. n -> Names] : n \in 0 .. MaxDepth}
Parent(p) == Front(p)

VARIABLES
  fat, data,        \* the disk: entries of the FAT, units of the clusters
  mem,              \* inodes by path: what has been loaded or created
  fds, next_fd,     \* FdTable
  up,               \* the server is running
  \* History and bounds.
  shadow,           \* by file: what successful requests have made of it
  clean,            \* no request has failed on a full disk, panicked or been cut
  ops, crashes

disk == <<fat, data>>
vars == <<fat, data, mem, fds, next_fd, up, shadow, clean, ops, crashes>>

------------------------------------------------------------------------------
(* The disk.                                                               *)

\* The chain that starts at c; a cycle would be followed for ever.
walk_fat_ent(f, c) ==
  LET walk[n \in 0 .. CLUSTERS] ==
        IF n = 0 THEN <<c>>
        ELSE LET w == walk[n - 1] IN
             IF f[Last(w)] \in Clusters THEN Append(w, f[Last(w)]) ELSE w
  IN walk[CLUSTERS]

\* The units of a list of clusters, in order.
Contents(d, cl) == [i \in 1 .. UPC * Len(cl) |-> d[cl[1 + (i - 1) \div UPC]][(i - 1) % UPC]]

\* The entries of a directory up to the first zero: long slots add to the
\* name of the short slot that follows, whatever file they were written for.
read_dir(d, cl) ==
  LET slot(a, u) ==
        IF a.end THEN a
        ELSE CASE u = Zero -> [a EXCEPT !.end = TRUE]
               [] u[1] = "long" -> [a EXCEPT !.n = @ + 1, !.name = Append(@, u[2])]
               [] OTHER -> [a EXCEPT !.n = @ + 1, !.name = <<>>,
                    !.out = Append(@, [name |-> a.name, dir |-> u[2], c |-> u[3],
                                       size |-> u[4], slot |-> a.n])]
  IN FoldLeft(slot, [end |-> FALSE, n |-> 0, name |-> <<>>, out |-> <<>>],
              Contents(d, cl))

Failed(s) == s.err # "none"
Fail(s, e) == [s EXCEPT !.err = IF Failed(s) THEN @ ELSE e]

write_fat_ent(s, c, e) ==
  IF Failed(s) THEN s
  ELSE [s EXCEPT !.fat[c] = e, !.hist = @ \union {<<s.fat, s.data>>}]

write_block_offset(s, c, u, v) ==
  IF Failed(s) THEN s
  ELSE [s EXCEPT !.data[c][u] = v, !.hist = @ \union {<<s.fat, s.data>>}]

FreeClusters(s) == {c \in Clusters : s.fat[c] = EMPTY}

clear(s, c) ==
  FoldLeft(LAMBDA t, u : write_block_offset(t, c, u, Zero), s, [u \in 1 .. UPC |-> u - 1])

\* Mutant: a cluster keeps what it held.
alloc_cluster_dirty(s) ==
  IF FreeClusters(s) = {} THEN Fail(s, "ENOSPC")
  ELSE LET c == Min(FreeClusters(s)) IN [write_fat_ent(s, c, EOF) EXCEPT !.new = c]

\* The cluster is in s.new.
alloc_cluster(s) ==
  IF FreeClusters(s) = {} THEN Fail(s, "ENOSPC")
  ELSE LET c == Min(FreeClusters(s))
       IN [clear(write_fat_ent(s, c, EOF), c) EXCEPT !.new = c]

\* The cluster just allocated goes behind prev, in memory at the end of the list.
link(s, p, prev) ==
  IF Failed(s) THEN s
  ELSE [write_fat_ent(s, prev, s.new) EXCEPT !.mem[p].cl = Append(@, s.new)]

\* Slot pos of the directory p; an index past its clusters panics.
write_dir(s, p, pos, v) ==
  IF pos \div UPC >= Len(s.mem[p].cl) THEN Fail(s, "panic")
  ELSE write_block_offset(s, s.mem[p].cl[1 + pos \div UPC], pos % UPC, v)

update_dir(s, p, pos, size) ==
  LET c == s.mem[p].cl[1 + pos \div UPC]
      old == s.data[c][pos % UPC]
  IN write_block_offset(s, c, pos % UPC, Short(old[2], old[3], size))

\* The first place of `occupy' with n free slots, or the free slots at its end.
FreePlace(occupy, n) ==
  LET free(i, j) == \A k \in i + 1 .. j : ~occupy[k]
  IN Min({i \in 0 .. Len(occupy) : free(i, IF i + n < Len(occupy) THEN i + n ELSE Len(occupy))})

\* `occupy' gets len slots, and the directory one more cluster if it needs any.
extend_dir(s, p, len) ==
  LET t == [s EXCEPT !.mem[p].occupy =
             [i \in 1 .. len |-> i <= Len(@) /\ @[i]]]
  IN IF div_ceil(len) <= Len(s.mem[p].cl) THEN t
     ELSE link(alloc_cluster(t), p, Last(s.mem[p].cl))

put_dirs(s, p, left, dirs) ==
  FoldLeft(LAMBDA t, i :
             IF Failed(t) THEN t
             ELSE write_dir([t EXCEPT !.mem[p].occupy[left + i] = TRUE], p, left + i - 1, dirs[i]),
           s, [i \in 1 .. Len(dirs) |-> i])

\* At the end of the directory the new end is marked first.
append_dir(s, p, left, dirs) ==
  LET len == left + Len(dirs) IN
  IF len < Len(s.mem[p].occupy) THEN put_dirs(s, p, left, dirs)
  ELSE put_dirs(write_dir(extend_dir(s, p, len), p, len, Zero), p, left, dirs)

to_dirs(name, dir, c) == Append([i \in 1 .. Len(name) |-> Long(name[i])], Short(dir, c, 0))

------------------------------------------------------------------------------
(* Inodes.                                                                 *)

Inode(dir, cl, size, slot) ==
  [dir |-> dir, cl |-> cl, size |-> size, slot |-> slot,
   loaded |-> FALSE, occupy |-> <<>>]

root(f) == (<<>> :> Inode(TRUE, walk_fat_ent(f, ROOT), 0, 0))

insert(s, p, inode) == IF Failed(s) THEN s ELSE [s EXCEPT !.mem = (p :> inode) @@ @]

add_children(s, p, d) ==
  FoldLeft(LAMBDA t, e : insert(t, Append(p, e.name),
                                Inode(e.dir, walk_fat_ent(t.fat, e.c), e.size, e.slot)),
           [s EXCEPT !.mem[p].loaded = TRUE, !.mem[p].occupy = [i \in 1 .. d.n |-> TRUE]],
           d.out)

load_children(s, p) == add_children(s, p, read_dir(s.data, s.mem[p].cl))

find(s, p, name) == IF Append(p, name) \in DOMAIN s.mem THEN s ELSE Fail(s, "ENOENT")

lookup_name(s, p, name) ==
  IF ~s.mem[p].dir THEN Fail(s, "ENOTDIR")
  ELSE find(IF s.mem[p].loaded THEN s ELSE load_children(s, p), p, name)

\* The cluster s.new becomes the entry `name' of the directory p.
enter(s, p, dir, name, left) ==
  IF Failed(s) THEN s
  ELSE insert(append_dir(s, p, left, to_dirs(name, dir, s.new)), Append(p, name),
              Inode(dir, <<s.new>>, 0, left + Len(name)))

do_create(s, p, dir, name) ==
  enter(alloc_cluster(s), p, dir, name, FreePlace(s.mem[p].occupy, Len(name) + 1))

create(s, p, dir, name) ==
  IF ~s.mem[p].dir THEN Fail(s, "ENOTDIR") ELSE do_create(s, p, dir, name)

AtLeastOne(n) == IF n = 0 THEN 1 ELSE n

release(s, cl) == FoldLeft(LAMBDA t, c : write_fat_ent(t, c, EMPTY), s, cl)

\* Mutant: the clusters are freed before the chain ends.
shrink_release_first(s, p, start) ==
  LET cl == s.mem[p].cl IN
  [write_fat_ent(release(s, SubSeq(cl, start + 1, Len(cl))), cl[start], EOF)
     EXCEPT !.mem[p].cl = SubSeq(cl, 1, start)]

\* First the new end of the chain, then the clusters that it lets go of.
shrink(s, p, start) ==
  LET cl == s.mem[p].cl IN
  [release(write_fat_ent(s, cl[start], EOF), SubSeq(cl, start + 1, Len(cl)))
     EXCEPT !.mem[p].cl = SubSeq(cl, 1, start)]

\* Every new cluster, an EOF, is linked at once, behind the last one that the
\* size accounts for; a full disk leaves those before it.
grow(s, p, start, end) ==
  IF start >= end THEN s
  ELSE IF start > Len(s.mem[p].cl) THEN Fail(s, "panic")
  ELSE FoldLeft(LAMBDA t, i :
                  link(alloc_cluster(t), p, IF i = start + 1 THEN t.mem[p].cl[start] ELSE t.new),
                s, [i \in 1 .. end - start |-> start + i])

set_size(s, p, size) == IF Failed(s) THEN s ELSE [s EXCEPT !.mem[p].size = size]

\* Mutant: the entry on the disk is forgotten.
record_size_memory(s, p, size) == set_size(s, p, size)

record_size(s, p, size) ==
  set_size(update_dir(s, Parent(p), s.mem[p].slot, size), p, size)

truncate_direct(s, p, new_size) ==
  LET start == AtLeastOne(div_ceil(s.mem[p].size))
      end == div_ceil(new_size)
  IN IF new_size = s.mem[p].size \/ Failed(s) THEN s
     ELSE record_size(IF new_size < s.mem[p].size THEN shrink(s, p, AtLeastOne(end))
                      ELSE grow(s, p, start, end), p, new_size)

\* The chunks that the clusters have room for; a start past them panics.
put_data(s, p, off, buf) ==
  IF ~Failed(s) /\ off \div UPC > Len(s.mem[p].cl) THEN Fail(s, "panic")
  ELSE FoldLeft(LAMBDA t, i :
                  LET at == off + i - 1 IN
                  IF at \div UPC >= Len(t.mem[p].cl) THEN t
                  ELSE write_block_offset(t, t.mem[p].cl[1 + at \div UPC], at % UPC, buf[i]),
                s, [i \in 1 .. Len(buf) |-> i])

\* The sum of a negative offset and the length overflows, which panics.
write_direct(s, p, off, buf) ==
  IF off < 0 THEN Fail(s, "panic")
  ELSE put_data(IF off + Len(buf) > s.mem[p].size THEN truncate_direct(s, p, off + Len(buf))
                ELSE s, p, off, buf)

\* What a read of n chunks at off returns: their number, or -1 for a panic.
read_direct(i, off, n) ==
  IF off < 0 \/ off >= i.size THEN 0
  ELSE IF off \div UPC > Len(i.cl) THEN -1
  ELSE Min({n, i.size - off})

------------------------------------------------------------------------------
(* Requests.                                                               *)

Start == [fat |-> fat, data |-> data, mem |-> mem, hist |-> {}, new |-> EMPTY, err |-> "none"]

\* Follows the names of a path until one is missing: `at' is as far as it got.
lookup_path(path) ==
  LET arrive(a, t, name) ==
        [s |-> t, at |-> IF Failed(t) THEN a.at ELSE Append(a.at, name), name |-> name]
      step(a, name) ==
        IF Failed(a.s) THEN a ELSE arrive(a, lookup_name(a.s, a.at, name), name)
  IN FoldLeft(step, [s |-> Start, at |-> <<>>, name |-> <<>>], path)

Retry(s) == [s EXCEPT !.err = "none"]

mkdir_recursive(path) ==
  LET made(s, p, name) ==
        IF s.err = "ENOENT" THEN create(Retry(s), p, TRUE, name)
        ELSE IF ~Failed(s) /\ ~s.mem[Append(p, name)].dir THEN Fail(s, "ENOTDIR") ELSE s
      step(a, name) ==
        IF Failed(a.s) THEN a
        ELSE [s |-> made(lookup_name(a.s, a.at, name), a.at, name), at |-> Append(a.at, name)]
  IN FoldLeft(step, [s |-> Start, at |-> <<>>], path).s

\* A reset may leave long slots of no file in a directory: the next file
\* created there gets them as part of its name.  Whole: not so on the way to p.
Broken(f, d, c) ==
  LET r == read_dir(d, walk_fat_ent(f, c)) IN
  r.name # <<>> \/ \E i \in DOMAIN r.out : r.out[i].name \notin Names
Whole(m, p) == \A k \in 0 .. Len(p) : ~Broken(fat, data, m[SubSeq(p, 1, k)].cl[1])

\* Memory lists more clusters than the size accounts for: growth stopped on a
\* full disk, and the next growth will link behind the size, not behind them.
Torn(i) == Len(i.cl) # AtLeastOne(div_ceil(i.size))

\* ... which happens when the inode i gets n chunks.  Its new cluster is then at
\* another place in memory than on the disk (truncate_direct, inode.rs:191-203).
TornGrowth(i, n) == Torn(i) /\ div_ceil(n) > AtLeastOne(div_ceil(i.size))

without(sh, p) == [q \in DOMAIN sh \ {p} |-> sh[q]]

\* The request on file p ends, with sh the history if it has succeeded ...
Answer(s, sh) ==
  /\ fat' = s.fat /\ data' = s.data /\ mem' = s.mem
  /\ up' = (s.err # "panic")
  /\ clean' = (clean /\ s.err \notin {"ENOSPC", "panic"})
  /\ shadow' = IF Failed(s) THEN shadow ELSE sh
  /\ ops' = IF s.hist = {} THEN ops ELSE ops + 1
  /\ UNCHANGED crashes

\* ... or the machine is reset after one of its writes.
load_fs(d) ==
  /\ fat' = d[1] /\ data' = d[2]
  /\ mem' = root(d[1])
  /\ fds' = <<>> /\ next_fd' = 3 /\ up' = TRUE

Cut(s, p) ==
  /\ crashes < MaxCrashes /\ crashes' = crashes + 1
  /\ \E d \in s.hist \ {disk} : load_fs(d)
  /\ shadow' = without(shadow, p)
  /\ clean' = FALSE /\ ops' = ops + 1

Request == up /\ ops < MaxOps

IsNew(l, path, creat) == l.s.err = "ENOENT" /\ creat /\ l.name = Last(path)

check_kind(s, p, dir) ==
  IF Failed(s) \/ s.mem[p].dir = dir THEN s ELSE Fail(s, IF dir THEN "ENOTDIR" ELSE "EISDIR")

open_trunc(s, p, trunc) == IF ~Failed(s) /\ trunc THEN truncate_direct(s, p, 0) ELSE s

\* The names in a directory, in memory and on the disk.
Children(m, p) == {Last(q) : q \in {x \in DOMAIN m : x # <<>> /\ Parent(x) = p}}
OnDisk(d, cl) == {e.name : e \in ToSet(read_dir(d, cl).out)}

\* The descriptor.  History: what was in a directory then and has not been
\* shown (left), and the positions at which handle_ls has answered 0.
new_file(s, p) ==
  [path |-> p, pos |-> 0, zero |-> {},
   left |-> IF s.mem[p].dir THEN OnDisk(s.data, s.mem[p].cl) ELSE {}]

\* O_CREAT makes the first missing file of the path if it has the last name.
handle_open(path, flags) ==
  /\ Request /\ path # <<>> /\ next_fd < 3 + MaxFds
  /\ \E l \in {lookup_path(path)} :
     \E p \in {IF IsNew(l, path, "C" \in flags) THEN Append(l.at, l.name) ELSE l.at} :
     \E s1 \in {check_kind(IF p = l.at THEN l.s
                           ELSE create(Retry(l.s), l.at, "D" \in flags, l.name),
                           p, "D" \in flags)} :
     \E s \in {open_trunc(s1, p, "T" \in flags)} :
       \/ /\ Answer(s, IF "D" \in flags \/ (p = l.at /\ ~("T" \in flags /\ p \in DOMAIN shadow))
                       \/ (p # l.at /\ ~Whole(l.s.mem, l.at)) THEN shadow
                       ELSE (p :> <<>>) @@ shadow)
          /\ IF Failed(s) THEN UNCHANGED <<fds, next_fd>>
             ELSE /\ fds' = (next_fd :> new_file(s, p)) @@ fds
                  /\ next_fd' = next_fd + 1
       \/ Cut(s, p)

handle_open_root ==
  /\ Request /\ next_fd < 3 + MaxFds
  /\ fds' = (next_fd :> new_file(Start, <<>>)) @@ fds
  /\ next_fd' = next_fd + 1
  /\ ops' = ops + 1
  /\ UNCHANGED <<disk, mem, up, shadow, clean, crashes>>

handle_close(fd) ==
  /\ Request /\ fd \in DOMAIN fds
  /\ fds' = [g \in DOMAIN fds \ {fd} |-> fds[g]]
  /\ ops' = ops + 1
  /\ UNCHANGED <<disk, mem, next_fd, up, shadow, clean, crashes>>

\* EISDIR from a directory changes nothing.
handle_read(fd, n) ==
  /\ Request /\ fd \in DOMAIN fds
  /\ ~mem[fds[fd].path].dir
  /\ \E r \in {read_direct(mem[fds[fd].path], fds[fd].pos, n)} :
     /\ fds' = [fds EXCEPT ![fd].pos = IF r < 0 THEN @ ELSE @ + r]
     /\ Answer(IF r < 0 THEN Fail(Start, "panic") ELSE Start, shadow)
  /\ UNCHANGED next_fd

Overlay(old, off, buf) ==
  [i \in 1 .. Max({Len(old), off + Len(buf)}) |->
     IF i > off /\ i <= off + Len(buf) THEN buf[i - off]
     ELSE IF i <= Len(old) THEN old[i] ELSE <<"any">>]

\* A write to a directory is EOPNOTSUPP.  The history gives up a file that grows
\* after a growth of it has stopped on a full disk: the write is told that it has
\* succeeded, and no mount will find what it wrote.
handle_write(fd, vs) ==
  /\ Request /\ fd \in DOMAIN fds
  /\ ~mem[fds[fd].path].dir /\ fds[fd].pos + Len(vs) <= MaxSize
  /\ \E p \in {fds[fd].path}, off \in {fds[fd].pos} :
     \E buf \in {[i \in DOMAIN vs |-> Chunk(mem[p].cl[1], vs[i])]} :
     \E s \in {write_direct(Start, p, off, buf)} :
       \/ /\ Answer(s, IF p \notin DOMAIN shadow THEN shadow
                       ELSE IF TornGrowth(mem[p], off + Len(buf)) THEN without(shadow, p)
                       ELSE [shadow EXCEPT ![p] = Overlay(@, off, buf)])
          /\ fds' = [fds EXCEPT ![fd].pos = IF Failed(s) THEN @ ELSE @ + Len(vs)]
          /\ UNCHANGED next_fd
       \/ Cut(s, p)

\* RegularFile::seek: only SEEK_SET refuses a negative result.
seek(f, size, whence, off) ==
  CASE whence = "SET" -> IF off < 0 THEN f.pos ELSE off
    [] whence = "CUR" -> f.pos + off
    [] whence = "END" -> size + off

handle_seek(fd, whence, off) ==
  /\ Request /\ fd \in DOMAIN fds /\ ~mem[fds[fd].path].dir
  /\ \E pos \in {seek(fds[fd], mem[fds[fd].path].size, whence, off)} :
       /\ pos \in -1 .. MaxSize - 1
       /\ fds' = [fds EXCEPT ![fd].pos = pos]
  /\ ops' = ops + 1
  /\ UNCHANGED <<disk, mem, next_fd, up, shadow, clean, crashes>>

\* The children are loaded when the first of them is asked for.
lookup_idx(s, p) == IF s.mem[p].loaded THEN s ELSE load_children(s, p)

\* values().nth(idx) of a BTreeMap; the model has no order for names that a reset
\* has left broken.
nth(ns, idx) ==
  LET sorted == SelectSeq(NameOrder, LAMBDA n : n \in ns) IN
  IF idx + 1 \in DOMAIN sorted THEN {sorted[idx + 1]} ELSE {}

\* INO_POOL counts from 0, and the first inode after a start of the server is the
\* root (a later mount, after a change of the encryption, is not in this module).
\* Of the other numbers the model keeps that they are not 0.
ino(p) == IF p = <<>> THEN 0 ELSE 1

\* What handle_ls answers: the number of the inode, or 0 when there is none.
tell(f, n) == [f EXCEPT !.zero = IF n = 0 THEN @ \union {f.pos} ELSE @]

show(f, ns, idx) ==
  IF idx >= Cardinality(ns) THEN tell(f, 0)
  ELSE [tell(f, 1) EXCEPT !.pos = @ + 1, !.left = @ \ nth(ns, idx)]

dots(f) ==
  [tell(f, ino(IF f.pos = 0 \/ f.path = <<>> THEN f.path ELSE Parent(f.path))) EXCEPT !.pos = @ + 1]

\* Mutant: the first child is taken for the parent.
readdir_skips(f, ns) == IF f.pos < 2 THEN dots(f) ELSE show(f, ns, f.pos - 1)

\* DirFile::readdir: the directory itself, its parent (the root is its own), then
\* the children ns.
readdir(f, ns) == IF f.pos < 2 THEN dots(f) ELSE show(f, ns, f.pos - 2)

handle_ls(fd) ==
  /\ Request /\ fd \in DOMAIN fds /\ mem[fds[fd].path].dir
  /\ \E s \in {IF fds[fd].pos < 2 THEN Start ELSE lookup_idx(Start, fds[fd].path)} :
       /\ Answer(s, shadow)
       /\ fds' = [fds EXCEPT ![fd] = readdir(@, Children(s.mem, @.path))]
  /\ UNCHANGED next_fd

\* Without `recursive', too, the directory that is created is the first one
\* missing on the path.
mkdir_first(l) ==
  IF l.s.err = "ENOENT" THEN create(Retry(l.s), l.at, TRUE, l.name) ELSE Fail(l.s, "EEXIST")

handle_mkdir(path, recursive) ==
  /\ Request /\ path # <<>>
  /\ \E s \in {IF recursive THEN mkdir_recursive(path) ELSE mkdir_first(lookup_path(path))} :
       \/ Answer(s, shadow) /\ UNCHANGED <<fds, next_fd>>
       \/ Cut(s, path)

\* The machine is switched off and on between two requests.
Restart ==
  /\ crashes < MaxCrashes /\ crashes' = crashes + 1
  /\ load_fs(disk)
  /\ UNCHANGED <<shadow, clean, ops>>

\* format_device, then FAT32FileSystem::new.
Init ==
  /\ fat = [c \in Clusters |-> IF c = ROOT THEN EOF ELSE EMPTY]
  /\ data = [c \in Clusters |-> [u \in Units |-> IF c = ROOT THEN Zero ELSE Chunk(ROOT, 1)]]
  /\ mem = root(fat)
  /\ fds = <<>> /\ next_fd = 3 /\ up = TRUE
  /\ shadow = <<>> /\ clean = TRUE /\ ops = 0 /\ crashes = 0

\* O_CREAT, O_DIRECTORY and O_TRUNC, which means nothing to a directory.
OpenFlags == SUBSET {"C", "D"} \union {{"T"}, {"C", "T"}}

Next ==
  \/ \E path \in Paths, flags \in OpenFlags : handle_open(path, flags)
  \/ handle_open_root
  \/ \E path \in Paths, recursive \in BOOLEAN : handle_mkdir(path, recursive)
  \/ \E fd \in DOMAIN fds :
       \/ handle_close(fd)
       \/ \E n \in Lengths : handle_read(fd, n)
       \/ \E vs \in Buffers : handle_write(fd, vs)
       \/ \E whence \in {"SET", "CUR", "END"}, off \in Offsets : handle_seek(fd, whence, off)
       \/ handle_ls(fd)
  \/ Restart

Spec == Init /\ [][Next]_vars

------------------------------------------------------------------------------
(* Properties.                                                             *)

\* Every entry that a mount would find on the disk, with its path.
Tree ==
  LET entries(p, c) == LET out == read_dir(data, walk_fat_ent(fat, c)).out
                       IN {[path |-> Append(p, out[i].name), e |-> out[i]] : i \in DOMAIN out}
      level[n \in 1 .. MaxDepth] ==
        IF n = 1 THEN entries(<<>>, ROOT)
        ELSE UNION {entries(x.path, x.e.c) : x \in {y \in level[n - 1] : y.e.dir}}
  IN UNION {level[n] : n \in 1 .. MaxDepth}

ChainOf(x) == walk_fat_ent(fat, x.e.c)

(* Types of the variables; next_fd stays above the descriptors in use, and  *)
(* every open descriptor refers to an inode that has been loaded.           *)
TypeOK ==
  /\ fat \in [Clusters -> {EMPTY, EOF} \union Clusters]
  /\ \A p \in DOMAIN mem : p = <<>> \/ Parent(p) \in DOMAIN mem
  /\ \A fd \in DOMAIN fds : fd < next_fd /\ fds[fd].path \in DOMAIN mem

(* Whatever request is interrupted after whatever device write, and also    *)
(* when the disk fills up: the chains of the entries on the disk end, use   *)
(* no free cluster, and no two of them share a cluster (alloc_cluster marks *)
(* a cluster before it is linked, truncate_direct ends the chain before it  *)
(* frees the rest of it).                                                   *)
ChainsSound ==
  LET t == Tree
      all == {[c |-> ROOT, w |-> walk_fat_ent(fat, ROOT)]}
               \union {[c |-> x.e.c, w |-> ChainOf(x)] : x \in t}
  IN /\ Cardinality(all) = Cardinality(t) + 1
     /\ \A a \in all : IsInjective(a.w) /\ fat[Last(a.w)] = EOF
     /\ \A a, b \in all : a = b \/ ToSet(a.w) \cap ToSet(b.w) = {}

(* A file shows nothing but zeros and what was written to it: clusters that *)
(* another file or directory has given back are cleared before they are     *)
(* linked (alloc_cluster), also if the machine is reset in between.         *)
NoForeignData ==
  \A x \in Tree : ~x.e.dir =>
    LET u == Contents(data, ChainOf(x)) IN
    \A i \in 1 .. Len(u) :
      i <= x.e.size => u[i] = Zero \/ (u[i][1] = "data" /\ u[i][3] = x.e.c)

(* What requests on a file have been told they did is what a mount finds on *)
(* the disk, with the size of the file, through any interleaving with       *)
(* requests on other files and any number of resets, the ones in the middle *)
(* of a request on another file included.  Not claimed, because the code    *)
(* loses it: a file that has grown again after a growth of it had stopped   *)
(* on a full disk (TornGrowth, inode.rs:191-203).                           *)
Durable ==
  \A p \in DOMAIN shadow : \E x \in Tree :
    /\ x.path = p /\ ~x.e.dir /\ x.e.size = Len(shadow[p])
    /\ LET u == Contents(data, ChainOf(x)) IN
       \A i \in DOMAIN shadow[p] : shadow[p][i] \in {u[i], <<"any">>}

(* The inodes in memory agree with the disk, in both directions: what is    *)
(* known of an entry (kind, size, place, clusters) is what it says there,   *)
(* and a directory that has been loaded knows all of its entries.  Not so   *)
(* for a file whose growth has met a full disk, nor for a directory in      *)
(* which a reset has left half an entry.                                    *)
MemAgrees ==
  LET t == Tree IN
     \A p \in DOMAIN mem :
       /\ p # <<>> /\ Whole(mem, Parent(p)) /\ ~Torn(mem[p]) =>
            \E x \in t : /\ x.path = p
                         /\ <<x.e.dir, x.e.size, x.e.slot, ChainOf(x)>>
                              = <<mem[p].dir, mem[p].size, mem[p].slot, mem[p].cl>>
       /\ mem[p].loaded /\ Whole(mem, p) =>
            \A x \in t : Parent(x.path) = p => x.path \in DOMAIN mem

(* The answer 0 to handle_ls at position n of a listing means what          *)
(* main.rs:365 says, "0 if no more entries".  It does not where the inode   *)
(* shown is the root, whose number is 0: the root shows itself as "." and   *)
(* "..", a directory in it shows it as "..".                                *)
MeansEnd(f, n) == n > 1 \/ Len(f.path) > 1

(* A program that is told 0, the end, has seen every entry that was in the  *)
(* directory when it opened it: entries that others create meanwhile move   *)
(* the children along in the order of names, but not past the position of   *)
(* the listing (do_lookup_idx).  Below the second level that is any 0.  In  *)
(* the root and in a directory of the root a program that stops at the      *)
(* first 0, as main.rs:365 tells it to, sees no entry at all; there the     *)
(* claim is about a program that takes the first two answers for entries.   *)
ListsAll ==
  \A fd \in DOMAIN fds :
    (\E n \in fds[fd].zero : MeansEnd(fds[fd], n)) /\ Whole(mem, fds[fd].path)
      => fds[fd].left = {}

(* Unless a request has failed on a full disk, panicked or been cut off by  *)
(* a reset, no cluster is lost: each one is free or in the chain of an      *)
(* entry.                                                                   *)
NoLeak ==
  clean => {c \in Clusters : fat[c] # EMPTY}
             = ToSet(walk_fat_ent(fat, ROOT)) \union UNION {ToSet(ChainOf(x)) : x \in Tree}

(* What a check of the volume would ask, together with the bookkeeping of   *)
(* the server: it holds after every request and after every reset.          *)
VolumeSound == TypeOK /\ ChainsSound /\ NoLeak /\ MemAgrees
=============================================================================
