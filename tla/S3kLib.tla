-------------------------------- MODULE S3kLib --------------------------------
(***************************************************************************)
(* The predicates on capability descriptors that the user library offers   *)
(* (common/src/s3k/s3k.c), by which a process can tell without a system    *)
(* call what a revocation deletes and which derivation the kernel accepts, *)
(* and what they say of the kernel modelled in CapOps.                     *)
(*                                                                         *)
(* As in the kernel, a range is passed as its begin and its end; the       *)
(* predicates for a PMP region pass what s3k_napot_decode stores, which is *)
(* a base and a size, in the place of an end.                              *)
(***************************************************************************)
EXTENDS CapSafety

is_range_subset(a_bgn, a_end, b_bgn, b_end) == a_bgn <= b_bgn /\ b_end <= a_end
is_range_prefix(a_bgn, a_end, b_bgn, b_end) == a_bgn = b_bgn /\ b_end <= a_end

-----------------------------------------------------------------------------
(* What a revocation of p deletes.                                         *)

s3k_cap_time_revokable(p, c) ==
  c.type = "time" /\ p.hart = c.hart /\ is_range_subset(p.bgn, p.end, c.bgn, c.end)

\* Mutant: what was derived before the mark is left out.
s3k_cap_mem_revokable_mark(p, c) ==
  \/ /\ c.type = "pmp"
     /\ is_range_subset(tag_block_to_addr(p.tag, p.mrk), tag_block_to_addr(p.tag, p.end),
                        c.base, c.size)
  \/ /\ c.type = "mem" /\ p.tag = c.tag
     /\ is_range_subset(p.mrk, p.end, c.bgn, c.end)

s3k_cap_mem_revokable(p, c) ==
  \/ /\ c.type = "pmp"
     /\ is_range_subset(tag_block_to_addr(p.tag, p.bgn), tag_block_to_addr(p.tag, p.end),
                        c.base, c.size)
  \/ /\ c.type = "mem" /\ p.tag = c.tag
     /\ is_range_subset(p.bgn, p.end, c.bgn, c.end)

s3k_cap_mon_revokable(p, c) ==
  c.type = "mon" /\ is_range_subset(p.bgn, p.end, c.bgn, c.end)

s3k_cap_chan_revokable(p, c) ==
  \/ c.type = "sock" /\ is_range_subset(p.bgn, p.end, c.chan, c.chan + 1)
  \/ c.type = "chan" /\ is_range_subset(p.bgn, p.end, c.bgn, c.end)

\* The code does not look at the type of c.  The fields of a descriptor of another
\* type hold other data; the answer for one is taken to be no.
s3k_cap_sock_revokable(p, c) == c.type = "sock" /\ p.tag = 0 /\ c.tag # 0 /\ p.chan = c.chan

s3k_cap_is_revokable(p, c) ==
  \/ p.type = "time" /\ s3k_cap_time_revokable(p, c)
  \/ p.type = "mem"  /\ s3k_cap_mem_revokable(p, c)
  \/ p.type = "mon"  /\ s3k_cap_mon_revokable(p, c)
  \/ p.type = "chan" /\ s3k_cap_chan_revokable(p, c)
  \/ p.type = "sock" /\ s3k_cap_sock_revokable(p, c)

-----------------------------------------------------------------------------
(* What may be derived from p.                                             *)

\* A mode is one of two, and the permissions are those that exist.
s3k_cap_is_valid(c) ==
  \/ c.type \in {"time", "mem", "mon", "chan"} /\ c.bgn = c.mrk /\ c.bgn < c.end
  \/ c.type = "pmp" /\ ~c.used /\ c.slot = 0
  \/ /\ c.type = "sock"
     /\ c.perm \subseteq {"sdata", "cdata", "scap", "ccap"} /\ c.mode \in {"yield", "noyield"}

s3k_cap_time_derivable(p, c) ==
  c.type = "time" /\ p.hart = c.hart /\ is_range_prefix(p.bgn, p.end, c.bgn, c.end)

s3k_cap_mem_derivable(p, c) ==
  \/ /\ c.type = "pmp"
     /\ is_range_subset(tag_block_to_addr(p.tag, p.mrk), tag_block_to_addr(p.tag, p.end),
                        c.base, c.size)
     /\ c.rwx \subseteq p.rwx
  \/ /\ c.type = "mem" /\ p.tag = c.tag
     /\ is_range_subset(p.mrk, p.end, c.bgn, c.end)
     /\ c.rwx \subseteq p.rwx

s3k_cap_mon_derivable(p, c) ==
  c.type = "mon" /\ is_range_subset(p.mrk, p.end, c.bgn, c.end)

s3k_cap_chan_derivable(p, c) ==
  \/ c.type = "sock" /\ c.tag = 0 /\ is_range_subset(p.mrk, p.end, c.chan, c.chan + 1)
  \/ c.type = "chan" /\ is_range_subset(p.mrk, p.end, c.bgn, c.end)

s3k_cap_sock_derivable(p, c) ==
  /\ c.type = "sock" /\ p.chan = c.chan
  /\ p.tag = 0 /\ c.tag # 0 /\ p.mode = c.mode /\ p.perm = c.perm

s3k_cap_is_derivable(p, c) ==
  \/ p.type = "time" /\ s3k_cap_time_derivable(p, c)
  \/ p.type = "mem"  /\ s3k_cap_mem_derivable(p, c)
  \/ p.type = "mon"  /\ s3k_cap_mon_derivable(p, c)
  \/ p.type = "chan" /\ s3k_cap_chan_derivable(p, c)
  \/ p.type = "sock" /\ s3k_cap_sock_derivable(p, c)

-----------------------------------------------------------------------------
(* Properties.                                                             *)

\* A process that asks the library is not surprised by a revocation: every
\* capability derived from x, and for all types but memory every one that
\* cap_revoke(x) is about to delete, is one that s3k_cap_is_revokable names,
\* however marks and ranges were changed on the way.
RevokeForeseen ==
  ~shrunk =>
    \A x \in Live :
      \A y \in Descendants(x) \union (IF cap[x].type = "mem" THEN {} ELSE Victims(x)) :
        s3k_cap_is_revokable(cap[x], cap[y])

\* The library and the kernel say different things of time (the library
\* compares with the begin of the parent, the kernel with its mark) and of a
\* socket with a tag that is derived from a channel.
SaidAlike(p, c) == p.type # "time" /\ ~(p.type = "chan" /\ c.type = "sock" /\ c.tag # 0)

\* The library never talks a process out of a derivation that the kernel would
\* accept: a descriptor that gets into the table by cap_derive is one that
\* s3k_cap_is_valid and s3k_cap_is_derivable allow for its parent, whatever
\* was derived from the parent and revoked before.
DeriveForeseen ==
  ~shrunk =>
  \A d \in CTE :
    /\ cte_is_empty(d) /\ cap'[d].type # "none"
    /\ Cardinality(Live') > Cardinality(Live)
    => LET p == cap[prev'[d]] IN
       SaidAlike(p, cap'[d]) =>
         s3k_cap_is_valid(cap'[d]) /\ s3k_cap_is_derivable(p, cap'[d])

\* What a process learns from the library about derivation and about the
\* revocations that become possible is what the kernel does, in every step.
LibraryForesees == [][DeriveForeseen /\ RevokeForeseen']_vars
=============================================================================
