------------------------------- MODULE S3kCaps -------------------------------
(***************************************************************************)
(* The capability descriptors as programs write them: the constructors of  *)
(* the user library (common/src/s3k/s3k.c).  Unlike those of the kernel's  *)
(* boot table they take memory by address, which is counted in blocks      *)
(* here, and a PMP region in the encoding of the hardware.                 *)
(***************************************************************************)
EXTENDS CapTypes

s3k_mk_time(hart, bgn, end) ==
  [type |-> "time", hart |-> hart, bgn |-> bgn, mrk |-> bgn, end |-> end]

\* The tag is that of the first block.
s3k_mk_memory(bgn, end, rwx) ==
  LET tag == bgn \div TAG_BLOCKS
      block(addr) == addr - tag * TAG_BLOCKS
  IN  [type |-> "mem", tag |-> tag, bgn |-> block(bgn), mrk |-> block(bgn),
       end |-> block(end), rwx |-> rwx, lck |-> FALSE]

\* base | (size / 2 - 1): the size is coded by the number of ones at the end.  A
\* base that is not a multiple of the size may add some, which makes the region
\* longer; the bits that the ones cover are lost.  The code is kept decoded.
s3k_napot_encode(base, size) ==
  LET sizes == {size * 2 ^ k : k \in 0 .. base + size}
      fits(n) == ((2 * base) \div n) % 2 = 0
      s == CHOOSE n \in sizes : fits(n) /\ \A m \in sizes : fits(m) => n <= m
  IN  [base |-> base - (base % s), size |-> s]

s3k_mk_pmp(addr, rwx) ==
  [type |-> "pmp", base |-> addr.base, size |-> addr.size, rwx |-> rwx,
   used |-> FALSE, slot |-> 0]

s3k_mk_monitor(bgn, end) == [type |-> "mon", bgn |-> bgn, mrk |-> bgn, end |-> end]

s3k_mk_channel(bgn, end) == [type |-> "chan", bgn |-> bgn, mrk |-> bgn, end |-> end]

s3k_mk_socket(chan, mode, perm, tag) ==
  [type |-> "sock", chan |-> chan, mode |-> mode, perm |-> perm, tag |-> tag]
=============================================================================
