------------------------------- MODULE Device ------------------------------
(***************************************************************************)
(* Devices as files: the vnode operations of kern/vfs/device.c in front of *)
(* the null device (kern/vfs/devnull.c), the random device                 *)
(* (kern/dev/generic/random.c on lrandom.c) and a disk (lhd.c), with the   *)
(* scatter/gather transfer of kern/lib/uio.c between them and a user's     *)
(* buffers, some of which may not be there.                                *)
(*                                                                         *)
(* The bytes of a request are numbered in the order of its buffers; a      *)
(* sector of the disk holds, per byte, what was written last: a pair of a  *)
(* request's number and a byte of it.                                      *)
(***************************************************************************)
EXTENDS Naturals, Sequences, FiniteSets

CONSTANTS LHD_SECTSIZE, Sectors,
          WordSize,        \* bytes lrandom hands out at a time
          Iovs,            \* buffer lengths of a request
          Offsets, Flags, MaxRequests

VARIABLES device, call,    \* what is done to it: "idle", the operation, or the result
          uio,             \* iov, resid, offset, pos (bytes moved), bad (first byte not there)
          disk, count,     \* contents; requests so far
          before, request, \* ghosts: the disk and the uio when the request began
          got              \* bytes read, in order

vars == <<device, call, uio, disk, count, before, request, got>>

Devices == {"lhd0raw", "null", "random"}
d_blocks == IF device = "lhd0raw" THEN Sectors ELSE 0
d_blocksize == IF device = "lhd0raw" THEN LHD_SECTSIZE ELSE 1
Bytes == 0 .. (Sectors * LHD_SECTSIZE) - 1
Total(iov) == LET S[i \in 0 .. Len(iov)] == IF i = 0 THEN 0 ELSE iov[i] + S[i - 1] IN S[Len(iov)]
NoUio == [iov |-> <<0>>, resid |-> 0, offset |-> 0, pos |-> 0, bad |-> 1, err |-> "0"]

Init ==
  /\ device \in Devices /\ call = "idle"
  /\ uio = NoUio /\ request = NoUio
  /\ disk = [b \in Bytes |-> <<0, b>>] /\ before = disk
  /\ count = 0 /\ got = <<>>

-----------------------------------------------------------------------------
\* uiomove of n bytes: buffer by buffer, up to the first that is not there.
RECURSIVE uiomove(_, _)
uiomove(u, n) ==
  LET size == IF Head(u.iov) > n THEN n ELSE Head(u.iov)
  IN  IF n = 0 \/ u.resid = 0 THEN u
      ELSE IF size = 0
      THEN IF Len(u.iov) = 1 THEN [u EXCEPT !.err = "panic"] ELSE uiomove([u EXCEPT !.iov = Tail(@)], n)
      ELSE IF u.bad \in u.pos + 1 .. u.pos + size THEN [u EXCEPT !.err = "EFAULT"]
      ELSE uiomove([u EXCEPT !.iov = <<Head(@) - size>> \o Tail(@), !.resid = @ - size,
                             !.offset = @ + size, !.pos = @ + size], n - size)

dev_tryseek(pos) ==
  IF d_blocks > 0 /\ (pos % d_blocksize # 0 \/ pos \div d_blocksize >= d_blocks) THEN "EINVAL" ELSE "0"

Return(err) == call' = err
Begin(op, u) ==
  /\ call = "idle" /\ count < MaxRequests
  /\ count' = count + 1 /\ uio' = u /\ request' = u /\ before' = disk /\ got' = <<>>
  /\ call' = IF dev_tryseek(u.offset) # "0" THEN dev_tryseek(u.offset) ELSE op
  /\ UNCHANGED <<device, disk>>

Request(op) ==
  \E iov \in Iovs, offset \in Offsets : \E bad \in 1 .. Total(iov) + 1 :
    Begin(op, [iov |-> iov, resid |-> Total(iov), offset |-> offset, pos |-> 0, bad |-> bad, err |-> "0"])

dev_read == Request("read")
dev_write == Request("write")

-----------------------------------------------------------------------------
nullio ==
  /\ device = "null" /\ call \in {"read", "write"}
  /\ uio' = IF call = "write" THEN [uio EXCEPT !.resid = 0] ELSE uio
  /\ Return("0")
  /\ UNCHANGED <<device, disk, count, before, request, got>>

\* randio: for reading only, a word at a time.
randio ==
  /\ device = "random"
  /\ \/ call = "write" /\ Return("EIO") /\ UNCHANGED <<uio, got>>
     \/ call = "read" /\ uio.resid = 0 /\ Return("0") /\ UNCHANGED <<uio, got>>
     \/ /\ call = "read" /\ uio.resid > 0
        /\ LET u == uiomove(uio, WordSize)
           IN  /\ uio' = u
               /\ got' = got \o [k \in 1 .. u.pos - uio.pos |-> <<count, uio.pos + k>>]
               /\ call' = IF u.err # "0" THEN u.err ELSE call
  /\ UNCHANGED <<device, disk, count, before, request>>

\* lhd_io: whole sectors within the disk, one by one; a sector is written only
\* when all of it could be fetched.  The drive may fail.
Aligned == uio.offset % LHD_SECTSIZE = 0 /\ uio.resid % LHD_SECTSIZE = 0
Within == (request.offset + request.resid) \div LHD_SECTSIZE <= Sectors
Refused == ~Aligned \/ ~Within
Fetched_any(u) == TRUE
Fetched(u) == u.err = "0"

lhd_io ==
  /\ device = "lhd0raw" /\ call \in {"read", "write"}
  /\ \/ uio = request /\ Refused /\ Return("EINVAL") /\ UNCHANGED <<uio, disk, got>>
     \/ uio.resid = 0 /\ ~Refused /\ Return("0") /\ UNCHANGED <<uio, disk, got>>
     \/ uio.resid > 0 /\ ~Refused /\ call = "read" /\ Return("EIO") /\ UNCHANGED <<uio, disk, got>>
     \/ /\ uio.resid > 0 /\ ~Refused
        /\ LET u == uiomove(uio, LHD_SECTSIZE)
           IN  /\ uio' = u
               /\ \/ call = "write" /\ Fetched(u) /\ Return("EIO") /\ UNCHANGED <<disk, got>>
                  \/ /\ call' = IF u.err # "0" THEN u.err ELSE call
                     /\ disk' = IF call = "write" /\ Fetched(u)
                                THEN [b \in Bytes |-> IF b \in uio.offset .. u.offset - 1
                                                      THEN <<count, b - request.offset + 1>> ELSE disk[b]]
                                ELSE disk
                     /\ got' = IF call = "read"
                               THEN got \o [k \in 1 .. u.pos - uio.pos |-> disk[uio.offset + k - 1]] ELSE got
  /\ UNCHANGED <<device, count, before, request>>

\* The caller has its result; all other operations on a device vnode return at
\* once and change nothing.
Done ==
  /\ call \notin {"idle", "read", "write"}
  /\ call' = "idle" /\ uio' = NoUio /\ request' = NoUio /\ got' = <<>> /\ before' = disk
  /\ UNCHANGED <<device, disk, count>>

Next == dev_read \/ dev_write \/ nullio \/ randio \/ lhd_io \/ Done

Spec == Init /\ [][Next]_vars

-----------------------------------------------------------------------------
dev_eachopen(flags) ==
  IF flags \cap {"O_CREAT", "O_TRUNC", "O_EXCL", "O_APPEND"} # {} THEN "EINVAL"
  ELSE IF device = "random" /\ flags # {} THEN "EIO" ELSE "0"
dev_gettype == IF d_blocks > 0 THEN "S_IFBLK" ELSE "S_IFCHR"
dev_isseekable == d_blocks # 0
dev_stat == [st_size |-> d_blocks * d_blocksize, st_blocks |-> d_blocks, st_nlink |-> 1, st_mode |-> dev_gettype]
dev_truncate(len) == IF d_blocks > 0 /\ d_blocks * d_blocksize = len THEN "0" ELSE "EINVAL"

\* What a request does to a disk is what its caller is told: on success every byte
\* was moved, each to or from its place, and the offset went along; after a fault
\* or an I/O error only whole sectors were written, in order, and the disk beyond
\* them is as before; a request refused for its alignment or its end moves nothing;
\* no request runs out of buffers; a device opened for appending or creating is
\* refused, and the size stat tells can be truncated to and is where seeks end.
IoExact ==
  /\ uio.err # "panic"
  /\ device # "null" => uio.offset - request.offset = uio.pos /\ request.resid - uio.resid = uio.pos
  /\ call = "0" => uio.resid = 0 \/ device = "null"
  /\ call = "EINVAL" => uio = request /\ disk = before
  /\ device = "lhd0raw" /\ call # "idle" =>
       /\ Len(got) % LHD_SECTSIZE = 0 \/ call = "EFAULT"
       /\ \A k \in 1 .. Len(got) : got[k] = before[request.offset + k - 1]
       /\ \A b \in Bytes : disk[b] # before[b] =>
            /\ disk[b] = <<count, b - request.offset + 1>>
            /\ b < uio.offset - (uio.pos % LHD_SECTSIZE)
       /\ call = "0" /\ got = <<>> /\ disk # before =>
            \A b \in request.offset .. uio.offset - 1 : disk[b] = <<count, b - request.offset + 1>>
  /\ \A flags \in Flags : "O_APPEND" \in flags => dev_eachopen(flags) # "0"
  /\ dev_isseekable <=> dev_truncate(dev_stat.st_size) = "0"
  /\ \A pos \in Offsets : dev_isseekable /\ dev_tryseek(pos) = "0" => pos < dev_stat.st_size
=============================================================================
