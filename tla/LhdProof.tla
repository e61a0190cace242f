------------------------------ MODULE LhdProof ------------------------------
(***************************************************************************)
(* The disk driver serves every request completely, for any number of      *)
(* threads, any size of the disk and any number of media errors.           *)
(*                                                                         *)
(* Served says what holds when a request returns.  It is inductive only    *)
(* together with where each thread is on its way (Place): how much of its  *)
(* uio is left, and what the disk has moved for it so far.                 *)
(***************************************************************************)
EXTENDS Lhd, TLAPS

Types ==
  /\ disk \in [Sectors -> Values] /\ buf \in Values
  /\ stat \in {"idle", "working", "LHD_OK", "LHD_MEDIA"}
  /\ reg \in [write : BOOLEAN, sect : Sectors]
  /\ lh_clear \in 0 .. 1 /\ lh_done \in 0 .. 1 /\ lh_result \in {"0", "EIO"}
  /\ pc \in [Threads -> {"idle", "lhd_io", "loop", "start", "wait", "finish", "return"}]
  /\ req \in [Threads -> [sfs : BOOLEAN, write : BOOLEAN, sector : Nat, data : Seq(Values)]]
  /\ uio \in [Threads -> [sector : Nat, resid : 0 .. NSect, got : Seq(Values)]]
  /\ loc \in [Threads -> [sector : Nat, len : 0 .. NSect, i : Nat, result : {"0", "EIO", "EINVAL", "EFAULT"}]]
  /\ tries \in [Threads -> 0 .. MaxTries]
  /\ moved \in [Threads -> Seq(Values)]

Busy(t) == pc[t] \in {"start", "wait", "finish"}

\* At most one thread has the device, and one has it unless lh_clear is up.
Device ==
  /\ lh_clear = 0 => \E t \in Threads : Busy(t)
  /\ lh_clear = 1 => \A t \in Threads : ~Busy(t)
  /\ \A t, u \in Threads : Busy(t) /\ Busy(u) => t = u

\* Exactly one completion is to come for the thread that waits.
Completion ==
  /\ \A t \in Threads : pc[t] = "wait" => stat # "idle" \/ lh_done = 1
  /\ stat # "idle" \/ lh_done = 1 => \E t \in Threads : pc[t] = "wait"
  /\ stat # "idle" => lh_done = 0

\* The disk has moved the sector t is waiting for.
Got(t) ==
  \/ pc[t] = "wait" /\ (stat = "LHD_OK" \/ (lh_done = 1 /\ lh_result = "0"))
  \/ pc[t] = "finish" /\ lh_result = "0"

\* Sectors of the present call of lhd_io: done, left in the uio, and the one
\* that a write has already taken from the uio.
Bounds(t) ==
  /\ uio[t].resid <= Len(req[t].data)
  /\ loc[t].i <= loc[t].len
  /\ pc[t] \in {"loop", "start", "wait", "finish"} =>
       /\ loc[t].sector + loc[t].len <= NSect
       /\ uio[t].resid + loc[t].i + (IF req[t].write /\ pc[t] \in {"wait", "finish"} THEN 1 ELSE 0) = loc[t].len
  /\ Busy(t) => loc[t].i < loc[t].len
  /\ pc[t] = "return" /\ loc[t].result = "0" => uio[t].resid = 0 /\ loc[t].i = loc[t].len

\* A reader has what the disk moved for it, but for the sector in the buffer.
Reads(t) ==
  ~req[t].write =>
    /\ uio[t].resid + Len(uio[t].got) = Len(req[t].data)
    /\ Got(t) => moved[t] = Append(uio[t].got, buf)
    /\ ~Got(t) /\ ~(pc[t] = "return" /\ loc[t].result = "EFAULT") => moved[t] = uio[t].got

\* A writer without retries has had its first sectors moved, in order.
Writes(t) ==
  req[t].write /\ ~req[t].sfs =>
    /\ pc[t] = "lhd_io" => uio[t].resid = Len(req[t].data) /\ moved[t] = <<>>
    /\ pc[t] \in {"loop", "start", "wait", "finish"} =>
         /\ loc[t].len = Len(req[t].data)
         /\ Len(moved[t]) = loc[t].i + (IF Got(t) THEN 1 ELSE 0)
    /\ pc[t] = "wait" /\ stat = "working" => reg.write /\ buf = req[t].data[loc[t].i + 1]
    /\ pc[t] = "return" /\ loc[t].result = "0" => Len(moved[t]) = Len(req[t].data)
    /\ pc[t] # "idle" => \A j \in 1 .. Len(moved[t]) : j <= Len(req[t].data) /\ moved[t][j] = req[t].data[j]

\* Between requests nothing is left of the last one.
Idles(t) == pc[t] = "idle" => req[t] = NoReq /\ uio[t] = NoUio /\ loc[t] = NoLoc /\ moved[t] = <<>>

Place(t) == Bounds(t) /\ Reads(t) /\ Writes(t) /\ Idles(t)

\* The inductive invariant.
IInv == Types /\ Device /\ Completion /\ \A t \in Threads : Place(t)

\* There is a disk, and a bound on the retries.
Sizes == NSect \in Nat \ {0} /\ MaxTries \in Nat

-----------------------------------------------------------------------------
\* The invariant is as strong as the property: one user of the device, and a
\* request that returns success has had all its sectors moved.
LEMMA Enough ==
  ASSUME Sizes, IInv
  PROVE  Served
<1>1. TypeOK
  BY DEF IInv, Types, TypeOK, Place, Bounds
<1>2. (\A t, u \in Users : t = u) /\ lh_clear = IF Users = {} THEN 1 ELSE 0
  <2>1. CASE lh_clear = 1
    <3>1. Users = {}
      BY <2>1 DEF IInv, Device, Busy, Users
    <3>2. QED
      BY <2>1, <3>1
  <2>2. CASE lh_clear = 0
    <3>1. PICK t \in Threads : Busy(t)
      BY <2>2 DEF IInv, Device
    <3>2. Users = {t}
      BY <3>1 DEF IInv, Device, Busy, Users
    <3>3. QED
      BY <2>2, <3>2
  <2>3. QED
    BY <2>1, <2>2 DEF IInv, Types
<1>3. OneAtATime
  BY <1>1, <1>2 DEF OneAtATime, IInv, Completion, Types
<1>4. ASSUME NEW t \in Threads, Over(t), loc[t].result = "0", ~(req[t].sfs /\ req[t].write)
      PROVE  /\ moved[t] = IF req[t].write THEN req[t].data ELSE uio[t].got
             /\ Len(moved[t]) = Len(req[t].data)
  <2>1. pc[t] = "return" /\ ~Got(t)
    BY <1>4 DEF Over, Got
  <2>2. moved[t] \in Seq(Values) /\ req[t].data \in Seq(Values) /\ uio[t].got \in Seq(Values)
    BY DEF IInv, Types
  <2>3. CASE ~req[t].write
    <3>1. moved[t] = uio[t].got
      BY <1>4, <2>1, <2>3 DEF IInv, Place, Reads
    <3>2. uio[t].resid = 0 /\ uio[t].resid + Len(uio[t].got) = Len(req[t].data)
      BY <1>4, <2>1, <2>3 DEF IInv, Place, Reads, Bounds
    <3>3. QED
      BY <2>2, <2>3, <3>1, <3>2
  <2>4. CASE req[t].write
    <3>1. /\ Len(moved[t]) = Len(req[t].data)
          /\ \A j \in 1 .. Len(moved[t]) : moved[t][j] = req[t].data[j]
      BY <1>4, <2>1, <2>4 DEF IInv, Place, Writes
    <3>2. moved[t] = req[t].data
      BY SMTT(30), <2>2, <3>1
    <3>3. QED
      BY <2>4, <3>2
  <2>5. QED
    BY <2>3, <2>4
<1>5. QED
  BY <1>3, <1>4 DEF Served, Honest

\* At boot nobody uses the disk.
LEMMA InitHolds ==
  ASSUME Sizes, Init
  PROVE  IInv
<1> USE DEF Init, Sizes
<1>1. Types
  BY DEF Types, Sectors, NoReq, NoUio, NoLoc, NoReg
<1>2. Device /\ Completion
  BY DEF Device, Completion, Busy
<1>3. ASSUME NEW t \in Threads PROVE Place(t)
  BY DEF Place, Bounds, Reads, Writes, Idles, Busy, Got, NoReq, NoUio, NoLoc
<1>4. QED
  BY <1>1, <1>2, <1>3 DEF IInv

\* A thread that does not move stays where it is, unless it waits for the
\* device and the device does something.
LEMMA Frame ==
  ASSUME NEW u \in Threads, Place(u),
         pc'[u] = pc[u], req'[u] = req[u], uio'[u] = uio[u], loc'[u] = loc[u], moved'[u] = moved[u],
         pc[u] \notin {"wait", "finish"} \/ UNCHANGED <<stat, lh_done, lh_result, buf, reg>>
  PROVE  Place(u)'
<1>1. Got(u)' <=> Got(u)
  BY DEF Got
<1>2. Bounds(u)' /\ Idles(u)'
  BY DEF Place, Bounds, Idles, Busy
<1>3. Reads(u)'
  <2>1. Got(u) => UNCHANGED buf
    BY DEF Got
  <2>2. QED
    BY <1>1, <2>1 DEF Place, Reads
<1>4. Writes(u)'
  BY <1>1 DEF Place, Writes
<1>5. QED
  BY <1>2, <1>3, <1>4 DEF Place

\* A thread that has the device is the only one.
LEMMA Alone ==
  ASSUME IInv, NEW t \in Threads, Busy(t)
  PROVE  lh_clear = 0 /\ \A u \in Threads \ {t} : ~Busy(u)
<1>1. lh_clear \in 0 .. 1 /\ lh_clear # 1
  BY DEF IInv, Types, Device
<1>2. QED
  BY <1>1 DEF IInv, Device

-----------------------------------------------------------------------------
\* A new request: all of it is in the uio.
LEMMA CallKeeps ==
  ASSUME Sizes, IInv, NEW t \in Threads, Call(t)
  PROVE  IInv'
<1>1. PICK sfs \in BOOLEAN, write \in BOOLEAN, sector \in Sectors, len \in 1 .. NSect :
        /\ \E data \in [1 .. len -> Values] :
             req' = [req EXCEPT ![t] = [sfs |-> sfs, write |-> write, sector |-> sector, data |-> data]]
        /\ uio' = [uio EXCEPT ![t] = [sector |-> sector, resid |-> len, got |-> <<>>]]
  BY Zenon DEF Call
<1>2. PICK data \in [1 .. len -> Values] :
        /\ req' = [req EXCEPT ![t] = [sfs |-> sfs, write |-> write, sector |-> sector, data |-> data]]
        /\ uio' = [uio EXCEPT ![t] = [sector |-> sector, resid |-> len, got |-> <<>>]]
  BY <1>1, Zenon
<1>3. /\ pc[t] = "idle" /\ pc' = [pc EXCEPT ![t] = "lhd_io"]
      /\ UNCHANGED <<hardware, driver, loc, tries, moved, errors>>
  BY DEF Call, Goto
<1>4. data \in Seq(Values) /\ Len(data) = len /\ len \in Nat /\ sector \in Nat
  BY DEF Sizes, Sectors
<1>5. Types'
  <2>1. [sfs |-> sfs, write |-> write, sector |-> sector, data |-> data]
          \in [sfs : BOOLEAN, write : BOOLEAN, sector : Nat, data : Seq(Values)]
    BY <1>4
  <2>2. [sector |-> sector, resid |-> len, got |-> <<>>] \in [sector : Nat, resid : 0 .. NSect, got : Seq(Values)]
    BY <1>4
  <2>3. req' \in [Threads -> [sfs : BOOLEAN, write : BOOLEAN, sector : Nat, data : Seq(Values)]]
    BY <1>2, <2>1 DEF IInv, Types
  <2>4. uio' \in [Threads -> [sector : Nat, resid : 0 .. NSect, got : Seq(Values)]]
    BY <1>2, <2>2 DEF IInv, Types
  <2>5. pc' \in [Threads -> {"idle", "lhd_io", "loop", "start", "wait", "finish", "return"}]
    BY <1>3 DEF IInv, Types
  <2>6. QED
    BY <1>3, <2>3, <2>4, <2>5, Zenon DEF IInv, Types, hardware, driver
<1>6. Device' /\ Completion'
  BY <1>3, ZenonT(40) DEF IInv, Types, Device, Completion, Busy, hardware, driver
<1>7. Place(t)'
  <2>1. loc[t] = NoLoc /\ moved[t] = <<>>
    BY <1>3 DEF IInv, Place, Idles
  <2>2. /\ pc'[t] = "lhd_io" /\ req'[t].write = write /\ req'[t].data = data /\ uio'[t].resid = len /\ uio'[t].got = <<>>
        /\ loc'[t] = NoLoc /\ moved'[t] = <<>>
    BY <1>2, <1>3, <2>1 DEF IInv, Types
  <2>3. QED
    BY <1>4, <2>2 DEF Place, Bounds, Reads, Writes, Idles, Busy, Got, NoLoc
<1>8. ASSUME NEW u \in Threads \ {t} PROVE Place(u)'
  BY <1>2, <1>3, Frame DEF IInv, Types, hardware, driver
<1>9. QED
  BY <1>5, <1>6, <1>7, <1>8 DEF IInv

\* Entry of lhd_io: the part that is left in the uio.
LEMMA EnterKeeps ==
  ASSUME Sizes, IInv, NEW t \in Threads, lhd_io(t)
  PROVE  IInv'
<1> DEFINE inside == uio[t].sector + uio[t].resid <= NSect
           l == [sector |-> uio[t].sector, len |-> uio[t].resid, i |-> 0, result |-> IF inside THEN "0" ELSE "EINVAL"]
           next == IF inside THEN "loop" ELSE "return"
<1>1. /\ pc[t] = "lhd_io" /\ pc' = [pc EXCEPT ![t] = next] /\ loc' = [loc EXCEPT ![t] = l]
      /\ UNCHANGED <<hardware, driver, req, uio, tries, moved, errors>>
  BY DEF lhd_io, Goto
<1>2. l \in [sector : Nat, len : 0 .. NSect, i : Nat, result : {"0", "EIO", "EINVAL", "EFAULT"}]
  BY DEF IInv, Types
<1>3. next \in {"loop", "return"}
  OBVIOUS
<1>4. Types'
  BY <1>1, <1>2, <1>3, Zenon DEF IInv, Types, hardware, driver
<1>5. Device' /\ Completion'
  BY <1>1, <1>3, ZenonT(30) DEF IInv, Types, Device, Completion, Busy, hardware, driver
<1>6. Place(t)'
  <2>1. /\ pc'[t] = next /\ loc'[t] = l
        /\ req'[t] = req[t] /\ uio'[t] = uio[t] /\ moved'[t] = moved[t]
    BY <1>1 DEF IInv, Types
  <2>2. ~Got(t) /\ ~Got(t)'
    BY <1>1, <2>1 DEF Got
  <2>3. Place(t) /\ uio[t].resid \in Nat /\ uio[t].sector \in Nat
    BY DEF IInv, Types, Sizes
  <2>4. Bounds(t)' /\ Idles(t)'
    BY <1>1, <2>1, <2>3 DEF Place, Bounds, Idles, Busy
  <2>5. ~req[t].write => uio[t].resid + Len(uio[t].got) = Len(req[t].data) /\ moved[t] = uio[t].got
    BY <1>1, <2>2, <2>3 DEF Place, Reads
  <2>6. Reads(t)'
    BY <2>1, <2>2, <2>5 DEF Reads
  <2>7. Writes(t)'
    <3>1. req[t].write /\ ~req[t].sfs => uio[t].resid = Len(req[t].data) /\ moved[t] = <<>>
      BY <1>1, <2>3 DEF Place, Writes
    <3>2. pc'[t] \in {"loop", "return"} /\ (pc'[t] = "return" => loc'[t].result = "EINVAL")
      BY <2>1
    <3>3. loc'[t].len = uio[t].resid /\ loc'[t].i = 0
      BY <2>1
    <3>4. QED
      BY <2>1, <2>2, <3>1, <3>2, <3>3 DEF Writes
  <2>8. QED
    BY <2>4, <2>6, <2>7 DEF Place
<1>7. ASSUME NEW u \in Threads \ {t} PROVE Place(u)'
  BY <1>1, Frame DEF IInv, Types, hardware, driver
<1>8. QED
  BY <1>4, <1>5, <1>6, <1>7 DEF IInv

\* Taking the device: nobody else has it.
LEMMA ClearKeeps ==
  ASSUME Sizes, IInv, NEW t \in Threads, P_clear(t)
  PROVE  IInv'
<1>1. /\ pc[t] = "loop" /\ loc[t].i < loc[t].len /\ lh_clear = 1 /\ lh_clear' = 0
      /\ pc' = [pc EXCEPT ![t] = "start"]
      /\ UNCHANGED <<hardware, lh_done, lh_result, req, uio, loc, tries, moved, errors>>
  BY DEF P_clear, Goto, IInv, Types
<1>2. Types'
  BY <1>1, SMTT(20) DEF IInv, Types, hardware
<1>3. Device' /\ Completion'
  BY <1>1 DEF IInv, Types, Device, Completion, Busy, hardware
<1>4. Place(t)'
  <2>1. Got(t)' <=> Got(t)
    BY <1>1 DEF Got, IInv, Types
  <2>2. QED
    BY <1>1, <2>1, Zenon DEF IInv, Types, Place, Bounds, Reads, Writes, Idles, Busy, hardware
<1>5. ASSUME NEW u \in Threads \ {t} PROVE Place(u)'
  BY <1>1, Frame DEF IInv, Types, hardware
<1>6. QED
  BY <1>2, <1>3, <1>4, <1>5 DEF IInv

\* Starting the disk: the buffer holds the next sector of a writer, which has
\* left the uio.
LEMMA StartKeeps ==
  ASSUME Sizes, IInv, NEW t \in Threads, Start(t)
  PROVE  IInv'
<1>1. /\ pc[t] = "start" /\ pc' = [pc EXCEPT ![t] = "wait"]
      /\ stat' = "working" /\ reg' = [write |-> req[t].write, sect |-> loc[t].sector + loc[t].i]
      /\ UNCHANGED <<disk, driver, req, loc, tries, moved, errors>>
  BY DEF Start, Goto
<1>2. /\ Place(t) /\ Busy(t) /\ Types
      /\ uio[t].resid \in 0 .. NSect /\ uio[t].sector \in Nat /\ uio[t].got \in Seq(Values)
      /\ req[t].data \in Seq(Values) /\ req[t].write \in BOOLEAN
      /\ loc[t].i \in Nat /\ loc[t].len \in 0 .. NSect /\ loc[t].sector \in Nat
  BY <1>1, Zenon DEF IInv, Types, Busy
<1>3. /\ loc[t].i < loc[t].len /\ loc[t].sector + loc[t].len <= NSect
      /\ uio[t].resid + loc[t].i = loc[t].len /\ uio[t].resid <= Len(req[t].data)
  BY <1>1, <1>2 DEF Place, Bounds
<1>4. uio[t].resid \in 1 .. NSect /\ Len(req[t].data) - uio[t].resid + 1 \in 1 .. Len(req[t].data)
  <2>1. Len(req[t].data) \in Nat
    BY <1>2
  <2>2. loc[t].i \in Nat /\ loc[t].len \in Nat /\ uio[t].resid \in Nat /\ NSect \in Nat
    BY <1>2 DEF Sizes
  <2>3. uio[t].resid >= 1 /\ uio[t].resid <= NSect
    BY <1>2, <1>3, <2>2
  <2>4. QED
    BY <1>3, <2>1, <2>2, <2>3
<1>5. /\ req[t].write => /\ buf' = req[t].data[Len(req[t].data) - uio[t].resid + 1]
                         /\ uio'[t].resid = uio[t].resid - 1 /\ uio'[t].got = uio[t].got
      /\ ~req[t].write => buf' = buf /\ uio' = uio
      /\ uio' \in [Threads -> [sector : Nat, resid : 0 .. NSect, got : Seq(Values)]]
      /\ \A u \in Threads \ {t} : uio'[u] = uio[u]
  <2>1. CASE req[t].write
    <3>1. uio' = [uio EXCEPT ![t].sector = @ + 1, ![t].resid = @ - 1]
      BY <2>1 DEF Start, uiomove
    <3>2. buf' = req[t].data[Len(req[t].data) - uio[t].resid + 1]
      BY <2>1 DEF Start
    <3>3. uio \in [Threads -> [sector : Nat, resid : 0 .. NSect, got : Seq(Values)]]
      BY <1>2 DEF Types
    <3>4. uio[t].sector + 1 \in Nat /\ uio[t].resid - 1 \in 0 .. NSect
      BY <1>2, <1>4, SMTT(20) DEF Sizes
    <3>5. QED
      BY SMTT(30), <2>1, <3>1, <3>2, <3>3, <3>4
  <2>2. CASE ~req[t].write
    BY <1>2, <2>2 DEF Start, Types
  <2>3. QED
    BY <2>1, <2>2
<1>6. buf' \in Values
  BY <1>2, <1>4, <1>5, SMTT(20) DEF Types
<1>7. Types'
  <2>1. loc[t].sector + loc[t].i \in Sectors
    BY <1>2, <1>3, SMTT(20) DEF Sectors, Sizes
  <2>2. reg' \in [write : BOOLEAN, sect : Sectors]
    BY <1>1, <1>2, <2>1
  <2>3. QED
    BY <1>1, <1>2, <1>5, <1>6, <2>2, Zenon DEF Types, driver
<1>8. \A u \in Threads \ {t} : ~Busy(u)
  BY <1>2 DEF IInv, Device
<1>9. Device'
  BY <1>1, <1>2, Zenon DEF IInv, Types, Device, Busy, driver
<1>10. stat = "idle" /\ lh_done = 0
  BY <1>1, <1>2, <1>8 DEF IInv, Types, Completion, Busy
<1>11. Completion'
  BY <1>1, <1>2, <1>8, <1>10 DEF Types, Completion, Busy, driver
<1>12. Place(t)'
  <2>1. pc'[t] = "wait" /\ req'[t] = req[t] /\ loc'[t] = loc[t] /\ moved'[t] = moved[t] /\ lh_done' = 0
    BY <1>1, <1>2, <1>10 DEF Types, driver
  <2>2. ~Got(t) /\ ~Got(t)'
    BY <1>1, <2>1 DEF Got
  <2>3. Bounds(t)' /\ Idles(t)'
    <3>1. uio[t].resid \in Nat /\ Len(req[t].data) \in Nat
      BY <1>2 DEF Sizes
    <3>2. uio'[t].resid + loc[t].i + (IF req[t].write THEN 1 ELSE 0) = loc[t].len /\ uio'[t].resid <= Len(req[t].data)
      <4>1. loc[t].i \in Nat /\ loc[t].len \in Nat
        BY <1>2 DEF Sizes
      <4>2. CASE req[t].write
        <5>1. uio'[t].resid = uio[t].resid - 1
          BY <1>5, <4>2
        <5>2. QED
          BY <1>3, <3>1, <4>1, <4>2, <5>1
      <4>3. CASE ~req[t].write
        <5>1. uio'[t].resid = uio[t].resid
          BY SMTT(30), <1>5, <4>3
        <5>2. QED
          BY <1>3, <3>1, <4>1, <4>3, <5>1
      <4>4. QED
        BY <4>2, <4>3
    <3>3. QED
      BY <1>2, <1>3, <2>1, <3>2 DEF Bounds, Idles, Busy
  <2>4. Reads(t)'
    BY <1>1, <1>2, <1>5, <2>1, <2>2 DEF Place, Reads
  <2>5. Writes(t)'
    <3>1. SUFFICES ASSUME req[t].write, ~req[t].sfs PROVE Writes(t)'
      BY SMTT(30), <2>1 DEF Writes
    <3>2. /\ loc[t].len = Len(req[t].data) /\ Len(moved[t]) = loc[t].i
          /\ \A j \in 1 .. Len(moved[t]) : j <= Len(req[t].data) /\ moved[t][j] = req[t].data[j]
      BY <1>1, <1>2, <2>2, <3>1 DEF Place, Writes
    <3>3. Len(req[t].data) - uio[t].resid + 1 = loc[t].i + 1
      BY SMTT(30), <1>2, <1>3, <3>2
    <3>4. buf' = req[t].data[loc[t].i + 1] /\ reg'.write
      BY SMTT(30), <1>1, <1>5, <3>1, <3>3
    <3>5. QED
      BY SMTT(30), <2>1, <2>2, <3>2, <3>4, <1>2 DEF Writes
  <2>6. QED
    BY <2>3, <2>4, <2>5 DEF Place
<1>13. ASSUME NEW u \in Threads \ {t} PROVE Place(u)'
  BY <1>1, <1>2, <1>5, <1>8, Frame DEF IInv, Types, Busy
<1>14. QED
  BY <1>7, <1>9, <1>11, <1>12, <1>13 DEF IInv

\* A bad buffer of a writer: the device is given back untouched.
LEMMA StartFailsKeeps ==
  ASSUME Sizes, IInv, NEW t \in Threads, StartFails(t)
  PROVE  IInv'
<1>1. /\ pc[t] = "start" /\ req[t].write /\ lh_clear' = lh_clear + 1
      /\ loc' = [loc EXCEPT ![t].result = "EFAULT"]
      /\ pc' = [pc EXCEPT ![t] = "return"]
      /\ UNCHANGED <<hardware, lh_done, lh_result, req, uio, tries, moved, errors>>
  BY DEF StartFails, Goto
<1>2. Types /\ Place(t) /\ Busy(t) /\ lh_clear = 0 /\ \A u \in Threads \ {t} : ~Busy(u)
  BY <1>1, Alone DEF IInv, Busy
<1>3. Types'
  <2>1. loc' \in [Threads -> [sector : Nat, len : 0 .. NSect, i : Nat, result : {"0", "EIO", "EINVAL", "EFAULT"}]]
    BY <1>1, <1>2, ZenonT(30) DEF Types
  <2>2. pc' \in [Threads -> {"idle", "lhd_io", "loop", "start", "wait", "finish", "return"}]
    BY <1>1, <1>2 DEF Types
  <2>3. lh_clear' \in 0 .. 1
    BY <1>1, <1>2
  <2>4. QED
    BY <1>1, <1>2, <2>1, <2>2, <2>3, Zenon DEF Types, hardware
<1>4. Device' /\ Completion'
  BY <1>1, <1>2 DEF IInv, Types, Device, Completion, Busy, hardware
<1>5. Place(t)'
  <2>1. /\ pc'[t] = "return" /\ req'[t] = req[t] /\ uio'[t] = uio[t] /\ moved'[t] = moved[t]
        /\ loc'[t].result = "EFAULT" /\ loc'[t].i = loc[t].i /\ loc'[t].len = loc[t].len
    BY <1>1, <1>2 DEF Types
  <2>2. QED
    BY <1>1, <1>2, <2>1 DEF Place, Bounds, Reads, Writes, Idles, Busy, Got
<1>6. ASSUME NEW u \in Threads \ {t} PROVE Place(u)'
  BY <1>1, <1>2, Frame DEF IInv, Types, hardware
<1>7. QED
  BY <1>3, <1>4, <1>5, <1>6 DEF IInv

\* The end of the loop: the uio is used up.
LEMMA EndLoopKeeps ==
  ASSUME Sizes, IInv, NEW t \in Threads, EndLoop(t)
  PROVE  IInv'
<1>1. /\ pc[t] = "loop" /\ loc[t].i = loc[t].len /\ pc' = [pc EXCEPT ![t] = "return"]
      /\ UNCHANGED <<hardware, driver, req, uio, loc, tries, moved, errors>>
  BY DEF EndLoop, Goto
<1>2. Types'
  BY <1>1, SMTT(20) DEF IInv, Types, hardware, driver
<1>3. Device' /\ Completion'
  BY <1>1, Zenon DEF IInv, Types, Device, Completion, Busy, hardware, driver
<1>4. Place(t)'
  <2>1. /\ pc'[t] = "return" /\ req'[t] = req[t] /\ uio'[t] = uio[t] /\ moved'[t] = moved[t] /\ loc'[t] = loc[t]
    BY <1>1 DEF IInv, Types
  <2>2. ~Got(t) /\ ~Got(t)'
    BY <1>1, <2>1 DEF Got
  <2>3. Place(t) /\ uio[t].resid \in Nat /\ loc[t].i \in Nat
    BY DEF IInv, Types, Sizes
  <2>4. uio[t].resid = 0
    BY <1>1, <2>3 DEF Place, Bounds
  <2>5. Bounds(t)' /\ Idles(t)'
    BY SMTT(30), <1>1, <2>1, <2>3, <2>4 DEF Place, Bounds, Idles, Busy
  <2>6. Reads(t)'
    BY <1>1, <2>1, <2>2, <2>3 DEF Place, Reads
  <2>7. Writes(t)'
    BY <1>1, <2>1, <2>2, <2>3 DEF Place, Writes
  <2>8. QED
    BY <2>5, <2>6, <2>7 DEF Place
<1>5. ASSUME NEW u \in Threads \ {t} PROVE Place(u)'
  BY <1>1, Frame DEF IInv, Types, hardware, driver
<1>6. QED
  BY <1>2, <1>3, <1>4, <1>5 DEF IInv

\* SFS starts over: a read has its uio as it was.
LEMMA RetryKeeps ==
  ASSUME Sizes, IInv, NEW t \in Threads, Retry(t)
  PROVE  IInv'
<1>1. /\ pc[t] = "return" /\ req[t].sfs /\ loc[t].result = "EIO" /\ tries[t] < MaxTries
      /\ tries' = [tries EXCEPT ![t] = @ + 1] /\ pc' = [pc EXCEPT ![t] = "lhd_io"]
      /\ UNCHANGED <<hardware, driver, req, uio, loc, moved, errors>>
  BY DEF Retry, Goto
<1>2. Types'
  <2>1. tries' \in [Threads -> 0 .. MaxTries]
    BY <1>1 DEF IInv, Types, Sizes
  <2>2. QED
    BY <1>1, <2>1, Zenon DEF IInv, Types, hardware, driver
<1>3. Device' /\ Completion'
  BY <1>1, ZenonT(30) DEF IInv, Types, Device, Completion, Busy, hardware, driver
<1>4. Place(t)'
  <2>1. /\ pc'[t] = "lhd_io" /\ req'[t] = req[t] /\ uio'[t] = uio[t] /\ moved'[t] = moved[t] /\ loc'[t] = loc[t]
    BY <1>1 DEF IInv, Types
  <2>2. ~Got(t) /\ ~Got(t)' /\ Place(t)
    BY <1>1, <2>1 DEF Got, IInv
  <2>3. QED
    BY <1>1, <2>1, <2>2 DEF Place, Bounds, Reads, Writes, Idles, Busy
<1>5. ASSUME NEW u \in Threads \ {t} PROVE Place(u)'
  BY <1>1, Frame DEF IInv, Types, hardware, driver
<1>6. QED
  BY <1>2, <1>3, <1>4, <1>5 DEF IInv

\* The request is over and forgotten.
LEMMA ReturnKeeps ==
  ASSUME Sizes, IInv, NEW t \in Threads, Return(t)
  PROVE  IInv'
<1>1. /\ pc[t] = "return" /\ pc' = [pc EXCEPT ![t] = "idle"]
      /\ req' = [req EXCEPT ![t] = NoReq] /\ uio' = [uio EXCEPT ![t] = NoUio]
      /\ loc' = [loc EXCEPT ![t] = NoLoc] /\ tries' = [tries EXCEPT ![t] = 0]
      /\ moved' = [moved EXCEPT ![t] = <<>>]
      /\ UNCHANGED <<hardware, driver, errors>>
  BY DEF Return, Over, Goto
<1>2. Types'
  <2>1. NoReq \in [sfs : BOOLEAN, write : BOOLEAN, sector : Nat, data : Seq(Values)]
    BY DEF NoReq
  <2>2. /\ NoUio \in [sector : Nat, resid : 0 .. NSect, got : Seq(Values)]
        /\ NoLoc \in [sector : Nat, len : 0 .. NSect, i : Nat, result : {"0", "EIO", "EINVAL", "EFAULT"}]
    BY DEF NoUio, NoLoc, Sizes
  <2>3. req' \in [Threads -> [sfs : BOOLEAN, write : BOOLEAN, sector : Nat, data : Seq(Values)]]
    BY <1>1, <2>1 DEF IInv, Types
  <2>4. /\ uio' \in [Threads -> [sector : Nat, resid : 0 .. NSect, got : Seq(Values)]]
        /\ loc' \in [Threads -> [sector : Nat, len : 0 .. NSect, i : Nat, result : {"0", "EIO", "EINVAL", "EFAULT"}]]
    BY SMTT(30), <1>1, <2>2 DEF IInv, Types
  <2>5. tries' \in [Threads -> 0 .. MaxTries] /\ moved' \in [Threads -> Seq(Values)]
    BY <1>1 DEF IInv, Types, Sizes
  <2>6. pc' \in [Threads -> {"idle", "lhd_io", "loop", "start", "wait", "finish", "return"}]
    BY <1>1 DEF IInv, Types
  <2>7. QED
    BY <1>1, <2>3, <2>4, <2>5, <2>6, Zenon DEF IInv, Types, hardware, driver
<1>3. Device' /\ Completion'
  BY <1>1, Zenon DEF IInv, Types, Device, Completion, Busy, hardware, driver
<1>4. Place(t)'
  <2>1. pc'[t] = "idle" /\ req'[t] = NoReq /\ uio'[t] = NoUio /\ loc'[t] = NoLoc /\ moved'[t] = <<>>
    BY <1>1 DEF IInv, Types
  <2>2. QED
    BY <2>1 DEF Place, Bounds, Reads, Writes, Idles, Busy, Got, NoReq, NoUio, NoLoc
<1>5. ASSUME NEW u \in Threads \ {t} PROVE Place(u)'
  BY <1>1, Frame DEF IInv, Types, hardware, driver
<1>6. QED
  BY <1>2, <1>3, <1>4, <1>5 DEF IInv

-----------------------------------------------------------------------------
\* A thread that waits has the device, and nobody else waits.
LEMMA OneWaits ==
  ASSUME IInv, NEW w \in Threads, pc[w] = "wait"
  PROVE  Busy(w) /\ \A u \in Threads \ {w} : ~Busy(u) /\ pc[u] \notin {"wait", "finish"}
<1>1. Busy(w)
  BY DEF Busy
<1>2. QED
  BY <1>1, Alone DEF Busy

\* The disk does what it was told for the one thread that waits, or fails.
LEMMA DiskKeeps ==
  ASSUME Sizes, IInv, Disk
  PROVE  IInv'
<1>1. stat = "working" /\ UNCHANGED <<reg, driver, pc, req, uio, loc, tries>>
  BY DEF Disk
<1>2. PICK w \in Threads : pc[w] = "wait"
  BY <1>1 DEF IInv, Completion
<1>3. Types /\ Place(w) /\ lh_done = 0 /\ ~Got(w)
  BY <1>1, <1>2 DEF IInv, Completion, Got
<1>4. \A u \in Threads \ {w} : pc[u] \notin {"wait", "finish"}
  BY <1>2, OneWaits
<1>5. CASE /\ stat' = "LHD_OK"
           /\ IF reg.write THEN disk' = [disk EXCEPT ![reg.sect] = buf] /\ UNCHANGED buf
                           ELSE buf' = disk[reg.sect] /\ UNCHANGED disk
           /\ moved' = [t \in Threads |-> IF pc[t] = "wait" THEN Append(moved[t], buf') ELSE moved[t]]
           /\ UNCHANGED errors
  <2>1. buf' \in Values /\ disk' \in [Sectors -> Values]
    <3>1. disk \in [Sectors -> Values] /\ buf \in Values /\ reg.sect \in Sectors
      BY <1>3 DEF Types
    <3>2. CASE reg.write
      BY <1>5, <3>1, <3>2
    <3>3. CASE ~reg.write
      BY <1>5, <3>1, <3>3
    <3>4. QED
      BY <3>2, <3>3
  <2>2. moved[w] \in Seq(Values) /\ moved'[w] = Append(moved[w], buf')
    BY <1>2, <1>3, <1>5 DEF Types
  <2>3. moved' \in [Threads -> Seq(Values)]
    BY <1>3, <1>5, <2>1 DEF Types
  <2>4. Types'
    BY <1>1, <1>3, <1>5, <2>1, <2>3, SMTT(20) DEF Types, driver
  <2>5. Device' /\ Completion'
    BY <1>1, <1>2, <1>3, <1>5 DEF IInv, Device, Completion, Busy, driver
  <2>6. Place(w)'
    <3>1. Got(w)' /\ pc'[w] = "wait"
      BY <1>1, <1>2, <1>5 DEF Got
    <3>2. Bounds(w)' /\ Idles(w)'
      BY SMTT(30), <1>1, <1>2, <1>3 DEF Place, Bounds, Idles, Busy
    <3>3. Reads(w)'
      BY <1>1, <1>2, <1>3, <2>2, <3>1 DEF Place, Reads
    <3>4. Writes(w)'
      <4>1. SUFFICES ASSUME req[w].write, ~req[w].sfs PROVE Writes(w)'
        BY <1>1 DEF Writes
      <4>2. /\ loc[w].len = Len(req[w].data) /\ Len(moved[w]) = loc[w].i
            /\ buf = req[w].data[loc[w].i + 1] /\ reg.write
            /\ \A j \in 1 .. Len(moved[w]) : j <= Len(req[w].data) /\ moved[w][j] = req[w].data[j]
        <5>1. Len(moved[w]) = loc[w].i + 0 /\ loc[w].i \in Nat
          BY <1>2, <1>3, <4>1 DEF Types, Place, Writes
        <5>2. loc[w].len = Len(req[w].data) /\ buf = req[w].data[loc[w].i + 1] /\ reg.write
          BY <1>1, <1>2, <1>3, <4>1 DEF Place, Writes
        <5>3. \A j \in 1 .. Len(moved[w]) : j <= Len(req[w].data) /\ moved[w][j] = req[w].data[j]
          BY <1>2, <1>3, <4>1, Zenon DEF Place, Writes
        <5>4. QED
          BY <5>1, <5>2, <5>3
      <4>3. loc[w].i < loc[w].len /\ loc[w].i \in Nat /\ Len(req[w].data) \in Nat
        BY <1>2, <1>3 DEF Types, Place, Bounds, Busy
      <4>4. buf' = req[w].data[loc[w].i + 1]
        BY <1>5, <4>2
      <4>5. Len(moved'[w]) = loc[w].i + 1
        BY <2>1, <2>2, <4>2
      <4>6. ASSUME NEW j \in 1 .. Len(moved'[w]) PROVE j <= Len(req[w].data) /\ moved'[w][j] = req[w].data[j]
        <5>1. CASE j = loc[w].i + 1
          BY <2>1, <2>2, <4>2, <4>3, <4>4, <4>5, <5>1
        <5>2. CASE j # loc[w].i + 1
          <6>1. j \in 1 .. Len(moved[w])
            BY <4>2, <4>3, <4>5, <5>2
          <6>2. QED
            BY <2>1, <2>2, <4>2, <6>1
        <5>3. QED
          BY <5>1, <5>2
      <4>7. QED
        BY <1>1, <1>5, <3>1, <4>2, <4>5, <4>6 DEF Writes
    <3>5. QED
      BY <3>2, <3>3, <3>4 DEF Place
  <2>7. ASSUME NEW u \in Threads \ {w} PROVE Place(u)'
    <3>1. moved'[u] = moved[u]
      BY <1>4, <1>5
    <3>2. QED
      BY <1>1, <1>4, <3>1, Frame DEF IInv
  <2>8. QED
    BY <2>4, <2>5, <2>6, <2>7 DEF IInv
<1>6. CASE stat' = "LHD_MEDIA" /\ UNCHANGED <<disk, buf, moved>>
  <2>1. Types'
    BY <1>1, <1>3, <1>6, SMTT(20) DEF Types, driver
  <2>2. Device' /\ Completion'
    BY <1>1, <1>2, <1>3, <1>6 DEF IInv, Device, Completion, Busy, driver
  <2>3. Place(w)'
    <3>1. ~Got(w)'
      BY SMTT(30), <1>1, <1>2, <1>3, <1>6 DEF Got, driver
    <3>2. QED
      BY <1>1, <1>2, <1>3, <1>6, <3>1 DEF Place, Bounds, Reads, Writes, Idles, Busy
  <2>4. ASSUME NEW u \in Threads \ {w} PROVE Place(u)'
    BY <1>1, <1>4, <1>6, Frame DEF IInv
  <2>5. QED
    BY <2>1, <2>2, <2>3, <2>4 DEF IInv
<1>7. QED
  BY <1>5, <1>6 DEF Disk

\* The interrupt passes on what the disk said.
LEMMA IrqKeeps ==
  ASSUME Sizes, IInv, lhd_irq
  PROVE  IInv'
<1>1. /\ stat \in {"LHD_OK", "LHD_MEDIA"} /\ stat' = "idle"
      /\ lh_result' = IF stat = "LHD_OK" THEN "0" ELSE "EIO"
      /\ lh_done' = lh_done + 1
      /\ UNCHANGED <<disk, buf, reg, lh_clear, pc, req, uio, loc, tries, moved, errors>>
  BY DEF lhd_irq
<1>2. PICK w \in Threads : pc[w] = "wait"
  BY <1>1 DEF IInv, Completion
<1>3. Types /\ Place(w) /\ lh_done = 0 /\ lh_done' = 1
  BY <1>1 DEF IInv, Completion
<1>4. \A u \in Threads \ {w} : pc[u] \notin {"wait", "finish"}
  BY <1>2, OneWaits
<1>5. Types'
  BY <1>1, <1>3, SMTT(20) DEF Types
<1>6. Device' /\ Completion'
  BY <1>1, <1>2, <1>3 DEF IInv, Device, Completion, Busy
<1>7. Place(w)'
  <2>1. Got(w)' <=> Got(w)
    BY <1>1, <1>2, <1>3 DEF Got
  <2>2. QED
    BY <1>1, <1>2, <1>3, <2>1 DEF Place, Bounds, Reads, Writes, Idles, Busy
<1>8. ASSUME NEW u \in Threads \ {w} PROVE Place(u)'
  BY <1>1, <1>4, Frame DEF IInv
<1>9. QED
  BY <1>5, <1>6, <1>7, <1>8 DEF IInv

\* The thread that waits has the completion to itself.
LEMMA DoneKeeps ==
  ASSUME Sizes, IInv, NEW t \in Threads, P_done(t)
  PROVE  IInv'
<1>1. /\ pc[t] = "wait" /\ pc' = [pc EXCEPT ![t] = "finish"]
      /\ lh_done > 0 /\ lh_done' = lh_done - 1
      /\ UNCHANGED <<hardware, lh_clear, lh_result, req, uio, loc, tries, moved, errors>>
  BY DEF P_done, Goto
<1>2. Types /\ Place(t) /\ lh_done = 1 /\ lh_done' = 0 /\ stat = "idle"
  <2>1. Types /\ Completion /\ Place(t)
    BY DEF IInv
  <2>2. lh_done \in 0 .. 1
    BY <2>1 DEF Types
  <2>3. lh_done = 1 /\ lh_done' = 0
    BY <1>1, <2>2
  <2>4. QED
    BY <2>1, <2>3 DEF Completion
<1>3. Busy(t) /\ \A u \in Threads \ {t} : ~Busy(u) /\ pc[u] \notin {"wait", "finish"}
  BY SMTT(30), <1>1, OneWaits
<1>4. Types'
  BY <1>1, <1>2, SMTT(20) DEF Types, hardware
<1>5. Device'
  BY <1>1, <1>2, <1>3, Zenon DEF IInv, Types, Device, Busy
<1>6. Completion'
  BY <1>1, <1>2, <1>3 DEF Types, Completion, hardware
<1>7. Place(t)'
  <2>1. /\ pc'[t] = "finish" /\ req'[t] = req[t] /\ uio'[t] = uio[t] /\ moved'[t] = moved[t] /\ loc'[t] = loc[t]
        /\ buf' = buf
    BY <1>1, <1>2 DEF Types, hardware
  <2>2. Got(t)' <=> Got(t)
    BY <1>1, <1>2, <2>1 DEF Got
  <2>3. QED
    BY <1>1, <1>2, <2>1, <2>2, Zenon DEF Place, Bounds, Reads, Writes, Idles, Busy
<1>8. ASSUME NEW u \in Threads \ {t} PROVE Place(u)'
  BY <1>1, <1>2, <1>3, Frame DEF IInv, Types, hardware
<1>9. QED
  BY <1>4, <1>5, <1>6, <1>7, <1>8 DEF IInv

\* After the operation: a reader gets the sector that is in the buffer, and the
\* device is free again.
LEMMA FinishKeeps ==
  ASSUME Sizes, IInv, NEW t \in Threads, Finish(t)
  PROVE  IInv'
<1> DEFINE reading == lh_result = "0" /\ ~req[t].write
<1>1. PICK result \in {lh_result} \cup (IF reading THEN {"EFAULT"} ELSE {}) :
        /\ uio' = IF reading /\ result = "0" THEN [uiomove(t, uio) EXCEPT ![t].got = Append(@, buf)] ELSE uio
        /\ loc' = [loc EXCEPT ![t].result = result, ![t].i = @ + 1]
        /\ pc' = [pc EXCEPT ![t] = IF result = "0" THEN "loop" ELSE "return"]
  BY Zenon DEF Finish, Goto
<1>2. /\ pc[t] = "finish" /\ lh_clear' = lh_clear + 1
      /\ UNCHANGED <<hardware, lh_done, lh_result, req, tries, moved, errors>>
  BY DEF Finish
<1>3. Types /\ Place(t) /\ Busy(t)
  BY <1>2 DEF IInv, Busy
<1>4. lh_clear = 0 /\ lh_clear' = 1 /\ \A u \in Threads \ {t} : ~Busy(u)
  BY <1>2, <1>3, Alone
<1>5. result \in {"0", "EIO", "EFAULT"} /\ (result = "EFAULT" => reading) /\ (result # "EFAULT" => result = lh_result)
  BY <1>3 DEF Types
<1>6. /\ loc[t].i \in Nat /\ loc[t].len \in Nat /\ loc[t].i < loc[t].len
      /\ uio[t].resid \in Nat /\ uio[t].sector \in Nat /\ uio[t].got \in Seq(Values)
      /\ uio[t].resid <= NSect /\ req[t].write \in BOOLEAN /\ Len(req[t].data) \in Nat /\ buf \in Values
  BY SMTT(30), <1>2, <1>3 DEF Types, Place, Bounds, Sizes
<1>7. /\ loc'[t].i = loc[t].i + 1 /\ loc'[t].result = result
      /\ loc'[t].len = loc[t].len /\ loc'[t].sector = loc[t].sector
      /\ pc'[t] = IF result = "0" THEN "loop" ELSE "return"
      /\ \A u \in Threads \ {t} : loc'[u] = loc[u] /\ pc'[u] = pc[u]
      /\ loc' \in [Threads -> [sector : Nat, len : 0 .. NSect, i : Nat, result : {"0", "EIO", "EINVAL", "EFAULT"}]]
      /\ pc' \in [Threads -> {"idle", "lhd_io", "loop", "start", "wait", "finish", "return"}]
  <2>1. loc \in [Threads -> [sector : Nat, len : 0 .. NSect, i : Nat, result : {"0", "EIO", "EINVAL", "EFAULT"}]]
    BY <1>3 DEF Types
  <2>2. pc \in [Threads -> {"idle", "lhd_io", "loop", "start", "wait", "finish", "return"}]
    BY <1>3 DEF Types
  <2>3. loc' = [loc EXCEPT ![t] = [sector |-> loc[t].sector, len |-> loc[t].len, i |-> loc[t].i + 1,
                                   result |-> result]]
    BY <1>1, <2>1
  <2>4. loc[t].i + 1 \in Nat
    BY <1>6
  <2>5. pc' \in [Threads -> {"idle", "lhd_io", "loop", "start", "wait", "finish", "return"}]
    BY <1>1, <2>2
  <2>6. loc' \in [Threads -> [sector : Nat, len : 0 .. NSect, i : Nat, result : {"0", "EIO", "EINVAL", "EFAULT"}]]
    BY <1>5, <2>1, <2>3, <2>4
  <2>7. pc'[t] = IF result = "0" THEN "loop" ELSE "return"
    BY SMTT(30), <1>1, <2>2
  <2>8. QED
    BY <1>1, <2>1, <2>2, <2>3, <2>5, <2>6, <2>7
<1>8. /\ reading /\ result = "0" => uio'[t].resid = uio[t].resid - 1 /\ uio'[t].got = Append(uio[t].got, buf)
      /\ ~(reading /\ result = "0") => uio' = uio
      /\ \A u \in Threads \ {t} : uio'[u] = uio[u]
      /\ uio' \in [Threads -> [sector : Nat, resid : 0 .. NSect, got : Seq(Values)]]
  <2>1. uio \in [Threads -> [sector : Nat, resid : 0 .. NSect, got : Seq(Values)]]
    BY <1>3 DEF Types
  <2>2. CASE reading /\ result = "0"
    <3>1. uio[t].resid - 1 \in 0 .. NSect /\ uio[t].sector + 1 \in Nat
      <4>1. uio[t].resid + loc[t].i = loc[t].len
        BY <1>2, <1>3, <1>6, <2>2 DEF Place, Bounds
      <4>2. QED
        BY <1>6, <4>1, SMTT(20) DEF Sizes
    <3>2. Append(uio[t].got, buf) \in Seq(Values)
      BY <1>6
    <3>3. uio' = [uio EXCEPT ![t] = [sector |-> uio[t].sector + 1, resid |-> uio[t].resid - 1,
                                     got |-> Append(uio[t].got, buf)]]
      BY <1>1, <2>1, <2>2 DEF uiomove
    <3>4. QED
      BY <2>1, <2>2, <3>1, <3>2, <3>3
  <2>3. CASE ~(reading /\ result = "0")
    BY <1>1, <2>1, <2>3
  <2>4. QED
    BY <2>2, <2>3
<1>9. Types'
  <2>1. lh_clear' \in 0 .. 1
    BY <1>4
  <2>2. /\ disk' = disk /\ buf' = buf /\ stat' = stat /\ reg' = reg /\ lh_done' = lh_done
        /\ lh_result' = lh_result /\ req' = req /\ tries' = tries /\ moved' = moved
    BY <1>2 DEF hardware
  <2>3. QED
    BY <1>3, <1>7, <1>8, <2>1, <2>2, Zenon DEF Types
<1>10. Device'
  BY <1>4, <1>7 DEF Device, Busy
<1>11. Completion'
  <2>1. \A u \in Threads : pc[u] # "wait"
    BY <1>2, <1>4 DEF Busy
  <2>2. \A u \in Threads : pc'[u] # "wait"
    BY <1>7, <2>1
  <2>3. QED
    BY <1>2, <1>3, <2>1, <2>2, Zenon DEF IInv, Types, Completion, hardware
<1>12. Place(t)'
  <2>1. req'[t] = req[t] /\ moved'[t] = moved[t] /\ ~Got(t)' /\ pc'[t] \in {"loop", "return"}
    BY <1>2, <1>7 DEF Got
  <2>2. Got(t) <=> lh_result = "0"
    BY SMTT(30), <1>2 DEF Got
  <2>3. uio[t].resid + loc[t].i + (IF req[t].write THEN 1 ELSE 0) = loc[t].len
    BY <1>2, <1>3 DEF Place, Bounds
  <2>4. loc[t].sector + loc[t].len <= NSect /\ uio[t].resid <= Len(req[t].data)
    BY <1>2, <1>3 DEF Place, Bounds
  <2>5. Bounds(t)'
    <3>1. uio'[t].resid \in Nat /\ uio'[t].resid <= uio[t].resid /\ (result = "0" => uio'[t].resid + loc[t].i + 1 = loc[t].len)
      <4>1. CASE reading /\ result = "0"
        BY SMTT(30), <1>6, <1>8, <2>3, <4>1
      <4>2. CASE ~reading /\ result = "0"
        BY <1>5, <1>6, <1>8, <2>3, <4>2
      <4>3. CASE result # "0"
        BY <1>6, <1>8, <4>3
      <4>4. QED
        BY <4>1, <4>2, <4>3
    <3>2. uio'[t].resid <= Len(req'[t].data) /\ loc'[t].i <= loc'[t].len
      BY SMTT(30), <1>6, <1>7, <2>1, <2>4, <3>1
    <3>3. CASE result = "0"
      <4>1. uio'[t].resid + loc'[t].i + 0 = loc'[t].len
        BY SMTT(30), <1>6, <1>7, <3>1, <3>3
      <4>2. pc'[t] = "loop" /\ loc'[t].sector + loc'[t].len <= NSect
        BY SMTT(30), <1>7, <2>4, <3>3
      <4>3. QED
        BY <3>2, <4>1, <4>2 DEF Bounds, Busy
    <3>4. CASE result # "0"
      <4>1. pc'[t] = "return" /\ loc'[t].result # "0"
        BY <1>7, <3>4
      <4>2. QED
        BY SMTT(30), <3>2, <4>1 DEF Bounds, Busy
    <3>5. QED
      BY <3>3, <3>4
  <2>6. Reads(t)'
    <3>1. SUFFICES ASSUME ~req[t].write PROVE Reads(t)'
      BY SMTT(30), <2>1 DEF Reads
    <3>2. /\ uio[t].resid + Len(uio[t].got) = Len(req[t].data)
          /\ lh_result = "0" => moved[t] = Append(uio[t].got, buf)
          /\ lh_result # "0" => moved[t] = uio[t].got
      BY <1>2, <1>3, <2>2, <3>1 DEF Place, Reads
    <3>3. CASE result = "0"
      <4>0. uio'[t].resid = uio[t].resid - 1
        BY <1>5, <1>8, <3>1, <3>3
      <4>1. reading /\ uio'[t].got = Append(uio[t].got, buf)
        BY SMTT(30), <1>5, <1>8, <3>1, <3>3
      <4>2. Len(uio'[t].got) = Len(uio[t].got) + 1 /\ Len(uio[t].got) \in Nat
        BY <1>6, <4>1
      <4>3. uio'[t].resid + Len(uio'[t].got) = Len(req'[t].data)
        <5>1. uio'[t].resid + Len(uio'[t].got) = uio[t].resid + Len(uio[t].got)
          <6>1. \A r, n \in Nat : r - 1 + (n + 1) = r + n
            OBVIOUS
          <6>2. uio[t].resid \in Nat
            BY <1>6
          <6>3. QED
            BY SMTT(30), <4>0, <4>2, <6>1, <6>2
        <5>2. QED
          BY <2>1, <3>2, <5>1
      <4>4. moved'[t] = uio'[t].got
        BY <2>1, <3>2, <4>1
      <4>5. QED
        BY <2>1, <4>3, <4>4 DEF Reads
    <3>4. CASE result # "0"
      <4>1. uio' = uio /\ pc'[t] = "return"
        BY <1>7, <1>8, <3>4
      <4>2. result = "EFAULT" \/ moved[t] = uio[t].got
        BY SMTT(30), <1>5, <3>2, <3>4
      <4>3. QED
        BY SMTT(30), <1>7, <2>1, <3>2, <4>1, <4>2 DEF Reads
    <3>5. QED
      BY <3>3, <3>4
  <2>7. Writes(t)'
    <3>1. SUFFICES ASSUME req[t].write, ~req[t].sfs PROVE Writes(t)'
      BY <2>1, SMTT(20) DEF Writes
    <3>2. /\ loc[t].len = Len(req[t].data)
          /\ lh_result = "0" => Len(moved[t]) = loc[t].i + 1
          /\ \A j \in 1 .. Len(moved[t]) : j <= Len(req[t].data) /\ moved[t][j] = req[t].data[j]
      BY <1>2, <1>3, <2>2, <3>1 DEF Place, Writes
    <3>3. result = lh_result
      BY SMTT(30), <1>5, <3>1
    <3>4. QED
      BY SMTT(30), <1>7, <2>1, <3>2, <3>3 DEF Writes
  <2>8. Idles(t)'
    BY <2>1 DEF Idles
  <2>9. QED
    BY <2>5, <2>6, <2>7, <2>8 DEF Place
<1>13. ASSUME NEW u \in Threads \ {t} PROVE Place(u)'
  BY <1>2, <1>4, <1>7, <1>8, Frame, Zenon DEF IInv, Busy, hardware
<1>14. QED
  BY <1>9, <1>10, <1>11, <1>12, <1>13 DEF IInv

-----------------------------------------------------------------------------
\* Every step of a thread, the disk and its interrupt keeps the invariant.
LEMMA NextKeeps ==
  ASSUME Sizes, IInv, [Next]_vars
  PROVE  IInv'
<1>1. CASE UNCHANGED vars
  <2>1. /\ UNCHANGED <<disk, buf, stat, reg, lh_clear, lh_done, lh_result>>
        /\ UNCHANGED <<pc, req, uio, loc, tries, moved>>
    BY SMTT(30), <1>1 DEF vars, hardware, driver
  <2>2. Types' /\ Device' /\ Completion'
    BY Zenon, <2>1 DEF IInv, Types, Device, Completion, Busy
  <2>3. ASSUME NEW t \in Threads PROVE Place(t)'
    <3>1. Got(t)' <=> Got(t)
      BY <2>1 DEF Got
    <3>2. QED
      BY <2>1, <3>1, Zenon DEF IInv, Place, Bounds, Reads, Writes, Idles, Busy
  <2>4. QED
    BY <2>2, <2>3 DEF IInv
<1>2. ASSUME NEW t \in Threads, Call(t) \/ Step(t) PROVE IInv'
  BY <1>2, CallKeeps, EnterKeeps, ClearKeeps, StartKeeps, StartFailsKeeps, DoneKeeps, FinishKeeps, EndLoopKeeps,
     RetryKeeps, ReturnKeeps DEF Step
<1>3. QED
  BY <1>1, <1>2, DiskKeeps, IrqKeeps DEF Next

\* One thread at a time has the disk, every operation has exactly one completion,
\* and a request that returns success has had all its sectors transferred (lhd_io,
\* lhd_irq; sfs_rwblock for reads), whatever the number of threads and sectors.
THEOREM ServedAlways ==
  ASSUME Sizes
  PROVE  Spec => []Served
<1>1. Init => IInv
  BY InitHolds
<1>2. IInv /\ [Next]_vars => IInv'
  BY NextKeeps
<1>3. IInv => Served
  BY Enough
<1>4. QED
  BY <1>1, <1>2, <1>3, PTL DEF Spec
=============================================================================
