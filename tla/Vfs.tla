-------------------------------- MODULE Vfs --------------------------------
(***************************************************************************)
(* The VFS layer (kern/vfs): the table of known devices and what is        *)
(* mounted on them, pathname translation, the reference counts of vnodes,  *)
(* current directories and the boot filesystem; with the commands of the   *)
(* kernel menu that change them (kern/main/menu.c), the booting and the    *)
(* shutting down of the system (main.c), and the mounting and unmounting   *)
(* of SFS (sfs_fsops.c).  One thread runs the menu and others run          *)
(* programs, each in a process of its own.                                 *)
(*                                                                         *)
(* What is done under vfs_biglock is one step; between two such steps the  *)
(* other threads run.  A pathname is a sequence of the tokens ":" and "/"  *)
(* and of names.  A volume has a root directory and one file.              *)
(***************************************************************************)
EXTENDS Naturals, Sequences, FiniteSets, SequencesExt

CONSTANTS Programs, None,
          Config,       \* the devices of the machine, in the order they are probed
          Paths,        \* the pathnames threads use
          MaxFailures   \* bound on the I/O errors of FSOP_SYNC

Menu == "menu"
Threads == {Menu} \cup Programs

VARIABLES knowndevs,    \* kd_name, kd_rawname, kd_fs
          refs,         \* vn_refcount, 0 for a vnode that is not in memory
          bootfs,       \* bootfs_vnode
          cwd, alive,   \* p_cwd of each thread's process; processes that exist
          pc, loc,      \* each thread's place, and the vnodes its call has in hand
          opened,       \* the file a thread has open
          drops,        \* references a thread has still to give up, in order
          swap,         \* vnodes vfs_swapon has handed to the VM system
          dirty,        \* volumes whose superblock or freemap is not on disk
          failures, probed, phase

vars == <<knowndevs, refs, bootfs, cwd, alive, pc, loc, opened, drops, swap, dirty, failures, probed, phase>>

Kinds == {"dev", "root", "file"}
Vnodes == Kinds \X {Config[i].name : i \in DOMAIN Config}
IsDir(v) == v[1] = "root"
Fs(v) == IF v[1] = "dev" THEN None ELSE v[2]

NoLoc == [a |-> None, b |-> None, reclaim |-> FALSE]

Init ==
  /\ knowndevs = <<>>
  /\ refs = [v \in Vnodes |-> 0]
  /\ bootfs = None
  /\ cwd = [t \in Threads |-> None] /\ alive = {Menu}
  /\ pc = [t \in Threads |-> "idle"]
  /\ loc = [t \in Threads |-> NoLoc]
  /\ opened = [t \in Threads |-> None]
  /\ drops = [t \in Threads |-> <<>>]
  /\ swap = {} /\ dirty = {} /\ failures = 0 /\ probed = 0 /\ phase = "probe"

Goto(t, l) == pc' = [pc EXCEPT ![t] = l]

\* VOP_INCREF, and VOP_DECREF by a thread that holds vfs_biglock: at zero the
\* vnode is reclaimed at once.
Incref(r, v) == [r EXCEPT ![v] = @ + 1]
Decref(r, v) == IF v = None THEN r ELSE [r EXCEPT ![v] = @ - 1]

-----------------------------------------------------------------------------
\* The device table.

Kd(name) == {i \in DOMAIN knowndevs : knowndevs[i].name = name}
volname(kd) == IF kd.fs = "fs" THEN kd.vol ELSE None
Mounted(name) == \E i \in Kd(name) : knowndevs[i].fs = "fs"

\* badnames: a name of the new device is already a name of a device or a volume.
badnames(names) ==
  \E i \in DOMAIN knowndevs :
    {knowndevs[i].name, knowndevs[i].rawname, volname(knowndevs[i])} \cap (names \ {None}) # {}

\* vfs_doadd, as vfs_adddev for a device and vfs_addfs for emufs; when a name is
\* taken the device is left out, and all that was made for it is undone.
vfs_doadd(c) ==
  LET kd == [name |-> c.name, rawname |-> c.rawname, vol |-> c.vol,
             fs |-> IF c.kind = "fs" THEN "fs" ELSE "none"]
  IN  \/ /\ ~badnames({kd.name, kd.rawname, volname(kd)})
         /\ knowndevs' = Append(knowndevs, kd)
         /\ refs' = [refs EXCEPT ![<<"dev", c.name>>] = 1,
                                 ![<<"root", c.name>>] = IF c.kind = "fs" THEN 1 ELSE 0]
      \/ /\ badnames({kd.name, kd.rawname, volname(kd)})
         /\ UNCHANGED <<knowndevs, refs>>

\* The machine is probed, device after device.
Attach ==
  /\ phase = "probe" /\ probed < Len(Config)
  /\ probed' = probed + 1
  /\ vfs_doadd(Config[probed'])
  /\ UNCHANGED <<bootfs, cwd, alive, pc, loc, opened, drops, swap, dirty, failures, phase>>

\* vfs_getroot: the first device, in the order of the table, that has the name
\* or whose volume has it.
vfs_getroot(name) ==
  LET names(kd) == {kd.name, kd.rawname, volname(kd)}
      i == CHOOSE i \in DOMAIN knowndevs :
             /\ name \in names(knowndevs[i])
             /\ \A j \in 1 .. i - 1 : name \notin names(knowndevs[j])
      kd == knowndevs[i]
  IN  IF ~\E j \in DOMAIN knowndevs : name \in names(knowndevs[j]) THEN [err |-> "ENODEV", vn |-> None]
      ELSE IF kd.fs = "fs" /\ name # kd.rawname THEN [err |-> "0", vn |-> <<"root", kd.name>>]
      ELSE IF kd.rawname # None /\ name = kd.name THEN [err |-> "ENXIO", vn |-> None]
      ELSE [err |-> "0", vn |-> <<"dev", kd.name>>]

-----------------------------------------------------------------------------
\* Pathname translation, for a thread whose current directory is dir.

SkipSlashes(s) ==
  LET n == CHOOSE n \in 0 .. Len(s) : /\ \A i \in 1 .. n : s[i] = "/"
                                      /\ n < Len(s) => s[n + 1] # "/"
  IN  SubSeq(s, n + 1, Len(s))

\* getdevice: where the translation begins, and the rest of the path.
getdevice(dir, path) ==
  LET marks == {i \in DOMAIN path : path[i] \in {":", "/"}}
      first == CHOOSE i \in marks : \A j \in marks : i <= j
      from(r, p) == [err |-> r.err, vn |-> r.vn, sub |-> p]
      curdir == IF dir = None THEN [err |-> "ENOENT", vn |-> None] ELSE [err |-> "0", vn |-> dir]
      rest == SkipSlashes(SubSeq(path, first + 1, Len(path)))
  IN  CASE path = <<>> -> [err |-> "EINVAL", vn |-> None, sub |-> <<>>]
        [] path # <<>> /\ (marks = {} \/ (path[first] = "/" /\ first > 1)) -> from(curdir, path)
        [] marks # {} /\ path[first] = ":" /\ first > 1 -> from(vfs_getroot(path[1]), rest)
        [] marks # {} /\ path[first] = "/" /\ first = 1 ->
             from(IF bootfs = None THEN [err |-> "ENOENT", vn |-> None] ELSE [err |-> "0", vn |-> bootfs], rest)
        [] marks # {} /\ path[first] = ":" /\ first = 1 ->
             from(IF dir = None THEN curdir ELSE [err |-> "0", vn |-> <<"root", Fs(dir)>>], rest)

\* VOP_LOOKUP and VOP_LOOKPARENT: what each kind of vnode may answer.
VOP_LOOKUP(v) ==
  CASE v[1] = "root" -> {[err |-> "0", vn |-> <<"file", v[2]>>], [err |-> "ENOENT", vn |-> None]}
    [] v[1] = "file" -> {[err |-> "ENOTDIR", vn |-> None]}
    [] v[1] = "dev"  -> {[err |-> "ENOENT", vn |-> None]}
VOP_LOOKPARENT(v) == {IF IsDir(v) THEN [err |-> "0", vn |-> v] ELSE [err |-> "ENOTDIR", vn |-> None]}

Failed(e) == [err |-> e, vn |-> None, refs |-> refs]

\* Mutant: vfs_lookup keeps its reference to where the translation began.
Lookup_leak(dir, path, parent) ==
  LET d == getdevice(dir, path)
      answers == IF parent THEN VOP_LOOKPARENT(d.vn) ELSE VOP_LOOKUP(d.vn)
  IN  IF d.err # "0" THEN {Failed(d.err)}
      ELSE IF d.sub = <<>>
      THEN {IF parent THEN Failed("EINVAL") ELSE [err |-> "0", vn |-> d.vn, refs |-> Incref(refs, d.vn)]}
      ELSE {IF a.err # "0" THEN Failed(a.err)
            ELSE [err |-> "0", vn |-> a.vn, refs |-> Incref(Incref(refs, d.vn), a.vn)] : a \in answers}

\* vfs_lookup, or vfs_lookparent when parent is set, under vfs_biglock: what may
\* come of it, with the reference counts after it.
Lookup(dir, path, parent) ==
  LET d == getdevice(dir, path)
      answers == IF parent THEN VOP_LOOKPARENT(d.vn) ELSE VOP_LOOKUP(d.vn)
  IN  IF d.err # "0" THEN {Failed(d.err)}
      ELSE IF d.sub = <<>>
      THEN {IF parent THEN Failed("EINVAL") ELSE [err |-> "0", vn |-> d.vn, refs |-> Incref(refs, d.vn)]}
      ELSE {IF a.err # "0" THEN Failed(a.err)
            ELSE [err |-> "0", vn |-> a.vn, refs |-> Decref(Incref(Incref(refs, d.vn), a.vn), d.vn)] : a \in answers}

-----------------------------------------------------------------------------
\* Calls that name a file.  The first vfs_lookup or vfs_lookparent; then, with
\* vfs_biglock released, the rest.

ParentOps == {"creat", "change", "rename"}
LookupOps == {"chdir", "open", "readlink", "link"}

Ready(t) == phase = "up" /\ t \in alive /\ pc[t] = "idle" /\ drops[t] = <<>>
table == <<knowndevs, bootfs, alive, swap, failures, probed, phase>>

Call(t) ==
  /\ Ready(t)
  /\ \E op \in ParentOps \cup LookupOps, p \in Paths :
       /\ op \in {"creat", "open"} => opened[t] = None
       /\ \E r \in Lookup(cwd[t], p, op \in ParentOps) :
            /\ refs' = r.refs
            /\ IF r.err = "0" THEN /\ loc' = [loc EXCEPT ![t] = [NoLoc EXCEPT !.a = r.vn]]
                                   /\ Goto(t, op)
               ELSE UNCHANGED <<loc, pc>>
  /\ UNCHANGED <<table, cwd, opened, drops, dirty>>

\* The call gives up vs, in this order, and returns.
Finish(t, vs) ==
  /\ drops' = [drops EXCEPT ![t] = SelectSeq(vs, LAMBDA v : v # None)]
  /\ loc' = [loc EXCEPT ![t] = NoLoc]
  /\ Goto(t, "idle")

\* vfs_chdir and vfs_setcurdir.
vfs_setcurdir(t) ==
  /\ pc[t] = "chdir"
  /\ IF IsDir(loc[t].a)
     THEN /\ refs' = Incref(refs, loc[t].a)
          /\ cwd' = [cwd EXCEPT ![t] = loc[t].a]
          /\ Finish(t, <<cwd[t], loc[t].a>>)
     ELSE Finish(t, <<loc[t].a>>) /\ UNCHANGED <<refs, cwd>>
  /\ UNCHANGED <<table, opened, dirty>>

\* A change to a volume: its superblock or freemap has to be written again.
Touch(v) == dirty' \in {dirty, dirty \cup {c.name : c \in {c \in ToSet(Config) : c.kind = "disk" /\ c.name = Fs(v)}}}

\* VOP_CREAT; VOP_DECREF of the directory comes next, then the rest of vfs_open.
VOP_CREAT(t) ==
  /\ pc[t] = "creat"
  /\ LET v == <<"file", Fs(loc[t].a)>>
     IN  \/ /\ refs' = Incref(refs, v) /\ Touch(v)
            /\ drops' = [drops EXCEPT ![t] = <<loc[t].a>>]
            /\ loc' = [loc EXCEPT ![t].a = v]
            /\ Goto(t, "open")
         \/ /\ Finish(t, <<loc[t].a>>)
            /\ UNCHANGED <<refs, dirty>>
  /\ UNCHANGED <<table, cwd, opened>>

\* VOP_EACHOPEN and, with O_TRUNC, VOP_TRUNCATE.
vfs_open(t) ==
  /\ pc[t] = "open" /\ drops[t] = <<>>
  /\ \/ /\ opened' = [opened EXCEPT ![t] = loc[t].a]
        /\ Touch(loc[t].a)
        /\ Finish(t, <<>>)
     \/ /\ Finish(t, <<loc[t].a>>)
        /\ UNCHANGED <<opened, dirty>>
  /\ UNCHANGED <<table, refs, cwd>>

vfs_close(t) ==
  /\ Ready(t) /\ opened[t] # None
  /\ opened' = [opened EXCEPT ![t] = None]
  /\ Finish(t, <<opened[t]>>)
  /\ UNCHANGED <<table, refs, cwd, dirty>>

\* vfs_remove, vfs_symlink, vfs_mkdir, vfs_rmdir and vfs_readlink, whether or not
\* the operation succeeds.
OnePath(t) ==
  /\ pc[t] \in {"change", "readlink"}
  /\ IF pc[t] = "change" THEN Touch(loc[t].a) ELSE UNCHANGED dirty
  /\ Finish(t, <<loc[t].a>>)
  /\ UNCHANGED <<table, refs, cwd, opened>>

\* vfs_link and vfs_rename: the second path must be on the same volume.
SecondPath(t) ==
  /\ pc[t] \in {"link", "rename"} /\ loc[t].b = None
  /\ \E p \in Paths : \E r \in Lookup(cwd[t], p, TRUE) :
       /\ refs' = r.refs
       /\ IF r.err # "0" THEN Finish(t, <<loc[t].a>>)
          ELSE IF Fs(loc[t].a) = None \/ Fs(loc[t].a) # Fs(r.vn) THEN Finish(t, <<r.vn, loc[t].a>>)
          ELSE loc' = [loc EXCEPT ![t].b = r.vn] /\ UNCHANGED <<pc, drops>>
  /\ UNCHANGED <<table, cwd, opened, dirty>>

TwoPaths(t) ==
  /\ pc[t] \in {"link", "rename"} /\ loc[t].b # None
  /\ Touch(loc[t].a)
  /\ Finish(t, <<loc[t].b, loc[t].a>>)
  /\ UNCHANGED <<table, refs, cwd, opened>>

\* vfs_getcwd: vfs_getcurdir, and then the name of the volume or, if it has none,
\* of its device.
vfs_getcurdir(t) ==
  /\ Ready(t) /\ cwd[t] # None
  /\ refs' = Incref(refs, cwd[t])
  /\ loc' = [loc EXCEPT ![t].a = cwd[t]]
  /\ Goto(t, "getcwd")
  /\ UNCHANGED <<table, cwd, opened, drops, dirty>>

vfs_getcwd(t) ==
  /\ pc[t] = "getcwd"
  /\ Finish(t, <<loc[t].a>>)
  /\ UNCHANGED <<table, refs, cwd, opened, dirty>>

\* vnode_decref without vfs_biglock: the last reference is passed to VOP_RECLAIM,
\* which takes vfs_biglock and looks again.
vnode_decref(t) ==
  /\ drops[t] # <<>> /\ ~loc[t].reclaim
  /\ LET v == Head(drops[t])
     IN  IF refs[v] > 1
         THEN refs' = Decref(refs, v) /\ drops' = [drops EXCEPT ![t] = Tail(@)] /\ UNCHANGED loc
         ELSE loc' = [loc EXCEPT ![t].reclaim = TRUE] /\ UNCHANGED <<refs, drops>>
  /\ UNCHANGED <<table, cwd, pc, opened, dirty>>

VOP_RECLAIM(t) ==
  /\ drops[t] # <<>> /\ loc[t].reclaim
  /\ refs' = Decref(refs, Head(drops[t]))
  /\ drops' = [drops EXCEPT ![t] = Tail(@)]
  /\ loc' = [loc EXCEPT ![t].reclaim = FALSE]
  /\ UNCHANGED <<table, cwd, pc, opened, dirty>>

-----------------------------------------------------------------------------
\* Commands of the menu thread that change the table.

MenuReady == Ready(Menu)
quiet == <<cwd, alive, pc, loc, opened, drops, probed, phase>>

\* findmount: a mountable device of this name.
findmount(name) == {i \in Kd(name) : knowndevs[i].rawname # None}
SetFs(i, fs) == knowndevs' = [knowndevs EXCEPT ![i].fs = fs]

\* sfs_unmount refuses while a vnode of the volume is in memory.
Busy(name) == refs[<<"root", name>>] > 0 \/ refs[<<"file", name>>] > 0

\* vfs_mount with sfs_mount, which fails when the volume cannot be read or is not
\* an SFS volume.
vfs_mount ==
  /\ MenuReady
  /\ \E name \in {Config[n].name : n \in DOMAIN Config} : \E i \in findmount(name) :
       /\ knowndevs[i].fs = "none"
       /\ SetFs(i, "fs")
  /\ UNCHANGED <<quiet, refs, bootfs, swap, dirty, failures>>

\* vfs_unmount: FSOP_SYNC, which may fail, and then FSOP_UNMOUNT.
vfs_unmount ==
  /\ MenuReady
  /\ \E name \in {Config[n].name : n \in DOMAIN Config} : \E i \in findmount(name) :
       /\ knowndevs[i].fs = "fs"
       /\ \/ /\ IF Busy(name) THEN UNCHANGED knowndevs ELSE SetFs(i, "none")
             /\ dirty' = dirty \ {name} /\ UNCHANGED failures
          \/ /\ failures < MaxFailures /\ failures' = failures + 1
             /\ UNCHANGED <<knowndevs, dirty>>
  /\ UNCHANGED <<quiet, refs, bootfs, swap>>

vfs_swapon ==
  /\ MenuReady
  /\ \E name \in {Config[n].name : n \in DOMAIN Config} : \E i \in findmount(name) :
       /\ knowndevs[i].fs = "none" /\ <<"dev", name>> \notin swap
       /\ SetFs(i, "swap")
       /\ refs' = Incref(refs, <<"dev", name>>)
       /\ swap' = swap \cup {<<"dev", name>>}
  /\ UNCHANGED <<quiet, bootfs, dirty, failures>>

\* vfs_swapoff drops the placeholder; the VM system gives up the vnode.
vfs_swapoff ==
  /\ MenuReady
  /\ \E name \in {Config[n].name : n \in DOMAIN Config} : \E i \in findmount(name) :
       /\ knowndevs[i].fs = "swap"
       /\ SetFs(i, "none")
       /\ refs' = Decref(refs, <<"dev", name>>)
       /\ swap' = swap \ {<<"dev", name>>}
  /\ UNCHANGED <<quiet, bootfs, dirty, failures>>

\* vfs_sync: the volumes in bad fail, and nobody is told.
vfs_sync ==
  /\ MenuReady /\ dirty # {}
  /\ \E bad \in SUBSET dirty :
       /\ bad # {} => failures < MaxFailures
       /\ failures' = IF bad # {} THEN failures + 1 ELSE failures
       /\ dirty' = bad
  /\ UNCHANGED <<quiet, knowndevs, refs, bootfs, swap>>

\* vfs_setbootfs: change to the root of the volume, and take a second reference
\* to it.  A name with a colon is refused before any of this.
SetBootfs(name) ==
  LET r == vfs_getroot(name)
  IN  IF r.err = "0" /\ IsDir(r.vn)
      THEN /\ cwd' = [cwd EXCEPT ![Menu] = r.vn]
           /\ bootfs' = r.vn
           /\ refs' = Decref(Decref(Incref(Incref(refs, r.vn), r.vn), cwd[Menu]), bootfs)
      ELSE UNCHANGED <<cwd, bootfs, refs>>

vfs_setbootfs ==
  /\ MenuReady
  /\ \E name \in UNION {{c.name, c.vol} : c \in ToSet(Config)} \ {None} : SetBootfs(name)
  /\ UNCHANGED <<knowndevs, alive, pc, loc, opened, drops, swap, dirty, failures, probed, phase>>

boot ==
  /\ phase = "probe" /\ probed = Len(Config)
  /\ SetBootfs(Config[1].name)
  /\ phase' = "up"
  /\ UNCHANGED <<knowndevs, alive, pc, loc, opened, drops, swap, dirty, failures, probed>>

\* common_prog: proc_create_runprogram hands down the current directory; when
\* thread_fork fails, proc_destroy gives it up again.  Nothing destroys the
\* process of a program that has ended.
common_prog ==
  /\ MenuReady
  /\ \E p \in Programs \ alive :
       \/ /\ alive' = alive \cup {p}
          /\ cwd' = [cwd EXCEPT ![p] = cwd[Menu]]
          /\ refs' = IF cwd[Menu] = None THEN refs ELSE Incref(refs, cwd[Menu])
          /\ UNCHANGED drops
       \/ /\ cwd[Menu] # None
          /\ refs' = Incref(refs, cwd[Menu])
          /\ drops' = [drops EXCEPT ![Menu] = <<cwd[Menu]>>]
          /\ UNCHANGED <<alive, cwd>>
  /\ UNCHANGED <<knowndevs, bootfs, pc, loc, opened, swap, dirty, failures, probed, phase>>

-----------------------------------------------------------------------------
\* shutdown of main.c, step by step.

vfs_clearbootfs ==
  /\ MenuReady /\ opened[Menu] = None
  /\ refs' = Decref(refs, bootfs)
  /\ bootfs' = None
  /\ phase' = "clearcurdir"
  /\ UNCHANGED <<knowndevs, cwd, alive, pc, loc, opened, drops, swap, dirty, failures, probed>>

vfs_clearcurdir ==
  /\ phase = "clearcurdir"
  /\ cwd' = [cwd EXCEPT ![Menu] = None]
  /\ Finish(Menu, <<cwd[Menu]>>)
  /\ phase' = "unmountall"
  /\ UNCHANGED <<knowndevs, refs, bootfs, alive, opened, swap, dirty, failures, probed>>


\* vfs_unmountall: the volumes in lost could not be synced in two tries.
vfs_unmountall ==
  /\ phase = "unmountall" /\ drops[Menu] = <<>>
  /\ \E lost \in SUBSET {knowndevs[i].name : i \in {i \in DOMAIN knowndevs : knowndevs[i].fs = "fs" /\ knowndevs[i].rawname # None}} :
       /\ failures + Cardinality(lost) <= MaxFailures
       /\ failures' = failures + Cardinality(lost)
       /\ dirty' = dirty \cap lost
       /\ knowndevs' = [i \in DOMAIN knowndevs |->
            LET kd == knowndevs[i]
            IN  IF kd.rawname = None \/ (kd.fs = "fs" /\ (kd.name \in lost \/ Busy(kd.name))) THEN kd
                ELSE [kd EXCEPT !.fs = "none"]]
  /\ phase' = "down"
  /\ UNCHANGED <<refs, bootfs, cwd, alive, pc, loc, opened, drops, swap, probed>>

Program(t) ==
  \/ Call(t) \/ vfs_setcurdir(t) \/ VOP_CREAT(t) \/ vfs_open(t) \/ vfs_close(t) \/ OnePath(t)
  \/ SecondPath(t) \/ TwoPaths(t) \/ vfs_getcurdir(t) \/ vfs_getcwd(t) \/ vnode_decref(t) \/ VOP_RECLAIM(t)

Next ==
  \/ Attach \/ boot
  \/ vfs_mount \/ vfs_unmount \/ vfs_swapon \/ vfs_swapoff \/ vfs_sync \/ vfs_setbootfs \/ common_prog
  \/ vfs_clearbootfs \/ vfs_clearcurdir \/ vfs_unmountall
  \/ phase # "down" /\ \E t \in Threads : Program(t)

Spec == Init /\ [][Next]_vars

-----------------------------------------------------------------------------
\* The references to a vnode there are: of the table and of emufs, of the boot
\* filesystem, of processes, of open files, of calls under way.
Count(t, v) ==
  (IF cwd[t] = v THEN 1 ELSE 0) + (IF opened[t] = v THEN 1 ELSE 0)
    + (IF loc[t].a = v THEN 1 ELSE 0) + (IF loc[t].b = v THEN 1 ELSE 0)
    + Cardinality({i \in DOMAIN drops[t] : drops[t][i] = v})

References(v) ==
  (IF v[1] = "dev" /\ Kd(v[2]) # {} THEN 1 ELSE 0)
    + (IF v[1] = "root" /\ \E i \in Kd(v[2]) : knowndevs[i].fs = "fs" /\ knowndevs[i].rawname = None THEN 1 ELSE 0)
    + (IF bootfs = v THEN 1 ELSE 0) + (IF v \in swap THEN 1 ELSE 0)
    + FoldSet(LAMBDA t, n : n + Count(t, v), 0, Threads)

\* Type invariant; VnodesAccounted includes it.
TypeOK ==
  /\ refs \in [Vnodes -> 0 .. 20]
  /\ bootfs \in Vnodes \cup {None} /\ cwd \in [Threads -> Vnodes \cup {None}]
  /\ Len(knowndevs) <= Len(Config)

\* Every reference is counted once, whatever fails and whichever calls overlap,
\* and a vnode in memory belongs to a volume that is mounted: a current
\* directory, an open file, the boot filesystem or a call under way never
\* refers to a volume that has been unmounted.  So the volume of a current
\* directory always has a name for vfs_getcwd, and a root for ":path".
VnodesAccounted ==
  /\ TypeOK
  /\ \A v \in Vnodes : refs[v] = References(v)
  /\ \A v \in Vnodes : refs[v] > 0 /\ Fs(v) # None => Mounted(Fs(v))
  /\ \A t \in Threads : cwd[t] # None => IsDir(cwd[t])

=============================================================================
