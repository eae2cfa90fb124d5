------------------------------ MODULE MCClient ------------------------------
(***************************************************************************)
(* The application's side of Oxbow for TLC: the shim, LibFS, the write and *)
(* fsync path and the slab allocator.  A behaviour runs one of the four    *)
(* components, chosen at the start; the others stay where they are.        *)
(***************************************************************************)
EXTENDS Slab, TLC

CONSTANTS t1, t2, a, b, c1, c2, c3, Off

VARIABLES part,
          \* LibFS (its pc is lpc)
          ns, kind, kfd, hash, li, files, keys, notes, seg, table, free, gc, script, lpc, loc, mine,
          \* WritePath
          alc, grp, dirty, plock, owner, shm, listed, ver, saved, work, cpc, at, journalled,
          queue, bounced, wpc, job, got, todo, byte,
          \* Shim
          call, route

-----------------------------------------------------------------------------
(* LibFS: descriptors and segments pass between the threads; names do not. *)

C(op)     == [op |-> op]
P(op, p)  == [op |-> op, path |-> p]
R(p, q)   == [op |-> "rename", path |-> p, to |-> q]
Two(x, y) == (t1 :> x) @@ (t2 :> y)

MCScripts == {
    Two(<<P("creat", a), C("write"), C("close"), P("unlink", a), P("creat", a), C("read"), C("close")>>,
        <<P("creat", b), C("write"), C("pwrite"), C("close")>>),
    Two(<<P("creat", a), C("close"), P("open", a), C("write"), C("seekset"), C("write"), C("pread")>>,
        <<P("creat", b), C("seekend"), C("close"), P("stat", b)>>),
    Two(<<P("creat", a), C("fsync"), C("close"), R(a, b), P("open", b), C("write"), P("creat", a), C("seekcur")>>, <<>>),
    Two(<<P("mkdir", a), P("open", a), C("fsync"), P("mkdir", a)>>,
        <<P("creat", b), R(a, a), C("close"), P("unlink", b), C("fsync"), P("stat", b)>>)}

L == INSTANCE LibFS WITH Paths <- {a, b}, MaxFd <- 2, MaxIno <- 3, MaxLi <- 4, MaxShm <- 2,
                         MaxSize <- 2, Scripts <- MCScripts, pc <- lpc
LibVars == <<ns, kind, kfd, hash, li, files, keys, notes, seg, table, free, gc, script, lpc, loc, mine>>
LibOff == /\ ns = Off /\ kind = Off /\ kfd = Off /\ hash = Off /\ li = Off /\ files = Off
          /\ keys = Off /\ notes = Off /\ seg = Off /\ table = Off /\ free = Off /\ gc = Off
          /\ script = Off /\ lpc = Off /\ loc = Off /\ mine = Off

-----------------------------------------------------------------------------
(* The write path: a write crosses into a group nobody touched before; two *)
(* writers and a fsync meet at a page; a writer returns after the commit   *)
(* cleared RUNNING_TX.                                                     *)

Write(x, y) == [op |-> "write", first |-> x, last |-> y]
Sync == [op |-> "fsync"]

MCStarts == {
    [alc |-> {0}, work |-> (c1 :> <<Write(1, 2), Sync>>) @@ (c2 :> <<Write(0, 1)>>)
                           @@ (c3 :> <<Sync>>)],
    [alc |-> {0}, work |-> (c1 :> <<Write(0, 0), Sync, Write(0, 0)>>)
                           @@ (c2 :> <<Sync, Sync>>) @@ (c3 :> <<>>)]}

W == INSTANCE WritePath WITH Callers <- {c1, c2, c3}, Workers <- {t1, t2}, Pages <- 3,
                             PerGroup <- 2, PerByte <- 1, Starts <- MCStarts
WriteVars == <<alc, grp, dirty, plock, owner, shm, listed, ver, saved, work, cpc, at, journalled,
               queue, bounced, wpc, job, got, todo, byte>>
WriteOff == /\ alc = Off /\ grp = Off /\ dirty = Off /\ plock = Off /\ owner = Off /\ shm = Off
            /\ listed = Off /\ ver = Off /\ saved = Off /\ work = Off /\ cpc = Off /\ at = Off
            /\ journalled = Off /\ queue = Off /\ bounced = Off /\ wpc = Off /\ job = Off
            /\ got = Off /\ todo = Off /\ byte = Off

-----------------------------------------------------------------------------
(* The shim: paths of up to four components. *)

H == INSTANCE Shim WITH FdStart <- 10, KernelFds <- {0, 3}, MaxDepth <- 4,
                        Components <- {"ox", "x", ".", "..", ""}
ShimOff == call = Off /\ route = Off

-----------------------------------------------------------------------------
MCInit ==
    /\ Init
    /\ \/ part = "libfs" /\ L!Init /\ WriteOff /\ ShimOff
       \/ part = "write" /\ W!Init /\ LibOff /\ ShimOff
       \/ part = "shim"  /\ H!ShimInit /\ LibOff /\ WriteOff
       \/ part = "slab"  /\ LibOff /\ WriteOff /\ ShimOff

LibStep(A)   == part = "libfs" /\ A /\ UNCHANGED <<part, WriteVars, call, route, vars>>
WriteStep(A) == part = "write" /\ A /\ UNCHANGED <<part, LibVars, call, route, vars>>
ShimStep(A)  == part = "shim" /\ A /\ UNCHANGED <<part, LibVars, WriteVars, vars>>
SlabStep(A)  == part = "slab" /\ A /\ UNCHANGED <<part, LibVars, WriteVars, call, route>>

MCNext == LibStep(L!Next) \/ WriteStep(W!Next) \/ ShimStep(H!Syscall) \/ SlabStep(Next)

MCVars == <<part, LibVars, WriteVars, call, route, vars>>

MCSpec ==
    /\ MCInit /\ [][MCNext]_MCVars
    /\ \A c \in {c1, c2, c3} : WF_MCVars(WriteStep(W!CallerStep(c)))
    /\ \A w \in {t1, t2} : WF_MCVars(WriteStep(W!WorkerStep(w)))
    /\ WF_MCVars(WriteStep(W!JournalStep))

-----------------------------------------------------------------------------
(* An open descriptor reaches its own file, through renames and unlinks    *)
(* (change_hash); no key of a segment is left for the next file with the   *)
(* same descriptor (close_daemon_file_key); the path cache names live      *)
(* inodes under their own paths.                                           *)
(* A call is taken over exactly when its path, with "." and ".." resolved, *)
(* is below the mount point, and one with a descriptor goes to the file    *)
(* system that gave it out (check_prefix, get_oxbow_fd).                   *)
CallsReachTheirFile ==
    /\ part = "libfs" => L!TypeOK /\ L!RightFile /\ L!NoStaleKey /\ L!CacheSound
    /\ part = "shim" => H!PrefixExact /\ H!FdHome

(* A page written since it was last copied out is found by the next gather *)
(* or is in one under way (gather_dirty_bits); a gathered page keeps its   *)
(* contents until it is copied; a lock bit that is set has an owner who    *)
(* will clear it; and fsyncs never occupy the whole pool of handlers,      *)
(* which a writer needs while it holds the lock every fsync wants.         *)
WritesTracked ==
    part = "write" =>
        W!TypeOK /\ W!DirtyTracked /\ W!StableCopy /\ W!LockOwned /\ W!SpareWorker

(* Every write of the clients returns.                                     *)
WritesReturn == []<>(part = "write" => \A c \in {c1, c2, c3} : cpc[c] \in {"idle", "sent"})
=============================================================================
