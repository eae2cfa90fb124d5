------------------------------ MODULE MCDaemon -------------------------------
(***************************************************************************)
(* What the Secure Daemon keeps of dirty data, for TLC: the background     *)
(* journal (HostJournal), the buffer heads (BufferCache) and the sync      *)
(* without a journal (DirectSync).  A behaviour is one of the three:       *)
(* HostJournal else stays in its initial state, and the variables of the   *)
(* others are Off.                                                         *)
(*                                                                         *)
(* The data fetchers, the inodes and the threads of HostJournal are        *)
(* interchangeable; the threads of BufferCache have scripts and are not.   *)
(***************************************************************************)
EXTENDS HostJournal, Sequences, TLC

CONSTANTS Parts,                           \* the parts to be checked
          u1, u2, Scripts,                 \* BufferCache
          NPages, MaxVecs, MaxWrites,      \* DirectSync
          Off

VARIABLES part,
          map, bh, list, lk, bth, io, todo, bdisk, want, logged,
          lba, pages, sdisk, dirty, locked, req, step, rc, ranges, i, start, cnt, be, bio,
          listed, handed, grown, inode, bufs, fsbufs

bvars == <<map, bh, list, lk, bth, io, todo, bdisk, want, logged>>
svars == <<lba, pages, sdisk, dirty, locked, req, step, rc, ranges, i, start, cnt, be, bio,
           listed, handed, grown, inode, bufs, fsbufs>>

\* A bitmap block, an extent block of a file and a block of a directory.
KindOf == <<"sb", "file", "dir">>

\* Two consecutive extents of the file, and two with a gap between them.
Lbas == {[p \in 0 .. 3 |-> l[p + 1]] : l \in {<<1, 2, 3, 4>>, <<1, 2, 4, 5>>}}

B == INSTANCE BufferCache WITH Threads <- {u1, u2}, Blks <- 1 .. 3, th <- bth, disk <- bdisk
S == INSTANCE DirectSync WITH mem <- pages, disk <- sdisk

Symmetry == Permutations(DF) \cup Permutations(Inodes) \cup Permutations(Threads)

Op(k, b) == [k |-> k, b |-> b]

\* Two threads that meet on a block of every kind, at its first use and later.
TwoThreads ==
    {u1 :> <<Op("create", b), Op("modify", b)>>
        @@ u2 :> <<Op("commit", b), Op("modify", b), Op("commit", b)>> : b \in 2 .. 3}
    \cup {u1 :> <<Op("read", b), Op("commit", b)>>
        @@ u2 :> <<Op("read", b), Op("modify", b)>> : b \in 2 .. 3}
    \cup {u1 :> <<Op("modify", 1), Op("modify", 1), Op("modify", 2)>>
        @@ u2 :> <<Op("modify", 2), Op("commit", 1), Op("modify", 1)>>,
          u1 :> <<Op("read", 1), Op("modify", 1), Op("commit", 1)>>
        @@ u2 :> <<Op("read", 1)>>}

\* One thread that modifies a bitmap block before and after a commit.
OneThread == {u1 :> <<Op("modify", 1), Op("commit", 1), Op("modify", 1)>> @@ u2 :> << >>}

BOff ==
    /\ map = Off /\ bh = Off /\ list = Off /\ lk = Off /\ bth = Off /\ io = Off
    /\ todo = Off /\ bdisk = Off /\ want = Off /\ logged = Off
SOff ==
    /\ lba = Off /\ pages = Off /\ sdisk = Off /\ dirty = Off /\ locked = Off /\ req = Off
    /\ step = Off /\ rc = Off /\ ranges = Off /\ i = Off /\ start = Off /\ cnt = Off
    /\ be = Off /\ bio = Off /\ listed = Off /\ handed = Off /\ grown = Off
    /\ inode = Off /\ bufs = Off /\ fsbufs = Off
MCInit ==
    /\ part \in Parts
    /\ Init
    /\ IF part = "buffers" THEN B!Init ELSE BOff
    /\ IF part = "sync" THEN S!Init ELSE SOff

Journal(A) == part = "journal" /\ A /\ UNCHANGED <<part, bvars, svars>>
Buffers(A) == part = "buffers" /\ A /\ UNCHANGED <<part, hvars, svars>>
Sync(A) == part = "sync" /\ A /\ UNCHANGED <<part, hvars, bvars>>

JournalNext ==
    \/ \E t \in Threads :
        \/ Journal(MarkDirty(t)) \/ Journal(Fsync(t)) \/ Journal(FsyncLock(t))
        \/ Journal(ReadFront(t)) \/ Journal(CheckState(t)) \/ Journal(AddFile(t))
        \/ Journal(SetDirty(t)) \/ Journal(EndJournal(t)) \/ Journal(Leave(t))
    \/ Journal(NewTransaction) \/ Journal(LockTx) \/ Journal(StartNext)
    \/ Journal(Snapshot) \/ Journal(BuildFile) \/ Journal(CutStage) \/ Journal(ClearDirty)
    \/ Journal(CopyData) \/ Journal(SnapshotInodes) \/ Journal(Discard)
    \/ Journal(SendRest) \/ Journal(RequestCommit)
    \/ \E o \in 1 .. nobj :
        \/ \E ok \in BOOLEAN : Journal(Response(o, ok))
        \/ Journal(FreeTransaction(o)) \/ Journal(SetMrc(o))
    \/ Journal(FetchError) \/ Journal(Stopped)

BuffersNext ==
    \/ \E t \in {u1, u2} :
        \/ Buffers(B!Start(t)) \/ Buffers(B!Lookup(t)) \/ Buffers(B!Insert(t))
        \/ Buffers(B!Got(t)) \/ Buffers(B!Bread(t)) \/ Buffers(B!SlowBread(t))
        \/ Buffers(B!Waited(t)) \/ Buffers(B!Use(t)) \/ Buffers(B!Fill(t))
        \/ Buffers(B!SetDirty(t)) \/ Buffers(B!Assoc(t)) \/ Buffers(B!Enlist(t))
        \/ \E to \in {<<"mark", "assoc">>, <<"remark", "end">>} :
             Buffers(B!MarkDirty(t, to[1], to[2])) \/ Buffers(B!MarkDirty2(t, to[1], to[2]))
        \/ Buffers(B!Release(t)) \/ Buffers(B!End(t)) \/ Buffers(B!GatherMeta(t))
        \/ Buffers(B!GatherFile(t)) \/ Buffers(B!GatherDir(t))
    \/ part = "buffers" /\ \E h \in DOMAIN bh : Buffers(B!EndIo(h))

SyncNext ==
    \/ \E ps \in SUBSET (0 .. NPages - 1) : ps # {} /\ Sync(S!Write(ps))
    \/ \E r \in {"fsync", "sync"} : Sync(S!Sync(r))
    \/ Sync(S!Gather) \/ Sync(S!SkipRange) \/ Sync(S!GetBlocks) \/ Sync(S!AddPage)
    \/ Sync(S!FinishData) \/ Sync(S!SyncInode) \/ Sync(S!SyncFsMetadata)

\* The threads' scripts end, and a sync that failed may leave the file locked.
MayStop == part \in {"buffers", "sync"} /\ UNCHANGED <<part, hvars, bvars, svars>>

MCNext == JournalNext \/ BuffersNext \/ SyncNext \/ MayStop

MCSpec == MCInit /\ [][MCNext]_<<part, hvars, bvars, svars>>

-----------------------------------------------------------------------------
(* Threads that miss a block at the same time get one buffer head for it   *)
(* (alloc_buffer), whoever gets a block sees what was last written to it,  *)
(* and what the journal does not have of an index or entry block is dirty  *)
(* and on the list that the next commit takes, or about to get there.      *)
BuffersCorrect ==
    part = "buffers" => B!TypeOK /\ B!OneBuffer /\ B!SeesLatest /\ B!Tracked

(* What the journal does not have of a bitmap or group descriptor block is *)
(* on the super block's list (mark_buffer_dirty_sb).                       *)
MetaTracked == part = "buffers" => B!MetaTracked

(* A sync of data without an error hands every page of the list to the     *)
(* device exactly once and in order; a bio that is kept has room           *)
(* (sync_file_data).                                                       *)
PagesHandedOnce == part = "sync" => S!TypeOK /\ S!HandedOnce
===============================================================================
