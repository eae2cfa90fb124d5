------------------------------ MODULE MCBlocks -------------------------------
(***************************************************************************)
(* The blocks of the file system, for TLC: block allocation and extent     *)
(* trees (Ext4Extent), the layout that mkfs writes (Mkfs), the block cache *)
(* of mkfs (Bcache) and the write-ahead log of lwext4 (Jbd).  A behaviour  *)
(* is one of the four: Ext4Extent else stays in its initial state, and the *)
(* variables of the others are Off.                                        *)
(***************************************************************************)
EXTENDS Ext4Extent

CONSTANTS Parts,                              \* the parts to be checked
          RootIno, FirstIno,                  \* Mkfs
          Lbas, Marked, Cnt, MaxVal, MaxRef,  \* Bcache
          First, LogEnd, TagMax, MaxVer, MaxTx, MaxCrash, Restart,  \* Jbd
          MaxErr,                             \* Bcache and Jbd
          Off

VARIABLES part,
          geo, blk, sb, step, at, rc, flushed, mnt,
          bc, cdisk, wb, bad, cerrs, told, mods, want, stranded,
          mem, w, disk, log, jsb, pc, com, vis, img, ver, crashes, errs

mvars == <<geo, blk, sb, step, at, rc, flushed, mnt>>
cvars == <<bc, cdisk, wb, bad, cerrs, told, mods, want, stranded>>
jvars == <<mem, w, disk, log, jsb, pc, com, vis, img, ver, crashes, errs>>

\* One to five groups of 16 blocks in front of the journal areas, with and
\* without a second descriptor block.
MCGeos == {[total |-> 16 * n + 2 * j, J |-> j, bpg |-> 16, dpb |-> p, ipb |-> 2, inodes |-> 8] :
             n \in 1 .. 5, j \in {4, 5}, p \in {1, 2}}

M == INSTANCE Mkfs WITH Geos <- MCGeos
C == INSTANCE Bcache WITH disk <- cdisk, errs <- cerrs
J == INSTANCE Jbd WITH Blks <- {1, 2}

MOff ==
    /\ geo = Off /\ blk = Off /\ sb = Off /\ step = Off /\ at = Off /\ rc = Off
    /\ flushed = Off /\ mnt = Off
COff ==
    /\ bc = Off /\ cdisk = Off /\ wb = Off /\ bad = Off /\ cerrs = Off /\ told = Off
    /\ mods = Off /\ want = Off /\ stranded = Off
JOff ==
    /\ mem = Off /\ w = Off /\ disk = Off /\ log = Off /\ jsb = Off /\ pc = Off
    /\ com = Off /\ vis = Off /\ img = Off /\ ver = Off /\ crashes = Off /\ errs = Off

MCInit ==
    /\ part \in Parts
    /\ Init
    /\ IF part = "mkfs" THEN M!Init ELSE MOff
    /\ IF part = "cache" THEN C!Init ELSE COff
    /\ IF part = "jbd" THEN J!Init ELSE JOff

Mapping(A) == part = "extents" /\ A /\ UNCHANGED <<part, mvars, cvars, jvars>>
Format(A) == part = "mkfs" /\ A /\ UNCHANGED <<part, vars, cvars, jvars>>
Cache(A) == part = "cache" /\ A /\ UNCHANGED <<part, vars, mvars, jvars>>
Jbd(A) == part = "jbd" /\ A /\ UNCHANGED <<part, vars, mvars, cvars>>

MappingNext ==
    \/ \E i \in Files, n \in 1 .. MaxSize : Mapping(Grow(i, n))
    \/ \E i \in Files : Mapping(AllocChunk(i))
    \/ \E i \in Libs : Mapping(AppendDblk(i))
    \/ \E i \in Libs, n \in 0 .. MaxSize - 1 : Mapping(Truncate(i, n))

FormatNext ==
    \/ Format(M!WriteBgroups) \/ Format(M!WriteBgroupsFails)
    \/ Format(M!WriteSblocks) \/ Format(M!WriteSblocksFails)
    \/ Format(M!FsInit) \/ Format(M!InitBg) \/ Format(M!InitBgsDone)
    \/ Format(M!AllocInode) \/ Format(M!AllocInodesDone)
    \/ part = "mkfs" /\ \E g \in 0 .. geo.total : Format(M!DirBlock(g))
    \/ Format(M!CreateDirs) \/ Format(M!WriteJournalSb) \/ Format(M!WriteStageSb)
    \/ Format(M!StepFails) \/ Format(M!FsFini) \/ Format(M!CacheFini) \/ Format(M!Mount)

CacheNext ==
    \/ \E l \in Lbas :
        \/ Cache(C!GetNoread(l)) \/ Cache(C!Get(l)) \/ Cache(C!SetDirty(l)) \/ Cache(C!Put(l))
        \/ Cache(C!FlushLba(l)) \/ Cache(C!DeviceRefuses(l)) \/ Cache(C!DeviceRecovers(l))
        \/ \E cnt \in {1, 2} : Cache(C!Invalidate(l, cnt))
    \/ \E l \in Marked, f \in {"FLUSH", "TMP"} : Cache(C!SetFlag(l, f))
    \/ \E on \in BOOLEAN : Cache(C!WriteBack(on))
    \/ Cache(C!Cleanup)

JbdNext ==
    \/ Jbd(J!Start) \/ Jbd(J!NewTrans) \/ Jbd(J!Commit) \/ Jbd(J!LogBuf) \/ Jbd(J!LogDesc)
    \/ Jbd(J!LogRevokes) \/ Jbd(J!LogCommit) \/ Jbd(J!Finish) \/ Jbd(J!CommitFails)
    \/ Jbd(J!AbortTrans) \/ Jbd(J!Stop) \/ Jbd(J!Write) \/ Jbd(J!Crash) \/ Jbd(J!Recover)
    \/ \E b \in {1, 2} : \/ Jbd(J!SetBlockDirty(b)) \/ Jbd(J!FreeBlock(b))
                         \/ Jbd(J!DataWrite(b)) \/ Jbd(J!Flush(b))

\* mkfs ends, and the bounds of the log are reached.
MayStop == part \in {"mkfs", "jbd"} /\ UNCHANGED <<part, vars, mvars, cvars, jvars>>

MCNext == MappingNext \/ FormatNext \/ CacheNext \/ JbdNext \/ MayStop

MCSpec == MCInit /\ [][MCNext]_<<part, vars, mvars, cvars, jvars>>

-----------------------------------------------------------------------------
(* Binary search in the tree finds for every logical block the extent that *)
(* covers it, and none for a hole (ext4_find_extent); keys ascend and match*)
(* those below; every block has exactly one use and the counts agree; and  *)
(* a directory has a block for everything below its size.                  *)
MapCorrect ==
    part = "extents" =>
        TypeOK /\ LookupFinds /\ TreeShape /\ SpaceAccounted /\ DenseBelowSize

(* The extents in the leaves behave as BlockMap: a request adds one run of *)
(* unused blocks behind the mapped ones or, when blocks run out half way   *)
(* through ext4_ext_insert_extent, changes no mapping at all.              *)
MapImplementsBlockMap ==
    /\ BM!Init
    /\ [][BM!Next \/ \A i \in Inos : Map(i)' = Map(i)]_vars

(* A finished mkfs has marked every metadata block of every group used and *)
(* counted the free ones; file system, journal and stage area lie apart on *)
(* the device; and a mkfs that reported success left what a mount reads.   *)
MkfsCorrect ==
    part = "mkfs" =>
        M!TypeOK /\ M!MetaReserved /\ M!FreeCounted /\ M!AreasApart /\ M!Mountable

(* A client finds what was last written to a block, in the cache or below  *)
(* it; exactly the unreferenced buffers can be evicted and exactly the     *)
(* dirty ones of them are flushed; and a successful switch-off of write    *)
(* back leaves nothing but on the device (ext4_bcache_free).               *)
CacheCorrect ==
    part = "cache" =>
        C!TypeOK /\ C!LruExact /\ C!ListExact /\ C!Coherent /\ C!Synced

(* Whenever the machine stops, replaying the log leaves exactly the        *)
(* contents of the last durable transaction (jbd_recover); between two     *)
(* operations a reader finds the newest contents of a block; and a block   *)
(* record lists exactly the transactions that still have to write it.      *)
JbdCorrect ==
    part = "jbd" => J!TypeOK /\ J!BlockRecs /\ J!Visible /\ J!Recoverable
===============================================================================
