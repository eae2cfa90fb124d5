------------------------------- MODULE MCDevfs -------------------------------
(***************************************************************************)
(* DevFS for TLC: the journal (DevfsJournal) and, on a small device of     *)
(* their own, the two ways to checkpoint one transaction, with coalescing  *)
(* (Coalesce) and without (Checkpoint).  A behaviour is one of the three:  *)
(* the journal then stays in its initial state, and the variables of a     *)
(* checkpoint are Off.                                                     *)
(***************************************************************************)
EXTENDS DevfsJournal, JournalTags, TLC

CONSTANTS Parts,      \* the parts to be checked
          PlainTags,  \* MaxTags of Checkpoint
          Off

VARIABLES part,
          pass, nstx, next, nodes, pos, grp, cur, buf, bios, io, cdisk, want,
          pc, start, desc, nmeta, pend, src, lists, jtags, ktx, snext, ntags, out, jfree, fs, ref

cvars == <<pass, nstx, next, nodes, pos, grp, cur, buf, bios, io, cdisk, want>>
kvars == <<pc, start, desc, nmeta, pend, src, lists, jtags, ktx, snext, ntags, out, jfree, fs, ref>>

C == INSTANCE Coalesce WITH disk <- cdisk
K == INSTANCE Checkpoint WITH MaxTags <- PlainTags, nstx <- ktx

COff ==
    /\ pass = Off /\ nstx = Off /\ next = Off /\ nodes = Off /\ pos = Off /\ grp = Off
    /\ cur = Off /\ buf = Off /\ bios = Off /\ io = Off /\ cdisk = Off /\ want = Off
KOff ==
    /\ pc = Off /\ start = Off /\ desc = Off /\ nmeta = Off /\ pend = Off /\ src = Off
    /\ lists = Off /\ jtags = Off /\ ktx = Off /\ snext = Off /\ ntags = Off /\ out = Off
    /\ jfree = Off /\ fs = Off /\ ref = Off

LogSymmetry == Permutations(DF)

MCInit ==
    /\ part \in Parts
    /\ Init
    /\ IF part = "coalesce" THEN C!Init ELSE COff
    /\ IF part = "plain" THEN K!Init ELSE KOff

Journal(A) == part = "journal" /\ A /\ UNCHANGED <<part, cvars, kvars>>
Coalescing(A) == part = "coalesce" /\ A /\ UNCHANGED <<part, vars, kvars>>
Plain(A) == part = "plain" /\ A /\ UNCHANGED <<part, vars, cvars>>

MCNext ==
    \/ Journal(SdBegin) \/ Journal(SdSendFetch) \/ Journal(SdSendCommit)
    \/ Journal(SdAnswered) \/ Journal(SdFetchFailed)
    \/ Journal(PersistDataStart) \/ Journal(PersistDataDone) \/ Journal(TakeJournal)
    \/ \E d \in DF : \/ Journal(LockLog(d)) \/ Journal(Reserve(d))
                     \/ Journal(WriteMeta(d)) \/ Journal(Commit(d))
    \/ Journal(Prepare) \/ Journal(Signal) \/ Journal(RunIoJob) \/ Journal(Stopped)
    \/ Journal(CkptStart) \/ Journal(CkptEnd) \/ Journal(CkptDequeue) \/ Journal(CkptTxId)
    \/ Journal(FreeJournalSpace) \/ Journal(UnlockFreed)
    \/ Coalescing(C!ScanStageTx) \/ Coalescing(C!ScanJournalTx) \/ Coalescing(C!Optimize)
    \/ Coalescing(C!FirstOfGroup) \/ Coalescing(C!JoinNode) \/ Coalescing(C!AddBio)
    \/ Coalescing(C!WriteBio) \/ Coalescing(C!DispatchRest) \/ Coalescing(C!EndPass)
    \/ Coalescing(C!Done)
    \/ Plain(K!Dequeue) \/ Plain(K!EtagBlk) \/ Plain(K!StageTraceBlk) \/ Plain(K!StageTx)
    \/ Plain(K!WriteBio) \/ Plain(K!StageDone) \/ Plain(K!MetaDone) \/ Plain(K!WriteList)
    \/ Plain(K!FreeSpace) \/ Plain(K!Done)

MCSpec == MCInit /\ [][MCNext]_<<part, vars, cvars, kvars>>

-----------------------------------------------------------------------------
(* do_checkpoint_coalesce() leaves the newest contents of every block and  *)
(* inode in place, whatever order the bios of a batch are written in, and  *)
(* no read of it leaves the stage area or the log.                         *)
CoalesceCorrect ==
    part = "coalesce" => C!TypeOK /\ C!SourceInside /\ C!Checkpointed

(* do_checkpoint() frees the log space of a transaction only when the file *)
(* system has the newest contents of everything that the transaction and   *)
(* its stage transactions hold, and reads only inside their areas.         *)
PlainCorrect ==
    part = "plain" => K!TypeOK /\ K!ReadsInside /\ K!CopiedWhenFreed
=============================================================================
