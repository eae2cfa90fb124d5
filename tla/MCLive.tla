-------------------------------- MODULE MCLive --------------------------------
(***************************************************************************)
(* What must come to an end, and how the daemons come up, for TLC: the     *)
(* progress of DevFS (DevfsJournal) and of the daemon's journal worker     *)
(* (HostJournal), the start and the shutdown (Lifecycle), and the set-up   *)
(* of the device (NvmeSetup).  A behaviour is one of the four; the         *)
(* variables of the others are Off.                                        *)
(***************************************************************************)
EXTENDS Integers, Sequences

CONSTANTS DF,
          MaxData, MaxMeta, MaxTx, LogSize, Workers, Trigger, Word,  \* DevfsJournal
          Inodes, Threads, MaxBlks, MaxObj,                          \* HostJournal
          Readers, MaxEvents,                                        \* Lifecycle
          Off

VARIABLES part,
          cl, queue, fetching, cmt, resp, log, lock, fctx, seqn, sb, dsb, disk,
          ckptList, prepq, flag, ck, fsTx, failed, overrun, dropped,
          tr, front, nobj, seq, occupied, w, th, ino, ilock, slock, inflight, cb,
          mrc, halted, last, revoked,
          pc, up, bg, dpc, dup, jw, rd, next, stop, efd, events, mgr,
          vfs, iod, rds, at, probed, ctrlrs, spaces, entry, per, pairs, slots, pool

dvars == <<cl, queue, fetching, cmt, resp, log, lock, fctx, seqn, sb, dsb, disk,
           ckptList, prepq, flag, ck, fsTx, failed, overrun, dropped>>
hvars == <<tr, front, nobj, seq, occupied, w, th, ino, ilock, slock, inflight, cb,
           mrc, halted, last, revoked>>
fvars == <<pc, up, bg, dpc, dup, jw, rd, next, stop, efd, events, mgr>>
nvars == <<vfs, iod, rds, at, probed, ctrlrs, spaces, entry, per, pairs, slots, pool>>
all == <<part, dvars, hvars, fvars, nvars>>

\* Virtual functions that differ in the number and depth of their queue
\* pairs, in their namespaces, in the sector size and in the probe's outcome.
Vf == [probe |-> "ok", ns |-> {1}, sector |-> 1, cap |-> 0, depth |-> 2]
Vfs == {Vf, [Vf EXCEPT !.cap = 1], [Vf EXCEPT !.cap = 2, !.depth = 3],
        [Vf EXCEPT !.ns = {1, 2}], [Vf EXCEPT !.ns = {2}], [Vf EXCEPT !.ns = {}],
        [Vf EXCEPT !.sector = 2], [Vf EXCEPT !.probe = "error"], [Vf EXCEPT !.probe = "absent"]}
MCVfLists == UNION {[1 .. n -> Vfs] : n \in 0 .. 3} \cup {<<Vf, Vf, Vf, Vf>>}

D == INSTANCE DevfsJournal WITH ChunkBlks <- 1
H == INSTANCE HostJournal WITH ChunkBlks <- 2, failed <- halted
F == INSTANCE Lifecycle
N == INSTANCE NvmeSetup WITH VfLists <- MCVfLists, Iods <- {1, 2}, Rds <- {1, 2}, MaxVfs <- 3

DOff ==
    /\ cl = Off /\ queue = Off /\ fetching = Off /\ cmt = Off /\ resp = Off /\ log = Off
    /\ lock = Off /\ fctx = Off /\ seqn = Off /\ sb = Off /\ dsb = Off /\ disk = Off
    /\ ckptList = Off /\ prepq = Off /\ flag = Off /\ ck = Off /\ fsTx = Off /\ failed = Off
    /\ overrun = Off /\ dropped = Off
HOff ==
    /\ tr = Off /\ front = Off /\ nobj = Off /\ seq = Off /\ occupied = Off /\ w = Off
    /\ th = Off /\ ino = Off /\ ilock = Off /\ slock = Off /\ inflight = Off /\ cb = Off
    /\ mrc = Off /\ halted = Off /\ last = Off /\ revoked = Off
FOff ==
    /\ pc = Off /\ up = Off /\ bg = Off /\ dpc = Off /\ dup = Off /\ jw = Off /\ rd = Off
    /\ next = Off /\ stop = Off /\ efd = Off /\ events = Off /\ mgr = Off
NOff ==
    /\ vfs = Off /\ iod = Off /\ rds = Off /\ at = Off /\ probed = Off /\ ctrlrs = Off
    /\ spaces = Off /\ entry = Off /\ per = Off /\ pairs = Off /\ slots = Off /\ pool = Off

MCInit ==
    /\ part \in {"devfs", "host", "life", "setup"}
    /\ IF part = "devfs" THEN D!Init ELSE DOff
    /\ IF part = "host" THEN H!Init ELSE HOff
    /\ IF part = "life" THEN F!Init ELSE FOff
    /\ IF part = "setup" THEN N!Init ELSE NOff


Devfs(A) == part = "devfs" /\ A /\ UNCHANGED <<part, hvars, fvars, nvars>>
Host(A) == part = "host" /\ A /\ UNCHANGED <<part, dvars, fvars, nvars>>
Life(A) == part = "life" /\ A /\ UNCHANGED <<part, dvars, hvars, nvars>>
Setup(A) == part = "setup" /\ A /\ UNCHANGED <<part, dvars, hvars, fvars>>

DevfsNext ==
    \/ Devfs(D!SdNext) \/ Devfs(D!PersistDataStart) \/ Devfs(D!PersistDataDone)
    \/ Devfs(D!TakeJournal) \/ Devfs(D!CommitNext) \/ Devfs(D!Prepare) \/ Devfs(D!Signal)
    \/ Devfs(D!CkptNext) \/ Devfs(D!RunIoJob) \/ Devfs(D!Stopped)

HostNext ==
    Host(H!ThreadNext) \/ Host(H!WorkerNext) \/ Host(H!CallbackNext) \/ Host(H!Stopped)

LifeNext ==
    \/ Life(F!DevNext) \/ Life(F!Start) \/ Life(F!KernelFileMsg) \/ Life(F!KernelEvict)
    \/ Life(F!Sigint) \/ Life(F!Shutdown) \/ Life(F!Manager) \/ Life(F!Journal)
    \/ \E r \in Readers : Life(F!Reader(r))

SetupNext ==
    \/ Setup(N!Check) \/ Setup(N!Collect) \/ Setup(N!Validate) \/ Setup(N!Split)
    \/ Setup(N!AllocPair) \/ Setup(N!CreatePool) \/ Setup(N!NvmeExit)
    \/ part = "setup" /\ \E v \in 1 .. Len(vfs) : Setup(N!ProbeVf(v))

\* A daemon that has exited, and nvme_init() once it has returned.
MayStop == part \in {"life", "setup"} /\ UNCHANGED all

MCNext == DevfsNext \/ HostNext \/ LifeNext \/ SetupNext \/ MayStop

\* The fairness of each component, of its steps in this composition.
MCFairness ==
    /\ WF_all(Devfs(D!PersistDataStart)) /\ WF_all(Devfs(D!PersistDataDone))
    /\ WF_all(Devfs(D!TakeJournal))
    /\ \A d \in DF : /\ WF_all(Devfs(D!LockLog(d))) /\ WF_all(Devfs(D!Reserve(d)))
                     /\ WF_all(Devfs(D!WriteMeta(d))) /\ WF_all(Devfs(D!Commit(d)))
    /\ WF_all(Devfs(D!Prepare)) /\ WF_all(Devfs(D!RunIoJob)) /\ WF_all(Devfs(D!CkptNext))
    /\ WF_all(Devfs(D!SdAnswered)) /\ WF_all(Devfs(D!SdFetchFailed))
    /\ WF_all(Host(H!WorkerNext))
    /\ \A t \in Threads :
         WF_all(Host(H!AddFile(t) \/ H!SetDirty(t) \/ H!EndJournal(t)))
    /\ WF_all(Life(F!Shutdown)) /\ WF_all(Life(F!Manager))
    /\ \A r \in Readers : WF_all(Life(F!Reader(r)))

MCSpec == MCInit /\ [][MCNext]_all /\ MCFairness

-----------------------------------------------------------------------------
(* Every commit request of the daemon is answered, unless an assertion     *)
(* stops DevFS or a chunk of the transaction was never written; and a      *)
(* checkpoint that was signalled comes to its end.                         *)
DevfsProgress ==
    /\ (part = "devfs" /\ cl.st = "waiting") ~>
           (part = "devfs" => cl.st # "waiting" \/ ~D!Alive \/ D!Unwritten)
    /\ (part = "devfs" /\ flag) ~>
           (part = "devfs" =>
               ~flag \/ ~D!Alive \/ cl.st = "aborted" \/ D!Unwritten \/ overrun)

(* The spin on tx->ref in build_transaction() ends.                        *)
DrainEnds ==
    (part = "host" /\ w.pc = "drain") ~>
        (part = "host" => w.pc = "snapshot" \/ ~H!Alive)

(* exit_filesystem() frees the inodes only when no read worker runs, and   *)
(* the journal worker never meets a half-started DevFS.                    *)
LifeCorrect ==
    part = "life" => F!TypeOK /\ F!ReadersNeedInodes /\ F!JournalReady

(* After SIGINT stop_read_workers() and the whole shutdown end.            *)
ShutdownEnds ==
    (part = "life" /\ pc = "x_manager") ~> (part = "life" => pc \in {"end", "crashed"})

(* A finished nvme_init() lets the threads of all VFs write the same       *)
(* blocks, asks no VF for more pairs than it has nor a pair for more       *)
(* commands than its depth; one that fails keeps nothing of the device.    *)
SetupCorrect ==
    part = "setup" => N!TypeOK /\ N!SameBlocks /\ N!WithinDevice /\ N!NothingKept
===============================================================================
