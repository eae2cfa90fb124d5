----------------------------- MODULE MCEngines -----------------------------
(***************************************************************************)
(* The two storage engines of DevFS for TLC.  A behaviour runs one of      *)
(* them, chosen at the start; the other stays where it is.                 *)
(***************************************************************************)
EXTENDS Integers, TLC

CONSTANTS Workers,  \* io workers of the fabrics engine
          Pool,     \* workers of the local engine
          Ras,      \* its readahead bios
          MaxIo,    \* blocks of a command
          Off

VARIABLES part,
          \* NvmfEngine
          up, res, qpair, pool, fwk, sq, cq, inflight, ccount, task, fmem, fdisk, todo, errs,
          \* NvmeEngine
          script, cpos, jobs, wk, compl, seqbuf, cmds, exec, rbuf, mem, disk, rapc, ended,
          poller, sema, waitc, timer

(* A queue pair has room for four commands, of which half may be used.     *)
F == INSTANCE NvmfEngine WITH MaxReqs <- 4, ConfCap <- 0, MaxErr <- 1,
                               wk <- fwk, mem <- fmem, disk <- fdisk
(* A readahead bio is one command: nobody in DevFS submits a longer one.   *)
E == INSTANCE NvmeEngine WITH RaLen <- 2, Timer <- 1

FVars == <<up, res, qpair, pool, fwk, sq, cq, inflight, ccount, task, fmem, fdisk, todo, errs>>
EVars == <<script, cpos, jobs, wk, compl, seqbuf, cmds, exec, rbuf, mem, disk, rapc, ended,
           poller, sema, waitc, timer>>
FOff == /\ up = Off /\ res = Off /\ qpair = Off /\ pool = Off /\ fwk = Off /\ sq = Off
        /\ cq = Off /\ inflight = Off /\ ccount = Off /\ task = Off /\ fmem = Off
        /\ fdisk = Off /\ todo = Off /\ errs = Off
EOff == /\ script = Off /\ cpos = Off /\ jobs = Off /\ wk = Off /\ compl = Off /\ seqbuf = Off
        /\ cmds = Off /\ exec = Off /\ rbuf = Off /\ mem = Off /\ disk = Off /\ rapc = Off
        /\ ended = Off /\ poller = Off /\ sema = Off /\ waitc = Off /\ timer = Off

MCInit == \/ part = "nvmf" /\ F!Init /\ EOff
          \/ part = "nvme" /\ E!Init /\ FOff

FStep(A) == part = "nvmf" /\ A /\ UNCHANGED <<part, EVars>>
EStep(A) == part = "nvme" /\ A /\ UNCHANGED <<part, FVars>>

MCNext == FStep(F!Next) \/ EStep(E!Next)
MCVars == <<part, FVars, EVars>>

(* The fairness of the two modules.                                        *)
MCSpec ==
    /\ MCInit /\ [][MCNext]_MCVars
    /\ WF_MCVars(FStep(F!Progress))
    /\ WF_MCVars(EStep(E!Progress))
    /\ WF_MCVars(EStep(E!Poller))
    /\ \A r \in Ras : SF_MCVars(EStep(E!Submitter(r)))

-----------------------------------------------------------------------------
(* What a synchronous call of the journal returned for is on the target;   *)
(* what a queue pair counts agrees with what it carries, and a worker      *)
(* starts its next job with an empty pair; and a pair is used only between *)
(* its connection and the teardown.                                        *)
FabricsCorrect ==
    part = "nvmf" => F!TypeOK /\ F!PairBalanced /\ F!UsedWhileUp /\ F!Landed

(* A completed bio is on the device and is read back as it was written,    *)
(* and the polling thread waits for what is outstanding.                   *)
LocalCorrect == part = "nvme" => E!TypeOK /\ E!Durable /\ E!WakeupsMatch

(* Every job given to the pool of a started engine ends, and every         *)
(* readahead bio of the local engine ends and its callers return.          *)
EnginesProgress ==
    /\ []<>(part = "nvmf" /\ up = "ready" => /\ todo = {} /\ pool = <<>>
                                             /\ \A w \in Workers : fwk[w] = F!Idle)
    /\ []<>(part = "nvme" => script = <<>> /\ ended = Ras)
=============================================================================
