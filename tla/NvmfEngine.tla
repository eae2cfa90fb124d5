----------------------------- MODULE NvmfEngine -----------------------------
(* The NVMe-over-Fabrics storage engine of DevFS                            *)
(* (devfs/src/common/storage_engine/se_nvmf_fast.c behind storage_engine.c) *)
(* and the ways devfs/src/journal.c drives it.                              *)
(*                                                                          *)
(* Every io worker owns one queue pair.  A bio list is cut into commands of *)
(* at most MaxIo blocks that share one task per bio; commands complete in   *)
(* any order; a callback runs only inside process_completions, on the       *)
(* thread that owns the queue pair, and only counts: how many commands of   *)
(* the pair completed, and how many of the bio.  A thread that waits for n  *)
(* commands takes n from the pair's count, whoever's completions they were. *)
(*                                                                          *)
(* A bio has one vector: every caller in DevFS builds it with               *)
(* alloc_bio_n_bvecs(baddr, 1), and dispatch looks at bi_io_vec[0] only.    *)
EXTENDS Integers, Sequences, FiniteSets, TLC

CONSTANTS
    Workers,   \* threads of the io worker pool (tls_tid), one queue pair each
    MaxIo,     \* entry->max_io_size, in blocks
    MaxReqs,   \* max_io_queue_requests of a queue pair
    ConfCap,   \* nvmf_max_inflight_per_qpair of the configuration
    MaxErr     \* bound: commands the target may complete with an error

VARIABLES
    up,        \* how far init_nvmf came
    res,       \* what is registered: a subset of Resources
    qpair,     \* qpair[w]: "none", "entry" (ns_ctx allocated), "ready"
    pool,      \* se_thpool's job queue
    wk,        \* wk[w]: the job of a worker and how far it is
    sq,        \* commands submitted and not yet executed by the target
    cq,        \* commands executed and not yet reaped
    inflight,  \* qpair_inflight
    ccount,    \* qpair_completion_count
    task,      \* task[b]: the perf_task of bio b, or NoTask
    mem,       \* memory of the callers, one value a block
    disk,      \* blocks of the target
    todo,      \* jobs other threads still have to request
    errs       \* bios a command of which failed (history)

vars == <<up, res, qpair, pool, wk, sq, cq, inflight, ccount, task, mem, disk,
          todo, errs>>

Resources == {"trids", "env", "workers", "ctrlrs", "ns", "poller"}
NoTask == [submit |-> 0, cmpl |-> 0, buf |-> <<>>, live |-> FALSE]
Min2(a, b) == IF a < b THEN a ELSE b
Ceiling(a, b) == (a + b - 1) \div b

-----------------------------------------------------------------------------
(* The I/O of DevFS, as the operations a worker performs for a job:         *)
(* "io" dispatches a bio list, "poll" waits for everything dispatched since *)
(* the last poll, "once" is poll_complete(0).                               *)
Bio(b) == [load |-> [blk |-> 0, adr |-> 0, len |-> 1],
           src1 |-> [blk |-> 1, adr |-> 1, len |-> 3],
           src2 |-> [blk |-> 4, adr |-> 4, len |-> 1],
           dst1 |-> [blk |-> 5, adr |-> 1, len |-> 3],
           dst2 |-> [blk |-> 8, adr |-> 4, len |-> 1],
           log1 |-> [blk |-> 9, adr |-> 5, len |-> 2],
           log2 |-> [blk |-> 11, adr |-> 7, len |-> 1],
           meta |-> [blk |-> 12, adr |-> 8, len |-> 2]][b]
Bios == {"load", "src1", "src2", "dst1", "dst2", "log1", "log2", "meta"}
Blks(b) == Bio(b).blk .. Bio(b).blk + Bio(b).len - 1

Io(bl, read, custom) == [op |-> "io", bl |-> bl, read |-> read, custom |-> custom]
Poll == [op |-> "poll", bl |-> <<>>, read |-> FALSE, custom |-> FALSE]
Once == [op |-> "once", bl |-> <<>>, read |-> FALSE, custom |-> FALSE]

(* se_dispatch_io_sync *)
DispatchSync(bl, read) == <<Io(bl, read, FALSE), Poll>>

(* load_journal_sb reads the super block twice around three single polls *)
LoadJournalSb == DispatchSync(<<"load">>, TRUE) \o <<Once, Once, Once>>
                 \o DispatchSync(<<"load">>, TRUE)

(* persist_data: two dispatches without a copy when the log wraps, one poll *)
PersistData == <<Io(<<"log1">>, FALSE, TRUE), Io(<<"log2">>, FALSE, TRUE), Poll>>

(* commit_tx and the metadata write of persist_meta_and_commit *)
CommitTx == DispatchSync(<<"meta">>, FALSE)

Job(name) == [name |-> name,
              prog |-> CASE name = "load"    -> LoadJournalSb
                         [] name = "persist" -> PersistData
                         [] name = "commit"  -> CommitTx
                         [] name = "read"    -> DispatchSync(<<"src1", "src2">>, TRUE)
                         [] name = "write"   -> DispatchSync(<<"dst1", "dst2">>, FALSE)]
Names == {"load", "persist", "commit", "read", "write"}
NoJob == [name |-> "none", prog |-> <<>>]
Idle == [job |-> NoJob, bl |-> <<>>, off |-> 0, total |-> 0, done |-> 0]

Init ==
    /\ up = "down"
    /\ res = {}
    /\ qpair = [w \in Workers |-> "none"]
    /\ pool = <<>>
    /\ wk = [w \in Workers |-> Idle]
    /\ sq = {} /\ cq = {}
    /\ inflight = [w \in Workers |-> 0]
    /\ ccount = [w \in Workers |-> 0]
    /\ task = [b \in Bios |-> NoTask]
    /\ mem = [a \in 0 .. 9 |-> IF a < 5 THEN 0 ELSE 100 + a]
    /\ disk = [b \in 0 .. 13 |-> IF b < 5 THEN b + 1 ELSE 0]
    /\ todo = {"load"}
    /\ errs = {}

-----------------------------------------------------------------------------
(* init_nvmf, one registration at a time.                                   *)
io == <<pool, wk, sq, cq, inflight, ccount, task, mem, disk, todo, errs>>

(* set_opts: every worker's CPU fits in the core mask ... *)
CreateCoreMask ==
    /\ up = "down"
    /\ up' = "mask"
    /\ UNCHANGED <<res, qpair, io>>

(* ... and the transport id, with its name space and host name, parses *)
AddTrid ==
    /\ up = "mask"
    /\ up' = "opts" /\ res' = {"trids"}
    /\ UNCHANGED <<qpair, io>>

EnvInit ==
    /\ up = "opts"
    /\ up' = "env" /\ res' = res \union {"env"}
    /\ UNCHANGED <<qpair, io>>

(* the core mask or the transport id is refused, or SPDK does not start *)
EarlyFailure ==
    /\ up \in {"down", "mask", "opts"}
    /\ up' = "failed" /\ res' = {}
    /\ UNCHANGED <<qpair, io>>

RegisterWorkers ==
    /\ up = "env"
    /\ up' = "workers" /\ res' = res \union {"workers"}
    /\ UNCHANGED <<qpair, io>>

(* spdk_nvme_probe finds the controller (probe_cb asks for a queue pair a   *)
(* worker) and attaches it; register_ctrlr                                  *)
AttachCb ==
    /\ up = "workers"
    /\ up' = "attached" /\ res' = res \union {"ctrlrs"}
    /\ UNCHANGED <<qpair, io>>

(* register_ns takes the name space, or skips it: inactive, too small, or   *)
(* of a block size that does not divide the I/O size                        *)
RegisterNs ==
    /\ up = "attached"
    /\ up' = "ctrlrs"
    /\ res' \in {res, res \union {"ns"}}
    /\ UNCHANGED <<qpair, io>>

StartPoller ==
    /\ up = "ctrlrs" /\ "ns" \in res
    /\ up' = "poller" /\ res' = res \union {"poller"}
    /\ UNCHANGED <<qpair, io>>

(* with one namespace every worker gets one ns_ctx *)
AssociateWorkersWithNs ==
    /\ up = "poller"
    /\ up' = "assoc" /\ qpair' = [w \in Workers |-> "entry"]
    /\ UNCHANGED <<res, io>>

(* Everything from register_workers to associate_workers_with_ns jumps to   *)
(* cleanup when it fails; no valid namespace counts as failure too.         *)
CleanupInit ==
    /\ up \in {"env", "workers", "ctrlrs", "poller"}
    /\ up' = "failed"
    /\ res' = res \ {"poller", "trids", "ns", "ctrlrs", "workers", "env"}
    /\ qpair' = [w \in Workers |-> "none"]
    /\ UNCHANGED io

(* nvme_init_ns_worker_ctx: allocate and connect one queue pair; a failure  *)
(* trips the assertion in init_nvmf                                         *)
InitNsWorkerCtx(w) ==
    /\ up = "assoc" /\ qpair[w] = "entry"
    /\ \/ /\ qpair' = [qpair EXCEPT ![w] = "ready"]
          /\ up' = up
       \/ /\ qpair' = qpair
          /\ up' = "panic"
    /\ UNCHANGED <<res, io>>

(* the pool is created once every queue pair is connected *)
Launch ==
    /\ up = "assoc" /\ \A w \in Workers : qpair[w] = "ready"
    /\ up' = "ready"
    /\ UNCHANGED <<res, qpair, io>>

-----------------------------------------------------------------------------
(* Dispatching.                                                             *)
boot == <<up, res, qpair>>

(* thpool_add_work by an RPC handler, the checkpoint thread *)
(* (se_request_dispatch_io_sync) or init_journal            *)
Request(name) ==
    /\ up = "ready" /\ name \in todo
    /\ pool' = Append(pool, Job(name))
    /\ todo' = todo \ {name}
    /\ UNCHANGED <<boot, wk, sq, cq, inflight, ccount, task, mem, disk, errs>>

TakeJob(w) ==
    /\ up = "ready" /\ wk[w].job = NoJob /\ pool # <<>>
    /\ LET prog == Head(pool).prog
       IN  wk' = [wk EXCEPT ![w] = [Idle EXCEPT !.job = Head(pool),
                                                !.bl = Head(prog).bl]]
    /\ pool' = Tail(pool)
    /\ UNCHANGED <<boot, sq, cq, inflight, ccount, task, mem, disk, todo, errs>>

Op(w) == Head(wk[w].job.prog)
InOp(w, op) == wk[w].job.prog # <<>> /\ Op(w).op = op
CurBio(w) == Head(wk[w].bl)
Started(w) == wk[w].bl # <<>> /\ task[CurBio(w)].live

(* the worker goes on with the next operation of its job *)
NextOp(r) ==
    LET prog == Tail(r.job.prog)
    IN  [r EXCEPT !.job.prog = prog,
                  !.bl = IF prog = <<>> THEN <<>> ELSE Head(prog).bl]

InflightCapConf == Min2(ConfCap, MaxReqs \div 2)

(* min(configured cap, half of the queue pair's requests) *)
InflightCap ==
    LET default == MaxReqs \div 2
    IN  IF ConfCap <= 0 THEN default ELSE Min2(ConfCap, default)

(* copy_bio_to_buf: a write's data is copied before its first command *)
CopyBioToBuf(b) == [i \in 1 .. Bio(b).len |-> mem[Bio(b).adr + i - 1]]
ZeroBuf(b) == [i \in 1 .. Bio(b).len |-> 0]

(* allocate_task: the buffer of a bio and the number of its commands *)
NewTask(b, read) ==
    [submit |-> Ceiling(Bio(b).len, MaxIo), cmpl |-> 0, live |-> TRUE,
     buf |-> IF read THEN ZeroBuf(b) ELSE CopyBioToBuf(b)]

AllocateTask(w) ==
    /\ InOp(w, "io") /\ wk[w].bl # <<>> /\ ~Started(w)
    /\ task' = [task EXCEPT ![CurBio(w)] = NewTask(CurBio(w), Op(w).read)]
    /\ UNCHANGED <<boot, pool, wk, sq, cq, inflight, ccount, mem, disk, todo, errs>>

(* one command of at most MaxIo blocks *)
Command(w) ==
    LET b == CurBio(w)
    IN  [wk |-> w, bio |-> b, off |-> wk[w].off, read |-> Op(w).read,
         len |-> Min2(MaxIo, Bio(b).len - wk[w].off), custom |-> Op(w).custom]

(* the command is queued; after the bio's last one the next bio is taken *)
Submitted(w) ==
    LET off == wk[w].off + Command(w).len
        last == off = Bio(CurBio(w)).len
    IN  [wk[w] EXCEPT !.total = @ + 1,
                      !.off = IF last THEN 0 ELSE off,
                      !.bl = IF last THEN Tail(@) ELSE @]

Submit(w) ==
    /\ InOp(w, "io") /\ Started(w) /\ inflight[w] < InflightCap
    /\ sq' = sq \union {Command(w)}
    /\ inflight' = [inflight EXCEPT ![w] = @ + 1]
    /\ wk' = [wk EXCEPT ![w] = Submitted(w)]
    /\ UNCHANGED <<boot, pool, cq, ccount, task, mem, disk, todo, errs>>

(* every bio of the list is dispatched: its count is returned *)
Dispatched(w) ==
    /\ InOp(w, "io") /\ wk[w].bl = <<>>
    /\ wk' = [wk EXCEPT ![w] = NextOp(@)]
    /\ UNCHANGED <<boot, pool, sq, cq, inflight, ccount, task, mem, disk, todo, errs>>

-----------------------------------------------------------------------------
(* Completion.                                                              *)
Mine(w) == {c \in cq : c.wk = w}

CountedFirst(cs) ==
    [b \in Bios |-> IF \E c \in cs : c.bio = b THEN NoTask ELSE task[b]]

(* the tasks after the callbacks of the commands cs: the last command of a  *)
(* bio frees its task                                                       *)
Counted(cs) ==
    [b \in Bios |->
        LET n == Cardinality({c \in cs : c.bio = b})
            t == [task[b] EXCEPT !.cmpl = @ + n]
        IN  IF n > 0 /\ t.cmpl = t.submit THEN NoTask ELSE t]

(* copy_buf_to_bio: a read hands its buffer over with its last command *)
Finished(cs, b) == task[b].live /\ ~Counted(cs)[b].live
CopyBufToBio(cs) ==
    [a \in DOMAIN mem |->
        IF \E c \in cs : /\ c.read /\ Finished(cs, c.bio)
                         /\ a \in Bio(c.bio).adr .. Bio(c.bio).adr + Bio(c.bio).len - 1
        THEN LET b == (CHOOSE c \in cs : /\ c.read /\ Finished(cs, c.bio)
                                         /\ a \in Bio(c.bio).adr ..
                                                  Bio(c.bio).adr + Bio(c.bio).len - 1).bio
             IN  task[b].buf[a - Bio(b).adr + 1]
        ELSE mem[a]]

(* spdk_nvme_qpair_process_completions(qpair, 0): the callback of every     *)
(* command that is complete                                                 *)
ProcessCompletions(w) ==
    LET cs == Mine(w)
    IN  /\ cq' = cq \ cs
        /\ ccount' = [ccount EXCEPT ![w] = @ + Cardinality(cs)]
        /\ inflight' = [inflight EXCEPT ![w] = @ - Min2(@, Cardinality(cs))]
        /\ task' = Counted(cs)
        /\ mem' = CopyBufToBio(cs)

(* dispatch finds the pair at its cap, or SPDK has no free request (ENOMEM, *)
(* EINVAL) while commands are outstanding: it processes completions and     *)
(* tries again                                                              *)
MakeRoom(w) ==
    /\ InOp(w, "io") /\ Started(w) /\ Mine(w) # {}
    /\ ProcessCompletions(w)
    /\ UNCHANGED <<boot, pool, wk, sq, disk, todo, errs>>

(* poll_complete: take what is counted ... *)
Consumed(w) == Min2(ccount[w], wk[w].total - wk[w].done)
PollConsume(w) ==
    /\ InOp(w, "poll") /\ wk[w].done < wk[w].total /\ ccount[w] > 0
    /\ wk' = [wk EXCEPT ![w].done = @ + Consumed(w)]
    /\ ccount' = [ccount EXCEPT ![w] = @ - Consumed(w)]
    /\ UNCHANGED <<boot, pool, sq, cq, inflight, task, mem, disk, todo, errs>>

(* ... or process completions when nothing is *)
PollProcess(w) ==
    /\ InOp(w, "poll") /\ wk[w].done < wk[w].total /\ ccount[w] = 0
    /\ Mine(w) # {}
    /\ ProcessCompletions(w)
    /\ UNCHANGED <<boot, pool, wk, sq, disk, todo, errs>>

PollDone(w) ==
    /\ InOp(w, "poll") /\ wk[w].done = wk[w].total
    /\ wk' = [wk EXCEPT ![w] = [NextOp(@) EXCEPT !.total = 0, !.done = 0]]
    /\ UNCHANGED <<boot, pool, sq, cq, inflight, ccount, task, mem, disk, todo, errs>>

(* poll_complete(0) processes completions once and counts nothing for it *)
PollOnce(w) ==
    /\ InOp(w, "once")
    /\ ProcessCompletions(w)
    /\ wk' = [wk EXCEPT ![w] = NextOp(@)]
    /\ UNCHANGED <<boot, pool, sq, disk, todo, errs>>

(* The job ends; whoever waits for it (init_journal, the checkpoint thread  *)
(* in se_request_dispatch_io_sync, the Secure Daemon) goes on.              *)
Follows(name) ==
    CASE name = "load"    -> {"persist", "read"}
      [] name = "persist" -> {"commit"}
      [] name = "read"    -> {"write"}
      [] OTHER            -> {}
EndJob(w) ==
    /\ wk[w].job # NoJob /\ wk[w].job.prog = <<>>
    /\ wk' = [wk EXCEPT ![w] = Idle]
    /\ todo' = todo \union Follows(wk[w].job.name)
    /\ UNCHANGED <<boot, pool, sq, cq, inflight, ccount, task, mem, disk, errs>>

-----------------------------------------------------------------------------
(* The target executes commands in any order.                               *)
CmdBlk(c, i) == Bio(c.bio).blk + c.off + i - 1
CmdAdr(c, i) == Bio(c.bio).adr + c.off + i - 1

(* a custom buffer is read when the command runs, not when it is submitted *)
Payload(c, i) == IF c.custom THEN mem[CmdAdr(c, i)] ELSE task[c.bio].buf[c.off + i]

Execute(c) ==
    /\ c \in sq
    /\ sq' = sq \ {c} /\ cq' = cq \union {c}
    /\ disk' = IF c.read THEN disk
               ELSE [b \in DOMAIN disk |->
                        IF \E i \in 1 .. c.len : b = CmdBlk(c, i)
                        THEN Payload(c, b - CmdBlk(c, 1) + 1) ELSE disk[b]]
    /\ task' = IF ~c.read THEN task
               ELSE [task EXCEPT ![c.bio].buf =
                        [j \in DOMAIN @ |-> IF j - c.off \in 1 .. c.len
                                            THEN disk[CmdBlk(c, j - c.off)] ELSE @[j]]]
    /\ UNCHANGED <<boot, pool, wk, inflight, ccount, mem, todo, errs>>

(* a failed command completes like any other: the callback only logs it *)
Fail(c) ==
    /\ c \in sq /\ Cardinality(errs) < MaxErr
    /\ sq' = sq \ {c} /\ cq' = cq \union {c}
    /\ errs' = errs \union {c.bio}
    /\ UNCHANGED <<boot, pool, wk, inflight, ccount, task, mem, disk, todo>>

(* exit_storage_engine, after exit_journal waited for the pool: the queue   *)
(* pairs themselves are never freed                                         *)
Exit ==
    /\ up = "ready" /\ todo = {} /\ pool = <<>>
    /\ \A w \in Workers : wk[w] = Idle
    /\ up' = "exited" /\ res' = {}
    /\ UNCHANGED <<qpair, io>>

WorkerStep(w) ==
    \/ TakeJob(w) \/ AllocateTask(w) \/ Submit(w) \/ Dispatched(w) \/ MakeRoom(w)
    \/ PollConsume(w) \/ PollProcess(w) \/ PollDone(w) \/ PollOnce(w) \/ EndJob(w)

Boot ==
    \/ CreateCoreMask \/ AddTrid \/ EnvInit \/ EarlyFailure \/ RegisterWorkers
    \/ AttachCb \/ RegisterNs
    \/ StartPoller \/ AssociateWorkersWithNs \/ CleanupInit \/ Launch
    \/ \E w \in Workers : InitNsWorkerCtx(w)

Requests == \E name \in todo : Request(name)
Device == \E c \in sq : Execute(c) \/ Fail(c)

Next ==
    \/ Boot
    \/ Requests
    \/ \E w \in Workers : WorkerStep(w)
    \/ Device
    \/ Exit

Spec == Init /\ [][Next]_vars

(* The io workers are threads that only spin or work, the target executes   *)
(* every command, and a thread asks for its next I/O when it got its last:  *)
(* as long as one of them can move, one does.                               *)
Progress == (\E w \in Workers : WorkerStep(w)) \/ Requests \/ Device
Fairness == WF_vars(Progress)

-----------------------------------------------------------------------------
(* The types; a worker takes no more completions than it dispatched         *)
(* commands, and a task no more than it submitted.                          *)
TypeOK ==
    /\ up \in {"down", "mask", "opts", "env", "workers", "attached", "ctrlrs", "poller", "assoc",
               "ready", "failed", "panic", "exited"}
    /\ res \subseteq Resources
    /\ qpair \in [Workers -> {"none", "entry", "ready"}]
    /\ inflight \in [Workers -> 0 .. MaxReqs]
    /\ ccount \in [Workers -> Nat]
    /\ todo \subseteq Names /\ errs \subseteq Bios
    /\ \A w \in Workers : /\ wk[w].job.name \in Names \union {"none"}
                          /\ wk[w].total \in Nat /\ wk[w].done \in 0 .. wk[w].total
    /\ \A b \in Bios : task[b].cmpl \in 0 .. task[b].submit

Of(w) == {c \in sq \union cq : c.wk = w}

(* What a queue pair counts agrees with what it carries, never exceeds the  *)
(* cap, and a worker between two jobs has an empty pair and no completion   *)
(* left over that would end its next poll before its own commands completed *)
(* (qpair_inflight and qpair_completion_count of se_nvmf_fast.c).           *)
PairBalanced ==
    \A w \in Workers :
        /\ inflight[w] = Cardinality(Of(w))
        /\ inflight[w] <= InflightCap
        /\ wk[w].total - wk[w].done = inflight[w] + ccount[w]
        /\ wk[w] = Idle => Of(w) = {} /\ ccount[w] = 0

(* Dispatch uses a queue pair only after init connected it and before the   *)
(* engine is torn down.                                                     *)
UsedWhileUp ==
    /\ \A c \in sq \union cq : qpair[c.wk] = "ready"
    /\ (pool # <<>> \/ sq # {}) => up = "ready" /\ res = Resources

(* the job is still to be requested, queued, or running *)
Waiting(name) == \/ name \in todo
                 \/ \E w \in Workers : wk[w].job.name = name
                 \/ \E i \in DOMAIN pool : pool[i].name = name

(* What a synchronous call returned for is on the target or in memory: the  *)
(* super block load_journal_sb read is the target's, a checkpoint's read    *)
(* and write leave the destination equal to the source, a transaction's     *)
(* log blocks hold the fetched data, wrapped or not -- unless the target    *)
(* failed one of the commands.                                              *)
Landed ==
    LET ended(name) == up \in {"ready", "exited"} /\ ~Waiting(name)
        good(b) == b \notin errs
    IN  /\ ended("load") /\ good("load") => mem[0] = disk[0]
        /\ (ended("load") /\ ended("read")) =>
             \A b \in {"src1", "src2"} : good(b) =>
                \A i \in 0 .. Bio(b).len - 1 : mem[Bio(b).adr + i] = disk[Bio(b).blk + i]
        /\ (ended("load") /\ ended("read") /\ ended("write")) =>
             \A i \in 0 .. 3 : {"src1", "src2", "dst1", "dst2"} \cap errs = {} =>
                disk[5 + i] = disk[1 + i]
        /\ (ended("load") /\ ended("persist")) =>
             \A b \in {"log1", "log2"} : good(b) =>
                \A i \in 0 .. Bio(b).len - 1 : disk[Bio(b).blk + i] = mem[Bio(b).adr + i]

(* Every job given to the pool ends: no dispatch waits for ever at the cap  *)
(* and no poll for a completion somebody else consumed.                     *)
JobsEnd ==
    []<>(up = "ready" => /\ todo = {} /\ pool = <<>>
                         /\ \A w \in Workers : wk[w] = Idle)
=============================================================================
