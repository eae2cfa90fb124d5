----------------------------- MODULE NvmeEngine -----------------------------
(* The local NVMe storage engine of DevFS (storage_engine.c with SE_NVME,   *)
(* se_nvme.c): se_write hands every bio to the engine's thread pool and     *)
(* spins on is_completed, se_read runs on the calling thread, and the       *)
(* readahead submitters share queue pair 0 with one polling thread that     *)
(* sleeps on a semaphore.                                                   *)
(*                                                                          *)
(* SPDK splits a request of more than MaxIo blocks into children; the       *)
(* number process_completions returns counts children, while the callback   *)
(* of the request runs once, with the last of them.                         *)
EXTENDS Integers, Sequences, FiniteSets, TLC

CONSTANTS
    Pool,      \* thread ids of se_thpool, 0 .. n - 1; thread w uses pair w + 1
    Ras,       \* readahead bios, each submitted once by its own thread
    MaxIo,     \* ns_entry->max_io_size, in blocks
    RaLen,     \* blocks of a readahead bio
    Timer      \* the polls a wake-up of the polling thread is worth at least

VARIABLES
    script,    \* what the calling thread still has to do
    cpos,      \* the calling thread: bio and vector it is at, and its count
    jobs,      \* se_thpool's queue
    wk,        \* wk[w]: the bio a pool thread writes, or NoWork
    compl,     \* compl[b]: bio->is_completed
    seqbuf,    \* seqbuf[q]: the DMA buffer of pair q
    cmds,      \* children submitted and not executed
    exec,      \* children executed and not reaped
    rbuf,      \* rbuf[x]: the DMA buffer of a read request
    mem,       \* memory of the caller
    disk,      \* blocks of the device
    rapc,      \* rapc[r]: "new", "rdlock", "sent", "posted"
    ended,     \* readahead bios whose end_io ran
    poller,    \* the polling thread: "wait", "poll", "locked"
    sema, waitc, timer   \* w_sema, wait_count, timer of the polling thread

ioVars == <<script, cpos, jobs, wk, compl, seqbuf, cmds, exec, rbuf, mem, disk>>
raVars == <<rapc, ended, poller, sema, waitc, timer>>
vars == <<ioVars, raVars>>

Min2(a, b) == IF a < b THEN a ELSE b
DivideRoundUp(a, b) == (a + b - 1) \div b

RoundUp(a, b) == DivideRoundUp(a, b) * b

(* "each worker thread processes one bio request which is composed of a (or *)
(* rarely two) bi_io_vecs"                                                  *)
Bios == {1, 2}
Vecs(b) == IF b = 1 THEN <<1, 3>> ELSE <<2>>
First(b) == IF b = 1 THEN 0 ELSE 4
VecBlk(b, v) == First(b) + (IF v = 2 THEN Vecs(b)[1] ELSE 0)
NBlks == 6
SrcAdr(blk) == blk            \* what se_write writes ...
DstAdr(blk) == NBlks + blk    \* ... and where se_read puts it
Pairs == {0} \union {w + 1 : w \in Pool}
ReadPair == 1

(* a request and its children: cut off the front, MaxIo blocks at a time *)
Child(q, kind, b, v, i) == [q |-> q, kind |-> kind, b |-> b, v |-> v, i |-> i]
Children(q, kind, b, v, len) ==
    {Child(q, kind, b, v, i) : i \in 1 .. DivideRoundUp(len, MaxIo)}
Span(c, len) == (c.i - 1) * MaxIo + 1 .. Min2(c.i * MaxIo, len)

NoWork == [b |-> 0, v |-> 0, submit |-> 0, complete |-> 0]
AtStart == [b |-> 0, v |-> 0, submit |-> 0, complete |-> 0]

Init ==
    /\ script = <<"se_write", "se_read">>
    /\ cpos = AtStart
    /\ jobs = <<>>
    /\ wk = [w \in Pool |-> NoWork]
    /\ compl = [b \in Bios |-> 0]
    /\ seqbuf = [q \in Pairs |-> <<>>]
    /\ cmds = {} /\ exec = {}
    /\ rbuf = [x \in Bios \X {1, 2} |-> <<>>]
    /\ mem = [a \in 0 .. 2 * NBlks - 1 |-> IF a < NBlks THEN a + 1 ELSE 0]
    /\ disk = [b \in 0 .. NBlks - 1 |-> 0]
    /\ rapc = [r \in Ras |-> "new"]
    /\ ended = {}
    /\ poller = "wait"
    /\ sema = 0 /\ waitc = 0 /\ timer = 0

-----------------------------------------------------------------------------
(* se_write marks every bio incomplete, queues it and spins on              *)
(* is_completed; se_write_async leaves the wait to its caller, which polls  *)
(* se_is_completed: the same steps.                                         *)
SeWrite ==
    /\ script # <<>> /\ Head(script) = "se_write"
    /\ cpos.b < Cardinality(Bios)
    /\ compl' = [compl EXCEPT ![cpos.b + 1] = 0]
    /\ jobs' = Append(jobs, cpos.b + 1)
    /\ cpos' = [cpos EXCEPT !.b = @ + 1]
    /\ UNCHANGED <<script, wk, seqbuf, cmds, exec, rbuf, mem, disk, raVars>>

SeIsCompleted == \A b \in Bios : compl[b] = 1
SeWriteReturn ==
    /\ script # <<>> /\ Head(script) = "se_write"
    /\ cpos.b = Cardinality(Bios) /\ SeIsCompleted
    /\ script' = Tail(script) /\ cpos' = AtStart
    /\ UNCHANGED <<jobs, wk, compl, seqbuf, cmds, exec, rbuf, mem, disk, raVars>>

(* do_write takes a bio ... *)
TakeWrite(w) ==
    /\ wk[w] = NoWork /\ jobs # <<>>
    /\ wk' = [wk EXCEPT ![w] = [NoWork EXCEPT !.b = Head(jobs), !.v = 1]]
    /\ jobs' = Tail(jobs)
    /\ UNCHANGED <<script, cpos, compl, seqbuf, cmds, exec, rbuf, mem, disk, raVars>>

(* ... and for each vector copies it to the pair's buffer and submits it *)
NvmeWrite(w) ==
    LET b == wk[w].b
        v == wk[w].v
        len == Vecs(b)[v]
        q == w + 1
    IN  /\ b # 0 /\ v <= Len(Vecs(b)) /\ wk[w].submit = 0
        /\ seqbuf' = [seqbuf EXCEPT ![q] =
                        [i \in 1 .. len |-> mem[SrcAdr(VecBlk(b, v) + i - 1)]]]
        /\ cmds' = cmds \union Children(q, "write", b, v, len)
        /\ wk' = [wk EXCEPT ![w].submit = DivideRoundUp(len, MaxIo)]
        /\ UNCHANGED <<script, cpos, jobs, compl, exec, rbuf, mem, disk, raVars>>

Ready(q) == {c \in exec : c.q = q}

(* nvme_poll_complete: count what process_completions returns *)
PollWrite(w) ==
    /\ wk[w].submit > 0 /\ wk[w].complete < wk[w].submit
    /\ Ready(w + 1) # {}
    /\ exec' = exec \ Ready(w + 1)
    /\ wk' = [wk EXCEPT ![w].complete = @ + Cardinality(Ready(w + 1))]
    /\ UNCHANGED <<script, cpos, jobs, compl, seqbuf, cmds, rbuf, mem, disk, raVars>>

NextVec(r) == [r EXCEPT !.v = @ + 1, !.submit = 0, !.complete = 0]
WriteVecDoneEarly(w) ==
    /\ wk[w].submit > 0
    /\ wk' = [wk EXCEPT ![w] = NextVec(@)]
    /\ UNCHANGED <<script, cpos, jobs, compl, seqbuf, cmds, exec, rbuf, mem, disk, raVars>>

WriteVecDone(w) ==
    /\ wk[w].submit > 0 /\ wk[w].complete >= wk[w].submit
    /\ wk' = [wk EXCEPT ![w] = NextVec(@)]
    /\ UNCHANGED <<script, cpos, jobs, compl, seqbuf, cmds, exec, rbuf, mem, disk, raVars>>

SetIsCompleted(w) ==
    /\ wk[w].b # 0 /\ wk[w].v > Len(Vecs(wk[w].b))
    /\ compl' = [compl EXCEPT ![wk[w].b] = 1]
    /\ wk' = [wk EXCEPT ![w] = NoWork]
    /\ UNCHANGED <<script, cpos, jobs, seqbuf, cmds, exec, rbuf, mem, disk, raVars>>

-----------------------------------------------------------------------------
(* se_read: every vector of a bio is submitted on the read pair, each with  *)
(* a buffer of its own; then the thread polls for all of them.              *)
Reading == script # <<>> /\ Head(script) = "se_read"
StartRead ==
    /\ Reading /\ cpos.v = 0 /\ cpos.b < Cardinality(Bios)
    /\ cpos' = [cpos EXCEPT !.b = @ + 1, !.v = 1, !.submit = 0, !.complete = 0]
    /\ UNCHANGED <<script, jobs, wk, compl, seqbuf, cmds, exec, rbuf, mem, disk, raVars>>

NvmeRead ==
    LET b == cpos.b
        v == cpos.v
        len == Vecs(b)[v]
    IN  /\ Reading /\ v # 0 /\ v <= Len(Vecs(b))
        /\ rbuf' = [rbuf EXCEPT ![<<b, v>>] = [i \in 1 .. len |-> 0]]
        /\ cmds' = cmds \union Children(ReadPair, "read", b, v, len)
        /\ cpos' = [cpos EXCEPT !.v = @ + 1, !.submit = @ + RoundUp(len, MaxIo)]
        /\ UNCHANGED <<script, jobs, wk, compl, seqbuf, exec, mem, disk, raVars>>

(* read_complete of the requests whose last child is among cs *)
Whole(cs, b, v) ==
    /\ \E c \in cs : c.kind = "read" /\ c.b = b /\ c.v = v
    /\ ~\E c \in (cmds \union exec) \ cs : c.kind = "read" /\ c.b = b /\ c.v = v
CopyToUser(cs) ==
    [a \in DOMAIN mem |->
        IF \E b \in Bios : \E v \in DOMAIN Vecs(b) :
              Whole(cs, b, v) /\ \E i \in 1 .. Vecs(b)[v] : a = DstAdr(VecBlk(b, v) + i - 1)
        THEN LET x == CHOOSE x \in Bios \X {1, 2} :
                        /\ x[2] \in DOMAIN Vecs(x[1]) /\ Whole(cs, x[1], x[2])
                        /\ \E i \in 1 .. Vecs(x[1])[x[2]] :
                                a = DstAdr(VecBlk(x[1], x[2]) + i - 1)
             IN  rbuf[x][a - DstAdr(VecBlk(x[1], x[2])) + 1]
        ELSE mem[a]]

ReadPolling == Reading /\ cpos.b # 0 /\ cpos.v > Len(Vecs(cpos.b))
PollRead ==
    LET cs == Ready(ReadPair)
    IN  /\ ReadPolling /\ cpos.complete < DivideRoundUp(cpos.submit, MaxIo)
        /\ cs # {}
        /\ exec' = exec \ cs
        /\ mem' = CopyToUser(cs)
        /\ cpos' = [cpos EXCEPT !.complete = @ + Cardinality(cs)]
        /\ UNCHANGED <<script, jobs, wk, compl, seqbuf, cmds, rbuf, disk, raVars>>

ReadBioDone ==
    /\ ReadPolling /\ cpos.complete >= DivideRoundUp(cpos.submit, MaxIo)
    /\ cpos' = [cpos EXCEPT !.v = 0]
    /\ UNCHANGED <<script, jobs, wk, compl, seqbuf, cmds, exec, rbuf, mem, disk, raVars>>

SeReadReturn ==
    /\ Reading /\ cpos.v = 0 /\ cpos.b = Cardinality(Bios)
    /\ script' = Tail(script) /\ cpos' = AtStart
    /\ UNCHANGED <<jobs, wk, compl, seqbuf, cmds, exec, rbuf, mem, disk, raVars>>

-----------------------------------------------------------------------------
(* Readahead on pair 0.                                                     *)
Holders == {r \in Ras : rapc[r] = "rdlock"}
RaLock(r) ==
    /\ rapc[r] = "new" /\ poller # "locked"
    /\ rapc' = [rapc EXCEPT ![r] = "rdlock"]
    /\ UNCHANGED <<ioVars, ended, poller, sema, waitc, timer>>

(* SPDK is called, the lock is dropped *)
RaSubmit(r) ==
    /\ rapc[r] = "rdlock"
    /\ cmds' = cmds \union Children(0, "ra", r, 1, RaLen)
    /\ rapc' = [rapc EXCEPT ![r] = "sent"]
    /\ UNCHANGED <<script, cpos, jobs, wk, compl, seqbuf, exec, rbuf, mem, disk,
                   ended, poller, sema, waitc, timer>>

RaPost(r) ==
    /\ rapc[r] = "sent"
    /\ rapc' = [rapc EXCEPT ![r] = "posted"]
    /\ sema' = sema + 1
    /\ UNCHANGED <<ioVars, ended, poller, waitc, timer>>

PollerWake ==
    /\ poller = "wait" /\ sema > 0
    /\ sema' = sema - 1 /\ waitc' = waitc + 1 /\ timer' = Timer
    /\ poller' = "poll"
    /\ UNCHANGED <<ioVars, rapc, ended>>

PollerLock ==
    /\ poller = "poll" /\ Holders = {}
    /\ poller' = "locked"
    /\ UNCHANGED <<ioVars, rapc, ended, sema, waitc, timer>>

(* bio_complete runs with the last child of a request *)
RaDone(cs) == {r \in Ras : /\ \E c \in cs : c.kind = "ra" /\ c.b = r
                           /\ ~\E c \in (cmds \union exec) \ cs : c.kind = "ra" /\ c.b = r}

Answered(left) == left < 1 /\ timer < 0

(* process completions, drop the lock; sleep again when every wake-up was   *)
(* answered and the timer ran out (it is left below zero)                   *)
PollerReap ==
    LET cs == Ready(0)
        left == waitc - Cardinality(cs)
    IN  /\ poller = "locked"
        /\ exec' = exec \ cs
        /\ ended' = ended \union RaDone(cs)
        /\ waitc' = left
        /\ IF Answered(left)
           THEN poller' = "wait" /\ timer' = timer
           ELSE poller' = "poll" /\ timer' = IF timer < 0 THEN timer ELSE timer - 1
        /\ UNCHANGED <<script, cpos, jobs, wk, compl, seqbuf, cmds, rbuf, mem, disk,
                       rapc, sema>>

-----------------------------------------------------------------------------
(* The device executes a child: a write takes the pair's buffer as it is    *)
(* then.                                                                    *)
Execute(c) ==
    LET len == IF c.kind = "ra" THEN RaLen ELSE Vecs(c.b)[c.v]
        blk == VecBlk(c.b, c.v)
    IN  /\ c \in cmds
        /\ cmds' = cmds \ {c} /\ exec' = exec \union {c}
        /\ disk' = IF c.kind # "write" THEN disk
                   ELSE [x \in DOMAIN disk |-> IF x - blk + 1 \in Span(c, len)
                                               THEN seqbuf[c.q][x - blk + 1] ELSE disk[x]]
        /\ rbuf' = IF c.kind # "read" THEN rbuf
                   ELSE [rbuf EXCEPT ![<<c.b, c.v>>] =
                            [i \in DOMAIN @ |-> IF i \in Span(c, len)
                                                THEN disk[blk + i - 1] ELSE @[i]]]
        /\ UNCHANGED <<script, cpos, jobs, wk, compl, seqbuf, mem, raVars>>

Caller == SeWrite \/ SeWriteReturn \/ StartRead \/ NvmeRead \/ PollRead \/ ReadBioDone
          \/ SeReadReturn
PoolThread(w) == TakeWrite(w) \/ NvmeWrite(w) \/ PollWrite(w) \/ WriteVecDone(w)
                 \/ SetIsCompleted(w)
Submitter(r) == RaLock(r) \/ RaSubmit(r) \/ RaPost(r)
Poller == PollerWake \/ PollerLock \/ PollerReap
Device == \E c \in cmds : Execute(c)

Next ==
    \/ Caller
    \/ \E w \in Pool : PoolThread(w)
    \/ \E r \in Ras : Submitter(r)
    \/ Poller
    \/ Device

Spec == Init /\ [][Next]_vars

(* The callers, the pool and the device go on as long as one of them can;   *)
(* the polling thread runs, and lets the submitters have the lock.          *)
Progress == Caller \/ (\E w \in Pool : PoolThread(w)) \/ Device
Fairness ==
    /\ WF_vars(Progress)
    /\ WF_vars(Poller)
    /\ \A r \in Ras : SF_vars(Submitter(r))

-----------------------------------------------------------------------------
(* The types; no vector completes more than it submitted, in the rounded    *)
(* units the poll loops of se_nvme.c compare.                               *)
TypeOK ==
    /\ compl \in [Bios -> {0, 1}]
    /\ rapc \in [Ras -> {"new", "rdlock", "sent", "posted"}]
    /\ ended \subseteq Ras
    /\ poller \in {"wait", "poll", "locked"}
    /\ sema \in 0 .. Cardinality(Ras) /\ timer \in -1 .. Timer
    /\ \A w \in Pool : wk[w].complete \in 0 .. wk[w].submit
    /\ cpos.complete \in 0 .. DivideRoundUp(cpos.submit, MaxIo)

(* is_completed is set only after every block of the bio reached the        *)
(* device, though one buffer of the pair serves all its vectors, and        *)
(* se_read returns what was written.                                        *)
Durable ==
    /\ \A b \in Bios : compl[b] = 1 =>
          \A v \in DOMAIN Vecs(b) : \A i \in 0 .. Vecs(b)[v] - 1 :
             disk[VecBlk(b, v) + i] = mem[SrcAdr(VecBlk(b, v) + i)]
    /\ script = <<>> => \A x \in 0 .. NBlks - 1 : mem[DstAdr(x)] = mem[SrcAdr(x)]

(* What the polling thread still has to wait for is what is outstanding:    *)
(* w_sema plus wait_count is the number of posted bios whose end_io did not *)
(* run, less those that ended before their post.                            *)
WakeupsMatch ==
    sema + waitc = Cardinality({r \in Ras : rapc[r] = "posted"}) - Cardinality(ended)

(* Every readahead bio ends although the polling thread goes to sleep, and  *)
(* the callers of se_write and se_read return.                              *)
RaEnds == []<>(script = <<>> /\ ended = Ras)
=============================================================================
