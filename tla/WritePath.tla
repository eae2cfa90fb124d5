------------------------------ MODULE WritePath ------------------------------
(***************************************************************************)
(* The write and fsync path of one open file: application threads inside   *)
(* LibFS (read_write.c, journal.c, inode.c), the shared memory segment     *)
(* both sides map (common/shm.c, libfs/shm.c), the pool of workers of the  *)
(* Secure Daemon that serves LibFS messages (msg.c), with its queue of     *)
(* bounced fsyncs, and the journal thread gathering dirty pages.           *)
(*                                                                         *)
(* A page is protected by one lock bit and marked by one dirty bit; pages  *)
(* are grouped, and a group has a dirty bit and an allocated bit of its    *)
(* own.  The lock bits of PerByte pages share a byte, which the daemon     *)
(* updates with a plain read and write and LibFS with atomic operations.   *)
(***************************************************************************)
EXTENDS Integers, Sequences, FiniteSets

CONSTANTS Callers,      \* application threads
          Workers,      \* rpc_libfs_handler_thpool
          Pages,        \* page indexes: 0 .. Pages - 1
          PerGroup,     \* NR_PAGES_IN_PEB
          PerByte,      \* BITS_IN_BYTE
          Starts,       \* [alc, work]: allocated groups and calls to make
          Nil

VARIABLES alc,        \* allocated bits: groups with a page entry block
          grp,        \* dirty group bits
          dirty,      \* dirty bits
          plock,      \* lock bits
          owner,      \* i_rwlock
          shm,        \* i_state: RUNNING_TX, RUNNING_TX_REQUESTED, DATA_DIRTY
          listed,     \* I_IN_JTX_DIRTY_LIST: the file is in the transaction
          ver, saved, \* per page: the last write, the last write copied out
          work,       \* per caller: the calls still to make
          cpc, at,    \* per caller: its step and the page it is at
          journalled, \* per caller: it asked for the transaction
          queue,      \* jobs of the pool
          bounced,    \* g_fsync_bounce_head .. g_fsync_bounce_tail
          wpc, job,   \* per worker: its step and job
          got,        \* per gatherer: pages gathered and not yet copied
          todo, byte  \* the gather in progress: pages left, lock byte read

vars == <<alc, grp, dirty, plock, owner, shm, listed, ver, saved, work, cpc,
          at, journalled, queue, bounced, wpc, job, got, todo, byte>>
segment == <<alc, grp, dirty, plock, shm>>
calls   == <<work, cpc, at, journalled>>
pool    == <<queue, bounced, wpc, job>>
gather  == <<got, todo, byte>>

Journal   == "journal"
Gatherers == Workers \cup {Journal}
PageSet   == 0 .. Pages - 1
Group(p)  == p \div PerGroup
Byte(p)   == {q \in PageSet : q \div PerByte = p \div PerByte}
GroupPages(g) == {q \in PageSet : Group(q) = g}

\* A call: a write of the pages first .. last, or an fsync.
IsWrite(c) == work[c] # <<>> /\ Head(work[c]).op = "write"
First(c)   == Head(work[c]).first
Last(c)    == Head(work[c]).last

Init ==
    /\ \E s \in Starts : alc = s.alc /\ work = s.work
    /\ grp = {} /\ dirty = {} /\ plock = {} /\ owner = Nil
    /\ shm = {}
    /\ listed \in BOOLEAN    \* a file just created is listed by mark_inode_dirty
    /\ ver = [p \in PageSet |-> 0] /\ saved = ver
    /\ cpc = [c \in Callers |-> "idle"] /\ at = [c \in Callers |-> 0]
    /\ journalled = [c \in Callers |-> FALSE]
    /\ queue = <<>> /\ bounced = <<>>
    /\ wpc = [w \in Workers |-> "idle"] /\ job = [w \in Workers |-> Nil]
    /\ got = [g \in Gatherers |-> {}] /\ todo = {} /\ byte = Nil

Step(c, l) == cpc' = [cpc EXCEPT ![c] = l]
At(c, l)   == cpc[c] = l
Return(c)  == Step(c, "idle") /\ work' = [work EXCEPT ![c] = Tail(@)]

-----------------------------------------------------------------------------
(* LibFS: libfs_write. *)

\* Before any lock, every page's group gets its page entry block:
\* shm_alloc_check tests the allocated bit ...
AllocCheck(c) ==
    /\ At(c, "alloc") \/ (IsWrite(c) /\ At(c, "idle"))
    /\ LET p == IF At(c, "idle") THEN First(c) ELSE at[c] IN
       /\ at' = [at EXCEPT ![c] = p]
       /\ \/ Group(p) \notin alc /\ Step(c, "allocset")
          \/ Group(p) \in alc /\ Step(c, "allocnext")
    /\ UNCHANGED <<segment, owner, listed, ver, saved, work, journalled, pool, gather>>

\* ... sets it ...
AllocSet(c) ==
    /\ At(c, "allocset")
    /\ alc' = alc \cup {Group(at[c])}
    /\ Step(c, "alloczero")
    /\ UNCHANGED <<grp, dirty, plock, shm, owner, listed, ver, saved, work, at, journalled, pool, gather>>

\* ... and clears the block: the dirty and lock bits of the whole group.
AllocZero(c) ==
    /\ At(c, "alloczero")
    /\ dirty' = dirty \ GroupPages(Group(at[c]))
    /\ plock' = plock \ GroupPages(Group(at[c]))
    /\ Step(c, "allocnext")
    /\ UNCHANGED <<alc, grp, shm, owner, listed, ver, saved, work, at, journalled, pool, gather>>

\* Both loops run to end_pg_idx included.
More(c) == at[c] < Last(c)

AllocNext(c) ==
    /\ At(c, "allocnext")
    /\ \/ More(c) /\ at' = [at EXCEPT ![c] = @ + 1] /\ Step(c, "alloc")
       \/ ~More(c) /\ UNCHANGED at /\ Step(c, "lock")
    /\ UNCHANGED <<segment, owner, listed, ver, saved, work, journalled, pool, gather>>

\* dirty_page_group for the first and the last page of the write.
DirtyGroupsFirst(c) == {Group(First(c))}
DirtyGroups(c) == {Group(First(c)), Group(Last(c))}

\* shared_inode_lock, shared_data_dirty, libfs_journal_start: the first writer
\* since the last commit asks the daemon to list the file, and does not wait.
WriteLock(c) ==
    /\ At(c, "lock") /\ owner = Nil
    /\ owner' = c
    /\ LET ask == shm \cap {"running", "requested"} = {} IN
       /\ journalled' = [journalled EXCEPT ![c] = ask]
       /\ shm' = shm \cup {"data"} \cup IF ask THEN {"requested"} ELSE {}
       /\ queue' = IF ask THEN Append(queue, [op |-> "add", by |-> c]) ELSE queue
    /\ grp' = grp \cup DirtyGroups(c)
    /\ at' = [at EXCEPT ![c] = First(c)]
    /\ Step(c, "page")
    /\ UNCHANGED <<alc, dirty, plock, listed, ver, saved, work, bounced, wpc, job, gather>>

\* lock_page_bit spins until the bit is clear, the file lock held.
PageLock(c) ==
    /\ At(c, "page") /\ at[c] \notin plock
    /\ plock' = plock \cup {at[c]}
    /\ Step(c, "copy")
    /\ UNCHANGED <<alc, grp, dirty, shm, owner, listed, ver, saved, work, at, journalled, pool, gather>>

\* The copy into the page, the dirty bit, and the page unlocked.
PageWrite(c) ==
    /\ At(c, "copy")
    /\ ver' = [ver EXCEPT ![at[c]] = @ + 1]
    /\ dirty' = dirty \cup {at[c]}
    /\ plock' = plock \ {at[c]}
    /\ \/ More(c) /\ at' = [at EXCEPT ![c] = @ + 1] /\ Step(c, "page")
       \/ ~More(c) /\ UNCHANGED at /\ Step(c, "end")
    /\ UNCHANGED <<alc, grp, shm, owner, listed, saved, work, journalled, pool, gather>>

\* libfs_journal_end waits for the daemon's answer with the file lock held.
WriteEnd(c) ==
    /\ At(c, "end")
    /\ journalled[c] => "running" \in shm
    /\ shm' = IF journalled[c] THEN shm \ {"requested"} ELSE shm
    /\ owner' = Nil
    /\ Return(c)
    /\ UNCHANGED <<alc, grp, dirty, plock, listed, ver, saved, at, journalled, pool, gather>>

\* libfs_file_fsync: one message, and the wait for its answer.
FsyncSend(c) ==
    /\ work[c] # <<>> /\ ~IsWrite(c) /\ At(c, "idle")
    /\ queue' = Append(queue, [op |-> "fsync", by |-> c])
    /\ Step(c, "sent")
    /\ UNCHANGED <<segment, owner, listed, ver, saved, work, at, journalled, bounced, wpc, job, gather>>

-----------------------------------------------------------------------------
(* The Secure Daemon: the pool that runs rpc_shmem_libfs_handler. *)

WStep(w, l) == wpc' = [wpc EXCEPT ![w] = l]
WAt(w, l)   == wpc[w] = l
Working     == Cardinality({w \in Workers : wpc[w] # "idle"})
Alive       == Cardinality(Workers)

\* thpool: an idle worker takes the first job and counts as working.
Pick(w) ==
    /\ WAt(w, "idle") /\ queue # <<>>
    /\ job' = [job EXCEPT ![w] = Head(queue)]
    /\ queue' = Tail(queue)
    /\ WStep(w, Head(queue).op)
    /\ UNCHANGED <<segment, owner, listed, ver, saved, calls, bounced, gather>>

\* inode_add_journal lists the file unless it is listed, and sets RUNNING_TX in
\* both cases.
NewStateListed == IF listed THEN {} ELSE {"running"}
NewState == {"running"}

AddJournal(w) ==
    /\ WAt(w, "add")
    /\ listed' = TRUE
    /\ shm' = shm \cup NewState
    /\ WStep(w, "drain")
    /\ UNCHANGED <<alc, grp, dirty, plock, owner, ver, saved, calls, queue, bounced, job, gather>>

\* MSG_FSYNC: with no idle worker left the request goes to the bounce queue.
MustBounce == Working = Alive

FsyncCheck(w) ==
    /\ WAt(w, "fsync")
    /\ WStep(w, IF MustBounce THEN "bounce" ELSE "shlock")
    /\ UNCHANGED <<segment, owner, listed, ver, saved, calls, queue, bounced, job, gather>>

\* The handler returns at once, and drains nothing.
Bounce(w) ==
    /\ WAt(w, "bounce")
    /\ bounced' = Append(bounced, job[w])
    /\ job' = [job EXCEPT ![w] = Nil]
    /\ WStep(w, "idle")
    /\ UNCHANGED <<segment, owner, listed, ver, saved, calls, queue, gather>>

\* build_stage_tx takes the file lock and starts gathering.
FsyncLock(w) ==
    /\ WAt(w, "shlock") /\ owner = Nil
    /\ owner' = w
    /\ todo' = {p \in dirty : Group(p) \in grp} /\ grp' = {} /\ byte' = Nil
    /\ WStep(w, "gather")
    /\ UNCHANGED <<alc, dirty, plock, shm, listed, ver, saved, calls, queue, bounced, job, got>>

\* gather_dirty_bits, one page: the lock byte is read ...
GatherRead(g) ==
    /\ owner = g /\ g \in Gatherers /\ byte = Nil /\ todo # {}
    /\ LET p == CHOOSE q \in todo : \A r \in todo : q <= r IN
       /\ byte' = plock \cap Byte(p)
       /\ dirty' = dirty \ {p}
    /\ UNCHANGED <<alc, grp, plock, shm, owner, listed, ver, saved, calls, pool, got, todo>>

\* ... and written back with the page's bit set.
NewByte(p) == byte \cup {p}

GatherWrite(g) ==
    /\ owner = g /\ g \in Gatherers /\ byte # Nil
    /\ LET p == CHOOSE q \in todo : \A r \in todo : q <= r IN
       /\ plock' = (plock \ Byte(p)) \cup NewByte(p)
       /\ got' = [got EXCEPT ![g] = @ \cup {p}]
       /\ todo' = todo \ {p}
    /\ byte' = Nil
    /\ UNCHANGED <<alc, grp, dirty, shm, owner, listed, ver, saved, calls, pool>>

\* The lists built, the file is unlocked; the pages stay locked.
FsyncUnlock(w) ==
    /\ WAt(w, "gather") /\ owner = w /\ todo = {}
    /\ owner' = Nil
    /\ WStep(w, "copyout")
    /\ UNCHANGED <<segment, listed, ver, saved, calls, queue, bounced, job, gather>>

\* stage_file_data / copy_dirty_data: the copy of a page, then its unlocking.
UnlockPagebit(p) == plock \ {p}

CopyOut(g, p) ==
    /\ saved' = [saved EXCEPT ![p] = ver[p]]
    /\ plock' = UnlockPagebit(p)
    /\ got' = [got EXCEPT ![g] = @ \ {p}]

FsyncCopy(w) ==
    /\ WAt(w, "copyout")
    /\ \E p \in got[w] : CopyOut(w, p)
    /\ UNCHANGED <<alc, grp, dirty, shm, owner, listed, ver, calls, pool, todo, byte>>

\* msg_send_libfs_basic_resp wakes the caller.
FsyncResp(w) ==
    /\ WAt(w, "copyout") /\ got[w] = {}
    /\ Return(job[w].by)
    /\ WStep(w, "drain")
    /\ UNCHANGED <<segment, owner, listed, ver, saved, at, journalled, queue, bounced, job, gather>>

\* fsync_bounce_drain_to_capacity with FSYNC_BOUNCE_DRAIN_CAP = 1.
Drain(w) ==
    /\ WAt(w, "drain")
    /\ LET go == Working < Alive /\ bounced # <<>> IN
       /\ queue' = IF go THEN Append(queue, Head(bounced)) ELSE queue
       /\ bounced' = IF go THEN Tail(bounced) ELSE bounced
    /\ job' = [job EXCEPT ![w] = Nil]
    /\ WStep(w, "idle")
    /\ UNCHANGED <<segment, owner, listed, ver, saved, calls, gather>>

-----------------------------------------------------------------------------
(* The journal thread: build_jtx_regular_file. *)

JournalLock ==
    /\ listed /\ owner = Nil /\ got[Journal] = {}
    /\ owner' = Journal
    /\ todo' = {p \in dirty : Group(p) \in grp} /\ grp' = {} /\ byte' = Nil
    /\ UNCHANGED <<alc, dirty, plock, shm, listed, ver, saved, calls, pool, got>>

\* The dirty state is cleared with the file still locked.
JournalUnlock ==
    /\ owner = Journal /\ todo = {}
    /\ listed' = FALSE
    /\ shm' = shm \ {"running"}
    /\ owner' = Nil
    /\ UNCHANGED <<alc, grp, dirty, plock, ver, saved, calls, pool, gather>>

JournalCopy ==
    /\ owner # Journal
    /\ \E p \in got[Journal] : CopyOut(Journal, p)
    /\ UNCHANGED <<alc, grp, dirty, shm, owner, listed, ver, calls, pool, todo, byte>>

-----------------------------------------------------------------------------
CallerStep(c) ==
    \/ AllocCheck(c) \/ AllocSet(c) \/ AllocZero(c) \/ AllocNext(c)
    \/ WriteLock(c) \/ PageLock(c) \/ PageWrite(c) \/ WriteEnd(c) \/ FsyncSend(c)
WorkerStep(w) ==
    \/ Pick(w) \/ AddJournal(w) \/ FsyncCheck(w) \/ Bounce(w) \/ FsyncLock(w)
    \/ GatherRead(w) \/ GatherWrite(w) \/ FsyncUnlock(w) \/ FsyncCopy(w)
    \/ FsyncResp(w) \/ Drain(w)
JournalStep ==
    \/ JournalLock \/ GatherRead(Journal) \/ GatherWrite(Journal)
    \/ JournalUnlock \/ JournalCopy

Next ==
    \/ \E c \in Callers : CallerStep(c)
    \/ \E w \in Workers : WorkerStep(w)
    \/ JournalStep

\* Threads run.  The calls are finitely many, so a lock cannot be taken from a
\* waiting thread for ever.
Fairness ==
    /\ \A c \in Callers : WF_vars(CallerStep(c))
    /\ \A w \in Workers : WF_vars(WorkerStep(w))
    /\ WF_vars(JournalStep)

Spec == Init /\ [][Next]_vars /\ Fairness

-----------------------------------------------------------------------------
(* Properties. *)

\* Every variable holds a value of its type.
TypeOK ==
    /\ grp \subseteq {Group(p) : p \in PageSet} /\ alc \subseteq {Group(p) : p \in PageSet}
    /\ dirty \subseteq PageSet /\ plock \subseteq PageSet /\ todo \subseteq PageSet
    /\ owner \in Callers \cup Gatherers \cup {Nil}
    /\ shm \subseteq {"running", "requested", "data"} /\ listed \in BOOLEAN
    /\ \A w \in Workers :
         /\ wpc[w] \in {"idle", "add", "fsync", "bounce", "shlock", "gather", "copyout", "drain"}
         /\ wpc[w] = "idle" <=> job[w] = Nil
    /\ \A g \in Gatherers : got[g] \subseteq PageSet
    /\ \A c \in Callers : at[c] \in PageSet

\* No write is lost to fsync and commit: a page written since it was last
\* copied out is found by the next gather (its dirty bit and its group's are
\* set), or is in a gather under way (libfs_write, gather_dirty_bits).
DirtyTracked ==
    \A p \in PageSet : ver[p] # saved[p] =>
       \/ p \in dirty /\ Group(p) \in grp
       \/ p \in todo
       \/ \E g \in Gatherers : p \in got[g]

\* A page that a fsync or the journal gathered keeps its contents until it is
\* copied: its lock bit is set, and only its gatherer holds it.  A page found
\* dirty is never locked, so gather_dirty_bits never takes its error return.
StableCopy ==
    /\ \A g \in Gatherers : \A p \in got[g] :
         /\ p \in plock
         /\ \A h \in Gatherers \ {g} : p \notin got[h]
         /\ \A c \in Callers : ~(At(c, "copy") /\ at[c] = p)
    /\ owner \in Gatherers => todo \cap plock = {}

\* A set lock bit belongs to a writer at the page or to a gatherer that will
\* clear it: none is left behind for a writer to spin on (lock_page_bit).
LockOwned ==
    \A p \in plock : \/ \E c \in Callers : At(c, "copy") /\ at[c] = p
                     \/ \E g \in Gatherers : p \in got[g]

\* Fsyncs never occupy the whole pool: a worker is left for the add_journal
\* message that a writer awaits while it holds the file lock every fsync wants.
SpareWorker ==
    \E w \in Workers : wpc[w] \notin {"shlock", "gather", "copyout"}

\* Every write returns, though it waits with the file lock held.
WritesReturn == []<>(\A c \in Callers : cpc[c] \in {"idle", "sent"})

\* Every fsync returns.
FsyncReturns == \A c \in Callers : cpc[c] = "sent" ~> cpc[c] = "idle"
=============================================================================
