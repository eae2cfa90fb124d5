----------------------------- MODULE HostJournal -----------------------------
(***************************************************************************)
(* The Secure Daemon's background journal (secure_daemon/src/fs/journal.c, *)
(* inode.c, sync.c, msg.c): threads that put dirty or fsynced regular      *)
(* files into the running transaction, the journal worker that closes a    *)
(* transaction, builds it and sends it to DevFS through one of the two     *)
(* data fetchers, and the callback threads that handle the responses.      *)
(*                                                                         *)
(* A transaction is an object 1, 2, ... in the order of new_transaction(); *)
(* its tid is a field, which discard_transaction() of the one before may   *)
(* decrement.                                                              *)
(***************************************************************************)
EXTENDS Naturals, FiniteSets

CONSTANTS DF, Inodes, Threads,
          ChunkBlks,   \* blocks of a data fetcher buffer
          MaxBlks,     \* bound: blocks copied into a transaction
          MaxObj       \* bound: transactions allocated

ASSUME HostAssumption ==
    /\ \E a, b \in DF : a # b /\ DF = {a, b}       \* g_df_ctxs[2]
    /\ IsFiniteSet(Threads)
    /\ "free" \notin Threads /\ "worker" \notin Threads
    /\ ChunkBlks \in Nat \ {0, 1}      \* 32 MB
    /\ MaxBlks \in Nat \ {0, 1}
    /\ MaxObj \in Nat \ {0}

VARIABLES
    tr,        \* the transactions
    front,     \* journal->front
    nobj,      \* transactions allocated so far
    seq,       \* j_transaction_sequence
    occupied,  \* g_df_occupied
    w,         \* the journal worker
    th,        \* the threads that dirty or fsync files
    ino,       \* per inode: dirty bit, i_journal_txid, pending stage tx
    ilock,     \* inode_lock() holder
    slock,     \* shared_inode_lock() holder
    inflight,  \* transactions whose commit request is not answered
    cb,        \* responses being handled: object -> step
    mrc,       \* journal->mrc_tx_id
    failed,    \* the BUG_ON or panic that stopped the daemon, or "no"
    last,      \* history: the last transaction with something to commit
    revoked    \* history: inodes marked with a tid that was revoked later

hvars == <<tr, front, nobj, seq, occupied, w, th, ino, ilock, slock, inflight,
           cb, mrc, failed, last, revoked>>

Obj  == 1..MaxObj
Free == "free"       \* of a lock
Work == "worker"     \* the journal worker as a lock holder
Alive == failed = "no"

NewTx(tid, df) == [tid |-> tid, df |-> df, state |-> "new", ref |-> 0, files |-> {}]
IdleThread == [pc |-> "idle", op |-> "none", i |-> 0, o |-> 0]
IdleWorker == [pc |-> "start", o |-> 0, next |-> 0, todo |-> {}, i |-> 0,
               fill |-> 0, used |-> 0]

Init ==
    \E d \in DF :
        /\ tr = [o \in {1} |-> [NewTx(1, d) EXCEPT !.state = "running"]]
        /\ front = 1
        /\ nobj = 1
        /\ seq = 2
        /\ occupied = {d}
        /\ w = IdleWorker
        /\ th = [t \in Threads |-> IdleThread]
        /\ ino = [i \in Inodes |-> [dirty |-> FALSE, txid |-> 0, stage |-> FALSE]]
        /\ ilock = [i \in Inodes |-> Free]
        /\ slock = [i \in Inodes |-> Free]
        /\ inflight = {}
        /\ cb = [o \in Obj |-> "none"]
        /\ mrc = 0
        /\ failed = "no"
        /\ last = [tid |-> 0, df |-> d, reqs |-> 0, data |-> 0]
        /\ revoked = {}

-----------------------------------------------------------------------------
(* mark_inode_dirty() / inode_add_journal(), and the fsync path            *)
(* check_and_add_journal_file(), for regular files.                        *)

(* An inode that already has the dirty bit is skipped under its lock.      *)
MarkDirty(t) ==
    /\ Alive
    /\ th[t].pc = "idle"
    /\ \E i \in Inodes :
          /\ ilock[i] = Free
          /\ ~ino[i].dirty
          /\ ilock' = [ilock EXCEPT ![i] = t]
          /\ th' = [th EXCEPT ![t] = [pc |-> "front", op |-> "mark", i |-> i, o |-> 0]]
    /\ UNCHANGED <<tr, front, nobj, seq, occupied, w, ino, slock, inflight, cb,
                   mrc, failed, last, revoked>>

(* stage_file() holds the shared inode lock, then takes the inode lock.    *)
Fsync(t) ==
    /\ Alive
    /\ th[t].pc = "idle"
    /\ \E i \in Inodes :
          /\ slock[i] = Free
          /\ slock' = [slock EXCEPT ![i] = t]
          /\ th' = [th EXCEPT ![t] = [pc |-> "ilock", op |-> "stage", i |-> i, o |-> 0]]
    /\ UNCHANGED <<tr, front, nobj, seq, occupied, w, ino, ilock, inflight, cb,
                   mrc, failed, last, revoked>>

FsyncLock(t) ==
    /\ Alive
    /\ th[t].pc = "ilock"
    /\ ilock[th[t].i] = Free
    /\ ilock' = [ilock EXCEPT ![th[t].i] = t]
    /\ th' = [th EXCEPT ![t].pc = "front"]
    /\ UNCHANGED <<tr, front, nobj, seq, occupied, w, ino, slock, inflight, cb,
                   mrc, failed, last, revoked>>

(* get_running_trans(): the front pointer is read under the journal lock,  *)
(* the state of the transaction later, under its own lock.                 *)
ReadFront(t) ==
    /\ Alive
    /\ th[t].pc = "front"
    /\ th' = [th EXCEPT ![t].pc = "check", ![t].o = front]
    /\ UNCHANGED <<tr, front, nobj, seq, occupied, w, ino, ilock, slock, inflight,
                   cb, mrc, failed, last, revoked>>

Join(o) == tr' = [tr EXCEPT ![o].ref = @ + 1]

CheckState(t) ==
    /\ Alive
    /\ th[t].pc = "check"
    /\ LET o == th[t].o
       IN  CASE tr[o].state = "running" ->
                    /\ Join(o)
                    /\ th' = [th EXCEPT ![t].pc = "add"]
                    /\ UNCHANGED failed
             [] tr[o].state \in {"locked", "build"} ->
                    /\ th' = [th EXCEPT ![t].pc = "front"]
                    /\ UNCHANGED <<tr, failed>>
             [] tr[o].state = "commit" ->
                    /\ failed' = "state"
                    /\ UNCHANGED <<tr, th>>
             [] OTHER ->                    \* reads freed memory: anything follows
                    /\ failed' = "freed"
                    /\ UNCHANGED <<tr, th>>
    /\ UNCHANGED <<front, nobj, seq, occupied, w, ino, ilock, slock, inflight, cb,
                   mrc, last, revoked>>

(* Mutant: the early return for a listed file skips end_journal().         *)
AfterAddLeak(t) ==
    IF th[t].op = "stage" /\ th[t].i \in tr[th[t].o].files THEN "leave" ELSE "mark"

AfterAdd(t) ==
    IF th[t].op = "stage" /\ th[t].i \in tr[th[t].o].files THEN "end" ELSE "mark"

(* kh_put(); the fsync path leaves a file alone that is already in the set.*)
AddFile(t) ==
    /\ Alive
    /\ th[t].pc = "add"
    /\ tr' = [tr EXCEPT ![th[t].o].files = @ \cup {th[t].i}]
    /\ th' = [th EXCEPT ![t].pc = AfterAdd(t)]
    /\ UNCHANGED <<front, nobj, seq, occupied, w, ino, ilock, slock, inflight, cb,
                   mrc, failed, last, revoked>>

SetDirty(t) ==
    /\ Alive
    /\ th[t].pc = "mark"
    /\ ino' = [ino EXCEPT ![th[t].i].dirty = TRUE,
                          ![th[t].i].txid = tr[th[t].o].tid]
    /\ revoked' = revoked \ {th[t].i}
    /\ th' = [th EXCEPT ![t].pc = "end"]
    /\ UNCHANGED <<tr, front, nobj, seq, occupied, w, ilock, slock, inflight, cb,
                   mrc, failed, last>>

(* end_journal() drops the reference with the locks still held.            *)
EndJournal(t) ==
    /\ Alive
    /\ th[t].pc = "end"
    /\ tr' = [tr EXCEPT ![th[t].o].ref = @ - 1]
    /\ th' = [th EXCEPT ![t].pc = "leave"]
    /\ UNCHANGED <<front, nobj, seq, occupied, w, ino, ilock, slock, inflight, cb,
                   mrc, failed, last, revoked>>

(* mark_inode_dirty() sets the dirty bit once more, fsync links its stage  *)
(* transaction to the inode; then the locks are released.                  *)
Leave(t) ==
    /\ Alive
    /\ th[t].pc = "leave"
    /\ LET i == th[t].i
       IN  /\ ino' = IF th[t].op = "stage" THEN [ino EXCEPT ![i].stage = TRUE]
                                           ELSE [ino EXCEPT ![i].dirty = TRUE]
           /\ ilock' = [ilock EXCEPT ![i] = Free]
           /\ slock' = IF th[t].op = "stage" THEN [slock EXCEPT ![i] = Free]
                                             ELSE slock
    /\ th' = [th EXCEPT ![t] = IdleThread]
    /\ UNCHANGED <<tr, front, nobj, seq, occupied, w, inflight, cb, mrc, failed,
                   last, revoked>>

-----------------------------------------------------------------------------
(* The journal worker: build_transaction() and request_commit().           *)

(* new_transaction() for the transaction after the one to be built, which  *)
(* waits in alloc_data_fetcher() until a data fetcher is free.  Nothing of *)
(* the current transaction has been sent yet.                              *)
NewTransaction ==
    /\ Alive
    /\ w.pc = "start"
    /\ nobj < MaxObj
    /\ \E d \in DF \ occupied :
          /\ tr' = [o \in 1..(nobj + 1) |-> IF o <= nobj THEN tr[o] ELSE NewTx(seq, d)]
          /\ occupied' = occupied \cup {d}
    /\ nobj' = nobj + 1
    /\ seq' = seq + 1
    /\ w' = [w EXCEPT !.pc = "lock", !.o = front, !.next = nobj + 1]
    /\ UNCHANGED <<front, th, ino, ilock, slock, inflight, cb, mrc, failed, last,
                   revoked>>

LockTx ==
    /\ Alive
    /\ w.pc = "lock"
    /\ tr' = [tr EXCEPT ![w.o].state = "locked"]
    /\ w' = [w EXCEPT !.pc = "drain"]
    /\ UNCHANGED <<front, nobj, seq, occupied, th, ino, ilock, slock, inflight, cb,
                   mrc, failed, last, revoked>>

(* Mutant: the worker does not wait for the file operations.               *)
DrainedAtOnce(o) == TRUE

Drained(o) == tr[o].ref = 0

(* The wait for ref = 0, then start_transaction(next).                     *)
StartNext ==
    /\ Alive
    /\ w.pc = "drain"
    /\ Drained(w.o)
    /\ front' = w.next
    /\ tr' = [tr EXCEPT ![w.next].state = "running"]
    /\ w' = [w EXCEPT !.pc = "snapshot"]
    /\ UNCHANGED <<nobj, seq, occupied, th, ino, ilock, slock, inflight, cb, mrc,
                   failed, last, revoked>>

(* copy_blk(): n blocks go into the current buffer.  The first one is what *)
(* makes the transaction worth a commit; a full buffer is sent at once.    *)
Copied(n) ==
    LET full == w.fill + n = ChunkBlks
    IN  [w EXCEPT !.used = @ + n, !.fill = IF full THEN 0 ELSE @ + n]
LastAfter(n) ==
    LET l == IF n > 0 /\ w.used = 0
               THEN [tid |-> tr[w.o].tid, df |-> tr[w.o].df, reqs |-> 0, data |-> 0]
               ELSE last
    IN  IF w.fill + n = ChunkBlks
          THEN [l EXCEPT !.reqs = @ + 1, !.data = @ + ChunkBlks]
          ELSE l

(* snapshot_metadata_blocks() copies what is dirty, perhaps nothing; then  *)
(* the state becomes TR_BUILD and the files of the set are built in turn.  *)
Snapshot ==
    /\ Alive
    /\ w.pc = "snapshot"
    /\ \E n \in {0, 1} :
          /\ w' = [Copied(n) EXCEPT !.pc = "build", !.todo = tr[w.o].files]
          /\ last' = LastAfter(n)
    /\ tr' = [tr EXCEPT ![w.o].state = "build"]
    /\ UNCHANGED <<front, nobj, seq, occupied, th, ino, ilock, slock, inflight, cb,
                   mrc, failed, revoked>>

(* Mutant: a file is taken out of the set when its build starts.           *)
BuildFileDel ==
    /\ Alive
    /\ w.pc = "build"
    /\ \E i \in w.todo :
          /\ slock[i] = Free
          /\ slock' = [slock EXCEPT ![i] = Work]
          /\ tr' = [tr EXCEPT ![w.o].files = @ \ {i}]
          /\ w' = [w EXCEPT !.pc = "cut", !.i = i, !.todo = @ \ {i}]
    /\ UNCHANGED <<front, nobj, seq, occupied, th, ino, ilock, inflight, cb, mrc,
                   failed, last, revoked>>

(* build_jtx_regular_file(): shared_inode_lock().                          *)
BuildFile ==
    /\ Alive
    /\ w.pc = "build"
    /\ \E i \in w.todo :
          /\ slock[i] = Free
          /\ slock' = [slock EXCEPT ![i] = Work]
          /\ w' = [w EXCEPT !.pc = "cut", !.i = i, !.todo = @ \ {i}]
    /\ UNCHANGED <<tr, front, nobj, seq, occupied, th, ino, ilock, inflight, cb,
                   mrc, failed, last, revoked>>

StageAfterCut(i) == FALSE

(* Under the inode lock the stage list is cut off.  A file that is neither *)
(* dirty nor staged fails the build, and build_transaction() panics.       *)
CutStage ==
    /\ Alive
    /\ w.pc = "cut"
    /\ ilock[w.i] = Free
    /\ IF ino[w.i].dirty \/ ino[w.i].stage
         THEN /\ ino' = [ino EXCEPT ![w.i].stage = StageAfterCut(w.i)]
              /\ w' = [w EXCEPT !.pc = "clear"]
              /\ UNCHANGED failed
         ELSE failed' = "nothing" /\ UNCHANGED <<w, ino>>
    /\ UNCHANGED <<tr, front, nobj, seq, occupied, th, ilock, slock, inflight, cb,
                   mrc, last, revoked>>

(* Mutant: the bit is cleared whatever transaction the inode names.        *)
ClearAlways(i) == FALSE

StillDirty(i) == ino[i].dirty /\ ino[i].txid # tr[w.o].tid

(* The dirty bit is cleared unless the inode names another transaction.    *)
ClearDirty ==
    /\ Alive
    /\ w.pc = "clear"
    /\ ilock[w.i] = Free
    /\ ino' = [ino EXCEPT ![w.i].dirty = StillDirty(w.i)]
    /\ slock' = [slock EXCEPT ![w.i] = Free]
    /\ w' = [w EXCEPT !.pc = "build"]
    /\ UNCHANGED <<tr, front, nobj, seq, occupied, th, ilock, inflight, cb, mrc,
                   failed, last, revoked>>

(* journal_file_data(): a block of a file that has been built.             *)
CopyData ==
    /\ Alive
    /\ w.pc = "build"
    /\ w.todo # tr[w.o].files
    /\ w.used + 1 < MaxBlks
    /\ w' = Copied(1)
    /\ last' = LastAfter(1)
    /\ UNCHANGED <<tr, front, nobj, seq, occupied, th, ino, ilock, slock, inflight,
                   cb, mrc, failed, revoked>>

(* snapshot_inode_blocks(): the inodes of the files, in one block; then    *)
(* TR_COMMIT.                                                              *)
SnapshotInodes ==
    /\ Alive
    /\ w.pc = "build"
    /\ w.todo = {}
    /\ LET n == IF tr[w.o].files = {} THEN 0 ELSE 1
       IN  /\ w' = [Copied(n) EXCEPT !.pc = "commit"]
           /\ last' = LastAfter(n)
    /\ tr' = [tr EXCEPT ![w.o].state = "commit"]
    /\ UNCHANGED <<front, nobj, seq, occupied, th, ino, ilock, slock, inflight, cb,
                   mrc, failed, revoked>>

(* Mutant: the tid of the discarded transaction is lost.                   *)
DiscardTid ==
    /\ Alive
    /\ w.pc = "commit"
    /\ w.used = 0
    /\ tr' = [tr EXCEPT ![w.o].state = "freed"]
    /\ occupied' = occupied \ {tr[w.o].df}
    /\ w' = IdleWorker
    /\ UNCHANGED <<front, nobj, seq, th, ino, ilock, slock, inflight, cb, mrc,
                   failed, last, revoked>>

(* Nothing to commit: discard_transaction() revokes the tid, which the     *)
(* running transaction takes over; free_transaction().                     *)
Discard ==
    /\ Alive
    /\ w.pc = "commit"
    /\ w.used = 0
    /\ tr' = [tr EXCEPT ![front].tid = @ - 1, ![w.o].state = "freed"]
    /\ seq' = seq - 1
    /\ occupied' = occupied \ {tr[w.o].df}
    /\ revoked' = revoked \cup {i \in Inodes : ino[i].txid = tr[front].tid}
    /\ w' = IdleWorker
    /\ UNCHANGED <<front, nobj, th, ino, ilock, slock, inflight, cb, mrc, failed,
                   last>>

(* request_commit(): the last, partly filled buffer, if there is one.      *)
SendRest ==
    /\ Alive
    /\ w.pc = "commit"
    /\ w.fill > 0
    /\ last' = [last EXCEPT !.reqs = @ + 1, !.data = @ + w.fill]
    /\ w' = [w EXCEPT !.fill = 0]
    /\ UNCHANGED <<tr, front, nobj, seq, occupied, th, ino, ilock, slock, inflight,
                   cb, mrc, failed, revoked>>

RequestCommit ==
    /\ Alive
    /\ w.pc = "commit"
    /\ w.used > 0
    /\ w.fill = 0
    /\ inflight' = inflight \cup {w.o}
    /\ w' = IdleWorker
    /\ UNCHANGED <<tr, front, nobj, seq, occupied, th, ino, ilock, slock, cb, mrc,
                   failed, last, revoked>>

-----------------------------------------------------------------------------
(* rpc_rdma_client_handler() and handle_devfs_msg(MSG_BG_JOURNAL), run by  *)
(* the threads of the RPC library's pool.                                  *)

(* A response arrives; one with an error stops the daemon (oxbow_assert).  *)
Response(o, ok) ==
    /\ Alive
    /\ o \in inflight
    /\ IF ok
         THEN /\ inflight' = inflight \ {o}
              /\ cb' = [cb EXCEPT ![o] = "free"]
              /\ UNCHANGED failed
         ELSE failed' = "rc" /\ UNCHANGED <<inflight, cb>>
    /\ UNCHANGED <<tr, front, nobj, seq, occupied, w, th, ino, ilock, slock, mrc,
                   last, revoked>>

(* An error response to a fetch request of the transaction that is being   *)
(* sent or committed.                                                      *)
FetchError ==
    /\ Alive
    /\ w.used > 0 \/ inflight # {}
    /\ last.reqs > 0
    /\ failed' = "rc"
    /\ UNCHANGED <<tr, front, nobj, seq, occupied, w, th, ino, ilock, slock,
                   inflight, cb, mrc, last, revoked>>

(* clear_waiting_dirty_lists() and free_transaction(), which gives the     *)
(* data fetcher back.                                                      *)
FreeTransaction(o) ==
    /\ Alive
    /\ cb[o] = "free"
    /\ tr' = [tr EXCEPT ![o].state = "freed"]
    /\ occupied' = occupied \ {tr[o].df}
    /\ cb' = [cb EXCEPT ![o] = "mrc"]
    /\ UNCHANGED <<front, nobj, seq, w, th, ino, ilock, slock, inflight, mrc, failed,
                   last, revoked>>

SetMrc(o) ==
    /\ Alive
    /\ cb[o] = "mrc"
    /\ mrc' = tr[o].tid
    /\ cb' = [cb EXCEPT ![o] = "none"]
    /\ UNCHANGED <<tr, front, nobj, seq, occupied, w, th, ino, ilock, slock,
                   inflight, failed, last, revoked>>

-----------------------------------------------------------------------------
ThreadNext ==
    \E t \in Threads :
        \/ MarkDirty(t) \/ Fsync(t) \/ FsyncLock(t) \/ ReadFront(t)
        \/ CheckState(t) \/ AddFile(t) \/ SetDirty(t) \/ EndJournal(t)
        \/ Leave(t)

WorkerNext ==
    \/ NewTransaction \/ LockTx \/ StartNext \/ Snapshot \/ BuildFile \/ CutStage
    \/ ClearDirty \/ CopyData \/ SnapshotInodes \/ Discard \/ SendRest
    \/ RequestCommit

CallbackNext ==
    \/ \E o \in 1..nobj :
          \/ \E ok \in BOOLEAN : Response(o, ok)
          \/ FreeTransaction(o)
          \/ SetMrc(o)
    \/ FetchError

(* The daemon has stopped, or the bound on transactions is reached.        *)
Stopped ==
    /\ \/ ~Alive
       \/ nobj = MaxObj /\ w.pc = "start"
    /\ UNCHANGED hvars

Next == ThreadNext \/ WorkerNext \/ CallbackNext \/ Stopped

Spec == Init /\ [][Next]_hvars

(* Threads run; a thread of a file operation never waits for a lock        *)
(* between joining a transaction and leaving it.                           *)
Fairness ==
    /\ WF_hvars(WorkerNext)
    /\ \A t \in Threads :
          WF_hvars(AddFile(t) \/ SetDirty(t) \/ EndJournal(t))

FairSpec == Spec /\ Fairness

-----------------------------------------------------------------------------
(* Properties.                                                             *)

Tx == [tid : 0..(MaxObj + 1), df : DF, files : SUBSET Inodes, ref : Nat,
       state : {"new", "running", "locked", "build", "commit", "freed"}]

(* Every variable has its type.                                            *)
TypeOK ==
    /\ nobj \in Obj
    /\ front \in 1..nobj
    /\ tr \in [1..nobj -> Tx]
    /\ seq \in 1..(MaxObj + 1)
    /\ occupied \subseteq DF
    /\ w \in [pc : {"start", "lock", "drain", "snapshot", "build", "cut", "clear",
                    "commit"},
              o : 0..nobj, next : 0..nobj, todo : SUBSET Inodes, i : Inodes \cup {0},
              fill : 0..MaxBlks, used : 0..MaxBlks]
    /\ th \in [Threads -> [pc : {"idle", "ilock", "front", "check", "add", "mark",
                                 "end", "leave"},
                           op : {"none", "mark", "stage"},
                           i : Inodes \cup {0}, o : 0..nobj]]
    /\ ino \in [Inodes -> [dirty : BOOLEAN, txid : 0..(MaxObj + 1), stage : BOOLEAN]]
    /\ ilock \in [Inodes -> Threads \cup {Free}]
    /\ slock \in [Inodes -> Threads \cup {Free, Work}]
    /\ inflight \subseteq 1..nobj
    /\ cb \in [Obj -> {"none", "free", "mrc"}]
    /\ mrc \in 0..MaxObj
    /\ failed \in {"no", "state", "freed", "nothing", "rc"}
    /\ last \in [tid : 0..MaxObj, df : DF, reqs : 0..MaxBlks, data : 0..MaxBlks]
    /\ revoked \subseteq Inodes

(* What DevFS sees of this module is the protocol of JournalClient: one    *)
(* transaction at a time, ids without a gap even across discarded          *)
(* transactions, every chunk but the last one full.  In particular the two *)
(* data fetchers never carry two transactions at once, although            *)
(* journal_worker() does not wait for the response.                        *)
Client == INSTANCE JournalClient WITH
    MaxData <- MaxBlks, MaxMeta <- 2, MaxTx <- MaxObj,
    cl <- [st   |-> IF failed = "rc" THEN "aborted"
                    ELSE IF inflight # {} THEN "waiting"
                    ELSE IF w.used > 0 THEN "sending" ELSE "idle",
           tx   |-> last.tid, df |-> last.df, reqs |-> last.reqs,
           data |-> last.data]
ImplementsClient == Client!ClientSpec

(* A file operation that has joined a transaction with get_running_trans() *)
(* finds it unbuilt until it leaves: the drain loop of build_transaction() *)
(* and the check under j_lock close the window between them.               *)
JoinedNotBuilt ==
    \A t \in Threads :
        th[t].pc \in {"add", "mark", "end"} => tr[th[t].o].state \in {"running", "locked"}

(* No file enters the set of a transaction once it is being built, which   *)
(* build_transaction() relies on when it walks the set without a lock.     *)
FilesFrozen ==
    [][\A o \in 1..nobj :
          tr[o].state \in {"build", "commit"} => tr'[o].files = tr[o].files]_hvars

(* The files a transaction has still to build, itself included.            *)
ToBuild(o) ==
    CASE tr[o].state \in {"new", "running", "locked"} -> tr[o].files
      [] tr[o].state = "build" ->
            w.todo \cup (IF w.pc \in {"cut", "clear"} THEN {w.i} ELSE {})
      [] OTHER -> {}

(* The file is in the set of a transaction that has still to build it.     *)
Listed(i) == \E o \in 1..nobj : i \in ToBuild(o)

(* A fsynced stage transaction is never left behind: its file is in a set  *)
(* that a later commit walks.                                              *)
StageListed == \A i \in Inodes : ino[i].stage => Listed(i)

(* A file with I_IN_JTX_DIRTY_LIST, which every later mark_inode_dirty()   *)
(* therefore skips, is in a set that a later commit walks; except when its *)
(* tid was revoked by discard_transaction() under it (DirtyListed).        *)
DirtyListedUnlessRevoked ==
    \A i \in Inodes : ino[i].dirty => Listed(i) \/ i \in revoked

(* build_transaction() never panics on a file with nothing to do, although *)
(* a build may take the stage list that belongs to the next transaction.   *)
NoEmptyBuild == failed # "nothing"

(* The spin on tx->ref in build_transaction() ends.                        *)
DrainEnds == (w.pc = "drain") ~> (w.pc = "snapshot" \/ ~Alive)

(* fs.h says that i_journal_txid names the transaction the inode was added *)
(* to; a dirty inode is then always in a set.                              *)
DirtyListed == \A i \in Inodes : ino[i].dirty => Listed(i)
(* Nothing is left behind by the builds: staged and dirty files are in a   *)
(* set that a later commit walks, and no build meets a file with nothing   *)
(* to do (build_jtx_regular_file).                                         *)
BuildComplete == TypeOK /\ StageListed /\ DirtyListedUnlessRevoked /\ NoEmptyBuild
=============================================================================
