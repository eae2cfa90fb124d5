--------------------------- MODULE HostBuildProofs ----------------------------
(***************************************************************************)
(* Proofs about HostJournal, continued: the locks of a file, and that the  *)
(* builds leave no dirty or staged file behind.                            *)
(***************************************************************************)
EXTENDS HostListProofs, HostClientProofs

(* Who holds the locks of a file.                                          *)
Holding == {"front", "check", "add", "mark", "end", "leave"}

Locks ==
    /\ \A t \in Threads : th[t].pc \in Holding => ilock[th[t].i] = t
    /\ \A t \in Threads : th[t].pc # "idle" /\ th[t].op = "stage" => slock[th[t].i] = t
    /\ w.pc \in {"cut", "clear"} => slock[w.i] = Work

(* From the step that adds a file until the release of its locks, the file *)
(* has still to be built.                                                  *)
Adds ==
    \A t \in Threads :
        /\ \A o \in 1..nobj : th[t].pc \in {"mark", "end", "leave"} /\ th[t].o = o =>
              th[t].i \in ToBuild(o)
        /\ th[t].pc \in {"end", "leave"} /\ th[t].op = "mark" => ino[th[t].i].dirty

(* The file that is being built is not built again, and has no stage       *)
(* transaction once its list was cut off.                                  *)
Cuts ==
    /\ w.pc = "clear" => ~ino[w.i].stage
    /\ w.pc \in {"cut", "clear"} => w.i \notin w.todo

(* A transaction that is not running yet has no files.                     *)
Fresh == w.pc \in {"lock", "drain"} => tr[nobj].files = {}

(* A dirty file has still to be built by the transaction that it names;    *)
(* and what has still to be built is dirty, or is just being marked.       *)
DirtyIn ==
    \A i \in Inodes : ino[i].dirty =>
        i \in revoked \/ \E o \in 1..nobj : i \in ToBuild(o) /\ tr[o].tid = ino[i].txid

Marking(i) == \E t \in Threads : th[t].pc = "mark" /\ th[t].i = i

ListedDirty ==
    \A o \in 1..nobj : \A i \in ToBuild(o) : ino[i].dirty \/ Marking(i)

(* A file of the running transaction names it, so that the build of the    *)
(* one before does not clear its dirty bit.                                *)
FrontDirty ==
    w.pc \in Building =>
        \A o \in 1..nobj : o = front =>
            \A i \in tr[o].files :
                \/ ino[i].dirty /\ ino[i].txid = tr[o].tid
                \/ Marking(i)

Lists == Adds /\ Cuts /\ Fresh /\ StageListed /\ DirtyIn /\ ListedDirty /\ FrontDirty
         /\ NoEmptyBuild

Built == Counted /\ Numbered /\ Locks /\ Lists

-----------------------------------------------------------------------------
(* The two marks of a lock are no threads.                                 *)
LEMMA LockNames ==
    /\ \A t \in Threads : t # Free /\ t # Work
    /\ Free # Work
  BY HostAssumption DEF Free, Work

(* The locks are free initially.                                           *)
LEMMA InitLocks == Init => Locks
  BY DEF Init, Locks, Holding, IdleThread, IdleWorker

(* A thread's step keeps Locks.                                            *)
LEMMA ThreadLocks == Types /\ Locks /\ ThreadNext => Locks'
  <1> SUFFICES ASSUME Types, Locks, ThreadNext PROVE Locks'
    OBVIOUS
  <1>1. PICK t \in Threads :
          \/ MarkDirty(t) \/ Fsync(t) \/ FsyncLock(t) \/ ReadFront(t)
          \/ CheckState(t) \/ AddFile(t) \/ SetDirty(t) \/ EndJournal(t)
          \/ Leave(t)
    BY DEF ThreadNext
  <1>2. /\ ilock \in [Inodes -> Threads \cup {Free}]
        /\ slock \in [Inodes -> Threads \cup {Free, Work}]
        /\ \A u \in Threads : th[u].pc # "idle" => th[u].i \in Inodes
        /\ w.pc \in {"cut", "clear"} => w.i \in Inodes
    BY DEF Types, WTypes, ThTypes
  <1>3. CASE MarkDirty(t)
    <2>1. PICK i \in Inodes :
            /\ th[t].pc = "idle" /\ ilock[i] = Free
            /\ Moved(t, "front", "mark", i, 0)
            /\ ilock' = [ilock EXCEPT ![i] = t] /\ UNCHANGED <<w, slock>>
      BY <1>3, MarkDirtyEffect
    <2>2. \A j \in Inodes : ilock'[j] = IF j = i THEN t ELSE ilock[j]
      BY <1>2, <2>1
    <2>3. \A u \in Threads : th'[u].pc \in Holding => ilock'[th'[u].i] = u
      BY <1>2, <2>1, <2>2, LockNames DEF Moved, Locks, Holding
    <2>4. \A u \in Threads : th'[u].pc # "idle" /\ th'[u].op = "stage" => slock[th'[u].i] = u
      BY <2>1 DEF Moved, Locks
    <2> QED BY <2>1, <2>3, <2>4 DEF Locks
  <1>4. CASE Fsync(t)
    <2>1. PICK i \in Inodes :
            /\ th[t].pc = "idle" /\ slock[i] = Free
            /\ Moved(t, "ilock", "stage", i, 0)
            /\ slock' = [slock EXCEPT ![i] = t] /\ UNCHANGED <<w, ilock>>
      BY <1>4, FsyncEffect
    <2>2. \A j \in Inodes : slock'[j] = IF j = i THEN t ELSE slock[j]
      BY <1>2, <2>1
    <2>3. \A u \in Threads : th'[u].pc \in Holding => ilock[th'[u].i] = u
      BY <2>1 DEF Moved, Locks, Holding
    <2>4. \A u \in Threads : th'[u].pc # "idle" /\ th'[u].op = "stage" => slock'[th'[u].i] = u
      BY <1>2, <2>1, <2>2, LockNames DEF Moved, Locks
    <2>5. w.pc \in {"cut", "clear"} => slock'[w.i] = Work
      BY <1>2, <2>1, <2>2, LockNames DEF Locks
    <2> QED BY <2>1, <2>3, <2>4, <2>5 DEF Locks
  <1>5. CASE FsyncLock(t)
    <2>1. /\ th[t].pc = "ilock" /\ ilock[th[t].i] = Free /\ th[t].i \in Inodes
          /\ Moved(t, "front", th[t].op, th[t].i, th[t].o)
          /\ ilock' = [ilock EXCEPT ![th[t].i] = t] /\ UNCHANGED <<w, slock>>
      BY <1>5, FsyncLockEffect
    <2>2. \A j \in Inodes : ilock'[j] = IF j = th[t].i THEN t ELSE ilock[j]
      BY <1>2, <2>1
    <2>3. \A u \in Threads : th'[u].pc \in Holding => ilock'[th'[u].i] = u
      BY <1>2, <2>1, <2>2, LockNames DEF Moved, Locks, Holding
    <2>4. \A u \in Threads : th'[u].pc # "idle" /\ th'[u].op = "stage" => slock[th'[u].i] = u
      BY <2>1 DEF Moved, Locks
    <2> QED BY <2>1, <2>3, <2>4 DEF Locks
  <1>6. CASE ReadFront(t) \/ CheckState(t) \/ AddFile(t) \/ SetDirty(t) \/ EndJournal(t)
    <2>1. \/ th' = th
          \/ \E pc \in Holding : \E o :
                Moved(t, pc, th[t].op, th[t].i, o) /\ th[t].pc \in Holding
      BY <1>6, ReadFrontEffect, CheckStateEffect, AddFileEffect, SetDirtyEffect,
         EndJournalEffect, Zenon DEF Holding
    <2>2. UNCHANGED <<w, ilock, slock>>
      BY <1>6 DEF ReadFront, CheckState, AddFile, SetDirty, EndJournal
    <2>3. CASE th' = th
      BY <2>2, <2>3 DEF Locks
    <2>4. ASSUME NEW pc \in Holding, NEW o, Moved(t, pc, th[t].op, th[t].i, o),
                 th[t].pc \in Holding
          PROVE  Locks'
      BY <2>2, <2>4 DEF Locks, Moved, Holding
    <2> QED BY <2>1, <2>3, <2>4
  <1>7. CASE Leave(t)
    <2> DEFINE i == th[t].i
    <2>1. /\ th[t].pc = "leave" /\ i \in Inodes
          /\ ilock' = [ilock EXCEPT ![i] = Free]
          /\ slock' = IF th[t].op = "stage" THEN [slock EXCEPT ![i] = Free] ELSE slock
          /\ Moved(t, "idle", "none", 0, 0) /\ w' = w
      BY <1>7, LeaveEffect, Zenon
    <2>2. \A j \in Inodes :
            /\ ilock'[j] = IF j = i THEN Free ELSE ilock[j]
            /\ slock'[j] = IF j = i /\ th[t].op = "stage" THEN Free ELSE slock[j]
      BY <1>2, <2>1
    <2>3. ilock[i] = t /\ (th[t].op = "stage" => slock[i] = t)
      BY <2>1 DEF Locks, Holding
    <2>4. \A u \in Threads : th'[u].pc \in Holding => ilock'[th'[u].i] = u
      BY <1>2, <2>1, <2>2, <2>3, LockNames DEF Moved, Locks, Holding
    <2>5. \A u \in Threads : th'[u].pc # "idle" /\ th'[u].op = "stage" => slock'[th'[u].i] = u
      BY <1>2, <2>1, <2>2, <2>3, LockNames DEF Moved, Locks
    <2>6. w.pc \in {"cut", "clear"} => slock'[w.i] = Work
      BY <1>2, <2>1, <2>2, <2>3, LockNames DEF Locks
    <2> QED BY <2>1, <2>4, <2>5, <2>6 DEF Locks
  <1> QED BY <1>1, <1>3, <1>4, <1>5, <1>6, <1>7

(* So does the worker's.                                                   *)
LEMMA WorkerLocks == Types /\ Locks /\ WorkerNext => Locks'
  <1> SUFFICES ASSUME Types, Locks, WorkerNext PROVE Locks'
    OBVIOUS
  <1>1. /\ slock \in [Inodes -> Threads \cup {Free, Work}]
        /\ \A u \in Threads : th[u].pc # "idle" => th[u].i \in Inodes
        /\ w.pc \in {"cut", "clear"} => w.i \in Inodes
    BY DEF Types, WTypes, ThTypes
  <1>2. CASE BuildFile
    <2>1. PICK i \in w.todo :
            /\ i \in Inodes /\ slock[i] = Free /\ slock' = [slock EXCEPT ![i] = Work]
            /\ Worked("cut", w.o, w.next, w.todo \ {i}, i, w.fill, w.used)
            /\ UNCHANGED <<th, ilock>>
      BY <1>2, BuildFileEffect
    <2>2. \A j \in Inodes : slock'[j] = IF j = i THEN Work ELSE slock[j]
      BY <1>1, <2>1
    <2>3. \A u \in Threads : th[u].pc # "idle" /\ th[u].op = "stage" => slock'[th[u].i] = u
      BY <1>1, <2>1, <2>2, LockNames DEF Locks
    <2> QED BY <2>1, <2>2, <2>3 DEF Locks, Worked
  <1>3. CASE ClearDirty
    <2>1. /\ w.pc = "clear" /\ w.i \in Inodes /\ slock' = [slock EXCEPT ![w.i] = Free]
          /\ w'.pc = "build" /\ UNCHANGED <<th, ilock>>
      BY <1>3, ClearDirtyEffect DEF Worked
    <2>2. \A j \in Inodes : slock'[j] = IF j = w.i THEN Free ELSE slock[j]
      BY <1>1, <2>1
    <2>3. \A u \in Threads : th[u].pc # "idle" /\ th[u].op = "stage" => slock'[th[u].i] = u
      BY <1>1, <2>1, <2>2, LockNames DEF Locks
    <2> QED BY <2>1, <2>3 DEF Locks
  <1>4. CASE CutStage
    BY <1>4, CutStageEffect, Zenon DEF Locks, Worked
  <1>5. CASE NewTransaction \/ LockTx \/ StartNext \/ Snapshot \/ CopyData
             \/ SnapshotInodes \/ Discard \/ SendRest \/ RequestCommit
    <2>1. UNCHANGED <<th, ilock, slock>>
      BY <1>5 DEF NewTransaction, LockTx, StartNext, Snapshot, CopyData, SnapshotInodes,
         Discard, SendRest, RequestCommit
    <2>2. w'.pc \notin {"cut", "clear"}
      <3>1. CASE NewTransaction \/ LockTx \/ StartNext
        BY <3>1, NewTransactionEffect, LockTxEffect, StartNextEffect DEF Worked
      <3>2. CASE Snapshot \/ CopyData \/ SnapshotInodes
        BY <3>2, SnapshotEffect, CopyDataEffect, SnapshotInodesEffect DEF Worked
      <3>3. CASE SendRest
        BY <3>3, SendRestEffect DEF Worked
      <3>4. CASE Discard \/ RequestCommit
        BY <3>4 DEF Discard, RequestCommit, IdleWorker
      <3> QED BY <1>5, <3>1, <3>2, <3>3, <3>4
    <2> QED BY <2>1, <2>2 DEF Locks
  <1> QED BY <1>2, <1>3, <1>4, <1>5 DEF WorkerNext

(* So does a response.                                                     *)
LEMMA CallbackLocks == Locks /\ CallbackNext => Locks'
  BY DEF CallbackNext, Response, FreeTransaction, SetMrc, FetchError, Locks

-----------------------------------------------------------------------------
(* The files that a transaction has still to build.                        *)
Unbuilt == {"new", "running", "locked"}

(* Lists holds initially.                                                  *)
LEMMA InitLists == Init => Lists
  <1> SUFFICES ASSUME Init PROVE Lists
    OBVIOUS
  <1>1. /\ \A t \in Threads : th[t].pc = "idle"
        /\ \A i \in Inodes : ~ino[i].dirty /\ ~ino[i].stage
        /\ w.pc = "start" /\ failed = "no" /\ nobj = 1
    BY DEF Init, IdleThread, IdleWorker
  <1>2. 1..nobj = {1} /\ tr[1].state = "running" /\ tr[1].files = {}
    BY <1>1 DEF Init, NewTx
  <1>3. \A o \in 1..nobj : ToBuild(o) = {}
    BY <1>2 DEF ToBuild
  <1>4. Adds /\ Cuts /\ Fresh /\ FrontDirty /\ NoEmptyBuild
    BY <1>1 DEF Adds, Cuts, Fresh, FrontDirty, NoEmptyBuild, Building
  <1>5. StageListed /\ DirtyIn /\ ListedDirty
    BY <1>1, <1>3 DEF StageListed, DirtyIn, ListedDirty
  <1> QED BY <1>4, <1>5 DEF Lists

(* A step that changes neither the inodes nor what is to be built, and     *)
(* that moves no thread into or out of the marking of its file.            *)
LEMMA QuietLists ==
    ASSUME Types, Lists, UNCHANGED <<nobj, ino, revoked>>,
           \A o \in 1..nobj : ToBuild(o)' = ToBuild(o) /\ tr'[o].tid = tr[o].tid,
           \A t \in Threads :
              /\ th'[t].pc = "mark" <=> th[t].pc = "mark"
              /\ th'[t].pc \in {"end", "leave"} <=> th[t].pc \in {"end", "leave"}
              /\ th'[t].pc \in {"mark", "end", "leave"} =>
                    th'[t].i = th[t].i /\ th'[t].o = th[t].o /\ th'[t].op = th[t].op
    PROVE  Adds' /\ StageListed' /\ DirtyIn' /\ ListedDirty' /\ \A i : Marking(i)' = Marking(i)
  <1>1. \A i : Marking(i)' = Marking(i)
    BY DEF Marking
  <1>2. Adds'
    <2>1. ASSUME NEW t \in Threads, NEW o \in 1..nobj,
                 th'[t].pc \in {"mark", "end", "leave"}, th'[t].o = o
          PROVE  th'[t].i \in ToBuild(o)'
      BY <2>1 DEF Lists, Adds
    <2>2. ASSUME NEW t \in Threads, th'[t].pc \in {"end", "leave"}, th'[t].op = "mark"
          PROVE  ino[th'[t].i].dirty
      BY <2>2 DEF Lists, Adds
    <2> QED BY <2>1, <2>2 DEF Adds
  <1>3. StageListed'
    BY DEF Lists, StageListed, Listed
  <1>4. DirtyIn'
    BY DEF Lists, DirtyIn
  <1>5. ListedDirty'
    BY <1>1 DEF Lists, ListedDirty
  <1> QED BY <1>1, <1>2, <1>3, <1>4, <1>5

(* What is to be built, from the state and the files.                      *)
LEMMA ToBuildKept ==
    ASSUME NEW o, tr'[o].state = tr[o].state, tr'[o].files = tr[o].files, w' = w
    PROVE  ToBuild(o)' = ToBuild(o)
  BY DEF ToBuild

(* Before the build these are all the files of the transaction.            *)
LEMMA ToBuildUnbuilt ==
    ASSUME NEW o, tr[o].state \in Unbuilt PROVE ToBuild(o) = tr[o].files
  BY DEF ToBuild, Unbuilt

(* After it there are none.                                                *)
LEMMA ToBuildDone ==
    ASSUME NEW o, tr[o].state \in {"commit", "freed"} PROVE ToBuild(o) = {}
  BY DEF ToBuild

(* What the threads do to it.                                              *)
LEMMA ThreadToBuild ==
    ASSUME Types, NEW t \in Threads,
           \/ MarkDirty(t) \/ Fsync(t) \/ FsyncLock(t) \/ ReadFront(t)
           \/ CheckState(t) \/ SetDirty(t) \/ EndJournal(t) \/ Leave(t)
    PROVE  \A o \in 1..nobj :
              ToBuild(o)' = ToBuild(o) /\ tr'[o].files = tr[o].files
  <1>1. /\ w' = w
        /\ \A o \in 1..nobj : tr'[o].state = tr[o].state
    BY ThreadKeeps DEF ThreadNext
  <1>2. \A o \in 1..nobj : tr'[o].files = tr[o].files
    <2>1. CASE MarkDirty(t) \/ Fsync(t) \/ FsyncLock(t) \/ ReadFront(t) \/ SetDirty(t)
               \/ Leave(t)
      BY <2>1, Zenon DEF MarkDirty, Fsync, FsyncLock, ReadFront, SetDirty, Leave
    <2>2. CASE CheckState(t)
      BY <2>2, CheckStateEffect DEF Updated
    <2>3. CASE EndJournal(t)
      BY <2>3, EndJournalEffect DEF Updated
    <2> QED BY <2>1, <2>2, <2>3
  <1> QED BY <1>1, <1>2, ToBuildKept

(* A thread's step keeps what concerns the worker, unless it adds a file   *)
(* or changes an inode.                                                    *)
LEMMA QuietThread ==
    ASSUME Built, NEW t \in Threads,
           \/ MarkDirty(t) \/ Fsync(t) \/ FsyncLock(t) \/ ReadFront(t)
           \/ CheckState(t) \/ EndJournal(t)
    PROVE  Lists'
  <1>1. Types /\ Lists
    BY DEF Built, Counted, Placed
  <1>2. UNCHANGED <<nobj, ino, revoked, w, front>>
    BY DEF MarkDirty, Fsync, FsyncLock, ReadFront, CheckState, EndJournal
  <1>3. \A o \in 1..nobj :
          ToBuild(o)' = ToBuild(o) /\ tr'[o].files = tr[o].files
    BY <1>1, ThreadToBuild
  <1>4. \A o \in 1..nobj : tr'[o].tid = tr[o].tid
    BY <1>1, ThreadKeeps DEF ThreadNext
  <1>5. \A u \in Threads :
           /\ th'[u].pc = "mark" <=> th[u].pc = "mark"
           /\ th'[u].pc \in {"end", "leave"} <=> th[u].pc \in {"end", "leave"}
           /\ th'[u].pc \in {"mark", "end", "leave"} =>
                 th'[u].i = th[u].i /\ th'[u].o = th[u].o /\ th'[u].op = th[u].op
    <2>1. CASE MarkDirty(t)
      BY <1>1, <2>1, MarkDirtyEffect DEF Moved
    <2>2. CASE Fsync(t)
      BY <1>1, <2>2, FsyncEffect DEF Moved
    <2>3. CASE FsyncLock(t)
      BY <1>1, <2>3, FsyncLockEffect DEF Moved
    <2>4. CASE ReadFront(t)
      BY <1>1, <2>4, ReadFrontEffect DEF Moved
    <2>5. CASE CheckState(t)
      BY <1>1, <2>5, CheckStateEffect DEF Moved
    <2>6. CASE EndJournal(t)
      BY <1>1, <2>6, EndJournalEffect DEF Moved
    <2> QED BY <2>1, <2>2, <2>3, <2>4, <2>5, <2>6
  <1>6. Adds' /\ StageListed' /\ DirtyIn' /\ ListedDirty' /\ \A i : Marking(i)' = Marking(i)
    BY <1>1, <1>2, <1>3, <1>4, <1>5, QuietLists
  <1>7. Cuts'
    BY <1>1, <1>2 DEF Lists, Cuts
  <1>8. Fresh'
    BY <1>1, <1>2, <1>3, NumberTypes DEF Lists, Fresh
  <1>9. FrontDirty'
    BY <1>1, <1>2, <1>3, <1>4, <1>6 DEF Lists, FrontDirty
  <1>10. NoEmptyBuild'
    <2>1. failed' = failed \/ failed' \in {"state", "freed"}
      BY DEF MarkDirty, Fsync, FsyncLock, ReadFront, CheckState, EndJournal
    <2> QED BY <1>1, <2>1 DEF Lists, NoEmptyBuild
  <1> QED BY <1>6, <1>7, <1>8, <1>9, <1>10 DEF Lists

(* While a transaction is built, only the running one is joined.           *)
LEMMA JoinedIsFront ==
    ASSUME Counted, w.pc \in Building, NEW t \in Threads, th[t].pc \in InTx
    PROVE  th[t].o = front
  <1> DEFINE x == th[t].o
  <1>1. x \in 1..nobj /\ tr[x].state \in {"running", "locked"}
    BY DEF Counted, Placed, Types, ThTypes, JoinedNotBuilt, InTx
  <1>2. x # w.o
    <2>1. t \in Joined(x)
      BY DEF Joined, InTx
    <2>2. w.pc = "snapshot" => \A y : y = w.o => Joined(y) = {}
      BY DEF Counted, References
    <2>3. w.pc # "snapshot" => tr[w.o].state \in {"build", "commit"}
      BY DEF Counted, Placed, Control
    <2> QED BY <1>1, <2>1, <2>2, <2>3
  <1>3. front = nobj /\ w.next = nobj /\ w.pc # "start"
    BY DEF Counted, Placed, Control, Building
  <1> QED BY <1>1, <1>2, <1>3 DEF Counted, Placed, Control

(* Adding a file keeps Lists.                                              *)
LEMMA AddFileLists ==
    ASSUME Built, NEW t \in Threads, AddFile(t) PROVE Lists'
  <1> DEFINE x == th[t].o
             i == th[t].i
  <1>1. Types /\ Lists /\ Counted
    BY DEF Built, Counted, Placed
  <1>2. /\ th[t].pc = "add" /\ i \in Inodes /\ x \in 1..nobj
        /\ Updated(x, tr[x].state, tr[x].ref, tr[x].files \cup {i})
        /\ AfterAdd(t) \in {"mark", "end"}
        /\ Moved(t, AfterAdd(t), th[t].op, i, x)
        /\ UNCHANGED <<front, nobj, w, ino, failed, revoked>>
    BY <1>1, AddFileEffect
  <1>3. tr[x].state \in {"running", "locked"}
    BY <1>1, <1>2 DEF Counted, JoinedNotBuilt
  <1>4. AfterAdd(t) = "end" => th[t].op = "stage" /\ i \in tr[x].files
    BY DEF AfterAdd
  <1>5. \A o \in 1..nobj :
          /\ tr'[o].state = tr[o].state /\ tr'[o].tid = tr[o].tid
          /\ tr'[o].files = IF o = x THEN tr[o].files \cup {i} ELSE tr[o].files
    BY <1>2, Zenon DEF Updated
  <1>6. \A o \in 1..nobj :
          ToBuild(o)' = IF o = x THEN ToBuild(o) \cup {i} ELSE ToBuild(o)
    BY <1>2, <1>3, <1>5, Zenon DEF ToBuild
  <1>7. \A j : Marking(j)' <=> Marking(j) \/ (AfterAdd(t) = "mark" /\ j = i)
    BY <1>2 DEF Marking, Moved
  <1>8. i \in tr[x].files => i \in ToBuild(x)
    BY <1>3, ToBuildUnbuilt DEF Unbuilt
  <1>9. Adds'
    <2>1. ASSUME NEW u \in Threads, NEW o \in 1..nobj,
                 th'[u].pc \in {"mark", "end", "leave"}, th'[u].o = o
          PROVE  th'[u].i \in ToBuild(o)'
      BY <1>1, <1>2, <1>6, <2>1 DEF Lists, Adds, Moved
    <2>2. ASSUME NEW u \in Threads, th'[u].pc \in {"end", "leave"}, th'[u].op = "mark"
          PROVE  ino[th'[u].i].dirty
      BY <1>1, <1>2, <1>4, <2>2 DEF Lists, Adds, Moved
    <2> QED BY <1>2, <2>1, <2>2 DEF Adds
  <1>10. Cuts' /\ NoEmptyBuild'
    BY <1>1, <1>2 DEF Lists, Cuts, NoEmptyBuild
  <1>11. Fresh'
    <2>1. w.pc \in {"lock", "drain"} => x # nobj
      BY <1>1, <1>3 DEF Counted, Placed, Control
    <2> QED BY <1>1, <1>2, <1>5, <2>1, NumberTypes, Zenon DEF Lists, Fresh
  <1>12. StageListed'
    BY <1>1, <1>2, <1>6 DEF Lists, StageListed, Listed
  <1>13. DirtyIn'
    <2>1. ASSUME NEW j \in Inodes, ino[j].dirty, j \notin revoked
          PROVE  \E o \in 1..nobj : j \in ToBuild(o)' /\ tr'[o].tid = ino[j].txid
      <3>1. PICK o \in 1..nobj : j \in ToBuild(o) /\ tr[o].tid = ino[j].txid
        BY <1>1, <2>1 DEF Lists, DirtyIn
      <3> QED BY <1>5, <1>6, <3>1, Zenon
    <2> QED BY <1>2, <2>1 DEF DirtyIn
  <1>14. ListedDirty'
    <2>1. ASSUME NEW o \in 1..nobj, NEW j \in ToBuild(o)' PROVE ino[j].dirty \/ Marking(j)'
      <3>1. CASE j \in ToBuild(o)
        BY <1>1, <1>7, <3>1 DEF Lists, ListedDirty
      <3>2. CASE j \notin ToBuild(o)
        BY <1>2, <1>4, <1>6, <1>7, <1>8, <2>1, <3>2
      <3> QED BY <3>1, <3>2
    <2> QED BY <1>2, <2>1 DEF ListedDirty
  <1>15. FrontDirty'
    <2>1. ASSUME w.pc \in Building, NEW o \in 1..nobj, o = front, NEW j \in tr'[o].files
          PROVE  (ino[j].dirty /\ ino[j].txid = tr[o].tid) \/ Marking(j)'
      <3>1. CASE j \in tr[o].files
        BY <1>1, <1>7, <2>1, <3>1 DEF Lists, FrontDirty
      <3>2. CASE j \notin tr[o].files
        BY <1>2, <1>4, <1>5, <1>7, <2>1, <3>2, Zenon
      <3> QED BY <3>1, <3>2
    <2> QED BY <1>2, <1>5, <2>1, Zenon DEF FrontDirty
  <1> QED BY <1>9, <1>10, <1>11, <1>12, <1>13, <1>14, <1>15 DEF Lists

(* So does marking it.                                                     *)
LEMMA SetDirtyLists ==
    ASSUME Built, NEW t \in Threads, SetDirty(t) PROVE Lists'
  <1> DEFINE x == th[t].o
             i == th[t].i
  <1>1. Types /\ Lists /\ Counted
    BY DEF Built, Counted, Placed
  <1>2. /\ th[t].pc = "mark" /\ i \in Inodes /\ x \in 1..nobj
        /\ Marked(i, TRUE, tr[x].tid, ino[i].stage)
        /\ revoked' = revoked \ {i}
        /\ Moved(t, "end", th[t].op, i, x)
        /\ UNCHANGED <<tr, front, nobj, w, failed>>
    BY <1>1, SetDirtyEffect, Zenon
  <1>3. \A j \in Inodes :
          /\ ino'[j].dirty = IF j = i THEN TRUE ELSE ino[j].dirty
          /\ ino'[j].txid = IF j = i THEN tr[x].tid ELSE ino[j].txid
          /\ ino'[j].stage = ino[j].stage
    BY <1>2, Zenon DEF Marked
  <1>4. \A o \in 1..nobj : ToBuild(o)' = ToBuild(o)
    BY <1>1, ThreadToBuild
  <1>5. \A j : j # i => Marking(j)' = Marking(j)
    BY <1>2 DEF Marking, Moved
  <1>6. i \in ToBuild(x)
    BY <1>1, <1>2 DEF Lists, Adds
  <1>7. \A u \in Threads : th[u].pc # "idle" => th[u].i \in Inodes
    BY <1>1 DEF Types, ThTypes
  <1>8. Adds'
    <2>1. ASSUME NEW u \in Threads, NEW o \in 1..nobj,
                 th'[u].pc \in {"mark", "end", "leave"}, th'[u].o = o
          PROVE  th'[u].i \in ToBuild(o)'
      BY <1>1, <1>2, <1>4, <1>6, <2>1 DEF Lists, Adds, Moved
    <2>2. ASSUME NEW u \in Threads, th'[u].pc \in {"end", "leave"}, th'[u].op = "mark"
          PROVE  ino'[th'[u].i].dirty
      <3>1. CASE u = t
        BY <1>2, <1>3, <3>1, Zenon DEF Moved
      <3>2. CASE u # t
        <4>1. /\ th[u].pc \in {"end", "leave"} /\ th[u].op = "mark" /\ th'[u].i = th[u].i
              /\ th[u].i \in Inodes
          BY <1>2, <1>7, <2>2, <3>2 DEF Moved
        <4> QED BY <1>1, <1>3, <4>1, Zenon DEF Lists, Adds
      <3> QED BY <3>1, <3>2
    <2> QED BY <1>2, <2>1, <2>2 DEF Adds
  <1>9. Cuts' /\ NoEmptyBuild' /\ Fresh'
    <2>1. w.pc = "clear" => w.i \in Inodes
      BY <1>1 DEF Types, WTypes
    <2> QED BY <1>1, <1>2, <1>3, <2>1, Zenon DEF Lists, Cuts, NoEmptyBuild, Fresh
  <1>10. StageListed'
    BY <1>1, <1>2, <1>3, <1>4, Zenon DEF Lists, StageListed, Listed
  <1>11. DirtyIn'
    <2>1. ASSUME NEW j \in Inodes, ino'[j].dirty, j \notin revoked'
          PROVE  \E o \in 1..nobj : j \in ToBuild(o)' /\ tr[o].tid = ino'[j].txid
      <3>1. CASE j = i
        BY <1>2, <1>3, <1>4, <1>6, <3>1, Zenon
      <3>2. CASE j # i
        <4>1. ino[j].dirty /\ j \notin revoked /\ ino'[j].txid = ino[j].txid
          BY <1>2, <1>3, <2>1, <3>2, Zenon
        <4>2. PICK o \in 1..nobj : j \in ToBuild(o) /\ tr[o].tid = ino[j].txid
          BY <1>1, <4>1 DEF Lists, DirtyIn
        <4> QED BY <1>4, <4>1, <4>2
      <3> QED BY <3>1, <3>2
    <2> QED BY <1>2, <2>1 DEF DirtyIn
  <1>12. ListedDirty'
    <2>1. ASSUME NEW o \in 1..nobj, NEW j \in ToBuild(o) PROVE ino'[j].dirty \/ Marking(j)'
      <3>1. CASE j = i
        BY <1>2, <1>3, <3>1, Zenon
      <3>2. CASE j # i
        <4>1. ino[j].dirty \/ Marking(j)
          BY <1>1, <2>1 DEF Lists, ListedDirty
        <4>2. CASE Marking(j)
          BY <1>5, <3>2, <4>2
        <4>3. CASE ino[j].dirty
          <5>1. j \in Inodes
            BY <1>1, <2>1 DEF ToBuild, Types, WTypes, TxRec, WRec
          <5> QED BY <1>3, <3>2, <4>3, <5>1, Zenon
        <4> QED BY <4>1, <4>2, <4>3
      <3> QED BY <3>1, <3>2
    <2> QED BY <1>2, <1>4, <2>1 DEF ListedDirty
  <1>13. FrontDirty'
    <2>1. ASSUME w.pc \in Building, NEW o \in 1..nobj, o = front, NEW j \in tr[o].files
          PROVE  (ino'[j].dirty /\ ino'[j].txid = tr[o].tid) \/ Marking(j)'
      <3>1. j \in Inodes
        BY <1>1, <2>1 DEF Types, TxRec
      <3>2. CASE j = i
        <4>1. x = front
          BY <1>1, <1>2, <2>1, JoinedIsFront DEF InTx
        <4> QED BY <1>2, <1>3, <2>1, <3>2, <4>1, Zenon
      <3>3. CASE j # i
        BY <1>1, <1>3, <1>5, <2>1, <3>1, <3>3, Zenon DEF Lists, FrontDirty
      <3> QED BY <3>2, <3>3
    <2> QED BY <1>2, <2>1 DEF FrontDirty
  <1> QED BY <1>8, <1>9, <1>10, <1>11, <1>12, <1>13 DEF Lists

(* So does leaving, where fsync() adds the stage transaction.              *)
LEMMA LeaveLists ==
    ASSUME Built, NEW t \in Threads, Leave(t) PROVE Lists'
  <1> DEFINE x == th[t].o
             i == th[t].i
  <1>1. Types /\ Lists /\ Locks
    BY DEF Built, Counted, Placed
  <1>2. /\ th[t].pc = "leave" /\ i \in Inodes /\ x \in 1..nobj
        /\ IF th[t].op = "stage" THEN Marked(i, ino[i].dirty, ino[i].txid, TRUE)
                                 ELSE Marked(i, TRUE, ino[i].txid, ino[i].stage)
        /\ Moved(t, "idle", "none", 0, 0)
        /\ UNCHANGED <<tr, front, nobj, w, failed, revoked>>
    BY <1>1, LeaveEffect, Zenon
  <1>3. th[t].op \in {"mark", "stage"}
    BY <1>1, <1>2 DEF Types, ThTypes
  <1>4. th[t].op = "mark" => ino[i].dirty = TRUE
    BY <1>1, <1>2, Zenon DEF Lists, Adds, Types, InoRec
  <1>5. \A j \in Inodes :
          /\ ino'[j].dirty = ino[j].dirty /\ ino'[j].txid = ino[j].txid
          /\ ino'[j].stage = IF j = i /\ th[t].op = "stage" THEN TRUE ELSE ino[j].stage
    <2>1. CASE th[t].op = "stage"
      BY <1>2, <2>1, Zenon DEF Marked
    <2>2. CASE th[t].op = "mark"
      BY <1>2, <1>4, <2>2, Zenon DEF Marked
    <2> QED BY <1>3, <2>1, <2>2, Zenon
  <1>6. \A o \in 1..nobj : ToBuild(o)' = ToBuild(o)
    BY <1>1, ThreadToBuild
  <1>7. \A j : Marking(j)' = Marking(j)
    BY <1>2 DEF Marking, Moved
  <1>8. i \in ToBuild(x)
    BY <1>1, <1>2 DEF Lists, Adds
  <1>9. \A o \in 1..nobj : ToBuild(o) \subseteq Inodes /\ tr[o].files \subseteq Inodes
    BY <1>1 DEF ToBuild, Types, WTypes, TxRec, WRec
  <1>10. Adds'
    <2>1. \A u \in Threads : th'[u].pc \in {"mark", "end", "leave"} =>
             /\ th[u].pc = th'[u].pc /\ th'[u].i = th[u].i /\ th'[u].o = th[u].o
             /\ th'[u].op = th[u].op /\ th[u].i \in Inodes
      BY <1>1, <1>2 DEF Moved, Types, ThTypes
    <2> QED BY <1>1, <1>2, <1>5, <1>6, <2>1, Zenon DEF Lists, Adds
  <1>11. Cuts'
    <2>1. w.pc \in {"cut", "clear"} => w.i \in Inodes /\ slock[w.i] = Work
      BY <1>1 DEF Types, WTypes, Locks
    <2>2. th[t].op = "stage" => slock[i] = t
      BY <1>1, <1>2 DEF Locks
    <2>3. w.pc = "clear" /\ th[t].op = "stage" => w.i # i
      BY <2>1, <2>2, LockNames
    <2> QED BY <1>1, <1>2, <1>5, <2>1, <2>3, Zenon DEF Lists, Cuts
  <1>12. Fresh' /\ NoEmptyBuild'
    BY <1>1, <1>2 DEF Lists, Fresh, NoEmptyBuild
  <1>13. StageListed'
    BY <1>1, <1>2, <1>5, <1>6, <1>8, Zenon DEF Lists, StageListed, Listed
  <1>14. DirtyIn'
    BY <1>1, <1>2, <1>5, <1>6, Zenon DEF Lists, DirtyIn
  <1>15. ListedDirty'
    BY <1>1, <1>2, <1>5, <1>6, <1>7, <1>9, Zenon DEF Lists, ListedDirty
  <1>16. FrontDirty'
    BY <1>1, <1>2, <1>5, <1>7, <1>9, Zenon DEF Lists, FrontDirty
  <1> QED BY <1>10, <1>11, <1>12, <1>13, <1>14, <1>15, <1>16 DEF Lists

-----------------------------------------------------------------------------
(* Only the worker's transaction is in TR_BUILD.                           *)
LEMMA OneBuild ==
    ASSUME Placed, NEW o \in 1..nobj, tr[o].state = "build"
    PROVE  o = w.o /\ w.pc \in {"build", "cut", "clear"}
  <1>1. w.pc \in WorkerPcs
    BY DEF Placed, Types, WTypes, WRec
  <1>2. CASE w.pc = "start"
    <2>1. w.o = 0 /\ w.next = 0 /\ o # 0
      BY <1>2 DEF Placed, Types, WTypes, IdleWorker, Obj
    <2> QED BY <1>2, <2>1 DEF Placed, Control
  <1>3. CASE w.pc \in {"lock", "drain"}
    BY <1>3 DEF Placed, Control
  <1>4. CASE w.pc \in Building
    BY <1>4 DEF Placed, Control, Building
  <1> QED BY <1>1, <1>2, <1>3, <1>4 DEF WorkerPcs, Building

(* What is to be built of another transaction.                             *)
LEMMA ToBuildOther ==
    ASSUME NEW o, tr[o].state # "build", tr'[o].state = tr[o].state,
           tr'[o].files = tr[o].files
    PROVE  ToBuild(o)' = ToBuild(o)
  BY DEF ToBuild

(* The same of all the transactions but the worker's.                      *)
LEMMA ToBuildOthers ==
    ASSUME Placed, \A o \in 1..nobj : o # w.o =>
                      tr'[o].state = tr[o].state /\ tr'[o].files = tr[o].files
    PROVE  \A o \in 1..nobj : o # w.o => ToBuild(o)' = ToBuild(o)
  BY OneBuild, ToBuildOther

(* The worker's step but for the last one on a file and the start of the   *)
(* next transaction.                                                       *)
LEMMA WorkerToBuild ==
    ASSUME Placed,
           \/ LockTx \/ StartNext \/ Snapshot \/ BuildFile \/ CutStage \/ CopyData
           \/ SnapshotInodes \/ Discard \/ SendRest \/ RequestCommit
    PROVE  \A o \in 1..nobj : ToBuild(o)' = ToBuild(o)
  <1>1. Types /\ w.pc # "start" /\ w.o \in 1..nobj
    BY WorkerAt, Zenon DEF Placed, LockTx, StartNext, Snapshot, BuildFile, CutStage, CopyData,
       SnapshotInodes, Discard, SendRest, RequestCommit
  <1>2. CASE LockTx
    <2>1. Updated(w.o, "locked", tr[w.o].ref, tr[w.o].files) /\ w.pc = "lock"
      BY <1>1, <1>2, LockTxEffect
    <2>2. tr[w.o].state = "running"
      BY <2>1 DEF Placed, Control
    <2>3. \A o : o = w.o => ToBuild(o)' = ToBuild(o)
      BY <1>1, <2>1, <2>2 DEF ToBuild, Updated
    <2> QED BY <2>1, <2>3, ToBuildOthers DEF Updated
  <1>3. CASE StartNext
    <2>1. Updated(w.next, "running", tr[w.next].ref, tr[w.next].files) /\ w.pc = "drain"
      BY <1>1, <1>3, StartNextEffect
    <2>2. tr[w.next].state = "new" /\ w.next \in 1..nobj
      BY <1>1, <2>1, WorkerAt DEF Placed, Control
    <2>3. \A o \in 1..nobj : tr[o].state # "build"
      BY <2>1, OneBuild
    <2>4. \A o \in 1..nobj : o # w.next => ToBuild(o)' = ToBuild(o)
      BY <2>1, <2>3, ToBuildOther DEF Updated
    <2>5. \A o : o = w.next => ToBuild(o)' = ToBuild(o)
      BY <2>1, <2>2 DEF ToBuild, Updated
    <2> QED BY <2>4, <2>5
  <1>4. CASE Snapshot
    <2>1. /\ Updated(w.o, "build", tr[w.o].ref, tr[w.o].files) /\ w.pc = "snapshot"
          /\ w'.pc = "build" /\ w'.todo = tr[w.o].files
      BY <1>1, <1>4, SnapshotEffect DEF Worked
    <2>2. tr[w.o].state = "locked"
      BY <2>1 DEF Placed, Control, Building
    <2>3. \A o : o = w.o => ToBuild(o)' = ToBuild(o)
      BY <1>1, <2>1, <2>2 DEF ToBuild, Updated
    <2> QED BY <2>1, <2>3, ToBuildOthers DEF Updated
  <1>5. CASE BuildFile
    <2>1. PICK i \in w.todo :
            /\ Worked("cut", w.o, w.next, w.todo \ {i}, i, w.fill, w.used)
            /\ tr' = tr /\ w.pc = "build"
      BY <1>1, <1>5, BuildFileEffect
    <2>2. tr[w.o].state = "build"
      BY <2>1 DEF Placed, Control, Building
    <2>3. \A o : o = w.o => ToBuild(o)' = ToBuild(o)
      BY <1>1, <2>1, <2>2 DEF ToBuild, Worked
    <2> QED BY <2>1, <2>3, ToBuildOthers
  <1>6. CASE CutStage \/ CopyData
    <2>1. /\ w'.todo = w.todo /\ w'.i = w.i /\ tr' = tr
          /\ w'.pc \in {"cut", "clear"} <=> w.pc \in {"cut", "clear"}
      BY <1>1, <1>6, CutStageEffect, CopyDataEffect, Zenon DEF Worked
    <2> QED BY <2>1 DEF ToBuild
  <1>7. CASE SnapshotInodes
    <2>1. /\ Updated(w.o, "commit", tr[w.o].ref, tr[w.o].files) /\ w.pc = "build"
          /\ w.todo = {}
      BY <1>1, <1>7, SnapshotInodesEffect, Zenon DEF Worked
    <2>2. tr[w.o].state = "build"
      BY <2>1 DEF Placed, Control, Building
    <2>3. \A o : o = w.o => ToBuild(o)' = ToBuild(o)
      BY <1>1, <2>1, <2>2 DEF ToBuild, Updated
    <2> QED BY <2>1, <2>3, ToBuildOthers DEF Updated
  <1>8. CASE Discard
    <2>1. front # w.o /\ w.pc = "commit"
      BY <1>8, WorkerAlone DEF Discard
    <2>2. \A o \in 1..nobj : /\ tr'[o].state = IF o = w.o THEN "freed" ELSE tr[o].state
                             /\ tr'[o].files = tr[o].files
      BY <1>1, <1>8, <2>1, DiscardEffect
    <2>3. tr[w.o].state = "commit"
      BY <2>1 DEF Placed, Control, Building
    <2>4. \A o : o = w.o => ToBuild(o)' = ToBuild(o)
      BY <1>1, <2>2, <2>3 DEF ToBuild
    <2> QED BY <2>2, <2>4, ToBuildOthers
  <1>9. CASE SendRest \/ RequestCommit
    <2>1. tr' = tr /\ w.pc = "commit"
      BY <1>9 DEF SendRest, RequestCommit
    <2>2. \A o \in 1..nobj : tr[o].state # "build"
      BY <2>1, OneBuild
    <2> QED BY <2>1, <2>2, ToBuildOther
  <1> QED BY <1>2, <1>3, <1>4, <1>5, <1>6, <1>7, <1>8, <1>9

(* The worker's steps that change no inode.                                *)
LEMMA QuietWorker ==
    ASSUME Built,
           \/ LockTx \/ StartNext \/ Snapshot \/ BuildFile \/ CopyData
           \/ SnapshotInodes \/ SendRest \/ RequestCommit
    PROVE  Lists'
  <1>1. Types /\ Lists /\ Placed
    BY DEF Built, Counted, Placed
  <1>2. UNCHANGED <<nobj, ino, revoked, th, failed>>
    BY Zenon DEF LockTx, StartNext, Snapshot, BuildFile, CopyData, SnapshotInodes, SendRest,
       RequestCommit
  <1>3. \A o \in 1..nobj : ToBuild(o)' = ToBuild(o)
    BY <1>1, WorkerToBuild
  <1>4. \A o \in 1..nobj : tr'[o].tid = tr[o].tid /\ tr'[o].files = tr[o].files
    <2>1. CASE LockTx \/ StartNext \/ SnapshotInodes
      <3>1. CASE LockTx
        BY <1>1, <3>1, LockTxEffect DEF Updated
      <3>2. CASE StartNext
        BY <1>1, <3>2, StartNextEffect DEF Updated
      <3>3. CASE SnapshotInodes
        BY <1>1, <3>3, SnapshotInodesEffect DEF Updated
      <3> QED BY <2>1, <3>1, <3>2, <3>3
    <2>2. CASE Snapshot
      BY <1>1, <2>2, SnapshotEffect, Zenon DEF Updated
    <2>3. CASE BuildFile \/ CopyData \/ SendRest \/ RequestCommit
      BY <2>3, Zenon DEF BuildFile, CopyData, SendRest, RequestCommit
    <2> QED BY <2>1, <2>2, <2>3
  <1>5. Adds' /\ StageListed' /\ DirtyIn' /\ ListedDirty' /\ \A i : Marking(i)' = Marking(i)
    BY <1>1, <1>2, <1>3, <1>4, QuietLists, Zenon
  <1>6. NoEmptyBuild'
    BY <1>1, <1>2 DEF Lists, NoEmptyBuild
  <1>7. CASE LockTx
    <2>1. w.pc = "lock" /\ w'.pc = "drain"
      BY <1>1, <1>7, LockTxEffect DEF Worked
    <2>2. Fresh'
      BY <1>1, <1>2, <1>4, <2>1, NumberTypes DEF Lists, Fresh
    <2> QED BY <1>5, <1>6, <2>1, <2>2 DEF Lists, Cuts, FrontDirty, Building
  <1>8. CASE StartNext
    <2>1. w.pc = "drain" /\ w'.pc = "snapshot" /\ front' = w.next
      BY <1>1, <1>8, StartNextEffect DEF Worked
    <2>2. w.next = nobj
      BY <1>1, <2>1 DEF Placed, Control
    <2>3. tr'[nobj].files = {}
      BY <1>1, <1>4, <2>1, NumberTypes DEF Lists, Fresh
    <2>4. FrontDirty'
      BY <2>1, <2>2, <2>3 DEF FrontDirty
    <2> QED BY <1>5, <1>6, <2>1, <2>4 DEF Lists, Cuts, Fresh
  <1>9. CASE Snapshot \/ BuildFile \/ CopyData \/ SnapshotInodes \/ SendRest
    <2>1. w.pc \in Building /\ front' = front
      BY <1>9, Zenon DEF Snapshot, BuildFile, CopyData, SnapshotInodes, SendRest, Building
    <2>2. FrontDirty'
      BY <1>1, <1>2, <1>4, <1>5, <2>1 DEF Lists, FrontDirty
    <2>3. w'.pc \notin {"lock", "drain", "clear"} /\ (w'.pc = "cut" => w'.i \notin w'.todo)
      <3>1. CASE Snapshot \/ CopyData \/ SnapshotInodes
        BY <1>1, <3>1, SnapshotEffect, CopyDataEffect, SnapshotInodesEffect, Zenon DEF Worked
      <3>2. CASE BuildFile
        BY <1>1, <3>2, BuildFileEffect, Zenon DEF Worked
      <3>3. CASE SendRest
        BY <1>1, <3>3, SendRestEffect DEF Worked
      <3> QED BY <1>9, <3>1, <3>2, <3>3
    <2> QED BY <1>5, <1>6, <2>2, <2>3 DEF Lists, Cuts, Fresh
  <1>10. CASE RequestCommit
    <2>1. w'.pc = "start"
      BY <1>10 DEF RequestCommit, IdleWorker
    <2> QED BY <1>5, <1>6, <2>1 DEF Lists, Cuts, Fresh, FrontDirty, Building
  <1> QED BY <1>7, <1>8, <1>9, <1>10

(* The start of the next transaction keeps Lists.                          *)
LEMMA NewTransactionLists == Built /\ NewTransaction => Lists'
  <1> SUFFICES ASSUME Built, NewTransaction PROVE Lists'
    OBVIOUS
  <1>1. Types /\ Lists /\ Placed
    BY DEF Built, Counted, Placed
  <1>2. PICK d \in DF \ occupied :
          /\ w.pc = "start"
          /\ \A o \in 1..nobj : tr'[o] = tr[o]
          /\ tr'[nobj'] = NewTx(seq, d)
          /\ nobj' = nobj + 1 /\ w'.pc = "lock"
          /\ UNCHANGED <<front, th, ino, failed, revoked>>
    BY <1>1, NewTransactionEffect DEF Worked, IdleWorker
  <1>3. nobj \in Nat /\ 1..nobj' = 1..nobj \cup {nobj'}
    BY <1>1, <1>2, NumberTypes
  <1>4. \A o \in 1..nobj : ToBuild(o)' = ToBuild(o)
    <2>1. \A o \in 1..nobj : tr[o].state # "build"
      BY <1>1, <1>2, OneBuild
    <2> QED BY <1>2, <2>1, ToBuildOther
  <1>5. tr'[nobj'].files = {} /\ tr'[nobj'].state = "new"
    BY <1>2 DEF NewTx
  <1>6. \A o : o = nobj' => ToBuild(o)' = {}
    BY <1>5 DEF ToBuild
  <1>7. \A i : Marking(i)' = Marking(i)
    BY <1>2 DEF Marking
  <1>8. Adds'
    <2>1. \A t \in Threads : th[t].pc \in {"mark", "end", "leave"} => th[t].o \in 1..nobj
      BY <1>1 DEF Types, ThTypes
    <2> QED BY <1>1, <1>2, <1>3, <1>4, <2>1 DEF Lists, Adds
  <1>9. Fresh' /\ Cuts' /\ FrontDirty' /\ NoEmptyBuild'
    BY <1>1, <1>2, <1>5, Zenon DEF Lists, Fresh, Cuts, FrontDirty, NoEmptyBuild, Building
  <1>10. StageListed'
    BY <1>1, <1>2, <1>3, <1>4 DEF Lists, StageListed, Listed
  <1>11. DirtyIn'
    <2> SUFFICES ASSUME NEW j \in Inodes, ino[j].dirty, j \notin revoked
                 PROVE  \E o \in 1..nobj' : j \in ToBuild(o)' /\ tr'[o].tid = ino[j].txid
      BY <1>2 DEF DirtyIn
    <2>1. PICK o \in 1..nobj : j \in ToBuild(o) /\ tr[o].tid = ino[j].txid
      BY <1>1 DEF Lists, DirtyIn
    <2> QED BY <1>2, <1>3, <1>4, <2>1
  <1>12. ListedDirty'
    <2> SUFFICES ASSUME NEW o \in 1..nobj', NEW j \in ToBuild(o)'
                 PROVE  ino[j].dirty \/ Marking(j)
      BY <1>2, <1>7 DEF ListedDirty
    <2>1. o \in 1..nobj
      BY <1>3, <1>6
    <2> QED BY <1>1, <1>4, <2>1 DEF Lists, ListedDirty
  <1> QED BY <1>8, <1>9, <1>10, <1>11, <1>12 DEF Lists

(* What is to be built are files.                                          *)
LEMMA BuildTypes ==
    ASSUME Types
    PROVE  \A o \in 1..nobj : tr[o].files \subseteq Inodes /\ ToBuild(o) \subseteq Inodes
  <1>1. \A o \in 1..nobj : tr[o].files \subseteq Inodes
    BY DEF Types, WTypes, TxRec
  <1>2. w.todo \subseteq Inodes /\ (w.pc \in {"cut", "clear"} => w.i \in Inodes)
    BY DEF Types, WTypes, WRec
  <1> QED BY <1>1, <1>2 DEF ToBuild

(* Nobody is marking the file whose locks the worker has.                  *)
LEMMA NotMarking ==
    ASSUME Locks, w.pc \in {"cut", "clear"}, ilock[w.i] = Free
    PROVE  /\ \A t \in Threads : th[t].pc \in Holding => th[t].i # w.i
           /\ ~Marking(w.i)
  BY LockNames DEF Locks, Marking, Holding

(* The file to build is dirty: there is no panic, and Lists is kept.       *)
LEMMA CutStageLists == Built /\ CutStage => Lists'
  <1> SUFFICES ASSUME Built, CutStage PROVE Lists'
    OBVIOUS
  <1>1. Types /\ Lists /\ Placed /\ Locks
    BY DEF Built, Counted, Placed
  <1>2. /\ w.pc = "cut" /\ w.o \in 1..nobj /\ w.i \in Inodes /\ ilock[w.i] = Free
        /\ UNCHANGED <<tr, front, nobj, th, revoked>>
    BY <1>1, CutStageEffect
  <1>3. ino[w.i].dirty
    <2>1. tr[w.o].state = "build"
      BY <1>1, <1>2 DEF Placed, Control, Building
    <2>2. \A o : o = w.o => w.i \in ToBuild(o)
      BY <1>2, <2>1 DEF ToBuild
    <2> QED BY <1>1, <1>2, <2>2, NotMarking DEF Lists, ListedDirty
  <1>4. /\ Marked(w.i, ino[w.i].dirty, ino[w.i].txid, FALSE)
        /\ w'.pc = "clear" /\ w'.i = w.i /\ w'.todo = w.todo /\ failed' = failed
    BY <1>1, <1>3, CutStageEffect, Zenon DEF Worked
  <1>5. /\ \A j \in Inodes : ino'[j].dirty = ino[j].dirty /\ ino'[j].txid = ino[j].txid
        /\ \A j \in Inodes : ino'[j].stage => ino[j].stage
        /\ ~ino'[w.i].stage
    BY <1>2, <1>4, Zenon DEF Marked
  <1>6. \A o \in 1..nobj : ToBuild(o)' = ToBuild(o)
    BY <1>1, WorkerToBuild
  <1>7. \A i : Marking(i)' = Marking(i)
    BY <1>2 DEF Marking
  <1>8. Adds'
    <2>1. \A t \in Threads : th[t].pc # "idle" => th[t].i \in Inodes
      BY <1>1 DEF Types, ThTypes
    <2> QED BY <1>1, <1>2, <1>5, <1>6, <2>1 DEF Lists, Adds
  <1>9. Fresh' /\ Cuts' /\ NoEmptyBuild'
    BY <1>1, <1>2, <1>4, <1>5, Zenon DEF Lists, Fresh, Cuts, NoEmptyBuild
  <1>10. \A o \in 1..nobj : tr[o].files \subseteq Inodes /\ ToBuild(o) \subseteq Inodes
    BY <1>1, BuildTypes, Zenon
  <1>11. FrontDirty'
    BY <1>1, <1>2, <1>4, <1>5, <1>7, <1>10, Zenon DEF Lists, FrontDirty, Building
  <1>12. StageListed'
    BY <1>1, <1>2, <1>5, <1>6, Zenon DEF Lists, StageListed, Listed
  <1>13. DirtyIn'
    <2> SUFFICES ASSUME NEW j \in Inodes, ino[j].dirty, j \notin revoked
                 PROVE  \E o \in 1..nobj : j \in ToBuild(o)' /\ tr[o].tid = ino[j].txid
      BY <1>2, <1>5 DEF DirtyIn
    <2>1. PICK o \in 1..nobj : j \in ToBuild(o) /\ tr[o].tid = ino[j].txid
      BY <1>1 DEF Lists, DirtyIn
    <2> QED BY <1>6, <2>1
  <1>14. ListedDirty'
    BY <1>1, <1>2, <1>5, <1>6, <1>7, <1>10 DEF Lists, ListedDirty
  <1> QED BY <1>8, <1>9, <1>11, <1>12, <1>13, <1>14 DEF Lists

(* A revoked id is the only way to leave a dirty file unlisted.            *)
LEMMA DiscardLists == Built /\ Discard => Lists'
  <1> SUFFICES ASSUME Built, Discard PROVE Lists'
    OBVIOUS
  <1>1. Types /\ Lists /\ Placed
    BY DEF Built, Counted, Placed
  <1>2. front # w.o
    BY <1>1, WorkerAlone DEF Discard
  <1>3. /\ \A o \in 1..nobj : tr'[o].tid = IF o = front THEN tr[o].tid - 1 ELSE tr[o].tid
        /\ revoked' = revoked \cup {i \in Inodes : ino[i].txid = tr[front].tid}
        /\ w' = IdleWorker /\ UNCHANGED <<nobj, th, ino, failed>>
    BY <1>1, <1>2, DiscardEffect
  <1>4. \A o \in 1..nobj : ToBuild(o)' = ToBuild(o)
    BY <1>1, WorkerToBuild
  <1>5. Adds' /\ StageListed'
    BY <1>1, <1>3, <1>4 DEF Lists, Adds, StageListed, Listed
  <1>6. Fresh' /\ Cuts' /\ FrontDirty' /\ NoEmptyBuild'
    BY <1>1, <1>3 DEF Lists, Fresh, Cuts, FrontDirty, NoEmptyBuild, Building, IdleWorker
  <1>7. ListedDirty'
    BY <1>1, <1>3, <1>4, Zenon DEF Lists, ListedDirty, Marking
  <1>8. DirtyIn'
    <2> SUFFICES ASSUME NEW j \in Inodes, ino[j].dirty, j \notin revoked'
                 PROVE  \E o \in 1..nobj : j \in ToBuild(o)' /\ tr'[o].tid = ino[j].txid
      BY <1>3 DEF DirtyIn
    <2>1. j \notin revoked /\ ino[j].txid # tr[front].tid
      BY <1>3
    <2>2. PICK o \in 1..nobj : j \in ToBuild(o) /\ tr[o].tid = ino[j].txid
      BY <1>1, <2>1 DEF Lists, DirtyIn
    <2> QED BY <1>3, <1>4, <2>1, <2>2
  <1> QED BY <1>5, <1>6, <1>7, <1>8 DEF Lists

(* While a file is built, only the running transaction has others to build.*)
LEMMA OnlyFrontLeft ==
    ASSUME Placed, w.pc = "clear", NEW o \in 1..nobj, o # w.o, ToBuild(o) # {}
    PROVE  o = front /\ ToBuild(o) = tr[o].files
  <1>1. /\ w.next = front /\ tr[front].state = "running"
        /\ o # front => tr[o].state = "freed"
    BY DEF Placed, Control, Building
  <1>2. o = front
    BY <1>1, ToBuildDone
  <1> QED BY <1>1, <1>2, ToBuildUnbuilt DEF Unbuilt

(* A file that the running transaction has too stays dirty.                *)
LEMMA ClearDirtyLists == Built /\ ClearDirty => Lists'
  <1> SUFFICES ASSUME Built, ClearDirty PROVE Lists'
    OBVIOUS
  <1>1. Types /\ Lists /\ Placed /\ Locks /\ Ids
    BY DEF Built, Counted, Numbered, Placed
  <1>2. /\ w.pc = "clear" /\ w.o \in 1..nobj /\ w.i \in Inodes /\ ilock[w.i] = Free
        /\ w'.pc = "build" /\ w'.todo = w.todo
        /\ UNCHANGED <<tr, front, nobj, th, revoked, failed>>
    BY <1>1, ClearDirtyEffect DEF Worked
  <1>3. /\ \A j \in Inodes : ino'[j].txid = ino[j].txid /\ ino'[j].stage = ino[j].stage
        /\ \A j \in Inodes : j # w.i => ino'[j].dirty = ino[j].dirty
        /\ ino'[w.i].dirty = (ino[w.i].dirty /\ ino[w.i].txid # tr[w.o].tid)
    BY <1>1, <1>2, ClearDirtyEffect, Zenon DEF Marked, StillDirty
  <1>4. \A o \in 1..nobj : o # w.o => ToBuild(o)' = ToBuild(o)
    BY <1>1, <1>2, ToBuildOthers
  <1>5. tr[w.o].state = "build"
    BY <1>1, <1>2 DEF Placed, Control, Building
  <1>6. \A o : o = w.o => ToBuild(o)' = w.todo /\ ToBuild(o) = w.todo \cup {w.i}
    BY <1>2, <1>5 DEF ToBuild
  <1>7. ~ino[w.i].stage /\ w.i \notin w.todo
    BY <1>1, <1>2 DEF Lists, Cuts
  <1>8. /\ \A t \in Threads : th[t].pc \in Holding => th[t].i # w.i
        /\ ~Marking(w.i) /\ \A i : Marking(i)' = Marking(i)
    BY <1>1, <1>2, NotMarking DEF Marking
  <1>9. \A o \in 1..nobj, j \in Inodes : j # w.i /\ j \in ToBuild(o) => j \in ToBuild(o)'
    BY <1>4, <1>6
  <1>10. \A o \in 1..nobj : \A j \in ToBuild(o)' :
            j \in ToBuild(o) /\ (j = w.i => o # w.o)
    BY <1>4, <1>6, <1>7
  (* The file is in the set of the running transaction too: it stays dirty. *)
  <1>11. w.i \in tr[front].files => ino'[w.i].dirty /\ ino[w.i].txid = tr[front].tid
    <2>1. front \in 1..nobj /\ tr[front].tid = tr[w.o].tid + 1 /\ tr[w.o].tid \in Int
      <3>1. front = nobj
        BY <1>1, <1>2 DEF Placed, Control, Building
      <3> QED BY <1>1, <1>2, <3>1, NumberTypes DEF Ids
    <2>2. \A o \in 1..nobj : o = front => \A i \in tr[o].files :
             (ino[i].dirty /\ ino[i].txid = tr[o].tid) \/ Marking(i)
      BY <1>1, <1>2 DEF Lists, FrontDirty, Building
    <2>3. w.i \in tr[front].files => ino[w.i].dirty /\ ino[w.i].txid = tr[front].tid
      BY <1>8, <2>1, <2>2
    <2>4. tr[front].tid # tr[w.o].tid
      BY <2>1
    <2> QED BY <1>3, <2>3, <2>4, Zenon
  <1>12. Adds'
    <2>1. \A t \in Threads : th[t].pc \in Holding => th[t].i \in Inodes /\ th[t].i # w.i
      BY <1>1, <1>8 DEF Types, ThTypes, Holding
    <2> QED BY <1>1, <1>2, <1>3, <1>9, <2>1 DEF Lists, Adds, Holding
  <1>13. Fresh' /\ Cuts' /\ NoEmptyBuild'
    BY <1>1, <1>2, Zenon DEF Lists, Fresh, Cuts, NoEmptyBuild
  <1>14. \A o \in 1..nobj : tr[o].files \subseteq Inodes /\ ToBuild(o) \subseteq Inodes
    BY <1>1, BuildTypes
  <1>15. FrontDirty'
    <2> SUFFICES ASSUME NEW o \in 1..nobj, o = front, NEW i \in tr[o].files
                 PROVE  (ino'[i].dirty /\ ino'[i].txid = tr[o].tid) \/ Marking(i)
      BY <1>2, <1>8 DEF FrontDirty
    <2>1. i \in Inodes
      BY <1>14
    <2>2. (ino[i].dirty /\ ino[i].txid = tr[o].tid) \/ Marking(i)
      BY <1>1, <1>2 DEF Lists, FrontDirty, Building
    <2> QED BY <1>3, <1>11, <2>1, <2>2, Zenon
  <1>16. StageListed'
    <2> SUFFICES ASSUME NEW j \in Inodes, ino[j].stage
                 PROVE  \E o \in 1..nobj : j \in ToBuild(o)'
      BY <1>2, <1>3 DEF StageListed, Listed
    <2>1. PICK o \in 1..nobj : j \in ToBuild(o)
      BY <1>1 DEF Lists, StageListed, Listed
    <2> QED BY <1>7, <1>9, <2>1
  <1>17. DirtyIn'
    <2> SUFFICES ASSUME NEW j \in Inodes, ino'[j].dirty, j \notin revoked
                 PROVE  \E o \in 1..nobj : j \in ToBuild(o)' /\ tr[o].tid = ino[j].txid
      BY <1>2, <1>3 DEF DirtyIn
    <2>1. PICK o \in 1..nobj : j \in ToBuild(o) /\ tr[o].tid = ino[j].txid
      BY <1>1, <1>3, Zenon DEF Lists, DirtyIn
    <2>2. j = w.i => o # w.o
      BY <1>3, <2>1, Zenon
    <2> QED BY <1>4, <1>9, <2>1, <2>2
  <1>18. ListedDirty'
    <2> SUFFICES ASSUME NEW o \in 1..nobj, NEW j \in ToBuild(o)'
                 PROVE  ino'[j].dirty \/ Marking(j)
      BY <1>2, <1>8 DEF ListedDirty
    <2>1. j \in ToBuild(o) /\ j \in Inodes /\ (j = w.i => o # w.o)
      BY <1>10, <1>14
    <2>2. CASE j # w.i
      BY <1>1, <1>3, <2>1, <2>2 DEF Lists, ListedDirty
    <2>3. CASE j = w.i
      <3>1. o = front /\ ToBuild(o) = tr[o].files
        BY <1>1, <1>2, <2>1, <2>3, OnlyFrontLeft
      <3> QED BY <1>11, <2>1, <2>3, <3>1
    <2> QED BY <2>2, <2>3
  <1> QED BY <1>12, <1>13, <1>15, <1>16, <1>17, <1>18 DEF Lists

(* A response keeps Lists.                                                 *)
LEMMA CallbackLists == Built /\ CallbackNext => Lists'
  <1> SUFFICES ASSUME Built, CallbackNext PROVE Lists'
    OBVIOUS
  <1>1. Types /\ Lists /\ Placed
    BY DEF Built, Counted, Placed
  <1>2. UNCHANGED <<nobj, front, w, th, ino, revoked>>
    BY DEF CallbackNext, Response, FreeTransaction, SetMrc, FetchError
  <1>3. failed' \in {failed, "rc"}
    BY DEF CallbackNext, Response, FreeTransaction, SetMrc, FetchError
  <1>4. /\ \A o \in 1..nobj : tr'[o].tid = tr[o].tid /\ tr'[o].files = tr[o].files
        /\ \A o \in 1..nobj : ToBuild(o)' = ToBuild(o)
    <2>1. CASE tr' = tr
      BY <1>2, <2>1, ToBuildKept
    <2>2. CASE \E x \in 1..nobj : FreeTransaction(x)
      <3>1. PICK x \in 1..nobj : FreeTransaction(x)
        BY <2>2
      <3>2. cb[x] = "free" /\ Updated(x, "freed", tr[x].ref, tr[x].files)
        BY <1>1, <3>1, FreeTransactionEffect
      <3>3. tr[x].state = "commit"
        BY <1>1, <3>2, ObjectInObj DEF Placed, Answers
      <3>4. ToBuild(x) = {} /\ ToBuild(x)' = {}
        BY <3>2, <3>3 DEF ToBuild, Updated
      <3>5. \A o \in 1..nobj : o # x => ToBuild(o)' = ToBuild(o)
        BY <1>2, <3>2, ToBuildKept DEF Updated
      <3> QED BY <3>2, <3>4, <3>5, Zenon DEF Updated
    <2>3. \E x \in 1..nobj : FreeTransaction(x) \/ tr' = tr
      BY <1>1, NumberTypes DEF CallbackNext, Response, SetMrc, FetchError
    <2> QED BY <2>1, <2>2, <2>3
  <1>5. Adds' /\ StageListed' /\ DirtyIn' /\ ListedDirty' /\ \A i : Marking(i)' = Marking(i)
    BY <1>1, <1>2, <1>4, QuietLists
  <1>6. nobj \in 1..nobj
    BY <1>1, NumberTypes
  <1>7. Fresh' /\ Cuts' /\ NoEmptyBuild'
    BY <1>1, <1>2, <1>3, <1>4, <1>6, Zenon DEF Lists, Fresh, Cuts, NoEmptyBuild
  <1>8. FrontDirty'
    BY <1>1, <1>2, <1>4, <1>5 DEF Lists, FrontDirty
  <1> QED BY <1>5, <1>7, <1>8 DEF Lists

-----------------------------------------------------------------------------
(* The invariant Built holds initially.                                    *)
LEMMA InitBuilt == Init => Built
  BY InitCounted, InitNumbered, InitLocks, InitLists DEF Built

(* A thread's step keeps Lists.                                            *)
LEMMA ThreadLists == Built /\ ThreadNext => Lists'
  <1> SUFFICES ASSUME Built, ThreadNext PROVE Lists'
    OBVIOUS
  <1> QED BY QuietThread, AddFileLists, SetDirtyLists, LeaveLists DEF ThreadNext

(* So does the worker's.                                                   *)
LEMMA WorkerLists == Built /\ WorkerNext => Lists'
  BY QuietWorker, NewTransactionLists, CutStageLists, ClearDirtyLists, DiscardLists
     DEF WorkerNext

(* Every step keeps Built.                                                 *)
LEMMA StepBuilt == Built /\ [Next]_hvars => Built'
  <1> SUFFICES ASSUME Built, [Next]_hvars PROVE Built'
    OBVIOUS
  <1>1. Counted' /\ Numbered'
    BY StepCounted, StepNumbered DEF Built
  <1>2. Locks' /\ Lists'
    <2>1. Types /\ Locks /\ Lists
      BY DEF Built, Counted, Placed
    <2>2. CASE UNCHANGED hvars
      <3>1. Locks'
        BY <2>1, <2>2 DEF hvars, Locks
      <3>2. Adds' /\ Cuts' /\ Fresh' /\ StageListed'
        BY <2>1, <2>2 DEF hvars, Lists, Adds, Cuts, Fresh, StageListed, Listed, ToBuild
      <3>3. DirtyIn' /\ ListedDirty' /\ FrontDirty' /\ NoEmptyBuild'
        BY <2>1, <2>2 DEF hvars, Lists, DirtyIn, ListedDirty, FrontDirty, NoEmptyBuild,
           Marking, ToBuild
      <3> QED BY <3>1, <3>2, <3>3 DEF Lists
    <2>3. CASE ThreadNext
      BY <2>1, <2>3, ThreadLocks, ThreadLists
    <2>4. CASE WorkerNext
      BY <2>1, <2>4, WorkerLocks, WorkerLists
    <2>5. CASE CallbackNext
      BY <2>1, <2>5, CallbackLocks, CallbackLists
    <2> QED BY <2>2, <2>3, <2>4, <2>5 DEF Next, Stopped
  <1> QED BY <1>1, <1>2 DEF Built

(* Built is an invariant.                                                  *)
LEMMA AlwaysBuilt == Spec => []Built
  BY InitBuilt, StepBuilt, PTL DEF Spec

(* The bounds of the type invariant follow from those of the ids, of the   *)
(* counters and of the references.                                         *)
LEMMA BuiltTypes == Built => TypeOK
  <1> SUFFICES ASSUME Built PROVE TypeOK
    OBVIOUS
  <1>1. Types /\ Ids /\ Counts /\ References
    BY DEF Built, Counted, Numbered, Placed
  <1>2. MaxObj \in Nat /\ MaxBlks \in Nat /\ ChunkBlks \in Nat
    BY HostAssumption
  <1>3. \A o \in 1..nobj : tr[o] \in Tx
    <2> SUFFICES ASSUME NEW o \in 1..nobj PROVE tr[o] \in Tx
      OBVIOUS
    <2>1. tr[o] \in TxRec /\ nobj \in 1..MaxObj
      BY <1>1 DEF Types, Obj
    <2>2. tr[o].tid \in 0..(MaxObj + 1)
      BY <1>1, <1>2, <2>1, NumberTypes DEF Ids
    <2>3. tr[o].ref \in Nat
      BY <1>1, JoinedFinite DEF References
    <2> QED BY <2>1, <2>2, <2>3 DEF TxRec, Tx, States
  <1>4. seq \in 1..(MaxObj + 1)
    BY <1>1, <1>2, NumberTypes DEF Ids
  <1>5. w \in [pc : {"start", "lock", "drain", "snapshot", "build", "cut", "clear",
                     "commit"},
               o : 0..nobj, next : 0..nobj, todo : SUBSET Inodes, i : Inodes \cup {0},
               fill : 0..MaxBlks, used : 0..MaxBlks]
    <2>1. w \in WRec /\ nobj \in Nat
      BY <1>1, NumberTypes DEF Types, WTypes
    <2>2. w.o \in 0..nobj /\ w.next \in 0..nobj
      <3>1. CASE w.pc = "start"
        BY <1>1, <2>1, <3>1 DEF Types, WTypes, IdleWorker
      <3>2. CASE w.pc # "start"
        BY <1>1, <2>1, <3>2 DEF Types, WTypes
      <3> QED BY <3>1, <3>2
    <2>3. w.used \in 0..MaxBlks /\ w.fill \in 0..MaxBlks
      <3>1. w.used \in Nat /\ w.fill \in Nat /\ last.data \in Nat /\ w.used <= MaxBlks
        BY <1>1, NumberTypes DEF Counts
      <3>2. w.used = 0 => w.fill = 0
        BY <1>1 DEF Counts
      <3>3. w.used > 0 => last.data + w.fill = w.used
        BY <1>1 DEF Counts
      <3> QED BY <1>2, <3>1, <3>2, <3>3
    <2> QED BY <2>1, <2>2, <2>3 DEF WRec, WorkerPcs
  <1>6. th \in [Threads -> [pc : {"idle", "ilock", "front", "check", "add", "mark",
                                  "end", "leave"},
                            op : {"none", "mark", "stage"},
                            i : Inodes \cup {0}, o : 0..nobj]]
    BY <1>1 DEF Types, ThTypes, ThRec, ThreadPcs
  <1>7. ino \in [Inodes -> [dirty : BOOLEAN, txid : 0..(MaxObj + 1), stage : BOOLEAN]]
    <2> SUFFICES ASSUME NEW i \in Inodes
                 PROVE  ino[i] \in [dirty : BOOLEAN, txid : 0..(MaxObj + 1), stage : BOOLEAN]
      BY <1>1 DEF Types
    <2>1. ino[i] \in InoRec
      BY <1>1 DEF Types
    <2>2. ino[i].txid \in 0..(MaxObj + 1)
      BY <1>1, <1>2, NumberTypes DEF Ids
    <2> QED BY <2>1, <2>2 DEF InoRec
  <1>8. last \in [tid : 0..MaxObj, df : DF, reqs : 0..MaxBlks, data : 0..MaxBlks]
    <2>1. last \in [tid : Int, df : DF, reqs : Nat, data : Nat]
      BY <1>1 DEF Types
    <2>2. last.reqs \in 0..MaxBlks /\ last.data \in 0..MaxBlks
      <3>1. last.data <= MaxBlks /\ last.reqs <= last.data
        BY <1>1 DEF Counts
      <3> QED BY <1>2, <2>1, <3>1
    <2>3. last.tid \in 0..MaxObj
      <3>1. \A o \in 1..nobj : tr[o].tid \in 1..MaxObj
        BY <1>1, <1>2, NumberTypes DEF Ids
      <3>2. front \in 1..nobj /\ (w.pc # "start" => w.o \in 1..nobj)
        BY <1>1, NumberTypes
      <3>3. last.tid = IF w.pc = "start" THEN tr[front].tid - 1
                       ELSE IF w.used > 0 THEN tr[w.o].tid ELSE tr[w.o].tid - 1
        BY <1>1 DEF Ids
      <3> QED BY <1>2, <3>1, <3>2, <3>3
    <2> QED BY <2>1, <2>2, <2>3
  <1>9. mrc \in 0..MaxObj
    BY <1>1, <1>2, NumberTypes DEF Ids
  <1> QED BY <1>1, <1>3, <1>4, <1>5, <1>6, <1>7, <1>8, <1>9 DEF TypeOK, Types

(* The builds leave nothing behind: a staged or dirty file is in the set   *)
(* of a transaction that has still to build it, unless discard_transaction *)
(* revoked the id it names, and build_transaction() never meets a file     *)
(* with nothing to do.  For any number of threads, files, transactions and *)
(* blocks.                                                                 *)
THEOREM BuildsAreComplete == Spec => []BuildComplete
  <1>1. Built => BuildComplete
    <2> SUFFICES ASSUME Built PROVE BuildComplete
      OBVIOUS
    <2>1. Lists
      BY DEF Built
    <2>2. DirtyListedUnlessRevoked
      BY <2>1 DEF Lists, DirtyIn, DirtyListedUnlessRevoked, Listed
    <2> QED BY <2>1, <2>2, BuiltTypes DEF Lists, BuildComplete
  <1> QED BY <1>1, AlwaysBuilt, PTL
===============================================================================
