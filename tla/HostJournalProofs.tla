-------------------------- MODULE HostJournalProofs --------------------------
(***************************************************************************)
(* Proofs about HostJournal, for every number of threads, files, blocks    *)
(* and transactions.                                                       *)
(***************************************************************************)
EXTENDS HostJournal, FiniteSetTheorems, TLAPS

States == {"new", "running", "locked", "build", "commit", "freed"}
WorkerPcs == {"start", "lock", "drain", "snapshot", "build", "cut", "clear", "commit"}
ThreadPcs == {"idle", "ilock", "front", "check", "add", "mark", "end", "leave"}

TxRec  == [tid : Int, df : DF, files : SUBSET Inodes, ref : Int, state : States]
WRec   == [pc : WorkerPcs, o : Int, next : Int, todo : SUBSET Inodes,
           i : Inodes \cup {0}, fill : Nat, used : Nat]
ThRec  == [pc : ThreadPcs, op : {"none", "mark", "stage"}, i : Inodes \cup {0},
           o : Int]
InoRec == [dirty : BOOLEAN, txid : Int, stage : BOOLEAN]

(* The types without the bounds on the counters.                           *)
WTypes ==
    /\ w \in WRec
    /\ w.pc = "start" => w = IdleWorker
    /\ w.pc # "start" => w.o \in 1..nobj /\ w.next \in 1..nobj
    /\ w.pc \in {"cut", "clear"} => w.i \in Inodes

ThTypes ==
    /\ th \in [Threads -> ThRec]
    /\ \A t \in Threads :
          /\ th[t].pc # "idle" => th[t].i \in Inodes /\ th[t].op \in {"mark", "stage"}
          /\ th[t].pc \in {"check", "add", "mark", "end", "leave"} => th[t].o \in 1..nobj
          /\ th[t].o \in 0..nobj

Types ==
    /\ nobj \in Obj
    /\ front \in 1..nobj
    /\ tr \in [1..nobj -> TxRec]
    /\ seq \in Int
    /\ occupied \subseteq DF
    /\ WTypes
    /\ ThTypes
    /\ ino \in [Inodes -> InoRec]
    /\ ilock \in [Inodes -> Threads \cup {Free}]
    /\ slock \in [Inodes -> Threads \cup {Free, Work}]
    /\ inflight \subseteq 1..nobj
    /\ cb \in [Obj -> {"none", "free", "mrc"}]
    /\ mrc \in Int
    /\ failed \in {"no", "state", "freed", "nothing", "rc"}
    /\ last \in [tid : Int, df : DF, reqs : Nat, data : Nat]
    /\ revoked \subseteq Inodes

(* Where the worker is determines which transaction is running and in      *)
(* which state every other one is.                                         *)
Building == {"snapshot", "build", "cut", "clear", "commit"}

Control ==
    /\ w.pc = "start" => front = nobj /\ tr[front].state = "running"
    /\ w.pc \in {"lock", "drain"} =>
          /\ w.o = front /\ w.next = nobj /\ nobj = front + 1
          /\ tr[front].state = IF w.pc = "lock" THEN "running" ELSE "locked"
          /\ tr[nobj].state = "new"
    /\ w.pc \in Building =>
          /\ front = nobj /\ w.next = nobj /\ nobj = w.o + 1
          /\ tr[front].state = "running"
          /\ tr[w.o].state = IF w.pc = "snapshot" THEN "locked"
                             ELSE IF w.pc = "commit" THEN "commit" ELSE "build"
    /\ \A o \in 1..nobj :
          o # front /\ o # w.o /\ o # w.next =>
              \/ tr[o].state = "freed"
              \/ tr[o].state = "commit" /\ w.pc = "start"

(* A transaction that is not freed has a data fetcher of its own; there    *)
(* are two of them.                                                        *)
Live(o) == tr[o].state # "freed"

Fetchers ==
    /\ \A o \in 1..nobj : Live(o) => tr[o].df \in occupied
    /\ \A o, p \in 1..nobj : Live(o) /\ Live(p) /\ tr[o].df = tr[p].df => o = p

(* A request is unanswered, or its callback still owns the transaction,    *)
(* only while the worker is idle.                                          *)
Answers ==
    /\ \A o \in inflight :
          w.pc = "start" /\ tr[o].state = "commit" /\ o # front /\ cb[o] # "free"
    /\ \A o \in Obj : cb[o] = "free" =>
          o \in 1..nobj /\ w.pc = "start" /\ tr[o].state = "commit" /\ o # front

(* The reference count is the number of file operations between            *)
(* get_running_trans() and end_journal().                                  *)
Joined(o) == {t \in Threads : th[t].pc \in {"add", "mark", "end"} /\ th[t].o = o}

References ==
    /\ \A o \in 1..nobj : tr[o].ref = Cardinality(Joined(o))
    /\ w.pc = "snapshot" => Joined(w.o) = {}

(* Transaction ids have no gap, and the counts of blocks agree.            *)
Ids ==
    /\ \A o \in 1..nobj : 1 <= tr[o].tid /\ tr[o].tid <= o
    /\ seq = tr[nobj].tid + 1
    /\ w.pc # "start" => tr[nobj].tid = tr[w.o].tid + 1
    /\ last.tid = IF w.pc = "start" THEN tr[front].tid - 1
                  ELSE IF w.used > 0 THEN tr[w.o].tid ELSE tr[w.o].tid - 1
    /\ 0 <= mrc /\ mrc <= MaxObj
    /\ \A i \in Inodes : 0 <= ino[i].txid /\ ino[i].txid <= MaxObj

Counts ==
    /\ w.used <= MaxBlks
    /\ w.pc \in {"lock", "drain", "snapshot"} => w.used = 0
    /\ w.pc \in {"build", "cut", "clear"} => w.used < MaxBlks
    /\ w.used = 0 => w.fill = 0
    /\ w.fill < ChunkBlks
    /\ w.used > 0 =>
          /\ last.data + w.fill = w.used
          /\ w.pc # "commit" \/ w.fill > 0 => last.data = last.reqs * ChunkBlks
    /\ last.data <= MaxBlks
    /\ last.reqs <= last.data
    /\ w.used > 0 => last.df = tr[w.o].df

-----------------------------------------------------------------------------
(* What a step does to the records, field by field.                        *)

(* One transaction is updated.                                             *)
Updated(x, state, ref, files) ==
    /\ tr' \in [1..nobj -> TxRec]
    /\ \A o \in 1..nobj :
          /\ tr'[o].tid = tr[o].tid /\ tr'[o].df = tr[o].df
          /\ tr'[o].state = IF o = x THEN state ELSE tr[o].state
          /\ tr'[o].ref   = IF o = x THEN ref   ELSE tr[o].ref
          /\ tr'[o].files = IF o = x THEN files ELSE tr[o].files

(* One thread moves.                                                       *)
Moved(t, pc, op, i, o) ==
    /\ th' \in [Threads -> ThRec]
    /\ \A u \in Threads :
          /\ th'[u].pc = IF u = t THEN pc ELSE th[u].pc
          /\ th'[u].op = IF u = t THEN op ELSE th[u].op
          /\ th'[u].i  = IF u = t THEN i  ELSE th[u].i
          /\ th'[u].o  = IF u = t THEN o  ELSE th[u].o

(* The journal worker moves.                                               *)
Worked(pc, o, next, todo, i, fill, used) ==
    /\ w' \in WRec
    /\ w'.pc = pc /\ w'.o = o /\ w'.next = next /\ w'.todo = todo /\ w'.i = i
    /\ w'.fill = fill /\ w'.used = used

(* One inode is updated.                                                   *)
Marked(i, dirty, txid, stage) ==
    /\ ino' \in [Inodes -> InoRec]
    /\ \A j \in Inodes :
          /\ ino'[j].dirty = IF j = i THEN dirty ELSE ino[j].dirty
          /\ ino'[j].txid  = IF j = i THEN txid  ELSE ino[j].txid
          /\ ino'[j].stage = IF j = i THEN stage ELSE ino[j].stage

(* An update of one record of a function changes that record's field only. *)
LEMMA UpdateTx ==
    ASSUME NEW x \in 1..nobj, tr \in [1..nobj -> TxRec]
    PROVE  /\ \A v \in States : tr' = [tr EXCEPT ![x].state = v] =>
                  Updated(x, v, tr[x].ref, tr[x].files)
           /\ \A v \in Int : tr' = [tr EXCEPT ![x].ref = v] =>
                  Updated(x, tr[x].state, v, tr[x].files)
           /\ \A v \in SUBSET Inodes : tr' = [tr EXCEPT ![x].files = v] =>
                  Updated(x, tr[x].state, tr[x].ref, v)
  <1>1. ASSUME NEW v \in States, tr' = [tr EXCEPT ![x].state = v]
        PROVE  Updated(x, v, tr[x].ref, tr[x].files)
    BY <1>1 DEF Updated, TxRec
  <1>2. ASSUME NEW v \in Int, tr' = [tr EXCEPT ![x].ref = v]
        PROVE  Updated(x, tr[x].state, v, tr[x].files)
    BY <1>2 DEF Updated, TxRec
  <1>3. ASSUME NEW v \in SUBSET Inodes, tr' = [tr EXCEPT ![x].files = v]
        PROVE  Updated(x, tr[x].state, tr[x].ref, v)
    BY <1>3 DEF Updated, TxRec
  <1> QED BY <1>1, <1>2, <1>3

(* The same of a thread's record.                                          *)
LEMMA MoveTh ==
    ASSUME NEW t \in Threads, th \in [Threads -> ThRec], NEW pc \in ThreadPcs
    PROVE  /\ th' = [th EXCEPT ![t].pc = pc] =>
                  Moved(t, pc, th[t].op, th[t].i, th[t].o)
           /\ \A o \in Int : th' = [th EXCEPT ![t].pc = pc, ![t].o = o] =>
                  Moved(t, pc, th[t].op, th[t].i, o)
           /\ \A op \in {"none", "mark", "stage"}, i \in Inodes \cup {0} :
                  th' = [th EXCEPT ![t] = [pc |-> pc, op |-> op, i |-> i, o |-> 0]] =>
                  Moved(t, pc, op, i, 0)
  BY DEF Moved, ThRec

(* The same of an inode's record.                                          *)
LEMMA MarkIno ==
    ASSUME NEW i \in Inodes, ino \in [Inodes -> InoRec], NEW v \in BOOLEAN
    PROVE  /\ ino' = [ino EXCEPT ![i].dirty = v] =>
                  Marked(i, v, ino[i].txid, ino[i].stage)
           /\ ino' = [ino EXCEPT ![i].stage = v] =>
                  Marked(i, ino[i].dirty, ino[i].txid, v)
           /\ \A n \in Int : ino' = [ino EXCEPT ![i].dirty = v, ![i].txid = n] =>
                  Marked(i, v, n, ino[i].stage)
  BY DEF Marked, InoRec

(* What the threads' steps do.                                             *)
LEMMA MarkDirtyEffect ==
    ASSUME Types, NEW t \in Threads, MarkDirty(t)
    PROVE  \E i \in Inodes :
              /\ th[t].pc = "idle" /\ ilock[i] = Free /\ ~ino[i].dirty
              /\ Moved(t, "front", "mark", i, 0)
              /\ ilock' = [ilock EXCEPT ![i] = t]
              /\ UNCHANGED <<tr, front, nobj, seq, occupied, w, ino, slock, inflight,
                             cb, mrc, failed, last, revoked>>
  BY MoveTh, Zenon DEF MarkDirty, Types, WTypes, ThTypes, ThreadPcs

(* fsync() takes the stage lock of a file.                                 *)
LEMMA FsyncEffect ==
    ASSUME Types, NEW t \in Threads, Fsync(t)
    PROVE  \E i \in Inodes :
              /\ th[t].pc = "idle" /\ slock[i] = Free
              /\ Moved(t, "ilock", "stage", i, 0)
              /\ slock' = [slock EXCEPT ![i] = t]
              /\ UNCHANGED <<tr, front, nobj, seq, occupied, w, ino, ilock, inflight,
                             cb, mrc, failed, last, revoked>>
  BY MoveTh, Zenon DEF Fsync, Types, WTypes, ThTypes, ThreadPcs

(* It then takes the lock of the inode.                                    *)
LEMMA FsyncLockEffect ==
    ASSUME Types, NEW t \in Threads, FsyncLock(t)
    PROVE  /\ th[t].pc = "ilock" /\ th[t].i \in Inodes /\ ilock[th[t].i] = Free
           /\ Moved(t, "front", th[t].op, th[t].i, th[t].o)
           /\ ilock' = [ilock EXCEPT ![th[t].i] = t]
           /\ UNCHANGED <<tr, front, nobj, seq, occupied, w, ino, slock, inflight,
                          cb, mrc, failed, last, revoked>>
  BY MoveTh, Zenon DEF FsyncLock, Types, WTypes, ThTypes, ThreadPcs

(* begin_file_journal() reads the running transaction.                     *)
LEMMA ReadFrontEffect ==
    ASSUME Types, NEW t \in Threads, ReadFront(t)
    PROVE  /\ th[t].pc = "front" /\ th[t].i \in Inodes
           /\ Moved(t, "check", th[t].op, th[t].i, front)
           /\ UNCHANGED <<tr, front, nobj, seq, occupied, w, ino, ilock, slock,
                          inflight, cb, mrc, failed, last, revoked>>
  <1>1. th' = [th EXCEPT ![t].pc = "check", ![t].o = front] /\ front \in Int
    BY DEF ReadFront, Types, WTypes, ThTypes, Obj
  <1>2. Moved(t, "check", th[t].op, th[t].i, front)
    BY <1>1, MoveTh, Zenon DEF Types, WTypes, ThTypes, ThreadPcs
  <1> QED BY <1>2 DEF ReadFront, Types, WTypes, ThTypes

(* It counts itself in if the transaction still runs, or retries.          *)
LEMMA CheckStateEffect ==
    ASSUME Types, NEW t \in Threads, CheckState(t)
    PROVE  /\ th[t].pc = "check" /\ th[t].i \in Inodes /\ th[t].o \in 1..nobj
           /\ \/ /\ tr[th[t].o].state = "running"
                 /\ Updated(th[t].o, "running", tr[th[t].o].ref + 1, tr[th[t].o].files)
                 /\ Moved(t, "add", th[t].op, th[t].i, th[t].o)
                 /\ UNCHANGED failed
              \/ /\ Moved(t, "front", th[t].op, th[t].i, th[t].o)
                 /\ UNCHANGED <<tr, failed>>
              \/ failed' \in {"state", "freed"} /\ UNCHANGED <<tr, th>>
           /\ UNCHANGED <<front, nobj, seq, occupied, w, ino, ilock, slock, inflight,
                          cb, mrc, last, revoked>>
  <1> DEFINE o == th[t].o
  <1>1. th[t].pc = "check" /\ th[t].i \in Inodes /\ o \in 1..nobj /\ tr[o] \in TxRec
    BY DEF CheckState, Types, WTypes, ThTypes
  <1>2. CASE tr[o].state = "running"
    <2>1. /\ tr' = [tr EXCEPT ![o].ref = tr[o].ref + 1]
          /\ th' = [th EXCEPT ![t].pc = "add"] /\ failed' = failed
      BY <1>2 DEF CheckState, Join
    <2>2. Updated(o, tr[o].state, tr[o].ref + 1, tr[o].files)
      <3>1. tr[o].ref + 1 \in Int
        BY <1>1 DEF TxRec
      <3> QED BY <1>1, <2>1, <3>1, UpdateTx, Zenon DEF Types, WTypes, ThTypes
    <2>3. Moved(t, "add", th[t].op, th[t].i, th[t].o)
      BY <2>1, MoveTh, Zenon DEF Types, WTypes, ThTypes, ThreadPcs
    <2> QED BY <1>1, <1>2, <2>1, <2>2, <2>3 DEF CheckState
  <1>3. CASE tr[o].state \in {"locked", "build"}
    <2>1. th' = [th EXCEPT ![t].pc = "front"] /\ tr' = tr /\ failed' = failed
      BY <1>3 DEF CheckState
    <2> QED BY <1>1, <2>1, MoveTh, Zenon DEF CheckState, Types, WTypes, ThTypes, ThreadPcs
  <1>4. CASE tr[o].state \notin {"running", "locked", "build"}
    BY <1>1, <1>4 DEF CheckState
  <1> QED BY <1>2, <1>3, <1>4

(* add_file_to_transaction().                                              *)
LEMMA AddFileEffect ==
    ASSUME Types, NEW t \in Threads, AddFile(t)
    PROVE  LET x == th[t].o
           IN  /\ th[t].pc = "add" /\ th[t].i \in Inodes /\ x \in 1..nobj
               /\ Updated(x, tr[x].state, tr[x].ref, tr[x].files \cup {th[t].i})
               /\ AfterAdd(t) \in {"mark", "end"}
               /\ Moved(t, AfterAdd(t), th[t].op, th[t].i, x)
               /\ UNCHANGED <<front, nobj, seq, occupied, w, ino, ilock, slock,
                              inflight, cb, mrc, failed, last, revoked>>
  <1>1. /\ th[t].pc = "add" /\ th[t].i \in Inodes /\ th[t].o \in 1..nobj
        /\ tr[th[t].o] \in TxRec
    BY DEF AddFile, Types, WTypes, ThTypes
  <1>2. Updated(th[t].o, tr[th[t].o].state, tr[th[t].o].ref,
                tr[th[t].o].files \cup {th[t].i})
    BY <1>1, UpdateTx, Zenon DEF AddFile, Types, WTypes, ThTypes, TxRec
  <1>3. AfterAdd(t) \in {"mark", "end"}
    BY DEF AfterAdd
  <1>4. Moved(t, AfterAdd(t), th[t].op, th[t].i, th[t].o)
    BY <1>3, MoveTh, Zenon DEF AddFile, Types, WTypes, ThTypes, ThreadPcs
  <1> QED BY <1>1, <1>2, <1>3, <1>4 DEF AddFile

(* The dirty bit and the transaction id of the inode are set.              *)
LEMMA SetDirtyEffect ==
    ASSUME Types, NEW t \in Threads, SetDirty(t)
    PROVE  /\ th[t].pc = "mark" /\ th[t].i \in Inodes /\ th[t].o \in 1..nobj
           /\ Marked(th[t].i, TRUE, tr[th[t].o].tid, ino[th[t].i].stage)
           /\ revoked' = revoked \ {th[t].i}
           /\ Moved(t, "end", th[t].op, th[t].i, th[t].o)
           /\ UNCHANGED <<tr, front, nobj, seq, occupied, w, ilock, slock, inflight,
                          cb, mrc, failed, last>>
  <1>1. /\ th[t].pc = "mark" /\ th[t].i \in Inodes /\ th[t].o \in 1..nobj
        /\ tr[th[t].o].tid \in Int
    BY DEF SetDirty, Types, WTypes, ThTypes, TxRec
  <1>2. Marked(th[t].i, TRUE, tr[th[t].o].tid, ino[th[t].i].stage)
    BY <1>1, MarkIno, Zenon DEF SetDirty, Types, WTypes, ThTypes
  <1>3. Moved(t, "end", th[t].op, th[t].i, th[t].o)
    BY MoveTh, Zenon DEF SetDirty, Types, WTypes, ThTypes, ThreadPcs
  <1> QED BY <1>1, <1>2, <1>3, Zenon DEF SetDirty

(* end_file_journal() drops the reference.                                 *)
LEMMA EndJournalEffect ==
    ASSUME Types, NEW t \in Threads, EndJournal(t)
    PROVE  LET x == th[t].o
           IN  /\ th[t].pc = "end" /\ th[t].i \in Inodes /\ x \in 1..nobj
               /\ Updated(x, tr[x].state, tr[x].ref - 1, tr[x].files)
               /\ Moved(t, "leave", th[t].op, th[t].i, x)
               /\ UNCHANGED <<front, nobj, seq, occupied, w, ino, ilock, slock,
                              inflight, cb, mrc, failed, last, revoked>>
  <1>1. /\ th[t].pc = "end" /\ th[t].i \in Inodes /\ th[t].o \in 1..nobj
        /\ tr[th[t].o] \in TxRec
    BY DEF EndJournal, Types, WTypes, ThTypes
  <1>2. Updated(th[t].o, tr[th[t].o].state, tr[th[t].o].ref - 1, tr[th[t].o].files)
    <2>1. tr[th[t].o].ref - 1 \in Int
      BY <1>1 DEF TxRec
    <2>2. tr' = [tr EXCEPT ![th[t].o].ref = tr[th[t].o].ref - 1]
      BY DEF EndJournal
    <2> QED BY <1>1, <2>1, <2>2, UpdateTx, Zenon DEF Types, WTypes, ThTypes
  <1>3. Moved(t, "leave", th[t].op, th[t].i, th[t].o)
    BY MoveTh, Zenon DEF EndJournal, Types, WTypes, ThTypes, ThreadPcs
  <1> QED BY <1>1, <1>2, <1>3 DEF EndJournal

(* The file operation releases the locks of the file.                      *)
LEMMA LeaveEffect ==
    ASSUME Types, NEW t \in Threads, Leave(t)
    PROVE  LET i == th[t].i
           IN  /\ th[t].pc = "leave" /\ i \in Inodes /\ th[t].o \in 1..nobj
               /\ IF th[t].op = "stage"
                    THEN Marked(i, ino[i].dirty, ino[i].txid, TRUE)
                    ELSE Marked(i, TRUE, ino[i].txid, ino[i].stage)
               /\ ilock' = [ilock EXCEPT ![i] = Free]
               /\ slock' = IF th[t].op = "stage" THEN [slock EXCEPT ![i] = Free]
                                                ELSE slock
               /\ Moved(t, "idle", "none", 0, 0)
               /\ UNCHANGED <<tr, front, nobj, seq, occupied, w, inflight, cb, mrc,
                              failed, last, revoked>>
  <1>1. th[t].pc = "leave" /\ th[t].i \in Inodes /\ th[t].o \in 1..nobj
    BY DEF Leave, Types, WTypes, ThTypes
  <1>2. Moved(t, "idle", "none", 0, 0)
    BY MoveTh, Zenon DEF Leave, Types, WTypes, ThTypes, ThreadPcs, IdleThread
  <1>3. CASE th[t].op = "stage"
    BY <1>1, <1>2, <1>3, MarkIno, Zenon DEF Leave, Types, WTypes, ThTypes
  <1>4. CASE th[t].op # "stage"
    BY <1>1, <1>2, <1>4, MarkIno, Zenon DEF Leave, Types, WTypes, ThTypes
  <1> QED BY <1>3, <1>4, Zenon

-----------------------------------------------------------------------------
(* What the worker's steps do.                                             *)
LEMMA NewTransactionEffect ==
    ASSUME Types, NewTransaction
    PROVE  /\ w = IdleWorker /\ nobj < MaxObj
           /\ \E d \in DF \ occupied :
                 /\ tr' \in [1..nobj' -> TxRec]
                 /\ \A o \in 1..nobj : tr'[o] = tr[o]
                 /\ tr'[nobj'] = NewTx(seq, d)
                 /\ occupied' = occupied \cup {d}
           /\ nobj' = nobj + 1 /\ seq' = seq + 1
           /\ Worked("lock", front, nobj + 1, {}, 0, 0, 0)
           /\ UNCHANGED <<front, th, ino, ilock, slock, inflight, cb, mrc, failed,
                          last, revoked>>
  <1>1. w = IdleWorker /\ nobj \in Nat /\ front \in Int /\ seq \in Int
    BY DEF NewTransaction, Types, WTypes, ThTypes, Obj
  <1>2. nobj' = nobj + 1
    BY DEF NewTransaction
  <1>3. Worked("lock", front, nobj + 1, {}, 0, 0, 0)
    <2>1. w' = [IdleWorker EXCEPT !.pc = "lock", !.o = front, !.next = nobj + 1]
      BY <1>1, Zenon DEF NewTransaction
    <2>2. w' = [pc |-> "lock", o |-> front, next |-> nobj + 1, todo |-> {}, i |-> 0,
                fill |-> 0, used |-> 0]
      BY <2>1 DEF IdleWorker
    <2> QED BY <1>1, <2>2 DEF Worked, WRec, WorkerPcs
  <1>4. PICK d \in DF \ occupied :
          /\ tr' = [o \in 1..(nobj + 1) |-> IF o <= nobj THEN tr[o] ELSE NewTx(seq, d)]
          /\ occupied' = occupied \cup {d}
    BY DEF NewTransaction
  <1>5. NewTx(seq, d) \in TxRec
    BY <1>1 DEF NewTx, TxRec, States
  <1>6. \A o \in 1..nobj' : o <= nobj => o \in 1..nobj
    BY <1>1, <1>2
  <1>7. tr' \in [1..nobj' -> TxRec]
    BY <1>2, <1>4, <1>5, <1>6 DEF Types, WTypes, ThTypes
  <1>8. \A o \in 1..nobj : tr'[o] = tr[o]
    BY <1>1, <1>4
  <1>9. tr'[nobj'] = NewTx(seq, d)
    BY <1>1, <1>2, <1>4
  <1> QED BY <1>1, <1>2, <1>3, <1>4, <1>7, <1>8, <1>9 DEF NewTransaction

(* The fields of the worker that a step leaves alone.                      *)
LEMMA WorkerAt ==
    ASSUME Types, w.pc # "start"
    PROVE  w \in WRec /\ w.o \in 1..nobj /\ w.next \in 1..nobj /\ tr[w.o] \in TxRec
  BY DEF Types, WTypes, ThTypes

(* The worker locks the running transaction.                               *)
LEMMA LockTxEffect ==
    ASSUME Types, LockTx
    PROVE  /\ w.pc = "lock" /\ w.o \in 1..nobj /\ w.next \in 1..nobj
           /\ Updated(w.o, "locked", tr[w.o].ref, tr[w.o].files)
           /\ Worked("drain", w.o, w.next, w.todo, w.i, w.fill, w.used)
           /\ UNCHANGED <<front, nobj, seq, occupied, th, ino, ilock, slock,
                          inflight, cb, mrc, failed, last, revoked>>
  <1>1. w.pc = "lock"
    BY DEF LockTx
  <1>2. Updated(w.o, "locked", tr[w.o].ref, tr[w.o].files)
    BY <1>1, WorkerAt, UpdateTx, Zenon DEF LockTx, Types, WTypes, ThTypes, States
  <1>3. Worked("drain", w.o, w.next, w.todo, w.i, w.fill, w.used)
    BY <1>1, WorkerAt DEF LockTx, Worked, WRec, WorkerPcs
  <1> QED BY <1>1, <1>2, <1>3, WorkerAt DEF LockTx

(* Without references left, the next transaction runs.                     *)
LEMMA StartNextEffect ==
    ASSUME Types, StartNext
    PROVE  /\ w.pc = "drain" /\ w.o \in 1..nobj /\ w.next \in 1..nobj
           /\ tr[w.o].ref = 0 /\ front' = w.next
           /\ Updated(w.next, "running", tr[w.next].ref, tr[w.next].files)
           /\ Worked("snapshot", w.o, w.next, w.todo, w.i, w.fill, w.used)
           /\ UNCHANGED <<nobj, seq, occupied, th, ino, ilock, slock,
                          inflight, cb, mrc, failed, last, revoked>>
  <1>1. w.pc = "drain" /\ tr[w.o].ref = 0
    BY DEF StartNext, Drained
  <1>2. Updated(w.next, "running", tr[w.next].ref, tr[w.next].files)
    BY <1>1, WorkerAt, UpdateTx, Zenon DEF StartNext, Types, WTypes, ThTypes, States
  <1>3. Worked("snapshot", w.o, w.next, w.todo, w.i, w.fill, w.used)
    BY <1>1, WorkerAt DEF StartNext, Worked, WRec, WorkerPcs
  <1> QED BY <1>1, <1>2, <1>3, WorkerAt DEF StartNext

(* copy_blk() keeps the types.                                             *)
Filled(n) == IF w.fill + n = ChunkBlks THEN 0 ELSE w.fill + n

(* What copying a block does to the buffer and to the last request.        *)
LEMMA CopyType ==
    ASSUME Types, w.pc # "start", NEW n \in {0, 1}
    PROVE  /\ LastAfter(n) \in [tid : Int, df : DF, reqs : Nat, data : Nat]
           /\ Copied(n) = [w EXCEPT !.used = w.used + n, !.fill = Filled(n)]
           /\ w.used + n \in Nat /\ Filled(n) \in Nat
  <1>1. ChunkBlks \in Nat
    BY HostAssumption
  <1> DEFINE LastRec == [tid : Int, df : DF, reqs : Nat, data : Nat]
             l0 == [tid |-> tr[w.o].tid, df |-> tr[w.o].df, reqs |-> 0, data |-> 0]
  <1>2. l0 \in LastRec
    BY WorkerAt DEF TxRec
  <1>3. last \in LastRec
    BY DEF Types, WTypes, ThTypes
  <1>4. ASSUME NEW l \in LastRec
        PROVE [l EXCEPT !.reqs = l.reqs + 1, !.data = l.data + ChunkBlks] \in LastRec
    <2>1. l.reqs + 1 \in Nat /\ l.data + ChunkBlks \in Nat
      BY <1>1, <1>4
    <2>2. ASSUME NEW a \in Nat, NEW b \in Nat
          PROVE  [l EXCEPT !.reqs = a, !.data = b] \in LastRec
      BY <1>4, Zenon
    <2> QED BY <2>1, <2>2, Zenon
  <1>5. LastAfter(n) \in LastRec
    BY <1>2, <1>3, <1>4, Zenon DEF LastAfter
  <1>6. w.used + n \in Nat /\ Filled(n) \in Nat
    BY <1>1, WorkerAt DEF Filled, WRec
  <1> QED BY <1>5, <1>6 DEF Copied, Filled

(* The files of the transaction are the ones to build.                     *)
LEMMA SnapshotEffect ==
    ASSUME Types, Snapshot
    PROVE  \E n \in {0, 1} :
              /\ w.pc = "snapshot" /\ w.o \in 1..nobj /\ w.next \in 1..nobj
              /\ Updated(w.o, "build", tr[w.o].ref, tr[w.o].files)
              /\ Worked("build", w.o, w.next, tr[w.o].files, w.i, Filled(n), w.used + n)
              /\ last' = LastAfter(n)
              /\ UNCHANGED <<front, nobj, seq, occupied, th, ino, ilock, slock,
                             inflight, cb, mrc, failed, revoked>>
  <1>1. w.pc = "snapshot" /\ w.pc # "start"
    BY DEF Snapshot
  <1>2. Updated(w.o, "build", tr[w.o].ref, tr[w.o].files)
    BY <1>1, WorkerAt, UpdateTx, Zenon DEF Snapshot, Types, WTypes, ThTypes, States
  <1>3. PICK n \in {0, 1} :
          /\ w' = [Copied(n) EXCEPT !.pc = "build", !.todo = tr[w.o].files]
          /\ last' = LastAfter(n)
    BY Zenon DEF Snapshot
  <1>4. Worked("build", w.o, w.next, tr[w.o].files, w.i, Filled(n), w.used + n)
    <2>1. w' = [[w EXCEPT !.used = w.used + n, !.fill = Filled(n)]
                  EXCEPT !.pc = "build", !.todo = tr[w.o].files]
      BY <1>1, <1>3, CopyType, Zenon
    <2>2. w.used + n \in Nat /\ Filled(n) \in Nat /\ tr[w.o].files \in SUBSET Inodes
      BY <1>1, CopyType, WorkerAt DEF TxRec
    <2> HIDE DEF Filled
    <2> QED BY <1>1, <2>1, <2>2, WorkerAt, Zenon DEF Worked, WRec, WorkerPcs
  <1> QED BY <1>1, <1>2, <1>3, <1>4, WorkerAt DEF Snapshot

(* The worker takes one of the files.                                      *)
LEMMA BuildFileEffect ==
    ASSUME Types, BuildFile
    PROVE  \E i \in w.todo :
              /\ w.pc = "build" /\ w.o \in 1..nobj /\ w.next \in 1..nobj
              /\ i \in Inodes /\ slock[i] = Free /\ slock' = [slock EXCEPT ![i] = Work]
              /\ Worked("cut", w.o, w.next, w.todo \ {i}, i, w.fill, w.used)
              /\ UNCHANGED <<tr, front, nobj, seq, occupied, th, ino, ilock,
                             inflight, cb, mrc, failed, last, revoked>>
  <1>1. w.pc = "build"
    BY DEF BuildFile
  <1>2. PICK i \in w.todo :
          /\ slock[i] = Free /\ slock' = [slock EXCEPT ![i] = Work]
          /\ w' = [w EXCEPT !.pc = "cut", !.i = i, !.todo = @ \ {i}]
    BY Zenon DEF BuildFile
  <1>3. i \in Inodes
    BY <1>1, WorkerAt DEF WRec
  <1>4. Worked("cut", w.o, w.next, w.todo \ {i}, i, w.fill, w.used)
    BY <1>1, <1>2, <1>3, WorkerAt, Zenon DEF Worked, WRec, WorkerPcs
  <1> QED BY <1>1, <1>2, <1>3, <1>4, WorkerAt, Zenon DEF BuildFile

(* It cuts off the stage list of the file, or panics.                      *)
LEMMA CutStageEffect ==
    ASSUME Types, CutStage
    PROVE  /\ w.pc = "cut" /\ w.o \in 1..nobj /\ w.next \in 1..nobj
           /\ w.i \in Inodes /\ ilock[w.i] = Free
           /\ \/ /\ ino[w.i].dirty \/ ino[w.i].stage
                 /\ Marked(w.i, ino[w.i].dirty, ino[w.i].txid, FALSE)
                 /\ Worked("clear", w.o, w.next, w.todo, w.i, w.fill, w.used)
                 /\ UNCHANGED failed
              \/ /\ ~ino[w.i].dirty /\ ~ino[w.i].stage
                 /\ failed' = "nothing" /\ UNCHANGED <<w, ino>>
           /\ UNCHANGED <<tr, front, nobj, seq, occupied, th, ilock, slock,
                          inflight, cb, mrc, last, revoked>>
  <1>1. w.pc = "cut" /\ w.i \in Inodes
    BY DEF CutStage, Types, WTypes, ThTypes
  <1>2. CASE ino[w.i].dirty \/ ino[w.i].stage
    <2>1. /\ ino' = [ino EXCEPT ![w.i].stage = FALSE]
          /\ w' = [w EXCEPT !.pc = "clear"] /\ failed' = failed
      BY <1>2 DEF CutStage, StageAfterCut
    <2>2. Marked(w.i, ino[w.i].dirty, ino[w.i].txid, FALSE)
      BY <1>1, <2>1, MarkIno, Zenon DEF Types, WTypes, ThTypes
    <2>3. Worked("clear", w.o, w.next, w.todo, w.i, w.fill, w.used)
      BY <1>1, <2>1, WorkerAt DEF Worked, WRec, WorkerPcs
    <2> QED BY <1>1, <1>2, <2>1, <2>2, <2>3, WorkerAt, Zenon DEF CutStage
  <1>3. CASE ~(ino[w.i].dirty \/ ino[w.i].stage)
    BY <1>1, <1>3, WorkerAt, Zenon DEF CutStage
  <1> QED BY <1>2, <1>3, Zenon

(* It clears the dirty bit, unless another transaction has it.             *)
LEMMA ClearDirtyEffect ==
    ASSUME Types, ClearDirty
    PROVE  /\ w.pc = "clear" /\ w.o \in 1..nobj /\ w.next \in 1..nobj
           /\ w.i \in Inodes /\ ilock[w.i] = Free
           /\ Marked(w.i, StillDirty(w.i), ino[w.i].txid, ino[w.i].stage)
           /\ slock' = [slock EXCEPT ![w.i] = Free]
           /\ Worked("build", w.o, w.next, w.todo, w.i, w.fill, w.used)
           /\ UNCHANGED <<tr, front, nobj, seq, occupied, th, ilock,
                          inflight, cb, mrc, failed, last, revoked>>
  <1>1. w.pc = "clear" /\ w.i \in Inodes
    BY DEF ClearDirty, Types, WTypes, ThTypes
  <1>2. StillDirty(w.i) \in BOOLEAN
    BY DEF StillDirty
  <1>3. Marked(w.i, StillDirty(w.i), ino[w.i].txid, ino[w.i].stage)
    BY <1>1, <1>2, MarkIno, Zenon DEF ClearDirty, Types, WTypes, ThTypes
  <1>4. Worked("build", w.o, w.next, w.todo, w.i, w.fill, w.used)
    BY <1>1, WorkerAt DEF ClearDirty, Worked, WRec, WorkerPcs
  <1> QED BY <1>1, <1>3, <1>4, WorkerAt DEF ClearDirty

(* It copies a block of a file.                                            *)
LEMMA CopyDataEffect ==
    ASSUME Types, CopyData
    PROVE  /\ w.pc = "build" /\ w.o \in 1..nobj /\ w.next \in 1..nobj
           /\ w.used + 1 < MaxBlks
           /\ Worked("build", w.o, w.next, w.todo, w.i, Filled(1), w.used + 1)
           /\ last' = LastAfter(1)
           /\ UNCHANGED <<tr, front, nobj, seq, occupied, th, ino, ilock, slock,
                          inflight, cb, mrc, failed, revoked>>
  <1>1. w.pc = "build" /\ w.pc # "start"
    BY DEF CopyData
  <1>2. Worked("build", w.o, w.next, w.todo, w.i, Filled(1), w.used + 1)
    <2>1. w' = [w EXCEPT !.used = w.used + 1, !.fill = Filled(1)]
      BY <1>1, CopyType DEF CopyData
    <2>2. w.used + 1 \in Nat /\ Filled(1) \in Nat
      BY <1>1, CopyType
    <2> QED BY <1>1, <2>1, <2>2, WorkerAt, Zenon DEF Worked, WRec
  <1> QED BY <1>1, <1>2, WorkerAt DEF CopyData

(* It copies the inodes and sets TR_COMMIT.                                *)
LEMMA SnapshotInodesEffect ==
    ASSUME Types, SnapshotInodes
    PROVE  LET n == IF tr[w.o].files = {} THEN 0 ELSE 1
           IN  /\ w.pc = "build" /\ w.o \in 1..nobj /\ w.next \in 1..nobj
               /\ w.todo = {}
               /\ Updated(w.o, "commit", tr[w.o].ref, tr[w.o].files)
               /\ Worked("commit", w.o, w.next, w.todo, w.i, Filled(n), w.used + n)
               /\ last' = LastAfter(n)
               /\ UNCHANGED <<front, nobj, seq, occupied, th, ino, ilock, slock,
                              inflight, cb, mrc, failed, revoked>>
  <1> DEFINE n == IF tr[w.o].files = {} THEN 0 ELSE 1
  <1>1. w.pc = "build" /\ w.pc # "start"
    BY DEF SnapshotInodes
  <1>2. Updated(w.o, "commit", tr[w.o].ref, tr[w.o].files)
    BY <1>1, WorkerAt, UpdateTx, Zenon DEF SnapshotInodes, Types, WTypes, ThTypes, States
  <1>3. w' = [Copied(n) EXCEPT !.pc = "commit"] /\ last' = LastAfter(n) /\ w.todo = {}
    BY DEF SnapshotInodes
  <1>4. n \in {0, 1}
    OBVIOUS
  <1> HIDE DEF n
  <1>5. Worked("commit", w.o, w.next, w.todo, w.i, Filled(n), w.used + n)
    <2>1. w' = [[w EXCEPT !.used = w.used + n, !.fill = Filled(n)] EXCEPT !.pc = "commit"]
      BY <1>1, <1>3, <1>4, CopyType, Zenon
    <2>2. w.used + n \in Nat /\ Filled(n) \in Nat
      BY <1>1, <1>4, CopyType
    <2> QED BY <1>1, <2>1, <2>2, WorkerAt, Zenon DEF Worked, WRec, WorkerPcs
  <1>6. UNCHANGED <<front, nobj, seq, occupied, th, ino, ilock, slock, inflight, cb,
                    mrc, failed, revoked>>
    BY DEF SnapshotInodes
  <1> QED BY <1>1, <1>2, <1>3, <1>5, <1>6, WorkerAt DEF n

(* The worker is idle again.                                               *)
LEMMA IdleType == IdleWorker \in WRec
  BY DEF IdleWorker, WRec, WorkerPcs

(* A transaction without blocks is discarded, its id revoked.              *)
LEMMA DiscardEffect ==
    ASSUME Types, Discard, front # w.o
    PROVE  /\ w.pc = "commit" /\ w.o \in 1..nobj /\ w.next \in 1..nobj /\ w.used = 0
           /\ tr' \in [1..nobj -> TxRec]
           /\ \A o \in 1..nobj :
                 /\ tr'[o].tid = IF o = front THEN tr[o].tid - 1 ELSE tr[o].tid
                 /\ tr'[o].state = IF o = w.o THEN "freed" ELSE tr[o].state
                 /\ tr'[o].df = tr[o].df /\ tr'[o].ref = tr[o].ref
                 /\ tr'[o].files = tr[o].files
           /\ seq' = seq - 1 /\ occupied' = occupied \ {tr[w.o].df}
           /\ revoked' = revoked \cup {i \in Inodes : ino[i].txid = tr[front].tid}
           /\ w' = IdleWorker
           /\ UNCHANGED <<front, nobj, th, ino, ilock, slock, inflight, cb, mrc,
                          failed, last>>
  <1>1. w.pc = "commit" /\ w.o \in 1..nobj /\ w.next \in 1..nobj /\ front \in 1..nobj
    BY DEF Discard, Types, WTypes, ThTypes
  <1>2. tr[front].tid - 1 \in Int
    BY <1>1 DEF Types, WTypes, ThTypes, TxRec
  <1>3. tr' = [tr EXCEPT ![front].tid = tr[front].tid - 1, ![w.o].state = "freed"]
    BY DEF Discard
  <1>4. tr \in [1..nobj -> TxRec]
    BY DEF Types, WTypes, ThTypes
  <1>5. /\ tr' \in [1..nobj -> TxRec]
        /\ \A o \in 1..nobj :
              /\ tr'[o].tid = IF o = front THEN tr[front].tid - 1 ELSE tr[o].tid
              /\ tr'[o].state = IF o = w.o THEN "freed" ELSE tr[o].state
              /\ tr'[o].df = tr[o].df /\ tr'[o].ref = tr[o].ref
              /\ tr'[o].files = tr[o].files
    <2> DEFINE f == [tr EXCEPT ![front].tid = tr[front].tid - 1]
    <2>1. f \in [1..nobj -> TxRec]
      BY <1>1, <1>2, <1>4, Zenon DEF TxRec
    <2>2. \A o \in 1..nobj :
             /\ f[o].tid = IF o = front THEN tr[front].tid - 1 ELSE tr[o].tid
             /\ f[o].state = tr[o].state
             /\ f[o].df = tr[o].df /\ f[o].ref = tr[o].ref /\ f[o].files = tr[o].files
      BY <1>1, <1>2, <1>4 DEF TxRec
    <2>3. tr' = [f EXCEPT ![w.o].state = "freed"]
      BY <1>3
    <2> HIDE DEF f
    <2>4. tr' \in [1..nobj -> TxRec]
      BY <1>1, <2>1, <2>3 DEF TxRec, States
    <2>5. \A o \in 1..nobj :
             /\ tr'[o].tid = f[o].tid
             /\ tr'[o].state = IF o = w.o THEN "freed" ELSE f[o].state
             /\ tr'[o].df = f[o].df /\ tr'[o].ref = f[o].ref /\ tr'[o].files = f[o].files
      BY <1>1, <2>1, <2>3 DEF TxRec
    <2> QED BY <2>2, <2>4, <2>5
  <1> QED BY <1>1, <1>5 DEF Discard

(* The last, partly filled buffer is sent.                                 *)
LEMMA SendRestEffect ==
    ASSUME Types, SendRest
    PROVE  /\ w.pc = "commit" /\ w.o \in 1..nobj /\ w.next \in 1..nobj /\ w.fill > 0
           /\ Worked("commit", w.o, w.next, w.todo, w.i, 0, w.used)
           /\ last' = [last EXCEPT !.reqs = last.reqs + 1, !.data = last.data + w.fill]
           /\ last' \in [tid : Int, df : DF, reqs : Nat, data : Nat]
           /\ UNCHANGED <<tr, front, nobj, seq, occupied, th, ino, ilock, slock,
                          inflight, cb, mrc, failed, revoked>>
  <1>1. w.pc = "commit" /\ w.fill > 0
    BY DEF SendRest
  <1>2. Worked("commit", w.o, w.next, w.todo, w.i, 0, w.used)
    BY <1>1, WorkerAt DEF SendRest, Worked, WRec
  <1>3. last' = [last EXCEPT !.reqs = last.reqs + 1, !.data = last.data + w.fill]
    BY DEF SendRest
  <1>4. last.reqs + 1 \in Nat /\ last.data + w.fill \in Nat
    BY DEF Types, WTypes, ThTypes, WRec
  <1>5. last' \in [tid : Int, df : DF, reqs : Nat, data : Nat]
    BY <1>3, <1>4, Zenon DEF Types, WTypes, ThTypes
  <1> QED BY <1>1, <1>2, <1>3, <1>5, WorkerAt DEF SendRest

(* The commit request is sent.                                             *)
LEMMA RequestCommitEffect ==
    ASSUME Types, RequestCommit
    PROVE  /\ w.pc = "commit" /\ w.o \in 1..nobj /\ w.next \in 1..nobj
           /\ w.used > 0 /\ w.fill = 0
           /\ inflight' = inflight \cup {w.o}
           /\ w' = IdleWorker
           /\ UNCHANGED <<tr, front, nobj, seq, occupied, th, ino, ilock, slock, cb,
                          mrc, failed, last, revoked>>
  BY WorkerAt DEF RequestCommit

(* What the callback threads' steps do.                                    *)
LEMMA FreeTransactionEffect ==
    ASSUME Types, NEW o \in 1..nobj, FreeTransaction(o)
    PROVE  /\ cb[o] = "free"
           /\ Updated(o, "freed", tr[o].ref, tr[o].files)
           /\ occupied' = occupied \ {tr[o].df}
           /\ cb' = [cb EXCEPT ![o] = "mrc"]
           /\ UNCHANGED <<front, nobj, seq, w, th, ino, ilock, slock, inflight, mrc,
                          failed, last, revoked>>
  <1>1. Updated(o, "freed", tr[o].ref, tr[o].files)
    BY UpdateTx, Zenon DEF FreeTransaction, Types, WTypes, ThTypes, States
  <1> QED BY <1>1 DEF FreeTransaction

-----------------------------------------------------------------------------
(* Type correctness.                                                       *)
LEMMA InitTypes == Init => Types
  BY HostAssumption DEF Init, Types, WTypes, ThTypes, Obj, NewTx, IdleWorker, IdleThread,
     Free, Work, States, WorkerPcs, ThreadPcs, TxRec, WRec, ThRec, InoRec

(* A thread that moves keeps its type.                                     *)
LEMMA MovedTypes ==
    ASSUME Types, NEW t \in Threads, NEW pc, NEW op, NEW i, NEW o \in 0..nobj,
           Moved(t, pc, op, i, o), nobj' = nobj,
           pc # "idle" => i \in Inodes /\ op \in {"mark", "stage"},
           pc \in {"check", "add", "mark", "end", "leave"} => o \in 1..nobj
    PROVE  ThTypes'
  BY DEF Types, ThTypes, Moved

(* A thread's step keeps the types.                                        *)
LEMMA ThreadTypes == Types /\ ThreadNext => Types'
  <1> SUFFICES ASSUME Types, NEW t \in Threads,
                      \/ MarkDirty(t) \/ Fsync(t) \/ FsyncLock(t) \/ ReadFront(t)
                      \/ CheckState(t) \/ AddFile(t) \/ SetDirty(t) \/ EndJournal(t)
                      \/ Leave(t)
               PROVE  Types'
    BY DEF ThreadNext
  <1>1. CASE MarkDirty(t)
    <2>1. ThTypes'
      <3>1. PICK i \in Inodes : Moved(t, "front", "mark", i, 0)
        BY <1>1, MarkDirtyEffect
      <3>2. 0 \in 0..nobj /\ nobj' = nobj
        BY <1>1, MarkDirtyEffect DEF Types, Obj
      <3> QED BY <3>1, <3>2, MovedTypes
    <2>2. ilock' \in [Inodes -> Threads \cup {Free}]
      BY <1>1, MarkDirtyEffect DEF Types
    <2> QED BY <1>1, <2>1, <2>2, MarkDirtyEffect, Zenon DEF Types, WTypes
  <1>2. CASE Fsync(t)
    <2>1. ThTypes'
      <3>1. PICK i \in Inodes : Moved(t, "ilock", "stage", i, 0)
        BY <1>2, FsyncEffect
      <3>2. 0 \in 0..nobj /\ nobj' = nobj
        BY <1>2, FsyncEffect DEF Types, Obj
      <3> QED BY <3>1, <3>2, MovedTypes
    <2>2. slock' \in [Inodes -> Threads \cup {Free, Work}]
      BY <1>2, FsyncEffect DEF Types
    <2> QED BY <1>2, <2>1, <2>2, FsyncEffect, Zenon DEF Types, WTypes
  <1>3. CASE FsyncLock(t)
    <2>1. ThTypes'
      BY <1>3, FsyncLockEffect DEF Types, ThTypes, Moved
    <2>2. ilock' \in [Inodes -> Threads \cup {Free}]
      BY <1>3, FsyncLockEffect DEF Types
    <2> QED BY <1>3, <2>1, <2>2, FsyncLockEffect, Zenon DEF Types, WTypes
  <1>4. CASE ReadFront(t)
    <2>1. ThTypes'
      <3>1. /\ Moved(t, "check", th[t].op, th[t].i, front) /\ nobj' = nobj
            /\ th[t].i \in Inodes /\ th[t].pc = "front"
        BY <1>4, ReadFrontEffect, Zenon
      <3>2. th[t].op \in {"mark", "stage"}
        BY <3>1, Zenon DEF Types, ThTypes
      <3>3. front \in 1..nobj /\ front \in 0..nobj
        BY DEF Types, Obj
      <3> QED BY <3>1, <3>2, <3>3, MovedTypes
    <2> QED BY <1>4, <2>1, ReadFrontEffect, Zenon DEF Types, WTypes
  <1>5. CASE CheckState(t)
    <2>1. ThTypes'
      BY <1>5, CheckStateEffect DEF Types, ThTypes, Moved
    <2>2. tr' \in [1..nobj -> TxRec]
      BY <1>5, CheckStateEffect DEF Updated, Types
    <2> QED BY <1>5, <2>1, <2>2, CheckStateEffect, Zenon DEF Types, WTypes
  <1>6. CASE AddFile(t)
    <2>1. ThTypes'
      <3>1. /\ Moved(t, AfterAdd(t), th[t].op, th[t].i, th[t].o) /\ nobj' = nobj
            /\ th[t].o \in 1..nobj /\ th[t].i \in Inodes /\ th[t].pc = "add"
        BY <1>6, AddFileEffect, Zenon
      <3>2. th[t].op \in {"mark", "stage"} /\ th[t].o \in 0..nobj
        BY <3>1, Zenon DEF Types, ThTypes
      <3> QED BY <3>1, <3>2, MovedTypes
    <2>2. tr' \in [1..nobj -> TxRec]
      BY <1>6, AddFileEffect, Zenon DEF Updated, Types
    <2> QED BY <1>6, <2>1, <2>2, AddFileEffect, Zenon DEF Types, WTypes
  <1>7. CASE SetDirty(t)
    <2>1. ThTypes'
      <3>1. /\ Moved(t, "end", th[t].op, th[t].i, th[t].o) /\ nobj' = nobj
            /\ th[t].o \in 1..nobj /\ th[t].i \in Inodes
        BY <1>7, SetDirtyEffect, Zenon
      <3>2. th[t].op \in {"mark", "stage"} /\ th[t].o \in 0..nobj
        BY <1>7, SetDirtyEffect, Zenon DEF Types, ThTypes
      <3> QED BY <3>1, <3>2, MovedTypes
    <2>2. ino' \in [Inodes -> InoRec]
      BY <1>7, SetDirtyEffect, Zenon DEF Marked
    <2> QED BY <1>7, <2>1, <2>2, SetDirtyEffect, Zenon DEF Types, WTypes
  <1>8. CASE EndJournal(t)
    <2>1. ThTypes'
      BY <1>8, EndJournalEffect DEF Types, ThTypes, Moved
    <2>2. tr' \in [1..nobj -> TxRec]
      BY <1>8, EndJournalEffect DEF Updated, Types
    <2> QED BY <1>8, <2>1, <2>2, EndJournalEffect, Zenon DEF Types, WTypes
  <1>9. CASE Leave(t)
    <2>1. ThTypes'
      <3>1. Moved(t, "idle", "none", 0, 0) /\ nobj' = nobj
        BY <1>9, LeaveEffect, Zenon
      <3>2. 0 \in 0..nobj
        BY DEF Types, Obj
      <3> QED BY <3>1, <3>2, MovedTypes
    <2>2. /\ ilock' \in [Inodes -> Threads \cup {Free}]
          /\ slock' \in [Inodes -> Threads \cup {Free, Work}]
      BY <1>9, LeaveEffect DEF Types
    <2>3. ino' \in [Inodes -> InoRec]
      BY <1>9, LeaveEffect, Zenon DEF Marked
    <2> QED BY <1>9, <2>1, <2>2, <2>3, LeaveEffect, Zenon DEF Types, WTypes
  <1> QED BY <1>1, <1>2, <1>3, <1>4, <1>5, <1>6, <1>7, <1>8, <1>9

(* So does the worker's, given that it builds a transaction it left.       *)
LEMMA WorkerTypes ==
    ASSUME Types, WorkerNext, Discard => front # w.o PROVE Types'
  <1>1. CASE NewTransaction
    <2>1. WTypes'
      BY <1>1, NewTransactionEffect DEF Types, WTypes, Worked, Obj
    <2>2. /\ nobj' \in Obj /\ front' \in 1..nobj' /\ inflight' \subseteq 1..nobj'
          /\ tr' \in [1..nobj' -> TxRec] /\ seq' \in Int /\ occupied' \subseteq DF
      <3>1. nobj' = nobj + 1 /\ nobj < MaxObj /\ nobj \in Obj /\ MaxObj \in Nat
        BY <1>1, HostAssumption, NewTransactionEffect DEF Types
      <3>2. nobj' \in Obj /\ 1..nobj \subseteq 1..nobj'
        BY <3>1 DEF Obj
      <3>3. front' = front /\ inflight' = inflight /\ seq' = seq + 1
        BY <1>1, NewTransactionEffect
      <3>4. occupied' \subseteq DF /\ tr' \in [1..nobj' -> TxRec]
        BY <1>1, NewTransactionEffect DEF Types
      <3> QED BY <3>2, <3>3, <3>4 DEF Types
    <2>3. ThTypes'
      BY <1>1, NewTransactionEffect DEF Types, ThTypes, Obj
    <2> QED BY <1>1, <2>1, <2>2, <2>3, NewTransactionEffect DEF Types, ThTypes
  <1>2. CASE LockTx
    <2>1. WTypes'
      BY <1>2, LockTxEffect DEF Types, WTypes, Worked
    <2>2. tr' \in [1..nobj -> TxRec]
      BY <1>2, LockTxEffect DEF Updated
    <2> QED BY <1>2, <2>1, <2>2, LockTxEffect, Zenon DEF Types, ThTypes
  <1>3. CASE StartNext
    <2>1. WTypes'
      BY <1>3, StartNextEffect DEF Types, WTypes, Worked
    <2>2. tr' \in [1..nobj -> TxRec]
      BY <1>3, StartNextEffect, Zenon DEF Updated
    <2> QED BY <1>3, <2>1, <2>2, StartNextEffect, Zenon DEF Types, ThTypes
  <1>4. CASE Snapshot
    <2>1. WTypes'
      BY <1>4, SnapshotEffect, Zenon DEF Types, WTypes, Worked
    <2>2. tr' \in [1..nobj -> TxRec]
      BY <1>4, SnapshotEffect DEF Updated
    <2>3. last' \in [tid : Int, df : DF, reqs : Nat, data : Nat]
      BY <1>4, SnapshotEffect, CopyType
    <2> QED BY <1>4, <2>1, <2>2, <2>3, SnapshotEffect, Zenon DEF Types, ThTypes
  <1>5. CASE BuildFile
    <2>1. WTypes'
      BY <1>5, BuildFileEffect DEF Types, WTypes, Worked
    <2>2. slock' \in [Inodes -> Threads \cup {Free, Work}]
      BY <1>5, BuildFileEffect, Zenon DEF Types
    <2> QED BY <1>5, <2>1, <2>2, BuildFileEffect, Zenon DEF Types, ThTypes
  <1>6. CASE CutStage
    <2>1. WTypes'
      BY <1>6, CutStageEffect, Zenon DEF Types, WTypes, Worked
    <2>2. ino' \in [Inodes -> InoRec]
      BY <1>6, CutStageEffect, Zenon DEF Marked, Types
    <2> QED BY <1>6, <2>1, <2>2, CutStageEffect, Zenon DEF Types, ThTypes
  <1>7. CASE ClearDirty
    <2>1. WTypes'
      BY <1>7, ClearDirtyEffect DEF Types, WTypes, Worked
    <2>2. ino' \in [Inodes -> InoRec]
      BY <1>7, ClearDirtyEffect DEF Marked, Types
    <2>3. slock' \in [Inodes -> Threads \cup {Free, Work}]
      BY <1>7, ClearDirtyEffect DEF Types
    <2> QED BY <1>7, <2>1, <2>2, <2>3, ClearDirtyEffect, Zenon DEF Types, ThTypes
  <1>8. CASE CopyData
    <2>1. WTypes'
      BY <1>8, CopyDataEffect DEF Types, WTypes, Worked
    <2>2. last' \in [tid : Int, df : DF, reqs : Nat, data : Nat]
      BY <1>8, CopyDataEffect, CopyType
    <2> QED BY <1>8, <2>1, <2>2, CopyDataEffect, Zenon DEF Types, ThTypes
  <1>9. CASE SnapshotInodes
    <2>1. WTypes'
      BY <1>9, SnapshotInodesEffect, Zenon DEF Types, WTypes, Worked
    <2>2. tr' \in [1..nobj -> TxRec]
      BY <1>9, SnapshotInodesEffect, Zenon DEF Updated
    <2>3. last' \in [tid : Int, df : DF, reqs : Nat, data : Nat]
      BY <1>9, SnapshotInodesEffect, CopyType
    <2> QED BY <1>9, <2>1, <2>2, <2>3, SnapshotInodesEffect, Zenon DEF Types, ThTypes
  <1>10. CASE Discard
    <2>1. WTypes'
      <3>1. w' = IdleWorker
        BY <1>10, DiscardEffect
      <3> QED BY <3>1, IdleType DEF WTypes, IdleWorker
    <2>2. seq' \in Int /\ occupied' \subseteq DF /\ revoked' \subseteq Inodes
      BY <1>10, DiscardEffect DEF Types
    <2> QED BY <1>10, <2>1, <2>2, DiscardEffect, Zenon DEF Types, ThTypes
  <1>11. CASE SendRest
    <2>1. WTypes'
      BY <1>11, SendRestEffect DEF Types, WTypes, Worked
    <2> QED BY <1>11, <2>1, SendRestEffect DEF Types, ThTypes
  <1>12. CASE RequestCommit
    <2>1. WTypes'
      <3>1. w' = IdleWorker
        BY <1>12, RequestCommitEffect
      <3> QED BY <3>1, IdleType DEF WTypes, IdleWorker
    <2>2. inflight' \subseteq 1..nobj
      BY <1>12, RequestCommitEffect, Zenon DEF Types
    <2> QED BY <1>12, <2>1, <2>2, RequestCommitEffect DEF Types, ThTypes
  <1> QED BY <1>1, <1>2, <1>3, <1>4, <1>5, <1>6, <1>7, <1>8, <1>9, <1>10, <1>11,
             <1>12 DEF WorkerNext

(* So does a response.                                                     *)
LEMMA CallbackTypes == Types /\ CallbackNext => Types'
  <1> SUFFICES ASSUME Types, CallbackNext PROVE Types'
    OBVIOUS
  <1> USE DEF Types, WTypes, ThTypes
  <1>1. ASSUME NEW o \in 1..nobj, NEW ok \in BOOLEAN, Response(o, ok) PROVE Types'
    BY <1>1, Zenon DEF Response
  <1>2. ASSUME NEW o \in 1..nobj, FreeTransaction(o) PROVE Types'
    <2>1. tr' \in [1..nobj -> TxRec]
      BY <1>2, FreeTransactionEffect, Zenon DEF Updated
    <2>2. cb' \in [Obj -> {"none", "free", "mrc"}] /\ occupied' \subseteq DF
      BY <1>2, FreeTransactionEffect, Zenon
    <2> QED BY <1>2, <2>1, <2>2, FreeTransactionEffect, Zenon
  <1>3. ASSUME NEW o \in 1..nobj, SetMrc(o) PROVE Types'
    BY <1>3, Zenon DEF SetMrc, TxRec
  <1>4. CASE FetchError
    BY <1>4 DEF FetchError
  <1> QED BY <1>1, <1>2, <1>3, <1>4, Zenon DEF CallbackNext

-----------------------------------------------------------------------------
(* Where the worker is, which data fetchers are taken and which requests   *)
(* are unanswered.                                                         *)
Placed == Types /\ Control /\ Fetchers /\ Answers

(* The invariant Placed holds initially.                                   *)
LEMMA InitPlaced == Init => Placed
  <1> SUFFICES ASSUME Init PROVE Placed
    OBVIOUS
  <1>1. /\ nobj = 1 /\ front = 1 /\ w.pc = "start" /\ w.o = 0 /\ w.next = 0
        /\ inflight = {} /\ cb = [o \in Obj |-> "none"] /\ 1 \in Obj
    BY HostAssumption DEF Init, IdleWorker, Obj
  <1>2. tr[1].state = "running" /\ tr[1].df \in occupied
    BY DEF Init, NewTx
  <1>3. 1..nobj = {1}
    BY <1>1
  <1> QED
    BY <1>1, <1>2, <1>3, InitTypes DEF Placed, Control, Fetchers, Answers, Building

(* The threads leave all of this alone.                                    *)
LEMMA ThreadKeeps ==
    ASSUME Types, ThreadNext
    PROVE  /\ UNCHANGED <<front, nobj, seq, occupied, w, inflight, cb, mrc, last>>
           /\ tr' \in [1..nobj -> TxRec]
           /\ \A o \in 1..nobj :
                 /\ tr'[o].tid = tr[o].tid /\ tr'[o].df = tr[o].df
                 /\ tr'[o].state = tr[o].state
  <1>1. PICK t \in Threads :
          \/ MarkDirty(t) \/ Fsync(t) \/ FsyncLock(t) \/ ReadFront(t)
          \/ CheckState(t) \/ AddFile(t) \/ SetDirty(t) \/ EndJournal(t)
          \/ Leave(t)
    BY DEF ThreadNext
  <1>2. CASE MarkDirty(t) \/ Fsync(t) \/ FsyncLock(t) \/ ReadFront(t) \/ SetDirty(t)
             \/ Leave(t)
    BY <1>2, Zenon DEF MarkDirty, Fsync, FsyncLock, ReadFront, SetDirty, Leave, Types
  <1>3. CASE CheckState(t)
    BY <1>3, CheckStateEffect, Zenon DEF Updated, Types
  <1>4. CASE AddFile(t)
    BY <1>4, AddFileEffect, Zenon DEF Updated
  <1>5. CASE EndJournal(t)
    BY <1>5, EndJournalEffect, Zenon DEF Updated
  <1> QED BY <1>1, <1>2, <1>3, <1>4, <1>5

(* A transaction that was allocated is a transaction.                      *)
LEMMA ObjectInObj ==
    ASSUME Types PROVE 1..nobj \subseteq Obj /\ nobj \in 1..nobj
  <1>1. MaxObj \in Nat /\ nobj \in 1..MaxObj
    BY HostAssumption DEF Types, Obj
  <1> QED BY <1>1 DEF Obj

(* Control depends on the states of the transactions only.                 *)
LEMMA ControlKept ==
    ASSUME Types, Control, UNCHANGED <<front, nobj, w>>,
           \A o \in 1..nobj : tr'[o].state = tr[o].state
    PROVE  Control'
  <1>1. front \in 1..nobj /\ nobj \in 1..nobj
    BY ObjectInObj DEF Types
  <1>2. w.pc \in Building => w.o \in 1..nobj
    BY DEF Types, WTypes, Building
  <1> QED BY <1>1, <1>2 DEF Control

(* A thread's step keeps Placed.                                           *)
LEMMA ThreadPlaced == Placed /\ ThreadNext => Placed'
  <1> SUFFICES ASSUME Placed, ThreadNext PROVE Placed'
    OBVIOUS
  <1>1. Types /\ Types'
    BY ThreadTypes DEF Placed
  <1>2. Control'
    BY <1>1, ThreadKeeps, ControlKept DEF Placed
  <1>3. Fetchers'
    BY <1>1, ThreadKeeps DEF Placed, Fetchers, Live
  <1>4. Answers'
    BY <1>1, ThreadKeeps DEF Placed, Answers, Types
  <1> QED BY <1>1, <1>2, <1>3, <1>4 DEF Placed

(* With two data fetchers, a free one means that the running transaction   *)
(* is the only one that is not freed.                                      *)
LEMMA OneLive ==
    ASSUME Placed, w.pc = "start", NEW d \in DF \ occupied
    PROVE  \A o \in 1..nobj : o # front => tr[o].state = "freed"
  <1>1. PICK a, b \in DF : DF = {a, b}
    BY HostAssumption
  <1>2. front \in 1..nobj /\ Live(front)
    BY DEF Placed, Types, Control, Live
  <1>3. ASSUME NEW o \in 1..nobj, o # front, Live(o) PROVE FALSE
    <2>1. tr[o].df \in occupied /\ tr[front].df \in occupied /\ tr[o].df # tr[front].df
      BY <1>2, <1>3 DEF Placed, Fetchers
    <2> QED BY <1>1, <2>1 DEF Placed, Types
  <1> QED BY <1>3 DEF Live

(* So does the start of the next transaction.                              *)
LEMMA NewTransactionPlaced == Placed /\ NewTransaction => Placed'
  <1> SUFFICES ASSUME Placed, NewTransaction PROVE Placed'
    OBVIOUS
  <1>1. Types /\ w.pc = "start" /\ front = nobj /\ tr[front].state = "running"
    BY DEF Placed, Control, NewTransaction
  <1>2. PICK d \in DF \ occupied :
          /\ \A o \in 1..nobj : tr'[o] = tr[o]
          /\ tr'[nobj'] = NewTx(seq, d)
          /\ occupied' = occupied \cup {d}
    BY <1>1, NewTransactionEffect
  <1>3. Types'
    <2>1. ~Discard
      BY <1>1 DEF Discard
    <2> QED BY <1>1, <2>1, WorkerTypes DEF WorkerNext
  <1>4. \A o \in 1..nobj : o # front => tr[o].state = "freed"
    BY <1>1, OneLive
  <1>5. /\ w'.pc = "lock" /\ w'.o = nobj /\ w'.next = nobj' /\ front' = nobj
        /\ nobj' = nobj + 1 /\ nobj \in Nat /\ UNCHANGED <<inflight, cb>>
    BY <1>1, NewTransactionEffect DEF Worked, Types, Obj
  <1>6. \A o \in 1..nobj' : o # nobj' => o \in 1..nobj
    BY <1>5
  <1>7. tr'[nobj'].state = "new" /\ tr'[nobj'].df = d
    BY <1>2 DEF NewTx
  <1>8. Control'
    <2>1. \A o \in 1..nobj' : o # nobj /\ o # nobj' => tr'[o].state = "freed"
      BY <1>1, <1>2, <1>4, <1>6
    <2>2. nobj \in 1..nobj /\ tr'[nobj].state = "running"
      BY <1>1, <1>2, ObjectInObj
    <2> QED BY <1>5, <1>7, <2>1, <2>2 DEF Control, Building
  <1>9. Fetchers'
    <2>1. \A o \in 1..nobj : Live(o) => o = front /\ tr[o].df \in occupied
      BY <1>4 DEF Placed, Fetchers, Live
    <2> QED BY <1>2, <1>5, <1>6, <1>7, <2>1 DEF Fetchers, Live
  <1>10. Answers'
    <2>1. inflight = {}
      BY <1>1, <1>4 DEF Placed, Answers, Types
    <2>2. \A o \in Obj : cb[o] # "free"
      BY <1>1, <1>4 DEF Placed, Answers
    <2> QED BY <1>5, <2>1, <2>2 DEF Answers
  <1> QED BY <1>3, <1>8, <1>9, <1>10 DEF Placed

(* The other steps of the worker, which is not idle.                       *)
LEMMA WorkerAlone ==
    ASSUME Placed, w.pc # "start"
    PROVE  /\ inflight = {} /\ \A o \in Obj : cb[o] # "free"
           /\ front # w.o \/ w.pc \in {"lock", "drain"}
           /\ w.o # w.next
  BY DEF Placed, Answers, Control, Types, WTypes, WRec, WorkerPcs, Building

(* The data fetchers stay apart when a transaction in use changes.         *)
LEMMA UpdatedFetchers ==
    ASSUME Placed, NEW x \in 1..nobj, NEW state, NEW ref, NEW files, Live(x),
           Updated(x, state, ref, files), nobj' = nobj, occupied' = occupied
    PROVE  Fetchers'
  <1>1. \A o \in 1..nobj : tr'[o].df = tr[o].df /\ (Live(o)' => Live(o))
    BY DEF Updated, Live
  <1> QED BY <1>1 DEF Placed, Fetchers

(* So does every other step of the worker.                                 *)
LEMMA WorkerPlaced == Placed /\ WorkerNext => Placed'
  <1> SUFFICES ASSUME Placed, WorkerNext PROVE Placed'
    OBVIOUS
  <1>1. Types /\ Types'
    <2>1. Discard => front # w.o
      BY WorkerAlone DEF Discard
    <2> QED BY <2>1, WorkerTypes DEF Placed
  <1>2. CASE NewTransaction
    BY <1>2, NewTransactionPlaced
  <1>3. CASE LockTx
    <2>a. /\ w.pc = "lock" /\ w'.pc = "drain" /\ w'.o = w.o /\ w'.next = w.next
          /\ Updated(w.o, "locked", tr[w.o].ref, tr[w.o].files) /\ w.o \in 1..nobj
          /\ w.next \in 1..nobj /\ UNCHANGED <<front, nobj, occupied>>
      BY <1>1, <1>3, LockTxEffect, Zenon DEF Worked
    <2>1. Control'
      BY <1>1, <2>a DEF Placed, Control, Building, Updated
    <2>2. Fetchers'
      <3>1. Live(w.o)
        BY <2>a DEF Placed, Control, Live
      <3> QED BY <2>a, <3>1, UpdatedFetchers
    <2>3. Answers'
      BY <1>1, <1>3, WorkerAlone, LockTxEffect, Zenon DEF Answers
    <2> QED BY <1>1, <2>1, <2>2, <2>3 DEF Placed
  <1>4. CASE StartNext
    <2>a. /\ w.pc = "drain" /\ w'.pc = "snapshot" /\ w'.o = w.o /\ w'.next = w.next
          /\ Updated(w.next, "running", tr[w.next].ref, tr[w.next].files)
          /\ w.o \in 1..nobj /\ w.next \in 1..nobj /\ front' = w.next
          /\ UNCHANGED <<nobj, occupied>>
      BY <1>1, <1>4, StartNextEffect, Zenon DEF Worked
    <2>1. Control'
      BY <1>1, <2>a DEF Placed, Control, Building, Updated
    <2>2. Fetchers'
      <3>1. Live(w.next)
        BY <2>a DEF Placed, Control, Live
      <3> QED BY <2>a, <3>1, UpdatedFetchers
    <2>3. Answers'
      BY <1>1, <1>4, WorkerAlone, StartNextEffect DEF Answers
    <2> QED BY <1>1, <2>1, <2>2, <2>3 DEF Placed
  <1>5. CASE Snapshot
    <2>a. /\ w.pc = "snapshot" /\ w'.pc = "build" /\ w'.o = w.o /\ w'.next = w.next
          /\ Updated(w.o, "build", tr[w.o].ref, tr[w.o].files)
          /\ UNCHANGED <<front, nobj, occupied>>
      BY <1>1, <1>5, SnapshotEffect DEF Worked
    <2>b. w.o \in 1..nobj /\ front \in 1..nobj
      BY <1>1, <2>a DEF Types, WTypes
    <2>1. Control'
      BY <2>a, <2>b DEF Placed, Control, Building, Updated
    <2>2. Fetchers'
      <3>1. Live(w.o)
        BY <2>a DEF Placed, Control, Building, Live
      <3> QED BY <2>a, <2>b, <3>1, UpdatedFetchers
    <2>3. Answers'
      BY <1>1, <1>5, WorkerAlone, SnapshotEffect, Zenon DEF Answers
    <2> QED BY <1>1, <2>1, <2>2, <2>3 DEF Placed
  <1>6. CASE BuildFile \/ CutStage \/ ClearDirty \/ CopyData
    <2>1. /\ w'.pc \in {"build", "cut", "clear"} /\ w'.o = w.o /\ w'.next = w.next
          /\ w.pc \in {"build", "cut", "clear"}
          /\ UNCHANGED <<tr, front, nobj, occupied, inflight, cb>>
      BY <1>1, <1>6, BuildFileEffect, CutStageEffect, ClearDirtyEffect, CopyDataEffect, Zenon
         DEF Worked
    <2>2. Control'
      BY <1>1, <2>1, Zenon DEF Placed, Control, Building
    <2>3. Fetchers'
      BY <2>1, Zenon DEF Placed, Fetchers, Live
    <2>4. Answers'
      BY <2>1, WorkerAlone DEF Answers
    <2> QED BY <1>1, <2>2, <2>3, <2>4 DEF Placed
  <1>7. CASE SnapshotInodes
    <2>a. /\ w.pc = "build" /\ w'.pc = "commit" /\ w'.o = w.o /\ w'.next = w.next
          /\ Updated(w.o, "commit", tr[w.o].ref, tr[w.o].files)
          /\ w.o \in 1..nobj /\ w.next \in 1..nobj
          /\ UNCHANGED <<front, nobj, occupied>>
      BY <1>1, <1>7, SnapshotInodesEffect, Zenon DEF Worked
    <2>1. Control'
      BY <1>1, <2>a DEF Placed, Control, Building, Updated
    <2>2. Fetchers'
      <3>1. Live(w.o)
        BY <2>a DEF Placed, Control, Building, Live
      <3> QED BY <2>a, <3>1, UpdatedFetchers
    <2>3. Answers'
      BY <1>1, <1>7, WorkerAlone, SnapshotInodesEffect, Zenon DEF Answers
    <2> QED BY <1>1, <2>1, <2>2, <2>3 DEF Placed
  <1>8. CASE Discard
    <2>1. front # w.o /\ w.pc = "commit"
      BY <1>8, WorkerAlone DEF Discard
    <2>2. /\ \A o \in 1..nobj :
                /\ tr'[o].state = IF o = w.o THEN "freed" ELSE tr[o].state
                /\ tr'[o].df = tr[o].df
          /\ occupied' = occupied \ {tr[w.o].df} /\ w'.pc = "start"
          /\ UNCHANGED <<front, nobj, inflight, cb>> /\ w.o \in 1..nobj
      <3>1. w' = IdleWorker
        BY <1>1, <1>8, <2>1, DiscardEffect, Zenon
      <3>2. w'.pc = "start"
        BY <3>1 DEF IdleWorker
      <3> QED BY <1>1, <1>8, <2>1, <3>2, DiscardEffect, Zenon
    <2>3. Control'
      BY <1>1, <2>1, <2>2, Zenon DEF Placed, Control, Building, Types
    <2>4. Fetchers'
      <3>1. Live(w.o)
        BY <2>1 DEF Placed, Control, Building, Live
      <3>2. \A o \in 1..nobj : Live(o)' => Live(o) /\ o # w.o
        BY <2>2 DEF Live
      <3>3. \A o \in 1..nobj : Live(o)' => tr[o].df # tr[w.o].df
        BY <2>2, <3>1, <3>2 DEF Placed, Fetchers
      <3> QED BY <2>2, <3>2, <3>3 DEF Placed, Fetchers
    <2>5. Answers'
      BY <2>1, <2>2, WorkerAlone DEF Answers
    <2> QED BY <1>1, <2>3, <2>4, <2>5 DEF Placed
  <1>9. CASE SendRest
    <2>1. /\ w'.pc = "commit" /\ w'.o = w.o /\ w'.next = w.next /\ w.pc = "commit"
          /\ UNCHANGED <<tr, front, nobj, occupied, inflight, cb>>
      BY <1>1, <1>9, SendRestEffect DEF Worked
    <2>2. Control'
      BY <1>1, <2>1, Zenon DEF Placed, Control, Building
    <2>3. Fetchers'
      BY <2>1, Zenon DEF Placed, Fetchers, Live
    <2>4. Answers'
      BY <2>1, WorkerAlone, Zenon DEF Answers
    <2> QED BY <1>1, <2>2, <2>3, <2>4 DEF Placed
  <1>10. CASE RequestCommit
    <2>1. /\ w'.pc = "start" /\ w.pc = "commit" /\ w.o \in 1..nobj
          /\ inflight' = inflight \cup {w.o}
          /\ UNCHANGED <<tr, front, nobj, occupied, cb>>
      BY <1>1, <1>10, RequestCommitEffect DEF IdleWorker
    <2>2. tr[w.o].state = "commit" /\ front # w.o
      BY <2>1, WorkerAlone, Zenon DEF Placed, Control, Building
    <2>3. Control'
      BY <1>1, <2>1, <2>2, Zenon DEF Placed, Control, Building, Types
    <2>4. Fetchers'
      BY <2>1 DEF Placed, Fetchers, Live
    <2>5. Answers'
      <3>1. inflight' = {w.o} /\ \A o \in Obj : cb'[o] # "free"
        BY <2>1, WorkerAlone
      <3>2. w.o \in Obj
        BY <1>1, <2>1, ObjectInObj
      <3> QED BY <2>1, <2>2, <3>1, <3>2 DEF Answers
    <2> QED BY <1>1, <2>3, <2>4, <2>5 DEF Placed
  <1> QED BY <1>2, <1>3, <1>4, <1>5, <1>6, <1>7, <1>8, <1>9, <1>10 DEF WorkerNext

(* So does a response.                                                     *)
LEMMA CallbackPlaced == Placed /\ CallbackNext => Placed'
  <1> SUFFICES ASSUME Placed, CallbackNext PROVE Placed'
    OBVIOUS
  <1>1. Types /\ Types'
    BY CallbackTypes DEF Placed
  <1>2. ASSUME NEW o \in 1..nobj, NEW ok \in BOOLEAN, Response(o, ok) PROVE Placed'
    <2>1. /\ UNCHANGED <<tr, front, nobj, occupied, w>> /\ o \in inflight
          /\ \/ inflight' = inflight \ {o} /\ cb' = [cb EXCEPT ![o] = "free"]
             \/ UNCHANGED <<inflight, cb>>
      BY <1>2 DEF Response
    <2>2. Control' /\ Fetchers'
      BY <2>1, Zenon DEF Placed, Control, Fetchers, Live
    <2>3. Answers'
      <3>1. o \in Obj /\ cb \in [Obj -> {"none", "free", "mrc"}] /\ inflight \subseteq Obj
        BY <1>1, ObjectInObj, Zenon DEF Types
      <3>2. CASE inflight' = inflight \ {o} /\ cb' = [cb EXCEPT ![o] = "free"]
        <4>1. \A p \in Obj : cb'[p] = IF p = o THEN "free" ELSE cb[p]
          BY <3>1, <3>2
        <4> QED BY <2>1, <3>1, <3>2, <4>1, Zenon DEF Placed, Answers
      <3>3. CASE UNCHANGED <<inflight, cb>>
        BY <2>1, <3>3 DEF Placed, Answers
      <3> QED BY <2>1, <3>2, <3>3
    <2> QED BY <1>1, <2>2, <2>3 DEF Placed
  <1>3. ASSUME NEW o \in 1..nobj, FreeTransaction(o) PROVE Placed'
    <2>1. /\ \A p \in 1..nobj :
                /\ tr'[p].state = IF p = o THEN "freed" ELSE tr[p].state
                /\ tr'[p].df = tr[p].df
          /\ cb[o] = "free" /\ cb' = [cb EXCEPT ![o] = "mrc"]
          /\ occupied' = occupied \ {tr[o].df}
          /\ UNCHANGED <<front, nobj, w, inflight>>
      BY <1>1, <1>3, FreeTransactionEffect DEF Updated
    <2>2. o \in Obj
      BY <1>1, ObjectInObj
    <2>3. /\ w.pc = "start" /\ tr[o].state = "commit" /\ o # front /\ o \notin inflight
      BY <2>1, <2>2 DEF Placed, Answers
    <2>4. Control'
      <3>1. front \in 1..nobj
        BY <1>1 DEF Types
      <3> QED BY <2>1, <2>3, <3>1 DEF Placed, Control, Building
    <2>5. Fetchers'
      <3>1. Live(o)
        BY <2>3 DEF Live
      <3>2. \A p \in 1..nobj : Live(p)' => Live(p) /\ p # o
        BY <2>1 DEF Live
      <3> QED BY <2>1, <3>1, <3>2 DEF Placed, Fetchers
    <2>6. Answers'
      <3>1. /\ \A p \in Obj : cb'[p] = IF p = o THEN "mrc" ELSE cb[p]
            /\ inflight \subseteq 1..nobj
        BY <1>1, <2>1, <2>2 DEF Types
      <3> QED BY <1>1, <2>1, <2>2, <2>3, <3>1 DEF Placed, Answers
    <2> QED BY <1>1, <2>4, <2>5, <2>6 DEF Placed
  <1>4. ASSUME NEW o \in 1..nobj, SetMrc(o) PROVE Placed'
    <2>1. /\ UNCHANGED <<tr, front, nobj, occupied, w, inflight>>
          /\ cb' = [cb EXCEPT ![o] = "none"]
      BY <1>4 DEF SetMrc
    <2>2. Control' /\ Fetchers'
      BY <2>1 DEF Placed, Control, Fetchers, Live
    <2>3. Answers'
      <3>1. \A p \in Obj : cb'[p] = IF p = o THEN "none" ELSE cb[p]
        BY <1>1, <2>1, ObjectInObj DEF Types
      <3>2. inflight \subseteq Obj
        BY <1>1, ObjectInObj, Zenon DEF Types
      <3> QED BY <2>1, <3>1, <3>2 DEF Placed, Answers
    <2> QED BY <1>1, <2>2, <2>3 DEF Placed
  <1>5. CASE FetchError
    BY <1>1, <1>5, Zenon DEF FetchError, Placed, Control, Fetchers, Live, Answers
  <1> QED BY <1>2, <1>3, <1>4, <1>5 DEF CallbackNext

(* So does a step that changes nothing.                                    *)
LEMMA StutterPlaced == Placed /\ UNCHANGED hvars => Placed'
  <1> SUFFICES ASSUME Placed, UNCHANGED hvars PROVE Placed'
    OBVIOUS
  <1>1. Types'
    BY Zenon DEF hvars, Placed, Types, WTypes, ThTypes
  <1>2. Control'
    BY Zenon DEF hvars, Placed, Control
  <1>3. Fetchers' /\ Answers'
    BY Zenon DEF hvars, Placed, Fetchers, Live, Answers
  <1> QED BY <1>1, <1>2, <1>3 DEF Placed

(* Placed is an invariant.                                                 *)
LEMMA AlwaysPlaced == Spec => []Placed
  <1>1. Placed /\ [Next]_hvars => Placed'
    BY ThreadPlaced, WorkerPlaced, CallbackPlaced, StutterPlaced DEF Next, Stopped
  <1> QED BY InitPlaced, <1>1, PTL DEF Spec
===============================================================================
