--------------------------- MODULE HostClientProofs ---------------------------
(***************************************************************************)
(* Proofs about HostJournal, continued: the ids and the block counts of    *)
(* the transactions, and that what DevFS sees is the protocol of           *)
(* JournalClient.                                                          *)
(***************************************************************************)
EXTENDS HostJournalProofs

(* The ids and the counts, on top of where the worker is.                  *)
Numbered == Placed /\ Ids /\ Counts

-----------------------------------------------------------------------------
(* Bounds of the constants.                                                *)
LEMMA Bounds ==
    /\ ChunkBlks \in Nat /\ ChunkBlks >= 2
    /\ MaxBlks \in Nat /\ MaxBlks >= 2
    /\ MaxObj \in Nat /\ MaxObj >= 1
  BY HostAssumption

(* One more chunk.                                                         *)
LEMMA OneMoreChunk ==
    ASSUME NEW n \in Nat, NEW c \in Nat PROVE (n + 1) * c = n * c + c
  OBVIOUS

(* The transaction that copy_blk() adds to: it starts with the first       *)
(* block, and a full buffer adds a request.                                *)
FirstCopy(n) == n = 1 /\ w.used = 0

(* The fields of the last request after a copy.                            *)
LEMMA CopyLast ==
    ASSUME Types, Counts, w.pc # "start", NEW n \in {0, 1}, last' = LastAfter(n)
    PROVE  /\ last'.tid = IF FirstCopy(n) THEN tr[w.o].tid ELSE last.tid
           /\ last'.df = IF FirstCopy(n) THEN tr[w.o].df ELSE last.df
           /\ last'.reqs = IF FirstCopy(n) THEN 0
                           ELSE IF w.fill + n = ChunkBlks THEN last.reqs + 1 ELSE last.reqs
           /\ last'.data = IF FirstCopy(n) THEN 0
                           ELSE IF w.fill + n = ChunkBlks THEN last.data + ChunkBlks
                           ELSE last.data
           /\ FirstCopy(n) => w.fill + n # ChunkBlks
           /\ w.fill + n = ChunkBlks => n = 1
  <1>1. w.fill \in Nat /\ w.used \in Nat /\ w.fill < ChunkBlks /\ (w.used = 0 => w.fill = 0)
    BY WorkerAt DEF Counts, WRec
  <1>2. /\ FirstCopy(n) => w.fill + n # ChunkBlks
        /\ w.fill + n = ChunkBlks => n = 1
    BY <1>1, Bounds DEF FirstCopy
  <1>3. last \in [tid : Int, df : DF, reqs : Nat, data : Nat]
    BY DEF Types
  <1>4. CASE FirstCopy(n)
    <2>1. n > 0 /\ w.used = 0 /\ w.fill + n # ChunkBlks
      BY <1>2, <1>4 DEF FirstCopy
    <2>2. last' = [tid |-> tr[w.o].tid, df |-> tr[w.o].df, reqs |-> 0, data |-> 0]
      BY <2>1 DEF LastAfter
    <2> QED BY <1>2, <1>4, <2>2
  <1>5. CASE ~FirstCopy(n) /\ w.fill + n = ChunkBlks
    <2>1. ~(n > 0 /\ w.used = 0)
      BY <1>2, <1>5 DEF FirstCopy
    <2>2. last' = [last EXCEPT !.reqs = last.reqs + 1, !.data = last.data + ChunkBlks]
      BY <1>5, <2>1, Zenon DEF LastAfter
    <2> QED BY <1>2, <1>3, <1>5, <2>2
  <1>6. CASE ~FirstCopy(n) /\ w.fill + n # ChunkBlks
    <2>1. ~(n > 0 /\ w.used = 0)
      BY <1>6 DEF FirstCopy
    <2>2. last' = last
      BY <1>6, <2>1 DEF LastAfter
    <2> QED BY <1>2, <1>6, <2>2
  <1> QED BY <1>4, <1>5, <1>6

(* copy_blk() of n blocks keeps the counts.                                *)
LEMMA CopyCounts ==
    ASSUME Types, Counts, Types', w.pc \in {"snapshot", "build"}, NEW n \in {0, 1},
           last' = LastAfter(n), w'.fill = Filled(n), w'.used = w.used + n, w'.o = w.o,
           w'.pc \in {"build", "commit"}, nobj' = nobj, tr'[w.o].df = tr[w.o].df,
           w.used + n <= MaxBlks, w'.pc = "build" => w.used + n < MaxBlks
    PROVE  Counts'
  <1>1. /\ w.fill \in Nat /\ w.used \in Nat /\ last.data \in Nat /\ last.reqs \in Nat
        /\ w.fill < ChunkBlks /\ (w.used = 0 => w.fill = 0) /\ w.pc # "start"
        /\ w.used + n \in Nat
    <2>1. w.pc # "start" /\ w \in WRec
      BY WorkerAt
    <2>2. last \in [tid : Int, df : DF, reqs : Nat, data : Nat]
      BY DEF Types
    <2>3. w.fill < ChunkBlks /\ (w.used = 0 => w.fill = 0)
      BY DEF Counts
    <2> QED BY <2>1, <2>2, <2>3 DEF WRec
  <1>2. /\ last.data <= MaxBlks /\ last.reqs <= last.data
        /\ w.used > 0 => /\ last.data + w.fill = w.used
                         /\ last.data = last.reqs * ChunkBlks
                         /\ last.df = tr[w.o].df
    <2>1. w.pc # "commit" \/ w.fill > 0
      OBVIOUS
    <2> QED BY <2>1, Zenon DEF Counts
  <1>3. CASE FirstCopy(n)
    <2>1. /\ n = 1 /\ w.used = 0 /\ w.fill = 0 /\ w'.fill = 1 /\ w'.used = 1
          /\ last'.data = 0 /\ last'.reqs = 0 /\ last'.df = tr[w.o].df
      BY <1>1, <1>3, CopyLast, Bounds DEF FirstCopy, Filled
    <2> QED BY <2>1, Bounds DEF Counts
  <1>4. CASE ~FirstCopy(n) /\ w.fill + n = ChunkBlks
    <2>1. /\ n = 1 /\ w.used > 0 /\ w'.fill = 0 /\ w'.used = w.used + 1
          /\ last'.data = last.data + ChunkBlks /\ last'.reqs = last.reqs + 1
          /\ last'.df = tr[w.o].df
      BY <1>1, <1>2, <1>4, CopyLast DEF FirstCopy, Filled
    <2>2. last'.data = last'.reqs * ChunkBlks
      BY <1>1, <1>2, <2>1, OneMoreChunk, Bounds
    <2>3. last'.data = w'.used /\ last'.data <= MaxBlks /\ last'.reqs <= last'.data
      BY <1>1, <1>2, <1>4, <2>1, Bounds
    <2> QED BY <1>1, <2>1, <2>2, <2>3, Bounds DEF Counts
  <1>5. CASE ~FirstCopy(n) /\ w.fill + n # ChunkBlks
    <2>1. /\ w'.fill = w.fill + n /\ w'.used = w.used + n /\ last'.data = last.data
          /\ last'.reqs = last.reqs /\ last'.df = last.df
      BY <1>1, <1>5, CopyLast DEF Filled
    <2>2. w.used = 0 => n = 0
      BY <1>5 DEF FirstCopy
    <2>3. w'.fill < ChunkBlks /\ (w'.used = 0 => w'.fill = 0)
      BY <1>1, <1>5, <2>1, <2>2, Bounds
    <2>4. w'.used > 0 => w.used > 0
      BY <1>1, <2>1, <2>2
    <2>5. w'.used > 0 => last'.data + w'.fill = w'.used
      BY <1>1, <1>2, <2>1, <2>4
    <2> QED BY <1>1, <1>2, <2>1, <2>3, <2>4, <2>5 DEF Counts
  <1> QED BY <1>3, <1>4, <1>5

-----------------------------------------------------------------------------
(* The invariant Numbered holds initially.                                 *)
LEMMA InitNumbered == Init => Numbered
  <1> SUFFICES ASSUME Init PROVE Numbered
    OBVIOUS
  <1>1. /\ nobj = 1 /\ front = 1 /\ seq = 2 /\ w.pc = "start" /\ w.used = 0 /\ w.fill = 0
        /\ mrc = 0 /\ last.tid = 0 /\ last.reqs = 0 /\ last.data = 0
        /\ \A i \in Inodes : ino[i].txid = 0
    BY DEF Init, IdleWorker
  <1>2. tr[1].tid = 1 /\ 1..nobj = {1}
    BY <1>1 DEF Init, NewTx
  <1>3. Ids
    BY <1>1, <1>2, Bounds DEF Ids
  <1>4. Counts
    BY <1>1, Bounds DEF Counts
  <1> QED BY <1>3, <1>4, InitPlaced DEF Numbered

(* The types of the numbers.                                               *)
LEMMA NumberTypes ==
    ASSUME Types
    PROVE  /\ nobj \in Nat /\ 1 <= nobj /\ nobj <= MaxObj /\ front \in 1..nobj
           /\ nobj \in 1..nobj
           /\ seq \in Int /\ mrc \in Int
           /\ \A o \in 1..nobj : tr[o].tid \in Int
           /\ \A i \in Inodes : ino[i].txid \in Int
           /\ last.tid \in Int /\ last.reqs \in Nat /\ last.data \in Nat
           /\ w.used \in Nat /\ w.fill \in Nat
           /\ w.pc # "start" => w.o \in 1..nobj
  <1>1. nobj \in Obj /\ front \in 1..nobj /\ seq \in Int /\ mrc \in Int
    BY DEF Types
  <1>2. tr \in [1..nobj -> TxRec] /\ ino \in [Inodes -> InoRec] /\ w \in WRec
    BY DEF Types, WTypes
  <1>3. last \in [tid : Int, df : DF, reqs : Nat, data : Nat]
    BY DEF Types
  <1>4. w.pc # "start" => w.o \in 1..nobj
    BY DEF Types, WTypes
  <1>5. nobj \in Nat /\ 1 <= nobj /\ nobj <= MaxObj /\ nobj \in 1..nobj
    BY <1>1, Bounds DEF Obj
  <1>6. \A o \in 1..nobj : tr[o].tid \in Int
    BY <1>2 DEF TxRec
  <1>7. \A i \in Inodes : ino[i].txid \in Int
    BY <1>2 DEF InoRec
  <1>8. w.used \in Nat /\ w.fill \in Nat
    BY <1>2 DEF WRec
  <1> QED BY <1>1, <1>3, <1>4, <1>5, <1>6, <1>7, <1>8

(* A step that leaves the ids alone.                                       *)
LEMMA IdsKept ==
    ASSUME Types, Ids, UNCHANGED <<nobj, seq, front>>,
           \A o \in 1..nobj : tr'[o].tid = tr[o].tid,
           \A i \in Inodes : ino'[i].txid = ino[i].txid,
           mrc' = mrc, last'.tid = last.tid,
           w'.pc = "start" <=> w.pc = "start", w'.o = w.o,
           w'.used > 0 <=> w.used > 0
    PROVE  Ids'
  <1>1. w.pc # "start" => w.o \in 1..nobj
    BY NumberTypes
  <1>2. nobj \in 1..nobj /\ front \in 1..nobj
    BY NumberTypes
  <1> QED BY <1>1, <1>2 DEF Ids

(* Only SetDirty and SetMrc write an id among the threads and callbacks.   *)
LEMMA ThreadNumbered == Numbered /\ Placed' /\ ThreadNext => Ids' /\ Counts'
  <1> SUFFICES ASSUME Numbered, Placed', ThreadNext PROVE Ids' /\ Counts'
    OBVIOUS
  <1>1. Types
    BY DEF Numbered, Placed
  <1>2. /\ UNCHANGED <<front, nobj, seq, w, mrc, last>>
        /\ \A o \in 1..nobj : tr'[o].tid = tr[o].tid /\ tr'[o].df = tr[o].df
    BY <1>1, ThreadKeeps
  <1>3. Counts'
    <2>1. w.used > 0 => w.o \in 1..nobj
      BY <1>1 DEF Types, WTypes, IdleWorker
    <2> QED BY <1>2, <2>1 DEF Numbered, Counts
  <1>4. \A i \in Inodes : 0 <= ino'[i].txid /\ ino'[i].txid <= MaxObj
    <2>1. PICK t \in Threads :
            \/ MarkDirty(t) \/ Fsync(t) \/ FsyncLock(t) \/ ReadFront(t)
            \/ CheckState(t) \/ AddFile(t) \/ SetDirty(t) \/ EndJournal(t)
            \/ Leave(t)
      BY DEF ThreadNext
    <2>2. CASE SetDirty(t)
      <3>1. /\ Marked(th[t].i, TRUE, tr[th[t].o].tid, ino[th[t].i].stage)
            /\ th[t].o \in 1..nobj
        BY <1>1, <2>2, SetDirtyEffect, Zenon
      <3>2. 0 <= tr[th[t].o].tid /\ tr[th[t].o].tid <= MaxObj
        BY <1>1, <3>1, NumberTypes, Bounds DEF Numbered, Ids
      <3> QED BY <3>1, <3>2, Zenon DEF Marked, Numbered, Ids
    <2>3. CASE Leave(t)
      BY <1>1, <2>3, LeaveEffect, Zenon DEF Marked, Numbered, Ids
    <2>4. CASE MarkDirty(t) \/ Fsync(t) \/ FsyncLock(t) \/ ReadFront(t)
               \/ CheckState(t) \/ AddFile(t) \/ EndJournal(t)
      BY <2>4, Zenon DEF MarkDirty, Fsync, FsyncLock, ReadFront, CheckState, AddFile, EndJournal,
         Numbered, Ids
    <2> QED BY <2>1, <2>2, <2>3, <2>4
  <1>5. Ids'
    <2>1. nobj \in 1..nobj /\ front \in 1..nobj /\ (w.pc # "start" => w.o \in 1..nobj)
      BY <1>1, NumberTypes
    <2> QED BY <1>2, <1>4, <2>1 DEF Numbered, Ids
  <1> QED BY <1>3, <1>5

(* A response keeps the ids and the counters.                              *)
LEMMA CallbackNumbered == Numbered /\ Placed' /\ CallbackNext => Ids' /\ Counts'
  <1> SUFFICES ASSUME Numbered, Placed', CallbackNext PROVE Ids' /\ Counts'
    OBVIOUS
  <1>1. Types
    BY DEF Numbered, Placed
  <1>2. /\ UNCHANGED <<front, nobj, seq, w, ino, last>>
        /\ \A o \in 1..nobj : tr'[o].tid = tr[o].tid /\ tr'[o].df = tr[o].df
        /\ mrc' = mrc \/ \E o \in 1..nobj : mrc' = tr[o].tid
    <2>1. ASSUME NEW o \in 1..nobj, FreeTransaction(o)
          PROVE  /\ UNCHANGED <<front, nobj, seq, w, ino, last, mrc>>
                 /\ \A p \in 1..nobj : tr'[p].tid = tr[p].tid /\ tr'[p].df = tr[p].df
      BY <1>1, <2>1, FreeTransactionEffect DEF Updated
    <2> QED BY <2>1 DEF CallbackNext, Response, SetMrc, FetchError
  <1>3. Counts'
    <2>1. w.used > 0 => w.o \in 1..nobj
      BY <1>1 DEF Types, WTypes, IdleWorker
    <2> QED BY <1>2, <2>1 DEF Numbered, Counts
  <1>4. 0 <= mrc' /\ mrc' <= MaxObj
    BY <1>1, <1>2, NumberTypes, Bounds DEF Numbered, Ids
  <1>5. Ids'
    <2>1. nobj \in 1..nobj /\ front \in 1..nobj /\ (w.pc # "start" => w.o \in 1..nobj)
      BY <1>1, NumberTypes
    <2> QED BY <1>2, <1>4, <2>1 DEF Numbered, Ids
  <1> QED BY <1>3, <1>5

(* Copying keeps the ids.                                                  *)
LEMMA CopyIds ==
    ASSUME Types, Ids, Counts, w.pc \in {"snapshot", "build"}, NEW n \in {0, 1},
           last' = LastAfter(n), w'.used = w.used + n, w'.o = w.o,
           w'.pc \in {"build", "commit"}, UNCHANGED <<nobj, seq, front, mrc, ino>>,
           \A o \in 1..nobj : tr'[o].tid = tr[o].tid
    PROVE  Ids'
  <1>1. /\ nobj \in 1..nobj /\ front \in 1..nobj /\ w.o \in 1..nobj /\ w.used \in Nat
        /\ w.pc # "start"
    BY NumberTypes
  <1>2. last'.tid = IF FirstCopy(n) THEN tr[w.o].tid ELSE last.tid
    BY <1>1, CopyLast
  <1>3. last'.tid = IF w'.used > 0 THEN tr'[w.o].tid ELSE tr'[w.o].tid - 1
    <2>1. last.tid = IF w.used > 0 THEN tr[w.o].tid ELSE tr[w.o].tid - 1
      BY <1>1 DEF Ids
    <2> QED BY <1>1, <1>2, <2>1 DEF FirstCopy
  <1> QED BY <1>1, <1>3 DEF Ids

(* The worker's step keeps the ids and the counters.                       *)
LEMMA WorkerNumbered == Numbered /\ Placed' /\ WorkerNext => Ids' /\ Counts'
  <1> SUFFICES ASSUME Numbered, Placed', WorkerNext PROVE Ids' /\ Counts'
    OBVIOUS
  <1>1. Types /\ Placed /\ Types' /\ Ids /\ Counts
    BY DEF Numbered, Placed
  <1>2. /\ nobj \in 1..nobj /\ front \in 1..nobj /\ (w.pc # "start" => w.o \in 1..nobj)
        /\ w.used \in Nat /\ w.fill \in Nat /\ nobj \in Nat /\ nobj <= MaxObj
        /\ \A o \in 1..nobj : tr[o].tid \in Int
    BY <1>1, NumberTypes
  <1>3. CASE NewTransaction
    <2>1. PICK d \in DF \ occupied :
            /\ \A o \in 1..nobj : tr'[o] = tr[o]
            /\ tr'[nobj'] = NewTx(seq, d)
      BY <1>1, <1>3, NewTransactionEffect
    <2>2. /\ nobj' = nobj + 1 /\ seq' = seq + 1 /\ UNCHANGED <<front, mrc, last, ino>>
          /\ w'.pc = "lock" /\ w'.o = front /\ w'.used = 0 /\ w'.fill = 0
          /\ w.pc = "start" /\ front = nobj
      BY <1>1, <1>3, NewTransactionEffect DEF Worked, IdleWorker, Placed, Control
    <2>3. tr'[nobj'].tid = seq /\ seq = tr[nobj].tid + 1
      BY <1>1, <2>1 DEF NewTx, Ids
    <2>4. \A o \in 1..nobj' : o \in 1..nobj \/ o = nobj'
      BY <1>2, <2>2
    <2>5. \A o \in 1..nobj' : 1 <= tr'[o].tid /\ tr'[o].tid <= o
      <3>1. \A o \in 1..nobj : 1 <= tr'[o].tid /\ tr'[o].tid <= o
        BY <1>1, <2>1 DEF Ids
      <3>2. 1 <= tr'[nobj'].tid /\ tr'[nobj'].tid <= nobj'
        BY <1>1, <1>2, <2>2, <2>3 DEF Ids
      <3> QED BY <2>4, <3>1, <3>2
    <2>6. Ids'
      <3>1. seq' = tr'[nobj'].tid + 1 /\ tr'[nobj'].tid = tr'[w'.o].tid + 1
        BY <1>2, <2>1, <2>2, <2>3
      <3>2. last'.tid = tr'[w'.o].tid - 1
        BY <1>1, <1>2, <2>1, <2>2 DEF Ids
      <3> QED BY <1>1, <2>2, <2>5, <3>1, <3>2 DEF Ids
    <2>7. Counts'
      BY <1>1, <2>2, Bounds DEF Counts
    <2> QED BY <2>6, <2>7
  <1>4. CASE LockTx
    <2>1. /\ UNCHANGED <<nobj, seq, front, mrc, last, ino>> /\ w.pc = "lock"
          /\ w'.pc = "drain" /\ w'.o = w.o /\ w'.used = w.used /\ w'.fill = w.fill
          /\ \A o \in 1..nobj : tr'[o].tid = tr[o].tid /\ tr'[o].df = tr[o].df
      BY <1>1, <1>4, LockTxEffect DEF Worked, Updated
    <2>2. Ids'
      BY <1>1, <2>1, IdsKept
    <2>3. Counts'
      BY <1>1, <1>2, <2>1 DEF Counts
    <2> QED BY <2>2, <2>3
  <1>5. CASE StartNext
    <2>1. /\ UNCHANGED <<nobj, seq, mrc, last, ino>> /\ w.pc = "drain"
          /\ w'.pc = "snapshot" /\ w'.o = w.o /\ w'.used = w.used /\ w'.fill = w.fill
          /\ \A o \in 1..nobj : tr'[o].tid = tr[o].tid /\ tr'[o].df = tr[o].df
      BY <1>1, <1>5, StartNextEffect DEF Worked, Updated
    <2>2. Ids'
      BY <1>1, <1>2, <2>1 DEF Ids
    <2>3. Counts'
      BY <1>1, <1>2, <2>1 DEF Counts
    <2> QED BY <2>2, <2>3
  <1>6. CASE Snapshot
    <2>1. PICK n \in {0, 1} :
            /\ Worked("build", w.o, w.next, tr[w.o].files, w.i, Filled(n), w.used + n)
            /\ last' = LastAfter(n)
      BY <1>1, <1>6, SnapshotEffect
    <2>2. /\ UNCHANGED <<nobj, seq, front, mrc, ino>> /\ w.pc = "snapshot"
          /\ \A o \in 1..nobj : tr'[o].tid = tr[o].tid /\ tr'[o].df = tr[o].df
      BY <1>1, <1>6, SnapshotEffect DEF Updated
    <2>3. /\ w'.pc = "build" /\ w'.o = w.o /\ w'.fill = Filled(n) /\ w'.used = w.used + n
      BY <2>1 DEF Worked
    <2>4. Ids'
      BY <1>1, <2>1, <2>2, <2>3, CopyIds
    <2>5. w.used = 0 /\ w.used + n < MaxBlks
      BY <1>1, <2>2, Bounds DEF Counts
    <2>6. w.used + n <= MaxBlks
      BY <2>5, Bounds
    <2>7. Counts'
      BY <1>1, <1>2, <2>1, <2>2, <2>3, <2>5, <2>6, CopyCounts
    <2> QED BY <2>4, <2>7
  <1>7. CASE BuildFile \/ CutStage \/ ClearDirty
    <2>1. /\ UNCHANGED <<nobj, tr, seq, front, mrc, last>>
          /\ w.pc \in {"build", "cut", "clear"} /\ w'.pc \in {"build", "cut", "clear"}
          /\ w'.o = w.o /\ w'.used = w.used /\ w'.fill = w.fill
          /\ \A i \in Inodes : ino'[i].txid = ino[i].txid
      BY <1>1, <1>7, BuildFileEffect, CutStageEffect, ClearDirtyEffect, Zenon DEF Worked, Marked
    <2>2. Ids'
      BY <1>1, <2>1, IdsKept
    <2>3. Counts'
      BY <1>1, <2>1 DEF Counts
    <2> QED BY <2>2, <2>3
  <1>8. CASE CopyData
    <2>1. /\ Worked("build", w.o, w.next, w.todo, w.i, Filled(1), w.used + 1)
          /\ last' = LastAfter(1) /\ w.used + 1 < MaxBlks
          /\ UNCHANGED <<nobj, tr, seq, front, mrc, ino>> /\ w.pc = "build"
      BY <1>1, <1>8, CopyDataEffect
    <2>2. /\ w'.pc = "build" /\ w'.o = w.o /\ w'.fill = Filled(1) /\ w'.used = w.used + 1
      BY <2>1 DEF Worked
    <2>3. Ids'
      BY <1>1, <2>1, <2>2, CopyIds
    <2>4. w.used + 1 <= MaxBlks
      BY <1>2, <2>1, Bounds
    <2>5. Counts'
      BY <1>1, <2>1, <2>2, <2>4, CopyCounts
    <2> QED BY <2>3, <2>5
  <1>9. CASE SnapshotInodes
    <2>1. PICK n \in {0, 1} :
            /\ Worked("commit", w.o, w.next, w.todo, w.i, Filled(n), w.used + n)
            /\ last' = LastAfter(n)
      BY <1>1, <1>9, SnapshotInodesEffect
    <2>2. /\ UNCHANGED <<nobj, seq, front, mrc, ino>> /\ w.pc = "build"
          /\ \A o \in 1..nobj : tr'[o].tid = tr[o].tid /\ tr'[o].df = tr[o].df
      BY <1>1, <1>9, SnapshotInodesEffect DEF Updated
    <2>3. /\ w'.pc = "commit" /\ w'.o = w.o /\ w'.fill = Filled(n) /\ w'.used = w.used + n
      BY <2>1 DEF Worked
    <2>4. Ids'
      BY <1>1, <2>1, <2>2, <2>3, CopyIds
    <2>5. w.used + n <= MaxBlks
      BY <1>1, <1>2, <2>2, Bounds DEF Counts
    <2>6. Counts'
      BY <1>1, <1>2, <2>1, <2>2, <2>3, <2>5, CopyCounts
    <2> QED BY <2>4, <2>6
  <1>10. CASE Discard
    <2>1. front # w.o /\ w.pc = "commit" /\ front = nobj /\ nobj = w.o + 1
      BY <1>1, <1>10, WorkerAlone DEF Discard, Placed, Control, Building
    <2>2. /\ \A o \in 1..nobj :
                tr'[o].tid = IF o = front THEN tr[o].tid - 1 ELSE tr[o].tid
          /\ seq' = seq - 1 /\ UNCHANGED <<nobj, front, mrc, last, ino>> /\ w.used = 0
          /\ w'.pc = "start" /\ w'.used = 0 /\ w'.fill = 0
      BY <1>1, <1>10, <2>1, DiscardEffect DEF IdleWorker
    <2>3. /\ tr[nobj].tid = tr[w.o].tid + 1 /\ 1 <= tr[w.o].tid
          /\ last.tid = tr[w.o].tid - 1 /\ seq = tr[nobj].tid + 1
      BY <1>1, <1>2, <2>1, <2>2 DEF Ids
    <2>4. \A o \in 1..nobj : 1 <= tr'[o].tid /\ tr'[o].tid <= o
      <3>1. \A o \in 1..nobj : 1 <= tr[o].tid /\ tr[o].tid <= o
        BY <1>1 DEF Ids
      <3>2. tr[front].tid - 1 = tr[w.o].tid /\ tr[front].tid - 1 <= front
        BY <1>2, <2>1, <2>3, <3>1
      <3> QED BY <2>2, <2>3, <3>1, <3>2
    <2>5. Ids'
      <3>1. seq' = tr'[nobj].tid + 1 /\ last.tid = tr'[front].tid - 1
        BY <1>2, <2>1, <2>2, <2>3
      <3> QED BY <1>1, <2>2, <2>4, <3>1 DEF Ids
    <2>6. Counts'
      BY <1>1, <2>2, Bounds DEF Counts
    <2> QED BY <2>5, <2>6
  <1>11. CASE SendRest
    <2>1. /\ w.pc = "commit" /\ w'.pc = "commit" /\ w'.o = w.o /\ w'.fill = 0
          /\ w'.used = w.used /\ w.fill > 0
          /\ last' = [last EXCEPT !.reqs = last.reqs + 1, !.data = last.data + w.fill]
          /\ UNCHANGED <<tr, nobj, seq, front, mrc, ino>>
      BY <1>1, <1>11, SendRestEffect DEF Worked
    <2>2. /\ last'.tid = last.tid /\ last'.df = last.df /\ last'.reqs = last.reqs + 1
          /\ last'.data = last.data + w.fill
      <3>1. last \in [tid : Int, df : DF, reqs : Nat, data : Nat]
        BY <1>1 DEF Types
      <3> QED BY <2>1, <3>1
    <2>3. Ids'
      BY <1>1, <2>1, <2>2, IdsKept
    <2>4. w.used > 0 /\ last.data + w.fill = w.used /\ w.used <= MaxBlks
      BY <1>1, <1>2, <2>1 DEF Counts
    <2>5. last.data \in Nat /\ last.reqs \in Nat /\ last.reqs <= last.data
      BY <1>1, NumberTypes DEF Counts
    <2>6. last'.data <= MaxBlks /\ last'.reqs <= last'.data /\ last'.data + 0 = w.used
      BY <1>2, <2>1, <2>2, <2>4, <2>5
    <2>7. Counts'
      BY <1>1, <2>1, <2>2, <2>4, <2>6, Bounds DEF Counts
    <2> QED BY <2>3, <2>7
  <1>12. CASE RequestCommit
    <2>1. /\ w.pc = "commit" /\ w.used > 0 /\ front = nobj
          /\ w'.pc = "start" /\ w'.used = 0 /\ w'.fill = 0
          /\ UNCHANGED <<tr, nobj, seq, front, mrc, ino, last>>
      BY <1>1, <1>12, RequestCommitEffect DEF IdleWorker, Placed, Control, Building
    <2>2. Ids'
      BY <1>1, <1>2, <2>1 DEF Ids
    <2>3. Counts'
      BY <1>1, <2>1, Bounds DEF Counts
    <2> QED BY <2>2, <2>3
  <1> QED BY <1>3, <1>4, <1>5, <1>6, <1>7, <1>8, <1>9, <1>10, <1>11, <1>12
          DEF WorkerNext

(* Every step keeps Numbered.                                              *)
LEMMA StepNumbered == Numbered /\ [Next]_hvars => Numbered'
  <1> SUFFICES ASSUME Numbered, [Next]_hvars PROVE Numbered'
    OBVIOUS
  <1>1. Placed'
    BY ThreadPlaced, WorkerPlaced, CallbackPlaced, StutterPlaced
       DEF Numbered, Next, Stopped
  <1>2. CASE UNCHANGED hvars
    BY <1>1, <1>2 DEF Numbered, hvars, Ids, Counts
  <1> QED BY <1>1, <1>2, ThreadNumbered, WorkerNumbered, CallbackNumbered
          DEF Numbered, Next, Stopped

(* Numbered is an invariant.                                               *)
LEMMA AlwaysNumbered == Spec => []Numbered
  BY InitNumbered, StepNumbered, PTL DEF Spec

-----------------------------------------------------------------------------
(* The refinement: the state of the client, and what a step of it is.      *)
St == IF failed = "rc" THEN "aborted"
      ELSE IF inflight # {} THEN "waiting"
      ELSE IF w.used > 0 THEN "sending" ELSE "idle"

Seen == <<St, last.tid, last.df, last.reqs, last.data>>

Rec(st, tx, df, reqs, data) ==
    [st |-> st, tx |-> tx, df |-> df, reqs |-> reqs, data |-> data]
SeenRec == Rec(St, last.tid, last.df, last.reqs, last.data)

SeenStep == Client!ClientNext \/ UNCHANGED SeenRec

(* The two updates of the client's record.                                 *)
StUp(r, a) == [r EXCEPT !.st = a]
SentUp(r, a, b) == [r EXCEPT !.reqs = a, !.data = b]

(* They change the fields they name.                                       *)
LEMMA RecUpdates ==
    ASSUME NEW st, NEW tx, NEW df, NEW reqs, NEW data, NEW a, NEW b
    PROVE  /\ StUp(Rec(st, tx, df, reqs, data), a) = Rec(a, tx, df, reqs, data)
           /\ SentUp(Rec(st, tx, df, reqs, data), a, b) = Rec(st, tx, df, a, b)
  <1>1. StUp(Rec(st, tx, df, reqs, data), a) = Rec(a, tx, df, reqs, data)
    BY DEF Rec, StUp
  <1>2. [Rec(st, tx, df, reqs, data) EXCEPT !.reqs = a] = Rec(st, tx, df, a, data)
    BY DEF Rec
  <1>3. [Rec(st, tx, df, a, data) EXCEPT !.data = b] = Rec(st, tx, df, a, b)
    BY DEF Rec
  <1>4. SentUp(Rec(st, tx, df, reqs, data), a, b) =
            [[Rec(st, tx, df, reqs, data) EXCEPT !.reqs = a] EXCEPT !.data = b]
    BY DEF SentUp
  <1> QED BY <1>1, <1>2, <1>3, <1>4, Zenon

(* What leaves the client's state alone is a stutter.                      *)
LEMMA SeenSame == ASSUME UNCHANGED Seen PROVE SeenStep
  BY DEF Seen, SeenStep, SeenRec

(* The first block of a transaction begins it.                             *)
LEMMA SeenBegin ==
    ASSUME St = "idle", last.tid < MaxObj, St' = "sending", last'.tid = last.tid + 1,
           last'.df \in DF, last'.reqs = 0, last'.data = 0
    PROVE  SeenStep
  <1>1. Client!Begin(last'.df)
    BY DEF Client!Begin, St
  <1> QED BY <1>1 DEF SeenStep, Client!ClientNext

(* A full buffer, or the last one, is a fetch request.                     *)
LEMMA SeenFetch ==
    ASSUME St = "sending", NEW n \in 1..ChunkBlks, last.data = last.reqs * ChunkBlks,
           last.data + n <= MaxBlks, St' = "sending", last'.tid = last.tid,
           last'.df = last.df, last'.reqs = last.reqs + 1, last'.data = last.data + n
    PROVE  SeenStep
  <1>1. SentUp(SeenRec, last.reqs + 1, last.data + n) =
            Rec(St, last.tid, last.df, last.reqs + 1, last.data + n)
    BY RecUpdates DEF SeenRec
  <1>2. Client!SendFetch(n)
    BY <1>1 DEF Client!SendFetch, St, SeenRec, Rec, StUp, SentUp
  <1> QED BY <1>2 DEF SeenStep, Client!ClientNext

(* The commit request.                                                     *)
LEMMA SeenCommit ==
    ASSUME St = "sending", St' = "waiting", last' = last PROVE SeenStep
  <1>0. StUp(SeenRec, "waiting") =
            Rec("waiting", last.tid, last.df, last.reqs, last.data)
    BY RecUpdates DEF SeenRec
  <1>1. Client!SendCommit(2)
    BY <1>0 DEF Client!SendCommit, St, SeenRec, Rec, StUp, SentUp
  <1>2. 2 \in 1..2
    OBVIOUS
  <1> QED BY <1>1, <1>2 DEF SeenStep, Client!ClientNext

(* The response to it.                                                     *)
LEMMA SeenAnswer ==
    ASSUME St = "waiting", NEW ok \in BOOLEAN, St' = IF ok THEN "idle" ELSE "aborted",
           last' = last
    PROVE  SeenStep
  <1>0. StUp(SeenRec, IF ok THEN "idle" ELSE "aborted") =
            Rec(IF ok THEN "idle" ELSE "aborted", last.tid, last.df, last.reqs, last.data)
    BY RecUpdates DEF SeenRec
  <1>1. Client!Answered(ok)
    BY <1>0 DEF Client!Answered, St, SeenRec, Rec, StUp, SentUp
  <1> QED BY <1>1 DEF SeenStep, Client!ClientNext

(* An error response to a fetch request.                                   *)
LEMMA SeenFailure ==
    ASSUME St \in {"sending", "waiting"}, last.reqs > 0, St' = "aborted", last' = last
    PROVE  SeenStep
  <1>0. StUp(SeenRec, "aborted") =
            Rec("aborted", last.tid, last.df, last.reqs, last.data)
    BY RecUpdates DEF SeenRec
  <1>1. Client!FetchFailed
    BY <1>0 DEF Client!FetchFailed, St, SeenRec, Rec, StUp, SentUp
  <1> QED BY <1>1 DEF SeenStep, Client!ClientNext

(* A copied block starts the transaction, sends a full buffer, or nothing. *)
LEMMA CopySeen ==
    ASSUME Numbered, w.pc \in {"snapshot", "build"}, NEW n \in {0, 1},
           last' = LastAfter(n), w'.used = w.used + n, w.used + n <= MaxBlks,
           UNCHANGED <<failed, inflight>>, failed = "no"
    PROVE  SeenStep
  <1>1. Types /\ Counts /\ Ids /\ Placed /\ w.pc # "start" /\ inflight = {}
    BY WorkerAlone DEF Numbered, Placed
  <1>2. /\ w.fill \in Nat /\ w.used \in Nat /\ last.data \in Nat /\ last.reqs \in Nat
        /\ w.o \in 1..nobj /\ last.tid \in Int /\ nobj \in Nat /\ nobj <= MaxObj
        /\ tr[w.o].tid \in Int
    BY <1>1, NumberTypes
  <1>3. /\ St = IF w.used > 0 THEN "sending" ELSE "idle"
        /\ St' = IF w'.used > 0 THEN "sending" ELSE "idle"
    BY <1>1 DEF St
  <1>4. CASE FirstCopy(n)
    <2>1. last'.tid = tr[w.o].tid /\ last'.df = tr[w.o].df /\ last'.reqs = 0 /\ last'.data = 0
      BY <1>1, <1>4, CopyLast
    <2>2. St = "idle" /\ St' = "sending"
      BY <1>2, <1>3, <1>4 DEF FirstCopy
    <2>3. last.tid = tr[w.o].tid - 1 /\ tr[w.o].tid <= w.o
      BY <1>1, <1>2, <1>4 DEF FirstCopy, Ids
    <2>4. last.tid < MaxObj /\ last'.tid = last.tid + 1
      BY <1>2, <2>1, <2>3, Bounds
    <2>5. tr[w.o].df \in DF
      BY <1>1, WorkerAt DEF TxRec
    <2> QED BY <2>1, <2>2, <2>4, <2>5, SeenBegin
  <1>5. CASE ~FirstCopy(n) /\ w.fill + n = ChunkBlks
    <2>1. /\ last'.tid = last.tid /\ last'.df = last.df /\ last'.reqs = last.reqs + 1
          /\ last'.data = last.data + ChunkBlks /\ n = 1
      BY <1>1, <1>5, CopyLast
    <2>2. w.used > 0
      BY <1>2, <1>5, <2>1 DEF FirstCopy
    <2>3. St = "sending" /\ St' = "sending"
      BY <1>2, <1>3, <2>1, <2>2
    <2>4. last.data = last.reqs * ChunkBlks
      BY <1>1, <2>2, Zenon DEF Counts
    <2>5. last.data + w.fill = w.used
      BY <1>1, <2>2 DEF Counts
    <2>6. last.data + ChunkBlks <= MaxBlks
      BY <1>2, <1>5, <2>1, <2>5, Bounds
    <2>7. ChunkBlks \in 1..ChunkBlks
      BY Bounds
    <2> QED BY <2>1, <2>3, <2>4, <2>6, <2>7, SeenFetch
  <1>6. CASE ~FirstCopy(n) /\ w.fill + n # ChunkBlks
    <2>1. /\ last'.tid = last.tid /\ last'.df = last.df /\ last'.reqs = last.reqs
          /\ last'.data = last.data
      BY <1>1, <1>6, CopyLast
    <2>2. St' = St
      BY <1>2, <1>3, <1>6 DEF FirstCopy
    <2> QED BY <2>1, <2>2, SeenSame DEF Seen
  <1> QED BY <1>4, <1>5, <1>6

(* A step that DevFS does not see.                                         *)
LEMMA UnseenStep ==
    ASSUME UNCHANGED <<last, inflight>>, w'.used = w.used,
           failed' = "rc" <=> failed = "rc"
    PROVE  SeenStep
  <1>1. St' = St
    BY DEF St
  <1> QED BY <1>1, SeenSame DEF Seen

(* A step of the worker is a step of the client or a stutter.              *)
LEMMA WorkerSeen == Numbered /\ WorkerNext => SeenStep
  <1> SUFFICES ASSUME Numbered, WorkerNext PROVE SeenStep
    OBVIOUS
  <1>1. Types /\ Placed /\ Ids /\ Counts
    BY DEF Numbered, Placed
  <1>2. CASE NewTransaction
    <2>1. UNCHANGED <<last, inflight, failed>> /\ w'.used = w.used
      BY <1>1, <1>2, NewTransactionEffect DEF Worked, IdleWorker
    <2> QED BY <2>1, UnseenStep
  <1>3. CASE LockTx \/ StartNext \/ BuildFile \/ ClearDirty
    <2>1. UNCHANGED <<last, inflight, failed>> /\ w'.used = w.used
      BY <1>1, <1>3, LockTxEffect, StartNextEffect, BuildFileEffect, ClearDirtyEffect, Zenon
         DEF Worked
    <2> QED BY <2>1, UnseenStep
  <1>4. CASE CutStage
    <2>1. /\ UNCHANGED <<last, inflight>> /\ w'.used = w.used
          /\ failed = "no" /\ failed' \in {"no", "nothing"}
      BY <1>1, <1>4, CutStageEffect, Zenon DEF Worked, CutStage, Alive
    <2> QED BY <2>1, UnseenStep
  <1>5. CASE Snapshot
    <2>1. PICK n \in {0, 1} : last' = LastAfter(n) /\ w'.used = w.used + n
      BY <1>1, <1>5, SnapshotEffect, Zenon DEF Worked
    <2>2. w.pc = "snapshot" /\ UNCHANGED <<failed, inflight>> /\ failed = "no"
      BY <1>5 DEF Snapshot, Alive
    <2>3. w.used + n <= MaxBlks
      BY <1>1, <2>2, Bounds DEF Counts
    <2> QED BY <2>1, <2>2, <2>3, CopySeen
  <1>6. CASE CopyData
    <2>1. last' = LastAfter(1) /\ w'.used = w.used + 1 /\ w.used + 1 < MaxBlks
      BY <1>1, <1>6, CopyDataEffect DEF Worked
    <2>2. w.pc = "build" /\ UNCHANGED <<failed, inflight>> /\ failed = "no"
      BY <1>6 DEF CopyData, Alive
    <2>3. w.used + 1 <= MaxBlks
      BY <1>1, <2>1, NumberTypes, Bounds
    <2> QED BY <2>1, <2>2, <2>3, CopySeen
  <1>7. CASE SnapshotInodes
    <2>1. PICK n \in {0, 1} : last' = LastAfter(n) /\ w'.used = w.used + n
      BY <1>1, <1>7, SnapshotInodesEffect DEF Worked
    <2>2. w.pc = "build" /\ UNCHANGED <<failed, inflight>> /\ failed = "no"
      BY <1>7 DEF SnapshotInodes, Alive
    <2>3. w.used + n <= MaxBlks
      BY <1>1, <2>2, NumberTypes, Bounds DEF Counts
    <2> QED BY <2>1, <2>2, <2>3, CopySeen
  <1>8. CASE Discard
    <2>1. UNCHANGED <<last, inflight, failed>> /\ w'.used = w.used
      BY <1>8 DEF Discard, IdleWorker
    <2> QED BY <2>1, UnseenStep
  <1>9. CASE SendRest
    <2>1. /\ last' = [last EXCEPT !.reqs = last.reqs + 1, !.data = last.data + w.fill]
          /\ w'.used = w.used /\ w.fill > 0 /\ w.pc = "commit"
          /\ UNCHANGED <<inflight, failed>>
      BY <1>1, <1>9, SendRestEffect DEF Worked
    <2>2. inflight = {} /\ failed = "no"
      BY <1>1, <1>9, <2>1, WorkerAlone DEF SendRest, Alive
    <2>3. w.fill \in Nat /\ w.used \in Nat /\ last.data \in Nat
      BY <1>1, NumberTypes
    <2>4. w.used > 0 /\ w.fill < ChunkBlks /\ w.used <= MaxBlks
      BY <1>1, <2>1, <2>3 DEF Counts
    <2>5. last.data + w.fill = w.used
      BY <1>1, <2>4 DEF Counts
    <2>6. last.data = last.reqs * ChunkBlks
      BY <1>1, <2>1, <2>4, Zenon DEF Counts
    <2>7. St = "sending" /\ St' = "sending"
      BY <2>1, <2>2, <2>4 DEF St
    <2>8. /\ last'.tid = last.tid /\ last'.df = last.df /\ last'.reqs = last.reqs + 1
          /\ last'.data = last.data + w.fill
      <3>1. last \in [tid : Int, df : DF, reqs : Nat, data : Nat]
        BY <1>1 DEF Types
      <3> QED BY <2>1, <3>1
    <2>9. w.fill \in 1..ChunkBlks /\ last.data + w.fill <= MaxBlks
      BY <2>1, <2>3, <2>4, <2>5, Bounds
    <2> QED BY <2>6, <2>7, <2>8, <2>9, SeenFetch
  <1>10. CASE RequestCommit
    <2>1. /\ w.pc = "commit" /\ w.used > 0 /\ inflight' = inflight \cup {w.o}
          /\ UNCHANGED <<last, failed>> /\ failed = "no"
      BY <1>10 DEF RequestCommit, Alive
    <2>2. inflight = {}
      BY <1>1, <2>1, WorkerAlone
    <2>3. St = "sending" /\ St' = "waiting"
      BY <2>1, <2>2 DEF St
    <2> QED BY <2>1, <2>3, SeenCommit
  <1> QED BY <1>2, <1>3, <1>4, <1>5, <1>6, <1>7, <1>8, <1>9, <1>10 DEF WorkerNext

(* One commit request at a time: a second one would need a third data      *)
(* fetcher.                                                                *)
LEMMA OneRequest ==
    ASSUME Placed, NEW o \in inflight, NEW p \in inflight PROVE o = p
  <1>1. PICK a, b \in DF : DF = {a, b}
    BY HostAssumption
  <1>2. o \in 1..nobj /\ p \in 1..nobj /\ front \in 1..nobj
    BY DEF Placed, Types
  <1>3. o # front /\ p # front /\ Live(o) /\ Live(p) /\ Live(front)
    BY DEF Placed, Answers, Control, Live
  <1>4. tr[o].df \in DF /\ tr[p].df \in DF /\ tr[front].df \in DF
    BY <1>2 DEF Placed, Types, TxRec
  <1>5. tr[o].df # tr[front].df /\ tr[p].df # tr[front].df
    BY <1>2, <1>3 DEF Placed, Fetchers
  <1>6. tr[o].df = tr[p].df
    BY <1>1, <1>4, <1>5
  <1> QED BY <1>2, <1>3, <1>6 DEF Placed, Fetchers

(* So is a response.                                                       *)
LEMMA CallbackSeen == Numbered /\ CallbackNext => SeenStep
  <1> SUFFICES ASSUME Numbered, CallbackNext PROVE SeenStep
    OBVIOUS
  <1>1. Types /\ Placed
    BY DEF Numbered, Placed
  <1>2. ASSUME NEW o \in 1..nobj, NEW ok \in BOOLEAN, Response(o, ok) PROVE SeenStep
    <2>1. failed = "no" /\ o \in inflight /\ UNCHANGED <<last, w>>
      BY <1>2 DEF Response, Alive
    <2>2. inflight = {o}
      BY <1>1, <2>1, OneRequest, Zenon
    <2>3. w.used = 0
      BY <1>1, <2>1 DEF Placed, Answers, Types, WTypes, IdleWorker
    <2>4. St = "waiting"
      BY <2>1 DEF St
    <2>5. St' = IF ok THEN "idle" ELSE "aborted"
      <3>1. CASE ok
        <4>1. inflight' = {} /\ failed' = "no"
          BY <1>2, <2>1, <2>2, <3>1 DEF Response
        <4> QED BY <2>1, <2>3, <3>1, <4>1 DEF St
      <3>2. CASE ~ok
        BY <1>2, <3>2 DEF Response, St
      <3> QED BY <3>1, <3>2
    <2> QED BY <2>1, <2>4, <2>5, SeenAnswer
  <1>3. ASSUME NEW o \in 1..nobj, FreeTransaction(o) \/ SetMrc(o) PROVE SeenStep
    <2>1. UNCHANGED <<last, inflight, w, failed>>
      BY <1>3 DEF FreeTransaction, SetMrc
    <2> QED BY <2>1, UnseenStep
  <1>4. CASE FetchError
    <2>1. /\ failed = "no" /\ failed' = "rc" /\ UNCHANGED last /\ last.reqs > 0
          /\ w.used > 0 \/ inflight # {}
      BY <1>4 DEF FetchError, Alive
    <2> QED BY <2>1, SeenFailure DEF St
  <1> QED BY <1>2, <1>3, <1>4 DEF CallbackNext

(* A thread's step is a stutter.                                           *)
LEMMA ThreadSeen == Numbered /\ ThreadNext => SeenStep
  <1> SUFFICES ASSUME Numbered, ThreadNext PROVE SeenStep
    OBVIOUS
  <1>1. UNCHANGED <<last, inflight, w>>
    BY ThreadKeeps DEF Numbered, Placed
  <1>2. failed = "no" /\ failed' \in {"no", "state", "freed"}
    BY Zenon DEF ThreadNext, MarkDirty, Fsync, FsyncLock, ReadFront, CheckState, AddFile,
       SetDirty, EndJournal, Leave, Alive
  <1> QED BY <1>1, <1>2, UnseenStep

(* So is a step that changes nothing.                                      *)
LEMMA StutterSeen == UNCHANGED hvars => SeenStep
  <1> SUFFICES ASSUME UNCHANGED hvars PROVE SeenStep
    OBVIOUS
  <1>1. UNCHANGED Seen
    BY DEF hvars, Seen, St
  <1> QED BY <1>1, SeenSame

(* What DevFS sees of the daemon is the protocol of JournalClient, for     *)
(* every number of threads, files, blocks and transactions.                *)
THEOREM DaemonImplementsClient == Spec => ImplementsClient
  <1>1. Init => Client!ClientInit
    BY DEF Init, Client!ClientInit, IdleWorker
  <1>2. Numbered /\ [Next]_hvars => SeenStep
    BY ThreadSeen, WorkerSeen, CallbackSeen, StutterSeen DEF Next, Stopped
  <1>3. SeenStep =>
          [Client!ClientNext]_[st   |-> IF failed = "rc" THEN "aborted"
                                        ELSE IF inflight # {} THEN "waiting"
                                        ELSE IF w.used > 0 THEN "sending" ELSE "idle",
                               tx   |-> last.tid, df |-> last.df,
                               reqs |-> last.reqs, data |-> last.data]
    BY DEF SeenStep, SeenRec, Rec, St
  <1> QED BY <1>1, <1>2, <1>3, AlwaysNumbered, PTL
          DEF Spec, ImplementsClient, Client!ClientSpec
===============================================================================
