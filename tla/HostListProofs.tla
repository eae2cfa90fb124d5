---------------------------- MODULE HostListProofs ----------------------------
(***************************************************************************)
(* Proofs about HostJournal, continued: who has joined a transaction, and  *)
(* what a build finds in its set.                                          *)
(***************************************************************************)
EXTENDS HostJournalProofs

-----------------------------------------------------------------------------
(* The reference count of a transaction.                                   *)
InTx == {"add", "mark", "end"}

Counted == Placed /\ References /\ JoinedNotBuilt

(* The references to a transaction can be counted.                         *)
LEMMA JoinedFinite ==
    ASSUME NEW o PROVE IsFiniteSet(Joined(o)) /\ Cardinality(Joined(o)) \in Nat
  <1>1. IsFiniteSet(Threads) /\ Joined(o) \subseteq Threads
    BY HostAssumption DEF Joined
  <1> QED BY <1>1, FS_Subset, FS_CardinalityType

(* What a move does to the operations of a transaction.                    *)
LEMMA JoinedMoved ==
    ASSUME NEW t \in Threads, NEW pc, NEW op, NEW i, NEW o, Moved(t, pc, op, i, o)
    PROVE  \A x : Joined(x)' = IF pc \in InTx /\ o = x THEN Joined(x) \cup {t}
                                                     ELSE Joined(x) \ {t}
  BY DEF Moved, Joined, InTx

(* The invariant Counted holds initially.                                  *)
LEMMA InitCounted == Init => Counted
  <1> SUFFICES ASSUME Init PROVE Counted
    OBVIOUS
  <1>1. \A t \in Threads : th[t].pc = "idle"
    BY DEF Init, IdleThread
  <1>2. \A o : Joined(o) = {}
    BY <1>1 DEF Joined
  <1>3. 1..nobj = {1} /\ tr[1].ref = 0
    BY DEF Init, NewTx
  <1>4. References
    BY <1>2, <1>3, FS_EmptySet DEF References
  <1>5. JoinedNotBuilt
    BY <1>1 DEF JoinedNotBuilt
  <1> QED BY <1>4, <1>5, InitPlaced DEF Counted

(* A thread outside a transaction that stays outside.                      *)
LEMMA OutsideCounted ==
    ASSUME Counted, Placed', ThreadNext, NEW t \in Threads, NEW pc, NEW op, NEW i, NEW o,
           th[t].pc \notin InTx, pc \notin InTx, Moved(t, pc, op, i, o), tr' = tr
    PROVE  References' /\ JoinedNotBuilt'
  <1>1. \A x : Joined(x)' = Joined(x)
    <2>1. \A x : t \notin Joined(x)
      BY DEF Joined, InTx
    <2> QED BY <2>1, JoinedMoved
  <1>2. UNCHANGED <<nobj, w, tr>>
    BY ThreadKeeps DEF Counted, Placed
  <1>3. References'
    BY <1>1, <1>2 DEF Counted, References
  <1>4. JoinedNotBuilt'
    BY <1>2 DEF Counted, JoinedNotBuilt, Moved, InTx
  <1> QED BY <1>3, <1>4

(* A thread inside a transaction that stays inside.                        *)
LEMMA InsideCounted ==
    ASSUME Counted, Placed', ThreadNext, NEW t \in Threads, NEW pc, NEW op, NEW i,
           th[t].pc \in InTx, pc \in InTx, Moved(t, pc, op, i, th[t].o),
           \A x \in 1..nobj : tr'[x].ref = tr[x].ref
    PROVE  References' /\ JoinedNotBuilt'
  <1>1. \A x : Joined(x)' = Joined(x)
    <2>1. \A x : t \in Joined(x) <=> x = th[t].o
      BY DEF Joined, InTx
    <2> QED BY <2>1, JoinedMoved
  <1>2. UNCHANGED <<nobj, w>> /\ \A x \in 1..nobj : tr'[x].state = tr[x].state
    BY ThreadKeeps DEF Counted, Placed
  <1>3. References'
    BY <1>1, <1>2 DEF Counted, References
  <1>4. JoinedNotBuilt'
    <2>1. ASSUME NEW u \in Threads, th'[u].pc \in InTx
          PROVE  tr'[th'[u].o].state \in {"running", "locked"}
      <3>1. th[u].pc \in InTx /\ th'[u].o = th[u].o
        BY <2>1 DEF Moved
      <3>2. th[u].o \in 1..nobj
        BY <3>1 DEF Counted, Placed, Types, ThTypes, InTx
      <3> QED BY <1>2, <3>1, <3>2 DEF Counted, JoinedNotBuilt, InTx
    <2> QED BY <2>1 DEF JoinedNotBuilt, InTx
  <1> QED BY <1>3, <1>4

(* A thread that joins is counted.                                         *)
LEMMA CheckStateCounted ==
    ASSUME Counted, Placed', NEW t \in Threads, CheckState(t)
    PROVE  References' /\ JoinedNotBuilt'
  <1>1. Types /\ ThreadNext
    BY DEF Counted, Placed, ThreadNext
  <1>2. th[t].pc = "check" /\ th[t].o \in 1..nobj /\ UNCHANGED <<nobj, w>>
    BY <1>1, CheckStateEffect
  <1> DEFINE o == th[t].o
  <1>3. CASE /\ tr[o].state = "running"
             /\ Updated(o, "running", tr[o].ref + 1, tr[o].files)
             /\ Moved(t, "add", th[t].op, th[t].i, o)
    <2>1. \A x : t \notin Joined(x)
      BY <1>2 DEF Joined
    <2>2. \A x : Joined(x)' = IF x = o THEN Joined(x) \cup {t} ELSE Joined(x)
      BY <1>3, <2>1, JoinedMoved DEF InTx
    <2>3. Cardinality(Joined(o) \cup {t}) = Cardinality(Joined(o)) + 1
      BY <2>1, JoinedFinite, FS_AddElement, Zenon
    <2>4. \A x \in 1..nobj : tr'[x].ref = Cardinality(Joined(x)')
      BY <1>2, <1>3, <2>2, <2>3, Zenon DEF Updated, Counted, References
    <2>5. w.pc = "snapshot" => \A x : x = w.o => Joined(x)' = {}
      <3>1. w.pc = "snapshot" => w.o # o
        BY <1>3 DEF Counted, Placed, Control, Building
      <3> QED BY <2>2, <3>1 DEF Counted, References
    <2>6. References'
      BY <1>2, <2>4, <2>5 DEF References, Joined
    <2>7. JoinedNotBuilt'
      <3>1. ASSUME NEW u \in Threads, th'[u].pc \in InTx
            PROVE  tr'[th'[u].o].state \in {"running", "locked"}
        <4>1. CASE u = t
          BY <1>2, <1>3, <4>1 DEF Moved, Updated
        <4>2. CASE u # t
          <5>1. th[u].pc \in InTx /\ th'[u].o = th[u].o
            BY <1>3, <3>1, <4>2 DEF Moved
          <5>2. th[u].o \in 1..nobj
            BY <1>1, <5>1 DEF Types, ThTypes, InTx
          <5> QED BY <1>3, <5>1, <5>2 DEF Counted, JoinedNotBuilt, InTx, Updated
        <4> QED BY <4>1, <4>2
      <3> QED BY <3>1 DEF JoinedNotBuilt, InTx
    <2> QED BY <2>6, <2>7
  <1>4. CASE Moved(t, "front", th[t].op, th[t].i, o) /\ tr' = tr
    BY <1>1, <1>2, <1>4, OutsideCounted DEF InTx
  <1>5. CASE tr' = tr /\ th' = th
    BY <1>2, <1>5 DEF Counted, References, JoinedNotBuilt, Joined
  <1> QED BY <1>1, <1>3, <1>4, <1>5, CheckStateEffect

(* A thread that leaves is no longer counted.                              *)
LEMMA EndJournalCounted ==
    ASSUME Counted, Placed', NEW t \in Threads, EndJournal(t)
    PROVE  References' /\ JoinedNotBuilt'
  <1> DEFINE o == th[t].o
  <1>1. Types
    BY DEF Counted, Placed
  <1>2. /\ th[t].pc = "end" /\ o \in 1..nobj /\ UNCHANGED <<nobj, w>>
        /\ Updated(o, tr[o].state, tr[o].ref - 1, tr[o].files)
        /\ Moved(t, "leave", th[t].op, th[t].i, o)
    BY <1>1, EndJournalEffect
  <1>3. \A x : t \in Joined(x) <=> x = o
    BY <1>2 DEF Joined
  <1>4. \A x : Joined(x)' = IF x = o THEN Joined(x) \ {t} ELSE Joined(x)
    <2>1. \A x : Joined(x)' = Joined(x) \ {t}
      BY <1>2, JoinedMoved DEF InTx
    <2>2. \A x : x # o => Joined(x) \ {t} = Joined(x)
      BY <1>3
    <2> QED BY <2>1, <2>2
  <1>5. Cardinality(Joined(o) \ {t}) = Cardinality(Joined(o)) - 1
    <2>1. IsFiniteSet(Joined(o))
      BY JoinedFinite
    <2>2. t \in Joined(o)
      BY <1>3
    <2> QED BY <2>1, <2>2, FS_RemoveElement, Zenon
  <1>6. \A x \in 1..nobj : tr'[x].ref = Cardinality(Joined(x)')
    BY <1>2, <1>4, <1>5, Zenon DEF Updated, Counted, References
  <1>7. w.pc = "snapshot" => \A x : x = w.o => Joined(x)' = {}
    BY <1>4 DEF Counted, References
  <1>8. References'
    BY <1>2, <1>6, <1>7 DEF References, Joined
  <1>9. JoinedNotBuilt'
    <2>1. ASSUME NEW u \in Threads, th'[u].pc \in InTx
          PROVE  tr'[th'[u].o].state \in {"running", "locked"}
      <3>1. th[u].pc \in InTx /\ th'[u].o = th[u].o
        BY <1>2, <2>1 DEF Moved, InTx
      <3>2. th[u].o \in 1..nobj
        BY <1>1, <3>1 DEF Types, ThTypes, InTx
      <3> QED BY <1>2, <3>1, <3>2 DEF Counted, JoinedNotBuilt, InTx, Updated
    <2> QED BY <2>1 DEF JoinedNotBuilt, InTx
  <1> QED BY <1>8, <1>9

(* A thread's step keeps Counted.                                          *)
LEMMA ThreadCounted == Counted /\ Placed' /\ ThreadNext => References' /\ JoinedNotBuilt'
  <1> SUFFICES ASSUME Counted, Placed', ThreadNext PROVE References' /\ JoinedNotBuilt'
    OBVIOUS
  <1>1. Types
    BY DEF Counted, Placed
  <1>2. PICK t \in Threads :
          \/ MarkDirty(t) \/ Fsync(t) \/ FsyncLock(t) \/ ReadFront(t)
          \/ CheckState(t) \/ AddFile(t) \/ SetDirty(t) \/ EndJournal(t)
          \/ Leave(t)
    BY DEF ThreadNext
  <1>3. CASE MarkDirty(t)
    <2>1. PICK i \in Inodes : th[t].pc = "idle" /\ Moved(t, "front", "mark", i, 0) /\ tr' = tr
      BY <1>1, <1>3, MarkDirtyEffect
    <2> QED BY <2>1, OutsideCounted DEF InTx
  <1>4. CASE Fsync(t)
    <2>1. PICK i \in Inodes : th[t].pc = "idle" /\ Moved(t, "ilock", "stage", i, 0) /\ tr' = tr
      BY <1>1, <1>4, FsyncEffect
    <2> QED BY <2>1, OutsideCounted DEF InTx
  <1>5. CASE FsyncLock(t)
    <2>1. /\ th[t].pc = "ilock" /\ Moved(t, "front", th[t].op, th[t].i, th[t].o)
          /\ tr' = tr
      BY <1>1, <1>5, FsyncLockEffect
    <2> QED BY <2>1, OutsideCounted DEF InTx
  <1>6. CASE ReadFront(t)
    <2>1. th[t].pc = "front" /\ Moved(t, "check", th[t].op, th[t].i, front) /\ tr' = tr
      BY <1>1, <1>6, ReadFrontEffect
    <2> QED BY <2>1, OutsideCounted DEF InTx
  <1>7. CASE CheckState(t)
    BY <1>7, CheckStateCounted
  <1>8. CASE AddFile(t)
    <2>1. /\ th[t].pc = "add" /\ AfterAdd(t) \in InTx
          /\ Moved(t, AfterAdd(t), th[t].op, th[t].i, th[t].o)
          /\ \A x \in 1..nobj : tr'[x].ref = tr[x].ref
      BY <1>1, <1>8, AddFileEffect, Zenon DEF InTx, Updated
    <2> QED BY <2>1, InsideCounted DEF InTx
  <1>9. CASE SetDirty(t)
    <2>1. /\ th[t].pc = "mark" /\ Moved(t, "end", th[t].op, th[t].i, th[t].o)
          /\ tr' = tr
      BY <1>1, <1>9, SetDirtyEffect, Zenon
    <2> QED BY <2>1, InsideCounted DEF InTx
  <1>10. CASE EndJournal(t)
    BY <1>10, EndJournalCounted
  <1>11. CASE Leave(t)
    <2>1. th[t].pc = "leave" /\ Moved(t, "idle", "none", 0, 0) /\ tr' = tr
      BY <1>1, <1>11, LeaveEffect, Zenon
    <2> QED BY <2>1, OutsideCounted DEF InTx
  <1> QED BY <1>2, <1>3, <1>4, <1>5, <1>6, <1>7, <1>8, <1>9, <1>10, <1>11

(* A step that leaves the threads alone keeps what they joined, provided   *)
(* that it does not move the state of a joined transaction on.             *)
LEMMA ApartCounted ==
    ASSUME Counted, th' = th, nobj' = nobj,
           \A x \in 1..nobj :
              /\ tr'[x].ref = tr[x].ref
              /\ Joined(x) # {} => tr'[x].state \in {"running", "locked"},
           w'.pc = "snapshot" => \A x : x = w'.o => Joined(x) = {}
    PROVE  References' /\ JoinedNotBuilt'
  <1>1. \A x : Joined(x)' = Joined(x)
    BY DEF Joined
  <1>2. References'
    <2>1. \A x \in 1..nobj : tr'[x].ref = Cardinality(Joined(x)')
      BY <1>1 DEF Counted, References
    <2>2. w'.pc = "snapshot" => \A x : x = w'.o => Joined(x)' = {}
      BY <1>1
    <2> QED BY <2>1, <2>2 DEF References, Joined
  <1>3. JoinedNotBuilt'
    <2>1. ASSUME NEW u \in Threads, th[u].pc \in InTx
          PROVE  tr'[th[u].o].state \in {"running", "locked"}
      <3>1. u \in Joined(th[u].o) /\ th[u].o \in 1..nobj
        BY <2>1 DEF Joined, InTx, Counted, Placed, Types, ThTypes
      <3> QED BY <3>1
    <2> QED BY <2>1 DEF JoinedNotBuilt, InTx
  <1> QED BY <1>2, <1>3

(* A transaction that somebody has joined is running or locked.            *)
LEMMA JoinedState ==
    ASSUME Counted, NEW x \in 1..nobj, Joined(x) # {}
    PROVE  tr[x].state \in {"running", "locked"}
  BY DEF Counted, JoinedNotBuilt, Joined

(* The worker's step keeps Counted: it builds what nobody refers to.       *)
LEMMA WorkerCounted == Counted /\ Placed' /\ WorkerNext => References' /\ JoinedNotBuilt'
  <1> SUFFICES ASSUME Counted, Placed', WorkerNext PROVE References' /\ JoinedNotBuilt'
    OBVIOUS
  <1>1. Types /\ Placed
    BY DEF Counted, Placed
  <1>2. CASE NewTransaction
    <2>1. /\ nobj' = nobj + 1 /\ nobj \in Nat /\ th' = th
          /\ \A o \in 1..nobj : tr'[o] = tr[o]
          /\ tr'[nobj'].ref = 0 /\ w'.pc = "lock"
      <3>1. PICK d \in DF \ occupied :
              /\ \A o \in 1..nobj : tr'[o] = tr[o]
              /\ tr'[nobj'] = NewTx(seq, d)
        BY <1>1, <1>2, NewTransactionEffect
      <3>2. tr'[nobj'].ref = 0
        BY <3>1 DEF NewTx
      <3>3. nobj' = nobj + 1 /\ th' = th /\ w'.pc = "lock"
        BY <1>1, <1>2, NewTransactionEffect DEF Worked
      <3>4. nobj \in Nat
        BY <1>1 DEF Types, Obj
      <3> QED BY <3>1, <3>2, <3>3, <3>4
    <2>2. \A x : Joined(x)' = Joined(x)
      BY <2>1 DEF Joined
    <2>3. Joined(nobj + 1) = {}
      BY <1>1, <2>1 DEF Types, ThTypes, Joined
    <2>4. \A x \in 1..nobj' : tr'[x].ref = Cardinality(Joined(x))
      <3>1. \A x \in 1..nobj' : x \in 1..nobj \/ x = nobj + 1
        BY <2>1
      <3>2. \A x \in 1..nobj : tr'[x].ref = Cardinality(Joined(x))
        BY <2>1 DEF Counted, References
      <3>3. tr'[nobj + 1].ref = Cardinality(Joined(nobj + 1))
        BY <2>1, <2>3, FS_EmptySet
      <3> QED BY <3>1, <3>2, <3>3
    <2>5. References'
      BY <2>1, <2>2, <2>4 DEF References
    <2>6. JoinedNotBuilt'
      <3>1. \A u \in Threads : th[u].pc \in InTx => th[u].o \in 1..nobj
        BY <1>1 DEF InTx, Types, ThTypes
      <3> QED BY <2>1, <3>1 DEF Counted, JoinedNotBuilt, InTx
    <2> QED BY <2>5, <2>6
  <1>3. CASE LockTx
    <2>1. /\ th' = th /\ nobj' = nobj /\ w'.pc = "drain"
          /\ \A x \in 1..nobj : tr'[x].ref = tr[x].ref
          /\ \A x \in 1..nobj : tr'[x].state = tr[x].state \/ tr'[x].state = "locked"
      BY <1>1, <1>3, LockTxEffect DEF Worked, Updated
    <2> QED BY <2>1, JoinedState, ApartCounted
  <1>4. CASE StartNext
    <2>1. /\ th' = th /\ nobj' = nobj /\ w'.o = w.o /\ w.o \in 1..nobj /\ tr[w.o].ref = 0
          /\ \A x \in 1..nobj : tr'[x].ref = tr[x].ref
          /\ \A x \in 1..nobj : tr'[x].state = tr[x].state \/ tr'[x].state = "running"
      BY <1>1, <1>4, StartNextEffect DEF Worked, Updated
    <2>2. Cardinality(Joined(w.o)) = 0
      BY <2>1 DEF Counted, References
    <2>3. \A x : x = w'.o => Joined(x) = {}
      BY <2>1, <2>2, JoinedFinite, FS_EmptySet
    <2> QED BY <2>1, <2>3, JoinedState, ApartCounted
  <1>5. CASE Snapshot
    <2>1. /\ th' = th /\ nobj' = nobj /\ w.pc = "snapshot" /\ w'.pc = "build"
          /\ \A x \in 1..nobj : tr'[x].ref = tr[x].ref
          /\ \A x \in 1..nobj : x # w.o => tr'[x].state = tr[x].state
      BY <1>1, <1>5, SnapshotEffect DEF Worked, Updated
    <2>2. \A x : x = w.o => Joined(x) = {}
      BY <2>1 DEF Counted, References
    <2> QED BY <2>1, <2>2, JoinedState, ApartCounted
  <1>6. CASE BuildFile \/ CutStage \/ ClearDirty \/ CopyData \/ SendRest
    <2>1. UNCHANGED <<tr, th, nobj>> /\ w'.pc # "snapshot"
      BY <1>1, <1>6, BuildFileEffect, CutStageEffect, ClearDirtyEffect, CopyDataEffect,
         SendRestEffect, Zenon DEF Worked
    <2> QED BY <2>1, JoinedState, ApartCounted
  <1>7. CASE SnapshotInodes
    <2>1. /\ th' = th /\ nobj' = nobj /\ w.pc = "build" /\ w'.pc = "commit"
          /\ \A x \in 1..nobj : tr'[x].ref = tr[x].ref
          /\ \A x \in 1..nobj : x # w.o => tr'[x].state = tr[x].state
      BY <1>1, <1>7, SnapshotInodesEffect DEF Worked, Updated
    <2>2. w.o \in 1..nobj /\ tr[w.o].state = "build"
      BY <1>1, <2>1, WorkerAt DEF Placed, Control, Building
    <2> QED BY <2>1, <2>2, JoinedState, ApartCounted
  <1>8. CASE Discard
    <2>1. front # w.o /\ w.pc = "commit"
      BY <1>1, <1>8, WorkerAlone DEF Discard
    <2>2. /\ th' = th /\ nobj' = nobj /\ w'.pc = "start"
          /\ \A x \in 1..nobj : tr'[x].ref = tr[x].ref
          /\ \A x \in 1..nobj : x # w.o => tr'[x].state = tr[x].state
      BY <1>1, <1>8, <2>1, DiscardEffect DEF IdleWorker
    <2>3. w.o \in 1..nobj /\ tr[w.o].state = "commit"
      BY <1>1, <2>1, WorkerAt DEF Placed, Control, Building
    <2> QED BY <2>2, <2>3, JoinedState, ApartCounted
  <1>9. CASE RequestCommit
    <2>1. UNCHANGED <<tr, th, nobj>> /\ w'.pc # "snapshot"
      BY <1>1, <1>9, RequestCommitEffect DEF IdleWorker
    <2> QED BY <2>1, JoinedState, ApartCounted
  <1> QED BY <1>2, <1>3, <1>4, <1>5, <1>6, <1>7, <1>8, <1>9 DEF WorkerNext

(* A response keeps Counted.                                               *)
LEMMA CallbackCounted ==
    Counted /\ Placed' /\ CallbackNext => References' /\ JoinedNotBuilt'
  <1> SUFFICES ASSUME Counted, Placed', CallbackNext PROVE References' /\ JoinedNotBuilt'
    OBVIOUS
  <1>1. Types /\ Placed
    BY DEF Counted, Placed
  <1>2. ASSUME UNCHANGED <<tr, th, nobj, w>> PROVE References' /\ JoinedNotBuilt'
    BY <1>2 DEF Counted, References, JoinedNotBuilt, Joined
  <1>3. ASSUME NEW o \in 1..nobj, FreeTransaction(o) PROVE References' /\ JoinedNotBuilt'
    <2>1. /\ th' = th /\ nobj' = nobj /\ w' = w /\ cb[o] = "free"
          /\ \A x \in 1..nobj : tr'[x].ref = tr[x].ref
          /\ \A x \in 1..nobj : x # o => tr'[x].state = tr[x].state
      BY <1>1, <1>3, FreeTransactionEffect DEF Updated
    <2>2. w.pc = "start" /\ tr[o].state = "commit"
      BY <1>1, <2>1, ObjectInObj DEF Placed, Answers
    <2> QED BY <2>1, <2>2, JoinedState, ApartCounted
  <1>4. ASSUME NEW o \in 1..nobj, NEW ok \in BOOLEAN, Response(o, ok)
        PROVE  UNCHANGED <<tr, th, nobj, w>>
    BY <1>4 DEF Response
  <1>5. ASSUME NEW o \in 1..nobj, SetMrc(o) PROVE UNCHANGED <<tr, th, nobj, w>>
    BY <1>5 DEF SetMrc
  <1>6. FetchError => UNCHANGED <<tr, th, nobj, w>>
    BY DEF FetchError
  <1> QED BY <1>2, <1>3, <1>4, <1>5, <1>6 DEF CallbackNext

(* Every step keeps Counted.                                               *)
LEMMA StepCounted == Counted /\ [Next]_hvars => Counted'
  <1> SUFFICES ASSUME Counted, [Next]_hvars PROVE Counted'
    OBVIOUS
  <1>1. Placed'
    BY ThreadPlaced, WorkerPlaced, CallbackPlaced, StutterPlaced
       DEF Counted, Next, Stopped
  <1>2. CASE UNCHANGED hvars
    BY <1>1, <1>2 DEF Counted, hvars, References, JoinedNotBuilt, Joined
  <1> QED BY <1>1, <1>2, ThreadCounted, WorkerCounted, CallbackCounted
          DEF Counted, Next, Stopped

(* Counted is an invariant.                                                *)
LEMMA AlwaysCounted == Spec => []Counted
  BY InitCounted, StepCounted, PTL DEF Spec

(* No build starts while a file operation is inside: JoinedNotBuilt holds  *)
(* for any number of threads, files and transactions.                      *)
THEOREM NoneJoinsABuild == Spec => []JoinedNotBuilt
  <1>1. Counted => JoinedNotBuilt
    BY DEF Counted
  <1> QED BY AlwaysCounted, <1>1, PTL

(* The set of files of a transaction that is being built or committed does *)
(* not change.                                                             *)
FrozenStep ==
    \A o \in 1..nobj : tr[o].state \in {"build", "commit"} => tr'[o].files = tr[o].files

(* No step changes the files of a transaction that is being built.         *)
LEMMA StepFrozen == Counted /\ [Next]_hvars => [FrozenStep]_hvars
  <1> SUFFICES ASSUME Counted, Next PROVE FrozenStep
    OBVIOUS
  <1>1. Types /\ Placed
    BY DEF Counted, Placed
  <1>2. CASE ThreadNext
    <2>1. PICK t \in Threads :
            \/ MarkDirty(t) \/ Fsync(t) \/ FsyncLock(t) \/ ReadFront(t)
            \/ CheckState(t) \/ AddFile(t) \/ SetDirty(t) \/ EndJournal(t)
            \/ Leave(t)
      BY <1>2 DEF ThreadNext
    <2>2. CASE AddFile(t)
      <3>1. /\ th[t].pc = "add" /\ th[t].o \in 1..nobj
            /\ \A x \in 1..nobj : x # th[t].o => tr'[x].files = tr[x].files
        BY <1>1, <2>2, AddFileEffect, Zenon DEF Updated
      <3>2. tr[th[t].o].state \in {"running", "locked"}
        BY <3>1 DEF Counted, JoinedNotBuilt
      <3> QED BY <3>1, <3>2 DEF FrozenStep
    <2>3. CASE CheckState(t)
      BY <1>1, <2>3, CheckStateEffect DEF Updated, FrozenStep
    <2>4. CASE EndJournal(t)
      BY <1>1, <2>4, EndJournalEffect DEF Updated, FrozenStep
    <2>5. CASE MarkDirty(t) \/ Fsync(t) \/ FsyncLock(t) \/ ReadFront(t) \/ SetDirty(t)
               \/ Leave(t)
      BY <2>5 DEF MarkDirty, Fsync, FsyncLock, ReadFront, SetDirty, Leave, FrozenStep
    <2> QED BY <2>1, <2>2, <2>3, <2>4, <2>5
  <1>3. CASE WorkerNext
    <2>1. CASE NewTransaction
      BY <1>1, <2>1, NewTransactionEffect DEF FrozenStep
    <2>2. CASE LockTx \/ StartNext \/ SnapshotInodes
      BY <1>1, <2>2, LockTxEffect, StartNextEffect, SnapshotInodesEffect
         DEF FrozenStep, Updated
    <2>3. CASE Snapshot
      BY <1>1, <2>3, SnapshotEffect, Zenon DEF FrozenStep, Updated
    <2>4. CASE BuildFile \/ CutStage \/ ClearDirty \/ CopyData \/ SendRest \/ RequestCommit
      BY <2>4, Zenon DEF BuildFile, CutStage, ClearDirty, CopyData, SendRest, RequestCommit,
         FrozenStep
    <2>5. CASE Discard
      <3>1. front # w.o
        BY <1>1, <2>5, WorkerAlone DEF Discard
      <3> QED BY <1>1, <2>5, <3>1, DiscardEffect DEF FrozenStep
    <2> QED BY <1>3, <2>1, <2>2, <2>3, <2>4, <2>5 DEF WorkerNext
  <1>4. CASE CallbackNext
    <2>1. ASSUME NEW o \in 1..nobj, FreeTransaction(o) PROVE FrozenStep
      BY <1>1, <2>1, FreeTransactionEffect DEF FrozenStep, Updated
    <2> QED BY <1>4, <2>1 DEF CallbackNext, Response, SetMrc, FetchError, FrozenStep
  <1>5. CASE Stopped
    BY <1>5 DEF Stopped, hvars, FrozenStep
  <1> QED BY <1>2, <1>3, <1>4, <1>5 DEF Next

(* build_transaction() may walk the set of a transaction without a lock:   *)
(* FilesFrozen holds for any number of threads, files and transactions.    *)
THEOREM BuiltSetsStay == Spec => FilesFrozen
  <1>1. Counted /\ [Next]_hvars => [FrozenStep]_hvars
    BY StepFrozen
  <1>2. FilesFrozen <=> [][FrozenStep]_hvars
    BY DEF FilesFrozen, FrozenStep
  <1> QED BY AlwaysCounted, <1>1, <1>2, PTL DEF Spec
===============================================================================
