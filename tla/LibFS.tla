-------------------------------- MODULE LibFS --------------------------------
(***************************************************************************)
(* LibFS as one process sees it: the POSIX calls (posix_interface.c), the  *)
(* table of open files (file.c), the cache of LibFS inodes by path         *)
(* (inode.c), and the connection of an inode to the shared segment the     *)
(* Secure Daemon assigned to the file (libfs/shm.c).  The kernel gives     *)
(* descriptors and keeps the names; it is modelled from its use.           *)
(*                                                                         *)
(* An open notifies the daemon, which answers later by storing the index   *)
(* of the segment under the descriptor; the first call that needs the      *)
(* segment polls for it.  Nothing in the answer names the file.            *)
(***************************************************************************)
EXTENDS Integers, Sequences, FiniteSets

CONSTANTS Threads, Paths,
          MaxFd,       \* bound: descriptors 1 .. MaxFd
          MaxIno,      \* bound: files the kernel creates
          MaxLi,       \* bound: LibFS inodes allocated
          MaxShm,      \* OXBOW_MAX_SHM
          MaxSize,     \* OXBOW_MAX_FILE_SIZE, in units of one read or write
          Scripts,     \* the calls the threads make: a set of [Threads -> Seq(call)]
          Nil

VARIABLES ns, kind, kfd,      \* kernel: names, kind of each file, descriptors
          hash, li,           \* g_lfs_inode_hash and the inodes
          files,              \* g_fd_table.open_files
          keys,               \* fd_key_map, shared with the daemon
          notes,              \* ILLUFS_IOCTL_NOTIFY messages under way
          seg, table, free,   \* shm_index of each file; g_shm_table
          gc,                 \* shm_gc_worker_event
          script, pc, loc, mine

kernel  == <<ns, kind, kfd>>
cache   == <<hash, li>>
daemon  == <<seg, table, free, gc>>
threads == <<script, pc, loc, mine>>
vars    == <<kernel, cache, files, keys, notes, daemon, threads>>

Fds  == 1 .. MaxFd
Inos == 1 .. MaxIno
Lis  == 1 .. MaxLi
Shms == 0 .. MaxShm - 1

NoFile  == [fd |-> 0, li |-> Nil, data |-> 0, pos |-> 0]
NoInode == [path |-> Nil, state |-> {}, shm |-> Nil, data |-> 0, ref |-> 0, live |-> FALSE]
NoLoc   == [fd |-> 0, li |-> Nil, shm |-> Nil]

Init ==
    /\ ns = [p \in Paths |-> 0] /\ kind = [i \in Inos |-> Nil] /\ kfd = [f \in Fds |-> 0]
    /\ hash = [p \in Paths |-> Nil] /\ li = [l \in Lis |-> NoInode]
    /\ files = [f \in Fds |-> NoFile]
    /\ keys = [f \in 0 .. MaxFd |-> -1]
    /\ notes = {}
    /\ seg = [i \in Inos |-> -1]
    /\ table = [s \in Shms |-> [state |-> "init", gen |-> 0, ino |-> 0, size |-> 0]]
    /\ free = MaxShm /\ gc = FALSE
    /\ script \in Scripts
    /\ pc = [t \in Threads |-> "idle"] /\ loc = [t \in Threads |-> NoLoc]
    /\ mine = [t \in Threads |-> <<>>]

SetMin(S) == CHOOSE x \in S : \A y \in S : x <= y
Call(t)  == Head(script[t])
\* The descriptor a call is made on: the last one the thread opened.
Fd(t)    == IF mine[t] = <<>> THEN 0 ELSE mine[t][Len(mine[t])]
NotOpen(f) == f = 0 \/ (f # 0 /\ files[f].fd = 0)
Calls(t, op) == pc[t] = "idle" /\ script[t] # <<>> /\ Call(t).op = op
At(t, l) == pc[t] = l
Goto(t, l) == pc' = [pc EXCEPT ![t] = l]
Then(t, rest) == Goto(t, "idle") /\ script' = [script EXCEPT ![t] = rest \o Tail(@)]
Done(t)  == Then(t, <<>>)
Local(t, f, l, s) == loc' = [loc EXCEPT ![t] = [fd |-> f, li |-> l, shm |-> s]]

NewInos == {i \in Inos : kind[i] = Nil}
NewFds  == {f \in Fds : kfd[f] = 0}
NewLis  == {l \in Lis : li[l].path = Nil}

-----------------------------------------------------------------------------
(* open, creat, mkdir: libfs_posix_open, attach_lfs_file, get_lfs_inode. *)

\* SYS_open: the lowest free descriptor; creat makes the file if there is none.
Open(t) ==
    /\ Calls(t, "open") \/ Calls(t, "creat") \/ Calls(t, "stat")
    /\ LET p == Call(t).path
           new == ns[p] = 0
           ino == IF new THEN SetMin(NewInos) ELSE ns[p]
           f == SetMin(NewFds) IN
       \/ /\ new /\ Call(t).op # "creat"
          /\ Done(t) /\ UNCHANGED <<kernel, loc>>
       \/ /\ new => Call(t).op = "creat" /\ NewInos # {}
          /\ NewFds # {}
          /\ ns' = [ns EXCEPT ![p] = ino]
          /\ kind' = IF new THEN [kind EXCEPT ![ino] = "file"] ELSE kind
          /\ kfd' = [kfd EXCEPT ![f] = ino]
          /\ Local(t, f, Nil, Nil) /\ Goto(t, "attach") /\ UNCHANGED script
    /\ UNCHANGED <<cache, files, keys, notes, daemon, mine>>

\* libfs_posix_stat goes on with fstat and close of the descriptor it opened.
AfterOpen(t) == IF Call(t).op = "stat" THEN <<[op |-> "fstat"], [op |-> "close"]>> ELSE <<>>

\* mkdir: SYS_mkdir (EEXIST fails), then an inode that keeps its reference.
Mkdir(t) ==
    /\ Calls(t, "mkdir") /\ NewInos # {}
    /\ LET p == Call(t).path  ino == SetMin(NewInos) IN
       \/ /\ ns[p] # 0 /\ Done(t) /\ UNCHANGED <<ns, kind, loc>>
       \/ /\ ns[p] = 0
          /\ ns' = [ns EXCEPT ![p] = ino] /\ kind' = [kind EXCEPT ![ino] = "dir"]
          /\ Local(t, 0, Nil, Nil) /\ Goto(t, "attach") /\ UNCHANGED script
    /\ UNCHANGED <<kfd, cache, files, keys, notes, daemon, mine>>

\* The inode cached under the path, or a new one, FREE and cached under it.
LiOf(p) == IF hash[p] # Nil THEN hash[p] ELSE SetMin(NewLis)
GetLfsInode(p, l) ==
    /\ hash' = [hash EXCEPT ![p] = l]
    /\ li' = IF hash[p] # Nil THEN [li EXCEPT ![l].ref = @ + 1]
             ELSE [li EXCEPT ![l] = [path |-> p, state |-> {"free"}, shm |-> Nil,
                                     data |-> 0, ref |-> 1, live |-> TRUE]]

Attach(t) ==
    /\ At(t, "attach")
    /\ LET p == Call(t).path IN
       /\ hash[p] # Nil \/ NewLis # {}
       /\ GetLfsInode(p, LiOf(p))
       /\ Local(t, loc[t].fd, LiOf(p), Nil)
    /\ \/ loc[t].fd = 0 /\ Done(t)
       \/ loc[t].fd # 0 /\ Goto(t, "notify") /\ UNCHANGED script
    /\ UNCHANGED <<kernel, files, keys, notes, daemon, mine>>

\* Until some call of the process has mapped the segment the inode is FREE, and
\* an open asks the daemon for the key.
Asks(l) == "free" \in li[l].state

\* A failed ioctl closes the descriptor again and leaves the inode as it is.
Notify(t) ==
    /\ At(t, "notify")
    /\ LET l == loc[t].li  f == loc[t].fd IN
       /\ li' = IF Asks(l) THEN [li EXCEPT ![l].state = @ \cup {"init"}] ELSE li
       /\ \/ /\ notes' = IF Asks(l) THEN notes \cup {[ino |-> kfd[f], fd |-> f]} ELSE notes
             /\ files' = [files EXCEPT ![f] = [fd |-> f, li |-> l, data |-> 0, pos |-> 0]]
             /\ mine' = [mine EXCEPT ![t] = Append(@, f)] /\ Then(t, AfterOpen(t))
             /\ UNCHANGED kfd
          \/ /\ Asks(l) /\ kfd' = [kfd EXCEPT ![f] = 0]
             /\ Done(t) /\ UNCHANGED <<notes, files, mine>>
    /\ UNCHANGED <<ns, kind, hash, keys, daemon, loc>>

-----------------------------------------------------------------------------
(* read, pread, write, pwrite, lseek, fstat, fsync: all but the absolute and   *)
(* the relative lseek need the segment.                                       *)

Uses == {"read", "pread", "write", "pwrite", "seekset", "seekcur", "seekend", "fstat", "fsync"}

\* get_lfs_file: ENOENT when the table has no such file.
Use(t) ==
    /\ pc[t] = "idle" /\ script[t] # <<>> /\ Call(t).op \in Uses
    /\ LET f == Fd(t) IN
       \/ /\ NotOpen(f) /\ Done(t) /\ UNCHANGED loc
       \/ /\ ~NotOpen(f)
          /\ Local(t, f, files[f].li, Nil)
          /\ Goto(t, IF li[files[f].li].shm = Nil /\ Call(t).op \notin {"seekset", "seekcur"}
                     THEN "poll" ELSE "do")
          /\ UNCHANGED script
    /\ UNCHANGED <<kernel, cache, files, keys, notes, daemon, mine>>

\* file_do_mmap: the mapping of the inode, or a new one of the descriptor's
\* file; a directory is never mapped.
Mmap(f, l) ==
    IF li[l].data # 0 \/ kfd[f] = 0 \/ kind[kfd[f]] = "dir" THEN li[l].data ELSE kfd[f]
DoMmap(f, l) ==
    /\ li' = [li EXCEPT ![l].data = Mmap(f, l)]
    /\ files' = [files EXCEPT ![f].data = Mmap(f, l)]

\* init_shared_file_metadata polls the key of f->fd, mapping the file meanwhile.
PollMap(t) ==
    /\ At(t, "poll")
    /\ LET f == loc[t].fd IN
       /\ keys[files[f].fd] < 0 /\ files[f].data = 0 /\ kfd[f] # 0
       /\ kind[kfd[f]] # "dir"
       /\ DoMmap(f, loc[t].li)
    /\ UNCHANGED <<kernel, hash, keys, notes, daemon, threads>>

\* shm_open of the name built from the key: the segment of that name now.
PollKey(t) ==
    /\ At(t, "poll")
    /\ LET k == keys[files[loc[t].fd].fd] IN
       /\ k >= 0
       /\ Local(t, loc[t].fd, loc[t].li, [idx |-> k, gen |-> table[k].gen])
    /\ Goto(t, "open")
    /\ UNCHANGED <<kernel, cache, files, keys, notes, daemon, script, mine>>

\* The first to get here keeps its mapping, under li_lock.
SetOpen(t) ==
    /\ At(t, "open")
    /\ LET l == loc[t].li IN
       li' = IF "open" \in li[l].state THEN li
             ELSE [li EXCEPT ![l].state = (@ \cup {"open"}) \ {"free"}, ![l].shm = loc[t].shm]
    /\ Goto(t, "do")
    /\ UNCHANGED <<kernel, hash, files, keys, notes, daemon, script, loc, mine>>

\* What a call does to the position of the file and to the size in the segment
\* header, and whether it maps the file.  A count is one unit.
Eff(pos, size, map) == [pos |-> pos, size |-> size, map |-> map]
Larger(x, y) == IF x > y THEN x ELSE y

\* A read behind the end fails.
Read(pos, size)  == Eff(IF pos < size THEN pos + 1 ELSE pos, size, pos <= size)
Pread(pos, size, off) == Eff(pos, size, off <= size)
\* A write over the largest size is EFBIG; one past the end grows the file.
Write(pos, size) ==
    IF pos + 1 > MaxSize THEN Eff(pos, size, FALSE) ELSE Eff(pos + 1, Larger(size, pos + 1), TRUE)
Pwrite(pos, size, off) ==
    IF off + 1 > MaxSize THEN Eff(pos, size, FALSE) ELSE Eff(pos, Larger(size, off + 1), TRUE)
\* SEEK_END goes to the end, whatever the offset.
Lseek(op, pos, size, off) ==
    Eff(CASE op = "seekset" -> off [] op = "seekcur" -> pos + off [] OTHER -> size, size, FALSE)
Fstat(pos, size) == Eff(pos, size, FALSE)
Fsync(pos, size) == Eff(pos, size, FALSE)

Effect(op, pos, size) ==
    CASE op = "read"   -> Read(pos, size)
      [] op = "pread"  -> Pread(pos, size, 0)
      [] op = "write"  -> Write(pos, size)
      [] op = "pwrite" -> Pwrite(pos, size, 0)
      [] op = "fstat"  -> Fstat(pos, size)
      [] op = "fsync"  -> Fsync(pos, size)
      [] OTHER         -> Lseek(op, pos, size, 0)

Do(t) ==
    /\ At(t, "do")
    /\ LET f == loc[t].fd  l == loc[t].li
           shm == li[l].shm
           e == Effect(Call(t).op, files[f].pos, IF shm = Nil THEN 0 ELSE table[shm.idx].size)
           data == IF e.map /\ files[f].data = 0 THEN Mmap(f, l) ELSE files[f].data IN
       /\ files' = [files EXCEPT ![f].pos = e.pos, ![f].data = data]
       /\ li' = IF e.map /\ files[f].data = 0 THEN [li EXCEPT ![l].data = data] ELSE li
       /\ table' = IF shm = Nil THEN table ELSE [table EXCEPT ![shm.idx].size = e.size]
    /\ Done(t)
    /\ UNCHANGED <<kernel, hash, keys, notes, seg, free, gc, loc, mine>>

-----------------------------------------------------------------------------
(* close: libfs_posix_close, close_daemon_file_key. *)

\* An open of this process asked for a key that no close took back.
TakesKey(l) == "init" \in li[l].state

Close(t) ==
    /\ Calls(t, "close")
    /\ LET f == Fd(t)  l == files[f].li IN
       \/ /\ NotOpen(f) /\ Done(t) /\ UNCHANGED <<li, loc>>
       \/ /\ ~NotOpen(f)
          /\ li' = [li EXCEPT ![l].state = @ \ {"init"}]
          /\ Local(t, f, l, Nil)
          /\ Goto(t, IF TakesKey(l) THEN "key" ELSE "put") /\ UNCHANGED script
    /\ UNCHANGED <<kernel, hash, files, keys, notes, daemon, mine>>

\* The answer of the daemon is awaited, and taken back.
CloseKey(t) ==
    /\ At(t, "key") /\ keys[loc[t].fd] # -1
    /\ keys' = [keys EXCEPT ![loc[t].fd] = -1]
    /\ Goto(t, "put")
    /\ UNCHANGED <<kernel, cache, files, notes, daemon, script, loc, mine>>

PutInode(t) ==
    /\ At(t, "put")
    /\ li' = [li EXCEPT ![loc[t].li].ref = @ - 1]
    /\ files' = [files EXCEPT ![loc[t].fd].li = Nil, ![loc[t].fd].data = 0]
    /\ Goto(t, "sysclose")
    /\ UNCHANGED <<kernel, hash, keys, notes, daemon, script, loc, mine>>

\* SYS_close: from here on the kernel may give the descriptor to another open.
SysClose(t) ==
    /\ At(t, "sysclose")
    /\ kfd' = [kfd EXCEPT ![loc[t].fd] = 0]
    /\ Goto(t, "clear")
    /\ UNCHANGED <<ns, kind, cache, files, keys, notes, daemon, script, loc, mine>>

\* The entry is cleared after the descriptor was given back.
Clear(t) ==
    /\ At(t, "clear")
    /\ files' = [files EXCEPT ![loc[t].fd].fd = 0, ![loc[t].fd].pos = 0]
    /\ mine' = [mine EXCEPT ![t] = SubSeq(@, 1, Len(@) - 1)]
    /\ Done(t)
    /\ UNCHANGED <<kernel, cache, keys, notes, daemon, loc>>

-----------------------------------------------------------------------------
(* unlink, rmdir, rename. *)

\* remove_lfs_inode: the cached inode is unhashed and freed, used or not ...
UnlinkCache(t) ==
    /\ Calls(t, "unlink")
    /\ LET p == Call(t).path  l == hash[p] IN
       /\ hash' = [hash EXCEPT ![p] = Nil]
       /\ li' = IF l = Nil THEN li
                ELSE [li EXCEPT ![l].live = FALSE, ![l].shm = Nil, ![l].data = 0]
    /\ Goto(t, "sysunlink")
    /\ UNCHANGED <<kernel, files, keys, notes, daemon, script, loc, mine>>

\* ... before SYS_unlink removes the name.
SysUnlink(t) ==
    /\ At(t, "sysunlink")
    /\ ns' = [ns EXCEPT ![Call(t).path] = 0]
    /\ Done(t)
    /\ UNCHANGED <<kind, kfd, cache, files, keys, notes, daemon, loc, mine>>

\* rename_lfs_inode, change_hash: a path not cached is ENOENT; an inode cached
\* under the new path is forgotten.
ChangeHashLost(p, q) == UNCHANGED <<hash, li>>
ChangeHash(p, q) ==
    /\ hash' = [[hash EXCEPT ![p] = Nil] EXCEPT ![q] = hash[p]]
    /\ li' = [li EXCEPT ![hash[p]].path = q, ![hash[p]].ref = @ + 1]

RenameCache(t) ==
    /\ Calls(t, "rename")
    /\ LET p == Call(t).path  q == Call(t).to IN
       \/ hash[p] = Nil /\ Done(t) /\ UNCHANGED cache
       \/ /\ hash[p] # Nil
          /\ ChangeHash(p, q)
          /\ Goto(t, "sysrename") /\ UNCHANGED script
    /\ UNCHANGED <<kernel, files, keys, notes, daemon, loc, mine>>

\* SYS_rename fails when the name is gone; the cache keeps its change.
SysRename(t) ==
    /\ At(t, "sysrename")
    /\ LET p == Call(t).path  q == Call(t).to IN
       ns' = IF ns[p] = 0 THEN ns ELSE [[ns EXCEPT ![p] = 0] EXCEPT ![q] = ns[p]]
    /\ Done(t)
    /\ UNCHANGED <<kind, kfd, cache, files, keys, notes, daemon, loc, mine>>

-----------------------------------------------------------------------------
(* The Secure Daemon: libfs/shm.c. *)

\* find_empty_shm and init_shm_shared_state: the first entry in state INIT.
Usable == {s \in Shms : table[s].state = "init"}
InitShm(ino) ==
    LET s == SetMin(Usable) IN
    /\ seg' = [seg EXCEPT ![ino] = s]
    /\ table' = [table EXCEPT ![s] = [@ EXCEPT !.state = "used", !.ino = ino, !.size = 0]]
    /\ free' = free - 1
    /\ gc' = (gc \/ free - 1 < MaxShm \div 2)

\* init_file: the kernel's announcement of a file reaches the daemon.
InitFile(ino) ==
    /\ kind[ino] # Nil /\ seg[ino] = -1 /\ Usable # {}
    /\ \E p \in Paths : ns[p] = ino
    /\ InitShm(ino)
    /\ UNCHANGED <<kernel, cache, files, keys, notes, threads>>

\* register_file_proc_fdmap: the key of the descriptor is set.
Register(n) ==
    /\ n \in notes
    /\ \/ seg[n.ino] # -1 /\ UNCHANGED daemon
       \/ seg[n.ino] = -1 /\ Usable # {} /\ InitShm(n.ino)
    /\ keys' = [keys EXCEPT ![n.fd] = seg'[n.ino]]
    /\ notes' = notes \ {n}
    /\ UNCHANGED <<kernel, cache, files, threads>>

\* The kernel evicts a file with no name, no descriptor and no mapping;
\* destroy_inode frees its segment.
Evicted(ino) ==
    /\ seg[ino] # -1
    /\ \A p \in Paths : ns[p] # ino
    /\ \A f \in Fds : kfd[f] # ino
    /\ \A l \in Lis : li[l].live => li[l].data # ino
    /\ \A n \in notes : n.ino # ino

FreeShm(ino) ==
    /\ Evicted(ino)
    /\ table' = [table EXCEPT ![seg[ino]].state = "freed"]
    /\ seg' = [seg EXCEPT ![ino] = -1]
    /\ gc' = (gc \/ free < 3 * (MaxShm \div 4))
    /\ UNCHANGED <<kernel, cache, files, keys, notes, free, threads>>

\* clean_unused_shm: the object is unlinked and created anew under its name.
FreeMore == free + 1

Collect(s) ==
    /\ gc /\ table[s].state = "freed"
    /\ table' = [table EXCEPT ![s] = [@ EXCEPT !.state = "init", !.gen = @ + 1]]
    /\ free' = FreeMore
    /\ gc' = (\E r \in Shms \ {s} : table[r].state = "freed")
    /\ UNCHANGED <<kernel, cache, files, keys, notes, seg, threads>>

-----------------------------------------------------------------------------
ThreadStep(t) ==
    \/ Open(t) \/ Mkdir(t) \/ Attach(t) \/ Notify(t)
    \/ Use(t) \/ PollMap(t) \/ PollKey(t) \/ SetOpen(t) \/ Do(t)
    \/ Close(t) \/ CloseKey(t) \/ PutInode(t) \/ SysClose(t) \/ Clear(t)
    \/ UnlinkCache(t) \/ SysUnlink(t) \/ RenameCache(t) \/ SysRename(t)
DaemonStep ==
    \/ \E i \in Inos : InitFile(i)
    \/ \E n \in notes : Register(n)
    \/ \E i \in Inos : FreeShm(i)
    \/ \E s \in Shms : Collect(s)

Next == (\E t \in Threads : ThreadStep(t)) \/ DaemonStep
Spec == Init /\ [][Next]_vars

-----------------------------------------------------------------------------
(* Properties. *)

\* Every variable holds a value of its type, and free counts the usable entries.
TypeOK ==
    /\ ns \in [Paths -> 0 .. MaxIno] /\ kfd \in [Fds -> 0 .. MaxIno]
    /\ hash \in [Paths -> Lis \cup {Nil}]
    /\ keys \in [0 .. MaxFd -> -1 .. MaxShm - 1]
    /\ seg \in [Inos -> -1 .. MaxShm - 1]
    /\ free = Cardinality(Usable)
    /\ \A s \in Shms : table[s].state \in {"init", "used", "freed"} /\ table[s].size \in Nat
    /\ \A f \in Fds : files[f].fd \in {0, f} /\ files[f].data \in 0 .. MaxIno

\* An open descriptor reaches its own file: the segment mapped for it is the
\* one the daemon assigned to the file the kernel opened, and is not recycled;
\* the pages mapped for it are that file's.  Sizes, dirty bits and the daemon's
\* inode all come from that segment (init_shared_file_metadata, file_do_mmap).
OpenFd(f) == files[f].fd = f /\ files[f].li # Nil /\ kfd[f] # 0
RightFile ==
    \A f \in Fds : OpenFd(f) /\ li[files[f].li].live =>
       /\ files[f].data \in {0, kfd[f]}
       /\ LET s == li[files[f].li].shm IN
          s # Nil => /\ seg[kfd[f]] = s.idx
                     /\ table[s.idx].gen = s.gen /\ table[s.idx].ino = kfd[f]

\* A key names the segment of the file that is open under that descriptor: none
\* is left for the next file the kernel gives the descriptor to.
NoStaleKey ==
    \A f \in Fds : keys[f] # -1 => kfd[f] # 0 /\ seg[kfd[f]] = keys[f]

\* The cache has at most one inode per path, under its own path, and an open
\* file's inode is not freed under it.
CacheSound ==
    /\ \A p \in Paths : hash[p] # Nil => li[hash[p]].path = p /\ li[hash[p]].live
    /\ \A f \in Fds : OpenFd(f) => li[files[f].li].live

\* A descriptor that open returned and nobody closes stays usable.
FdKept ==
    \A t \in Threads : pc[t] = "idle" => \A i \in 1 .. Len(mine[t]) : ~NotOpen(mine[t][i])
=============================================================================
