------------------------------- MODULE Namei -------------------------------
(***************************************************************************)
(* The Secure Daemon's name space: the kernel's directory requests         *)
(* (kernfs/dir_ops.c), the lwext4 operations they call (ext4_inode.c,      *)
(* ext4.c), the inode allocator (ext4_ialloc.c), the inode cache with its  *)
(* reference counts (fs/inode.c), the workers that serve a file and the    *)
(* thread that starts them (kernfs/file_ops.c), the manager that evicts    *)
(* inodes, and the set of dirty inodes a journal transaction takes.        *)
(*                                                                         *)
(* A directory is a function from names to inode numbers (0 where there is *)
(* no entry); Ext4Dir models its blocks.  Requests for one directory are   *)
(* serial: its descriptor is armed EPOLLONESHOT and the kernel holds the   *)
(* locks of the directories and the victim until the daemon replies.       *)
(***************************************************************************)
EXTENDS Integers, Sequences, FiniteSets, SequencesExt, FiniteSetsExt

CONSTANTS
    PerGroup,    \* inodes of a block group
    NGroups,     \* block groups
    Names,       \* names of directory entries
    Stale,       \* inodes on disk with a mode but a clear bitmap bit
    Readers,     \* read workers
    MaxReqs,     \* bound on the requests of the kernel
    NlinkMod     \* i_nlink wraps at this value (2^32 in the code)

Groups == 0 .. NGroups - 1
Inos == 1 .. PerGroup * NGroups
Root == 1

ASSUME NameiAssumption ==
    /\ PerGroup \in Nat \ {0} /\ NGroups \in Nat \ {0}
    /\ MaxReqs \in Nat /\ NlinkMod \in Nat \ {0, 1}
    /\ Stale \subseteq Inos \ {Root}

VARIABLES
    fs,       \* bitmap, counters, inode table and entries, as in the buffers
    core,     \* in-core inodes
    cached,   \* inode numbers in the inode hash
    pend,     \* the request a directory worker is in the middle of
    ren,      \* the kernel's rename between RENAME_NEW and RENAME_OLD
    fileq,    \* inodes queued for file_worker_init_fn, and the one in it
    dirq,     \* inodes queued for dir_worker_init_fn
    epoll,    \* how often a file is in the epoll set
    reader,   \* what each read worker does
    mgr,      \* the inode evict() is working on
    jset,     \* j_files_set of the running transaction
    jbuild,   \* inodes of the locked transaction still to be built
    up,       \* FALSE once the daemon has panicked
    reqs      \* requests the kernel has made

vars == <<fs, core, cached, pend, ren, fileq, dirq, epoll, reader, mgr, jset,
          jbuild, up, reqs>>

Kinds == {"reg", "dir"}
Flags == {"new", "evict", "deleted", "closing", "once", "worker", "active",
          "fd", "jtx"}
NoOp == [op |-> "none", name |-> 0, ino |-> 0, kind |-> "none", act |-> "none"]
NoRename == [ino |-> 0, dir |-> Root, name |-> 0, to |-> Root]
Idle == [at |-> "idle", ino |-> 0]

\* The parts of the state an operation threads through its calls.
State == [fs |-> fs, core |-> core, cached |-> cached, jset |-> jset,
          fileq |-> fileq.q, dirq |-> dirq]

\* Leave the parts of State as the operation s left them.
Becomes(s) ==
    /\ fs' = s.fs /\ core' = s.core /\ cached' = s.cached /\ jset' = s.jset
    /\ fileq' = [fileq EXCEPT !.q = s.fileq] /\ dirq' = s.dirq

GroupOf(i) == (i - 1) \div PerGroup
Bits(f, g) == {b \in 0 .. PerGroup - 1 : g * PerGroup + b + 1 \in f.used}
----------------------------------------------------------------------------
(* The inode allocator.                                                    *)

\* A search that does not start at a byte boundary answers its first bit
\* when any bit of the rest of that byte is clear.
FindClr(bits, start) ==
    LET aligned == Min({PerGroup, ((start + 7) \div 8) * 8})
        rest == (aligned .. PerGroup - 1) \ bits
    IN IF (start .. aligned - 1) \ bits # {} THEN start
       ELSE IF rest = {} THEN -1 ELSE Min(rest)

Dec(n) == IF n > 0 THEN n - 1 ELSE n

\* Scan one group: a candidate whose inode looks used is marked used.
RECURSIVE Scan(_, _, _)
Scan(f, g, start) ==
    LET b == FindClr(Bits(f, g), start)
        i == g * PerGroup + b + 1
    IN IF b < 0 THEN [ino |-> 0, fs |-> f]
       ELSE IF f.disk[i].links > 0 \/ f.disk[i].mode # "none"
       THEN Scan([f EXCEPT !.used = @ \cup {i}, !.bg[g] = Dec(@),
                           !.sb = Dec(@)], g, b + 1)
       ELSE [ino |-> i, fs |-> f]

\* Groups from the last used one to the end, then from the first one.
RECURSIVE Search(_, _)
Search(f, groups) ==
    IF groups = <<>> THEN [ino |-> 0, fs |-> f]
    ELSE LET g == Head(groups)
             r == Scan(f, g, 0)
         IN IF f.bg[g] = 0 THEN Search(f, Tail(groups))
            ELSE IF r.ino = 0 THEN Search(r.fs, Tail(groups))
            ELSE [ino |-> r.ino,
                  fs |-> [r.fs EXCEPT !.used = @ \cup {r.ino},
                                      !.bg[g] = @ - 1, !.sb = @ - 1,
                                      !.last = g]]

AllocBit(f) ==
    Search(f, [k \in 1 .. NGroups |-> (f.last + k - 1) % NGroups])

FreeBit(f, i) ==
    [f EXCEPT !.used = @ \ {i}, !.bg[GroupOf(i)] = @ + 1, !.sb = @ + 1]
----------------------------------------------------------------------------
(* The inode cache.                                                        *)

Take(s, i) == [s EXCEPT !.core[i].count = @ + 1]

\* ext4_iget: the cached inode, or one read from disk.
Iget(s, i) ==
    IF i \in s.cached /\ "new" \notin s.core[i].flags THEN Take(s, i)
    ELSE LET old == IF i \in s.cached THEN s.core[i]
                    ELSE [count |-> 0, flags |-> {}, nlink |-> 1,
                          mode |-> "none"]
         IN [s EXCEPT !.cached = @ \cup {i},
                      !.core[i] = [count |-> old.count + 1,
                                   flags |-> old.flags \ {"new"},
                                   nlink |-> s.fs.disk[i].links,
                                   mode |-> s.fs.disk[i].mode]]

\* Out of the hash; an inode without links goes back to the allocator.
IputFinal(s, i) ==
    LET t == [s EXCEPT !.cached = @ \ {i}]
    IN IF s.core[i].nlink = 0 THEN [t EXCEPT !.fs = FreeBit(@, i)] ELSE t

Iput(s, i) ==
    LET t == [s EXCEPT !.core[i].count = @ - 1]
    IN IF s.core[i].count = 1 /\ "evict" \notin s.core[i].flags
       THEN IputFinal([t EXCEPT !.core[i].flags = @ \cup {"evict"}], i)
       ELSE t

\* Mutant: the transaction takes no reference.
MarkDirtyUnheld(s, i) ==
    IF "jtx" \in s.core[i].flags THEN s
    ELSE [s EXCEPT !.core[i].flags = @ \cup {"jtx"}, !.jset = @ \cup {i}]

\* Into the running transaction's set, with a reference, unless flagged.
MarkDirty(s, i) ==
    IF "jtx" \in s.core[i].flags THEN s
    ELSE [Take(s, i) EXCEPT !.core[i].flags = @ \cup {"jtx"},
                            !.jset = @ \cup {i}]
----------------------------------------------------------------------------
(* Links on disk.                                                          *)

Empty == [n \in Names |-> 0]
Entry(s, d, n) == s.fs.ents[d][n]
IsDir(s, i) == s.fs.disk[i].mode = "dir"
HasChildren(s, i) == IsDir(s, i) /\ s.fs.ents[i] # Empty

LinksDec(f, i) ==
    LET least == IF f.disk[i].mode = "dir" THEN 2 ELSE 0
    IN [f EXCEPT !.disk[i].links = IF @ > least THEN @ - 1 ELSE @]

\* ext4_link with rename = false, as every caller has it.  how: "ok", "full"
\* when the parent has no room, "noindex" when the child's index has none.
Link(s, d, n, i, how) ==
    LET named == [s EXCEPT !.fs.ents[d][n] = i]
    IN IF how = "full" THEN s
       ELSE IF ~IsDir(s, i)
       THEN MarkDirty([named EXCEPT !.fs.disk[i].links = @ + 1], i)
       ELSE IF how = "noindex" THEN named
       ELSE MarkDirty(MarkDirty([named EXCEPT !.fs.ents[i] = Empty,
                                              !.fs.disk[i].links = 2,
                                              !.fs.disk[d].links = @ + 1],
                                i), d)

\* lwext4_unlink
Unlink(s, d, n) ==
    LET i == Entry(s, d, n)
        held == Iget(s, i)
        dir == IsDir(s, i)
        cut == [held.fs EXCEPT !.ents[d][n] = 0]
        links == LinksDec(IF dir THEN LinksDec(cut, d) ELSE cut, i)
        left == (held.core[i].nlink + NlinkMod - IF dir THEN 2 ELSE 1)
                % NlinkMod
        gone == [held EXCEPT !.fs = links, !.core[i].nlink = left,
                             !.core[d].nlink = IF dir THEN @ - 1 ELSE @]
        noted == MarkDirty(IF dir THEN MarkDirty(gone, d) ELSE gone, i)
    IN IF HasChildren(s, i) THEN [ok |-> FALSE, s |-> Iput(held, i)]
       ELSE [ok |-> TRUE,
             s |-> Iput(IF left >= 1 THEN noted
                        ELSE [noted EXCEPT !.core[i].flags =
                                                  @ \cup {"deleted"}], i)]
----------------------------------------------------------------------------
(* Directory requests.                                                     *)

\* A new worker, unless the file is going away or has had one.
RequestFileInit(s, i) ==
    IF s.core[i].flags \cap {"closing", "deleted", "evict"} # {}
       \/ "new" \in s.core[i].flags
    THEN Iput(s, i)
    ELSE IF "once" \in s.core[i].flags THEN s
    ELSE [s EXCEPT !.fileq = Append(@, i)]

RequestDirInit(s, i) ==
    IF {"worker", "fd"} \subseteq s.core[i].flags THEN s
    ELSE [s EXCEPT !.dirq = Append(@, i)]

RequestInit(s, i) ==
    IF s.core[i].mode = "dir" THEN RequestDirInit(s, i)
    ELSE RequestFileInit(s, i)

\* The end of a directory worker's round: a closing directory loses its fd.
Rearm(s, d) ==
    IF "closing" \in s.core[d].flags
    THEN [s EXCEPT !.core[d].flags = @ \ {"fd"}] ELSE s

\* Directories the kernel's locks keep other requests away from.
Locked == {d \in Inos : pend[d] # NoOp} \cup {pend[d].ino : d \in Inos}
          \cup (IF ren = NoRename THEN {} ELSE {ren.dir, ren.to})

\* The kernel has a new request for directory d, and d has a worker.
Request(d) ==
    /\ up /\ reqs < MaxReqs /\ d \notin Locked
    /\ d \in cached /\ core[d].mode = "dir"
    /\ "fd" \in core[d].flags /\ "deleted" \notin core[d].flags
    /\ reqs' = reqs + 1

\* kreq_create up to ext4_fs_alloc_inode_ox: a zeroed inode with its type on
\* disk, an in-core inode without its mode, in the running transaction.
CreateAlloc(d, n, kind) ==
    /\ Request(d) /\ Entry(State, d, n) = 0
    /\ \E s \in {MarkDirty(State, d)} : \E a \in {AllocBit(s.fs)} :
        LET i == a.ino
            found == i # 0 /\ i \notin cached
            undone == IF i = 0 THEN a.fs ELSE FreeBit(a.fs, i)
            fresh == [count |-> 1, flags |-> {"new"}, nlink |-> 1,
                      mode |-> "none"]
            taken == [a.fs EXCEPT !.disk[i] = [mode |-> kind, links |-> 0]]
        IN /\ Becomes(IF ~found THEN Rearm([s EXCEPT !.fs = undone], d)
                      ELSE MarkDirty([s EXCEPT !.fs = taken,
                                               !.cached = @ \cup {i},
                                               !.core[i] = fresh], i))
           /\ pend' = [pend EXCEPT ![d] =
                         IF ~found THEN NoOp
                         ELSE [op |-> "create", name |-> n, ino |-> i,
                               kind |-> kind, act |-> "none"]]
    /\ UNCHANGED <<ren, epoll, reader, mgr, jbuild, up>>

\* The rest of kreq_create: link, set the in-core inode, start its worker.
CreateLink(d, how) ==
    LET i == pend[d].ino
        n == pend[d].name
        kind == pend[d].kind
        s == Link(State, d, n, i, how)
        made == MarkDirty(MarkDirty(
                    [s EXCEPT !.core[i].nlink = IF kind = "dir" THEN 2 ELSE 1,
                              !.core[i].mode = kind,
                              !.core[i].flags = @ \ {"new"},
                              !.core[d].nlink = IF kind = "dir" THEN @ + 1
                                                ELSE @], i), d)
    IN /\ up /\ pend[d].op = "create"
       /\ kind = "reg" => how # "noindex"
       /\ Becomes(Rearm(IF how # "ok" \/ s.fs.sb = 0 THEN Iput(s, i)
                        ELSE RequestInit(made, i), d))
       /\ pend' = [pend EXCEPT ![d] = NoOp]
       /\ UNCHANGED <<ren, epoll, reader, mgr, jbuild, up, reqs>>

\* kreq_lookup of a name that is there.
Lookup(d, n) ==
    LET i == Entry(State, d, n)
    IN /\ Request(d) /\ i # 0 /\ i \notin Locked
       /\ \E s \in {Iget(State, i)} : Becomes(Rearm(RequestInit(s, i), d))
       /\ UNCHANGED <<pend, ren, epoll, reader, mgr, jbuild, up>>

\* kreq_unlink: look the target up, then mark its worker closing.
UnlinkStart(d, n) ==
    LET i == Entry(State, d, n)
    IN /\ Request(d) /\ i # 0 /\ i \notin Locked
       /\ \E s \in {MarkDirty(Iget(State, i), d)} :
            /\ Becomes([s EXCEPT !.core[i].flags = @ \cup {"closing"}])
            /\ pend' = [pend EXCEPT ![d] = [op |-> "unlink", name |-> n,
                 ino |-> i, kind |-> s.core[i].mode,
                 act |-> IF "closing" \in s.core[i].flags THEN "skip"
                         ELSE IF "active" \in s.core[i].flags THEN "defer"
                         ELSE "exit"]]
       /\ UNCHANGED <<ren, epoll, reader, mgr, jbuild, up>>

ExitFileWorker(s, i) ==
    Iput([s EXCEPT !.core[i].flags = @ \ {"worker"}], i)

\* The rest of the deregistration, then lwext4_unlink and the reply.
UnlinkEnd(d) ==
    LET i == pend[d].ino
        act == pend[d].act
        dir == pend[d].kind = "dir"
        off == IF act = "skip" THEN State
               ELSE IF dir
               THEN [State EXCEPT !.core[i].flags = @ \ {"worker", "fd"}]
               ELSE IF act = "defer" THEN State ELSE ExitFileWorker(State, i)
    IN /\ up /\ pend[d].op = "unlink"
       /\ epoll' = [epoll EXCEPT ![i] = IF dir \/ act = "skip" THEN @
                                         ELSE Dec(@)]
       /\ \E s \in {off} : Becomes(Rearm(Unlink(s, d, pend[d].name).s, d))
       /\ pend' = [pend EXCEPT ![d] = NoOp]
       /\ UNCHANGED <<ren, reader, mgr, jbuild, up, reqs>>

\* Everything below directory i.
RECURSIVE Below(_)
Below(i) == UNION {{fs.ents[i][n]} \cup Below(fs.ents[i][n]) :
                       n \in {m \in Names : fs.ents[i][m] # 0}}

\* The kernel moves name n of d to name m of e: RENAME_NEW for e.
RenameNew(e, m) ==
    /\ Request(e) /\ ren = NoRename
    /\ \E d \in Inos, n \in Names, how \in {"ok", "full"} :
        LET i == Entry(State, d, n)
            old == Entry(State, e, m)
            asked == MarkDirty(State, e)
            cut == IF old = 0 THEN [ok |-> TRUE, s |-> asked]
                   ELSE Unlink(asked, e, m)
            held == Iget(cut.s, i)
            linked == Link(held, e, m, i, how)
            moved == [linked EXCEPT !.core[e].nlink =
                         IF held.core[i].mode = "dir" THEN @ + 1 ELSE @]
        IN /\ i \notin {0, old} /\ i \in cached /\ d \notin Locked /\ i \notin Locked
           /\ e \notin Below(i) \cup {i}
           /\ old # 0 => /\ old \notin Locked \cup {d}
                        /\ IsDir(State, i) = IsDir(State, old)
           /\ Becomes(Rearm(IF cut.ok THEN MarkDirty(moved, e) ELSE cut.s, e))
           /\ ren' = IF cut.ok
                     THEN [ino |-> i, dir |-> d, name |-> n, to |-> e] ELSE ren
    /\ UNCHANGED <<pend, epoll, reader, mgr, jbuild, up>>

\* RENAME_OLD for the directory the file leaves.
RenameOld ==
    LET i == ren.ino
        d == ren.dir
        held == Iget(MarkDirty(State, d), i)
        dir == held.core[i].mode = "dir"
        cut == [held EXCEPT !.fs.ents[d][ren.name] = 0,
                            !.core[d].nlink = IF dir THEN @ - 1 ELSE @]
    IN /\ up /\ ren # NoRename /\ "fd" \in core[d].flags
       /\ Becomes(Rearm(IF Entry(State, d, ren.name) # i
                        THEN MarkDirty(State, d)
                        ELSE IF dir THEN MarkDirty(cut, d) ELSE cut, d))
       /\ ren' = NoRename
       /\ UNCHANGED <<pend, epoll, reader, mgr, jbuild, up, reqs>>
----------------------------------------------------------------------------
(* Workers.                                                                *)

\* file_worker_init_fn: skip a file that is going away.
FileInitCheck ==
    /\ up /\ fileq.q # <<>> /\ fileq.at = 0
    /\ fileq' = [q |-> Tail(fileq.q),
                 at |-> IF core[Head(fileq.q)].flags
                           \cap {"closing", "deleted", "evict"} # {}
                        THEN 0 ELSE Head(fileq.q)]
    /\ UNCHANGED <<fs, core, cached, pend, ren, dirq, epoll, reader, mgr,
                   jset, jbuild, up, reqs>>

\* init_file and file_dispatcher_register: a reference for the epoll set.
FileInitRegister ==
    LET i == fileq.at
    IN /\ up /\ i # 0
       /\ core' = [core EXCEPT ![i].flags = @ \cup {"once", "worker"},
                               ![i].count = @ + 1]
       /\ epoll' = [epoll EXCEPT ![i] = @ + 1]
       /\ fileq' = [fileq EXCEPT !.at = 0]
       /\ UNCHANGED <<fs, cached, pend, ren, dirq, reader, mgr, jset, jbuild,
                      up, reqs>>

\* dir_worker_init_fn
DirInit ==
    LET i == Head(dirq)
    IN /\ up /\ dirq # <<>>
       /\ core' = [core EXCEPT ![i].flags = @ \cup {"fd", "worker"},
                               ![i].count = @ + 1]
       /\ dirq' = Tail(dirq)
       /\ UNCHANGED <<fs, cached, pend, ren, fileq, epoll, reader, mgr, jset,
                      jbuild, up, reqs>>

\* epoll_wait hands a read message of file i to worker w.
Fetch(w, i) ==
    /\ up /\ reader[w] = Idle /\ epoll[i] > 0
    /\ reader' = [reader EXCEPT ![w] = [at |-> "got", ino |-> i]]
    /\ UNCHANGED <<fs, core, cached, pend, ren, fileq, dirq, epoll, mgr, jset,
                   jbuild, up, reqs>>

\* process_inode_events: mark the inode active and drain its messages.
Drain(w) ==
    /\ up /\ reader[w].at = "got"
    /\ core' = [core EXCEPT ![reader[w].ino].flags = @ \cup {"active"}]
    /\ reader' = [reader EXCEPT ![w].at = "drained"]
    /\ UNCHANGED <<fs, cached, pend, ren, fileq, dirq, epoll, mgr, jset,
                   jbuild, up, reqs>>

\* Test and clear I_CLOSING, clear I_IO_ACTIVE.
Finish(w) ==
    LET i == reader[w].ino
        closing == "closing" \in core[i].flags
    IN /\ up /\ reader[w].at = "drained"
       /\ core' = [core EXCEPT ![i].flags = @ \ {"closing", "active"}]
       /\ reader' = [reader EXCEPT ![w] =
                        IF closing THEN [at |-> "close", ino |-> i] ELSE Idle]
       /\ UNCHANGED <<fs, cached, pend, ren, fileq, dirq, epoll, mgr, jset,
                      jbuild, up, reqs>>

\* The close the deregistration left to this worker.
Close(w) ==
    LET i == reader[w].ino
    IN /\ up /\ reader[w].at = "close"
       /\ epoll' = [epoll EXCEPT ![i] = Dec(@)]
       /\ Becomes(ExitFileWorker(State, i))
       /\ reader' = [reader EXCEPT ![w] = Idle]
       /\ UNCHANGED <<pend, ren, mgr, jbuild, up, reqs>>

\* The kernel evicts inode i: ihold finds it and drops the reference again.
EvictHold(i) ==
    /\ up /\ mgr = 0 /\ reqs < MaxReqs /\ i \in cached \ {Root}
    /\ "new" \notin core[i].flags /\ i \notin Locked
    /\ Becomes(Iput(Take(State, i), i))
    /\ mgr' = i
    /\ reqs' = reqs + 1
    /\ UNCHANGED <<pend, ren, epoll, reader, jbuild, up>>

\* evict takes its reference and puts it.
EvictPut ==
    /\ up /\ mgr # 0
    /\ Becomes(Iput(Take(State, mgr), mgr))
    /\ mgr' = 0
    /\ UNCHANGED <<pend, ren, epoll, reader, jbuild, up, reqs>>
----------------------------------------------------------------------------
(* The commit thread.                                                      *)

\* build_transaction takes the running transaction's set.
CommitStart ==
    /\ up /\ jbuild = {} /\ jset # {}
    /\ jbuild' = jset /\ jset' = {}
    /\ UNCHANGED <<fs, core, cached, pend, ren, fileq, dirq, epoll, reader,
                   mgr, up, reqs>>

\* build_jtx_regular_file: a deleted file, or one without a worker, is put
\* and passed over; one that is built is put and loses its flag.
BuildFile(s, i) ==
    IF "deleted" \in s.core[i].flags \/ "worker" \notin s.core[i].flags
    THEN Iput(s, i)
    ELSE Iput([s EXCEPT !.core[i].flags = IF i \in s.jset THEN @
                                          ELSE @ \ {"jtx"}], i)

\* build_jtx_directory: under the directory's lock; the reference stays.
BuildDir(s, i) ==
    IF "deleted" \in s.core[i].flags THEN Iput(s, i)
    ELSE [s EXCEPT !.core[i].flags = @ \ {"jtx"}]

\* build_tx_from_file for one inode of the transaction.
Build(i) ==
    LET mode == core[i].mode
    IN /\ up /\ i \in jbuild
       /\ mode = "dir" /\ "deleted" \notin core[i].flags => pend[i] = NoOp
       /\ Becomes(IF mode = "reg" THEN BuildFile(State, i)
                  ELSE IF mode = "dir" THEN BuildDir(State, i) ELSE State)
       /\ up' = (mode \in Kinds)
       /\ jbuild' = jbuild \ {i}
       /\ UNCHANGED <<pend, ren, epoll, reader, mgr, reqs>>
----------------------------------------------------------------------------
Init ==
    /\ fs = [used |-> {Root},
             bg |-> [g \in Groups |-> IF g = GroupOf(Root) THEN PerGroup - 1
                                      ELSE PerGroup],
             sb |-> PerGroup * NGroups - 1, last |-> 0,
             disk |-> [i \in Inos |->
                          IF i = Root THEN [mode |-> "dir", links |-> 2]
                          ELSE [mode |-> IF i \in Stale THEN "reg" ELSE "none",
                                links |-> 0]],
             ents |-> [i \in Inos |-> Empty]]
    /\ core = [i \in Inos |->
                  IF i = Root
                  THEN [count |-> 2, flags |-> {"worker", "fd"}, nlink |-> 2,
                        mode |-> "dir"]
                  ELSE [count |-> 0, flags |-> {}, nlink |-> 1,
                        mode |-> "none"]]
    /\ cached = {Root}
    /\ pend = [d \in Inos |-> NoOp] /\ ren = NoRename
    /\ fileq = [q |-> <<>>, at |-> 0] /\ dirq = <<>>
    /\ epoll = [i \in Inos |-> 0] /\ reader = [w \in Readers |-> Idle]
    /\ mgr = 0 /\ jset = {} /\ jbuild = {} /\ up = TRUE /\ reqs = 0

Next ==
    \/ \E d \in Inos, n \in Names :
        \/ \E kind \in Kinds : CreateAlloc(d, n, kind)
        \/ Lookup(d, n)
        \/ UnlinkStart(d, n)
        \/ RenameNew(d, n)
    \/ \E d \in Inos :
        \/ \E how \in {"ok", "full", "noindex"} : CreateLink(d, how)
        \/ UnlinkEnd(d)
        \/ EvictHold(d)
        \/ Build(d)
    \/ RenameOld \/ FileInitCheck \/ FileInitRegister \/ DirInit
    \/ EvictPut \/ CommitStart
    \/ \E w \in Readers :
        \/ \E i \in Inos : Fetch(w, i)
        \/ Drain(w) \/ Finish(w) \/ Close(w)

Spec == Init /\ [][Next]_vars
----------------------------------------------------------------------------
\* Counts and links stay in their ranges and no reference count goes below 0.
TypeOK ==
    /\ fs.used \subseteq Inos /\ fs.sb \in 0 .. PerGroup * NGroups
    /\ fs.bg \in [Groups -> 0 .. PerGroup] /\ fs.last \in Groups
    /\ fs.disk \in [Inos -> [mode : Kinds \cup {"none"}, links : Nat]]
    /\ fs.ents \in [Inos -> [Names -> Inos \cup {0}]]
    /\ \A i \in Inos : /\ core[i].count \in Nat
                       /\ core[i].flags \subseteq Flags
                       /\ core[i].nlink \in 0 .. NlinkMod - 1
                       /\ core[i].mode \in Kinds \cup {"none"}
    /\ epoll \in [Inos -> Nat] /\ up \in BOOLEAN /\ reqs \in 0 .. MaxReqs

\* Every inode some thread or queue has a pointer to.
InUse ==
    {pend[d].ino : d \in Inos} \cup {ren.ino, mgr, fileq.at}
    \cup Range(fileq.q) \cup Range(dirq) \cup {reader[w].ino : w \in Readers}
    \cup jset \cup jbuild \cup {i \in Inos : epoll[i] > 0}

\* No inode is destroyed while a request, a queue, the epoll set, a read
\* worker, the manager or a transaction still points to it, whichever of
\* them drops its reference first.
HeldWhileUsed == InUse \ {0} \subseteq cached

\* Every entry names an allocated inode, and outside a rename no inode has
\* two names.
EntriesLive ==
    \A d \in Inos, n \in Names :
        LET i == fs.ents[d][n]
        IN i # 0 =>
             /\ i \in fs.used /\ fs.disk[i].mode # "none"
             /\ \A e \in Inos, m \in Names :
                    fs.ents[e][m] = i => <<d, n>> = <<e, m>> \/ ren.ino = i

\* The free counts of the groups and of the super block are those of the
\* bitmap, through allocation, healing and rollback.
CountsAgree ==
    /\ \A g \in Groups : fs.bg[g] = PerGroup - Cardinality(Bits(fs, g))
    /\ fs.sb = Cardinality(Inos \ fs.used)

\* An inode flagged as being in the journal's list, which later changes of
\* it take as a reason not to add it, is in a transaction that is running or
\* being built.
FlagMeansListed ==
    up => \A i \in cached :
             "jtx" \in core[i].flags => i \in jset \cup jbuild

\* The commit thread never meets an inode of no known type.
NoPanic == up
============================================================================
