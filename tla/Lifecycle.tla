------------------------------- MODULE Lifecycle -------------------------------
(***************************************************************************)
(* Start and shutdown of the Secure Daemon beside a starting DevFS.        *)
(*                                                                         *)
(* start_secure_daemon() brings one part up after another.  Every step may *)
(* fail and then falls into the exit calls from its label on.  After       *)
(* SIGINT all exit calls run.  Meanwhile the threads the steps created     *)
(* work: the read workers, which share one epoll instance and one eventfd, *)
(* the manager thread, and the journal worker, which sends its             *)
(* transactions to DevFS.                                                  *)
(*                                                                         *)
(* A part is known by its name; what it allocates, and what a failed step  *)
(* leaves behind, is not modelled.                                         *)
(***************************************************************************)
EXTENDS Integers, FiniteSets, Sequences

CONSTANTS Readers,      \* the read workers, 1..n
          MaxEvents,    \* bound: kernel messages for files, and for the manager
          Off           \* the value of a variable of a part that is not checked

VARIABLES
    pc,       \* next step of start_secure_daemon()
    up,       \* parts of the Secure Daemon that are up
    bg,       \* g_sd_conf.bg_journaling
    dpc,      \* next step of start_devfs()
    dup,      \* parts of DevFS that are up
    jw,       \* the journal worker
    rd,       \* the read workers
    next,     \* the read worker that start_ or stop_read_workers() is at
    stop,     \* g_read_worker_stop
    efd,      \* the counter of g_file_eventfd is not zero
    events,   \* files with kernel messages, and how many may still come
    mgr       \* the manager thread, manager_is_working and its messages

devfs == <<dpc, dup>>
threads == <<jw, rd, efd, events, mgr>>
main == <<pc, up, bg, next, stop>>
vars == <<main, devfs, threads>>

DevfsParts == {"engine", "fetcher", "pools", "sb", "rpc"}
Parts == {"secure", "iod", "server", "client", "async", "shm", "dirty", "super", "fetch",
          "fs", "mount", "manager", "epoll", "root"}
NReaders == Cardinality(Readers)

Init ==
    /\ pc = "mounted" /\ up = {} /\ bg \in BOOLEAN
    /\ dpc = "engine" /\ dup = {}
    /\ jw = "off"
    /\ rd = [r \in Readers |-> "off"]
    /\ next = 1 /\ stop = FALSE /\ efd = FALSE
    /\ events = [left |-> MaxEvents, queued |-> 0]
    /\ mgr = [at |-> "off", working |-> FALSE, left |-> MaxEvents, queued |-> 0]

-----------------------------------------------------------------------------
(* DevFS *)

DevStep(from, to) ==
    /\ dpc = from
    /\ \/ dpc' = to /\ dup' = dup \cup {from}
       \/ dpc' = "failed" /\ UNCHANGED dup
    /\ UNCHANGED <<main, threads>>

(* start_devfs(): init_journal() in its parts, then init_msg().  The RPC   *)
(* handlers run on the workers of the storage engine.                      *)
DevOrder == <<"engine", "fetcher", "pools", "sb", "rpc", "run">>

AfterDev(step) == DevOrder[(CHOOSE i \in 1 .. 5 : DevOrder[i] = step) + 1]

DevEngine == DevStep("engine", AfterDev("engine"))
DevFetcher == DevStep("fetcher", AfterDev("fetcher"))
DevPools == DevStep("pools", AfterDev("pools"))
DevSuper == DevStep("sb", AfterDev("sb"))
DevRpc == DevStep("rpc", AfterDev("rpc"))

-----------------------------------------------------------------------------
(* Start of the Secure Daemon *)

(* The label that the failure of a step goes to. *)
FailTo(step) ==
    CASE step = "secure" -> "end"
      [] step = "iod" -> "x_secure"
      [] step \in {"server", "client"} -> "x_iod"
      [] step = "shm" -> "x_msg"
      [] step = "dirty" -> "x_dirty"
      [] step \in {"super", "fetch", "fs", "manager", "epoll", "readers"} -> "x_shm"
      [] step = "mount" -> "x_sync"

Step(from, can, to) ==
    /\ pc = from
    /\ \/ can /\ pc' = to /\ up' = up \cup {from}
       \/ pc' = FailTo(from) /\ UNCHANGED up
    /\ UNCHANGED <<bg, next, stop, devfs, threads>>

(* /oxbow is still mounted, or /proc/mounts cannot be read. *)
IsOxbowMounted ==
    /\ pc = "mounted"
    /\ pc' \in {"secure", "end"}
    /\ UNCHANGED <<up, bg, next, stop, devfs, threads>>

InitSecureDaemon == Step("secure", TRUE, "iod")
InitIoDispatcher == Step("iod", TRUE, "server")
InitRpcServer == Step("server", TRUE, IF bg THEN "client" ELSE "async")

(* The connection needs a listening DevFS. *)
InitRpcClient == Step("client", "rpc" \in dup, "async")

(* init_msg() does not look at the thread pool it gets last. *)
InitMsg ==
    /\ pc = "async"
    /\ pc' = "shm" /\ up' = up \cup {"async"}
    /\ UNCHANGED <<bg, next, stop, devfs, threads>>

InitShmSystem == Step("shm", TRUE, "dirty")

(* init_filesystem() *)
AfterSuper(step) ==
    CASE step = "super" -> IF bg THEN "fetch" ELSE "fs"
      [] step = "fetch" -> "fs"
      [] step = "fs" -> "mount"

InitDirtyMgmt == Step("dirty", TRUE, "super")
InitSuper == Step("super", TRUE, AfterSuper("super"))
InitDataFetcher == Step("fetch", "fetcher" \in dup, AfterSuper("fetch"))

(* ext4_fill_super() starts the journal worker; getting the root inode may *)
(* fail after that.                                                        *)
InitFs ==
    /\ pc = "fs"
    /\ \/ /\ pc' = AfterSuper("fs") /\ up' = up \cup {"fs"}
          /\ jw' = IF bg THEN "build" ELSE "off"
       \/ /\ pc' = FailTo("fs") /\ UNCHANGED up
          /\ jw' \in IF bg THEN {"off", "build"} ELSE {"off"}
    /\ UNCHANGED <<bg, next, stop, devfs, rd, efd, events, mgr>>

Mount == Step("mount", TRUE, "manager")

InitFsManager ==
    /\ pc = "manager"
    /\ \/ /\ pc' = "epoll" /\ up' = up \cup {"manager"}
          /\ mgr' = [mgr EXCEPT !.at = "poll"]
       \/ pc' = FailTo("manager") /\ UNCHANGED <<up, mgr>>
    /\ UNCHANGED <<bg, next, stop, devfs, jw, rd, efd, events>>

FileDispatcherInit == Step("epoll", TRUE, "readers")

NextReader(r) == IF r = NReaders THEN 1 ELSE r + 1

StartReadWorkers ==
    /\ pc = "readers"
    /\ \/ /\ rd' = [rd EXCEPT ![next] = "check"]
          /\ next' = NextReader(next)
          /\ pc' = IF next = NReaders THEN "root" ELSE "readers"
       \/ pc' = FailTo("readers") /\ UNCHANGED <<rd, next>>
    /\ UNCHANGED <<up, bg, stop, devfs, jw, efd, events, mgr>>

InitRootWorker ==
    /\ pc = "root"
    /\ pc' = "run" /\ up' = up \cup {"root"}
    /\ UNCHANGED <<bg, next, stop, devfs, threads>>

-----------------------------------------------------------------------------
(* The threads of a running daemon *)

KernelFileMsg ==
    /\ "root" \in up /\ events.left > 0
    /\ events' = [left |-> events.left - 1, queued |-> events.queued + 1]
    /\ UNCHANGED <<main, devfs, jw, rd, efd, mgr>>

(* Only an initialised daemon gets messages about evicted inodes. *)
KernelEvict ==
    /\ "manager" \in up /\ mgr.left > 0
    /\ mgr' = [mgr EXCEPT !.left = @ - 1, !.queued = @ + 1]
    /\ UNCHANGED <<main, devfs, jw, rd, efd, events>>

(* read_worker_loop(): the stop flag is read before the wait. *)
ReaderCheck(r) ==
    /\ rd[r] = "check"
    /\ rd' = [rd EXCEPT ![r] = IF stop THEN "exited" ELSE "wait"]
    /\ UNCHANGED <<main, devfs, jw, efd, events, mgr>>

(* epoll_wait() returns a file, or the eventfd, which is level-triggered   *)
(* and so returned to every waiter until it is read.                       *)
ReaderWake(r) ==
    /\ rd[r] = "wait"
    /\ \/ /\ events.queued > 0
          /\ events' = [events EXCEPT !.queued = @ - 1]
          /\ rd' = [rd EXCEPT ![r] = "work"]
       \/ /\ efd
          /\ rd' = [rd EXCEPT ![r] = "drain"]
          /\ UNCHANGED events
    /\ UNCHANGED <<main, devfs, jw, efd, mgr>>

(* The read takes the whole counter, whoever it was written for. *)
ReaderDrain(r) ==
    /\ rd[r] = "drain"
    /\ efd' = FALSE
    /\ rd' = [rd EXCEPT ![r] = "check"]
    /\ UNCHANGED <<main, devfs, jw, events, mgr>>

ReaderWork(r) ==
    /\ rd[r] = "work"
    /\ rd' = [rd EXCEPT ![r] = "check"]
    /\ UNCHANGED <<main, devfs, jw, efd, events, mgr>>

(* oxbow_fs_manager(): a poll that finds nothing clears the flag and waits *)
(* for the next message.                                                   *)
ManagerPoll ==
    /\ mgr.at = "poll"
    /\ mgr' = IF mgr.queued > 0 THEN [mgr EXCEPT !.at = "found"]
                                ELSE [mgr EXCEPT !.at = "wait", !.working = FALSE]
    /\ UNCHANGED <<main, devfs, jw, rd, efd, events>>

ManagerWake ==
    /\ mgr.at = "wait" /\ mgr.queued > 0
    /\ mgr' = [mgr EXCEPT !.at = "found"]
    /\ UNCHANGED <<main, devfs, jw, rd, efd, events>>

ManagerFound ==
    /\ mgr.at = "found"
    /\ mgr' = [mgr EXCEPT !.at = "evict", !.working = TRUE]
    /\ UNCHANGED <<main, devfs, jw, rd, efd, events>>

(* The descriptor is closed once exit_manager() is done: the read fails    *)
(* and the thread ends.                                                    *)
ManagerEvict ==
    /\ mgr.at = "evict"
    /\ mgr' = IF "manager" \in up THEN [mgr EXCEPT !.at = "poll", !.queued = @ - 1]
                                  ELSE [mgr EXCEPT !.at = "exited"]
    /\ UNCHANGED <<main, devfs, jw, rd, efd, events>>

(* journal_worker(): a transaction is built and sent to DevFS, or there is *)
(* nothing to commit; then schedule_bg_commit() waits.                     *)
JournalBuild ==
    /\ jw = "build" /\ pc # "end"
    /\ jw' \in {"commit", "sleep"}
    /\ UNCHANGED <<main, devfs, rd, efd, events, mgr>>

JournalCommit ==
    /\ jw = "commit" /\ pc # "end"
    /\ jw' = "sleep"
    /\ UNCHANGED <<main, devfs, rd, efd, events, mgr>>

JournalWake ==
    /\ jw = "sleep" /\ pc # "end"
    /\ jw' = "build"
    /\ UNCHANGED <<main, devfs, rd, efd, events, mgr>>

-----------------------------------------------------------------------------
(* Shutdown *)

Exit(from, parts, to) ==
    /\ pc = from
    /\ pc' = to /\ up' = up \ parts
    /\ UNCHANGED <<bg, next, stop, devfs, threads>>

Sigint == Exit("run", {}, "x_manager")

ExitManager == ~mgr.working /\ Exit("x_manager", {"manager"}, "x_stop")

(* stop_read_workers() *)
StopReadWorkers ==
    /\ pc = "x_stop"
    /\ stop' = TRUE
    /\ pc' = "x_poke"
    /\ UNCHANGED <<up, bg, next, devfs, threads>>

PokeReader ==
    /\ pc = "x_poke"
    /\ efd' = TRUE
    /\ pc' = "x_join"
    /\ UNCHANGED <<up, bg, next, stop, devfs, jw, rd, events, mgr>>

(* Mutants: the eventfd is written once for a reader; a busy reader is     *)
(* taken for a joined one.                                                 *)
RetryOnce == "x_join"
JoinedBusy(r) == rd[r] # "wait"

(* Before every further try the eventfd is written again. *)
Retry == "x_poke"

(* pthread_tryjoin_np() *)
Joined(r) == rd[r] = "exited"

JoinReader ==
    /\ pc = "x_join"
    /\ IF Joined(next)
         THEN /\ next' = NextReader(next)
              /\ pc' = IF next = NReaders THEN "x_sync" ELSE "x_poke"
         ELSE pc' = Retry /\ UNCHANGED next
    /\ UNCHANGED <<up, bg, stop, devfs, threads>>

(* exit_filesystem(): sync_fs() and, with journaling on, the commit that   *)
(* is not implemented; then buffers, inodes and the inode table are freed. *)
SyncFs == Exit("x_sync", {}, "x_free")
FreeFs == Exit("x_free", {"super", "fs", "fetch"}, "x_shm")

ExitShmSystem == Exit("x_shm", {"shm"}, "x_dirty")

ExitDirtyMgmt == Exit("x_dirty", {"dirty"}, "x_msg")

(* exit_rpc() destroys the io workers, on which LibFS's messages run, and  *)
(* the workers for the answers of DevFS.  Without background journaling    *)
(* the second pool was never created, and thpool_wait() gets NULL.         *)
ExitMsg == Exit("x_msg", {"server", "client", "async", "iod"}, IF bg THEN "x_iod" ELSE "crashed")
ExitIoDispatcher == Exit("x_iod", {}, "x_secure")
ExitSecureDaemon == Exit("x_secure", {"secure"}, "end")

-----------------------------------------------------------------------------
DevNext == DevEngine \/ DevFetcher \/ DevPools \/ DevSuper \/ DevRpc

Start ==
    \/ IsOxbowMounted \/ InitSecureDaemon \/ InitIoDispatcher \/ InitRpcServer
    \/ InitRpcClient \/ InitMsg \/ InitShmSystem \/ InitDirtyMgmt \/ InitSuper
    \/ InitDataFetcher \/ InitFs \/ Mount \/ InitFsManager \/ FileDispatcherInit
    \/ StartReadWorkers \/ InitRootWorker

Shutdown ==
    \/ ExitManager \/ StopReadWorkers \/ PokeReader \/ JoinReader \/ SyncFs \/ FreeFs
    \/ ExitShmSystem \/ ExitDirtyMgmt \/ ExitMsg \/ ExitIoDispatcher \/ ExitSecureDaemon

Reader(r) == ReaderCheck(r) \/ ReaderWake(r) \/ ReaderDrain(r) \/ ReaderWork(r)
Manager == ManagerPoll \/ ManagerWake \/ ManagerFound \/ ManagerEvict
Journal == JournalBuild \/ JournalCommit \/ JournalWake

Next ==
    \/ DevNext \/ Start \/ KernelFileMsg \/ KernelEvict \/ Sigint \/ Shutdown
    \/ Manager \/ Journal \/ \E r \in Readers : Reader(r)

(* Every thread that can go on does, the main thread's calls included.     *)
(* Nothing forces SIGINT, a kernel message or the start of DevFS.          *)
Fairness ==
    /\ WF_vars(Shutdown)
    /\ WF_vars(Manager)
    /\ \A r \in Readers : WF_vars(Reader(r))

Spec == Init /\ [][Next]_vars /\ Fairness

-----------------------------------------------------------------------------
(* The daemon is at the exit calls of start_secure_daemon(). *)
Exiting == pc \in {"x_manager", "x_stop", "x_poke", "x_join", "x_sync", "x_free", "x_shm",
                   "x_dirty", "x_msg", "x_iod", "x_secure", "crashed", "end"}

(* Every step, thread and counter has its type. *)
TypeOK ==
    /\ Exiting \/ pc \in Parts \cup {"mounted", "readers", "run"}
    /\ up \subseteq Parts /\ bg \in BOOLEAN
    /\ dpc \in DevfsParts \cup {"run", "failed"} /\ dup \subseteq DevfsParts
    /\ jw \in {"off", "build", "commit", "sleep"}
    /\ rd \in [Readers -> {"off", "check", "wait", "drain", "work", "exited"}]
    /\ next \in Readers /\ stop \in BOOLEAN /\ efd \in BOOLEAN
    /\ events \in [left : 0 .. MaxEvents, queued : 0 .. MaxEvents]
    /\ mgr \in [at : {"off", "poll", "wait", "found", "evict", "exited"},
                working : BOOLEAN, left : 0 .. MaxEvents, queued : 0 .. MaxEvents]

(* exit_filesystem() frees the inodes only when no read worker runs any    *)
(* more, on the way down from a signal as on the failure paths of the      *)
(* start: a read worker has pointers to inodes in its epoll events.        *)
ReadersNeedInodes == \A r \in Readers : rd[r] \notin {"off", "exited"} => "fs" \in up

(* Until the daemon exits, the journal worker finds both channels to DevFS *)
(* connected, and the DevFS behind them has its workers, its fetchers and  *)
(* its journal loaded: a transaction never meets a half-started DevFS.     *)
JournalReady ==
    jw # "off" /\ ~Exiting => {"client", "fetch"} \subseteq up /\ DevfsParts \subseteq dup

(* stop_read_workers() ends: the shared eventfd is drained by any reader   *)
(* for all, and still every reader sees the stop flag, whatever messages   *)
(* it works on when SIGINT comes; and the whole shutdown comes to its end. *)
ShutdownEnds == pc = "x_manager" ~> pc \in {"end", "crashed"}
===============================================================================
