-------------------------------- MODULE Shim --------------------------------
(***************************************************************************)
(* The system-call shim in front of LibFS (shim/shim.c): which intercepted *)
(* calls LibFS takes over, with which descriptor, and what the program     *)
(* gets back.  A call on a path goes to LibFS when the collapsed path has  *)
(* the Oxbow prefix; a call on a descriptor goes to LibFS when the number  *)
(* is g_fd_start or above, and with g_fd_start taken off.                  *)
(*                                                                         *)
(* A path is the sequence of its components: "" stands for an extra        *)
(* slash, "ox" for the mount point, "ob" for a name that agrees with it in *)
(* its first letters, anything else for another name.                      *)
(***************************************************************************)
EXTENDS Integers, Sequences

CONSTANTS FdStart,     \* g_fd_start
          KernelFds,   \* descriptors the kernel gives
          Components,  \* names used in paths
          MaxDepth     \* bound: components of a path

VARIABLES call, route
shimVars == <<call, route>>

Cwd == -100    \* AT_FDCWD
ToKernel == [to |-> "kernel"]
ToLibFS(fn, fd) == [to |-> "libfs", fn |-> fn, fd |-> fd]

-----------------------------------------------------------------------------
(* Paths. *)

\* collapse_name copies component by component.  A "." or an empty one is left
\* out, a ".." takes the last one back (n are left), then the leading slash
\* (root), and after that ends the copy with an error nobody looks at.  The
\* component after the leading slash is copied as it is, and so is the last one.
\* The result is the component the buffer starts with, "bare" without a slash.
First(root, name) == IF root THEN name ELSE "bare"

RECURSIVE Collapse(_, _, _, _)
Collapse(n, root, first, rest) ==
    LET copied == IF n = 0 THEN First(root, rest[1]) ELSE first IN
    IF Len(rest) = 1 THEN copied
    ELSE IF rest[1] \in {"", "."} THEN Collapse(n, root, first, Tail(rest))
    ELSE IF rest[1] # ".." THEN Collapse(n + 1, root, copied, Tail(rest))
    ELSE IF n > 0 THEN Collapse(n - 1, root, first, Tail(rest))
    ELSE IF root THEN Collapse(0, FALSE, first, Tail(rest))
    ELSE first
CollapseName(path) ==
    IF Len(path) = 1 THEN path[1] ELSE Collapse(1, TRUE, path[1], Tail(path))

\* Five characters are compared, of the six the prefix has.
HasPrefix(first) == first \in {"ox", "ob"}

CheckPrefix(path) == HasPrefix(CollapseName(path))

-----------------------------------------------------------------------------
(* Descriptors. *)

ValidFd(fd) == fd >= FdStart
GetOxbowFd(fd) == IF fd >= FdStart THEN fd - FdStart ELSE fd

ByPath(c, fn) == IF CheckPrefix(c.path) THEN ToLibFS(fn, Cwd) ELSE ToKernel
ByFd(c, fn)   == IF ValidFd(c.fd) THEN ToLibFS(fn, GetOxbowFd(c.fd)) ELSE ToKernel

-----------------------------------------------------------------------------
(* The handlers. *)

DoOpen(c)      == ByPath(c, "open")
\* The directory descriptor is handed on with g_fd_start still in it.
DoOpenat(c)    == IF ~CheckPrefix(c.path) THEN ToKernel
                  ELSE IF c.fd = Cwd THEN ToLibFS("open", Cwd) ELSE ToLibFS("openat", c.fd)
DoCreat(c)     == ByPath(c, "creat")
DoRead(c)      == ByFd(c, "read")
DoPread64(c)   == ByFd(c, "pread64")
DoWrite(c)     == ByFd(c, "write")
DoPwrite64(c)  == ByFd(c, "pwrite64")
DoClose(c)     == ByFd(c, "close")
DoLseek(c)     == ByFd(c, "lseek")
DoMkdir(c)     == ByPath(c, "mkdir")
DoRmdir(c)     == ByPath(c, "rmdir")
DoRename(c)    == ByPath(c, "rename")    \* of the two names only the old one is looked at
DoFallocate(c) == ByFd(c, "fallocate")
DoStat(c)      == ByPath(c, "stat")
DoLstat(c)     == ByPath(c, "stat")
DoFstat(c)     == ByFd(c, "fstat")
DoNewfstatat(c) ==
    IF c.fd = Cwd /\ CheckPrefix(c.path) THEN ToLibFS("newfstatat", Cwd)
    ELSE ByFd(c, "newfstatat")
DoTruncate(c)  == ByPath(c, "truncate")
DoFtruncate(c) == ByFd(c, "ftruncate")
DoUnlink(c)    == ByPath(c, "unlink")
DoSymlink(c)   == IF CheckPrefix(c.path) THEN [to |-> "exit"] ELSE ToKernel
DoAccess(c)    == ByPath(c, "access")
DoFsync(c)     == ByFd(c, "fsync")
DoFdatasync(c) == ByFd(c, "fsync")
DoSync(c)      == ToLibFS("sync", Cwd)
DoFcntl(c)     == ByFd(c, "fcntl")
DoMmap(c)      == IF ValidFd(c.fd) THEN [to |-> "fail"] ELSE ToKernel
DoGetdents(c)  == ByFd(c, "getdents")
DoGetdents64(c) == ByFd(c, "getdents64")

PathCalls == {"open", "creat", "mkdir", "rmdir", "rename", "stat", "lstat", "truncate", "unlink",
              "symlink", "access"}
FdCalls   == {"read", "pread64", "write", "pwrite64", "close", "lseek", "fallocate", "fstat",
              "ftruncate", "fsync", "fdatasync", "fcntl", "getdents", "getdents64", "mmap"}
AtCalls   == {"openat", "newfstatat"}

\* hook: the dispatch on the number of the system call.
Hook(c) ==
    CASE c.nr = "open" -> DoOpen(c)             [] c.nr = "openat" -> DoOpenat(c)
      [] c.nr = "creat" -> DoCreat(c)           [] c.nr = "read" -> DoRead(c)
      [] c.nr = "pread64" -> DoPread64(c)       [] c.nr = "write" -> DoWrite(c)
      [] c.nr = "pwrite64" -> DoPwrite64(c)     [] c.nr = "close" -> DoClose(c)
      [] c.nr = "lseek" -> DoLseek(c)           [] c.nr = "mkdir" -> DoMkdir(c)
      [] c.nr = "rmdir" -> DoRmdir(c)           [] c.nr = "rename" -> DoRename(c)
      [] c.nr = "fallocate" -> DoFallocate(c)   [] c.nr = "stat" -> DoStat(c)
      [] c.nr = "lstat" -> DoLstat(c)           [] c.nr = "fstat" -> DoFstat(c)
      [] c.nr = "newfstatat" -> DoNewfstatat(c) [] c.nr = "truncate" -> DoTruncate(c)
      [] c.nr = "ftruncate" -> DoFtruncate(c)   [] c.nr = "unlink" -> DoUnlink(c)
      [] c.nr = "symlink" -> DoSymlink(c)       [] c.nr = "access" -> DoAccess(c)
      [] c.nr = "fsync" -> DoFsync(c)           [] c.nr = "fdatasync" -> DoFdatasync(c)
      [] c.nr = "sync" -> DoSync(c)             [] c.nr = "fcntl" -> DoFcntl(c)
      [] c.nr = "mmap" -> DoMmap(c)             [] c.nr = "getdents" -> DoGetdents(c)
      [] c.nr = "getdents64" -> DoGetdents64(c) [] OTHER -> ToKernel

Paths == UNION {[1 .. n -> Components] : n \in 1 .. MaxDepth}
\* A descriptor is the kernel's own, or the one LibFS made of it in open.
AppFds == KernelFds \cup {f + FdStart : f \in KernelFds}
AllCalls == [nr: PathCalls, path: Paths, fd: {Cwd}]
            \cup [nr: FdCalls \cup {"sync", "munmap"}, path: {<<"x">>}, fd: AppFds]
            \cup [nr: AtCalls, path: Paths, fd: AppFds \cup {Cwd}]

ShimInit == call \in AllCalls /\ route = [to |-> "none"]
Syscall  == route.to = "none" /\ route' = Hook(call) /\ UNCHANGED call
ShimSpec == ShimInit /\ [][Syscall]_shimVars

-----------------------------------------------------------------------------
(* Properties. *)

\* Reference: where the kernel's path walk goes, "" and "." skipped and ".."
\* back to the parent.
RECURSIVE Walk(_, _)
Walk(dir, rest) ==
    IF rest = <<>> THEN dir
    ELSE IF rest[1] \in {"", "."} THEN Walk(dir, Tail(rest))
    ELSE IF rest[1] = ".." THEN Walk(SubSeq(dir, 1, Len(dir) - 1), Tail(rest))
    ELSE Walk(Append(dir, rest[1]), Tail(rest))

\* A call on a path that names a file under the mount point is taken over, and
\* one on a path outside it is left to the kernel (check_prefix), for paths that
\* start and end with a name and never climb above the root.
Plain(p) == /\ p[1] \notin {"", ".", ".."} /\ p[Len(p)] \notin {"", ".", ".."}
            /\ \A k \in 1 .. Len(p) : p[k] = ".." => Walk(<<>>, SubSeq(p, 1, k - 1)) # <<>>
PrefixExact ==
    route.to # "none" /\ call.nr \in PathCalls /\ Plain(call.path) =>
       (route.to # "kernel" <=> Walk(<<>>, call.path)[1] = "ox")

\* A descriptor goes back to the one that gave it out: LibFS sees the kernel's
\* number of each of its own, and never one it did not give (get_oxbow_fd).
FdHome ==
    route.to # "none" /\ call.nr \in FdCalls \ {"mmap"} =>
       IF call.fd \in KernelFds THEN route = ToKernel
       ELSE route.to = "libfs" /\ route.fd = call.fd - FdStart
=============================================================================
