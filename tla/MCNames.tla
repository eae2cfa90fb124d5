------------------------------- MODULE MCNames --------------------------------
(***************************************************************************)
(* Names, for TLC: the name space of the Secure Daemon (Namei), whose      *)
(* directories are functions, and the blocks and the hashed index of one   *)
(* directory (Ext4Dir).  A behaviour is one of the two: Namei else stays   *)
(* in its initial state, and the variables of Ext4Dir are Off.             *)
(***************************************************************************)
EXTENDS Namei

CONSTANTS Unused, Off

VARIABLES part, levels, nodes, leaves, names, status

dirvars == <<levels, nodes, leaves, names, status>>

\* Names of one length, five of them with one hash.  A block of four units
\* and names of one unit are the smallest with names at most a quarter of a
\* block.
DirNames == 1 .. 6
DirHash == <<2, 2, 2, 2, 2, 4>>

D == INSTANCE Ext4Dir WITH Names <- DirNames, Hash <- DirHash,
                           Size <- [n \in DirNames |-> 1], BlockSize <- 4,
                           RootLimit <- 2, NodeLimit <- 3, MaxBlocks <- 7

ASSUME DirAssumption == D!DirAssumption

DirOff ==
    /\ levels = Off /\ nodes = Off /\ leaves = Off /\ names = Off /\ status = Off

MCInit ==
    /\ part \in {"names", "dir"}
    /\ Init
    /\ IF part = "dir" THEN D!Init ELSE DirOff

Space(A) == part = "names" /\ A /\ UNCHANGED <<part, dirvars>>
Dir(A) == part = "dir" /\ A /\ UNCHANGED <<part, vars>>

SpaceNext ==
    \/ \E d \in Inos, n \in Names :
        \/ \E kind \in Kinds : Space(CreateAlloc(d, n, kind))
        \/ Space(Lookup(d, n))
        \/ Space(UnlinkStart(d, n))
        \/ Space(RenameNew(d, n))
    \/ \E d \in Inos :
        \/ \E how \in {"ok", "full", "noindex"} : Space(CreateLink(d, how))
        \/ Space(UnlinkEnd(d)) \/ Space(EvictHold(d)) \/ Space(Build(d))
    \/ Space(RenameOld) \/ Space(FileInitCheck) \/ Space(FileInitRegister)
    \/ Space(DirInit) \/ Space(EvictPut) \/ Space(CommitStart)
    \/ \E w \in Readers :
        \/ \E i \in Inos : Space(Fetch(w, i))
        \/ Space(Drain(w)) \/ Space(Finish(w)) \/ Space(Close(w))

DirNext == \E n \in DirNames : Dir(D!AddEntry(n)) \/ Dir(D!RemoveEntry(n))

MCNext == SpaceNext \/ DirNext

MCSpec == MCInit /\ [][MCNext]_<<part, vars, dirvars>>

\* The names of Namei, and its read workers, are interchangeable.
Symmetry == Permutations(Names) \cup Permutations(Readers)

-----------------------------------------------------------------------------
(* No inode is destroyed while a request, a queue, the epoll set, a read   *)
(* worker, the manager or a transaction points to it (iput); every entry   *)
(* names an allocated inode and outside a rename no inode has two names;   *)
(* the free counts are those of the bitmap (ext4_ialloc.c).                *)
NamesCorrect ==
    part = "names" => TypeOK /\ HeldWhileUsed /\ EntriesLive /\ CountsAgree

(* A name is found through the hash index exactly when its last successful *)
(* operation was to add it, a listing has each name once, and every block  *)
(* but the root has one index entry (ext4_dir_dx_split_data).              *)
DirCorrect ==
    part = "dir" => D!TypeOK /\ D!FoundIffAdded /\ D!ListedOnce /\ D!IndexOrdered
===============================================================================
