-------------------------------- MODULE Slab --------------------------------
(***************************************************************************)
(* The slab allocator (common/oxb_slab.c) behind the inodes, BIOs and      *)
(* journal objects.  Free objects form a lock-free stack: the head is a    *)
(* pointer with a version, swapped by one 128-bit compare-and-exchange,    *)
(* and the link of a free object is its own first word, which the user of  *)
(* the object overwrites.  A mutex covers only the array of slabs.         *)
(***************************************************************************)
EXTENDS Integers, Sequences, FiniteSets

CONSTANTS Threads,       \* the threads that allocate and free
          PerSlab,       \* objs_per_slab
          InitSlabs,     \* INITIAL_SLAB_COUNT, the slabs filled at start
          MaxSlabs,      \* bound: slabs malloc gives before the model stops
          MaxVer,        \* bound: version at which no operation starts
          Nil, Junk      \* NULL, and whatever a user writes over the link

ASSUME SlabAssumption ==
    /\ PerSlab \in Nat \ {0} /\ InitSlabs \in Nat \ {0}
    /\ MaxSlabs \in Nat /\ InitSlabs <= MaxSlabs /\ MaxVer \in Nat
    /\ Nil \notin Nat /\ Junk \notin Nat /\ Nil # Junk

VARIABLES head,       \* free_list: [obj, ver]
          nxt,        \* the first word of every object
          slabs,      \* num_slabs
          capacity,   \* slabs_capacity
          lock,       \* the mutex: its owner or Nil
          pc,         \* where each thread is
          old, new,   \* old_head of each thread, and the next object it read
          fresh,      \* first and last object a thread still has to push
          held,       \* the objects each thread has allocated
          stack       \* ghost: the free objects, the head last

vars == <<head, nxt, slabs, capacity, lock, pc, old, new, fresh, held, stack>>

\* Object n is at place n % PerSlab of slab n \div PerSlab.
Objs == 0 .. MaxSlabs * PerSlab - 1
Ptr  == Objs \cup {Nil}
HeadType == [obj: Ptr, ver: Nat]

Top(s) == IF s = <<>> THEN Nil ELSE s[Len(s)]
Pop(s) == [i \in 1 .. Len(s) - 1 |-> s[i]]

\* oxb_slab_init: every object of the first slabs is pushed in address order.
Init ==
    LET n == InitSlabs * PerSlab IN
    /\ head = [obj |-> n - 1, ver |-> n]
    /\ nxt = [o \in Objs |-> IF o \in 1 .. n - 1 THEN o - 1 ELSE Nil]
    /\ slabs = InitSlabs /\ capacity = InitSlabs
    /\ lock = Nil
    /\ pc = [t \in Threads |-> "idle"]
    /\ old = [t \in Threads |-> [obj |-> Nil, ver |-> 0]]
    /\ new = [t \in Threads |-> Nil]
    /\ fresh = [t \in Threads |-> [lo |-> 0, hi |-> -1]]
    /\ held = [t \in Threads |-> {}]
    /\ stack = [i \in 1 .. n |-> i - 1]

Goto(t, l) == pc' = [pc EXCEPT ![t] = l]

-----------------------------------------------------------------------------
(* oxb_slab_alloc *)

\* Load the head; an empty list takes the cold path.
AllocLoad(t) ==
    /\ pc[t] = "idle" \/ pc[t] = "retry"
    /\ head.ver < MaxVer
    /\ old' = [old EXCEPT ![t] = head]
    /\ Goto(t, IF head.obj = Nil THEN "grow" ELSE "next")
    /\ UNCHANGED <<head, nxt, slabs, capacity, lock, new, fresh, held, stack>>

\* Read the link of the object the head named, whoever owns it by now.
AllocNext(t) ==
    /\ pc[t] = "next"
    /\ new' = [new EXCEPT ![t] = nxt[old[t].obj]]
    /\ Goto(t, "cas")
    /\ UNCHANGED <<head, nxt, slabs, capacity, lock, old, fresh, held, stack>>

\* The 128-bit compare of the exchange: pointer and version.
SameHeadPtr(t) == head.obj = old[t].obj
SameHead(t) == head = old[t]

AllocCas(t) ==
    /\ pc[t] = "cas"
    /\ SameHead(t)
    /\ head' = [obj |-> new[t], ver |-> old[t].ver + 1]
    /\ held' = [held EXCEPT ![t] = @ \cup {old[t].obj}]
    /\ stack' = Pop(stack)
    /\ Goto(t, "idle")
    /\ UNCHANGED <<nxt, slabs, capacity, lock, old, new, fresh>>

\* The weak exchange fails when the head moved, or for no reason.
AllocRetry(t) ==
    /\ pc[t] = "cas"
    /\ Goto(t, "retry")
    /\ UNCHANGED <<head, nxt, slabs, capacity, lock, old, new, fresh, held, stack>>

-----------------------------------------------------------------------------
(* oxb_slab_grow *)

GrowLock(t) ==
    /\ pc[t] = "grow" /\ lock = Nil
    /\ lock' = t
    /\ Goto(t, "check")
    /\ UNCHANGED <<head, nxt, slabs, capacity, old, new, fresh, held, stack>>

\* Another thread filled the list while this one waited for the lock.
GrowSkip(t) ==
    /\ pc[t] = "check" /\ head.obj # Nil
    /\ lock' = Nil
    /\ Goto(t, "retry")
    /\ UNCHANGED <<head, nxt, slabs, capacity, old, new, fresh, held, stack>>

\* The objects of slab s.
SlabRange(s) == [lo |-> s * PerSlab, hi |-> (s + 1) * PerSlab - 1]

\* A new slab enters the array, doubled when it is full, and the lock is
\* released.  A failed malloc or realloc is a panic of the daemon.
GrowSlab(t) ==
    /\ pc[t] = "check" /\ head.obj = Nil /\ slabs < MaxSlabs
    /\ capacity' = IF slabs >= capacity THEN capacity * 2 ELSE capacity
    /\ slabs' = slabs + 1
    /\ fresh' = [fresh EXCEPT ![t] = SlabRange(slabs)]
    /\ lock' = Nil
    /\ Goto(t, "push")
    /\ UNCHANGED <<head, nxt, old, new, held, stack>>

\* The object to push is linked to the head just loaded, on every try.
Relink(t) == [nxt EXCEPT ![fresh[t].lo] = head.obj]

\* Load the head and link the next object of the new slab to it.
PushLoad(t) ==
    /\ pc[t] = "push"
    /\ old' = [old EXCEPT ![t] = head]
    /\ nxt' = Relink(t)
    /\ Goto(t, "pushcas")
    /\ UNCHANGED <<head, slabs, capacity, lock, new, fresh, held, stack>>

\* The object just pushed was the last of the slab.
LastPushed(t) == fresh[t].lo = fresh[t].hi

PushCas(t) ==
    /\ pc[t] = "pushcas"
    /\ SameHead(t)
    /\ head' = [obj |-> fresh[t].lo, ver |-> old[t].ver + 1]
    /\ stack' = Append(stack, fresh[t].lo)
    /\ fresh' = [fresh EXCEPT ![t].lo = @ + 1]
    /\ Goto(t, IF LastPushed(t) THEN "retry" ELSE "push")
    /\ UNCHANGED <<nxt, slabs, capacity, lock, old, new, held>>

PushRetry(t) ==
    /\ pc[t] = "pushcas"
    /\ Goto(t, "push")
    /\ UNCHANGED <<head, nxt, slabs, capacity, lock, old, new, fresh, held, stack>>

-----------------------------------------------------------------------------
(* oxb_slab_free *)

\* The thread gives up an object: old[t] is loaded and linked under it; the
\* object is kept as the one-object range still to be pushed.
FreeLoad(t, o) ==
    /\ pc[t] = "idle" /\ o \in held[t]
    /\ head.ver < MaxVer
    /\ held' = [held EXCEPT ![t] = @ \ {o}]
    /\ fresh' = [fresh EXCEPT ![t] = [lo |-> o, hi |-> o]]
    /\ old' = [old EXCEPT ![t] = head]
    /\ nxt' = [nxt EXCEPT ![o] = head.obj]
    /\ Goto(t, "freecas")
    /\ UNCHANGED <<head, slabs, capacity, lock, new, stack>>

FreeCas(t) ==
    /\ pc[t] = "freecas"
    /\ SameHead(t)
    /\ head' = [obj |-> fresh[t].lo, ver |-> old[t].ver + 1]
    /\ stack' = Append(stack, fresh[t].lo)
    /\ fresh' = [fresh EXCEPT ![t].lo = @ + 1]
    /\ Goto(t, "idle")
    /\ UNCHANGED <<nxt, slabs, capacity, lock, old, new, held>>

FreeRetry(t) ==
    /\ pc[t] = "freecas"
    /\ old' = [old EXCEPT ![t] = head]
    /\ nxt' = Relink(t)
    /\ UNCHANGED <<head, slabs, capacity, lock, pc, new, fresh, held, stack>>

\* The user of an object writes over its first word.
Use(t, o) ==
    /\ o \in held[t] /\ nxt[o] # Junk
    /\ nxt' = [nxt EXCEPT ![o] = Junk]
    /\ UNCHANGED <<head, slabs, capacity, lock, pc, old, new, fresh, held, stack>>

Next ==
    \E t \in Threads :
        \/ AllocLoad(t) \/ AllocNext(t) \/ AllocCas(t) \/ AllocRetry(t)
        \/ GrowLock(t) \/ GrowSkip(t) \/ GrowSlab(t)
        \/ PushLoad(t) \/ PushCas(t) \/ PushRetry(t)
        \/ FreeCas(t) \/ FreeRetry(t)
        \/ \E o \in Objs : FreeLoad(t, o) \/ Use(t, o)

Spec == Init /\ [][Next]_vars

-----------------------------------------------------------------------------
\* Every variable has its type; the slabs never exceed their bound.
TypeOK ==
    /\ head \in HeadType
    /\ nxt \in [Objs -> Ptr \cup {Junk}]
    /\ slabs \in InitSlabs .. MaxSlabs /\ capacity \in Nat
    /\ lock \in Threads \cup {Nil}
    /\ pc \in [Threads -> {"idle", "retry", "next", "cas", "grow", "check",
                           "push", "pushcas", "freecas"}]
    /\ old \in [Threads -> HeadType]
    /\ new \in [Threads -> Ptr \cup {Junk}]
    /\ fresh \in [Threads -> [lo: Int, hi: Int]]
    /\ held \in [Threads -> SUBSET Objs]
    /\ stack \in Seq(Objs)

\* The objects a thread took out of a slab or from its user and has not
\* pushed yet.
Pushing(t) == fresh[t].lo .. fresh[t].hi

\* The list oxb_slab_alloc pops from is a list: from the head every link
\* leads to the next free object and the last one to NULL.
Linked ==
    /\ head.obj = Top(stack)
    /\ \A i \in 1 .. Len(stack) : nxt[stack[i]] = IF i = 1 THEN Nil ELSE stack[i - 1]

\* No object is in two hands: an object is on the free list at one place, or
\* held by one thread, or being pushed by one thread, whatever stale head and
\* link a concurrent oxb_slab_alloc or oxb_slab_free works with.
NoSharing ==
    /\ \A i, j \in 1 .. Len(stack) : stack[i] = stack[j] => i = j
    /\ \A t \in Threads : \A i \in 1 .. Len(stack) :
           stack[i] \notin held[t] \cup Pushing(t)
    /\ \A t \in Threads : held[t] \cap Pushing(t) = {}
    /\ \A t, u \in Threads : t # u =>
           (held[t] \cup Pushing(t)) \cap (held[u] \cup Pushing(u)) = {}

\* No object is lost: every object of the slabs in the array is free, held or
\* on its way to the free list.
NoLeak ==
    0 .. slabs * PerSlab - 1 =
        {stack[i] : i \in 1 .. Len(stack)}
            \cup UNION {held[t] \cup Pushing(t) : t \in Threads}

\* What a stale reader may rely on: a thread whose head still has the version
\* it loaded holds a true copy of the head and of the link under it.
Fresh ==
    \A t \in Threads : old[t].ver = head.ver =>
        /\ pc[t] \in {"next", "cas", "pushcas", "freecas"} => old[t] = head
        /\ pc[t] = "cas" => new[t] = nxt[head.obj]
        /\ pc[t] \in {"pushcas", "freecas"} => nxt[fresh[t].lo] = head.obj
\* The allocator is sound: the free list is a list, and every object is in it
\* once, or with one thread.
SlabCorrect == TypeOK /\ Linked /\ NoSharing /\ NoLeak
=============================================================================
