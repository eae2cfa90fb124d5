----------------------------- MODULE SlabProofs -----------------------------
(***************************************************************************)
(* Proofs about the slab allocator of Slab (common/oxb_slab.c): for every  *)
(* number of threads, slabs and objects, the lock-free list of free        *)
(* objects stays a list, and no object is lost or in two hands.            *)
(*                                                                         *)
(* The compare-and-exchange can be trusted because of what the version     *)
(* says about a stale reader (Fresh): no head a thread loaded is newer     *)
(* than the list (Versions), and as long as the version is the same the    *)
(* links it read or wrote are still there.  What a thread has to push is a *)
(* range of objects exactly while it is pushing (Ranges).                  *)
(***************************************************************************)
EXTENDS Slab, TLAPS

(* No thread holds a head that is newer than the list's.                   *)
Versions == \A t \in Threads : old[t].ver <= head.ver

(* A thread that follows the head has an object to follow, and a thread    *)
(* has objects to push exactly while it is pushing.                        *)
Ranges ==
    \A t \in Threads :
        /\ pc[t] \in {"next", "cas"} => old[t].obj \in Objs
        /\ pc[t] \in {"push", "pushcas", "freecas"} =>
              /\ fresh[t].lo \in Objs /\ fresh[t].hi \in Objs
              /\ fresh[t].lo <= fresh[t].hi
        /\ pc[t] = "freecas" => fresh[t].lo = fresh[t].hi
        /\ pc[t] \notin {"push", "pushcas", "freecas"} => fresh[t].hi < fresh[t].lo

(* The inductive invariant.                                                *)
SlabInv == SlabCorrect /\ Fresh /\ Versions /\ Ranges

-----------------------------------------------------------------------------
(* Facts about the operators.                                              *)

(* Products grow with their first factor.                                  *)
LEMMA ProductMonotone ==
    ASSUME NEW a \in Nat, NEW b \in Nat, NEW c \in Nat, a <= b
    PROVE  a * c \in Nat /\ a * c <= b * c
<1>1. b * c = a * c + (b - a) * c
  OBVIOUS
<1>2. (b - a) * c \in Nat /\ a * c \in Nat
  OBVIOUS
<1> QED BY <1>1, <1>2

(* The objects of the slabs in the array are objects, as many as PerSlab   *)
(* for each slab.                                                          *)
LEMMA SlabObjs ==
    ASSUME NEW s \in InitSlabs .. MaxSlabs
    PROVE  /\ s * PerSlab \in Nat /\ s * PerSlab >= 1
           /\ 0 .. s * PerSlab - 1 \subseteq Objs
           /\ (s + 1) * PerSlab = s * PerSlab + PerSlab
<1>0. /\ s \in Nat /\ s >= 1 /\ MaxSlabs \in Nat /\ s <= MaxSlabs
      /\ PerSlab \in Nat /\ PerSlab >= 1 /\ InitSlabs \in Nat
  BY SlabAssumption
<1>1. s * PerSlab \in Nat /\ s * PerSlab <= MaxSlabs * PerSlab
  BY <1>0, ProductMonotone
<1>2. 1 * PerSlab <= s * PerSlab
  BY <1>0, ProductMonotone
<1>3. MaxSlabs * PerSlab \in Nat
  BY <1>0, ProductMonotone
<1>4. 0 .. s * PerSlab - 1 \subseteq Objs
  BY <1>1, <1>3 DEF Objs
<1>5. (s + 1) * PerSlab = s * PerSlab + PerSlab
  BY <1>0
<1> QED BY <1>0, <1>1, <1>2, <1>4, <1>5

(* What is left of a stack without its head is a stack.                    *)
LEMMA PopProps ==
    ASSUME NEW S, NEW s \in Seq(S), s # <<>>
    PROVE  /\ Pop(s) \in Seq(S) /\ Len(Pop(s)) = Len(s) - 1
           /\ \A i \in 1 .. Len(s) - 1 : Pop(s)[i] = s[i]
           /\ Len(s) \in Nat /\ Len(s) >= 1 /\ s[Len(s)] \in S
<1>1. Len(s) \in Nat /\ Len(s) >= 1
  OBVIOUS
<1>2. Len(s) - 1 \in Nat
  BY <1>1
<1>3. Pop(s) \in [1 .. Len(s) - 1 -> S]
  BY <1>1 DEF Pop
<1>4. Pop(s) \in Seq(S) /\ Len(Pop(s)) = Len(s) - 1
  BY <1>2, <1>3
<1>5. \A i \in 1 .. Len(s) - 1 : Pop(s)[i] = s[i]
  BY DEF Pop
<1> QED BY <1>1, <1>4, <1>5

(* Neither NULL nor what a user writes over a link is an object.           *)
LEMMA NoObject == Nil \notin Objs /\ Junk \notin Ptr /\ Objs \subseteq Nat
<1>1. PerSlab \in Nat /\ MaxSlabs \in Nat /\ Nil \notin Nat /\ Junk \notin Nat /\ Nil # Junk
  BY SlabAssumption
<1>2. MaxSlabs * PerSlab \in Nat
  BY <1>1, ProductMonotone
<1>3. Objs \subseteq Nat
  BY <1>2 DEF Objs
<1> QED BY <1>1, <1>3 DEF Ptr

-----------------------------------------------------------------------------
(* The objects on the list and the objects in a thread's hands.            *)
OnList == {stack[i] : i \in 1 .. Len(stack)}
Own(t) == held[t] \cup Pushing(t)

(* oxb_slab_init establishes the invariant.                                *)
LEMMA InitInv == Init => SlabInv
<1> SUFFICES ASSUME Init PROVE SlabInv
  OBVIOUS
<1> DEFINE n == InitSlabs * PerSlab
<1>0. /\ InitSlabs \in InitSlabs .. MaxSlabs /\ InitSlabs \in Nat
      /\ n \in Nat /\ n >= 1 /\ 0 .. n - 1 \subseteq Objs
  BY SlabAssumption, SlabObjs
<1>1. /\ head = [obj |-> n - 1, ver |-> n]
      /\ nxt = [o \in Objs |-> IF o \in 1 .. n - 1 THEN o - 1 ELSE Nil]
      /\ stack = [i \in 1 .. n |-> i - 1]
      /\ slabs = InitSlabs /\ capacity = InitSlabs /\ lock = Nil
  BY DEF Init
<1>2. \A t \in Threads : /\ pc[t] = "idle" /\ old[t] = [obj |-> Nil, ver |-> 0]
                         /\ new[t] = Nil /\ fresh[t] = [lo |-> 0, hi |-> -1]
                         /\ held[t] = {}
  BY DEF Init
<1> HIDE DEF n
<1>3. stack \in Seq(Objs) /\ Len(stack) = n /\ \A i \in 1 .. n : stack[i] = i - 1
  <2>1. stack \in [1 .. n -> Objs]
    BY <1>0, <1>1
  <2> QED BY <2>1, <1>0, <1>1
<1>4. \A t \in Threads : Pushing(t) = {}
  BY <1>2 DEF Pushing
<1>5. TypeOK
  <2>1. head \in HeadType /\ nxt \in [Objs -> Ptr \cup {Junk}]
    BY <1>0, <1>1, NoObject DEF HeadType, Ptr
  <2>2. old \in [Threads -> HeadType] /\ new \in [Threads -> Ptr \cup {Junk}]
    BY DEF Init, HeadType, Ptr
  <2>3. /\ pc \in [Threads -> {"idle", "retry", "next", "cas", "grow", "check",
                               "push", "pushcas", "freecas"}]
        /\ held \in [Threads -> SUBSET Objs]
    BY DEF Init
  <2>4. fresh \in [Threads -> [lo: Int, hi: Int]]
    BY DEF Init
  <2> QED BY <2>1, <2>2, <2>3, <2>4, <1>0, <1>1, <1>3 DEF TypeOK
<1>6. Linked
  <2>0. stack # <<>>
    BY <1>0, <1>3
  <2>1. head.obj = Top(stack)
    BY <2>0, <1>0, <1>1, <1>3 DEF Top
  <2>2. \A i \in 1 .. Len(stack) : nxt[stack[i]] = IF i = 1 THEN Nil ELSE stack[i - 1]
    BY <1>0, <1>1, <1>3
  <2> QED BY <2>1, <2>2 DEF Linked
<1>7. NoSharing
  BY <1>0, <1>2, <1>3, <1>4 DEF NoSharing
<1>8. NoLeak
  <2>1. {stack[i] : i \in 1 .. Len(stack)} = 0 .. n - 1
    <3>1. \A o \in 0 .. n - 1 : o + 1 \in 1 .. n /\ stack[o + 1] = o
      BY <1>0, <1>3
    <3>2. \A i \in 1 .. n : stack[i] \in 0 .. n - 1
      BY <1>0, <1>3
    <3> QED BY <3>1, <3>2, <1>3
  <2>2. UNION {held[t] \cup Pushing(t) : t \in Threads} = {}
    BY <1>2, <1>4
  <2>3. 0 .. slabs * PerSlab - 1 = 0 .. n - 1
    BY <1>1 DEF n
  <2> QED BY <2>1, <2>2, <2>3 DEF NoLeak
<1>9. Fresh /\ Versions /\ Ranges
  BY <1>0, <1>1, <1>2 DEF Fresh, Versions, Ranges
<1> QED BY <1>5, <1>6, <1>7, <1>8, <1>9 DEF SlabInv, SlabCorrect

-----------------------------------------------------------------------------
(* Steps that leave the list and everybody's objects alone.                *)
Quiet(t) == \/ AllocLoad(t) \/ AllocNext(t) \/ AllocRetry(t)
            \/ GrowLock(t) \/ GrowSkip(t) \/ PushRetry(t)

(* They keep the types ...                                                 *)
LEMMA QuietTypes ==
    ASSUME SlabInv, NEW t \in Threads, Quiet(t)
    PROVE  TypeOK'
<1> USE DEF SlabInv, SlabCorrect
<1>1. CASE AllocLoad(t)
  BY <1>1 DEF TypeOK, AllocLoad, Goto
<1>2. CASE AllocNext(t)
  <2>1. old[t].obj \in Objs
    BY <1>2 DEF Ranges, AllocNext
  <2>2. nxt[old[t].obj] \in Ptr \cup {Junk}
    BY <2>1 DEF TypeOK
  <2> QED BY <1>2, <2>2 DEF TypeOK, AllocNext, Goto
<1>3. CASE AllocRetry(t)
  BY <1>3 DEF TypeOK, AllocRetry, Goto
<1>4. CASE GrowLock(t)
  BY <1>4 DEF TypeOK, GrowLock, Goto
<1>5. CASE GrowSkip(t)
  BY <1>5 DEF TypeOK, GrowSkip, Goto
<1>6. CASE PushRetry(t)
  BY <1>6 DEF TypeOK, PushRetry, Goto
<1> QED BY <1>1, <1>2, <1>3, <1>4, <1>5, <1>6 DEF Quiet

(* ... and what a thread may rely on.                                      *)
LEMMA QuietReaders ==
    ASSUME SlabInv, NEW t \in Threads, Quiet(t)
    PROVE  Fresh' /\ Versions' /\ Ranges'
<1> USE DEF SlabInv, SlabCorrect
<1>0. /\ head' = head /\ nxt' = nxt /\ fresh' = fresh
      /\ head \in HeadType /\ fresh \in [Threads -> [lo: Int, hi: Int]]
      /\ old \in [Threads -> HeadType] /\ new \in [Threads -> Ptr \cup {Junk}]
      /\ pc \in [Threads -> {"idle", "retry", "next", "cas", "grow", "check",
                             "push", "pushcas", "freecas"}]
  BY DEF Quiet, AllocLoad, AllocNext, AllocRetry, GrowLock, GrowSkip, PushRetry, TypeOK
<1>1. \A u \in Threads \ {t} : old'[u] = old[u] /\ new'[u] = new[u] /\ pc'[u] = pc[u]
  BY <1>0 DEF Quiet, AllocLoad, AllocNext, AllocRetry, GrowLock, GrowSkip, PushRetry, Goto
<1>2. \/ /\ pc[t] \in {"idle", "retry"} /\ old'[t] = head
         /\ pc'[t] \in {"grow", "next"} /\ (pc'[t] = "next" => head.obj # Nil)
      \/ /\ pc[t] = "next" /\ pc'[t] = "cas" /\ old'[t] = old[t]
         /\ new'[t] = nxt[old[t].obj]
      \/ /\ pc[t] \in {"cas", "grow", "check"} /\ pc'[t] \in {"retry", "check"}
         /\ old'[t] = old[t]
      \/ pc[t] = "pushcas" /\ pc'[t] = "push" /\ old'[t] = old[t]
  BY <1>0 DEF Quiet, AllocLoad, AllocNext, AllocRetry, GrowLock, GrowSkip, PushRetry, Goto
<1>3. Versions'
  BY <1>0, <1>1, <1>2 DEF Versions, HeadType
<1>4. Fresh'
  <2>1. SUFFICES ASSUME NEW u \in Threads, old'[u].ver = head.ver
                 PROVE  /\ pc'[u] \in {"next", "cas", "pushcas", "freecas"} => old'[u] = head
                        /\ pc'[u] = "cas" => new'[u] = nxt[head.obj]
                        /\ pc'[u] \in {"pushcas", "freecas"} => nxt[fresh[u].lo] = head.obj
    BY <1>0 DEF Fresh
  <2>2. CASE u # t
    BY <2>1, <2>2, <1>1 DEF Fresh
  <2>3. CASE u = t
    BY <2>1, <2>3, <1>2 DEF Fresh
  <2> QED BY <2>2, <2>3
<1>5. Ranges'
  <2>1. head.obj # Nil => head.obj \in Objs
    BY <1>0 DEF HeadType, Ptr
  <2>2. SUFFICES ASSUME NEW u \in Threads
                 PROVE  /\ pc'[u] \in {"next", "cas"} => old'[u].obj \in Objs
                        /\ pc'[u] \in {"push", "pushcas", "freecas"} =>
                              /\ fresh[u].lo \in Objs /\ fresh[u].hi \in Objs
                              /\ fresh[u].lo <= fresh[u].hi
                        /\ pc'[u] = "freecas" => fresh[u].lo = fresh[u].hi
                        /\ pc'[u] \notin {"push", "pushcas", "freecas"} =>
                              fresh[u].hi < fresh[u].lo
    BY <1>0 DEF Ranges
  <2>3. CASE u # t
    BY <2>3, <1>1 DEF Ranges
  <2>4. CASE u = t
    BY <2>1, <2>4, <1>2 DEF Ranges
  <2> QED BY <2>3, <2>4
<1> QED BY <1>3, <1>4, <1>5

LEMMA QuietInv ==
    ASSUME SlabInv, NEW t \in Threads, Quiet(t)
    PROVE  SlabInv'
<1>1. head' = head /\ nxt' = nxt /\ slabs' = slabs /\ fresh' = fresh /\ held' = held
      /\ stack' = stack
  BY DEF Quiet, AllocLoad, AllocNext, AllocRetry, GrowLock, GrowSkip, PushRetry
<1>2. Linked' /\ NoSharing' /\ NoLeak'
  BY <1>1 DEF SlabInv, SlabCorrect, Linked, NoSharing, NoLeak, Pushing, Top
<1> QED BY <1>2, QuietTypes, QuietReaders DEF SlabInv, SlabCorrect

-----------------------------------------------------------------------------
(* Facts about every state of the invariant.                               *)

(* The head of a list that is not empty is on it.                          *)
LEMMA HeadOnList ==
    ASSUME SlabInv, head.obj # Nil
    PROVE  /\ stack # <<>> /\ Len(stack) \in Nat /\ Len(stack) >= 1
           /\ head.obj = stack[Len(stack)] /\ head.obj \in OnList /\ head.obj \in Objs
<1>1. stack \in Seq(Objs) /\ head.obj = Top(stack)
  BY DEF SlabInv, SlabCorrect, TypeOK, Linked
<1>2. stack # <<>>
  BY <1>1 DEF Top
<1>3. Len(stack) \in Nat /\ Len(stack) >= 1 /\ stack[Len(stack)] \in Objs
  BY <1>1, <1>2
<1>4. head.obj = stack[Len(stack)]
  BY <1>1, <1>2 DEF Top
<1> QED BY <1>2, <1>3, <1>4 DEF OnList

(* What a thread is about to push is in its hands and nowhere else.        *)
LEMMA Owners ==
    ASSUME SlabInv
    PROVE  /\ \A t \in Threads : Own(t) \cap OnList = {}
           /\ \A t, u \in Threads : t # u => Own(t) \cap Own(u) = {}
           /\ \A t \in Threads : held[t] \cap Pushing(t) = {}
           /\ \A t \in Threads : pc[t] \in {"push", "pushcas", "freecas"} =>
                 fresh[t].lo \in Pushing(t) /\ fresh[t].lo \in Objs
           /\ \A t \in Threads : Own(t) \subseteq 0 .. slabs * PerSlab - 1
           /\ OnList \subseteq 0 .. slabs * PerSlab - 1
           /\ 0 .. slabs * PerSlab - 1 \subseteq Objs
<1> USE DEF SlabInv, SlabCorrect
<1>1. \A t \in Threads : Own(t) \cap OnList = {}
  BY DEF NoSharing, Own, OnList
<1>2. \A t, u \in Threads : t # u => Own(t) \cap Own(u) = {}
  BY DEF NoSharing, Own
<1>3. \A t \in Threads : held[t] \cap Pushing(t) = {}
  BY DEF NoSharing
<1>4. \A t \in Threads : pc[t] \in {"push", "pushcas", "freecas"} =>
         fresh[t].lo \in Pushing(t) /\ fresh[t].lo \in Objs
  BY NoObject DEF Ranges, TypeOK, Pushing
<1>5. \A t \in Threads : Own(t) \subseteq 0 .. slabs * PerSlab - 1
  BY DEF NoLeak, Own
<1>6. OnList \subseteq 0 .. slabs * PerSlab - 1
  BY DEF NoLeak, OnList
<1>7. 0 .. slabs * PerSlab - 1 \subseteq Objs
  BY SlabObjs DEF TypeOK
<1> QED BY <1>1, <1>2, <1>3, <1>4, <1>5, <1>6, <1>7

(* A link written into an object in one's own hands is not a link of the   *)
(* list, nor one that another thread relies on.                            *)
LEMMA OwnLink ==
    ASSUME SlabInv, NEW t \in Threads, NEW o \in Own(t), NEW v,
           head' = head, stack' = stack, nxt' = [nxt EXCEPT ![o] = v]
    PROVE  /\ Linked'
           /\ head.obj # Nil => nxt'[head.obj] = nxt[head.obj]
           /\ \A u \in Threads \ {t} : pc[u] \in {"pushcas", "freecas"} =>
                 nxt'[fresh[u].lo] = nxt[fresh[u].lo]
           /\ pc[t] \in {"pushcas", "freecas"} /\ o \in held[t] =>
                 nxt'[fresh[t].lo] = nxt[fresh[t].lo]
           /\ o \in Objs /\ nxt'[o] = v
           /\ v \in Ptr \cup {Junk} => nxt' \in [Objs -> Ptr \cup {Junk}]
<1>0. /\ o \in Objs /\ nxt \in [Objs -> Ptr \cup {Junk}] /\ stack \in Seq(Objs)
      /\ o \notin OnList
  BY Owners DEF SlabInv, SlabCorrect, TypeOK
<1>1. \A x \in Objs \ {o} : nxt'[x] = nxt[x]
  BY <1>0
<1>2. Linked'
  <2>1. \A i \in 1 .. Len(stack) : stack[i] \in Objs \ {o}
    BY <1>0 DEF OnList
  <2>2. \A i \in 1 .. Len(stack) : nxt'[stack[i]] = nxt[stack[i]]
    BY <1>1, <2>1
  <2> QED BY <2>2 DEF SlabInv, SlabCorrect, Linked, Top
<1>3. head.obj # Nil => nxt'[head.obj] = nxt[head.obj]
  BY <1>0, <1>1, HeadOnList
<1>4. \A u \in Threads \ {t} : pc[u] \in {"pushcas", "freecas"} =>
         nxt'[fresh[u].lo] = nxt[fresh[u].lo]
  <2>1. SUFFICES ASSUME NEW u \in Threads \ {t}, pc[u] \in {"pushcas", "freecas"}
                 PROVE  nxt'[fresh[u].lo] = nxt[fresh[u].lo]
    OBVIOUS
  <2>2. fresh[u].lo \in Own(u) /\ fresh[u].lo \in Objs
    BY <2>1, Owners DEF Own
  <2>3. fresh[u].lo # o
    BY <2>2, Owners
  <2> QED BY <2>2, <2>3, <1>1
<1>5. pc[t] \in {"pushcas", "freecas"} /\ o \in held[t] =>
         nxt'[fresh[t].lo] = nxt[fresh[t].lo]
  <2>1. SUFFICES ASSUME pc[t] \in {"pushcas", "freecas"}, o \in held[t]
                 PROVE  nxt'[fresh[t].lo] = nxt[fresh[t].lo]
    OBVIOUS
  <2>2. fresh[t].lo \in Pushing(t) /\ fresh[t].lo \in Objs
    BY <2>1, Owners
  <2>3. fresh[t].lo # o
    BY <2>1, <2>2, Owners
  <2> QED BY <2>2, <2>3, <1>1
<1>6. nxt'[o] = v /\ (v \in Ptr \cup {Junk} => nxt' \in [Objs -> Ptr \cup {Junk}])
  BY <1>0
<1> QED BY <1>0, <1>2, <1>3, <1>4, <1>5, <1>6

-----------------------------------------------------------------------------
(* PushLoad and FreeRetry link the object to be pushed to the head.        *)
LEMMA RelinkInv ==
    ASSUME SlabInv, NEW t \in Threads, PushLoad(t) \/ FreeRetry(t)
    PROVE  SlabInv'
<1> USE DEF SlabInv, SlabCorrect
<1> DEFINE o == fresh[t].lo
<1>0. /\ head' = head /\ stack' = stack /\ nxt' = [nxt EXCEPT ![o] = head.obj]
      /\ slabs' = slabs /\ capacity' = capacity /\ lock' = lock /\ new' = new
      /\ fresh' = fresh /\ held' = held /\ old' = [old EXCEPT ![t] = head]
      /\ pc[t] \in {"push", "freecas"}
      /\ pc' = [pc EXCEPT ![t] = IF pc[t] = "push" THEN "pushcas" ELSE "freecas"]
  <2>1. CASE PushLoad(t)
    BY <2>1 DEF PushLoad, Relink, Goto
  <2>2. CASE FreeRetry(t)
    <3>1. pc \in [Threads -> {"idle", "retry", "next", "cas", "grow", "check",
                              "push", "pushcas", "freecas"}]
      BY DEF TypeOK
    <3>2. pc' = pc /\ pc[t] = "freecas"
      BY <2>2 DEF FreeRetry
    <3>3. pc' = [pc EXCEPT ![t] = "freecas"]
      BY <3>1, <3>2
    <3> QED BY <2>2, <3>2, <3>3 DEF FreeRetry, Relink
  <2> QED BY <2>1, <2>2
<1>1. /\ head \in HeadType /\ fresh \in [Threads -> [lo: Int, hi: Int]]
      /\ old \in [Threads -> HeadType] /\ head.obj \in Ptr \cup {Junk}
      /\ pc \in [Threads -> {"idle", "retry", "next", "cas", "grow", "check",
                             "push", "pushcas", "freecas"}]
  BY DEF TypeOK, HeadType
<1>2. o \in Own(t)
  BY <1>0, Owners DEF Own
<1> HIDE DEF o
<1>3. /\ Linked'
      /\ head.obj # Nil => nxt'[head.obj] = nxt[head.obj]
      /\ \A u \in Threads \ {t} : pc[u] \in {"pushcas", "freecas"} =>
            nxt'[fresh[u].lo] = nxt[fresh[u].lo]
      /\ nxt'[o] = head.obj /\ nxt' \in [Objs -> Ptr \cup {Junk}]
  BY <1>0, <1>1, <1>2, OwnLink
<1>4. \A u \in Threads \ {t} : old'[u] = old[u] /\ pc'[u] = pc[u]
  BY <1>0, <1>1
<1>5. old'[t] = head /\ pc'[t] \in {"pushcas", "freecas"} /\ (pc'[t] = "freecas" <=> pc[t] = "freecas")
  BY <1>0, <1>1
<1>6. TypeOK'
  <2>1. pc' \in [Threads -> {"idle", "retry", "next", "cas", "grow", "check",
                             "push", "pushcas", "freecas"}]
    BY <1>0, <1>1
  <2>2. old' \in [Threads -> HeadType]
    BY <1>0, <1>1
  <2> QED BY <2>1, <2>2, <1>0, <1>3 DEF TypeOK
<1>7. NoSharing' /\ NoLeak'
  BY <1>0 DEF NoSharing, NoLeak, Pushing
<1>8. Versions'
  BY <1>0, <1>1, <1>4, <1>5 DEF Versions, HeadType
<1>9. Fresh'
  <2>1. SUFFICES ASSUME NEW u \in Threads, old'[u].ver = head.ver
                 PROVE  /\ pc'[u] \in {"next", "cas", "pushcas", "freecas"} => old'[u] = head
                        /\ pc'[u] = "cas" => new[u] = nxt'[head.obj]
                        /\ pc'[u] \in {"pushcas", "freecas"} => nxt'[fresh[u].lo] = head.obj
    BY <1>0 DEF Fresh
  <2>2. CASE u # t
    <3>1. pc[u] = "cas" => head.obj # Nil
      BY <2>1, <2>2, <1>4, NoObject DEF Fresh, Ranges
    <3> QED BY <2>1, <2>2, <1>3, <1>4, <3>1 DEF Fresh
  <2>3. CASE u = t
    BY <2>1, <2>3, <1>3, <1>5 DEF o
  <2> QED BY <2>2, <2>3
<1>10. Ranges'
  <2>1. SUFFICES ASSUME NEW u \in Threads
                 PROVE  /\ pc'[u] \in {"next", "cas"} => old'[u].obj \in Objs
                        /\ pc'[u] \in {"push", "pushcas", "freecas"} =>
                              /\ fresh[u].lo \in Objs /\ fresh[u].hi \in Objs
                              /\ fresh[u].lo <= fresh[u].hi
                        /\ pc'[u] = "freecas" => fresh[u].lo = fresh[u].hi
                        /\ pc'[u] \notin {"push", "pushcas", "freecas"} =>
                              fresh[u].hi < fresh[u].lo
    BY <1>0 DEF Ranges
  <2>2. CASE u # t
    BY <2>2, <1>4 DEF Ranges
  <2>3. CASE u = t
    BY <2>3, <1>0, <1>5 DEF Ranges
  <2> QED BY <2>2, <2>3
<1> QED BY <1>3, <1>6, <1>7, <1>8, <1>9, <1>10

(* The user of an object writes over its first word.                       *)
LEMMA UseInv ==
    ASSUME SlabInv, NEW t \in Threads, NEW o \in Objs, Use(t, o)
    PROVE  SlabInv'
<1> USE DEF SlabInv, SlabCorrect
<1>0. /\ head' = head /\ stack' = stack /\ nxt' = [nxt EXCEPT ![o] = Junk]
      /\ slabs' = slabs /\ capacity' = capacity /\ lock' = lock /\ new' = new
      /\ fresh' = fresh /\ held' = held /\ old' = old /\ pc' = pc /\ o \in held[t]
  BY DEF Use
<1>1. o \in Own(t)
  BY <1>0 DEF Own
<1>2. /\ Linked'
      /\ head.obj # Nil => nxt'[head.obj] = nxt[head.obj]
      /\ \A u \in Threads : pc[u] \in {"pushcas", "freecas"} =>
            nxt'[fresh[u].lo] = nxt[fresh[u].lo]
      /\ nxt' \in [Objs -> Ptr \cup {Junk}]
  BY <1>0, <1>1, OwnLink
<1>3. TypeOK'
  BY <1>0, <1>2 DEF TypeOK
<1>4. NoSharing' /\ NoLeak' /\ Versions' /\ Ranges'
  BY <1>0 DEF NoSharing, NoLeak, Pushing, Versions, Ranges
<1>5. Fresh'
  <2>1. SUFFICES ASSUME NEW u \in Threads, old[u].ver = head.ver
                 PROVE  /\ pc[u] \in {"next", "cas", "pushcas", "freecas"} => old[u] = head
                        /\ pc[u] = "cas" => new[u] = nxt'[head.obj]
                        /\ pc[u] \in {"pushcas", "freecas"} => nxt'[fresh[u].lo] = head.obj
    BY <1>0 DEF Fresh
  <2>2. pc[u] = "cas" => head.obj # Nil
    BY <2>1, NoObject DEF Fresh, Ranges
  <2> QED BY <2>1, <2>2, <1>2 DEF Fresh
<1> QED BY <1>2, <1>3, <1>4, <1>5

(* oxb_slab_free takes an object from its user and links it to the head.   *)
LEMMA FreeLoadInv ==
    ASSUME SlabInv, NEW t \in Threads, NEW o \in Objs, FreeLoad(t, o)
    PROVE  SlabInv'
<1> USE DEF SlabInv, SlabCorrect
<1>0. /\ head' = head /\ stack' = stack /\ nxt' = [nxt EXCEPT ![o] = head.obj]
      /\ slabs' = slabs /\ capacity' = capacity /\ lock' = lock /\ new' = new
      /\ fresh' = [fresh EXCEPT ![t] = [lo |-> o, hi |-> o]]
      /\ held' = [held EXCEPT ![t] = @ \ {o}]
      /\ old' = [old EXCEPT ![t] = head]
      /\ pc[t] = "idle" /\ pc' = [pc EXCEPT ![t] = "freecas"] /\ o \in held[t]
  BY DEF FreeLoad, Goto
<1>1. /\ head \in HeadType /\ fresh \in [Threads -> [lo: Int, hi: Int]]
      /\ old \in [Threads -> HeadType] /\ head.obj \in Ptr \cup {Junk}
      /\ held \in [Threads -> SUBSET Objs] /\ o \in Nat
      /\ pc \in [Threads -> {"idle", "retry", "next", "cas", "grow", "check",
                             "push", "pushcas", "freecas"}]
  BY NoObject DEF TypeOK, HeadType
<1>2. o \in Own(t)
  BY <1>0 DEF Own
<1>3. /\ Linked'
      /\ head.obj # Nil => nxt'[head.obj] = nxt[head.obj]
      /\ \A u \in Threads \ {t} : pc[u] \in {"pushcas", "freecas"} =>
            nxt'[fresh[u].lo] = nxt[fresh[u].lo]
      /\ nxt'[o] = head.obj /\ nxt' \in [Objs -> Ptr \cup {Junk}]
  BY <1>0, <1>1, <1>2, OwnLink
<1>4. \A u \in Threads \ {t} : /\ old'[u] = old[u] /\ pc'[u] = pc[u]
                               /\ fresh'[u] = fresh[u] /\ held'[u] = held[u]
  BY <1>0, <1>1
<1>5. /\ old'[t] = head /\ pc'[t] = "freecas" /\ fresh'[t] = [lo |-> o, hi |-> o]
      /\ held'[t] = held[t] \ {o}
  BY <1>0, <1>1
<1>6. TypeOK'
  <2>1. pc' \in [Threads -> {"idle", "retry", "next", "cas", "grow", "check",
                             "push", "pushcas", "freecas"}]
    BY <1>0, <1>1
  <2>2. old' \in [Threads -> HeadType] /\ held' \in [Threads -> SUBSET Objs]
    BY <1>0, <1>1
  <2>3. fresh' \in [Threads -> [lo: Int, hi: Int]]
    BY <1>0, <1>1
  <2> QED BY <2>1, <2>2, <2>3, <1>0, <1>3 DEF TypeOK
<1>7. NoSharing' /\ NoLeak'
  <2>1. Pushing(t) = {}
    BY <1>0, <1>1 DEF Ranges, Pushing
  <2>2. Pushing(t)' = {o}
    BY <1>1, <1>5 DEF Pushing
  <2>3. \A u \in Threads \ {t} : Pushing(u)' = Pushing(u)
    BY <1>4 DEF Pushing
  <2>4. \A u \in Threads : held'[u] \cup Pushing(u)' = held[u] \cup Pushing(u)
    BY <2>1, <2>2, <2>3, <1>0, <1>4, <1>5
  <2>5. \A u \in Threads : held'[u] \cap Pushing(u)' = {}
    BY <2>2, <2>3, <1>4, <1>5 DEF NoSharing
  <2>6. NoSharing'
    BY <2>4, <2>5, <1>0 DEF NoSharing
  <2>7. UNION {held'[u] \cup Pushing(u)' : u \in Threads}
          = UNION {held[u] \cup Pushing(u) : u \in Threads}
    BY <2>4
  <2>8. NoLeak'
    BY <2>7, <1>0 DEF NoLeak
  <2> QED BY <2>6, <2>8
<1>8. Versions'
  BY <1>0, <1>1, <1>4, <1>5 DEF Versions, HeadType
<1>9. Fresh'
  <2>1. SUFFICES ASSUME NEW u \in Threads, old'[u].ver = head.ver
                 PROVE  /\ pc'[u] \in {"next", "cas", "pushcas", "freecas"} => old'[u] = head
                        /\ pc'[u] = "cas" => new[u] = nxt'[head.obj]
                        /\ pc'[u] \in {"pushcas", "freecas"} => nxt'[fresh'[u].lo] = head.obj
    BY <1>0 DEF Fresh
  <2>2. CASE u # t
    <3>1. pc[u] = "cas" => head.obj # Nil
      BY <2>1, <2>2, <1>4, NoObject DEF Fresh, Ranges
    <3> QED BY <2>1, <2>2, <1>3, <1>4, <3>1 DEF Fresh
  <2>3. CASE u = t
    BY <2>1, <2>3, <1>3, <1>5
  <2> QED BY <2>2, <2>3
<1>10. Ranges'
  BY <1>1, <1>4, <1>5 DEF Ranges
<1> QED BY <1>3, <1>6, <1>7, <1>8, <1>9, <1>10

(* oxb_slab_grow brings a slab nobody has an object of.                    *)
LEMMA GrowSlabInv ==
    ASSUME SlabInv, NEW t \in Threads, GrowSlab(t)
    PROVE  SlabInv'
<1> USE DEF SlabInv, SlabCorrect
<1> DEFINE a == slabs * PerSlab
           b == (slabs + 1) * PerSlab
<1>0. /\ head' = head /\ stack' = stack /\ nxt' = nxt /\ new' = new
      /\ held' = held /\ old' = old /\ lock' = Nil
      /\ slabs' = slabs + 1 /\ slabs < MaxSlabs
      /\ capacity' = IF slabs >= capacity THEN capacity * 2 ELSE capacity
      /\ fresh' = [fresh EXCEPT ![t] = [lo |-> a, hi |-> b - 1]]
      /\ pc[t] = "check" /\ pc' = [pc EXCEPT ![t] = "push"]
  BY DEF GrowSlab, SlabRange, Goto
<1>1. /\ fresh \in [Threads -> [lo: Int, hi: Int]]
      /\ pc \in [Threads -> {"idle", "retry", "next", "cas", "grow", "check",
                             "push", "pushcas", "freecas"}]
      /\ slabs \in InitSlabs .. MaxSlabs /\ slabs + 1 \in InitSlabs .. MaxSlabs
  BY <1>0, SlabAssumption DEF TypeOK
<1>2. /\ a \in Nat /\ b \in Nat /\ PerSlab \in Nat /\ PerSlab >= 1 /\ b = a + PerSlab
      /\ 0 .. b - 1 \subseteq Objs
  BY <1>1, SlabObjs, SlabAssumption
<1>3. slabs' * PerSlab = b
  BY <1>0
<1> HIDE DEF a, b
<1>4. \A u \in Threads \ {t} : pc'[u] = pc[u] /\ fresh'[u] = fresh[u]
  BY <1>0, <1>1
<1>5. pc'[t] = "push" /\ fresh'[t] = [lo |-> a, hi |-> b - 1]
  BY <1>0, <1>1
<1>6. TypeOK'
  <2>1. /\ pc' \in [Threads -> {"idle", "retry", "next", "cas", "grow", "check",
                                "push", "pushcas", "freecas"}]
        /\ lock' \in Threads \cup {Nil}
    BY <1>0, <1>1
  <2>2. fresh' \in [Threads -> [lo: Int, hi: Int]]
    BY <1>0, <1>1, <1>2
  <2>3. capacity' \in Nat /\ slabs' \in InitSlabs .. MaxSlabs
    BY <1>0, <1>1 DEF TypeOK
  <2> QED BY <2>1, <2>2, <2>3, <1>0 DEF TypeOK
<1>7. Linked' /\ Versions'
  BY <1>0 DEF Linked, Versions, Top
<1>8. Pushing(t) = {} /\ Pushing(t)' = a .. b - 1
  BY <1>0, <1>1, <1>5 DEF Ranges, Pushing
<1>9. \A u \in Threads \ {t} : Pushing(u)' = Pushing(u)
  BY <1>4 DEF Pushing
<1>10. /\ \A u \in Threads : (held[u] \cup Pushing(u)) \cap (a .. b - 1) = {}
       /\ \A i \in 1 .. Len(stack) : stack[i] \notin a .. b - 1
  <2>1. (0 .. a - 1) \cap (a .. b - 1) = {}
    BY <1>2
  <2>2. \A u \in Threads : held[u] \cup Pushing(u) \subseteq 0 .. a - 1
    BY Owners DEF Own, a
  <2>3. OnList \subseteq 0 .. a - 1
    BY Owners DEF a
  <2> QED BY <2>1, <2>2, <2>3 DEF OnList
<1>11. NoSharing'
  <2>1. \A u \in Threads : held'[u] \cap Pushing(u)' = {}
    BY <1>0, <1>8, <1>9, <1>10 DEF NoSharing
  <2>2. \A u \in Threads : \A i \in 1 .. Len(stack) :
            stack[i] \notin held'[u] \cup Pushing(u)'
    BY <1>0, <1>8, <1>9, <1>10 DEF NoSharing
  <2>3. \A u, v \in Threads : u # v =>
            (held'[u] \cup Pushing(u)') \cap (held'[v] \cup Pushing(v)') = {}
    BY <1>0, <1>8, <1>9, <1>10 DEF NoSharing
  <2> QED BY <2>1, <2>2, <2>3, <1>0 DEF NoSharing
<1>12. NoLeak'
  <2>1. 0 .. b - 1 = (0 .. a - 1) \cup (a .. b - 1)
    BY <1>2
  <2>2. UNION {held'[u] \cup Pushing(u)' : u \in Threads}
          = (a .. b - 1) \cup UNION {held[u] \cup Pushing(u) : u \in Threads}
    <3>1. held'[t] \cup Pushing(t)' = (a .. b - 1) \cup held[t] \cup Pushing(t)
      BY <1>0, <1>8
    <3>2. \A u \in Threads \ {t} : held'[u] \cup Pushing(u)' = held[u] \cup Pushing(u)
      BY <1>0, <1>9
    <3> HIDE DEF Pushing
    <3> QED BY <3>1, <3>2
  <2>3. 0 .. a - 1 = {stack[i] : i \in 1 .. Len(stack)}
                       \cup UNION {held[u] \cup Pushing(u) : u \in Threads}
    BY DEF NoLeak, a
  <2> QED BY <2>1, <2>2, <2>3, <1>0, <1>3 DEF NoLeak
<1>13. Fresh'
  BY <1>0, <1>4, <1>5 DEF Fresh
<1>14. Ranges'
  BY <1>0, <1>1, <1>2, <1>4, <1>5 DEF Ranges
<1> QED BY <1>6, <1>7, <1>11, <1>12, <1>13, <1>14

-----------------------------------------------------------------------------
(* The exchange of oxb_slab_alloc takes the head off the list.             *)
LEMMA AllocCasInv ==
    ASSUME SlabInv, NEW t \in Threads, AllocCas(t)
    PROVE  SlabInv'
<1> USE DEF SlabInv, SlabCorrect
<1> DEFINE o == head.obj
           n == Len(stack)
<1>0. /\ head' = [obj |-> new[t], ver |-> head.ver + 1]
      /\ held' = [held EXCEPT ![t] = @ \cup {o}]
      /\ stack' = Pop(stack) /\ pc[t] = "cas" /\ pc' = [pc EXCEPT ![t] = "idle"]
      /\ nxt' = nxt /\ slabs' = slabs /\ capacity' = capacity /\ lock' = lock
      /\ old' = old /\ new' = new /\ fresh' = fresh /\ old[t] = head
  BY DEF AllocCas, SameHead, Goto
<1>1. /\ head \in HeadType /\ fresh \in [Threads -> [lo: Int, hi: Int]]
      /\ old \in [Threads -> HeadType] /\ held \in [Threads -> SUBSET Objs]
      /\ stack \in Seq(Objs) /\ head.ver \in Nat
      /\ pc \in [Threads -> {"idle", "retry", "next", "cas", "grow", "check",
                             "push", "pushcas", "freecas"}]
  BY DEF TypeOK, HeadType
<1>2. o # Nil /\ new[t] = nxt[o]
  BY <1>0, NoObject DEF Ranges, Fresh
<1>3. /\ stack # <<>> /\ n \in Nat /\ n >= 1 /\ o = stack[n] /\ o \in OnList /\ o \in Objs
  BY <1>2, HeadOnList
<1>4. /\ stack' \in Seq(Objs) /\ Len(stack') = n - 1
      /\ \A i \in 1 .. n - 1 : stack'[i] = stack[i]
  BY <1>0, <1>1, <1>3, PopProps
<1> HIDE DEF o
<1>5. new[t] = IF n = 1 THEN Nil ELSE stack[n - 1]
  <2>1. \A i \in 1 .. n : nxt[stack[i]] = IF i = 1 THEN Nil ELSE stack[i - 1]
    BY DEF Linked
  <2>2. n \in 1 .. n
    BY <1>3
  <2> QED BY <2>1, <2>2, <1>2, <1>3
<1>6. new[t] \in Ptr
  <2>0. \A i \in 1 .. n : stack[i] \in Objs
    BY <1>1
  <2>1. n # 1 => n - 1 \in 1 .. n
    <3>1. n \in Nat /\ n >= 1
      BY <1>3
    <3> HIDE DEF n
    <3> QED BY <3>1
  <2>2. n # 1 => stack[n - 1] \in Objs
    BY <2>0, <2>1
  <2> QED BY <1>5, <2>2 DEF Ptr
<1>7. /\ \A u \in Threads \ {t} : pc'[u] = pc[u] /\ held'[u] = held[u]
      /\ pc'[t] = "idle" /\ held'[t] = held[t] \cup {o}
  BY <1>0, <1>1
<1>8. TypeOK'
  <2>1. head' \in HeadType
    BY <1>0, <1>1, <1>6 DEF HeadType
  <2>2. /\ pc' \in [Threads -> {"idle", "retry", "next", "cas", "grow", "check",
                                "push", "pushcas", "freecas"}]
        /\ held' \in [Threads -> SUBSET Objs]
    BY <1>0, <1>1, <1>3
  <2> QED BY <2>1, <2>2, <1>0, <1>4 DEF TypeOK
<1>9. Linked'
  <2>1. head'.obj = Top(stack')
    <3>1. CASE n = 1
      <4>1. stack' = <<>>
        BY <3>1, <1>4
      <4> QED BY <3>1, <4>1, <1>0, <1>5 DEF Top
    <3>2. CASE n # 1
      <4>1. stack' # <<>> /\ stack'[Len(stack')] = stack[n - 1]
        BY <3>2, <1>3, <1>4
      <4> QED BY <3>2, <4>1, <1>0, <1>5 DEF Top
    <3> QED BY <3>1, <3>2
  <2>2. \A i \in 1 .. Len(stack') :
           nxt'[stack'[i]] = IF i = 1 THEN Nil ELSE stack'[i - 1]
    <3>1. SUFFICES ASSUME NEW i \in 1 .. n - 1
                   PROVE  nxt[stack'[i]] = IF i = 1 THEN Nil ELSE stack'[i - 1]
      BY <1>0, <1>4
    <3>2. i \in 1 .. n /\ stack'[i] = stack[i] /\ (i # 1 => stack'[i - 1] = stack[i - 1])
      BY <1>3, <1>4
    <3> QED BY <3>2 DEF Linked
  <2> QED BY <2>1, <2>2 DEF Linked
<1>10. \A u \in Threads : Pushing(u)' = Pushing(u)
  BY <1>0 DEF Pushing
<1>11. /\ \A i \in 1 .. n - 1 : stack[i] # o
       /\ OnList = {stack'[i] : i \in 1 .. Len(stack')} \cup {o}
  <2>1. \A i \in 1 .. n - 1 : i \in 1 .. n /\ i # n /\ n \in 1 .. n
    BY <1>3
  <2>2. \A i \in 1 .. n - 1 : stack[i] # o
    BY <2>1, <1>3 DEF NoSharing
  <2>3. 1 .. n = (1 .. n - 1) \cup {n}
    BY <1>3
  <2> QED BY <2>2, <2>3, <1>3, <1>4 DEF OnList
<1>12. NoSharing'
  <2>1. \A i, j \in 1 .. Len(stack') : stack'[i] = stack'[j] => i = j
    <3>1. 1 .. n - 1 \subseteq 1 .. n
      BY <1>3
    <3> QED BY <3>1, <1>4 DEF NoSharing
  <2>2. \A u \in Threads : \A i \in 1 .. Len(stack') :
            stack'[i] \notin held'[u] \cup Pushing(u)'
    <3>1. 1 .. n - 1 \subseteq 1 .. n
      BY <1>3
    <3> QED BY <3>1, <1>4, <1>7, <1>10, <1>11 DEF NoSharing
  <2>3. \A u \in Threads : o \notin held[u] /\ o \notin Pushing(u)
    BY <1>3, Owners DEF Own
  <2>4. \A u \in Threads : held'[u] \cap Pushing(u)' = {}
    BY <2>3, <1>7, <1>10 DEF NoSharing
  <2>5. \A u, v \in Threads : u # v =>
            (held'[u] \cup Pushing(u)') \cap (held'[v] \cup Pushing(v)') = {}
    BY <2>3, <1>7, <1>10 DEF NoSharing
  <2> QED BY <2>1, <2>2, <2>4, <2>5 DEF NoSharing
<1>13. NoLeak'
  <2>1. UNION {held'[u] \cup Pushing(u)' : u \in Threads}
          = {o} \cup UNION {held[u] \cup Pushing(u) : u \in Threads}
    BY <1>7, <1>10
  <2>2. 0 .. slabs * PerSlab - 1
          = OnList \cup UNION {held[u] \cup Pushing(u) : u \in Threads}
    BY DEF NoLeak, OnList
  <2> QED BY <2>1, <2>2, <1>0, <1>11 DEF NoLeak
<1>14. Versions'
  BY <1>0, <1>1 DEF Versions, HeadType
<1>15. \A u \in Threads : old'[u].ver # head'.ver
  BY <1>0, <1>1 DEF Versions, HeadType
<1>16. Fresh'
  BY <1>15 DEF Fresh
<1>17. Ranges'
  BY <1>0, <1>7 DEF Ranges
<1> QED BY <1>8, <1>9, <1>12, <1>13, <1>14, <1>16, <1>17

(* The exchange of oxb_slab_free, and of oxb_slab_grow for each object of  *)
(* a new slab, puts an object on the list.                                 *)
LEMMA PublishInv ==
    ASSUME SlabInv, NEW t \in Threads, PushCas(t) \/ FreeCas(t)
    PROVE  SlabInv'
<1> USE DEF SlabInv, SlabCorrect
<1> DEFINE o == fresh[t].lo
           n == Len(stack)
<1>0. /\ head' = [obj |-> o, ver |-> head.ver + 1]
      /\ stack' = Append(stack, o) /\ fresh' = [fresh EXCEPT ![t].lo = @ + 1]
      /\ nxt' = nxt /\ slabs' = slabs /\ capacity' = capacity /\ lock' = lock
      /\ old' = old /\ new' = new /\ held' = held /\ old[t] = head
  BY DEF PushCas, FreeCas, SameHead
<1>1. \/ /\ pc[t] = "pushcas"
         /\ pc' = [pc EXCEPT ![t] = IF o = fresh[t].hi THEN "retry" ELSE "push"]
      \/ pc[t] = "freecas" /\ pc' = [pc EXCEPT ![t] = "idle"]
  BY DEF PushCas, FreeCas, LastPushed, Goto
<1>2. /\ head \in HeadType /\ fresh \in [Threads -> [lo: Int, hi: Int]]
      /\ old \in [Threads -> HeadType] /\ held \in [Threads -> SUBSET Objs]
      /\ stack \in Seq(Objs) /\ head.ver \in Nat /\ n \in Nat
      /\ pc \in [Threads -> {"idle", "retry", "next", "cas", "grow", "check",
                             "push", "pushcas", "freecas"}]
  BY DEF TypeOK, HeadType
<1>3. /\ o \in Objs /\ o \in Pushing(t) /\ o \in Nat /\ nxt[o] = head.obj
      /\ fresh[t].hi \in Objs /\ fresh[t].hi \in Nat /\ o <= fresh[t].hi
      /\ pc[t] = "freecas" => o = fresh[t].hi
  <2>1. pc[t] \in {"pushcas", "freecas"} /\ old[t].ver = head.ver
    BY <1>0, <1>1
  <2>2. nxt[o] = head.obj
    BY <2>1 DEF Fresh
  <2>3. o \in Objs /\ o \in Pushing(t)
    BY <2>1, Owners
  <2> QED BY <2>1, <2>2, <2>3, NoObject DEF Ranges
<1>4. /\ stack' \in Seq(Objs) /\ Len(stack') = n + 1 /\ stack'[n + 1] = o
      /\ \A i \in 1 .. n : stack'[i] = stack[i]
  BY <1>0, <1>2, <1>3
<1>5. /\ \A u \in Threads \ {t} : pc'[u] = pc[u] /\ fresh'[u] = fresh[u]
      /\ fresh'[t] = [lo |-> o + 1, hi |-> fresh[t].hi]
  BY <1>0, <1>1, <1>2
<1>6. /\ pc'[t] \in {"retry", "push", "idle"}
      /\ pc'[t] = "push" <=> o # fresh[t].hi
  BY <1>1, <1>2, <1>3
<1> HIDE DEF o
<1>7. TypeOK'
  <2>1. head' \in HeadType
    BY <1>0, <1>2, <1>3 DEF HeadType, Ptr
  <2>2. pc' \in [Threads -> {"idle", "retry", "next", "cas", "grow", "check",
                             "push", "pushcas", "freecas"}]
    BY <1>1, <1>2
  <2>3. fresh' \in [Threads -> [lo: Int, hi: Int]]
    <3>1. fresh' = [fresh EXCEPT ![t] = [fresh[t] EXCEPT !.lo = @ + 1]]
      BY <1>0
    <3>2. [fresh[t] EXCEPT !.lo = @ + 1] \in [lo: Int, hi: Int]
      <4>1. \A r \in [lo: Int, hi: Int] : [r EXCEPT !.lo = @ + 1] \in [lo: Int, hi: Int]
        OBVIOUS
      <4> QED BY <4>1, <1>2
    <3> QED BY <3>1, <3>2, <1>2
  <2> QED BY <2>1, <2>2, <2>3, <1>0, <1>4 DEF TypeOK
<1>8. Linked'
  <2>1. head'.obj = Top(stack')
    <3>1. stack' # <<>>
      BY <1>2, <1>4
    <3> QED BY <3>1, <1>0, <1>4 DEF Top
  <2>2. head.obj = IF n + 1 = 1 THEN Nil ELSE stack[n]
    <3>1. CASE stack = <<>>
      BY <3>1 DEF Linked, Top
    <3>2. CASE stack # <<>>
      <4>1. n + 1 # 1
        BY <3>2, <1>2
      <4> QED BY <3>2, <4>1 DEF Linked, Top
    <3> QED BY <3>1, <3>2
  <2>3. SUFFICES ASSUME NEW i \in 1 .. n + 1
                 PROVE  nxt[stack'[i]] = IF i = 1 THEN Nil ELSE stack'[i - 1]
    BY <2>1, <1>0, <1>4 DEF Linked
  <2>4. CASE i = n + 1
    <3>1. n + 1 # 1 => stack'[n] = stack[n] /\ n + 1 - 1 = n
      BY <1>2, <1>4
    <3>2. nxt[stack'[i]] = head.obj
      BY <2>4, <1>3, <1>4
    <3> QED BY <2>2, <2>4, <3>1, <3>2
  <2>5. CASE i # n + 1
    <3>1. i \in 1 .. n /\ (i # 1 => i - 1 \in 1 .. n)
      BY <2>3, <2>5, <1>2
    <3> QED BY <3>1, <1>4 DEF Linked
  <2> QED BY <2>4, <2>5
<1>9. /\ \A u \in Threads \ {t} : Pushing(u)' = Pushing(u)
      /\ Pushing(t)' = Pushing(t) \ {o}
  <2>1. \A u \in Threads \ {t} : Pushing(u)' = Pushing(u)
    BY <1>5 DEF Pushing
  <2>2. Pushing(t) = o .. fresh[t].hi /\ Pushing(t)' = o + 1 .. fresh[t].hi
    BY <1>5 DEF Pushing, o
  <2>3. o + 1 .. fresh[t].hi = (o .. fresh[t].hi) \ {o}
    BY <1>3
  <2> QED BY <2>1, <2>2, <2>3
<1>10. {stack'[i] : i \in 1 .. Len(stack')} = OnList \cup {o}
  <2>1. 1 .. n + 1 = (1 .. n) \cup {n + 1}
    BY <1>2
  <2> QED BY <2>1, <1>4 DEF OnList
<1>11. o \notin OnList /\ \A u \in Threads : o \notin held[u] /\ (u # t => o \notin Pushing(u))
  <2>1. o \in Own(t)
    BY <1>3 DEF Own
  <2>2. o \notin held[t]
    BY <1>3, Owners
  <2> QED BY <2>1, <2>2, Owners DEF Own
<1>12. NoSharing'
  <2>0. \A i \in 1 .. n + 1 : i # n + 1 => i \in 1 .. n /\ stack'[i] = stack[i]
    BY <1>2, <1>4
  <2>1. \A i, j \in 1 .. Len(stack') : stack'[i] = stack'[j] => i = j
    <3>1. SUFFICES ASSUME NEW i \in 1 .. n + 1, NEW j \in 1 .. n + 1,
                          stack'[i] = stack'[j]
                   PROVE  i = j
      BY <1>4
    <3>2. CASE i # n + 1 /\ j # n + 1
      BY <3>1, <3>2, <2>0 DEF NoSharing
    <3>3. CASE i = n + 1 /\ j # n + 1
      BY <3>1, <3>3, <2>0, <1>4, <1>11 DEF OnList
    <3>4. CASE i # n + 1 /\ j = n + 1
      BY <3>1, <3>4, <2>0, <1>4, <1>11 DEF OnList
    <3> QED BY <3>2, <3>3, <3>4
  <2>2. \A u \in Threads : \A i \in 1 .. Len(stack') :
            stack'[i] \notin held'[u] \cup Pushing(u)'
    <3>1. \A u \in Threads : \A i \in 1 .. n : stack[i] \notin held'[u] \cup Pushing(u)'
      BY <1>0, <1>9 DEF NoSharing
    <3>2. \A u \in Threads : o \notin held'[u] \cup Pushing(u)'
      BY <1>0, <1>9, <1>11
    <3> QED BY <2>0, <3>1, <3>2, <1>4
  <2>3. \A u \in Threads : held'[u] \cap Pushing(u)' = {}
    BY <1>0, <1>9 DEF NoSharing
  <2>4. \A u, v \in Threads : u # v =>
            (held'[u] \cup Pushing(u)') \cap (held'[v] \cup Pushing(v)') = {}
    BY <1>0, <1>9 DEF NoSharing
  <2> QED BY <2>1, <2>2, <2>3, <2>4 DEF NoSharing
<1>13. NoLeak'
  <2>1. {o} \cup UNION {held'[u] \cup Pushing(u)' : u \in Threads}
          = UNION {held[u] \cup Pushing(u) : u \in Threads}
    <3>1. {o} \cup held'[t] \cup Pushing(t)' = held[t] \cup Pushing(t)
      BY <1>0, <1>3, <1>9
    <3>2. \A u \in Threads \ {t} : held'[u] \cup Pushing(u)' = held[u] \cup Pushing(u)
      BY <1>0, <1>9
    <3> QED BY <3>1, <3>2
  <2>2. 0 .. slabs * PerSlab - 1
          = OnList \cup UNION {held[u] \cup Pushing(u) : u \in Threads}
    BY DEF NoLeak, OnList
  <2>3. 0 .. slabs * PerSlab - 1
          = (OnList \cup {o}) \cup UNION {held'[u] \cup Pushing(u)' : u \in Threads}
    BY <2>1, <2>2
  <2> QED BY <2>3, <1>0, <1>10 DEF NoLeak
<1>14. Versions'
  BY <1>0, <1>2 DEF Versions, HeadType
<1>15. \A u \in Threads : old'[u].ver # head'.ver
  BY <1>0, <1>2 DEF Versions, HeadType
<1>16. Fresh'
  BY <1>15 DEF Fresh
<1>17. Ranges'
  <2>1. SUFFICES ASSUME NEW u \in Threads
                 PROVE  /\ pc'[u] \in {"next", "cas"} => old'[u].obj \in Objs
                        /\ pc'[u] \in {"push", "pushcas", "freecas"} =>
                              /\ fresh'[u].lo \in Objs /\ fresh'[u].hi \in Objs
                              /\ fresh'[u].lo <= fresh'[u].hi
                        /\ pc'[u] = "freecas" => fresh'[u].lo = fresh'[u].hi
                        /\ pc'[u] \notin {"push", "pushcas", "freecas"} =>
                              fresh'[u].hi < fresh'[u].lo
    BY DEF Ranges
  <2>2. CASE u # t
    BY <2>2, <1>0, <1>5 DEF Ranges
  <2>3. CASE u = t
    <3>1. o # fresh[t].hi => o + 1 \in Objs
      <4>1. MaxSlabs * PerSlab \in Nat
        BY SlabAssumption, ProductMonotone
      <4> DEFINE h == fresh[t].hi
      <4>2. h \in Objs /\ o \in Nat /\ o <= h
        BY <1>3
      <4> HIDE DEF h
      <4>3. o # h => o + 1 \in Objs
        BY <4>1, <4>2 DEF Objs
      <4> QED BY <4>3 DEF h
    <3> QED BY <2>3, <3>1, <1>3, <1>5, <1>6
  <2> QED BY <2>2, <2>3
<1> QED BY <1>7, <1>8, <1>12, <1>13, <1>14, <1>16, <1>17

-----------------------------------------------------------------------------
(* Every step of the allocator keeps the invariant.                        *)
LEMMA StepInv == SlabInv /\ [Next]_vars => SlabInv'
<1> SUFFICES ASSUME SlabInv, [Next]_vars PROVE SlabInv'
  OBVIOUS
<1>1. ASSUME NEW t \in Threads, Quiet(t) PROVE SlabInv'
  BY <1>1, QuietInv
<1>2. ASSUME NEW t \in Threads, AllocCas(t) PROVE SlabInv'
  BY <1>2, AllocCasInv
<1>3. ASSUME NEW t \in Threads, GrowSlab(t) PROVE SlabInv'
  BY <1>3, GrowSlabInv
<1>4. ASSUME NEW t \in Threads, PushLoad(t) \/ FreeRetry(t) PROVE SlabInv'
  BY <1>4, RelinkInv
<1>5. ASSUME NEW t \in Threads, PushCas(t) \/ FreeCas(t) PROVE SlabInv'
  BY <1>5, PublishInv
<1>6. ASSUME NEW t \in Threads, NEW o \in Objs, FreeLoad(t, o) PROVE SlabInv'
  BY <1>6, FreeLoadInv
<1>7. ASSUME NEW t \in Threads, NEW o \in Objs, Use(t, o) PROVE SlabInv'
  BY <1>7, UseInv
<1>8. CASE UNCHANGED vars
  <2>1. /\ head' = head /\ nxt' = nxt /\ slabs' = slabs /\ capacity' = capacity
        /\ lock' = lock /\ pc' = pc /\ old' = old /\ new' = new /\ fresh' = fresh
        /\ held' = held /\ stack' = stack
    BY <1>8 DEF vars
  <2>2. TypeOK' /\ Linked' /\ Fresh' /\ Versions' /\ Ranges'
    BY <2>1 DEF SlabInv, SlabCorrect, TypeOK, Linked, Fresh, Versions, Ranges, Top
  <2>3. NoSharing' /\ NoLeak'
    BY <2>1 DEF SlabInv, SlabCorrect, NoSharing, NoLeak, Pushing
  <2> QED BY <2>2, <2>3 DEF SlabInv, SlabCorrect
<1> QED BY <1>1, <1>2, <1>3, <1>4, <1>5, <1>6, <1>7, <1>8 DEF Next, Quiet

(* The invariant holds in every state of oxb_slab.c.                       *)
THEOREM SlabInvariant == Spec => []SlabInv
<1> QED BY InitInv, StepInv, PTL DEF Spec

(* Whatever the threads, the slabs and the interleaving of oxb_slab_alloc, *)
(* oxb_slab_grow and oxb_slab_free: the free list is a list that ends in   *)
(* NULL, every object of the slabs is on it once or with exactly one       *)
(* thread, and none is lost.                                               *)
THEOREM SlabIsSound == Spec => []SlabCorrect
<1>1. SlabInv => SlabCorrect
  BY DEF SlabInv
<1> QED BY <1>1, SlabInvariant, PTL
=============================================================================
