------------------------- MODULE ContextPool_proofs -------------------------
(***************************************************************************)
(* For any number of threads and contexts: ContextsExclusive and           *)
(* ExitsOnlyWhenFull of the array, and, where no frameless profiled        *)
(* function calls a framed one, that the wrappers use the array as it      *)
(* assumes and that their returns are intact.                              *)
(***************************************************************************)
EXTENDS ContextPool, TLAPS

N == CONTEXT_PREALLOCATED_NUMBER

ArrayType ==
    /\ variant \in {"x86_64", "cdecl"}
    /\ realReturnAddr \in [Contexts -> Addresses \cup {NULL, STUB}]
    /\ freeContextNumber \in 0..N
    /\ at \in [Threads -> {"out", "lock", "look", "mark", "bump", "unlock", "full", "exit"}]
    /\ i \in [Threads -> Nat]
    /\ owned \in [Threads -> SUBSET Contexts]
    /\ busy \in [Threads -> SUBSET Contexts]

InSection(t) == at[t] \in {"look", "mark", "bump", "unlock", "full"}

\* The lock is held by the one thread that is in the critical section.
Locked ==
    /\ \A t \in Threads : InSection(t) => spinlock = TRUE
    /\ \A t, u \in Threads : InSection(t) /\ InSection(u) => t = u

\* The contexts that the array has handed out are those of the threads.
Ownership ==
    /\ \A t, u \in Threads : t # u => owned[t] \cap owned[u] = {}
    /\ variant = "x86_64" =>
          \A c \in Contexts : realReturnAddr[c] # NULL <=> \E t \in Threads : c \in owned[t]
    /\ variant = "cdecl" => \A t \in Threads : owned[t] \subseteq 1..freeContextNumber

\* A search has passed only contexts that were in use when it began, and
\* while it goes on no other context comes into use.
Search ==
    \A t \in Threads :
        /\ at[t] \in {"look", "mark", "full"} => variant = "x86_64"
        /\ at[t] = "bump" => variant = "cdecl"
        /\ at[t] = "look" => /\ i[t] \in 1..(N + 1)
                             /\ 1..(i[t] - 1) \subseteq busy[t]
                             /\ InUse \subseteq busy[t]
        /\ at[t] = "mark" => i[t] \in Contexts /\ realReturnAddr[i[t]] = NULL
        /\ at[t] \in {"full", "exit"} =>
              IF variant = "cdecl" THEN freeContextNumber = N ELSE busy[t] = Contexts

ArrayInv == ArrayType /\ Locked /\ Ownership /\ Search

USE DEF N

-----------------------------------------------------------------------------

\* An array of which nothing has been handed out satisfies the invariant.
LEMMA ArrayInitially == ArrayInit => ArrayInv
  <1> SUFFICES ASSUME ArrayInit PROVE ArrayInv
    OBVIOUS
  <1> USE ArrayAssumption DEF ArrayInit
  <1>1. ArrayType
    BY SMTT(30) DEF ArrayType, Contexts
  <1>2. Locked
    BY Zenon DEF Locked, InSection
  <1>3. Ownership
    BY Zenon DEF Ownership
  <1>4. Search
    BY ZenonT(60) DEF Search
  <1> QED
    BY <1>1, <1>2, <1>3, <1>4, Zenon DEF ArrayInv

\* What is not touched by a step that moves one thread.
LEMMA Moved ==
    ASSUME ArrayType, NEW t \in Threads, NEW from, NEW to, Move(t, from, to)
    PROVE  /\ at[t] = from /\ at'[t] = to
           /\ \A u \in Threads \ {t} : at'[u] = at[u]
  BY Zenon DEF ArrayType, Move

\* Every step of the array and of its users keeps the types.
LEMMA TypeStep ==
    ASSUME ArrayType, Search, [ArrayNext]_arrayVars
    PROVE  ArrayType'
  <1> USE ArrayAssumption DEF ArrayType, Contexts
  <1>1. CASE UNCHANGED arrayVars
    BY <1>1, Zenon DEF arrayVars
  <1>2. ASSUME NEW t \in Threads, Enter(t) PROVE ArrayType'
    BY <1>2, Zenon DEF Enter, Move
  <1>3. ASSUME NEW t \in Threads, Acquire(t) PROVE ArrayType'
    BY <1>3, Zenon DEF Acquire, Move, InUse
  <1>4. ASSUME NEW t \in Threads, Look(t) PROVE ArrayType'
    BY <1>4 DEF Look, Move
  <1>5. ASSUME NEW t \in Threads, Mark(t) PROVE ArrayType'
    BY <1>5 DEF Mark, Move, Search
  <1>6. ASSUME NEW t \in Threads, Bump(t) PROVE ArrayType'
    BY <1>6 DEF Bump, Move
  <1>7. ASSUME NEW t \in Threads, BumpFull(t) PROVE ArrayType'
    BY <1>7, Zenon DEF BumpFull, Move
  <1>8. ASSUME NEW t \in Threads, Unlock(t) PROVE ArrayType'
    BY <1>8, ZenonT(60) DEF Unlock, Move
  <1>9. ASSUME NEW t \in Threads, Exit(t) PROVE ArrayType'
    BY <1>9, Zenon DEF Exit, Move
  <1>10. ASSUME NEW t \in Threads, NEW c \in owned[t], NEW a \in Addresses, Store(t, c, a)
         PROVE  ArrayType'
    BY <1>10, Zenon DEF Store, Move
  <1>11. ASSUME NEW t \in Threads, NEW c \in owned[t], Release(t, c) PROVE ArrayType'
    BY <1>11, Zenon DEF Release, Move
  <1> QED
    BY <1>1, <1>2, <1>3, <1>4, <1>5, <1>6, <1>7, <1>8, <1>9, <1>10, <1>11
     , Zenon DEF ArrayNext, GetNewContext

\* Acquire lets in one thread, and only Unlock opens the lock.
LEMMA LockedStep ==
    ASSUME ArrayType, Locked, [ArrayNext]_arrayVars
    PROVE  Locked'
  <1> USE DEF Locked, InSection
  <1>1. CASE UNCHANGED arrayVars
    BY <1>1, Zenon DEF arrayVars
  <1>2. ASSUME NEW t \in Threads, Enter(t) PROVE Locked'
    BY <1>2, Moved DEF Enter
  <1>3. ASSUME NEW t \in Threads, Acquire(t) PROVE Locked'
    BY <1>3, Moved, Zenon DEF Acquire
  <1>4. ASSUME NEW t \in Threads, Look(t) \/ Mark(t) \/ Bump(t) \/ BumpFull(t) PROVE Locked'
    BY <1>4, Moved, Zenon DEF Look, Mark, Bump, BumpFull
  <1>5. ASSUME NEW t \in Threads, Unlock(t) PROVE Locked'
    BY <1>5, Moved DEF Unlock
  <1>6. ASSUME NEW t \in Threads, NEW c, NEW a,
               Exit(t) \/ Store(t, c, a) \/ Release(t, c)
        PROVE  Locked'
    BY <1>6, Moved, Zenon DEF Exit, Store, Release
  <1> QED
    BY <1>1, <1>2, <1>3, <1>4, <1>5, <1>6, ZenonT(60) DEF ArrayNext, GetNewContext

\* Mark and Bump hand out a context that nobody has; Release takes one back.
LEMMA OwnershipStep ==
    ASSUME ArrayType, Ownership, Search, [ArrayNext]_arrayVars
    PROVE  Ownership'
  <1> USE ArrayAssumption DEF Ownership
  <1>1. CASE UNCHANGED <<variant, realReturnAddr, freeContextNumber, owned>>
    BY <1>1, Zenon
  <1>2. ASSUME NEW t \in Threads, Mark(t) PROVE Ownership'
    <2>1. at[t] = "mark" /\ i[t] \in Contexts /\ realReturnAddr[i[t]] = NULL /\ variant = "x86_64"
      BY <1>2, Zenon DEF Mark, Move, Search
    <2>2. \A u \in Threads : i[t] \notin owned[u]
      BY <2>1, Zenon DEF ArrayType
    <2> QED
      BY <1>2, <2>1, <2>2 DEF Mark, ArrayType
  <1>3. ASSUME NEW t \in Threads, Bump(t) PROVE Ownership'
    <2>1. variant = "cdecl"
      BY <1>3, Zenon DEF Bump, Move, Search
    <2>2. \A u \in Threads : freeContextNumber + 1 \notin owned[u]
      BY <2>1 DEF ArrayType
    <2> QED
      BY <1>3, <2>1, <2>2 DEF Bump, ArrayType
  <1>4. ASSUME NEW t \in Threads, NEW c \in owned[t], NEW a \in Addresses, Store(t, c, a)
        PROVE  Ownership'
    BY <1>4, Zenon DEF Store, ArrayType
  <1>5. ASSUME NEW t \in Threads, NEW c \in owned[t], Release(t, c) PROVE Ownership'
    BY <1>5 DEF Release, ArrayType
  <1>6. ASSUME NEW t \in Threads,
               Enter(t) \/ Acquire(t) \/ Look(t) \/ BumpFull(t) \/ Unlock(t) \/ Exit(t)
        PROVE  Ownership'
    BY <1>6, <1>1, Zenon DEF Enter, Acquire, Look, BumpFull, Unlock, Exit
  <1> QED
    BY <1>1, <1>2, <1>3, <1>4, <1>5, <1>6, Zenon DEF ArrayNext, GetNewContext, arrayVars

\* What a search has seen stays true although others release contexts.
LEMMA SearchStep ==
    ASSUME ArrayType, ArrayType', Locked, Ownership, Search, [ArrayNext]_arrayVars
    PROVE  Search'
  <1> USE ArrayAssumption
  <1>1. CASE UNCHANGED arrayVars
    BY <1>1, Zenon DEF arrayVars, Search, InUse
  <1>2. ASSUME NEW t \in Threads, Enter(t) PROVE Search'
    BY <1>2, Moved DEF Enter, Search, InUse
  <1>3. ASSUME NEW t \in Threads, Acquire(t) PROVE Search'
    <2>1. /\ UNCHANGED <<variant, realReturnAddr, freeContextNumber>>
          /\ \A u \in Threads \ {t} : UNCHANGED <<i[u], busy[u]>>
          /\ i'[t] = 1 /\ busy'[t] = InUse
      BY <1>3, Zenon DEF Acquire, ArrayType
    <2>2. at'[t] = IF variant = "cdecl" THEN "bump" ELSE "look"
      BY <1>3, Moved, Zenon DEF Acquire
    <2>3. \A u \in Threads \ {t} : at'[u] = at[u]
      BY <1>3, Moved, Zenon DEF Acquire
    <2> QED
      BY <2>1, <2>2, <2>3 DEF Search, InUse, ArrayType
  <1>4. ASSUME NEW t \in Threads, Look(t) PROVE Search'
    <2>1. /\ UNCHANGED <<variant, realReturnAddr, freeContextNumber, busy>>
          /\ \A u \in Threads \ {t} : UNCHANGED <<i[u], at[u]>>
          /\ at[t] = "look" /\ variant = "x86_64"
      BY <1>4, Moved DEF Look, ArrayType, Search
    <2>2. CASE i[t] > N
      <3>1. at'[t] = "full"
        BY <1>4, <2>2, Moved, Zenon DEF Look
      <3>2. i[t] = N + 1 /\ 1..(i[t] - 1) \subseteq busy[t]
        BY <2>1, <2>2 DEF Search
      <3>3. busy[t] = Contexts
        <4>1. busy[t] \subseteq Contexts
          BY Zenon DEF ArrayType
        <4>2. Contexts = 1..(i[t] - 1)
          BY <3>2 DEF Contexts
        <4> QED
          BY <3>2, <4>1, <4>2, ZenonT(60)
      <3> QED
        BY <2>1, <3>1, <3>3, Zenon DEF Search, InUse
    <2>3. CASE i[t] \in Contexts /\ realReturnAddr[i[t]] = NULL
      BY <1>4, <2>1, <2>3, Moved DEF Look, Search, InUse, ArrayType, Contexts
    <2>4. CASE i[t] \in Contexts /\ realReturnAddr[i[t]] # NULL
      <3>1. at'[t] = "look" /\ i'[t] = i[t] + 1
        BY <1>4, <2>4, Moved DEF Look, ArrayType, Contexts
      <3>2. i[t] \in busy[t] /\ 1..(i[t] - 1) \subseteq busy[t] /\ i[t] \in 1..N
        BY <2>1, <2>4, Zenon DEF Search, InUse, Contexts
      <3>3. 1..(i'[t] - 1) \subseteq busy[t] /\ i'[t] \in 1..(N + 1)
        BY <3>1, <3>2
      <3> QED
        BY <2>1, <3>1, <3>3, Zenon DEF Search, InUse, ArrayType
    <2>5. i[t] \in 1..(N + 1)
      BY <2>1, Zenon DEF Search
    <2> QED
      BY <2>2, <2>3, <2>4, <2>5 DEF Contexts
  <1>5. ASSUME NEW t \in Threads, Mark(t) PROVE Search'
    <2>1. /\ UNCHANGED <<variant, freeContextNumber, busy, i>>
          /\ at[t] = "mark" /\ at'[t] = "unlock"
          /\ \A u \in Threads \ {t} : at'[u] = at[u] /\ ~InSection(u)
      BY <1>5, Moved, Zenon DEF Mark, Locked, InSection
    <2> QED
      BY <2>1, Zenon DEF Search, InSection
  <1>6. ASSUME NEW t \in Threads, Bump(t) PROVE Search'
    <2>1. /\ UNCHANGED <<variant, realReturnAddr, busy, i>>
          /\ variant = "cdecl" /\ at'[t] = "unlock" /\ freeContextNumber < N
          /\ \A u \in Threads \ {t} : at'[u] = at[u]
      BY <1>6, Moved, Zenon DEF Bump, Search
    <2> QED
      BY <2>1 DEF Search, ArrayType
  <1>7. ASSUME NEW t \in Threads, BumpFull(t) PROVE Search'
    BY <1>7, Moved DEF BumpFull, Search, InUse, ArrayType
  <1>8. ASSUME NEW t \in Threads, Unlock(t) PROVE Search'
    <2>1. /\ UNCHANGED <<variant, realReturnAddr, freeContextNumber>>
          /\ \A u \in Threads \ {t} : UNCHANGED <<i[u], busy[u]>>
      BY <1>8, Zenon DEF Unlock, ArrayType
    <2>2. \A u \in Threads \ {t} : at'[u] = at[u]
      BY <1>8, Moved, Zenon DEF Unlock
    <2>3. at'[t] = "out" \/ (at[t] = "full" /\ at'[t] = "exit" /\ busy'[t] = busy[t])
      BY <1>8, Moved, Zenon DEF Unlock
    <2> QED
      BY <2>1, <2>2, <2>3, Zenon DEF Search, InUse
  <1>9. ASSUME NEW t \in Threads, Exit(t) PROVE Search'
    BY <1>9, Moved DEF Exit, Search, InUse
  <1>10. ASSUME NEW t \in Threads, NEW c \in owned[t], NEW a \in Addresses, Store(t, c, a)
         PROVE  Search'
    <2>1. /\ UNCHANGED <<variant, freeContextNumber, busy, i>>
          /\ \A u \in Threads : at'[u] = at[u]
          /\ realReturnAddr' = [realReturnAddr EXCEPT ![c] = a]
      BY <1>10, Moved, Zenon DEF Store
    <2>2. c \in Contexts /\ a # NULL
      BY Zenon DEF ArrayType
    <2>3. variant = "x86_64" => realReturnAddr[c] # NULL /\ InUse' = InUse
      BY <2>1, <2>2 DEF Ownership, InUse, ArrayType
    <2> QED
      BY <2>1, <2>2, <2>3, Zenon DEF Search, ArrayType
  <1>11. ASSUME NEW t \in Threads, NEW c \in owned[t], Release(t, c) PROVE Search'
    <2>1. /\ UNCHANGED <<variant, freeContextNumber, busy, i>>
          /\ \A u \in Threads : at'[u] = at[u]
          /\ variant = "x86_64" => realReturnAddr' = [realReturnAddr EXCEPT ![c] = NULL]
      BY <1>11, Moved, Zenon DEF Release
    <2>2. c \in Contexts
      BY Zenon DEF ArrayType
    <2>3. variant = "x86_64" => InUse' \subseteq InUse
      BY <2>1, <2>2, Zenon DEF InUse, ArrayType
    <2> QED
      BY <2>1, <2>2, <2>3, Zenon DEF Search, ArrayType
  <1> QED
    BY <1>1, <1>2, <1>3, <1>4, <1>5, <1>6, <1>7, <1>8, <1>9, <1>10, <1>11
     , Zenon DEF ArrayNext, GetNewContext

\* The invariant holds of every behaviour of the array, whatever the number of
\* its threads and contexts.
LEMMA ArrayInvariant == ArraySpec => []ArrayInv
  <1>1. ArrayInv /\ [ArrayNext]_arrayVars => ArrayInv'
    BY TypeStep, LockedStep, OwnershipStep, SearchStep, Zenon DEF ArrayInv
  <1> QED
    BY <1>1, ArrayInitially, PTL DEF ArraySpec

\* Two calls in progress never have the same context, and a context counts as
\* in use exactly while a call has it: getNewContext_ may search under its lock
\* while wrappers release contexts without it.
THEOREM ExclusiveAlways == ArraySpec => []ContextsExclusive
  <1>1. ArrayInv => ContextsExclusive
    BY ArrayAssumption DEF ArrayInv, ArrayType, Ownership, Search, ContextsExclusive, InUse
  <1> QED
    BY <1>1, ArrayInvariant, PTL

\* getNewContext ends the program only when every context was in use at the
\* moment its search began.
THEOREM ExitsFullAlways == ArraySpec => []ExitsOnlyWhenFull
  <1>1. ArrayInv => ExitsOnlyWhenFull
    BY Zenon DEF ArrayInv, Search, ExitsOnlyWhenFull
  <1> QED
    BY <1>1, ArrayInvariant, PTL

HIDE DEF N

-----------------------------------------------------------------------------
(* The calls of a thread that are in progress                              *)

\* The contexts of a thread's calls in progress are el[1..len], in the order
\* in which the calls were made; the first p are those of wrapper and the
\* others those of wrapper_no_stack_frame.  The call of el[j] is made by the
\* activation lv[j] - 1, or by a jump of the activation lv[j].

\* What a call that is made for activation n, with m contexts in use, finds as
\* its return address, in rbp and in the word below rbp.
Point(p, j) == IF j <= p THEN RET_POINT ELSE NO_FRAME_RET_POINT
ReturnTo(H, p, lv, m, n) == IF lv[m] = n THEN Point(p, m) ELSE H[n - 1].site
CallerRbp(p, el, m, n) == IF m > p THEN Context(el[m]) ELSE Frame(n - 1)
SlotValue(el, lv, m, n) == IF lv[m] = n THEN Context(el[m]) ELSE Data
WordBelow(bp) == IF bp[1] = "frame" \/ bp[2] = 1 THEN Data ELSE Time

\* What the wrapper has saved of it in the context c.
Entered(W, D, H, p, el, lv, m, c, n, framed) ==
    /\ W[c] = ReturnTo(H, p, lv, m, n)
    /\ framed => D[c].callerLocVar = SlotValue(el, lv, m, n)
    /\ ~framed => D[c].rbp = CallerRbp(p, el, m, n)

\* What the shadow has of it, unless it is a tail call.
Shadowed(H, p, el, lv, m, n) ==
    lv[m] # n => /\ H[n - 1].rbp = CallerRbp(p, el, m, n)
                 /\ H[n - 1].slot = WordBelow(CallerRbp(p, el, m, n))

Link(W, D, H, p, el, lv, j) ==
    /\ el[j] \in Contexts
    /\ lv[j] >= 2 /\ lv[j] \in {lv[j - 1], lv[j - 1] + 1}
    /\ Entered(W, D, H, p, el, lv, j - 1, el[j], lv[j], j <= p)
    /\ Shadowed(H, p, el, lv, j - 1, lv[j])

Innermost(lv, len, j) == j = len \/ lv[j + 1] # lv[j]

\* The frames below activation a: the first local variable of each holds the
\* innermost context of the call made from it.
Frames(S, a, len, p, el, lv) ==
    /\ \A k \in 1..(a - 1) : k >= lv[p] => S[k].local = Data
    /\ \A j \in 1..p : Innermost(lv, p, j) => S[lv[j] - 1].local = Context(el[j])
    /\ \A j \in 1..len : Innermost(lv, len, j) /\ lv[j] < a =>
         /\ S[lv[j]].ret = Point(p, j)
         /\ S[lv[j]].old = IF j <= p THEN Frame(lv[j] - 1) ELSE None

Ghosts(a, len, p, el, lv) ==
    /\ a \in Nat /\ a >= 2 /\ len \in Nat /\ p \in 0..len
    /\ el \in [Nat -> Nat] /\ lv \in [Nat -> Nat]
    /\ lv[0] = 1 /\ lv[len] \in {a - 1, a}

Sorted(len, el, lv) ==
    \A j, k \in 1..len : j < k => el[j] # el[k] /\ lv[j] <= lv[k]

Chain(W, D, S, H, a, len, p, el, lv) ==
    /\ Ghosts(a, len, p, el, lv)
    /\ Sorted(len, el, lv)
    /\ \A j \in 1..len : Link(W, D, H, p, el, lv, j)
    /\ Frames(S, a, len, p, el, lv)

Same(F, G, n) == \A k \in 1..n : F[k] = G[k]
SameCalls(W, D, W2, D2, len, el) ==
    \A j \in 1..len : /\ W2[el[j]] = W[el[j]]
                      /\ D2[el[j]].callerLocVar = D[el[j]].callerLocVar
                      /\ D2[el[j]].rbp = D[el[j]].rbp

-----------------------------------------------------------------------------

\* What the arithmetic of the ghosts comes to.
LEMMA Bounds ==
    ASSUME NEW a, NEW len, NEW p, NEW el, NEW lv, Ghosts(a, len, p, el, lv)
    PROVE  /\ a \in Nat /\ a >= 2 /\ len \in Nat /\ p \in Nat /\ lv[len] \in {a - 1, a}
           /\ a - 1 \in Nat /\ a - 1 \in 1..(a - 1) /\ a \in 1..a /\ lv[len] >= 1
           /\ (lv[len] = a => lv[len] >= 2) /\ (lv[len] = a - 1 => lv[len] # a)
           /\ (len <= p => len = p /\ ~(len > p)) /\ len + 1 > p
           /\ a - 1 \in 1..a /\ a # a - 1
           /\ \A k \in 1..(a - 1) : k \in 1..a /\ k # a
           /\ \A k \in 1..(a - 2) : k \in 1..a /\ k \in 1..(a - 1) /\ k # a - 1
  BY DEF Ghosts

\* An entry of a sequence is one of its set.
LEMMA Item ==
    ASSUME NEW A, NEW s \in Seq(A), NEW k \in 1..Len(s)
    PROVE  s[k] \in A
  OBVIOUS

\* s2 is s, a sequence over A, with x stored into entry n.
StoredAt(A, s, s2, n, x) ==
    /\ s2 \in Seq(A) /\ Len(s2) = Len(s) /\ s2[n] = x
    /\ \A k \in 1..Len(s) : k # n => s2[k] = s[k]

\* Storing into one entry of a sequence leaves the other entries alone.
LEMMA Stored ==
    ASSUME NEW A, NEW s \in Seq(A), NEW k \in 1..Len(s), NEW x \in A,
           NEW s2, s2 = [s EXCEPT ![k] = x]
    PROVE  StoredAt(A, s, s2, k, x)
  BY DEF StoredAt

\* A call in progress belongs to an activation between the second and the last.
LEMMA Levels ==
    ASSUME NEW W, NEW D, NEW S, NEW H, NEW a, NEW len, NEW p, NEW el, NEW lv,
           Chain(W, D, S, H, a, len, p, el, lv), NEW j \in 1..len
    PROVE  /\ lv[j] \in Nat /\ lv[j] >= 2 /\ lv[j] <= lv[len] /\ lv[j] <= a
           /\ j \in Nat /\ len \in Nat /\ len \in 1..len /\ a \in Nat /\ lv[len] \in Nat
<1>1. Ghosts(a, len, p, el, lv) /\ Sorted(len, el, lv) /\ Link(W, D, H, p, el, lv, j)
  BY Zenon DEF Chain
<1>2. /\ len \in Nat /\ lv \in [Nat -> Nat] /\ a \in Nat /\ lv[len] \in {a - 1, a}
      /\ \A k \in 1..len : j < k => lv[j] <= lv[k]
  BY <1>1, Zenon DEF Ghosts, Sorted
<1>3. j \in Nat /\ len \in 1..len /\ (j = len \/ j < len)
  BY <1>2
<1>4. lv[j] >= 2
  BY <1>1, Zenon DEF Link
<1>5. lv[j] \in Nat /\ lv[len] \in Nat
  BY <1>2, <1>3, Zenon
<1>6. lv[len] <= a
  BY <1>2
<1>7. lv[j] <= lv[len]
  BY <1>2, <1>3, <1>5
<1> QED BY <1>2, <1>3, <1>4, <1>5, <1>6, <1>7

\* The chain depends on the activations below a and on what the contexts and
\* the shadow of its calls hold.
LEMMA ChainStays ==
    ASSUME NEW W, NEW D, NEW S, NEW H, NEW a, NEW len, NEW p, NEW el, NEW lv,
           NEW W2, NEW D2, NEW S2, NEW H2,
           Chain(W, D, S, H, a, len, p, el, lv),
           Same(S, S2, a - 1), Same(H, H2, lv[len] - 1),
           SameCalls(W, D, W2, D2, len, el)
    PROVE  Chain(W2, D2, S2, H2, a, len, p, el, lv)
<1>0. Ghosts(a, len, p, el, lv)
  BY Zenon DEF Chain
<1>1. ASSUME NEW j \in 1..len PROVE Link(W2, D2, H2, p, el, lv, j)
  <2>1. lv[j] - 1 \in 1..(lv[len] - 1)
    BY Levels
  <2>2. H2[lv[j] - 1] = H[lv[j] - 1]
    BY <2>1, Zenon DEF Same
  <2>3. Link(W, D, H, p, el, lv, j)
    BY Zenon DEF Chain
  <2>4. /\ W2[el[j]] = W[el[j]]
        /\ D2[el[j]].callerLocVar = D[el[j]].callerLocVar
        /\ D2[el[j]].rbp = D[el[j]].rbp
    BY Zenon DEF SameCalls
  <2>5. ReturnTo(H2, p, lv, j - 1, lv[j]) = ReturnTo(H, p, lv, j - 1, lv[j])
    BY <2>2, Zenon DEF ReturnTo
  <2>6. Entered(W2, D2, H2, p, el, lv, j - 1, el[j], lv[j], j <= p)
    BY <2>3, <2>4, <2>5, Zenon DEF Link, Entered
  <2>7. Shadowed(H2, p, el, lv, j - 1, lv[j])
    BY <2>2, <2>3, Zenon DEF Link, Shadowed
  <2> QED BY <2>3, <2>6, <2>7, Zenon DEF Link
<1>2. Frames(S2, a, len, p, el, lv)
  <2>0. Frames(S, a, len, p, el, lv)
    BY Zenon DEF Chain
  <2>1. \A k \in 1..(a - 1) : S2[k] = S[k]
    BY Zenon DEF Same
  <2>2. ASSUME NEW j \in 1..p PROVE lv[j] - 1 \in 1..(a - 1)
    <3>1. j \in 1..len
      BY <1>0 DEF Ghosts
    <3> QED BY <3>1, Levels
  <2>3. ASSUME NEW j \in 1..len, lv[j] < a PROVE lv[j] \in 1..(a - 1)
    BY <2>3, Levels
  <2> QED BY <2>0, <2>1, <2>2, <2>3, Zenon DEF Frames
<1> QED BY <1>1, <1>2, Zenon DEF Chain

\* leave and ret, and the jump of a tail call.
LEMMA ChainDown ==
    ASSUME NEW W, NEW D, NEW S, NEW H, NEW a, NEW len, NEW p, NEW el, NEW lv, NEW S2,
           Chain(W, D, S, H, a, len, p, el, lv), lv[len] = a - 1, a >= 3,
           Same(S, S2, a - 2)
    PROVE  Chain(W, D, S2, H, a - 1, len, p, el, lv)
<1>0. Ghosts(a, len, p, el, lv) /\ Frames(S, a, len, p, el, lv)
  BY Zenon DEF Chain
<1>1. /\ a \in Nat /\ len \in Nat /\ p \in 0..len /\ (a - 1) - 1 = a - 2
      /\ \A k \in 1..(a - 2) : k \in 1..(a - 1) /\ S2[k] = S[k]
  BY <1>0 DEF Ghosts, Same
<1>2. Ghosts(a - 1, len, p, el, lv)
  BY <1>0 DEF Ghosts
<1>3. Frames(S2, a - 1, len, p, el, lv)
  <2>1. ASSUME NEW j \in 1..p PROVE lv[j] - 1 \in 1..(a - 2)
    <3>1. j \in 1..len
      BY <1>1
    <3> QED BY <3>1, Levels
  <2>2. ASSUME NEW j \in 1..len, lv[j] < a - 1 PROVE lv[j] \in 1..(a - 2) /\ lv[j] < a
    BY <2>2, Levels
  <2> QED BY <1>0, <1>1, <2>1, <2>2, Zenon DEF Frames
<1> QED BY <1>2, <1>3, Zenon DEF Chain

\* What a call finds, and what is kept of it, depends on the innermost context.
SamePlace(p, p2, el, el2, lv, lv2, m) ==
    /\ p \in Nat /\ p2 \in Nat /\ m \in Nat
    /\ el2[m] = el[m] /\ lv2[m] = lv[m] /\ (m <= p2 <=> m <= p)

\* Two chains that agree on their innermost context agree on a call made there.
LEMMA SameKnown ==
    ASSUME NEW W, NEW D, NEW H, NEW p, NEW p2, NEW el, NEW el2, NEW lv, NEW lv2,
           NEW m, NEW n, NEW c, NEW framed,
           SamePlace(p, p2, el, el2, lv, lv2, m)
    PROVE  /\ ReturnTo(H, p2, lv2, m, n) = ReturnTo(H, p, lv, m, n)
           /\ CallerRbp(p2, el2, m, n) = CallerRbp(p, el, m, n)
           /\ Entered(W, D, H, p, el, lv, m, c, n, framed)
                => Entered(W, D, H, p2, el2, lv2, m, c, n, framed)
           /\ Shadowed(H, p, el, lv, m, n) => Shadowed(H, p2, el2, lv2, m, n)
<1>1. m > p2 <=> m > p
  BY DEF SamePlace
<1>2. /\ ReturnTo(H, p2, lv2, m, n) = ReturnTo(H, p, lv, m, n)
      /\ CallerRbp(p2, el2, m, n) = CallerRbp(p, el, m, n)
      /\ SlotValue(el2, lv2, m, n) = SlotValue(el, lv, m, n)
  BY <1>1, Zenon DEF SamePlace, ReturnTo, CallerRbp, SlotValue, Point
<1>3. lv2[m] = lv[m]
  BY Zenon DEF SamePlace
<1> QED BY <1>2, <1>3, Zenon DEF Entered, Shadowed

Links(W, D, H, len, p, el, lv) == \A j \in 1..len : Link(W, D, H, p, el, lv, j)
Grown(F, G, n, x) == G \in [Nat -> Nat] /\ G[n + 1] = x /\ \A j \in 0..n : G[j] = F[j]

\* A new call comes last.
LEMMA LinksGrow ==
    ASSUME NEW W, NEW D, NEW S, NEW H, NEW a, NEW len, NEW p, NEW el, NEW lv,
           NEW p2 \in Nat, NEW el2, NEW lv2, NEW c \in Contexts, NEW framed \in BOOLEAN,
           Chain(W, D, S, H, a, len, p, el, lv),
           p2 = IF framed THEN p + 1 ELSE p, framed => len = p,
           \A j \in 1..len : el[j] # c,
           Entered(W, D, H, p, el, lv, len, c, a, framed), Shadowed(H, p, el, lv, len, a),
           Grown(el, el2, len, c), Grown(lv, lv2, len, a)
    PROVE  /\ Ghosts(a + 1, len + 1, p2, el2, lv2)
           /\ Sorted(len + 1, el2, lv2)
           /\ Links(W, D, H, len + 1, p2, el2, lv2)
<1>0. Ghosts(a, len, p, el, lv) /\ Sorted(len, el, lv)
  BY Zenon DEF Chain
<1>1. /\ len \in Nat /\ a \in Nat /\ a >= 2 /\ p \in 0..len /\ p \in Nat /\ lv[0] = 1
      /\ lv \in [Nat -> Nat] /\ lv[len] \in {a - 1, a}
  BY <1>0, Zenon DEF Ghosts
<1>2. /\ el2[len + 1] = c /\ lv2[len + 1] = a
      /\ \A j \in 0..len : el2[j] = el[j] /\ lv2[j] = lv[j]
  BY Zenon DEF Grown
<1>3. \A j \in 1..(len + 1) : j = len + 1 \/ j \in 1..len
  BY <1>1
<1>4. Ghosts(a + 1, len + 1, p2, el2, lv2)
  <2>1. p2 \in 0..(len + 1) /\ 0 \in 0..len /\ a + 1 \in Nat /\ a + 1 >= 2 /\ len + 1 \in Nat
        /\ a = (a + 1) - 1
    BY <1>1
  <2> QED BY <1>1, <1>2, <2>1, Zenon DEF Ghosts, Grown
<1>5. Sorted(len + 1, el2, lv2)
  <2>1. ASSUME NEW j \in 1..(len + 1), NEW k \in 1..(len + 1), j < k
        PROVE  el2[j] # el2[k] /\ lv2[j] <= lv2[k]
    <3>1. j \in 1..len /\ j \in 0..len /\ (k = len + 1 \/ k \in 1..len) /\ \A l \in 1..len : l \in 0..len
      BY <1>1, <2>1
    <3>2. lv[j] <= a
      BY <3>1, Levels, Zenon
    <3>3. CASE k = len + 1
      BY <1>2, <3>1, <3>2, <3>3, Zenon
    <3>4. CASE k \in 1..len
      BY <1>0, <1>2, <2>1, <3>1, <3>4, Zenon DEF Sorted
    <3> QED BY <3>1, <3>3, <3>4, Zenon
  <2> QED BY <2>1, Zenon DEF Sorted
<1>6. ASSUME NEW j \in 1..(len + 1) PROVE Link(W, D, H, p2, el2, lv2, j)
  <2>1. CASE j = len + 1
    <3>1. (len + 1) - 1 = len /\ len \in 0..len /\ (len <= p2 <=> len <= p) /\ (len + 1 <= p2 <=> framed)
      BY <1>1
    <3>2. el2[len] = el[len] /\ lv2[len] = lv[len] /\ len \in Nat
      BY <1>1, <1>2, <3>1, Zenon
    <3>3. /\ Entered(W, D, H, p2, el2, lv2, len, c, a, framed)
          /\ Shadowed(H, p2, el2, lv2, len, a)
      <4>1. SamePlace(p, p2, el, el2, lv, lv2, len)
        BY <1>1, <3>1, <3>2, Zenon DEF SamePlace
      <4> QED BY <4>1, SameKnown, Zenon
    <3>4. Entered(W, D, H, p2, el2, lv2, len, c, a, len + 1 <= p2)
      BY <3>1, <3>3, Zenon DEF Entered
    <3>5. a \in {lv[len], lv[len] + 1}
      BY <1>1
    <3> QED BY <1>1, <1>2, <2>1, <3>1, <3>2, <3>3, <3>4, <3>5, Zenon DEF Link
  <2>2. CASE j \in 1..len
    <3>1. /\ j - 1 \in Nat /\ j - 1 \in 0..len /\ j \in 0..len
          /\ (j - 1 <= p2 <=> j - 1 <= p) /\ (j <= p2 <=> j <= p)
      BY <1>1, <2>2
    <3>2. /\ el2[j - 1] = el[j - 1] /\ lv2[j - 1] = lv[j - 1]
          /\ el2[j] = el[j] /\ lv2[j] = lv[j]
      BY <1>2, <3>1, Zenon
    <3>3. Link(W, D, H, p, el, lv, j)
      BY <2>2, Zenon DEF Chain
    <3>4. /\ Entered(W, D, H, p2, el2, lv2, j - 1, el[j], lv[j], j <= p)
          /\ Shadowed(H, p2, el2, lv2, j - 1, lv[j])
      <4>1. SamePlace(p, p2, el, el2, lv, lv2, j - 1)
        BY <1>1, <3>1, <3>2, Zenon DEF SamePlace
      <4> DEFINE framedj == j <= p
      <4>2. /\ Entered(W, D, H, p, el, lv, j - 1, el[j], lv[j], framedj)
            /\ Shadowed(H, p, el, lv, j - 1, lv[j])
        BY <3>3, Zenon DEF Link
      <4> HIDE DEF framedj
      <4>3. /\ Entered(W, D, H, p2, el2, lv2, j - 1, el[j], lv[j], framedj)
            /\ Shadowed(H, p2, el2, lv2, j - 1, lv[j])
        BY <4>1, <4>2, SameKnown, SMTT(20)
      <4> QED BY <4>3, Zenon DEF framedj
    <3>5. Entered(W, D, H, p2, el2, lv2, j - 1, el[j], lv[j], j <= p2)
      BY <3>1, <3>4, Zenon DEF Entered
    <3> QED BY <3>2, <3>3, <3>4, <3>5, Zenon DEF Link
  <2> QED BY <1>3, <2>1, <2>2, Zenon
<1> QED BY <1>4, <1>5, <1>6, Zenon DEF Links

AllFramed(len, p) == len = p
NotAmong(c, len, el) == \A j \in 1..len : el[j] # c

\* The context in the local variable, the wrapper's return point on the stack.
PlantedFramed(S, S2, a, c) ==
    /\ Same(S, S2, a - 2) /\ S2[a - 1].local = Context(c)
    /\ S2[a - 1].ret = S[a - 1].ret /\ S2[a - 1].old = S[a - 1].old
    /\ S2[a].ret = RET_POINT /\ S2[a].old = Frame(a - 1) /\ S2[a].local = Data

\* The wrapper's other return point on the stack.
PlantedFrameless(S, S2, a) ==
    /\ Same(S, S2, a - 1)
    /\ S2[a].ret = NO_FRAME_RET_POINT /\ S2[a].old = None /\ S2[a].local = Data

\* wrapper leaves the context in the caller's local variable.
LEMMA ChainGrowsFramed ==
    ASSUME NEW W, NEW D, NEW S, NEW H, NEW a, NEW len, NEW p, NEW el, NEW lv,
           NEW S2, NEW el2, NEW lv2, NEW c \in Contexts,
           Chain(W, D, S, H, a, len, p, el, lv), AllFramed(len, p), NotAmong(c, len, el),
           Entered(W, D, H, p, el, lv, len, c, a, TRUE), Shadowed(H, p, el, lv, len, a),
           Grown(el, el2, len, c), Grown(lv, lv2, len, a), PlantedFramed(S, S2, a, c)
    PROVE  Chain(W, D, S2, H, a + 1, len + 1, p + 1, el2, lv2)
<1> USE DEF AllFramed, NotAmong, PlantedFramed
<1>0. Ghosts(a, len, p, el, lv) /\ Sorted(len, el, lv) /\ Frames(S, a, len, p, el, lv)
  BY Zenon DEF Chain
<1>1. /\ len \in Nat /\ a \in Nat /\ a >= 2 /\ p \in Nat /\ p + 1 \in Nat
      /\ lv \in [Nat -> Nat] /\ lv[len] \in {a - 1, a}
  BY <1>0 DEF Ghosts
<1>2. /\ el2[len + 1] = c /\ lv2[len + 1] = a
      /\ \A j \in 0..len : el2[j] = el[j] /\ lv2[j] = lv[j]
  BY Zenon DEF Grown
<1>3. /\ Ghosts(a + 1, len + 1, p + 1, el2, lv2)
      /\ Sorted(len + 1, el2, lv2)
      /\ Links(W, D, H, len + 1, p + 1, el2, lv2)
  BY <1>1, LinksGrow, Zenon
<1>4. /\ (a + 1) - 1 = a
      /\ \A j \in 1..(len + 1) : j = len + 1 \/ j \in 1..len
      /\ \A j \in 1..len : j \in 0..len /\ j # len + 1 /\ j <= len /\ j <= p /\ j <= p + 1
      /\ \A k \in 1..a : k = a \/ k < a
      /\ len + 1 <= p + 1 /\ p + 1 = len + 1
  BY <1>1
<1>5. ASSUME NEW j \in 1..len, Innermost(lv2, len + 1, j)
      PROVE  Innermost(lv, len, j) /\ lv[j] < a /\ lv[j] \in 1..(a - 1) /\ lv[j] - 1 \in 1..(a - 2)
  <2>1. lv2[j + 1] # lv2[j] /\ lv2[j] = lv[j]
    BY <1>2, <1>4, <1>5, Zenon DEF Innermost
  <2>2. lv[j] \in Nat /\ lv[j] >= 2 /\ lv[j] <= a
    BY Levels, Zenon
  <2>3. CASE j = len
    BY <1>1, <1>2, <2>1, <2>2, <2>3 DEF Innermost
  <2>4. CASE j < len
    <3>1. j + 1 \in 1..len /\ j + 1 \in 0..len /\ j < j + 1
      BY <1>1, <2>4
    <3>2. lv2[j + 1] = lv[j + 1] /\ lv[j] <= lv[j + 1]
      BY <1>0, <1>2, <3>1, Zenon DEF Sorted
    <3>3. lv[j + 1] \in Nat /\ lv[j + 1] <= a
      BY <3>1, Levels, Zenon
    <3> QED BY <1>1, <2>1, <2>2, <3>2, <3>3 DEF Innermost
  <2> QED BY <1>1, <2>3, <2>4
<1>6. ASSUME NEW k \in 1..(a - 1) PROVE S2[k].ret = S[k].ret /\ S2[k].old = S[k].old
  <2>1. k = a - 1 \/ k \in 1..(a - 2)
    BY <1>1
  <2> QED BY <2>1, Zenon DEF Same
<1>7. Frames(S2, a + 1, len + 1, p + 1, el2, lv2)
  <2>1. ASSUME NEW k \in 1..a, k >= lv2[p + 1] PROVE S2[k].local = Data
    <3>1. k = a
      BY <1>1, <1>2, <2>1
    <3> QED BY <3>1, Zenon
  <2>2. ASSUME NEW j \in 1..(p + 1), Innermost(lv2, p + 1, j)
        PROVE  S2[lv2[j] - 1].local = Context(el2[j])
    <3>1. CASE j = len + 1
      BY <1>2, <3>1, Zenon
    <3>2. CASE j \in 1..len
      <4>1. Innermost(lv, len, j) /\ lv[j] - 1 \in 1..(a - 2)
        BY <1>4, <1>5, <2>2, <3>2, Zenon
      <4>2. S[lv[j] - 1].local = Context(el[j])
        BY <1>0, <3>2, <4>1, Zenon DEF Frames
      <4> QED BY <1>2, <1>4, <3>2, <4>1, <4>2, Zenon DEF Same
    <3> QED BY <1>4, <3>1, <3>2, Zenon
  <2>3. ASSUME NEW j \in 1..(len + 1), Innermost(lv2, len + 1, j), lv2[j] < a + 1
        PROVE  /\ S2[lv2[j]].ret = Point(p + 1, j)
               /\ S2[lv2[j]].old = IF j <= p + 1 THEN Frame(lv2[j] - 1) ELSE None
    <3>1. CASE j = len + 1
      BY <1>2, <1>4, <3>1, Zenon DEF Point
    <3>2. CASE j \in 1..len
      <4>1. Innermost(lv, len, j) /\ lv[j] < a /\ lv[j] \in 1..(a - 1)
        BY <1>5, <2>3, <3>2, Zenon
      <4>2. S[lv[j]].ret = Point(p, j) /\ S[lv[j]].old = IF j <= p THEN Frame(lv[j] - 1) ELSE None
        BY <1>0, <3>2, <4>1, Zenon DEF Frames
      <4>3. lv2[j] = lv[j] /\ j <= p /\ j <= p + 1
        BY <1>2, <1>4, <3>2, Zenon
      <4> QED BY <1>6, <4>1, <4>2, <4>3, Zenon DEF Point
    <3> QED BY <1>4, <3>1, <3>2, Zenon
  <2> QED BY <1>4, <2>1, <2>2, <2>3, Zenon DEF Frames
<1> QED BY <1>3, <1>7, Zenon DEF Chain, Links

\* wrapper_no_stack_frame leaves the context in rbp.
LEMMA ChainGrowsFrameless ==
    ASSUME NEW W, NEW D, NEW S, NEW H, NEW a, NEW len, NEW p, NEW el, NEW lv,
           NEW S2, NEW el2, NEW lv2, NEW c \in Contexts,
           Chain(W, D, S, H, a, len, p, el, lv), NotAmong(c, len, el),
           Entered(W, D, H, p, el, lv, len, c, a, FALSE), Shadowed(H, p, el, lv, len, a),
           Grown(el, el2, len, c), Grown(lv, lv2, len, a), PlantedFrameless(S, S2, a)
    PROVE  Chain(W, D, S2, H, a + 1, len + 1, p, el2, lv2)
<1> USE DEF NotAmong, PlantedFrameless
<1>0. Ghosts(a, len, p, el, lv) /\ Sorted(len, el, lv) /\ Frames(S, a, len, p, el, lv)
  BY Zenon DEF Chain
<1>1. /\ len \in Nat /\ a \in Nat /\ a >= 2 /\ p \in Nat /\ p \in 0..len
      /\ lv \in [Nat -> Nat] /\ lv[len] \in {a - 1, a}
  BY <1>0 DEF Ghosts
<1>2. /\ el2[len + 1] = c /\ lv2[len + 1] = a
      /\ \A j \in 0..len : el2[j] = el[j] /\ lv2[j] = lv[j]
  BY Zenon DEF Grown
<1>3. /\ Ghosts(a + 1, len + 1, p, el2, lv2)
      /\ Sorted(len + 1, el2, lv2)
      /\ Links(W, D, H, len + 1, p, el2, lv2)
  BY <1>1, LinksGrow, Zenon
<1>4. /\ (a + 1) - 1 = a
      /\ \A j \in 1..(len + 1) : j = len + 1 \/ j \in 1..len
      /\ \A j \in 1..len : j \in 0..len /\ j # len + 1
      /\ \A j \in 1..p : j \in 1..len /\ (j # p => j + 1 \in 0..len)
      /\ \A k \in 1..a : k = a \/ k \in 1..(a - 1)
      /\ ~(len + 1 <= p)
  BY <1>1
<1>5. ASSUME NEW j \in 1..len, Innermost(lv2, len + 1, j)
      PROVE  Innermost(lv, len, j) /\ lv[j] < a /\ lv[j] \in 1..(a - 1)
  <2>1. lv2[j + 1] # lv2[j] /\ lv2[j] = lv[j]
    BY <1>2, <1>4, <1>5, Zenon DEF Innermost
  <2>2. lv[j] \in Nat /\ lv[j] >= 2 /\ lv[j] <= a
    BY Levels, Zenon
  <2>3. CASE j = len
    BY <1>1, <1>2, <2>1, <2>2, <2>3 DEF Innermost
  <2>4. CASE j < len
    <3>1. j + 1 \in 1..len /\ j + 1 \in 0..len /\ j < j + 1
      BY <1>1, <2>4
    <3>2. lv2[j + 1] = lv[j + 1] /\ lv[j] <= lv[j + 1]
      BY <1>0, <1>2, <3>1, Zenon DEF Sorted
    <3>3. lv[j + 1] \in Nat /\ lv[j + 1] <= a
      BY <3>1, Levels, Zenon
    <3> QED BY <1>1, <2>1, <2>2, <3>2, <3>3 DEF Innermost
  <2> QED BY <1>1, <2>3, <2>4
<1>6. Frames(S2, a + 1, len + 1, p, el2, lv2)
  <2>1. ASSUME NEW k \in 1..a, k >= lv2[p] PROVE S2[k].local = Data
    <3>1. lv2[p] = lv[p]
      BY <1>1, <1>2, Zenon
    <3> QED BY <1>0, <1>4, <2>1, <3>1, Zenon DEF Frames, Same
  <2>2. ASSUME NEW j \in 1..p, Innermost(lv2, p, j)
        PROVE  S2[lv2[j] - 1].local = Context(el2[j])
    <3>1. j \in 1..len /\ el2[j] = el[j] /\ lv2[j] = lv[j] /\ Innermost(lv, p, j)
      BY <1>2, <1>4, <2>2, Zenon DEF Innermost
    <3>2. S[lv[j] - 1].local = Context(el[j])
      BY <1>0, <3>1, Zenon DEF Frames
    <3>3. lv[j] - 1 \in 1..(a - 1)
      BY <3>1, Levels
    <3> QED BY <3>1, <3>2, <3>3, Zenon DEF Same
  <2>3. ASSUME NEW j \in 1..(len + 1), Innermost(lv2, len + 1, j), lv2[j] < a + 1
        PROVE  /\ S2[lv2[j]].ret = Point(p, j)
               /\ S2[lv2[j]].old = IF j <= p THEN Frame(lv2[j] - 1) ELSE None
    <3>1. CASE j = len + 1
      BY <1>2, <1>4, <3>1, Zenon DEF Point
    <3>2. CASE j \in 1..len
      <4>1. Innermost(lv, len, j) /\ lv[j] < a /\ lv[j] \in 1..(a - 1)
        BY <1>5, <2>3, <3>2, Zenon
      <4>2. S[lv[j]].ret = Point(p, j) /\ S[lv[j]].old = IF j <= p THEN Frame(lv[j] - 1) ELSE None
        BY <1>0, <3>2, <4>1, Zenon DEF Frames
      <4>3. lv2[j] = lv[j]
        BY <1>2, <1>4, <3>2, Zenon
      <4> QED BY <4>1, <4>2, <4>3, Zenon DEF Same
    <3> QED BY <1>4, <3>1, <3>2, Zenon
  <2> QED BY <1>4, <2>1, <2>2, <2>3, Zenon DEF Frames
<1> QED BY <1>3, <1>6, Zenon DEF Chain, Links

\* A thread that is not in its first activation has a context in use.
LEMMA SomeContext ==
    ASSUME NEW W, NEW D, NEW S, NEW H, NEW a, NEW len, NEW p, NEW el, NEW lv,
           Chain(W, D, S, H, a, len, p, el, lv), lv[len] >= 2
    PROVE  len \in 1..len /\ len \in Nat /\ len - 1 \in Nat
<1>1. lv[0] = 1 /\ len \in Nat
  BY Zenon DEF Chain, Ghosts
<1>2. len # 0
  BY <1>1
<1> QED BY <1>1, <1>2

\* The activation that runs returns to the wrapper of its innermost context.
LEMMA ReturnsToWrapper ==
    ASSUME NEW W, NEW D, NEW S, NEW H, NEW a, NEW len, NEW p, NEW el, NEW lv,
           Chain(W, D, S, H, a, len, p, el, lv), lv[len] = a - 1, a >= 3
    PROVE  /\ S[a - 1].ret = Point(p, len)
           /\ S[a - 1].old = IF len <= p THEN Frame(a - 2) ELSE None
<1>1. a \in Nat /\ Frames(S, a, len, p, el, lv)
  BY Zenon DEF Chain, Ghosts
<1>2. len \in 1..len
  <2>1. lv[len] >= 2
    BY <1>1
  <2> QED BY <2>1, SomeContext, Zenon
<1>3. lv[len] < a /\ lv[len] - 1 = a - 2
  BY <1>1
<1>4. /\ S[lv[len]].ret = Point(p, len)
      /\ S[lv[len]].old = IF len <= p THEN Frame(lv[len] - 1) ELSE None
  BY <1>1, <1>2, <1>3, Zenon DEF Frames, Innermost
<1> QED BY <1>3, <1>4, Zenon

\* The local variable of the frame that the next framed call is made from.
LEMMA SlotHolds ==
    ASSUME NEW W, NEW D, NEW S, NEW H, NEW a, NEW len, NEW p, NEW el, NEW lv,
           Chain(W, D, S, H, a, len, p, el, lv), len <= p
    PROVE  len = p /\ S[a - 1].local = SlotValue(el, lv, len, a)
<1>1. Ghosts(a, len, p, el, lv) /\ Frames(S, a, len, p, el, lv)
  BY Zenon DEF Chain
<1>2. a \in Nat /\ a >= 2 /\ len = p /\ lv[len] \in {a - 1, a} /\ a - 1 \in 1..(a - 1)
  BY <1>1 DEF Ghosts
<1>3. CASE lv[len] = a
  <2>1. lv[len] >= 2
    BY <1>2, <1>3, Zenon
  <2>2. len \in 1..len
    BY <2>1, SomeContext, Zenon
  <2>3. S[lv[p] - 1].local = Context(el[p])
    BY <1>1, <1>2, <2>2, Zenon DEF Frames, Innermost
  <2> QED BY <1>2, <1>3, <2>3, Zenon DEF SlotValue
<1>4. CASE lv[len] # a
  <2>1. lv[p] = a - 1 /\ a - 1 >= lv[p]
    BY <1>2, <1>4
  <2>2. S[a - 1].local = Data
    BY <1>1, <1>2, <2>1, Zenon DEF Frames
  <2> QED BY <1>2, <1>4, <2>2, Zenon DEF SlotValue
<1> QED BY <1>3, <1>4, Zenon

\* What is left of the chain, and what the context that left it has.
Shrunk(W, D, H, a, len, p, p2, el, lv) ==
    /\ Entered(W, D, H, p2, el, lv, len - 1, el[len], a, len <= p)
    /\ Shadowed(H, p2, el, lv, len - 1, a)
    /\ el[len] \in Contexts /\ \A j \in 1..(len - 1) : el[j] # el[len]

\* The innermost context leaves the chain.
LEMMA LinksShrink ==
    ASSUME NEW W, NEW D, NEW S, NEW H, NEW a, NEW len, NEW p, NEW el, NEW lv, NEW p2,
           Chain(W, D, S, H, a, len, p, el, lv), lv[len] = a,
           p2 = IF len <= p THEN p - 1 ELSE p
    PROVE  /\ Ghosts(a, len - 1, p2, el, lv)
           /\ Sorted(len - 1, el, lv)
           /\ Links(W, D, H, len - 1, p2, el, lv)
           /\ Shrunk(W, D, H, a, len, p, p2, el, lv)
<1>0. Ghosts(a, len, p, el, lv) /\ Sorted(len, el, lv)
  BY Zenon DEF Chain
<1>1. /\ len \in Nat /\ a \in Nat /\ a >= 2 /\ p \in 0..len /\ p \in Nat /\ lv[0] = 1
      /\ lv \in [Nat -> Nat] /\ el \in [Nat -> Nat]
  BY <1>0 DEF Ghosts
<1>2. len \in 1..len /\ len - 1 \in Nat
  <2>1. lv[len] >= 2
    BY <1>1, Zenon
  <2> QED BY <2>1, SomeContext, Zenon
<1>3. /\ p2 \in Nat /\ p2 \in 0..(len - 1)
      /\ \A j \in 1..(len - 1) : j \in 1..len /\ j < len
  BY <1>1, <1>2
<1>4. Link(W, D, H, p, el, lv, len)
  BY <1>2, Zenon DEF Chain
<1>5. Ghosts(a, len - 1, p2, el, lv)
  <2>1. lv[len] \in {lv[len - 1], lv[len - 1] + 1} /\ lv[len - 1] \in Nat
    BY <1>1, <1>2, <1>4, Zenon DEF Link
  <2>2. lv[len - 1] \in {a - 1, a}
    BY <1>1, <2>1
  <2> QED BY <1>1, <1>2, <1>3, <2>2, Zenon DEF Ghosts
<1>6. Sorted(len - 1, el, lv)
  BY <1>0, <1>3, Zenon DEF Sorted
<1>7. ASSUME NEW j \in 1..len
      PROVE  /\ Entered(W, D, H, p2, el, lv, j - 1, el[j], lv[j], j <= p)
             /\ Shadowed(H, p2, el, lv, j - 1, lv[j])
  <2>1. j - 1 \in Nat /\ (j - 1 <= p2 <=> j - 1 <= p)
    BY <1>1, <1>2
  <2>2. SamePlace(p, p2, el, el, lv, lv, j - 1)
    BY <1>1, <1>3, <2>1, Zenon DEF SamePlace
  <2> DEFINE framedj == j <= p
  <2>3. /\ Entered(W, D, H, p, el, lv, j - 1, el[j], lv[j], framedj)
        /\ Shadowed(H, p, el, lv, j - 1, lv[j])
    BY Zenon DEF Chain, Link
  <2> HIDE DEF framedj
  <2>4. /\ Entered(W, D, H, p2, el, lv, j - 1, el[j], lv[j], framedj)
        /\ Shadowed(H, p2, el, lv, j - 1, lv[j])
    BY <2>2, <2>3, SameKnown, SMTT(20)
  <2> QED BY <2>4, Zenon DEF framedj
<1>8. ASSUME NEW j \in 1..(len - 1) PROVE Link(W, D, H, p2, el, lv, j)
  <2>1. j <= p <=> j <= p2
    BY <1>1, <1>2
  <2>2. Link(W, D, H, p, el, lv, j) /\ j \in 1..len
    BY <1>3, Zenon DEF Chain
  <2>3. Entered(W, D, H, p2, el, lv, j - 1, el[j], lv[j], j <= p)
    BY <1>7, <2>2, Zenon
  <2>4. Entered(W, D, H, p2, el, lv, j - 1, el[j], lv[j], j <= p2)
    BY <2>1, <2>3, Zenon DEF Entered
  <2> QED BY <1>7, <2>2, <2>4, Zenon DEF Link
<1>9. /\ Entered(W, D, H, p2, el, lv, len - 1, el[len], a, len <= p)
      /\ Shadowed(H, p2, el, lv, len - 1, a)
  BY <1>2, <1>7, Zenon
<1>10. el[len] \in Contexts /\ \A j \in 1..(len - 1) : el[j] # el[len]
  BY <1>0, <1>2, <1>3, <1>4, Zenon DEF Link, Sorted
<1> QED BY <1>5, <1>6, <1>8, <1>9, <1>10, Zenon DEF Links, Shrunk

\* The return of a framed function: the local variable gets its value back.
LEMMA ChainShrinksFramed ==
    ASSUME NEW W, NEW D, NEW S, NEW H, NEW a, NEW len, NEW p, NEW el, NEW lv, NEW S2,
           Chain(W, D, S, H, a, len, p, el, lv), lv[len] = a, len <= p,
           Same(S, S2, a - 2), S2[a - 1].local = D[el[len]].callerLocVar,
           S2[a - 1].ret = S[a - 1].ret, S2[a - 1].old = S[a - 1].old
    PROVE  Chain(W, D, S2, H, a, len - 1, p - 1, el, lv)
<1>a. len = p
  BY SlotHolds, Zenon
<1>0. /\ Ghosts(a, len, p, el, lv) /\ Sorted(len, el, lv) /\ Frames(S, a, len, p, el, lv)
      /\ len = p
  BY <1>a, Zenon DEF Chain
<1>1. len \in Nat /\ a \in Nat /\ a >= 2 /\ lv \in [Nat -> Nat]
  BY <1>0, Zenon DEF Ghosts
<1>2. len \in 1..len /\ len - 1 \in Nat
  <2>1. lv[len] >= 2
    BY <1>1, Zenon
  <2> QED BY <2>1, SomeContext, Zenon
<1>3. /\ Ghosts(a, len - 1, p - 1, el, lv) /\ Sorted(len - 1, el, lv)
      /\ Links(W, D, H, len - 1, p - 1, el, lv)
      /\ Shrunk(W, D, H, a, len, p, p - 1, el, lv)
  BY LinksShrink, Zenon
<1>4. S2[a - 1].local = SlotValue(el, lv, len - 1, a)
  BY <1>3, Zenon DEF Shrunk, Entered
<1>5. lv[len - 1] \in {a - 1, a} /\ lv[len - 1] \in Nat
  BY <1>1, <1>2, <1>3, Zenon DEF Ghosts
<1>6. /\ \A k \in 1..(a - 1) : k = a - 1 \/ k \in 1..(a - 2)
      /\ \A j \in 1..(len - 1) : j \in 1..len /\ j # len /\ j < len /\ j <= p /\ j <= p - 1
      /\ \A j \in 1..(len - 1) : j = len - 1 \/ j + 1 \in 1..(len - 1)
      /\ \A j \in 1..(len - 1) : j < j + 1 /\ j + 1 \in 1..len
      /\ (len - 1) + 1 = len /\ p - 1 = len - 1
  BY <1>0, <1>1, <1>2
<1>7. ASSUME NEW k \in 1..(a - 1) PROVE S2[k].ret = S[k].ret /\ S2[k].old = S[k].old
  BY <1>6, Zenon DEF Same
<1>8. ASSUME NEW j \in 1..(len - 1), Innermost(lv, len - 1, j), lv[j] # a
      PROVE  Innermost(lv, len, j) /\ lv[j] - 1 \in 1..(a - 2)
  <2>1. lv[j] \in Nat /\ lv[j] >= 2 /\ lv[j] <= a
    BY <1>6, Levels, Zenon
  <2>2. lv[j] - 1 \in 1..(a - 2)
    BY <1>1, <1>8, <2>1
  <2>3. CASE j = len - 1
    BY <1>6, <1>8, <2>2, <2>3, Zenon DEF Innermost
  <2>4. CASE j # len - 1
    BY <1>8, <2>2, <2>4, Zenon DEF Innermost
  <2> QED BY <2>3, <2>4, Zenon
<1>9. ASSUME NEW j \in 1..(len - 1), Innermost(lv, len - 1, j), lv[j] = a PROVE j = len - 1
  <2>1. SUFFICES ASSUME j # len - 1 PROVE FALSE
    BY Zenon
  <2>2. lv[j + 1] # lv[j] /\ j + 1 \in 1..len /\ lv[j] <= lv[j + 1]
    BY <1>0, <1>6, <1>9, <2>1, Zenon DEF Innermost, Sorted
  <2>3. lv[j + 1] \in Nat /\ lv[j + 1] <= a
    BY <2>2, Levels, Zenon
  <2> QED BY <1>1, <1>9, <2>2, <2>3
<1>10. Frames(S2, a, len - 1, p - 1, el, lv)
  <2>1. ASSUME NEW k \in 1..(a - 1), k >= lv[p - 1] PROVE S2[k].local = Data
    <3>1. k = a - 1 /\ lv[len - 1] # a
      BY <1>1, <1>5, <1>6, <2>1
    <3> QED BY <1>4, <3>1, Zenon DEF SlotValue
  <2>2. ASSUME NEW j \in 1..(p - 1), Innermost(lv, p - 1, j)
        PROVE  S2[lv[j] - 1].local = Context(el[j])
    <3>0. j \in 1..(len - 1) /\ Innermost(lv, len - 1, j)
      BY <1>0, <2>2, Zenon
    <3>1. CASE lv[j] = a
      <4>1. j = len - 1
        BY <1>9, <3>0, <3>1, Zenon
      <4> QED BY <1>4, <3>1, <4>1, Zenon DEF SlotValue
    <3>2. CASE lv[j] # a
      <4>1. Innermost(lv, len, j) /\ lv[j] - 1 \in 1..(a - 2) /\ j \in 1..len
        BY <1>6, <1>8, <3>0, <3>2, Zenon
      <4>2. S[lv[j] - 1].local = Context(el[j])
        BY <1>0, <4>1, Zenon DEF Frames
      <4> QED BY <4>1, <4>2, Zenon DEF Same
    <3> QED BY <3>1, <3>2, Zenon
  <2>3. ASSUME NEW j \in 1..(len - 1), Innermost(lv, len - 1, j), lv[j] < a
        PROVE  /\ S2[lv[j]].ret = Point(p - 1, j)
               /\ S2[lv[j]].old = IF j <= p - 1 THEN Frame(lv[j] - 1) ELSE None
    <3>1. lv[j] # a /\ lv[j] \in 1..(a - 1) /\ j \in 1..len /\ j <= p /\ j <= p - 1
      <4>1. j \in 1..len /\ j <= p /\ j <= p - 1
        BY <1>6, Zenon
      <4>2. lv[j] \in Nat /\ lv[j] >= 2
        BY <4>1, Levels, Zenon
      <4> QED BY <1>1, <2>3, <4>1, <4>2
    <3>2. Innermost(lv, len, j)
      BY <1>8, <2>3, <3>1, Zenon
    <3>3. S[lv[j]].ret = Point(p, j) /\ S[lv[j]].old = IF j <= p THEN Frame(lv[j] - 1) ELSE None
      BY <1>0, <2>3, <3>1, <3>2, Zenon DEF Frames
    <3> QED BY <1>7, <3>1, <3>3, Zenon DEF Point
  <2> QED BY <2>1, <2>2, <2>3, Zenon DEF Frames
<1> QED BY <1>3, <1>10, Zenon DEF Chain, Links

\* The return of a frameless function.
LEMMA ChainShrinksFrameless ==
    ASSUME NEW W, NEW D, NEW S, NEW H, NEW a, NEW len, NEW p, NEW el, NEW lv,
           Chain(W, D, S, H, a, len, p, el, lv), lv[len] = a, ~(len <= p)
    PROVE  Chain(W, D, S, H, a, len - 1, p, el, lv)
<1>0. Ghosts(a, len, p, el, lv) /\ Sorted(len, el, lv) /\ Frames(S, a, len, p, el, lv)
  BY Zenon DEF Chain
<1>1. len \in Nat /\ a \in Nat /\ a >= 2 /\ lv \in [Nat -> Nat]
  BY <1>0, Zenon DEF Ghosts
<1>2. len \in 1..len /\ len - 1 \in Nat
  <2>1. lv[len] >= 2
    BY <1>1, Zenon
  <2> QED BY <2>1, SomeContext, Zenon
<1>3. /\ Ghosts(a, len - 1, p, el, lv) /\ Sorted(len - 1, el, lv)
      /\ Links(W, D, H, len - 1, p, el, lv)
  BY LinksShrink, Zenon
<1>4. /\ \A j \in 1..(len - 1) : j \in 1..len /\ j # len
      /\ (len - 1) + 1 = len
  BY <1>1, <1>2
<1>5. ASSUME NEW j \in 1..(len - 1), Innermost(lv, len - 1, j), lv[j] < a
      PROVE  Innermost(lv, len, j)
  <2>1. lv[j] \in Nat
    BY <1>4, Levels, Zenon
  <2>2. lv[j] # a
    BY <1>1, <1>5, <2>1
  <2> QED BY <1>4, <1>5, <2>2, Zenon DEF Innermost
<1>6. Frames(S, a, len - 1, p, el, lv)
  BY <1>0, <1>4, <1>5, Zenon DEF Frames
<1> QED BY <1>3, <1>6, Zenon DEF Chain, Links

Words == {Frame(n) : n \in Nat} \cup {Context(c) : c \in Nat} \cup {Data, Time, None}
Results == (Threads \X Nat) \cup {NULL}
Returns == Addresses \cup {NULL, STUB}
Activations == [ret : Returns, old : Words, local : Words]
Calls == [site : Sites, rbp : Words, slot : Words]
Fields == [integerResult : Results, floatingPointResult : Results, callerLocVar : Words,
           rbp : Words, endTime : {Time}]
RegisterFile == [rbp : Words, r15 : Contexts \cup {NULL}, framed : BOOLEAN, rax : Results,
                 xmm0 : Results, to : Returns]
Places == {"user", "fill", "plant", "takeSlot", "takeRbp", "end", "leave", "float", "ret"}

PoolType ==
    /\ fields \in [Contexts -> Fields]
    /\ below = Data
    /\ stack \in [Threads -> Seq(Activations)]
    /\ reg \in [Threads -> RegisterFile]
    /\ pc \in [Threads -> Places]
    /\ calls \in [Threads -> Nat]
    /\ shadow \in [Threads -> Seq(Calls)]
    /\ context \in [Threads -> Contexts \cup {NULL}]

\* The context that a thread has and that is not, or no longer, the context of
\* a call in progress.
Hand(t) ==
    IF pc[t] = "plant" \/ (pc[t] = "fill" /\ at[t] \in {"out", "unlock"}) THEN {context[t]}
    ELSE IF pc[t] \in {"end", "leave"} THEN {reg[t].r15} ELSE {}

Owns(own, hand, len, el) ==
    /\ own = {el[j] : j \in 1..len} \cup hand
    /\ hand \cap {el[j] : j \in 1..len} = {}

\* Where a thread is: a is the activation of its next call.
InUser(t, a, len, lv) ==
    pc[t] = "user" => lv[len] = a - 1 /\ Len(stack[t]) = a - 1 /\ Len(shadow[t]) = a - 2

InEntry(t, a, len, p, el, lv) ==
    /\ pc[t] \in {"fill", "plant"} =>
          /\ Len(stack[t]) = a /\ Len(shadow[t]) = a - 1
          /\ stack[t][a] = Activation(ReturnTo(shadow[t], p, lv, len, a), None)
          /\ reg[t].framed => len <= p
          /\ Shadowed(shadow[t], p, el, lv, len, a)
    /\ pc[t] = "plant" =>
          Entered(realReturnAddr, fields, shadow[t], p, el, lv, len, context[t], a,
                  reg[t].framed)

InReturn(t, a, len, p, lv) ==
    pc[t] \in {"takeSlot", "takeRbp"} =>
        /\ Len(stack[t]) = a - 1 /\ Len(shadow[t]) = a - 1 /\ lv[len] = a
        /\ reg[t].rax = <<t, calls[t]>>
        /\ pc[t] = "takeSlot" <=> len <= p

InExit(t, a, len, p, el, lv) ==
    /\ pc[t] \in {"end", "leave", "float", "ret"} =>
          /\ Len(stack[t]) = a - 1 /\ Len(shadow[t]) = a - 1
          /\ Shadowed(shadow[t], p, el, lv, len, a)
    /\ pc[t] \in {"end", "leave"} =>
          /\ realReturnAddr[reg[t].r15] = ReturnTo(shadow[t], p, lv, len, a)
          /\ fields[reg[t].r15].integerResult = <<t, calls[t]>>
    /\ pc[t] \in {"float", "ret"} =>
          /\ reg[t].to = ReturnTo(shadow[t], p, lv, len, a)
          /\ reg[t].rax = <<t, calls[t]>> /\ reg[t].r15 \in Contexts

Good(t, a, len, p, el, lv) ==
    /\ Chain(realReturnAddr, fields, stack[t], shadow[t], a, len, p, el, lv)
    /\ Owns(owned[t], Hand(t), len, el)
    /\ reg[t].rbp = CallerRbp(p, el, len, a)
    /\ pc[t] # "fill" => at[t] = "out"
    /\ InUser(t, a, len, lv)
    /\ InEntry(t, a, len, p, el, lv)
    /\ InReturn(t, a, len, p, lv)
    /\ InExit(t, a, len, p, el, lv)

PoolInv ==
    /\ ArrayInv
    /\ PoolType
    /\ \A t \in Threads : \E a, len, p, el, lv : Good(t, a, len, p, el, lv)

-----------------------------------------------------------------------------

\* The tags tell the words apart.
LEMMA WordTags ==
    ASSUME NEW n, NEW m
    PROVE  /\ Frame(n)[1] = "frame" /\ Frame(n)[2] = n /\ Frame(n) # None
           /\ Context(n)[1] = "context" /\ Context(n)[2] = n
           /\ Frame(n) # Context(m)
<1>1. Frame(n)[1] = "frame" /\ Frame(n)[2] = n /\ Context(n)[1] = "context" /\ Context(n)[2] = n
      /\ Context(m)[1] = "context"
  BY Zenon DEF Frame, Context
<1>2. None[1] = "none"
  BY Zenon DEF None
<1>3. "none" # "frame" /\ "frame" # "context"
  BY Zenon
<1> QED BY <1>1, <1>2, <1>3, Zenon

\* What the wrappers store are words.
LEMMA WordTypes ==
    /\ \A n \in Nat : Frame(n) \in Words /\ Context(n) \in Words
    /\ Data \in Words /\ Time \in Words /\ None \in Words
  BY Zenon DEF Words

\* -8(%rbp) of a frame is its first local variable.
LEMMA SlotOfFrame ==
    ASSUME NEW t, NEW n
    PROVE  Slot(t, Frame(n)) = stack[t][n].local
  BY WordTags, Zenon DEF Slot

\* -8(%rbp) of a context is the word before the array or the end time of its
\* neighbour.
LEMMA SlotOfContext ==
    ASSUME PoolType, NEW t, NEW c \in Contexts
    PROVE  Slot(t, Context(c)) = WordBelow(Context(c))
<1>1. Context(c)[1] = "context" /\ Context(c)[2] = c /\ "context" # "frame"
  <2>1. "context" # "frame"
    BY Zenon
  <2> QED BY <2>1, WordTags, Zenon
<1>2. CASE c = 1
  BY <1>1, <1>2, Zenon DEF Slot, WordBelow, PoolType
<1>3. CASE c # 1
  <2>1. c - 1 \in Contexts
    BY <1>3, ArrayAssumption DEF Contexts
  <2>2. fields[c - 1] \in Fields
    BY <2>1, Zenon DEF PoolType
  <2>3. fields[c - 1].endTime = Time
    BY <2>2, Zenon DEF Fields
  <2> QED BY <1>1, <1>3, <2>3, Zenon DEF Slot, WordBelow
<1> QED BY <1>2, <1>3, Zenon

\* The word below rbp of a call that is not a tail call is the program's.
LEMMA SlotIsProgram ==
    ASSUME PoolType, NEW t \in Threads, NEW a, NEW len, NEW p, NEW el, NEW lv,
           Good(t, a, len, p, el, lv), lv[len] = a - 1
    PROVE  Slot(t, reg[t].rbp) = WordBelow(CallerRbp(p, el, len, a))
<1>0. /\ Chain(realReturnAddr, fields, stack[t], shadow[t], a, len, p, el, lv)
      /\ reg[t].rbp = CallerRbp(p, el, len, a)
  BY Zenon DEF Good
<1>1. Ghosts(a, len, p, el, lv)
  BY <1>0, Zenon DEF Chain
<1>2. a \in Nat /\ len \in Nat /\ p \in Nat /\ p <= len
  BY <1>1 DEF Ghosts
<1>3. CASE len <= p
  <2>1. stack[t][a - 1].local = SlotValue(el, lv, len, a)
    BY <1>0, <1>3, SlotHolds, SMTT(20)
  <2>2. lv[len] # a /\ ~(len > p)
    BY <1>2, <1>3
  <2>3. stack[t][a - 1].local = Data /\ CallerRbp(p, el, len, a) = Frame(a - 1)
    BY <2>1, <2>2, Zenon DEF SlotValue, CallerRbp
  <2>4. WordBelow(Frame(a - 1)) = Data
    BY WordTags, Zenon DEF WordBelow
  <2>5. Slot(t, Frame(a - 1)) = Data
    BY <2>3, SlotOfFrame, Zenon
  <2> QED BY <1>0, <2>3, <2>4, <2>5, Zenon
<1>4. CASE ~(len <= p)
  <2>1. len > p /\ len \in 1..len
    BY <1>2, <1>4
  <2>2. el[len] \in Contexts
    BY <1>0, <2>1, Zenon DEF Chain, Link
  <2>3. CallerRbp(p, el, len, a) = Context(el[len])
    BY <2>1, Zenon DEF CallerRbp
  <2> QED BY <1>0, <2>2, <2>3, SlotOfContext, Zenon
<1> QED BY <1>3, <1>4, Zenon

\* What another thread relies on of the contexts.
SameOn(C, W, D, W2, D2) ==
    \A c \in C : /\ W2[c] = W[c]
                 /\ D2[c].callerLocVar = D[c].callerLocVar
                 /\ D2[c].rbp = D[c].rbp
                 /\ D2[c].integerResult = D[c].integerResult

Untouched(u) ==
    /\ stack'[u] = stack[u] /\ reg'[u] = reg[u] /\ pc'[u] = pc[u] /\ calls'[u] = calls[u]
    /\ shadow'[u] = shadow[u] /\ at'[u] = at[u] /\ context'[u] = context[u]
    /\ owned'[u] = owned[u]
    /\ SameOn(owned[u], realReturnAddr, fields, realReturnAddr', fields')

\* The contexts of the calls in progress and the one in hand are the thread's own.
LEMMA OwnedCalls ==
    ASSUME NEW own, NEW hand, NEW len, NEW el, Owns(own, hand, len, el)
    PROVE  /\ \A j \in 1..len : el[j] \in own /\ el[j] \notin hand
           /\ \A c \in hand : c \in own
  BY Zenon DEF Owns

\* A thread whose own state and whose contexts are left alone stays consistent.
LEMMA OthersGood ==
    ASSUME NEW u \in Threads, NEW a, NEW len, NEW p, NEW el, NEW lv,
           Good(u, a, len, p, el, lv), Untouched(u)
    PROVE  Good(u, a, len, p, el, lv)'
<1>1. Owns(owned[u], Hand(u), len, el)
  BY Zenon DEF Good
<1>2. /\ \A j \in 1..len : el[j] \in owned[u]
      /\ \A c \in Hand(u) : c \in owned[u]
  BY <1>1, OwnedCalls, Zenon
<1>3. SameOn(owned[u], realReturnAddr, fields, realReturnAddr', fields')
  BY Zenon DEF Untouched
<1>4. SameCalls(realReturnAddr, fields, realReturnAddr', fields', len, el)
  BY <1>2, <1>3, Zenon DEF SameOn, SameCalls
<1>5. Chain(realReturnAddr, fields, stack[u], shadow[u], a, len, p, el, lv)'
  <2>1. Chain(realReturnAddr, fields, stack[u], shadow[u], a, len, p, el, lv)
    BY Zenon DEF Good
  <2>2. Same(stack[u], stack'[u], a - 1) /\ Same(shadow[u], shadow'[u], lv[len] - 1)
    BY Zenon DEF Untouched, Same
  <2> QED BY <1>4, <2>1, <2>2, ChainStays, Zenon
<1>6. Hand(u)' = Hand(u) /\ Owns(owned[u], Hand(u), len, el)'
  BY <1>1, Zenon DEF Untouched, Hand, Owns
<1>7. /\ (reg[u].rbp = CallerRbp(p, el, len, a))'
      /\ (pc[u] # "fill" => at[u] = "out")'
      /\ InUser(u, a, len, lv)' /\ InReturn(u, a, len, p, lv)'
  BY Zenon DEF Good, Untouched, InUser, InReturn
<1>8. InEntry(u, a, len, p, el, lv)'
  <2>1. InEntry(u, a, len, p, el, lv)
    BY Zenon DEF Good
  <2>2. pc[u] = "plant" => context[u] \in owned[u]
    BY <1>2, Zenon DEF Hand
  <2>3. pc[u] = "plant" => /\ realReturnAddr'[context[u]] = realReturnAddr[context[u]]
                           /\ fields'[context[u]].callerLocVar = fields[context[u]].callerLocVar
                           /\ fields'[context[u]].rbp = fields[context[u]].rbp
    BY <1>3, <2>2, Zenon DEF SameOn
  <2> QED BY <2>1, <2>3, Zenon DEF InEntry, Untouched, Entered
<1>9. InExit(u, a, len, p, el, lv)'
  <2>1. InExit(u, a, len, p, el, lv)
    BY Zenon DEF Good
  <2>2. pc[u] \in {"end", "leave"} => reg[u].r15 \in owned[u]
    <3>1. "end" # "plant" /\ "end" # "fill" /\ "leave" # "plant" /\ "leave" # "fill"
      BY Zenon
    <3> QED BY <1>2, <3>1, Zenon DEF Hand
  <2>3. pc[u] \in {"end", "leave"} =>
           /\ realReturnAddr'[reg[u].r15] = realReturnAddr[reg[u].r15]
           /\ fields'[reg[u].r15].integerResult = fields[reg[u].r15].integerResult
    BY <1>3, <2>2, Zenon DEF SameOn
  <2> QED BY <2>1, <2>3, Zenon DEF InExit, Untouched
<1> QED BY <1>5, <1>6, <1>7, <1>8, <1>9, Zenon DEF Good

\* A step of t leaves the types right and the other threads alone.
Fits(t) == PoolType' /\ \A u \in Threads \ {t} : Untouched(u)

\* The words of an activation that holds nothing yet.
LEMMA Parts ==
    ASSUME NEW r, NEW o
    PROVE  Activation(r, o).ret = r /\ Activation(r, o).old = o /\ Activation(r, o).local = Data
  BY DEF Activation

\* What the wrappers and the program push and load is of the right type.
LEMMA ActivationTypes ==
    /\ \A s \in Returns, w \in Words : Activation(s, w) \in Activations
    /\ Sites \subseteq Returns /\ RET_POINT \in Returns /\ NO_FRAME_RET_POINT \in Returns
    /\ NULL \in Returns
    /\ \A w \in Words : Registers(w) \in RegisterFile
<1>1. Data \in Words
  BY WordTypes, Zenon
<1>2. Sites \subseteq Returns /\ RET_POINT \in Returns /\ NO_FRAME_RET_POINT \in Returns
      /\ NULL \in Returns
  BY PoolAssumption, Zenon DEF Returns
<1>3. NULL \in Results /\ NULL \in Contexts \cup {NULL}
  BY Zenon DEF Results
<1> QED BY <1>1, <1>2, <1>3, Zenon DEF Activation, Activations, Registers, RegisterFile

\* The word below rbp of a call is a word.
LEMMA SlotType ==
    ASSUME PoolType, NEW t \in Threads, NEW a, NEW len, NEW p, NEW el, NEW lv,
           Good(t, a, len, p, el, lv), lv[len] = a - 1
    PROVE  Slot(t, reg[t].rbp) \in Words
<1>1. WordBelow(CallerRbp(p, el, len, a)) \in Words
  BY WordTypes, Zenon DEF WordBelow
<1>2. Slot(t, reg[t].rbp) = WordBelow(CallerRbp(p, el, len, a))
  BY SlotIsProgram, Zenon
<1> QED BY <1>1, <1>2, Zenon

\* Without frameless callers a framed call is made with rbp at a frame.
LEMMA FramedFromFrame ==
    ASSUME NEW p, NEW el, NEW len, NEW a, CallerRbp(p, el, len, a)[1] # "context",
           p \in Nat, len \in Nat
    PROVE  len <= p
<1>1. ~(len > p)
  BY WordTags, Zenon DEF CallerRbp
<1> QED BY <1>1

\* The jump to a wrapper changes the registers and where its thread is.
LEMMA RedirectFits ==
    ASSUME PoolType, ArrayType, NEW t \in Threads, NEW framed \in BOOLEAN, NEW bp \in Words,
           Redirect(t, framed, bp)
    PROVE  /\ reg' \in [Threads -> RegisterFile] /\ pc' \in [Threads -> Places]
           /\ calls' \in [Threads -> Nat]
           /\ reg'[t].rbp = bp /\ reg'[t].framed = framed
           /\ pc[t] = "user" /\ pc'[t] = "fill" /\ at'[t] = "lock"
           /\ UNCHANGED <<fields, below, realReturnAddr, owned, context>>
           /\ \A u \in Threads \ {t} : /\ reg'[u] = reg[u] /\ pc'[u] = pc[u]
                                       /\ calls'[u] = calls[u] /\ at'[u] = at[u]
<1> USE DEF Redirect
<1>1. /\ UNCHANGED <<fields, below, realReturnAddr, owned, context>>
      /\ at[t] = "out" /\ at' = [at EXCEPT ![t] = "lock"]
  BY Zenon DEF Enter, Move
<1>2. pc[t] = "user" /\ pc' = [pc EXCEPT ![t] = "fill"]
  BY Zenon DEF Goto
<1>3. /\ calls' = [calls EXCEPT ![t] = @ + 1] /\ calls \in [Threads -> Nat]
      /\ pc \in [Threads -> Places] /\ reg \in [Threads -> RegisterFile]
      /\ reg' = [reg EXCEPT ![t].framed = framed, ![t].rbp = bp]
  BY Zenon DEF PoolType
<1>4. at'[t] = "lock" /\ \A u \in Threads \ {t} : at'[u] = at[u]
  BY <1>1, Zenon DEF ArrayType
<1>5. calls' \in [Threads -> Nat] /\ \A u \in Threads \ {t} : calls'[u] = calls[u]
  BY <1>3
<1>6. /\ pc' \in [Threads -> Places] /\ pc'[t] = "fill"
      /\ \A u \in Threads \ {t} : pc'[u] = pc[u]
  BY <1>2, <1>3, Zenon DEF Places
<1>7. /\ reg' \in [Threads -> RegisterFile] /\ reg'[t].rbp = bp /\ reg'[t].framed = framed
      /\ \A u \in Threads \ {t} : reg'[u] = reg[u]
  <2> DEFINE r1 == [reg[t] EXCEPT !.framed = framed, !.rbp = bp]
  <2>1. reg[t] \in RegisterFile
    BY <1>3, Zenon
  <2>2. r1 \in RegisterFile /\ r1.rbp = bp /\ r1.framed = framed
    BY <2>1, Zenon DEF RegisterFile
  <2>3. reg' = [reg EXCEPT ![t] = r1]
    BY <1>3, <2>1, Zenon DEF RegisterFile
  <2> HIDE DEF r1
  <2>4. reg'[t] = r1 /\ reg' \in [Threads -> RegisterFile]
        /\ \A u \in Threads \ {t} : reg'[u] = reg[u]
    <3>1. reg \in [Threads -> RegisterFile]
      BY <1>3, Zenon
    <3> HIDE DEF Redirect
    <3> QED BY <2>2, <2>3, <3>1, Zenon
  <2> QED BY <2>2, <2>4, Zenon
<1> QED BY <1>1, <1>2, <1>4, <1>5, <1>6, <1>7, Zenon

\* A thread is left alone if its own state is and no context changes.
LEMMA ContextsAlone ==
    ASSUME NEW u, UNCHANGED <<fields, realReturnAddr, owned, context>>,
           stack'[u] = stack[u], reg'[u] = reg[u], pc'[u] = pc[u], calls'[u] = calls[u],
           shadow'[u] = shadow[u], at'[u] = at[u]
    PROVE  Untouched(u)
  BY Zenon DEF Untouched, SameOn

\* A call of a profiled function: its activation comes last, with its shadow.
LEMMA CallStep ==
    ASSUME ~FramelessCallers, PoolType, ArrayType, NEW t \in Threads,
           NEW a, NEW len, NEW p, NEW el, NEW lv, Good(t, a, len, p, el, lv),
           NEW s \in Sites, NEW framed \in BOOLEAN, Call(t, s, framed)
    PROVE  Fits(t) /\ Good(t, a, len, p, el, lv)'
<1> DEFINE r == reg[t].rbp
           H == shadow[t]
           x == [site |-> s, rbp |-> r, slot |-> Slot(t, r)]
<1>1. Redirect(t, framed, r)
  BY Zenon DEF Call
<1>2. r \in Words
  BY Zenon DEF PoolType, RegisterFile
<1>3. /\ reg' \in [Threads -> RegisterFile] /\ pc' \in [Threads -> Places]
      /\ calls' \in [Threads -> Nat]
      /\ reg'[t].rbp = r /\ reg'[t].framed = framed
      /\ pc[t] = "user" /\ pc'[t] = "fill" /\ at'[t] = "lock"
      /\ UNCHANGED <<fields, below, realReturnAddr, owned, context>>
      /\ \A u \in Threads \ {t} : /\ reg'[u] = reg[u] /\ pc'[u] = pc[u]
                                  /\ calls'[u] = calls[u] /\ at'[u] = at[u]
  <2> HIDE DEF r
  <2> QED BY <1>1, <1>2, RedirectFits, Zenon
<1>4. /\ Chain(realReturnAddr, fields, stack[t], H, a, len, p, el, lv)
      /\ Ghosts(a, len, p, el, lv)
      /\ lv[len] = a - 1 /\ Len(stack[t]) = a - 1 /\ Len(H) = a - 2
      /\ r = CallerRbp(p, el, len, a)
  BY <1>3, Zenon DEF Good, InUser, Chain
<1>5. a \in Nat /\ len \in Nat /\ p \in Nat /\ lv[len] # a /\ a >= 2
  BY <1>4, Bounds, Zenon
<1>6. Slot(t, r) \in Words /\ Slot(t, r) = WordBelow(CallerRbp(p, el, len, a))
  BY <1>4, SlotIsProgram, SlotType, Zenon
<1>7. x \in Calls /\ x.site = s /\ x.rbp = r /\ x.slot = Slot(t, r)
  BY <1>2, <1>6, Zenon DEF Calls
<1>8. Activation(s, None) \in Activations
  BY ActivationTypes, WordTypes, Zenon
<1>9. /\ stack' = [stack EXCEPT ![t] = Append(@, Activation(s, None))]
      /\ shadow' = [shadow EXCEPT ![t] = Append(@, x)]
      /\ stack \in [Threads -> Seq(Activations)] /\ shadow \in [Threads -> Seq(Calls)]
  BY Zenon DEF Call, PoolType
<1> HIDE DEF x
<1>10. /\ stack' \in [Threads -> Seq(Activations)] /\ shadow' \in [Threads -> Seq(Calls)]
       /\ stack'[t] = Append(stack[t], Activation(s, None)) /\ shadow'[t] = Append(H, x)
       /\ \A u \in Threads \ {t} : stack'[u] = stack[u] /\ shadow'[u] = shadow[u]
  BY <1>7, <1>8, <1>9
<1>11. Fits(t)
  <2>1. PoolType'
    BY <1>3, <1>10, Zenon DEF PoolType
  <2>2. ASSUME NEW u \in Threads \ {t} PROVE Untouched(u)
    BY <1>3, <1>10, ContextsAlone, Zenon
  <2> QED BY <2>1, <2>2, Zenon DEF Fits
<1>12. /\ Len(stack'[t]) = a /\ Len(shadow'[t]) = a - 1
       /\ stack'[t][a] = Activation(s, None) /\ shadow'[t][a - 1] = x
       /\ Same(stack[t], stack'[t], a - 1) /\ Same(H, shadow'[t], a - 2)
  BY <1>4, <1>5, <1>9, <1>10 DEF Same
<1>13. Chain(realReturnAddr, fields, stack[t], shadow[t], a, len, p, el, lv)'
  <2>1. SameCalls(realReturnAddr, fields, realReturnAddr', fields', len, el)
    BY <1>3, Zenon DEF SameCalls
  <2>2. lv[len] - 1 = a - 2
    BY <1>4, <1>5
  <2> QED BY <1>4, <1>12, <2>1, <2>2, ChainStays, Zenon
<1>14. "fill" # "user" /\ "fill" # "plant" /\ "lock" # "out" /\ "lock" # "unlock"
       /\ "fill" \notin {"takeSlot", "takeRbp", "end", "leave", "float", "ret"}
       /\ "user" \notin {"plant", "fill", "end", "leave"}
  BY Zenon
<1>15. Owns(owned[t], Hand(t), len, el)'
  <2>1. Owns(owned[t], Hand(t), len, el)
    BY Zenon DEF Good
  <2>2. Hand(t) = {} /\ Hand(t)' = {}
    BY <1>3, <1>14, Zenon DEF Hand
  <2> QED BY <1>3, <2>1, <2>2, Zenon DEF Owns
<1>16. InEntry(t, a, len, p, el, lv)'
  <2>1. ReturnTo(shadow'[t], p, lv, len, a) = s
    BY <1>5, <1>7, <1>12, Zenon DEF ReturnTo
  <2>2. Shadowed(shadow'[t], p, el, lv, len, a)
    BY <1>4, <1>6, <1>7, <1>12, Zenon DEF Shadowed
  <2>3. framed => len <= p
    <3>1. framed => r[1] # "context"
      BY <1>1, Zenon DEF Redirect
    <3> QED BY <1>4, <1>5, <3>1, FramedFromFrame, Zenon
  <2> QED BY <1>3, <1>12, <1>14, <2>1, <2>2, <2>3, Zenon DEF InEntry
<1>17. /\ (reg[t].rbp = CallerRbp(p, el, len, a))' /\ (pc[t] # "fill" => at[t] = "out")'
       /\ InUser(t, a, len, lv)' /\ InReturn(t, a, len, p, lv)'
       /\ InExit(t, a, len, p, el, lv)'
  BY <1>3, <1>4, <1>14, Zenon DEF InUser, InReturn, InExit
<1> QED BY <1>11, <1>13, <1>15, <1>16, <1>17, Zenon DEF Good

\* A function that leaves its frame has rbp as its caller had it.
LEMMA LeaveFacts ==
    ASSUME PoolType, NEW t \in Threads, NEW a, NEW len, NEW p, NEW el, NEW lv,
           Good(t, a, len, p, el, lv), pc[t] = "user", Len(stack[t]) > 1
    PROVE  /\ Chain(realReturnAddr, fields, stack[t], shadow[t], a, len, p, el, lv)
           /\ a \in Nat /\ len \in Nat /\ p \in Nat /\ a >= 3
           /\ lv[len] = a - 1 /\ Len(stack[t]) = a - 1 /\ Len(shadow[t]) = a - 2
           /\ Leave(t) = CallerRbp(p, el, len, a - 1) /\ Leave(t) \in Words
           /\ stack[t][a - 1].ret = Point(p, len)
           /\ Owns(owned[t], {}, len, el)
<1>1. /\ Chain(realReturnAddr, fields, stack[t], shadow[t], a, len, p, el, lv)
      /\ Ghosts(a, len, p, el, lv)
      /\ lv[len] = a - 1 /\ Len(stack[t]) = a - 1 /\ Len(shadow[t]) = a - 2
      /\ reg[t].rbp = CallerRbp(p, el, len, a)
  BY Zenon DEF Good, InUser, Chain
<1>2. a \in Nat /\ len \in Nat /\ p \in Nat /\ a >= 3 /\ (a - 1) - 1 = a - 2
  BY <1>1 DEF Ghosts
<1>3. /\ stack[t][a - 1].ret = Point(p, len)
      /\ stack[t][a - 1].old = IF len <= p THEN Frame(a - 2) ELSE None
  BY <1>1, <1>2, ReturnsToWrapper, SMTT(20)
<1>4. Leave(t) = IF stack[t][a - 1].old = None THEN reg[t].rbp ELSE stack[t][a - 1].old
  BY <1>1, Zenon DEF Leave, Last
<1>5. len <= p <=> ~(len > p)
  BY <1>2
<1>6. Leave(t) = CallerRbp(p, el, len, a - 1)
  <2>1. CASE len <= p
    BY <1>2, <1>3, <1>4, <1>5, <2>1, WordTags, Zenon DEF CallerRbp
  <2>2. CASE ~(len <= p)
    BY <1>1, <1>3, <1>4, <1>5, <2>2, Zenon DEF CallerRbp
  <2> QED BY <2>1, <2>2, Zenon
<1>7. Leave(t) \in Words
  <2>1. reg[t].rbp \in Words
    BY Zenon DEF PoolType, RegisterFile
  <2>2. a - 2 \in Nat
    BY <1>2
  <2> QED BY <1>3, <1>4, <2>1, <2>2, WordTypes, Zenon
<1>8. Owns(owned[t], {}, len, el)
  <2>1. "user" \notin {"plant", "fill", "end", "leave"}
    BY Zenon
  <2>2. Hand(t) = {}
    BY <2>1, Zenon DEF Hand
  <2> QED BY <2>2, Zenon DEF Good
<1> QED BY <1>1, <1>2, <1>3, <1>6, <1>7, <1>8, Zenon

\* A tail call: the activation that jumps is the one that is called.
LEMMA TailCallStep ==
    ASSUME ~FramelessCallers, PoolType, ArrayType, NEW t \in Threads,
           NEW a, NEW len, NEW p, NEW el, NEW lv, Good(t, a, len, p, el, lv),
           NEW framed \in BOOLEAN, TailCall(t, framed)
    PROVE  Fits(t) /\ Good(t, a - 1, len, p, el, lv)'
<1> DEFINE r == Leave(t)
           x == Activation(Last(stack[t]).ret, None)
<1>1. Redirect(t, framed, r) /\ Len(stack[t]) > 1 /\ shadow' = shadow
  BY Zenon DEF TailCall
<1>2. pc[t] = "user"
  BY <1>1, Zenon DEF Redirect, Goto
<1>3. /\ Chain(realReturnAddr, fields, stack[t], shadow[t], a, len, p, el, lv)
      /\ a \in Nat /\ len \in Nat /\ p \in Nat /\ a >= 3
      /\ lv[len] = a - 1 /\ Len(stack[t]) = a - 1 /\ Len(shadow[t]) = a - 2
      /\ r = CallerRbp(p, el, len, a - 1) /\ r \in Words
      /\ stack[t][a - 1].ret = Point(p, len)
      /\ Owns(owned[t], {}, len, el)
  BY <1>1, <1>2, LeaveFacts, Zenon
<1>4. /\ reg' \in [Threads -> RegisterFile] /\ pc' \in [Threads -> Places]
      /\ calls' \in [Threads -> Nat]
      /\ reg'[t].rbp = r /\ reg'[t].framed = framed
      /\ pc'[t] = "fill" /\ at'[t] = "lock"
      /\ UNCHANGED <<fields, below, realReturnAddr, owned, context>>
      /\ \A u \in Threads \ {t} : /\ reg'[u] = reg[u] /\ pc'[u] = pc[u]
                                  /\ calls'[u] = calls[u] /\ at'[u] = at[u]
  <2> HIDE DEF r
  <2> QED BY <1>1, <1>3, RedirectFits, Zenon
<1>5. x = Activation(Point(p, len), None) /\ x \in Activations
  <2>1. x = Activation(Point(p, len), None)
    BY <1>3, Zenon DEF Last
  <2>2. Point(p, len) \in Returns
    BY ActivationTypes, Zenon DEF Point
  <2> QED BY <2>1, <2>2, ActivationTypes, WordTypes, Zenon
<1>6. /\ stack \in [Threads -> Seq(Activations)] /\ shadow \in [Threads -> Seq(Calls)]
      /\ stack' = [stack EXCEPT ![t][Len(stack[t])] = x]
  BY Zenon DEF TailCall, PoolType
<1> HIDE DEF x
<1>7. /\ stack' \in [Threads -> Seq(Activations)]
      /\ stack'[t] = [stack[t] EXCEPT ![a - 1] = x]
      /\ \A u \in Threads \ {t} : stack'[u] = stack[u]
  <2>1. stack' = [stack EXCEPT ![t] = [stack[t] EXCEPT ![a - 1] = x]]
    BY <1>3, <1>6, Zenon
  <2>2. stack[t] \in Seq(Activations)
    BY <1>6, Zenon
  <2>3. [stack[t] EXCEPT ![a - 1] = x] \in Seq(Activations)
    BY <1>3, <1>5, <2>2
  <2> QED BY <1>6, <2>1, <2>3, Zenon
<1>8. Fits(t)
  <2>1. PoolType'
    BY <1>1, <1>4, <1>6, <1>7, Zenon DEF PoolType
  <2>2. ASSUME NEW u \in Threads \ {t} PROVE Untouched(u)
    BY <1>1, <1>4, <1>7, ContextsAlone, Zenon
  <2> QED BY <2>1, <2>2, Zenon DEF Fits
<1>9. /\ Len(stack'[t]) = a - 1 /\ Len(shadow'[t]) = (a - 1) - 1
      /\ stack'[t][a - 1] = x
      /\ Same(stack[t], stack'[t], a - 2)
  <2>1. stack[t] \in Seq(Activations)
    BY <1>6, Zenon
  <2> QED BY <1>1, <1>3, <1>7, <2>1 DEF Same
<1>10. Chain(realReturnAddr, fields, stack[t], shadow[t], a - 1, len, p, el, lv)'
  <2>0. /\ Same(stack[t], stack'[t], a - 2) /\ lv[len] = a - 1 /\ a >= 3
        /\ Chain(realReturnAddr, fields, stack[t], shadow[t], a, len, p, el, lv)
    BY <1>3, <1>9, Zenon
  <2>1. Chain(realReturnAddr, fields, stack'[t], shadow[t], a - 1, len, p, el, lv)
    BY <2>0, ChainDown, Zenon
  <2> QED BY <1>1, <1>4, <2>1, Zenon
<1>11. "fill" # "user" /\ "fill" # "plant" /\ "lock" # "out" /\ "lock" # "unlock"
       /\ "fill" \notin {"takeSlot", "takeRbp", "end", "leave", "float", "ret"}
  BY Zenon
<1>12. Owns(owned[t], Hand(t), len, el)'
  <2>2. Hand(t)' = {}
    BY <1>4, <1>11, Zenon DEF Hand
  <2> QED BY <1>3, <1>4, <2>2, Zenon DEF Owns
<1>13. InEntry(t, a - 1, len, p, el, lv)'
  <2>1. ReturnTo(shadow'[t], p, lv, len, a - 1) = Point(p, len)
    BY <1>3, Zenon DEF ReturnTo
  <2>2. Shadowed(shadow'[t], p, el, lv, len, a - 1)
    BY <1>3, Zenon DEF Shadowed
  <2>3. framed => len <= p
    <3>1. framed => r[1] # "context"
      BY <1>1, Zenon DEF Redirect
    <3> QED BY <1>3, <3>1, FramedFromFrame, Zenon
  <2> QED BY <1>4, <1>5, <1>9, <1>11, <2>1, <2>2, <2>3, Zenon DEF InEntry
<1>14. /\ (reg[t].rbp = CallerRbp(p, el, len, a - 1))' /\ (pc[t] # "fill" => at[t] = "out")'
       /\ InUser(t, a - 1, len, lv)' /\ InReturn(t, a - 1, len, p, lv)'
       /\ InExit(t, a - 1, len, p, el, lv)'
  BY <1>3, <1>4, <1>11, Zenon DEF InUser, InReturn, InExit
<1> QED BY <1>8, <1>10, <1>12, <1>13, <1>14, Zenon DEF Good

\* A function returns to the return point of its wrapper.
LEMMA ReturnStep ==
    ASSUME PoolType, ArrayType, NEW t \in Threads,
           NEW a, NEW len, NEW p, NEW el, NEW lv, Good(t, a, len, p, el, lv), Return(t)
    PROVE  Fits(t) /\ Good(t, a - 1, len, p, el, lv)'
<1> DEFINE r == Leave(t)
           k == <<t, calls[t]>>
           q == IF Last(stack[t]).ret = NO_FRAME_RET_POINT THEN "takeRbp" ELSE "takeSlot"
<1>1. /\ pc[t] = "user" /\ Len(stack[t]) > 1 /\ pc' = [pc EXCEPT ![t] = q]
      /\ stack' = [stack EXCEPT ![t] = Front(@)]
      /\ reg' = [reg EXCEPT ![t].rbp = r, ![t].rax = k, ![t].xmm0 = k]
      /\ UNCHANGED <<arrayVars, fields, below, calls, shadow>>
  BY Zenon DEF Return, Goto
<1>2. UNCHANGED <<realReturnAddr, at, context, owned>>
  BY <1>1, Zenon DEF arrayVars
<1>3. /\ Chain(realReturnAddr, fields, stack[t], shadow[t], a, len, p, el, lv)
      /\ a \in Nat /\ len \in Nat /\ p \in Nat /\ a >= 3
      /\ lv[len] = a - 1 /\ Len(stack[t]) = a - 1 /\ Len(shadow[t]) = a - 2
      /\ r = CallerRbp(p, el, len, a - 1) /\ r \in Words
      /\ stack[t][a - 1].ret = Point(p, len)
      /\ Owns(owned[t], {}, len, el)
  BY <1>1, LeaveFacts, Zenon
<1>4. q \in {"takeSlot", "takeRbp"} /\ (q = "takeSlot" <=> len <= p)
  <2>1. "takeSlot" # "takeRbp" /\ RET_POINT # NO_FRAME_RET_POINT
    BY Zenon DEF RET_POINT, NO_FRAME_RET_POINT
  <2>2. Last(stack[t]).ret = Point(p, len)
    BY <1>3, Zenon DEF Last
  <2> QED BY <2>1, <2>2, Zenon DEF Point
<1>5. k \in Results
  <2>1. calls[t] \in Nat
    BY Zenon DEF PoolType
  <2> QED BY <2>1, Zenon DEF Results
<1> HIDE DEF r, k, q
<1>6. /\ pc' \in [Threads -> Places] /\ pc'[t] = q
      /\ \A u \in Threads \ {t} : pc'[u] = pc[u]
  <2>1. q \in Places /\ pc \in [Threads -> Places]
    BY <1>4, Zenon DEF PoolType, Places
  <2> QED BY <1>1, <2>1, Zenon
<1>7. /\ reg' \in [Threads -> RegisterFile] /\ reg'[t].rbp = r /\ reg'[t].rax = k
      /\ \A u \in Threads \ {t} : reg'[u] = reg[u]
  <2> DEFINE r1 == [reg[t] EXCEPT !.rbp = r, !.rax = k, !.xmm0 = k]
  <2>1. reg \in [Threads -> RegisterFile]
    BY Zenon DEF PoolType
  <2>2. r1 \in RegisterFile /\ r1.rbp = r /\ r1.rax = k
    BY <1>3, <1>5, <2>1, Zenon DEF RegisterFile
  <2>3. reg' = [reg EXCEPT ![t] = r1]
    BY <1>1, <2>1, Zenon DEF RegisterFile
  <2> HIDE DEF r1
  <2>4. reg'[t] = r1 /\ reg' \in [Threads -> RegisterFile]
        /\ \A u \in Threads \ {t} : reg'[u] = reg[u]
    BY <2>1, <2>2, <2>3, Zenon
  <2> QED BY <2>2, <2>4, Zenon
<1>8. /\ stack' \in [Threads -> Seq(Activations)]
      /\ Len(stack'[t]) = (a - 1) - 1 /\ Same(stack[t], stack'[t], a - 2)
      /\ \A u \in Threads \ {t} : stack'[u] = stack[u]
  <2>1. stack \in [Threads -> Seq(Activations)]
    BY Zenon DEF PoolType
  <2>2. Front(stack[t]) = SubSeq(stack[t], 1, a - 2)
    <3>1. Len(stack[t]) - 1 = a - 2
      BY <1>3
    <3> QED BY <3>1, Zenon DEF Front
  <2>3. stack[t] \in Seq(Activations) /\ a - 2 \in Nat /\ a - 2 <= Len(stack[t])
    BY <1>3, <2>1
  <2>4. /\ SubSeq(stack[t], 1, a - 2) \in Seq(Activations)
        /\ Len(SubSeq(stack[t], 1, a - 2)) = a - 2
        /\ \A j \in 1..(a - 2) : SubSeq(stack[t], 1, a - 2)[j] = stack[t][j]
    BY <2>3
  <2>5. stack'[t] = SubSeq(stack[t], 1, a - 2) /\ \A u \in Threads \ {t} : stack'[u] = stack[u]
    BY <1>1, <2>1, <2>2, Zenon
  <2>6. stack' \in [Threads -> Seq(Activations)]
    BY <1>1, <2>1, <2>2, <2>4, Zenon
  <2>7. (a - 1) - 1 = a - 2
    BY <1>3
  <2> QED BY <2>4, <2>5, <2>6, <2>7, Zenon DEF Same
<1>9. Fits(t)
  <2>1. PoolType'
    BY <1>1, <1>2, <1>6, <1>7, <1>8, Zenon DEF PoolType
  <2>2. ASSUME NEW u \in Threads \ {t} PROVE Untouched(u)
    BY <1>1, <1>2, <1>6, <1>7, <1>8, ContextsAlone, Zenon
  <2> QED BY <2>1, <2>2, Zenon DEF Fits
<1>10. Chain(realReturnAddr, fields, stack[t], shadow[t], a - 1, len, p, el, lv)'
  <2>1. Chain(realReturnAddr, fields, stack'[t], shadow[t], a - 1, len, p, el, lv)
    BY <1>3, <1>8, ChainDown, Zenon
  <2> QED BY <1>1, <1>2, <2>1, Zenon
<1>11. /\ "user" # "fill"
       /\ q \notin {"user", "fill", "plant", "end", "leave", "float", "ret"}
  BY <1>4, Zenon
<1>12. Owns(owned[t], Hand(t), len, el)'
  <2>2. Hand(t)' = {}
    BY <1>6, <1>11, Zenon DEF Hand
  <2> QED BY <1>2, <1>3, <2>2, Zenon DEF Owns
<1>13. InReturn(t, a - 1, len, p, lv)'
  <2>1. Len(shadow'[t]) = (a - 1) - 1
    BY <1>1, <1>3
  <2> QED BY <1>1, <1>3, <1>4, <1>6, <1>7, <1>8, <2>1, Zenon DEF InReturn, k
<1>14. /\ (reg[t].rbp = CallerRbp(p, el, len, a - 1))' /\ (pc[t] # "fill" => at[t] = "out")'
       /\ InUser(t, a - 1, len, lv)' /\ InEntry(t, a - 1, len, p, el, lv)'
       /\ InExit(t, a - 1, len, p, el, lv)'
  <2>1. at'[t] = "out"
    BY <1>1, <1>2, <1>11, Zenon DEF Good
  <2> QED BY <1>3, <1>6, <1>7, <1>11, <2>1, Zenon DEF InUser, InEntry, InExit
<1> QED BY <1>9, <1>10, <1>12, <1>13, <1>14, Zenon DEF Good

\* getNewContext hands c out to t.
Handed(t, c) ==
    /\ c \in Contexts /\ \A u \in Threads : c \notin owned[u]
    /\ context' = [context EXCEPT ![t] = c]
    /\ owned' = [owned EXCEPT ![t] = @ \cup {c}]
    /\ \A d \in Contexts \ {c} : realReturnAddr'[d] = realReturnAddr[d]
    /\ at[t] \notin {"out", "unlock"} /\ at'[t] = "unlock"

\* getNewContext goes on.
Quiet(t) ==
    /\ UNCHANGED <<context, owned, realReturnAddr>>
    /\ at[t] \in {"out", "unlock"} <=> at'[t] \in {"out", "unlock"}

\* A step of getNewContext hands out a context or touches none.
LEMMA GetNewEffect ==
    ASSUME ArrayInv, NEW t \in Threads, GetNewContext(t)
    PROVE  /\ Quiet(t) \/ \E c : Handed(t, c)
           /\ at[t] # "out"
           /\ \A u \in Threads \ {t} : at'[u] = at[u]
<1>0. ArrayType /\ Ownership /\ Search
  BY Zenon DEF ArrayInv
<1>1. CASE Acquire(t)
  <2>1. UNCHANGED <<context, owned, realReturnAddr>>
    BY <1>1, Zenon DEF Acquire
  <2>2. /\ at[t] = "lock" /\ at'[t] \in {"bump", "look"}
        /\ \A u \in Threads \ {t} : at'[u] = at[u]
    BY <1>0, <1>1, Moved, Zenon DEF Acquire
  <2> QED BY <2>1, <2>2, Zenon DEF Quiet
<1>2. CASE Look(t)
  <2>1. UNCHANGED <<context, owned, realReturnAddr>>
    BY <1>2, Zenon DEF Look
  <2>2. /\ at[t] = "look" /\ at'[t] \in {"full", "mark", "look"}
        /\ \A u \in Threads \ {t} : at'[u] = at[u]
    BY <1>0, <1>2, Moved, Zenon DEF Look
  <2> QED BY <2>1, <2>2, Zenon DEF Quiet
<1>3. CASE Mark(t)
  <2>1. /\ at[t] = "mark" /\ at'[t] = "unlock"
        /\ \A u \in Threads \ {t} : at'[u] = at[u]
    BY <1>0, <1>3, Moved, Zenon DEF Mark
  <2>2. i[t] \in Contexts /\ realReturnAddr[i[t]] = NULL /\ variant = "x86_64"
    BY <1>0, <2>1, Zenon DEF Search
  <2>3. \A u \in Threads : i[t] \notin owned[u]
    BY <1>0, <2>2, Zenon DEF Ownership
  <2>4. /\ context' = [context EXCEPT ![t] = i[t]]
        /\ owned' = [owned EXCEPT ![t] = @ \cup {i[t]}]
        /\ realReturnAddr' = [realReturnAddr EXCEPT ![i[t]] = STUB]
    BY <1>3, Zenon DEF Mark
  <2>5. \A d \in Contexts \ {i[t]} : realReturnAddr'[d] = realReturnAddr[d]
    BY <1>0, <2>4, Zenon DEF ArrayType
  <2>6. "mark" \notin {"out", "unlock"}
    BY Zenon
  <2> QED BY <2>1, <2>2, <2>3, <2>4, <2>5, <2>6, Zenon DEF Handed
<1>4. CASE Bump(t)
  <2>1. /\ at[t] = "bump" /\ at'[t] = "unlock"
        /\ \A u \in Threads \ {t} : at'[u] = at[u]
    BY <1>0, <1>4, Moved, Zenon DEF Bump
  <2> DEFINE c == freeContextNumber + 1
  <2>2. /\ variant = "cdecl" /\ freeContextNumber < CONTEXT_PREALLOCATED_NUMBER
        /\ freeContextNumber \in 0..CONTEXT_PREALLOCATED_NUMBER
    BY <1>0, <1>4, <2>1, Zenon DEF Search, Bump, ArrayType, N
  <2>3. c \in Contexts /\ c \notin 1..freeContextNumber
    BY <2>2, ArrayAssumption DEF Contexts
  <2>4. \A u \in Threads : c \notin owned[u]
    BY <1>0, <2>2, <2>3, Zenon DEF Ownership
  <2>5. /\ context' = [context EXCEPT ![t] = c]
        /\ owned' = [owned EXCEPT ![t] = @ \cup {c}]
        /\ realReturnAddr' = realReturnAddr
    BY <1>4, Zenon DEF Bump
  <2>6. "bump" \notin {"out", "unlock"} /\ "bump" # "out"
    BY Zenon
  <2> HIDE DEF c
  <2>7. Handed(t, c)
    BY <2>1, <2>3, <2>4, <2>5, <2>6, Zenon DEF Handed
  <2> QED BY <2>1, <2>6, <2>7, Zenon
<1>5. CASE BumpFull(t)
  <2>1. UNCHANGED <<context, owned, realReturnAddr>>
    BY <1>5, Zenon DEF BumpFull
  <2>2. /\ at[t] = "bump" /\ at'[t] = "exit"
        /\ \A u \in Threads \ {t} : at'[u] = at[u]
    BY <1>0, <1>5, Moved, Zenon DEF BumpFull
  <2> QED BY <2>1, <2>2, Zenon DEF Quiet
<1>6. CASE Unlock(t)
  <2>1. UNCHANGED <<context, owned, realReturnAddr>>
    BY <1>6, Zenon DEF Unlock
  <2>2. /\ \/ at[t] = "unlock" /\ at'[t] = "out"
           \/ at[t] = "full" /\ at'[t] = "exit"
        /\ \A u \in Threads \ {t} : at'[u] = at[u]
    BY <1>0, <1>6, Moved, Zenon DEF Unlock
  <2> QED BY <2>1, <2>2, Zenon DEF Quiet
<1>7. CASE Exit(t)
  <2>1. UNCHANGED <<context, owned, realReturnAddr>>
    BY <1>7, Zenon DEF Exit
  <2>2. /\ at[t] = "exit" /\ at'[t] = "exit"
        /\ \A u \in Threads \ {t} : at'[u] = at[u]
    BY <1>0, <1>7, Moved, Zenon DEF Exit
  <2> QED BY <2>1, <2>2, Zenon DEF Quiet
<1> QED BY <1>1, <1>2, <1>3, <1>4, <1>5, <1>6, <1>7, Zenon DEF GetNewContext

\* A wrapper in getNewContext: the context it gets is in its hand.
LEMMA GetContextStep ==
    ASSUME ArrayInv, PoolType, NEW t \in Threads,
           NEW a, NEW len, NEW p, NEW el, NEW lv, Good(t, a, len, p, el, lv),
           GetContext(t)
    PROVE  Fits(t) /\ Good(t, a, len, p, el, lv)'
<1>1. GetNewContext(t) /\ UNCHANGED <<fields, below, stack, reg, pc, calls, shadow>>
  BY Zenon DEF GetContext
<1>2. /\ Quiet(t) \/ \E c : Handed(t, c)
      /\ at[t] # "out"
      /\ \A u \in Threads \ {t} : at'[u] = at[u]
  BY <1>1, GetNewEffect, Zenon
<1>3. pc[t] = "fill" /\ pc'[t] = "fill"
  <2>1. pc[t] = "fill"
    BY <1>2, Zenon DEF Good
  <2> QED BY <1>1, <2>1, Zenon
<1>4. "fill" \notin {"user", "plant", "takeSlot", "takeRbp", "end", "leave", "float", "ret"}
      /\ "fill" # "user" /\ "fill" # "plant"
  BY Zenon
<1>5. /\ (reg[t].rbp = CallerRbp(p, el, len, a))' /\ (pc[t] # "fill" => at[t] = "out")'
      /\ InUser(t, a, len, lv)' /\ InReturn(t, a, len, p, lv)'
      /\ InEntry(t, a, len, p, el, lv)' /\ InExit(t, a, len, p, el, lv)'
  BY <1>1, <1>3, <1>4, Zenon DEF Good, InUser, InReturn, InEntry, InExit
<1>6. Owns(owned[t], Hand(t), len, el)
  BY Zenon DEF Good
<1>7. CASE Quiet(t)
  <2>1. Fits(t)
    <3>1. PoolType'
      BY <1>1, <1>7, Zenon DEF PoolType, Quiet
    <3>2. ASSUME NEW u \in Threads \ {t} PROVE Untouched(u)
      BY <1>1, <1>2, <1>7, ContextsAlone, Zenon DEF Quiet
    <3> QED BY <3>1, <3>2, Zenon DEF Fits
  <2>2. Chain(realReturnAddr, fields, stack[t], shadow[t], a, len, p, el, lv)'
    BY <1>1, <1>7, Zenon DEF Quiet, Good
  <2>3. Owns(owned[t], Hand(t), len, el)'
    BY <1>1, <1>3, <1>4, <1>6, <1>7, Zenon DEF Hand, Quiet, Owns
  <2> QED BY <1>5, <2>1, <2>2, <2>3, Zenon DEF Good
<1>8. ASSUME NEW c, Handed(t, c) PROVE Fits(t) /\ Good(t, a, len, p, el, lv)'
  <2>0. context \in [Threads -> Contexts \cup {NULL}] /\ owned \in [Threads -> SUBSET Contexts]
    BY Zenon DEF PoolType, ArrayInv, ArrayType
  <2>1. /\ context' = [context EXCEPT ![t] = c] /\ owned' = [owned EXCEPT ![t] = @ \cup {c}]
        /\ c \in Contexts
    BY <1>8, Zenon DEF Handed
  <2>2. /\ context' \in [Threads -> Contexts \cup {NULL}]
        /\ context'[t] = c /\ owned'[t] = owned[t] \cup {c}
        /\ \A u \in Threads \ {t} : context'[u] = context[u] /\ owned'[u] = owned[u]
    BY <2>0, <2>1, Zenon
  <2>3. ASSUME NEW u \in Threads PROVE SameOn(owned[u], realReturnAddr, fields, realReturnAddr', fields')
    <3>1. \A d \in owned[u] : d \in Contexts \ {c}
      BY <1>8, <2>0, Zenon DEF Handed
    <3> QED BY <1>1, <1>8, <3>1, Zenon DEF SameOn, Handed
  <2>4. Fits(t)
    <3>1. PoolType'
      BY <1>1, <2>2, Zenon DEF PoolType
    <3>2. ASSUME NEW u \in Threads \ {t} PROVE Untouched(u)
      BY <1>1, <1>2, <2>2, <2>3, Zenon DEF Untouched
    <3> QED BY <3>1, <3>2, Zenon DEF Fits
  <2>5. Chain(realReturnAddr, fields, stack[t], shadow[t], a, len, p, el, lv)'
    <3>1. \A j \in 1..len : el[j] \in owned[t]
      BY <1>6, OwnedCalls, Zenon
    <3>2. SameCalls(realReturnAddr, fields, realReturnAddr', fields', len, el)
      BY <2>3, <3>1, Zenon DEF SameOn, SameCalls
    <3>3. Same(stack[t], stack'[t], a - 1) /\ Same(shadow[t], shadow'[t], lv[len] - 1)
      BY <1>1, Zenon DEF Same
    <3>4. Chain(realReturnAddr, fields, stack[t], shadow[t], a, len, p, el, lv)
      BY Zenon DEF Good
    <3> QED BY <3>2, <3>3, <3>4, ChainStays, Zenon
  <2>6. Owns(owned[t], Hand(t), len, el)'
    <3>1. Hand(t) = {}
      BY <1>3, <1>4, <1>8, Zenon DEF Hand, Handed
    <3>2. Hand(t)' = {c}
      BY <1>3, <1>8, <2>2, Zenon DEF Hand, Handed
    <3>3. owned'[t] = {el[j] : j \in 1..len} \cup {c} /\ c \notin {el[j] : j \in 1..len}
      BY <1>6, <1>8, <2>2, <3>1, Zenon DEF Owns, Handed
    <3> QED BY <3>2, <3>3, Zenon DEF Owns
  <2> QED BY <1>5, <2>4, <2>5, <2>6, Zenon DEF Good
<1> QED BY <1>2, <1>7, <1>8, Zenon

\* A step changes the words of one context only.
OnlyContext(c) ==
    \A d \in Contexts \ {c} : realReturnAddr'[d] = realReturnAddr[d] /\ fields'[d] = fields[d]

\* A step on a context of t leaves the other threads alone.
LEMMA OthersUntouched ==
    ASSUME ArrayInv, NEW t \in Threads, NEW u \in Threads \ {t}, NEW c, OnlyContext(c),
           c \in owned[t],
           stack'[u] = stack[u], reg'[u] = reg[u], pc'[u] = pc[u], calls'[u] = calls[u],
           shadow'[u] = shadow[u], at'[u] = at[u], context'[u] = context[u],
           owned'[u] = owned[u]
    PROVE  Untouched(u)
<1>1. owned \in [Threads -> SUBSET Contexts]
  BY Zenon DEF ArrayInv, ArrayType
<1>2. \A d \in owned[u] : d \in Contexts \ {c}
  BY <1>1, Zenon DEF ArrayInv, Ownership
<1>3. SameOn(owned[u], realReturnAddr, fields, realReturnAddr', fields')
  BY <1>2, Zenon DEF OnlyContext, SameOn
<1> QED BY <1>3, Zenon DEF Untouched

\* A step on the context in hand leaves the calls in progress alone.
LEMMA CallsUntouched ==
    ASSUME ArrayInv, NEW t \in Threads, NEW len, NEW el, NEW c, OnlyContext(c),
           Owns(owned[t], {c}, len, el)
    PROVE  /\ SameCalls(realReturnAddr, fields, realReturnAddr', fields', len, el)
           /\ c \in owned[t] /\ c \in Contexts
<1>1. owned \in [Threads -> SUBSET Contexts]
  BY Zenon DEF ArrayInv, ArrayType
<1>2. /\ \A j \in 1..len : el[j] \in owned[t] /\ el[j] \notin {c}
      /\ \A d \in {c} : d \in owned[t]
  BY Zenon DEF Owns
<1>3. c \in owned[t] /\ \A j \in 1..len : el[j] \in Contexts \ {c}
  BY <1>1, <1>2, Zenon
<1>4. c \in Contexts
  BY <1>1, <1>3, Zenon
<1> QED BY <1>3, <1>4, Zenon DEF OnlyContext, SameCalls

\* A wrapper stores the return address and what its return will need.
LEMMA FillStep ==
    ASSUME ArrayInv, PoolType, NEW t \in Threads,
           NEW a, NEW len, NEW p, NEW el, NEW lv, Good(t, a, len, p, el, lv),
           FillFramed(t) \/ FillFrameless(t)
    PROVE  /\ Fits(t) /\ Good(t, a, len, p, el, lv)'
           /\ context[t] \in owned[t] /\ Last(stack[t]).ret \in Addresses
<1> DEFINE c == context[t]
           v == IF reg[t].framed THEN Slot(t, reg[t].rbp) ELSE reg[t].rbp
           f == IF reg[t].framed THEN [fields[c] EXCEPT !.callerLocVar = v]
                ELSE [fields[c] EXCEPT !.rbp = v]
<1>1. /\ pc[t] = "fill" /\ pc' = [pc EXCEPT ![t] = "plant"]
      /\ Store(t, c, Last(stack[t]).ret)
      /\ UNCHANGED <<below, stack, reg, calls, shadow>>
  BY Zenon DEF FillFramed, FillFrameless, Goto
<1>2. /\ at[t] = "out" /\ at' = [at EXCEPT ![t] = "out"]
      /\ realReturnAddr' = [realReturnAddr EXCEPT ![c] = Last(stack[t]).ret]
      /\ UNCHANGED <<context, owned>>
  BY <1>1, Zenon DEF Store, Move
<1>3. /\ Chain(realReturnAddr, fields, stack[t], shadow[t], a, len, p, el, lv)
      /\ Ghosts(a, len, p, el, lv)
      /\ Len(stack[t]) = a /\ Len(shadow[t]) = a - 1
      /\ stack[t][a] = Activation(ReturnTo(shadow[t], p, lv, len, a), None)
      /\ reg[t].framed => len <= p
      /\ Shadowed(shadow[t], p, el, lv, len, a)
      /\ reg[t].rbp = CallerRbp(p, el, len, a)
      /\ Owns(owned[t], Hand(t), len, el)
  BY <1>1, Zenon DEF Good, InEntry, Chain
<1>4. a \in Nat /\ a >= 2 /\ len \in Nat /\ p \in Nat /\ lv[len] \in {a - 1, a}
  BY <1>3, Bounds, Zenon
<1>5. Hand(t) = {c} /\ Owns(owned[t], {c}, len, el)
  <2>1. Hand(t) = {c}
    BY <1>1, <1>2, Zenon DEF Hand
  <2> QED BY <1>3, <2>1, Zenon
<1>6. c \in owned[t] /\ c \in Contexts /\ c \notin {el[j] : j \in 1..len}
  <2>1. c \in owned[t] /\ c \notin {el[j] : j \in 1..len}
    BY <1>5, Zenon DEF Owns
  <2> QED BY <2>1, Zenon DEF ArrayInv, ArrayType
<1>7. Last(stack[t]).ret = ReturnTo(shadow[t], p, lv, len, a)
  <2>1. Last(stack[t]) = Activation(ReturnTo(shadow[t], p, lv, len, a), None)
    BY <1>3, Zenon DEF Last
  <2>2. Activation(ReturnTo(shadow[t], p, lv, len, a), None).ret
          = ReturnTo(shadow[t], p, lv, len, a)
    BY Parts, Zenon
  <2> QED BY <2>1, <2>2, Zenon
<1>8. Last(stack[t]).ret \in Addresses
  <2>1. Point(p, len) \in Addresses
    BY PoolAssumption, Zenon DEF Point
  <2>2. shadow[t][a - 1].site \in Sites
    <3>1. shadow[t] \in Seq(Calls)
      BY Zenon DEF PoolType
    <3>2. shadow[t][a - 1] \in Calls
      BY <1>3, <3>1, Bounds, Item, Zenon
    <3> QED BY <3>2, Zenon DEF Calls
  <2> QED BY <1>7, <2>1, <2>2, PoolAssumption, Zenon DEF ReturnTo
<1>9. /\ v \in Words /\ (reg[t].framed => v = SlotValue(el, lv, len, a))
      /\ (~reg[t].framed => v = CallerRbp(p, el, len, a))
  <2>0. reg[t] \in RegisterFile /\ stack[t] \in Seq(Activations)
    BY Zenon DEF PoolType
  <2>1. CASE reg[t].framed
    <3>1. stack[t][a - 1].local = SlotValue(el, lv, len, a)
      <4>1. /\ Chain(realReturnAddr, fields, stack[t], shadow[t], a, len, p, el, lv)
            /\ len <= p
        BY <1>3, <2>1, Zenon
      <4> QED BY <4>1, SlotHolds, SMTT(20)
    <3>2. reg[t].rbp = Frame(a - 1)
      <4>1. ~(len > p)
        BY <1>3, <2>1, Bounds, Zenon
      <4> QED BY <1>3, <4>1, Zenon DEF CallerRbp
    <3>3. v = stack[t][a - 1].local
      BY <2>1, <3>2, SlotOfFrame, Zenon
    <3>4. stack[t][a - 1] \in Activations
      <4>1. a - 1 \in 1..a
        BY <1>3, Bounds, Zenon
      <4> QED BY <1>3, <2>0, <4>1, Item, Zenon
    <3>5. v \in Words
      BY <3>3, <3>4, Zenon DEF Activations
    <3> QED BY <2>1, <3>1, <3>3, <3>5, Zenon
  <2>2. CASE ~reg[t].framed
    <3>1. reg[t].rbp \in Words
      BY <2>0, Zenon DEF RegisterFile
    <3> QED BY <1>3, <2>2, <3>1, Zenon
  <2> QED BY <2>1, <2>2, Zenon
<1>10. /\ fields \in [Contexts -> Fields] /\ pc \in [Threads -> Places]
       /\ at \in [Threads -> {"out", "lock", "look", "mark", "bump", "unlock", "full", "exit"}]
       /\ realReturnAddr \in [Contexts -> Addresses \cup {NULL, STUB}]
  BY Zenon DEF PoolType, ArrayInv, ArrayType
<1>11. fields' = [fields EXCEPT ![c] = f]
  <2>1. CASE FillFramed(t)
    <3>1. reg[t].framed /\ fields' = [fields EXCEPT ![c].callerLocVar = Slot(t, reg[t].rbp)]
      BY <2>1, Zenon DEF FillFramed
    <3>2. f = [fields[c] EXCEPT !.callerLocVar = Slot(t, reg[t].rbp)]
      BY <3>1, Zenon
    <3> QED BY <1>6, <1>10, <3>1, <3>2, Zenon
  <2>2. CASE FillFrameless(t)
    <3>1. ~reg[t].framed /\ fields' = [fields EXCEPT ![c].rbp = reg[t].rbp]
      BY <2>2, Zenon DEF FillFrameless
    <3>2. f = [fields[c] EXCEPT !.rbp = reg[t].rbp]
      BY <3>1, Zenon
    <3> QED BY <1>6, <1>10, <3>1, <3>2, Zenon
  <2> QED BY <2>1, <2>2, Zenon
<1>12. /\ f \in Fields
       /\ reg[t].framed => f.callerLocVar = v
       /\ ~reg[t].framed => f.rbp = v
  <2>1. fields[c] \in Fields
    BY <1>6, <1>10, Zenon
  <2> HIDE DEF v, c
  <2> QED BY <1>9, <2>1, Zenon DEF Fields
<1> HIDE DEF f, v, c
<1>13. /\ fields' \in [Contexts -> Fields] /\ fields'[c] = f
       /\ \A d \in Contexts \ {c} : fields'[d] = fields[d]
  BY <1>6, <1>10, <1>11, <1>12, Zenon
<1>14. /\ realReturnAddr'[c] = Last(stack[t]).ret
       /\ \A d \in Contexts \ {c} : realReturnAddr'[d] = realReturnAddr[d]
  BY <1>2, <1>6, <1>10, Zenon
<1>15. /\ pc' \in [Threads -> Places] /\ pc'[t] = "plant" /\ at'[t] = "out"
       /\ \A u \in Threads \ {t} : pc'[u] = pc[u] /\ at'[u] = at[u]
  BY <1>1, <1>2, <1>10, Zenon DEF Places
<1>16. OnlyContext(c)
  BY <1>13, <1>14, Zenon DEF OnlyContext
<1>17. Fits(t)
  <2>1. PoolType'
    BY <1>1, <1>2, <1>13, <1>15, Zenon DEF PoolType
  <2>2. ASSUME NEW u \in Threads \ {t} PROVE Untouched(u)
    BY <1>1, <1>2, <1>6, <1>15, <1>16, OthersUntouched, Zenon
  <2> QED BY <2>1, <2>2, Zenon DEF Fits
<1>18. Chain(realReturnAddr, fields, stack[t], shadow[t], a, len, p, el, lv)'
  <2>1. SameCalls(realReturnAddr, fields, realReturnAddr', fields', len, el)
    BY <1>5, <1>16, CallsUntouched, Zenon
  <2>2. Same(stack[t], stack'[t], a - 1) /\ Same(shadow[t], shadow'[t], lv[len] - 1)
    BY <1>1, Zenon DEF Same
  <2> QED BY <1>3, <2>1, <2>2, ChainStays, Zenon
<1>19. Owns(owned[t], Hand(t), len, el)'
  <2>1. Hand(t)' = {c}
    BY <1>2, <1>15, Zenon DEF Hand, c
  <2> QED BY <1>2, <1>5, <2>1, Zenon DEF Owns
<1>20. "plant" \notin {"user", "fill", "takeSlot", "takeRbp", "end", "leave", "float", "ret"}
       /\ "plant" # "user"
  BY Zenon
<1>21. InEntry(t, a, len, p, el, lv)'
  <2>1. Entered(realReturnAddr', fields', shadow'[t], p, el, lv, len, c, a, reg'[t].framed)
    BY <1>1, <1>7, <1>9, <1>12, <1>13, <1>14, Zenon DEF Entered
  <2> QED BY <1>1, <1>2, <1>3, <2>1, Zenon DEF InEntry, c
<1>22. /\ (reg[t].rbp = CallerRbp(p, el, len, a))' /\ (pc[t] # "fill" => at[t] = "out")'
       /\ InUser(t, a, len, lv)' /\ InReturn(t, a, len, p, lv)'
       /\ InExit(t, a, len, p, el, lv)'
  BY <1>1, <1>3, <1>15, <1>20, Zenon DEF InUser, InReturn, InExit
<1>23. Good(t, a, len, p, el, lv)'
  BY <1>18, <1>19, <1>21, <1>22, Zenon DEF Good
<1> QED BY <1>6, <1>8, <1>17, <1>23, Zenon DEF c

\* A function on the numbers with one more entry.
LEMMA Grows ==
    ASSUME NEW F \in [Nat -> Nat], NEW n \in Nat, NEW x \in Nat
    PROVE  Grown(F, [F EXCEPT ![n + 1] = x], n, x)
<1>1. n + 1 \in Nat /\ \A j \in 0..n : j \in Nat /\ j # n + 1
  OBVIOUS
<1> QED BY <1>1, Zenon DEF Grown

\* The context in hand becomes that of a call in progress.
LEMMA OwnsGrow ==
    ASSUME NEW own, NEW c, NEW len \in Nat, NEW el, NEW el2,
           Owns(own, {c}, len, el), Grown(el, el2, len, c)
    PROVE  Owns(own, {}, len + 1, el2)
<1>1. \A j : j \in 1..(len + 1) <=> j \in 1..len \/ j = len + 1
  OBVIOUS
<1>2. \A j \in 1..len : j \in 0..len
  OBVIOUS
<1>3. el2[len + 1] = c /\ \A j \in 1..len : el2[j] = el[j]
  BY <1>2, Zenon DEF Grown
<1>4. {el2[j] : j \in 1..(len + 1)} = {el[j] : j \in 1..len} \cup {c}
  BY <1>1, <1>3, Zenon
<1> QED BY <1>4, Zenon DEF Owns

\* A thread whose call has been made: the function runs.
LEMMA PlantedGood ==
    ASSUME NEW t \in Threads, NEW a, NEW len, NEW p2, NEW el2, NEW lv2, NEW c, NEW lv,
           a \in Nat, len \in Nat,
           Chain(realReturnAddr, fields, stack[t], shadow[t], a + 1, len + 1, p2, el2, lv2)',
           Owns(owned'[t], {}, len + 1, el2), Grown(lv, lv2, len, a),
           reg'[t].rbp = CallerRbp(p2, el2, len + 1, a + 1),
           pc'[t] = "user", at'[t] = "out", Len(stack'[t]) = a, Len(shadow'[t]) = a - 1
    PROVE  Good(t, a + 1, len + 1, p2, el2, lv2)'
<1>1. (a + 1) - 1 = a /\ (a + 1) - 2 = a - 1
  OBVIOUS
<1>2. "user" \notin {"plant", "fill", "takeSlot", "takeRbp", "end", "leave", "float", "ret"}
      /\ "user" # "plant" /\ "user" # "fill"
  BY Zenon
<1>3. InUser(t, a + 1, len + 1, lv2)'
  BY <1>1, Zenon DEF InUser, Grown
<1>4. Hand(t)' = {}
  BY <1>2, Zenon DEF Hand
<1>5. InEntry(t, a + 1, len + 1, p2, el2, lv2)' /\ InReturn(t, a + 1, len + 1, p2, lv2)'
      /\ InExit(t, a + 1, len + 1, p2, el2, lv2)'
  BY <1>2, Zenon DEF InEntry, InReturn, InExit
<1> QED BY <1>3, <1>4, <1>5, Zenon DEF Good

\* What a thread that is about to make its call knows.
LEMMA PlantFacts ==
    ASSUME ArrayInv, PoolType, NEW t \in Threads,
           NEW a, NEW len, NEW p, NEW el, NEW lv, Good(t, a, len, p, el, lv), pc[t] = "plant"
    PROVE  /\ Chain(realReturnAddr, fields, stack[t], shadow[t], a, len, p, el, lv)
           /\ Ghosts(a, len, p, el, lv)
           /\ a \in Nat /\ a >= 2 /\ len \in Nat /\ p \in Nat
           /\ Len(stack[t]) = a /\ Len(shadow[t]) = a - 1
           /\ stack[t][a] = Activation(ReturnTo(shadow[t], p, lv, len, a), None)
           /\ reg[t].framed => len <= p
           /\ Shadowed(shadow[t], p, el, lv, len, a)
           /\ Entered(realReturnAddr, fields, shadow[t], p, el, lv, len, context[t], a,
                      reg[t].framed)
           /\ reg[t].rbp = CallerRbp(p, el, len, a)
           /\ Owns(owned[t], {context[t]}, len, el)
           /\ context[t] \in Contexts /\ context[t] \in Nat
           /\ \A j \in 1..len : el[j] # context[t]
           /\ at[t] = "out"
<1>0. "plant" # "fill"
  BY Zenon
<1>1. Hand(t) = {context[t]}
  BY Zenon DEF Hand
<1>2. Owns(owned[t], {context[t]}, len, el)
  BY <1>1, Zenon DEF Good
<1>3. context[t] \in owned[t] /\ \A j \in 1..len : el[j] # context[t]
  BY <1>2, Zenon DEF Owns
<1>4. context[t] \in Contexts
  BY <1>3, Zenon DEF ArrayInv, ArrayType
<1>5. context[t] \in Nat
  BY <1>4, ArrayAssumption DEF Contexts
<1>6. Ghosts(a, len, p, el, lv)
  BY Zenon DEF Good, Chain
<1>7. a \in Nat /\ a >= 2 /\ len \in Nat /\ p \in Nat
  BY <1>6, Bounds, Zenon
<1> QED BY <1>0, <1>2, <1>3, <1>4, <1>5, <1>6, <1>7, Zenon DEF Good, InEntry

\* wrapper makes its call.
LEMMA PlantInSlotStep ==
    ASSUME ArrayInv, PoolType, NEW t \in Threads,
           NEW a, NEW len, NEW p, NEW el, NEW lv, Good(t, a, len, p, el, lv),
           PlantInSlot(t)
    PROVE  Fits(t) /\ \E b, m, q, el2, lv2 : Good(t, b, m, q, el2, lv2)'
<1> DEFINE c == context[t]
           S == stack[t]
           x == Activation(RET_POINT, reg[t].rbp)
           S1 == [S EXCEPT ![a] = x]
           S2 == [S1 EXCEPT ![a - 1].local = Context(c)]
<1>1. /\ reg[t].framed /\ pc[t] = "plant" /\ pc' = [pc EXCEPT ![t] = "user"]
      /\ UNCHANGED <<arrayVars, calls, shadow>>
  BY Zenon DEF PlantInSlot, Goto
<1>2. UNCHANGED <<realReturnAddr, at, context, owned>>
  BY <1>1, Zenon DEF arrayVars
<1>3. /\ Chain(realReturnAddr, fields, S, shadow[t], a, len, p, el, lv)
      /\ Ghosts(a, len, p, el, lv)
      /\ a \in Nat /\ a >= 2 /\ len \in Nat /\ p \in Nat
      /\ Len(S) = a /\ Len(shadow[t]) = a - 1
      /\ len <= p /\ Shadowed(shadow[t], p, el, lv, len, a)
      /\ Entered(realReturnAddr, fields, shadow[t], p, el, lv, len, c, a, reg[t].framed)
      /\ reg[t].rbp = CallerRbp(p, el, len, a)
      /\ Owns(owned[t], {c}, len, el)
      /\ c \in Contexts /\ c \in Nat /\ \A j \in 1..len : el[j] # c
      /\ at[t] = "out"
  BY <1>1, PlantFacts, Zenon
<1>4. reg[t].rbp = Frame(a - 1) /\ len = p
  <2>1. ~(len > p)
    BY <1>3, Bounds, Zenon
  <2>2. len = p
    <3>1. Ghosts(a, len, p, el, lv) /\ len <= p
      BY <1>3, Zenon
    <3> QED BY <3>1 DEF Ghosts
  <2> QED BY <1>3, <2>1, <2>2, Zenon DEF CallerRbp
<1>5. /\ stack' = [stack EXCEPT ![t] = S2]
      /\ fields' = fields /\ below' = below
      /\ reg' = [reg EXCEPT ![t] = Registers(Frame(a))]
  <2>1. /\ PutSlot(t, reg[t].rbp, Context(c), fields, [stack[t] EXCEPT ![Len(stack[t])] = x])
        /\ reg' = [reg EXCEPT ![t] = Registers(Frame(Len(stack[t])))]
    BY Zenon DEF PlantInSlot
  <2>2. PutSlot(t, Frame(a - 1), Context(c), fields, S1)
    BY <1>3, <1>4, <2>1, Zenon
  <2>3. Frame(a - 1)[1] = "frame" /\ Frame(a - 1)[2] = a - 1 /\ Frame(a - 1) # Context(1)
        /\ "frame" # "context"
    <3>1. "frame" # "context"
      BY Zenon
    <3> QED BY <3>1, WordTags, Zenon
  <2> HIDE DEF S1, c
  <2>4. /\ stack' = [stack EXCEPT ![t] = S2] /\ fields' = fields /\ below' = below
    BY <2>2, <2>3, Zenon DEF PutSlot
  <2> QED BY <1>3, <2>1, <2>4, Zenon
<1>6. x \in Activations /\ x.ret = RET_POINT /\ x.old = Frame(a - 1) /\ x.local = Data
  <2>1. a - 1 \in Nat
    BY <1>3, Bounds, Zenon
  <2>2. x = Activation(RET_POINT, Frame(a - 1))
    BY <1>4, Zenon
  <2>3. x \in Activations
    BY <2>1, <2>2, ActivationTypes, WordTypes, Zenon
  <2> QED BY <2>2, <2>3, Zenon DEF Activation
<1>7. S \in Seq(Activations) /\ stack \in [Threads -> Seq(Activations)]
      /\ reg \in [Threads -> RegisterFile] /\ pc \in [Threads -> Places]
  BY Zenon DEF PoolType
<1>8. /\ S1 \in Seq(Activations) /\ Len(S1) = a /\ S1[a] = x
      /\ \A k \in 1..(a - 1) : S1[k] = S[k]
  <2> HIDE DEF x, S
  <2>1. Len(S) = a /\ a \in 1..a /\ \A k \in 1..(a - 1) : k \in 1..a /\ k # a
    BY <1>3, Bounds, Zenon
  <2>2. S \in Seq(Activations) /\ x \in Activations /\ a \in 1..Len(S)
    BY <1>6, <1>7, <2>1, Zenon
  <2>3. /\ S1 \in Seq(Activations) /\ Len(S1) = Len(S) /\ S1[a] = x
        /\ \A k \in 1..Len(S) : k # a => S1[k] = S[k]
    <3>1. S1 = [S EXCEPT ![a] = x]
      BY Zenon
    <3> HIDE DEF S1
    <3>2. StoredAt(Activations, S, S1, a, x)
      BY <2>2, <3>1, Stored, Zenon
    <3> QED BY <3>2, Zenon DEF StoredAt
  <2> HIDE DEF S1
  <2> QED BY <2>1, <2>3, Zenon
<1>9. /\ S2 \in Seq(Activations) /\ Len(S2) = a /\ S2[a] = x
      /\ Same(S, S2, a - 2) /\ S2[a - 1].local = Context(c)
      /\ S2[a - 1].ret = S[a - 1].ret /\ S2[a - 1].old = S[a - 1].old
  <2>1. Context(c) \in Words
    BY <1>3, WordTypes, Zenon
  <2> DEFINE y == [S1[a - 1] EXCEPT !.local = Context(c)]
  <2>2. S1[a - 1] \in Activations /\ S1[a - 1] = S[a - 1] /\ a - 1 \in 1..Len(S1)
        /\ a # a - 1 /\ a \in 1..Len(S1)
        /\ \A k \in 1..(a - 2) : k \in 1..(a - 1) /\ k # a - 1
    <3> HIDE DEF S1, S
    <3>1. /\ a - 1 \in 1..a /\ a \in 1..a /\ a # a - 1 /\ a - 1 \in 1..(a - 1)
          /\ \A k \in 1..(a - 2) : k \in 1..(a - 1) /\ k # a - 1
      BY <1>3, Bounds, Zenon
    <3>2. a - 1 \in 1..Len(S1) /\ a \in 1..Len(S1)
      BY <1>8, <3>1, Zenon
    <3>3. S1[a - 1] \in Activations
      BY <1>8, <3>2, Item, Zenon
    <3> QED BY <1>8, <3>1, <3>2, <3>3, Zenon
  <2>3. y \in Activations /\ y.local = Context(c) /\ y.ret = S[a - 1].ret
        /\ y.old = S[a - 1].old
    <3> HIDE DEF S1, S, c
    <3> QED BY <2>1, <2>2, Zenon DEF Activations
  <2>4. S2 = [S1 EXCEPT ![a - 1] = y]
    BY Zenon
  <2> HIDE DEF S2, y, S1, x
  <2>5. /\ S2 \in Seq(Activations) /\ Len(S2) = Len(S1) /\ S2[a - 1] = y
        /\ \A k \in 1..Len(S1) : k # a - 1 => S2[k] = S1[k]
    <3>1. S1 \in Seq(Activations) /\ a - 1 \in 1..Len(S1) /\ y \in Activations
      BY <1>8, <2>2, <2>3, Zenon
    <3>2. StoredAt(Activations, S1, S2, a - 1, y)
      BY <2>4, <3>1, Stored, Zenon
    <3> QED BY <3>2, Zenon DEF StoredAt
  <2>6. \A k \in 1..(a - 2) : S2[k] = S[k]
    <3>1. \A k \in 1..(a - 2) : k \in 1..Len(S1)
      BY <1>3, <1>8, Bounds, Zenon
    <3> QED BY <1>8, <2>2, <2>5, <3>1, Zenon
  <2>7. S2[a] = x /\ Len(S2) = a
    <3>0. a \in 1..Len(S1) /\ a # a - 1 /\ \A k \in 1..Len(S1) : k # a - 1 => S2[k] = S1[k]
      BY <2>2, <2>5, Zenon
    <3>1. S2[a] = S1[a]
      BY <3>0, Zenon
    <3> QED BY <1>8, <2>5, <3>1, Zenon
  <2> QED BY <2>3, <2>5, <2>6, <2>7, Zenon DEF Same
<1> HIDE DEF S2, S1, x
<1>10. /\ stack' \in [Threads -> Seq(Activations)] /\ stack'[t] = S2
       /\ \A u \in Threads \ {t} : stack'[u] = stack[u]
  BY <1>5, <1>7, <1>9, Zenon
<1>11. /\ reg' \in [Threads -> RegisterFile] /\ reg'[t].rbp = Frame(a)
       /\ \A u \in Threads \ {t} : reg'[u] = reg[u]
  <2>1. Registers(Frame(a)) \in RegisterFile
    BY <1>3, ActivationTypes, WordTypes, Zenon
  <2>2. Registers(Frame(a)).rbp = Frame(a)
    BY Zenon DEF Registers
  <2> QED BY <1>5, <1>7, <2>1, <2>2, Zenon
<1>12. /\ pc' \in [Threads -> Places] /\ pc'[t] = "user"
       /\ \A u \in Threads \ {t} : pc'[u] = pc[u]
  BY <1>1, <1>7, Zenon DEF Places
<1>13. Fits(t)
  <2>1. PoolType'
    BY <1>1, <1>2, <1>5, <1>10, <1>11, <1>12, Zenon DEF PoolType
  <2>2. ASSUME NEW u \in Threads \ {t} PROVE Untouched(u)
    BY <1>1, <1>2, <1>5, <1>10, <1>11, <1>12, ContextsAlone, Zenon
  <2> QED BY <2>1, <2>2, Zenon DEF Fits
<1> HIDE DEF c
<1>14. PICK el2, lv2 : Grown(el, el2, len, c) /\ Grown(lv, lv2, len, a)
  <2>1. el \in [Nat -> Nat] /\ lv \in [Nat -> Nat] /\ len \in Nat /\ a \in Nat /\ c \in Nat
    BY <1>3, Zenon DEF Ghosts
  <2> QED BY <2>1, Grows, Zenon
<1>15. Chain(realReturnAddr, fields, stack[t], shadow[t], a + 1, len + 1, p + 1, el2, lv2)'
  <2>1. Entered(realReturnAddr, fields, shadow[t], p, el, lv, len, c, a, TRUE)
    BY <1>1, <1>3, Zenon DEF Entered
  <2>2. /\ S2[a].ret = RET_POINT /\ S2[a].old = Frame(a - 1) /\ S2[a].local = Data
    BY <1>6, <1>9, Zenon
  <2>3. Chain(realReturnAddr, fields, S2, shadow[t], a + 1, len + 1, p + 1, el2, lv2)
    <3>1. NotAmong(c, len, el) /\ PlantedFramed(S, S2, a, c)
      BY <1>3, <1>9, <2>2, Zenon DEF NotAmong, PlantedFramed
    <3>2. /\ Chain(realReturnAddr, fields, S, shadow[t], a, len, p, el, lv) /\ AllFramed(len, p)
          /\ Shadowed(shadow[t], p, el, lv, len, a) /\ c \in Contexts
      BY <1>3, <1>4, Zenon DEF AllFramed
    <3> HIDE DEF S
    <3> QED BY <3>1, <3>2, <1>14, <2>1, ChainGrowsFramed, Zenon
  <2>4. realReturnAddr' = realReturnAddr /\ fields' = fields /\ shadow'[t] = shadow[t]
        /\ stack'[t] = S2
    BY <1>1, <1>2, <1>5, <1>10, Zenon
  <2> QED BY <2>3, <2>4, Zenon
<1>16. Owns(owned'[t], {}, len + 1, el2)
  BY <1>2, <1>3, <1>14, OwnsGrow, Zenon
<1>17. reg'[t].rbp = CallerRbp(p + 1, el2, len + 1, a + 1)
  <2>0. a \in Nat /\ len \in Nat /\ p \in Nat
    BY <1>3, Zenon
  <2>1. ~(len + 1 > p + 1) /\ (a + 1) - 1 = a
    BY <1>4, <2>0
  <2> QED BY <1>11, <2>1, Zenon DEF CallerRbp
<1>18. Good(t, a + 1, len + 1, p + 1, el2, lv2)'
  <2>1. at'[t] = "out" /\ Len(stack'[t]) = a /\ Len(shadow'[t]) = a - 1
    BY <1>1, <1>2, <1>3, <1>9, <1>10, Zenon
  <2>2. a \in Nat /\ len \in Nat
    BY <1>3, Zenon
  <2> QED BY <2>2, <1>12, <1>14, <1>15, <1>16, <1>17, <2>1, PlantedGood, Zenon
<1> QED BY <1>13, <1>18, Zenon

\* wrapper_no_stack_frame makes its call.
LEMMA PlantInRbpStep ==
    ASSUME ArrayInv, PoolType, NEW t \in Threads,
           NEW a, NEW len, NEW p, NEW el, NEW lv, Good(t, a, len, p, el, lv),
           PlantInRbp(t)
    PROVE  Fits(t) /\ \E b, m, q, el2, lv2 : Good(t, b, m, q, el2, lv2)'
<1> DEFINE c == context[t]
           S == stack[t]
           y == [S[a] EXCEPT !.ret = NO_FRAME_RET_POINT]
           S2 == [S EXCEPT ![a] = y]
<1>1. /\ ~reg[t].framed /\ pc[t] = "plant" /\ pc' = [pc EXCEPT ![t] = "user"]
      /\ stack' = [stack EXCEPT ![t][Len(stack[t])].ret = NO_FRAME_RET_POINT]
      /\ reg' = [reg EXCEPT ![t] = Registers(Context(c))]
      /\ UNCHANGED <<arrayVars, fields, below, calls, shadow>>
  BY Zenon DEF PlantInRbp, Goto
<1>2. UNCHANGED <<realReturnAddr, at, context, owned>>
  BY <1>1, Zenon DEF arrayVars
<1>3. /\ Chain(realReturnAddr, fields, S, shadow[t], a, len, p, el, lv)
      /\ Ghosts(a, len, p, el, lv)
      /\ a \in Nat /\ a >= 2 /\ len \in Nat /\ p \in Nat
      /\ Len(S) = a /\ Len(shadow[t]) = a - 1
      /\ S[a] = Activation(ReturnTo(shadow[t], p, lv, len, a), None)
      /\ Shadowed(shadow[t], p, el, lv, len, a)
      /\ Entered(realReturnAddr, fields, shadow[t], p, el, lv, len, c, a, reg[t].framed)
      /\ Owns(owned[t], {c}, len, el)
      /\ c \in Contexts /\ c \in Nat /\ \A j \in 1..len : el[j] # c
      /\ at[t] = "out"
  <2>1. pc[t] = "plant"
    BY <1>1, Zenon
  <2>2. S[a] = Activation(ReturnTo(shadow[t], p, lv, len, a), None)
    BY <2>1, PlantFacts, Zenon
  <2>3. /\ Chain(realReturnAddr, fields, S, shadow[t], a, len, p, el, lv)
        /\ Ghosts(a, len, p, el, lv)
        /\ a \in Nat /\ a >= 2 /\ len \in Nat /\ p \in Nat
        /\ Len(S) = a /\ Len(shadow[t]) = a - 1
        /\ Shadowed(shadow[t], p, el, lv, len, a)
        /\ Entered(realReturnAddr, fields, shadow[t], p, el, lv, len, c, a, reg[t].framed)
    BY <2>1, PlantFacts, Zenon
  <2>4. Owns(owned[t], {c}, len, el) /\ c \in Contexts /\ c \in Nat
    BY <2>1, PlantFacts, Zenon
  <2>6. \A j \in 1..len : el[j] # c
    BY <2>4, Zenon DEF Owns
  <2>5. at[t] = "out"
    BY <2>1, PlantFacts, Zenon
  <2> QED BY <2>2, <2>3, <2>4, <2>5, <2>6, Zenon
<1>4. S \in Seq(Activations) /\ stack \in [Threads -> Seq(Activations)]
      /\ reg \in [Threads -> RegisterFile] /\ pc \in [Threads -> Places]
  BY Zenon DEF PoolType
<1>5. y \in Activations /\ y.ret = NO_FRAME_RET_POINT /\ y.old = None /\ y.local = Data
  <2>1. S[a] \in Activations
    BY <1>3, <1>4, Bounds, Item, Zenon
  <2>2. S[a].old = None /\ S[a].local = Data
    <3>1. /\ Activation(ReturnTo(shadow[t], p, lv, len, a), None).old = None
          /\ Activation(ReturnTo(shadow[t], p, lv, len, a), None).local = Data
      BY Parts, Zenon
    <3> QED BY <1>3, <3>1, Zenon
  <2>3. NO_FRAME_RET_POINT \in Returns
    BY ActivationTypes, Zenon
  <2> QED BY <2>1, <2>2, <2>3, Zenon DEF Activations
<1>6. stack' = [stack EXCEPT ![t] = S2]
  BY <1>1, <1>3, Zenon
<1> HIDE DEF y
<1>7. /\ S2 \in Seq(Activations) /\ Len(S2) = a /\ S2[a] = y /\ Same(S, S2, a - 1)
  <2> HIDE DEF S
  <2> QED BY <1>3, <1>4, <1>5 DEF Same
<1> HIDE DEF S2
<1>8. /\ stack' \in [Threads -> Seq(Activations)] /\ stack'[t] = S2
      /\ \A u \in Threads \ {t} : stack'[u] = stack[u]
  BY <1>4, <1>6, <1>7, Zenon
<1>9. /\ reg' \in [Threads -> RegisterFile] /\ reg'[t].rbp = Context(c)
      /\ \A u \in Threads \ {t} : reg'[u] = reg[u]
  <2>1. Registers(Context(c)) \in RegisterFile
    BY <1>3, ActivationTypes, WordTypes, Zenon
  <2>2. Registers(Context(c)).rbp = Context(c)
    BY Zenon DEF Registers
  <2> QED BY <1>1, <1>4, <2>1, <2>2, Zenon
<1>10. /\ pc' \in [Threads -> Places] /\ pc'[t] = "user"
       /\ \A u \in Threads \ {t} : pc'[u] = pc[u]
  BY <1>1, <1>4, Zenon DEF Places
<1>11. Fits(t)
  <2>1. PoolType'
    BY <1>1, <1>2, <1>8, <1>9, <1>10, Zenon DEF PoolType
  <2>2. ASSUME NEW u \in Threads \ {t} PROVE Untouched(u)
    BY <1>1, <1>2, <1>8, <1>9, <1>10, ContextsAlone, Zenon
  <2> QED BY <2>1, <2>2, Zenon DEF Fits
<1> HIDE DEF c
<1>12. PICK el2, lv2 : Grown(el, el2, len, c) /\ Grown(lv, lv2, len, a)
  <2>1. el \in [Nat -> Nat] /\ lv \in [Nat -> Nat] /\ len \in Nat /\ a \in Nat /\ c \in Nat
    BY <1>3, Zenon DEF Ghosts
  <2> QED BY <2>1, Grows, Zenon
<1>13. Chain(realReturnAddr, fields, stack[t], shadow[t], a + 1, len + 1, p, el2, lv2)'
  <2>1. Entered(realReturnAddr, fields, shadow[t], p, el, lv, len, c, a, FALSE)
    BY <1>1, <1>3, Zenon DEF Entered
  <2>2. NotAmong(c, len, el) /\ PlantedFrameless(S, S2, a)
    BY <1>3, <1>5, <1>7, Zenon DEF NotAmong, PlantedFrameless
  <2>3. /\ Chain(realReturnAddr, fields, S, shadow[t], a, len, p, el, lv)
        /\ Shadowed(shadow[t], p, el, lv, len, a) /\ c \in Contexts
    BY <1>3, Zenon
  <2>4. Chain(realReturnAddr, fields, S2, shadow[t], a + 1, len + 1, p, el2, lv2)
    <3> HIDE DEF S
    <3> QED BY <1>12, <2>1, <2>2, <2>3, ChainGrowsFrameless, Zenon
  <2> QED BY <1>1, <1>2, <1>8, <2>4, Zenon
<1>14. Owns(owned'[t], {}, len + 1, el2)
  BY <1>2, <1>3, <1>12, OwnsGrow, Zenon
<1>15. reg'[t].rbp = CallerRbp(p, el2, len + 1, a + 1)
  <2>1. len + 1 > p
    BY <1>3, Bounds, Zenon
  <2> QED BY <1>9, <1>12, <2>1, Zenon DEF CallerRbp, Grown
<1>16. Good(t, a + 1, len + 1, p, el2, lv2)'
  <2>1. at'[t] = "out" /\ Len(stack'[t]) = a /\ Len(shadow'[t]) = a - 1
    BY <1>1, <1>2, <1>3, <1>7, <1>8, Zenon
  <2>2. a \in Nat /\ len \in Nat
    BY <1>3, Zenon
  <2> QED BY <2>2, <1>10, <1>12, <1>13, <1>14, <1>15, <2>1, PlantedGood, Zenon
<1> QED BY <1>11, <1>16, Zenon

\* The results go into the context, and nothing else changes in the array.
LEMMA ResultsStored ==
    ASSUME PoolType, NEW t \in Threads, NEW c \in Contexts
    PROVE  /\ WithResults(t, c) \in [Contexts -> Fields]
           /\ WithResults(t, c)[c].integerResult = reg[t].rax
           /\ WithResults(t, c)[c].callerLocVar = fields[c].callerLocVar
           /\ WithResults(t, c)[c].rbp = fields[c].rbp
           /\ \A d \in Contexts \ {c} : WithResults(t, c)[d] = fields[d]
<1> DEFINE f == [fields[c] EXCEPT !.integerResult = reg[t].rax,
                                  !.floatingPointResult = reg[t].xmm0]
<1>1. fields \in [Contexts -> Fields] /\ reg[t] \in RegisterFile
  BY Zenon DEF PoolType
<1>2. reg[t].rax \in Results /\ reg[t].xmm0 \in Results
  BY <1>1, Zenon DEF RegisterFile
<1>3. /\ f \in Fields /\ f.integerResult = reg[t].rax
      /\ f.callerLocVar = fields[c].callerLocVar /\ f.rbp = fields[c].rbp
  <2>1. fields[c] \in Fields
    BY <1>1, Zenon
  <2> QED BY <1>2, <2>1, Zenon DEF Fields
<1>4. WithResults(t, c) = [fields EXCEPT ![c] = f]
  BY <1>1, Zenon DEF WithResults, Fields
<1> HIDE DEF f
<1> QED BY <1>1, <1>3, <1>4, Zenon

\* The innermost context leaves the chain and stays with its thread.
LEMMA OwnsShrink ==
    ASSUME NEW own, NEW len \in Nat, NEW el, len \in 1..len, Owns(own, {}, len, el),
           \A j \in 1..(len - 1) : el[j] # el[len]
    PROVE  Owns(own, {el[len]}, len - 1, el)
<1>1. \A j : j \in 1..len <=> j \in 1..(len - 1) \/ j = len
  OBVIOUS
<1>2. {el[j] : j \in 1..len} = {el[j] : j \in 1..(len - 1)} \cup {el[len]}
  BY <1>1, Zenon
<1> QED BY <1>2, Zenon DEF Owns

\* The two ways to take the context of a call back: from the chain of its
\* thread to r15.
Taken(t, c) ==
    /\ pc[t] \in {"takeSlot", "takeRbp"} /\ pc' = [pc EXCEPT ![t] = "end"]
    /\ fields' = WithResults(t, c) /\ below' = below
    /\ UNCHANGED <<arrayVars, calls, shadow>>

\* A return that has found the innermost context has it in r15, with the result.
LEMMA TakenGood ==
    ASSUME ArrayInv, PoolType, NEW t \in Threads, NEW a, NEW len, NEW p, NEW el, NEW lv,
           Good(t, a, len, p, el, lv), NEW p2, p2 = IF len <= p THEN p - 1 ELSE p,
           Taken(t, el[len]),
           stack' \in [Threads -> Seq(Activations)], reg' \in [Threads -> RegisterFile],
           \A u \in Threads \ {t} : stack'[u] = stack[u] /\ reg'[u] = reg[u],
           Chain(realReturnAddr, fields, stack'[t], shadow[t], a, len - 1, p2, el, lv),
           Len(stack'[t]) = a - 1, reg'[t].r15 = el[len],
           reg'[t].rbp = CallerRbp(p2, el, len - 1, a)
    PROVE  Fits(t) /\ Good(t, a, len - 1, p2, el, lv)'
<1> DEFINE c == el[len]
<1>0. pc[t] \notin {"fill", "plant", "end", "leave"} /\ "end" # "user" /\ "end" \in Places
      /\ "end" \notin {"fill", "plant", "takeSlot", "takeRbp", "float", "ret"}
      /\ "end" # "fill" /\ "end" # "plant"
  BY Zenon DEF Taken, Places
<1>1. /\ Chain(realReturnAddr, fields, stack[t], shadow[t], a, len, p, el, lv)
      /\ Ghosts(a, len, p, el, lv)
      /\ Len(shadow[t]) = a - 1 /\ lv[len] = a /\ reg[t].rax = <<t, calls[t]>>
      /\ at[t] = "out" /\ Owns(owned[t], Hand(t), len, el)
  BY <1>0, Zenon DEF Good, InReturn, Chain, Taken
<1>2. /\ Entered(realReturnAddr, fields, shadow[t], p2, el, lv, len - 1, c, a, len <= p)
      /\ Shadowed(shadow[t], p2, el, lv, len - 1, a)
      /\ c \in Contexts /\ \A j \in 1..(len - 1) : el[j] # c
  <2>1. Chain(realReturnAddr, fields, stack[t], shadow[t], a, len, p, el, lv) /\ lv[len] = a
    BY <1>1, Zenon
  <2>2. Shrunk(realReturnAddr, fields, shadow[t], a, len, p, p2, el, lv)
    BY <2>1, LinksShrink, Zenon
  <2> QED BY <2>2, Zenon DEF Shrunk
<1>3. len \in Nat /\ len \in 1..len
  <2>1. lv[len] >= 2
    BY <1>1, Zenon DEF Ghosts
  <2> QED BY <1>1, <2>1, SomeContext, Zenon
<1>4. Hand(t) = {} /\ Owns(owned[t], {c}, len - 1, el)
  <2>1. Hand(t) = {}
    BY <1>0, Zenon DEF Hand
  <2>2. Owns(owned[t], {}, len, el)
    BY <1>1, <2>1, Zenon
  <2> QED BY <1>2, <1>3, <2>1, <2>2, OwnsShrink, Zenon
<1>5. UNCHANGED <<realReturnAddr, at, context, owned>>
  BY Zenon DEF Taken, arrayVars
<1>6. /\ fields' \in [Contexts -> Fields] /\ fields'[c].integerResult = reg[t].rax
      /\ fields'[c].callerLocVar = fields[c].callerLocVar /\ fields'[c].rbp = fields[c].rbp
      /\ \A d \in Contexts \ {c} : fields'[d] = fields[d]
  BY <1>2, ResultsStored, Zenon DEF Taken
<1> HIDE DEF c
<1>7. OnlyContext(c)
  BY <1>5, <1>6, Zenon DEF OnlyContext
<1>8. /\ SameCalls(realReturnAddr, fields, realReturnAddr', fields', len - 1, el)
      /\ c \in owned[t]
  BY <1>4, <1>7, CallsUntouched, Zenon
<1>9. /\ pc' \in [Threads -> Places] /\ pc'[t] = "end"
      /\ \A u \in Threads \ {t} : pc'[u] = pc[u]
  <2>1. pc \in [Threads -> Places] /\ pc' = [pc EXCEPT ![t] = "end"]
    BY Zenon DEF PoolType, Taken
  <2> QED BY <1>0, <2>1, Zenon
<1>10. Fits(t)
  <2>1. PoolType'
    BY <1>5, <1>6, <1>9, Zenon DEF PoolType, Taken
  <2>2. ASSUME NEW u \in Threads \ {t} PROVE Untouched(u)
    BY <1>5, <1>7, <1>8, <1>9, OthersUntouched, Zenon DEF Taken
  <2> QED BY <2>1, <2>2, Zenon DEF Fits
<1>11. Chain(realReturnAddr, fields, stack[t], shadow[t], a, len - 1, p2, el, lv)'
  <2>1. Same(stack'[t], stack'[t], a - 1) /\ Same(shadow[t], shadow'[t], lv[len - 1] - 1)
    BY Zenon DEF Same, Taken
  <2>2. SameCalls(realReturnAddr, fields, realReturnAddr', fields', len - 1, el)
    BY <1>8, Zenon
  <2>3. Chain(realReturnAddr, fields, stack'[t], shadow[t], a, len - 1, p2, el, lv)
    OBVIOUS
  <2> QED BY <2>1, <2>2, <2>3, ChainStays, Zenon
<1>12. Owns(owned[t], Hand(t), len - 1, el)'
  <2>1. Hand(t)' = {c}
    BY <1>0, <1>9, Zenon DEF Hand, c
  <2> QED BY <1>4, <1>5, <2>1, Zenon DEF Owns
<1>13. InExit(t, a, len - 1, p2, el, lv)'
  <2>1. realReturnAddr'[c] = ReturnTo(shadow'[t], p2, lv, len - 1, a)
    BY <1>2, <1>5, Zenon DEF Entered, Taken
  <2>2. fields'[c].integerResult = <<t, calls'[t]>>
    BY <1>1, <1>6, Zenon DEF Taken
  <2>3. Shadowed(shadow'[t], p2, el, lv, len - 1, a) /\ Len(shadow'[t]) = a - 1
    BY <1>1, <1>2, Zenon DEF Taken
  <2> QED BY <1>0, <1>9, <2>1, <2>2, <2>3, Zenon DEF InExit, c
<1>14. /\ (pc[t] # "fill" => at[t] = "out")'
       /\ InUser(t, a, len - 1, lv)' /\ InReturn(t, a, len - 1, p2, lv)'
       /\ InEntry(t, a, len - 1, p2, el, lv)'
  BY <1>0, <1>1, <1>5, <1>9, Zenon DEF InUser, InReturn, InEntry
<1> QED BY <1>10, <1>11, <1>12, <1>13, <1>14, Zenon DEF Good

\* What a thread that comes back to its wrapper knows.
Returned(t, a, len, p, el, lv) ==
    /\ Chain(realReturnAddr, fields, stack[t], shadow[t], a, len, p, el, lv)
    /\ Ghosts(a, len, p, el, lv)
    /\ a \in Nat /\ a >= 2 /\ len \in Nat /\ p \in Nat /\ len \in 1..len
    /\ Len(stack[t]) = a - 1 /\ lv[len] = a
    /\ reg[t].rbp = CallerRbp(p, el, len, a)
    /\ (pc[t] = "takeSlot" <=> len <= p)
    /\ el[len] \in Contexts

\* In wrapper_ret_point and wrapper_no_frame_ret_point.
LEMMA TakeFacts ==
    ASSUME PoolType, NEW t \in Threads,
           NEW a, NEW len, NEW p, NEW el, NEW lv, Good(t, a, len, p, el, lv),
           pc[t] \in {"takeSlot", "takeRbp"}
    PROVE  Returned(t, a, len, p, el, lv)
<1>1. /\ Chain(realReturnAddr, fields, stack[t], shadow[t], a, len, p, el, lv)
      /\ Ghosts(a, len, p, el, lv)
      /\ Len(stack[t]) = a - 1 /\ lv[len] = a
      /\ reg[t].rbp = CallerRbp(p, el, len, a)
      /\ (pc[t] = "takeSlot" <=> len <= p)
  BY Zenon DEF Good, InReturn, Chain
<1>2. a \in Nat /\ a >= 2 /\ len \in Nat /\ p \in Nat /\ lv[len] >= 2
  BY <1>1, Bounds, Zenon
<1>3. len \in 1..len
  BY <1>1, <1>2, SomeContext, Zenon
<1>4. PICK p2 : p2 = IF len <= p THEN p - 1 ELSE p
  BY Zenon
<1>5. Shrunk(realReturnAddr, fields, shadow[t], a, len, p, p2, el, lv)
  BY <1>1, <1>4, LinksShrink, Zenon
<1>6. el[len] \in Contexts
  BY <1>5, Zenon DEF Shrunk
<1> QED BY <1>1, <1>2, <1>3, <1>6, Zenon DEF Returned

\* wrapper_ret_point finds the context in the caller's local variable.
LEMMA TakeFromSlotStep ==
    ASSUME ArrayInv, PoolType, NEW t \in Threads,
           NEW a, NEW len, NEW p, NEW el, NEW lv, Good(t, a, len, p, el, lv),
           TakeFromSlot(t)
    PROVE  Fits(t) /\ \E b, m, q, el2, lv2 : Good(t, b, m, q, el2, lv2)'
<1> DEFINE c == el[len]
           S == stack[t]
           v == fields[c].callerLocVar
           y == [S[a - 1] EXCEPT !.local = v]
           S2 == [S EXCEPT ![a - 1] = y]
<1>1. /\ pc[t] = "takeSlot" /\ pc' = [pc EXCEPT ![t] = "end"]
      /\ PutSlot(t, reg[t].rbp, fields[Slot(t, reg[t].rbp)[2]].callerLocVar,
                 WithResults(t, Slot(t, reg[t].rbp)[2]), stack[t])
      /\ reg' = [reg EXCEPT ![t].r15 = Slot(t, reg[t].rbp)[2]]
      /\ UNCHANGED <<arrayVars, calls, shadow>>
  BY Zenon DEF TakeFromSlot, Goto
<1>2. /\ Chain(realReturnAddr, fields, S, shadow[t], a, len, p, el, lv)
      /\ Ghosts(a, len, p, el, lv)
      /\ a \in Nat /\ a >= 2 /\ len \in Nat /\ p \in Nat /\ len \in 1..len
      /\ Len(S) = a - 1 /\ lv[len] = a /\ len <= p
      /\ reg[t].rbp = CallerRbp(p, el, len, a) /\ c \in Contexts
  <2>1. pc[t] \in {"takeSlot", "takeRbp"}
    BY <1>1, Zenon
  <2>2. Returned(t, a, len, p, el, lv)
    BY <2>1, TakeFacts, Zenon
  <2> QED BY <1>1, <2>2, Zenon DEF Returned
<1>3. len = p /\ S[a - 1].local = Context(c)
  <2>0. Chain(realReturnAddr, fields, S, shadow[t], a, len, p, el, lv) /\ len <= p
    BY <1>2, Zenon
  <2>1. S[a - 1].local = SlotValue(el, lv, len, a) /\ len = p
    <3> HIDE DEF S
    <3> QED BY <2>0, SlotHolds, SMTT(20)
  <2> QED BY <1>2, <2>1, Zenon DEF SlotValue
<1>4. reg[t].rbp = Frame(a - 1)
  <2>1. ~(len > p)
    BY <1>2
  <2> QED BY <1>2, <2>1, Zenon DEF CallerRbp
<1>5. Slot(t, reg[t].rbp)[2] = c
  <2>1. Slot(t, reg[t].rbp) = Context(c)
    BY <1>3, <1>4, SlotOfFrame, Zenon
  <2> QED BY <2>1, WordTags, Zenon
<1>6. /\ stack' = [stack EXCEPT ![t] = [S EXCEPT ![a - 1].local = v]]
      /\ fields' = WithResults(t, c) /\ below' = below
      /\ reg' = [reg EXCEPT ![t].r15 = c]
  <2>1. PutSlot(t, Frame(a - 1), v, WithResults(t, c), S)
    BY <1>1, <1>4, <1>5, Zenon
  <2>2. Frame(a - 1)[1] = "frame" /\ Frame(a - 1)[2] = a - 1 /\ Frame(a - 1) # Context(1)
        /\ "frame" # "context"
    <3>1. "frame" # "context"
      BY Zenon
    <3> QED BY <3>1, WordTags, Zenon
  <2> HIDE DEF c, v, S
  <2>3. /\ stack' = [stack EXCEPT ![t] = [S EXCEPT ![a - 1].local = v]]
        /\ fields' = WithResults(t, c) /\ below' = below
    BY <2>1, <2>2, Zenon DEF PutSlot
  <2> QED BY <1>1, <1>5, <2>3, Zenon
<1>7. S \in Seq(Activations) /\ stack \in [Threads -> Seq(Activations)]
      /\ reg \in [Threads -> RegisterFile] /\ fields \in [Contexts -> Fields]
  BY Zenon DEF PoolType
<1>8. v \in Words
  <2>1. fields[c] \in Fields
    BY <1>2, <1>7, Zenon
  <2> QED BY <2>1, Zenon DEF Fields
<1>9. y \in Activations /\ y.local = v /\ y.ret = S[a - 1].ret /\ y.old = S[a - 1].old
  <2>0. a - 1 \in 1..(a - 1)
    BY <1>2, Bounds, Zenon DEF Chain
  <2>1. S[a - 1] \in Activations
    BY <1>2, <1>7, <2>0, Item, Zenon
  <2> HIDE DEF v, S
  <2> QED BY <1>8, <2>1, Zenon DEF Activations
<1>10. stack' = [stack EXCEPT ![t] = S2]
  BY <1>6, Zenon
<1> HIDE DEF y, v, c
<1>11. /\ S2 \in Seq(Activations) /\ Len(S2) = a - 1 /\ S2[a - 1] = y /\ Same(S, S2, a - 2)
  <2> HIDE DEF S
  <2> QED BY <1>2, <1>7, <1>9 DEF Same
<1> HIDE DEF S2
<1>12. /\ stack' \in [Threads -> Seq(Activations)] /\ stack'[t] = S2
       /\ \A u \in Threads \ {t} : stack'[u] = stack[u]
  BY <1>7, <1>10, <1>11, Zenon
<1>13. /\ reg' \in [Threads -> RegisterFile] /\ reg'[t].rbp = Frame(a - 1) /\ reg'[t].r15 = c
       /\ \A u \in Threads \ {t} : reg'[u] = reg[u]
  <2> DEFINE r1 == [reg[t] EXCEPT !.r15 = c]
  <2>1. reg[t] \in RegisterFile
    BY <1>7, Zenon
  <2>2. r1 \in RegisterFile /\ r1.rbp = reg[t].rbp /\ r1.r15 = c
    BY <1>2, <2>1, Zenon DEF RegisterFile
  <2>3. reg' = [reg EXCEPT ![t] = r1]
    BY <1>6, Zenon
  <2> HIDE DEF r1
  <2>4. reg'[t] = r1 /\ reg' \in [Threads -> RegisterFile]
        /\ \A u \in Threads \ {t} : reg'[u] = reg[u]
    BY <1>7, <2>2, <2>3, Zenon
  <2> QED BY <1>4, <2>2, <2>4, Zenon
<1>14. PICK p2 : p2 = IF len <= p THEN p - 1 ELSE p
  BY Zenon
<1>15. p2 = p - 1
  BY <1>2, <1>14, Zenon
<1>16. Chain(realReturnAddr, fields, stack'[t], shadow[t], a, len - 1, p2, el, lv)
  <2>1. S2[a - 1].local = fields[el[len]].callerLocVar
    BY <1>9, <1>11, Zenon DEF v, c
  <2>2. S2[a - 1].ret = S[a - 1].ret /\ S2[a - 1].old = S[a - 1].old
    BY <1>9, <1>11, Zenon
  <2>3. /\ Chain(realReturnAddr, fields, S, shadow[t], a, len, p, el, lv)
        /\ lv[len] = a /\ len <= p /\ Same(S, S2, a - 2)
    BY <1>2, <1>11, Zenon
  <2> HIDE DEF S
  <2>4. Chain(realReturnAddr, fields, S2, shadow[t], a, len - 1, p - 1, el, lv)
    BY <2>1, <2>2, <2>3, ChainShrinksFramed, Zenon
  <2> QED BY <1>12, <1>15, <2>4, Zenon
<1>17. reg'[t].rbp = CallerRbp(p2, el, len - 1, a)
  <2>1. ~(len - 1 > p2)
    BY <1>2, <1>3, <1>15
  <2> QED BY <1>13, <2>1, Zenon DEF CallerRbp
<1>18. Taken(t, el[len])
  BY <1>1, <1>6, Zenon DEF Taken, c
<1>19. Len(stack'[t]) = a - 1 /\ reg'[t].r15 = el[len]
  BY <1>11, <1>12, <1>13, Zenon DEF c
<1> HIDE DEF S
<1>20. Fits(t) /\ Good(t, a, len - 1, p2, el, lv)'
  BY <1>12, <1>13, <1>14, <1>16, <1>17, <1>18, <1>19, TakenGood, Zenon
<1> QED BY <1>20, Zenon

\* wrapper_no_frame_ret_point finds the context in rbp.
LEMMA TakeFromRbpStep ==
    ASSUME ArrayInv, PoolType, NEW t \in Threads,
           NEW a, NEW len, NEW p, NEW el, NEW lv, Good(t, a, len, p, el, lv),
           TakeFromRbp(t)
    PROVE  Fits(t) /\ \E b, m, q, el2, lv2 : Good(t, b, m, q, el2, lv2)'
<1> DEFINE c == el[len]
           b0 == fields[c].rbp
<1>1. /\ pc[t] = "takeRbp" /\ pc' = [pc EXCEPT ![t] = "end"]
      /\ fields' = WithResults(t, reg[t].rbp[2])
      /\ reg' = [reg EXCEPT ![t].r15 = reg[t].rbp[2], ![t].rbp = fields[reg[t].rbp[2]].rbp]
      /\ UNCHANGED <<arrayVars, below, stack, calls, shadow>>
  BY Zenon DEF TakeFromRbp, Goto
<1>2. /\ Chain(realReturnAddr, fields, stack[t], shadow[t], a, len, p, el, lv)
      /\ a \in Nat /\ a >= 2 /\ len \in Nat /\ p \in Nat /\ len \in 1..len
      /\ Len(stack[t]) = a - 1 /\ lv[len] = a /\ ~(len <= p)
      /\ reg[t].rbp = CallerRbp(p, el, len, a) /\ c \in Contexts
  <2>1. "takeRbp" # "takeSlot"
    BY Zenon
  <2>2. pc[t] \in {"takeSlot", "takeRbp"}
    BY <1>1, Zenon
  <2>3. Returned(t, a, len, p, el, lv)
    BY <2>2, TakeFacts, Zenon
  <2> QED BY <1>1, <2>1, <2>3, Zenon DEF Returned
<1>3. reg[t].rbp[2] = c
  <2>0. len \in Nat /\ p \in Nat /\ ~(len <= p)
    BY <1>2, Zenon
  <2>1. len > p
    BY <2>0
  <2> QED BY <1>2, <2>1, WordTags, Zenon DEF CallerRbp
<1>4. /\ fields' = WithResults(t, c)
      /\ reg' = [reg EXCEPT ![t].r15 = c, ![t].rbp = b0]
  BY <1>1, <1>3, Zenon
<1>5. stack \in [Threads -> Seq(Activations)]
      /\ reg \in [Threads -> RegisterFile] /\ fields \in [Contexts -> Fields]
  BY Zenon DEF PoolType
<1>6. b0 \in Words
  <2>1. fields[c] \in Fields
    BY <1>2, <1>5, Zenon
  <2> QED BY <2>1, Zenon DEF Fields
<1> HIDE DEF c, b0
<1>7. /\ reg' \in [Threads -> RegisterFile] /\ reg'[t].rbp = b0 /\ reg'[t].r15 = c
      /\ \A u \in Threads \ {t} : reg'[u] = reg[u]
  <2> DEFINE r1 == [reg[t] EXCEPT !.r15 = c, !.rbp = b0]
  <2>1. reg[t] \in RegisterFile
    BY <1>5, Zenon
  <2>2. r1 \in RegisterFile /\ r1.rbp = b0 /\ r1.r15 = c
    BY <1>2, <1>6, <2>1, Zenon DEF RegisterFile
  <2>3. reg' = [reg EXCEPT ![t] = r1]
    BY <1>4, <1>5, Zenon DEF RegisterFile
  <2> HIDE DEF r1
  <2>4. reg'[t] = r1 /\ reg' \in [Threads -> RegisterFile]
        /\ \A u \in Threads \ {t} : reg'[u] = reg[u]
    BY <1>5, <2>2, <2>3, Zenon
  <2> QED BY <2>2, <2>4, Zenon
<1>8. PICK p2 : p2 = IF len <= p THEN p - 1 ELSE p
  BY Zenon
<1>9. p2 = p
  BY <1>2, <1>8, Zenon
<1>10. Chain(realReturnAddr, fields, stack'[t], shadow[t], a, len - 1, p2, el, lv)
  <2>1. Chain(realReturnAddr, fields, stack[t], shadow[t], a, len - 1, p, el, lv)
    BY <1>2, ChainShrinksFrameless, Zenon
  <2> QED BY <1>1, <1>9, <2>1, Zenon
<1>11. reg'[t].rbp = CallerRbp(p2, el, len - 1, a)
  <2>0. Shrunk(realReturnAddr, fields, shadow[t], a, len, p, p2, el, lv)
    <3>1. Chain(realReturnAddr, fields, stack[t], shadow[t], a, len, p, el, lv) /\ lv[len] = a
      BY <1>2, Zenon
    <3> QED BY <1>8, <3>1, LinksShrink, Zenon
  <2>1. Entered(realReturnAddr, fields, shadow[t], p2, el, lv, len - 1, c, a, len <= p)
    BY <2>0, Zenon DEF Shrunk, c
  <2> QED BY <1>2, <1>7, <2>1, Zenon DEF Entered, b0
<1>12. Taken(t, el[len])
  BY <1>1, <1>4, Zenon DEF Taken, c
<1>13. /\ stack' \in [Threads -> Seq(Activations)]
       /\ \A u \in Threads \ {t} : stack'[u] = stack[u] /\ reg'[u] = reg[u]
       /\ Len(stack'[t]) = a - 1 /\ reg'[t].r15 = el[len]
  BY <1>1, <1>2, <1>5, <1>7, Zenon DEF c
<1>14. Fits(t) /\ Good(t, a, len - 1, p2, el, lv)'
  BY <1>7, <1>8, <1>10, <1>11, <1>12, <1>13, TakenGood, Zenon
<1> QED BY <1>14, Zenon

\* What a thread that is on its way out of a wrapper knows.
Exiting(t, a, len, p, el, lv) ==
    /\ Chain(realReturnAddr, fields, stack[t], shadow[t], a, len, p, el, lv)
    /\ a \in Nat /\ a >= 2 /\ len \in Nat /\ p \in Nat /\ lv[len] \in {a - 1, a}
    /\ Len(stack[t]) = a - 1 /\ Len(shadow[t]) = a - 1
    /\ Shadowed(shadow[t], p, el, lv, len, a)
    /\ reg[t].rbp = CallerRbp(p, el, len, a)
    /\ at[t] = "out"

\* From record_end_time to the ret.
LEMMA ExitFacts ==
    ASSUME NEW t \in Threads, NEW a, NEW len, NEW p, NEW el, NEW lv,
           Good(t, a, len, p, el, lv), pc[t] \in {"end", "leave", "float", "ret"}
    PROVE  /\ Exiting(t, a, len, p, el, lv)
           /\ pc[t] \notin {"user", "fill", "plant", "takeSlot", "takeRbp"}
<1>1. pc[t] \notin {"user", "fill", "plant", "takeSlot", "takeRbp"}
  BY Zenon
<1>2. Ghosts(a, len, p, el, lv)
  BY Zenon DEF Good, Chain
<1>3. a \in Nat /\ a >= 2 /\ len \in Nat /\ p \in Nat /\ lv[len] \in {a - 1, a}
  BY <1>2, Bounds, Zenon
<1> QED BY <1>1, <1>3, Zenon DEF Exiting, Good, InExit

\* The context in r15 is the thread's own.
LEMMA HeldContext ==
    ASSUME ArrayInv, NEW t \in Threads, NEW a, NEW len, NEW p, NEW el, NEW lv,
           Good(t, a, len, p, el, lv), pc[t] \in {"end", "leave"}
    PROVE  /\ Owns(owned[t], {reg[t].r15}, len, el)
           /\ reg[t].r15 \in owned[t] /\ reg[t].r15 \in Contexts
<1>1. pc[t] # "plant" /\ pc[t] # "fill"
  BY Zenon
<1>2. Hand(t) = {reg[t].r15}
  BY <1>1, Zenon DEF Hand
<1>3. Owns(owned[t], {reg[t].r15}, len, el)
  BY <1>2, Zenon DEF Good
<1>4. reg[t].r15 \in owned[t]
  BY <1>3, Zenon DEF Owns
<1> QED BY <1>3, <1>4, Zenon DEF ArrayInv, ArrayType

\* record_end_time.
LEMMA RecordEndTimeStep ==
    ASSUME ArrayInv, PoolType, NEW t \in Threads,
           NEW a, NEW len, NEW p, NEW el, NEW lv, Good(t, a, len, p, el, lv),
           RecordEndTime(t)
    PROVE  Fits(t) /\ Good(t, a, len, p, el, lv)'
<1>1. /\ pc[t] = "end" /\ pc' = [pc EXCEPT ![t] = "leave"]
      /\ fields' = [fields EXCEPT ![reg[t].r15].endTime = Time]
      /\ UNCHANGED <<arrayVars, below, stack, reg, calls, shadow>>
  BY Zenon DEF RecordEndTime, Goto
<1>2. UNCHANGED <<realReturnAddr, at, context, owned>>
  BY <1>1, Zenon DEF arrayVars
<1>3. /\ Exiting(t, a, len, p, el, lv)
      /\ pc[t] \notin {"user", "fill", "plant", "takeSlot", "takeRbp"}
  <2>1. pc[t] \in {"end", "leave", "float", "ret"}
    BY <1>1, Zenon
  <2> QED BY <2>1, ExitFacts, Zenon
<1>4. reg[t].r15 \in Contexts
  <2>1. pc[t] \in {"end", "leave"}
    BY <1>1, Zenon
  <2> QED BY <2>1, HeldContext, Zenon
<1>5. fields' = fields
  <2>1. fields \in [Contexts -> Fields] /\ fields[reg[t].r15] \in Fields
    BY <1>4, Zenon DEF PoolType
  <2>2. [fields[reg[t].r15] EXCEPT !.endTime = Time] = fields[reg[t].r15]
    BY <2>1, Zenon DEF Fields
  <2> QED BY <1>1, <1>4, <2>1, <2>2, Zenon
<1>6. /\ pc' \in [Threads -> Places] /\ pc'[t] = "leave"
      /\ \A u \in Threads \ {t} : pc'[u] = pc[u]
  <2>1. pc \in [Threads -> Places] /\ "leave" \in Places
    BY Zenon DEF PoolType, Places
  <2> QED BY <1>1, <2>1, Zenon
<1>7. Fits(t)
  <2>1. PoolType'
    BY <1>1, <1>2, <1>5, <1>6, Zenon DEF PoolType
  <2>2. ASSUME NEW u \in Threads \ {t} PROVE Untouched(u)
    BY <1>1, <1>2, <1>5, <1>6, ContextsAlone, Zenon
  <2> QED BY <2>1, <2>2, Zenon DEF Fits
<1>8. "leave" \notin {"user", "fill", "plant", "takeSlot", "takeRbp", "float", "ret"}
  BY Zenon
<1>9. Chain(realReturnAddr, fields, stack[t], shadow[t], a, len, p, el, lv)'
  BY <1>1, <1>2, <1>3, <1>5, Zenon DEF Exiting
<1>10. Owns(owned[t], Hand(t), len, el)'
  <2>1. Hand(t)' = {reg[t].r15}
    BY <1>1, <1>6, <1>8, Zenon DEF Hand
  <2>2. pc[t] \in {"end", "leave"}
    BY <1>1, Zenon
  <2>3. Owns(owned[t], {reg[t].r15}, len, el)
    BY <2>2, HeldContext, Zenon
  <2> QED BY <1>2, <2>1, <2>3, Zenon DEF Owns
<1>11. InExit(t, a, len, p, el, lv)'
  <2>1. InExit(t, a, len, p, el, lv)
    BY Zenon DEF Good
  <2> QED BY <1>1, <1>2, <1>5, <1>6, <1>8, <2>1, Zenon DEF InExit
<1>12. /\ (reg[t].rbp = CallerRbp(p, el, len, a))' /\ (pc[t] # "fill" => at[t] = "out")'
       /\ InUser(t, a, len, lv)' /\ InReturn(t, a, len, p, lv)'
       /\ InEntry(t, a, len, p, el, lv)'
  BY <1>1, <1>2, <1>3, <1>6, <1>8, Zenon DEF InUser, InReturn, InEntry, Exiting
<1> QED BY <1>7, <1>9, <1>10, <1>11, <1>12, Zenon DEF Good

\* The wrapper loads rax and the return address and releases its context.
LEMMA LeaveContextStep ==
    ASSUME ArrayInv, PoolType, NEW t \in Threads,
           NEW a, NEW len, NEW p, NEW el, NEW lv, Good(t, a, len, p, el, lv),
           LeaveContext(t)
    PROVE  Fits(t) /\ Good(t, a, len, p, el, lv)' /\ reg[t].r15 \in owned[t]
<1> DEFINE c == reg[t].r15
           x == fields[c].integerResult
           w == realReturnAddr[c]
<1>1. /\ pc[t] = "leave" /\ pc' = [pc EXCEPT ![t] = "float"]
      /\ reg' = [reg EXCEPT ![t].rax = x, ![t].to = w]
      /\ Release(t, c)
      /\ UNCHANGED <<fields, below, stack, calls, shadow>>
  BY Zenon DEF LeaveContext, Goto
<1>2. pc[t] \in {"end", "leave"} /\ pc[t] \in {"end", "leave", "float", "ret"}
  BY <1>1, Zenon
<1>3. /\ Exiting(t, a, len, p, el, lv)
      /\ pc[t] \notin {"user", "fill", "plant", "takeSlot", "takeRbp"}
  BY <1>2, ExitFacts, Zenon
<1>4. Owns(owned[t], {c}, len, el) /\ c \in owned[t] /\ c \in Contexts
  BY <1>2, HeldContext, Zenon
<1>5. /\ w = ReturnTo(shadow[t], p, lv, len, a) /\ x = <<t, calls[t]>>
  BY <1>2, Zenon DEF Good, InExit
<1>6. /\ at[t] = "out" /\ at' = [at EXCEPT ![t] = "out"] /\ context' = context
      /\ realReturnAddr' = IF variant = "cdecl" THEN realReturnAddr
                           ELSE [realReturnAddr EXCEPT ![c] = NULL]
      /\ owned' = [owned EXCEPT ![t] = @ \ {c}]
  BY <1>1, Zenon DEF Release, Move
<1>7. /\ reg \in [Threads -> RegisterFile] /\ fields \in [Contexts -> Fields]
      /\ pc \in [Threads -> Places] /\ owned \in [Threads -> SUBSET Contexts]
      /\ realReturnAddr \in [Contexts -> Returns]
      /\ at \in [Threads -> {"out", "lock", "look", "mark", "bump", "unlock", "full", "exit"}]
  BY Zenon DEF PoolType, ArrayInv, ArrayType, Returns
<1>8. w \in Returns /\ x \in Results
  <2>1. fields[c] \in Fields /\ w \in Returns
    BY <1>4, <1>7, Zenon
  <2> QED BY <2>1, Zenon DEF Fields
<1> HIDE DEF c, x, w
<1>9. /\ reg' \in [Threads -> RegisterFile] /\ reg'[t].rbp = reg[t].rbp /\ reg'[t].r15 = c
      /\ reg'[t].rax = x /\ reg'[t].to = w
      /\ \A u \in Threads \ {t} : reg'[u] = reg[u]
  <2> DEFINE r1 == [reg[t] EXCEPT !.rax = x, !.to = w]
  <2>1. reg[t] \in RegisterFile
    BY <1>7, Zenon
  <2>2. r1 \in RegisterFile /\ r1.rbp = reg[t].rbp /\ r1.r15 = c /\ r1.rax = x /\ r1.to = w
    BY <1>8, <2>1, Zenon DEF RegisterFile, c
  <2>3. reg' = [reg EXCEPT ![t] = r1]
    BY <1>1, <1>7, Zenon DEF RegisterFile
  <2> HIDE DEF r1
  <2>4. reg'[t] = r1 /\ reg' \in [Threads -> RegisterFile]
        /\ \A u \in Threads \ {t} : reg'[u] = reg[u]
    BY <1>7, <2>2, <2>3, Zenon
  <2> QED BY <2>2, <2>4, Zenon
<1>10. /\ pc' \in [Threads -> Places] /\ pc'[t] = "float"
       /\ \A u \in Threads \ {t} : pc'[u] = pc[u]
  <2>1. "float" \in Places
    BY Zenon DEF Places
  <2> QED BY <1>1, <1>7, <2>1, Zenon
<1>11. \A u \in Threads : at'[u] = at[u]
  BY <1>6, <1>7, Zenon
<1>12. owned'[t] = owned[t] \ {c} /\ \A u \in Threads \ {t} : owned'[u] = owned[u]
  BY <1>6, <1>7, Zenon
<1>13. OnlyContext(c)
  <2>1. \A d \in Contexts \ {c} : realReturnAddr'[d] = realReturnAddr[d]
    BY <1>6, <1>7, Zenon
  <2> QED BY <1>1, <2>1, Zenon DEF OnlyContext
<1>14. Fits(t)
  <2>1. PoolType'
    BY <1>1, <1>6, <1>9, <1>10, Zenon DEF PoolType
  <2>2. ASSUME NEW u \in Threads \ {t} PROVE Untouched(u)
    <3>1. /\ stack'[u] = stack[u] /\ reg'[u] = reg[u] /\ pc'[u] = pc[u] /\ calls'[u] = calls[u]
          /\ shadow'[u] = shadow[u] /\ at'[u] = at[u] /\ context'[u] = context[u]
          /\ owned'[u] = owned[u]
      BY <1>1, <1>6, <1>9, <1>10, <1>11, <1>12, Zenon
    <3> QED BY <1>4, <1>13, <3>1, OthersUntouched, Zenon
  <2> QED BY <2>1, <2>2, Zenon DEF Fits
<1>15. Chain(realReturnAddr, fields, stack[t], shadow[t], a, len, p, el, lv)'
  <2>1. SameCalls(realReturnAddr, fields, realReturnAddr', fields', len, el)
    BY <1>4, <1>13, CallsUntouched, Zenon
  <2>2. Same(stack[t], stack'[t], a - 1) /\ Same(shadow[t], shadow'[t], lv[len] - 1)
    BY <1>1, Zenon DEF Same
  <2>3. Chain(realReturnAddr, fields, stack[t], shadow[t], a, len, p, el, lv)
    BY <1>3, Zenon DEF Exiting
  <2> QED BY <2>1, <2>2, <2>3, ChainStays, Zenon
<1>16. "float" \notin {"user", "fill", "plant", "takeSlot", "takeRbp", "end", "leave"}
  BY Zenon
<1>17. Owns(owned[t], Hand(t), len, el)'
  <2>1. Hand(t)' = {}
    BY <1>10, <1>16, Zenon DEF Hand
  <2>2. owned'[t] = {el[j] : j \in 1..len}
    BY <1>4, <1>12, Zenon DEF Owns
  <2> QED BY <2>1, <2>2, Zenon DEF Owns
<1>18. InExit(t, a, len, p, el, lv)'
  <2>1. /\ Len(stack'[t]) = a - 1 /\ Len(shadow'[t]) = a - 1
        /\ Shadowed(shadow'[t], p, el, lv, len, a)
    BY <1>1, <1>3, Zenon DEF Exiting
  <2>2. /\ reg'[t].to = ReturnTo(shadow'[t], p, lv, len, a)
        /\ reg'[t].rax = <<t, calls'[t]>> /\ reg'[t].r15 \in Contexts
    BY <1>1, <1>4, <1>5, <1>9, Zenon
  <2> QED BY <1>10, <1>16, <2>1, <2>2, Zenon DEF InExit
<1>19. /\ (reg[t].rbp = CallerRbp(p, el, len, a))' /\ (pc[t] # "fill" => at[t] = "out")'
       /\ InUser(t, a, len, lv)' /\ InReturn(t, a, len, p, lv)'
       /\ InEntry(t, a, len, p, el, lv)'
  BY <1>3, <1>9, <1>10, <1>11, <1>16, Zenon DEF InUser, InReturn, InEntry, Exiting
<1>20. Good(t, a, len, p, el, lv)'
  BY <1>15, <1>17, <1>18, <1>19, Zenon DEF Good
<1> QED BY <1>4, <1>14, <1>20, Zenon DEF c

\* xmm0 is loaded from the context that the thread no longer has.
LEMMA LoadFloatStep ==
    ASSUME ArrayInv, PoolType, NEW t \in Threads,
           NEW a, NEW len, NEW p, NEW el, NEW lv, Good(t, a, len, p, el, lv),
           LoadFloat(t)
    PROVE  Fits(t) /\ Good(t, a, len, p, el, lv)'
<1> DEFINE x == fields[reg[t].r15].floatingPointResult
<1>1. /\ pc[t] = "float" /\ pc' = [pc EXCEPT ![t] = "ret"]
      /\ reg' = [reg EXCEPT ![t].xmm0 = x]
      /\ UNCHANGED <<arrayVars, fields, below, stack, calls, shadow>>
  BY Zenon DEF LoadFloat, Goto
<1>2. UNCHANGED <<realReturnAddr, at, context, owned>>
  BY <1>1, Zenon DEF arrayVars
<1>3. pc[t] \in {"end", "leave", "float", "ret"} /\ pc[t] \in {"float", "ret"}
  BY <1>1, Zenon
<1>4. /\ Exiting(t, a, len, p, el, lv)
      /\ pc[t] \notin {"user", "fill", "plant", "takeSlot", "takeRbp"}
  BY <1>3, ExitFacts, Zenon
<1>5. /\ reg[t].to = ReturnTo(shadow[t], p, lv, len, a)
      /\ reg[t].rax = <<t, calls[t]>> /\ reg[t].r15 \in Contexts
  BY <1>3, Zenon DEF Good, InExit
<1>6. x \in Results
  <2>1. fields[reg[t].r15] \in Fields
    BY <1>5, Zenon DEF PoolType
  <2> QED BY <2>1, Zenon DEF Fields
<1>7. reg \in [Threads -> RegisterFile] /\ pc \in [Threads -> Places]
  BY Zenon DEF PoolType
<1> HIDE DEF x
<1>8. /\ reg' \in [Threads -> RegisterFile] /\ reg'[t].rbp = reg[t].rbp
      /\ reg'[t].r15 = reg[t].r15 /\ reg'[t].rax = reg[t].rax /\ reg'[t].to = reg[t].to
      /\ \A u \in Threads \ {t} : reg'[u] = reg[u]
  <2> DEFINE r1 == [reg[t] EXCEPT !.xmm0 = x]
  <2>1. reg[t] \in RegisterFile
    BY <1>7, Zenon
  <2>2. /\ r1 \in RegisterFile /\ r1.rbp = reg[t].rbp /\ r1.r15 = reg[t].r15
        /\ r1.rax = reg[t].rax /\ r1.to = reg[t].to
    BY <1>6, <2>1, Zenon DEF RegisterFile
  <2>3. reg' = [reg EXCEPT ![t] = r1]
    BY <1>1, Zenon
  <2> HIDE DEF r1
  <2>4. reg'[t] = r1 /\ reg' \in [Threads -> RegisterFile]
        /\ \A u \in Threads \ {t} : reg'[u] = reg[u]
    BY <1>7, <2>2, <2>3, Zenon
  <2> QED BY <2>2, <2>4, Zenon
<1>9. /\ pc' \in [Threads -> Places] /\ pc'[t] = "ret"
      /\ \A u \in Threads \ {t} : pc'[u] = pc[u]
  <2>1. "ret" \in Places
    BY Zenon DEF Places
  <2> QED BY <1>1, <1>7, <2>1, Zenon
<1>10. Fits(t)
  <2>1. PoolType'
    BY <1>1, <1>2, <1>8, <1>9, Zenon DEF PoolType
  <2>2. ASSUME NEW u \in Threads \ {t} PROVE Untouched(u)
    BY <1>1, <1>2, <1>8, <1>9, ContextsAlone, Zenon
  <2> QED BY <2>1, <2>2, Zenon DEF Fits
<1>11. "ret" \notin {"user", "fill", "plant", "takeSlot", "takeRbp", "end", "leave"}
       /\ "float" \notin {"user", "fill", "plant", "takeSlot", "takeRbp", "end", "leave"}
  BY Zenon
<1>12. Chain(realReturnAddr, fields, stack[t], shadow[t], a, len, p, el, lv)'
  BY <1>1, <1>2, <1>4, Zenon DEF Exiting
<1>13. Owns(owned[t], Hand(t), len, el)'
  <2>1. Hand(t)' = {} /\ Hand(t) = {}
    BY <1>1, <1>9, <1>11, Zenon DEF Hand
  <2> QED BY <1>2, <2>1, Zenon DEF Owns, Good
<1>14. InExit(t, a, len, p, el, lv)'
  <2>1. /\ Len(stack'[t]) = a - 1 /\ Len(shadow'[t]) = a - 1
        /\ Shadowed(shadow'[t], p, el, lv, len, a)
    BY <1>1, <1>4, Zenon DEF Exiting
  <2>2. /\ reg'[t].to = ReturnTo(shadow'[t], p, lv, len, a)
        /\ reg'[t].rax = <<t, calls'[t]>> /\ reg'[t].r15 \in Contexts
    BY <1>1, <1>5, <1>8, Zenon
  <2> QED BY <1>9, <1>11, <2>1, <2>2, Zenon DEF InExit
<1>15. /\ (reg[t].rbp = CallerRbp(p, el, len, a))' /\ (pc[t] # "fill" => at[t] = "out")'
       /\ InUser(t, a, len, lv)' /\ InReturn(t, a, len, p, lv)'
       /\ InEntry(t, a, len, p, el, lv)'
  BY <1>2, <1>4, <1>8, <1>9, <1>11, Zenon DEF InUser, InReturn, InEntry, Exiting
<1> QED BY <1>10, <1>12, <1>13, <1>14, <1>15, Zenon DEF Good

\* Where a wrapper's ret goes: to the caller, or for a function that was
\* tail-called to the wrapper of the function that made the jump.
LEMMA ReturnAddress ==
    ASSUME PoolType, NEW t \in Threads, NEW a, NEW len, NEW p, NEW el, NEW lv,
           Exiting(t, a, len, p, el, lv), reg[t].to = ReturnTo(shadow[t], p, lv, len, a)
    PROVE  /\ lv[len] = a => reg[t].to = Point(p, len)
           /\ lv[len] # a => /\ reg[t].to = shadow[t][a - 1].site
                             /\ reg[t].to \notin {RET_POINT, NO_FRAME_RET_POINT}
           /\ Point(p, len) \in {RET_POINT, NO_FRAME_RET_POINT}
           /\ Point(p, len) = RET_POINT <=> len <= p
           /\ RET_POINT # NO_FRAME_RET_POINT
<1>1. RET_POINT # NO_FRAME_RET_POINT
  BY Zenon DEF RET_POINT, NO_FRAME_RET_POINT
<1>2. /\ Point(p, len) \in {RET_POINT, NO_FRAME_RET_POINT}
      /\ Point(p, len) = RET_POINT <=> len <= p
  BY <1>1, Zenon DEF Point
<1>3. shadow[t][a - 1].site \in Sites
  <2>1. shadow[t] \in Seq(Calls)
    BY Zenon DEF PoolType
  <2>2. shadow[t][a - 1] \in Calls
    BY <2>1 DEF Exiting
  <2> QED BY <2>2, Zenon DEF Calls
<1>4. shadow[t][a - 1].site \notin {RET_POINT, NO_FRAME_RET_POINT}
  BY <1>3, PoolAssumption, Zenon
<1> QED BY <1>1, <1>2, <1>4, Zenon DEF ReturnTo

\* ret, to the program or to the wrapper of the function that made a tail call.
LEMMA ResumeStep ==
    ASSUME ArrayInv, PoolType, NEW t \in Threads,
           NEW a, NEW len, NEW p, NEW el, NEW lv, Good(t, a, len, p, el, lv),
           Resume(t)
    PROVE  Fits(t) /\ Good(t, a, len, p, el, lv)'
<1> DEFINE to == reg[t].to
           q == CASE to = RET_POINT -> "takeSlot"
                  [] to = NO_FRAME_RET_POINT -> "takeRbp"
                  [] OTHER -> "user"
<1>1. /\ pc[t] = "ret" /\ pc' = [pc EXCEPT ![t] = q]
      /\ shadow' = IF pc'[t] = "user" THEN [shadow EXCEPT ![t] = Front(@)] ELSE shadow
      /\ reg' = IF pc'[t] = "user" THEN [reg EXCEPT ![t] = Registers(@.rbp)] ELSE reg
      /\ UNCHANGED <<arrayVars, fields, below, stack, calls>>
  BY Zenon DEF Resume, Goto
<1>2. UNCHANGED <<realReturnAddr, at, context, owned>>
  BY <1>1, Zenon DEF arrayVars
<1>3. pc[t] \in {"end", "leave", "float", "ret"} /\ pc[t] \in {"float", "ret"}
  BY <1>1, Zenon
<1>4. /\ Exiting(t, a, len, p, el, lv)
      /\ pc[t] \notin {"user", "fill", "plant", "takeSlot", "takeRbp"}
  BY <1>3, ExitFacts, Zenon
<1>5. to = ReturnTo(shadow[t], p, lv, len, a) /\ reg[t].rax = <<t, calls[t]>>
  BY <1>3, Zenon DEF Good, InExit
<1>6. /\ lv[len] = a => to = Point(p, len)
      /\ lv[len] # a => to \notin {RET_POINT, NO_FRAME_RET_POINT}
      /\ Point(p, len) \in {RET_POINT, NO_FRAME_RET_POINT}
      /\ Point(p, len) = RET_POINT <=> len <= p
      /\ RET_POINT # NO_FRAME_RET_POINT
  <2>1. Exiting(t, a, len, p, el, lv) /\ reg[t].to = ReturnTo(shadow[t], p, lv, len, a)
    BY <1>4, <1>5, Zenon
  <2>2. /\ lv[len] = a => reg[t].to = Point(p, len)
        /\ lv[len] # a => /\ reg[t].to = shadow[t][a - 1].site
                          /\ reg[t].to \notin {RET_POINT, NO_FRAME_RET_POINT}
        /\ Point(p, len) \in {RET_POINT, NO_FRAME_RET_POINT}
        /\ Point(p, len) = RET_POINT <=> len <= p
        /\ RET_POINT # NO_FRAME_RET_POINT
    <3> HIDE DEF to, q
    <3> QED BY <2>1, ReturnAddress, Zenon
  <2> QED BY <2>2, Zenon
<1>7. /\ lv[len] = a => q \in {"takeSlot", "takeRbp"} /\ (q = "takeSlot" <=> len <= p)
      /\ lv[len] # a => q = "user"
  <2>1. /\ to = RET_POINT => q = "takeSlot"
        /\ to = NO_FRAME_RET_POINT => q = "takeRbp"
        /\ to \notin {RET_POINT, NO_FRAME_RET_POINT} => q = "user"
    <3> HIDE DEF to
    <3> QED BY <1>6
  <2>2. "takeSlot" # "takeRbp"
    BY Zenon
  <2> HIDE DEF q, to
  <2> QED BY <1>6, <2>1, <2>2, Zenon
<1> HIDE DEF q, to
<1>8. /\ stack \in [Threads -> Seq(Activations)] /\ shadow \in [Threads -> Seq(Calls)]
      /\ reg \in [Threads -> RegisterFile] /\ pc \in [Threads -> Places]
  BY Zenon DEF PoolType
<1>9. /\ pc' \in [Threads -> Places] /\ pc'[t] = q
      /\ \A u \in Threads \ {t} : pc'[u] = pc[u]
  <2>1. q \in Places
    BY <1>7, Zenon DEF Places
  <2> QED BY <1>1, <1>8, <2>1, Zenon
<1>10. "user" \notin {"fill", "plant", "takeSlot", "takeRbp", "end", "leave", "float", "ret"}
       /\ "ret" \notin {"fill", "plant", "end", "leave"}
       /\ (q \in {"takeSlot", "takeRbp"} =>
             q \notin {"user", "fill", "plant", "end", "leave", "float", "ret"})
  BY Zenon
<1>11. Owns(owned[t], Hand(t), len, el)'
  <2>1. q \notin {"fill", "plant", "end", "leave"}
    BY <1>7, <1>10, Zenon
  <2>2. Hand(t)' = {} /\ Hand(t) = {}
    BY <1>1, <1>9, <1>10, <2>1, Zenon DEF Hand
  <2> QED BY <1>2, <2>2, Zenon DEF Owns, Good
<1>12. CASE lv[len] = a
  <2>0. q \in {"takeSlot", "takeRbp"} /\ q # "user"
    BY <1>7, <1>10, <1>12, Zenon
  <2>1. shadow' = shadow /\ reg' = reg
    BY <1>1, <1>9, <2>0, Zenon
  <2>2. Fits(t)
    <3>1. PoolType'
      BY <1>1, <1>2, <1>9, <2>1, Zenon DEF PoolType
    <3>2. ASSUME NEW u \in Threads \ {t} PROVE Untouched(u)
      BY <1>1, <1>2, <1>9, <2>1, ContextsAlone, Zenon
    <3> QED BY <3>1, <3>2, Zenon DEF Fits
  <2>3. Chain(realReturnAddr, fields, stack[t], shadow[t], a, len, p, el, lv)'
    BY <1>1, <1>2, <1>4, <2>1, Zenon DEF Exiting
  <2>4. InReturn(t, a, len, p, lv)'
    BY <1>1, <1>4, <1>5, <1>7, <1>9, <1>12, <2>1, Zenon DEF InReturn, Exiting
  <2>5. /\ (reg[t].rbp = CallerRbp(p, el, len, a))' /\ (pc[t] # "fill" => at[t] = "out")'
        /\ InUser(t, a, len, lv)' /\ InExit(t, a, len, p, el, lv)'
        /\ InEntry(t, a, len, p, el, lv)'
    BY <1>2, <1>4, <1>9, <1>10, <2>0, <2>1, Zenon DEF InUser, InExit, InEntry, Exiting
  <2> QED BY <1>11, <2>2, <2>3, <2>4, <2>5, Zenon DEF Good
<1>13. CASE lv[len] # a
  <2>0. q = "user" /\ lv[len] = a - 1
    BY <1>4, <1>7, <1>13, Zenon DEF Exiting
  <2>1. /\ shadow' = [shadow EXCEPT ![t] = Front(shadow[t])]
        /\ reg' = [reg EXCEPT ![t] = Registers(reg[t].rbp)]
    BY <1>1, <1>9, <2>0, Zenon
  <2>2. /\ reg' \in [Threads -> RegisterFile] /\ reg'[t].rbp = reg[t].rbp
        /\ \A u \in Threads \ {t} : reg'[u] = reg[u]
    <3>1. reg[t].rbp \in Words
      BY <1>8, Zenon DEF RegisterFile
    <3>2. Registers(reg[t].rbp) \in RegisterFile
      BY <3>1, ActivationTypes, Zenon
    <3>3. Registers(reg[t].rbp).rbp = reg[t].rbp
      BY Zenon DEF Registers
    <3> QED BY <1>8, <2>1, <3>2, <3>3, Zenon
  <2>3. /\ shadow' \in [Threads -> Seq(Calls)] /\ Len(shadow'[t]) = a - 2
        /\ Same(shadow[t], shadow'[t], a - 2)
        /\ \A u \in Threads \ {t} : shadow'[u] = shadow[u]
    <3>1. /\ shadow[t] \in Seq(Calls) /\ Len(shadow[t]) = a - 1 /\ a - 2 \in Nat
          /\ a - 2 <= Len(shadow[t]) /\ Len(shadow[t]) - 1 = a - 2
      BY <1>4, <1>8 DEF Exiting
    <3>2. Front(shadow[t]) = SubSeq(shadow[t], 1, a - 2)
      BY <3>1, Zenon DEF Front
    <3>3. /\ SubSeq(shadow[t], 1, a - 2) \in Seq(Calls)
          /\ Len(SubSeq(shadow[t], 1, a - 2)) = a - 2
          /\ \A j \in 1..(a - 2) : SubSeq(shadow[t], 1, a - 2)[j] = shadow[t][j]
      BY <3>1
    <3>4. shadow'[t] = SubSeq(shadow[t], 1, a - 2) /\ \A u \in Threads \ {t} : shadow'[u] = shadow[u]
      BY <1>8, <2>1, <3>2, Zenon
    <3>5. shadow' \in [Threads -> Seq(Calls)]
      BY <1>8, <2>1, <3>2, <3>3, Zenon
    <3> QED BY <3>3, <3>4, <3>5, Zenon DEF Same
  <2>4. Fits(t)
    <3>1. PoolType'
      BY <1>1, <1>2, <1>9, <2>2, <2>3, Zenon DEF PoolType
    <3>2. ASSUME NEW u \in Threads \ {t} PROVE Untouched(u)
      BY <1>1, <1>2, <1>9, <2>2, <2>3, ContextsAlone, Zenon
    <3> QED BY <3>1, <3>2, Zenon DEF Fits
  <2>5. Chain(realReturnAddr, fields, stack[t], shadow[t], a, len, p, el, lv)'
    <3>1. SameCalls(realReturnAddr, fields, realReturnAddr', fields', len, el)
      BY <1>1, <1>2, Zenon DEF SameCalls
    <3>2. lv[len] - 1 = a - 2
      BY <1>4, <2>0 DEF Exiting
    <3>3. Same(stack[t], stack'[t], a - 1) /\ Same(shadow[t], shadow'[t], lv[len] - 1)
      BY <1>1, <2>3, <3>2, Zenon DEF Same
    <3>4. Chain(realReturnAddr, fields, stack[t], shadow[t], a, len, p, el, lv)
      BY <1>4, Zenon DEF Exiting
    <3> QED BY <3>1, <3>3, <3>4, ChainStays, Zenon
  <2>6. InUser(t, a, len, lv)'
    BY <1>1, <1>4, <2>0, <2>3, Zenon DEF InUser, Exiting
  <2>7. /\ (reg[t].rbp = CallerRbp(p, el, len, a))' /\ (pc[t] # "fill" => at[t] = "out")'
        /\ InReturn(t, a, len, p, lv)' /\ InExit(t, a, len, p, el, lv)'
        /\ InEntry(t, a, len, p, el, lv)'
    BY <1>2, <1>4, <1>9, <1>10, <2>0, <2>2, Zenon DEF InReturn, InExit, InEntry, Exiting
  <2> QED BY <1>11, <2>4, <2>5, <2>6, <2>7, Zenon DEF Good
<1> QED BY <1>12, <1>13, Zenon

\* Some ghosts make the state of t consistent.
Consistent(t) == \E a, len, p, el, lv : Good(t, a, len, p, el, lv)

\* A thread that has made no call.
LEMMA FreshChain ==
    ASSUME NEW W, NEW D, NEW S, NEW H, S[1].local = Data
    PROVE  Chain(W, D, S, H, 2, 0, 0, [n \in Nat |-> 0], [n \in Nat |-> 1])
<1> DEFINE el == [n \in Nat |-> 0]
           lv == [n \in Nat |-> 1]
<1>1. el \in [Nat -> Nat] /\ lv \in [Nat -> Nat] /\ lv[0] = 1
  OBVIOUS
<1> HIDE DEF el, lv
<1>2. Ghosts(2, 0, 0, el, lv)
  BY <1>1 DEF Ghosts
<1>3. 1..0 = {} /\ \A k \in 1..(2 - 1) : k = 1
  OBVIOUS
<1>4. Sorted(0, el, lv) /\ \A j \in 1..0 : Link(W, D, H, 0, el, lv, j)
  BY <1>3, Zenon DEF Sorted
<1>5. Frames(S, 2, 0, 0, el, lv)
  BY <1>3, Zenon DEF Frames
<1>6. Chain(W, D, S, H, 2, 0, 0, el, lv)
  BY <1>2, <1>4, <1>5, Zenon DEF Chain
<1> QED BY <1>6, Zenon DEF el, lv

\* Before the first call.
LEMMA PoolInitially ==
    ASSUME PoolInit
    PROVE  PoolInv
<1>1. ArrayInv /\ context = [t \in Threads |-> NULL] /\ at = [t \in Threads |-> "out"]
      /\ owned = [t \in Threads |-> {}]
  BY ArrayInitially, Zenon DEF PoolInit, ArrayInit
<1>2. PoolType
  <2>1. FreeContext \in Fields
    BY WordTypes, Zenon DEF FreeContext, Fields, Results
  <2>2. 1 \in Nat /\ 0 \in Nat
    OBVIOUS
  <2>3. Activation(NULL, None) \in Activations /\ Registers(Frame(1)) \in RegisterFile
    BY <2>2, ActivationTypes, WordTypes, Zenon
  <2>4. "user" \in Places
    BY Zenon DEF Places
  <2>5. <<Activation(NULL, None)>> \in Seq(Activations) /\ <<>> \in Seq(Calls)
    BY <2>3
  <2>6. /\ fields = [c \in Contexts |-> FreeContext] /\ below = Data
        /\ stack = [t \in Threads |-> <<Activation(NULL, None)>>]
        /\ reg = [t \in Threads |-> Registers(Frame(1))]
        /\ pc = [t \in Threads |-> "user"] /\ calls = [t \in Threads |-> 0]
        /\ shadow = [t \in Threads |-> <<>>]
    BY Zenon DEF PoolInit
  <2>7. fields \in [Contexts -> Fields] /\ context \in [Threads -> Contexts \cup {NULL}]
    BY <1>1, <2>1, <2>6, Zenon
  <2>8. stack \in [Threads -> Seq(Activations)] /\ shadow \in [Threads -> Seq(Calls)]
    BY <2>5, <2>6, Zenon
  <2>9. /\ reg \in [Threads -> RegisterFile] /\ pc \in [Threads -> Places]
        /\ calls \in [Threads -> Nat]
    BY <2>2, <2>3, <2>4, <2>6, Zenon
  <2> QED BY <2>6, <2>7, <2>8, <2>9, Zenon DEF PoolType
<1>3. ASSUME NEW t \in Threads PROVE Consistent(t)
  <2> DEFINE el == [n \in Nat |-> 0]
             lv == [n \in Nat |-> 1]
  <2>1. /\ stack[t] = <<Activation(NULL, None)>> /\ reg[t] = Registers(Frame(1))
        /\ pc[t] = "user" /\ shadow[t] = <<>> /\ at[t] = "out" /\ owned[t] = {}
    BY <1>1, Zenon DEF PoolInit
  <2>2. Len(stack[t]) = 2 - 1 /\ stack[t][1].local = Data /\ Len(shadow[t]) = 2 - 2
    BY <2>1 DEF Activation
  <2>3. Chain(realReturnAddr, fields, stack[t], shadow[t], 2, 0, 0, el, lv)
    BY <2>2, FreshChain, Zenon
  <2>4. lv[0] = 2 - 1 /\ 1..0 = {} /\ ~(0 > 0) /\ 2 - 1 = 1
    OBVIOUS
  <2> HIDE DEF el, lv
  <2>5. "user" \notin {"fill", "plant", "takeSlot", "takeRbp", "end", "leave", "float", "ret"}
    BY Zenon
  <2>6. Owns(owned[t], Hand(t), 0, el)
    <3>1. Hand(t) = {}
      BY <2>1, <2>5, Zenon DEF Hand
    <3> QED BY <2>1, <2>4, <3>1, Zenon DEF Owns
  <2>7. reg[t].rbp = CallerRbp(0, el, 0, 2)
    <3>1. reg[t].rbp = Frame(1)
      BY <2>1 DEF Registers
    <3> QED BY <2>4, <3>1, Zenon DEF CallerRbp
  <2>8. Good(t, 2, 0, 0, el, lv)
    BY <2>1, <2>2, <2>3, <2>4, <2>5, <2>6, <2>7, Zenon
       DEF Good, InUser, InEntry, InReturn, InExit
  <2> QED BY <2>8, Zenon DEF Consistent
<1> QED BY <1>1, <1>2, <1>3, Zenon DEF PoolInv, Consistent

\* What a step of a thread keeps, and what it is to the array.
LEMMA ThreadStep ==
    ASSUME ~FramelessCallers, PoolInv, NEW t \in Threads, Program(t) \/ Wrapper(t)
    PROVE  Fits(t) /\ Consistent(t)' /\ [ArrayNext]_arrayVars
<1> PICK a, len, p, el, lv : Good(t, a, len, p, el, lv)
  BY Zenon DEF PoolInv
<1>0. ArrayInv /\ ArrayType /\ PoolType
  BY Zenon DEF PoolInv, ArrayInv
<1>1. ASSUME NEW s \in Sites, NEW framed \in BOOLEAN, Call(t, s, framed)
      PROVE  Fits(t) /\ Consistent(t)' /\ [ArrayNext]_arrayVars
  <2>1. Fits(t) /\ Good(t, a, len, p, el, lv)'
    BY <1>0, <1>1, CallStep, Zenon
  <2>2. ArrayNext
    BY <1>1, Zenon DEF Call, Redirect, ArrayNext
  <2> QED BY <2>1, <2>2, Zenon DEF Consistent
<1>2. ASSUME NEW framed \in BOOLEAN, TailCall(t, framed)
      PROVE  Fits(t) /\ Consistent(t)' /\ [ArrayNext]_arrayVars
  <2>1. Fits(t) /\ Good(t, a - 1, len, p, el, lv)'
    BY <1>0, <1>2, TailCallStep, Zenon
  <2>2. ArrayNext
    BY <1>2, Zenon DEF TailCall, Redirect, ArrayNext
  <2> QED BY <2>1, <2>2, Zenon DEF Consistent
<1>3. CASE Return(t)
  <2>1. Fits(t) /\ Good(t, a - 1, len, p, el, lv)'
    BY <1>0, <1>3, ReturnStep, Zenon
  <2>2. UNCHANGED arrayVars
    BY <1>3, Zenon DEF Return
  <2> QED BY <2>1, <2>2, Zenon DEF Consistent
<1>4. CASE GetContext(t)
  <2>1. Fits(t) /\ Good(t, a, len, p, el, lv)'
    BY <1>0, <1>4, GetContextStep, Zenon
  <2>2. ArrayNext
    BY <1>4, Zenon DEF GetContext, ArrayNext
  <2> QED BY <2>1, <2>2, Zenon DEF Consistent
<1>5. CASE FillFramed(t) \/ FillFrameless(t)
  <2>1. /\ Fits(t) /\ Good(t, a, len, p, el, lv)'
        /\ context[t] \in owned[t] /\ Last(stack[t]).ret \in Addresses
    BY <1>0, <1>5, FillStep, Zenon
  <2>2. Store(t, context[t], Last(stack[t]).ret)
    BY <1>5, Zenon DEF FillFramed, FillFrameless
  <2>3. ArrayNext
    BY <2>1, <2>2, Zenon DEF ArrayNext
  <2> QED BY <2>1, <2>3, Zenon DEF Consistent
<1>6. CASE PlantInSlot(t)
  <2>1. Fits(t) /\ Consistent(t)'
    BY <1>0, <1>6, PlantInSlotStep, Zenon DEF Consistent
  <2>2. UNCHANGED arrayVars
    BY <1>6, Zenon DEF PlantInSlot
  <2> QED BY <2>1, <2>2, Zenon
<1>7. CASE PlantInRbp(t)
  <2>1. Fits(t) /\ Consistent(t)'
    BY <1>0, <1>7, PlantInRbpStep, Zenon DEF Consistent
  <2>2. UNCHANGED arrayVars
    BY <1>7, Zenon DEF PlantInRbp
  <2> QED BY <2>1, <2>2, Zenon
<1>8. CASE TakeFromSlot(t)
  <2>1. Fits(t) /\ Consistent(t)'
    BY <1>0, <1>8, TakeFromSlotStep, Zenon DEF Consistent
  <2>2. UNCHANGED arrayVars
    BY <1>8, Zenon DEF TakeFromSlot
  <2> QED BY <2>1, <2>2, Zenon
<1>9. CASE TakeFromRbp(t)
  <2>1. Fits(t) /\ Consistent(t)'
    BY <1>0, <1>9, TakeFromRbpStep, Zenon DEF Consistent
  <2>2. UNCHANGED arrayVars
    BY <1>9, Zenon DEF TakeFromRbp
  <2> QED BY <2>1, <2>2, Zenon
<1>10. CASE RecordEndTime(t)
  <2>1. Fits(t) /\ Good(t, a, len, p, el, lv)'
    BY <1>0, <1>10, RecordEndTimeStep, Zenon
  <2>2. UNCHANGED arrayVars
    BY <1>10, Zenon DEF RecordEndTime
  <2> QED BY <2>1, <2>2, Zenon DEF Consistent
<1>11. CASE LeaveContext(t)
  <2>1. Fits(t) /\ Good(t, a, len, p, el, lv)' /\ reg[t].r15 \in owned[t]
    BY <1>0, <1>11, LeaveContextStep, Zenon
  <2>2. Release(t, reg[t].r15)
    BY <1>11, Zenon DEF LeaveContext
  <2>3. ArrayNext
    BY <2>1, <2>2, Zenon DEF ArrayNext
  <2> QED BY <2>1, <2>3, Zenon DEF Consistent
<1>12. CASE LoadFloat(t)
  <2>1. Fits(t) /\ Good(t, a, len, p, el, lv)'
    BY <1>0, <1>12, LoadFloatStep, Zenon
  <2>2. UNCHANGED arrayVars
    BY <1>12, Zenon DEF LoadFloat
  <2> QED BY <2>1, <2>2, Zenon DEF Consistent
<1>13. CASE Resume(t)
  <2>1. Fits(t) /\ Good(t, a, len, p, el, lv)'
    BY <1>0, <1>13, ResumeStep, Zenon
  <2>2. UNCHANGED arrayVars
    BY <1>13, Zenon DEF Resume
  <2> QED BY <2>1, <2>2, Zenon DEF Consistent
<1> QED
  BY <1>1, <1>2, <1>3, <1>4, <1>5, <1>6, <1>7, <1>8, <1>9, <1>10, <1>11, <1>12, <1>13, Zenon
     DEF Program, Wrapper

\* The array's invariant survives a step of the array.
LEMMA ArrayStep ==
    ASSUME ArrayInv, [ArrayNext]_arrayVars
    PROVE  ArrayInv'
  BY TypeStep, LockedStep, OwnershipStep, SearchStep, Zenon DEF ArrayInv

\* A step keeps the invariant and is a step of the array, or none.
LEMMA PoolStep ==
    ASSUME ~FramelessCallers, PoolInv, [PoolNext]_vars
    PROVE  PoolInv' /\ [ArrayNext]_arrayVars
<1>1. ASSUME NEW t \in Threads, Program(t) \/ Wrapper(t)
      PROVE  PoolInv' /\ [ArrayNext]_arrayVars
  <2>1. Fits(t) /\ Consistent(t)' /\ [ArrayNext]_arrayVars
    BY <1>1, ThreadStep, Zenon
  <2>2. ArrayInv'
    BY <2>1, ArrayStep, Zenon DEF PoolInv
  <2>3. ASSUME NEW u \in Threads PROVE Consistent(u)'
    <3>1. CASE u = t
      BY <2>1, <3>1, Zenon
    <3>2. CASE u # t
      <4>1. PICK a, len, p, el, lv : Good(u, a, len, p, el, lv)
        BY Zenon DEF PoolInv
      <4>2. Untouched(u)
        BY <2>1, <3>2, Zenon DEF Fits
      <4>3. Good(u, a, len, p, el, lv)'
        BY <4>1, <4>2, OthersGood, Zenon
      <4> QED BY <4>3, Zenon DEF Consistent
    <3> QED BY <3>1, <3>2, Zenon
  <2> QED BY <2>1, <2>2, <2>3, Zenon DEF PoolInv, Fits, Consistent
<1>2. CASE UNCHANGED vars
  <2>1. UNCHANGED <<fields, below, stack, reg, pc, calls, shadow, realReturnAddr, at, context,
                    owned>> /\ UNCHANGED arrayVars
    BY <1>2, Zenon DEF vars, arrayVars
  <2>2. ArrayInv'
    BY <2>1, ArrayStep, Zenon DEF PoolInv
  <2>3. PoolType'
    BY <2>1, Zenon DEF PoolInv, PoolType
  <2>4. ASSUME NEW u \in Threads PROVE Consistent(u)'
    <3>1. PICK a, len, p, el, lv : Good(u, a, len, p, el, lv)
      BY Zenon DEF PoolInv
    <3>2. Untouched(u)
      BY <2>1, ContextsAlone, Zenon
    <3>3. Good(u, a, len, p, el, lv)'
      BY <3>1, <3>2, OthersGood, Zenon
    <3> QED BY <3>3, Zenon DEF Consistent
  <2> QED BY <2>1, <2>2, <2>3, <2>4, Zenon DEF PoolInv, Consistent
<1> QED BY <1>1, <1>2, Zenon DEF PoolNext, Finished

\* At a ret to the program, everything is as the shadow has it.
LEMMA IntactAtReturn ==
    ASSUME PoolInv
    PROVE  ReturnsIntact
<1> SUFFICES ASSUME NEW t \in Threads, pc[t] = "ret",
                    reg[t].to \notin {RET_POINT, NO_FRAME_RET_POINT}
             PROVE  /\ reg[t].to = Last(shadow[t]).site
                    /\ reg[t].rax = <<t, calls[t]>>
                    /\ reg[t].rbp = Last(shadow[t]).rbp
                    /\ Slot(t, reg[t].rbp) = Last(shadow[t]).slot
  BY Zenon DEF ReturnsIntact
<1> PICK a, len, p, el, lv : Good(t, a, len, p, el, lv)
  BY Zenon DEF PoolInv
<1>0. PoolType
  BY Zenon DEF PoolInv
<1>1. Exiting(t, a, len, p, el, lv)
  <2>1. pc[t] \in {"end", "leave", "float", "ret"}
    BY Zenon
  <2> QED BY <2>1, ExitFacts, Zenon
<1>2. reg[t].to = ReturnTo(shadow[t], p, lv, len, a) /\ reg[t].rax = <<t, calls[t]>>
  <2>1. pc[t] \in {"float", "ret"}
    BY Zenon
  <2> QED BY <2>1, Zenon DEF Good, InExit
<1>3. lv[len] # a /\ reg[t].to = shadow[t][a - 1].site
  BY <1>0, <1>1, <1>2, ReturnAddress, SMTT(20)
<1>4. lv[len] = a - 1
  BY <1>1, <1>3, Zenon DEF Exiting
<1>5. Last(shadow[t]) = shadow[t][a - 1]
  BY <1>1, Zenon DEF Last, Exiting
<1>6. /\ shadow[t][a - 1].rbp = CallerRbp(p, el, len, a)
      /\ shadow[t][a - 1].slot = WordBelow(CallerRbp(p, el, len, a))
      /\ reg[t].rbp = CallerRbp(p, el, len, a)
  BY <1>1, <1>3, Zenon DEF Exiting, Shadowed
<1>7. Slot(t, reg[t].rbp) = WordBelow(CallerRbp(p, el, len, a))
  BY <1>0, <1>4, SlotIsProgram, Zenon
<1> QED BY <1>2, <1>3, <1>5, <1>6, <1>7, Zenon

\* The invariant holds of every behaviour of the wrappers.
LEMMA PoolInvariant ==
    ASSUME ~FramelessCallers
    PROVE  PoolSpec => []PoolInv
<1>1. PoolInit => PoolInv
  BY PoolInitially, Zenon
<1>2. PoolInv /\ [PoolNext]_vars => PoolInv'
  BY PoolStep, Zenon
<1> QED BY <1>1, <1>2, PTL DEF PoolSpec

\* Where no frameless profiled function calls a framed one, the wrappers use
\* the array as ContextArray assumes: the context that a return finds in a
\* local variable or in rbp, and releases without the lock, is its thread's.
THEOREM PoolUsesArray ==
    ASSUME ~FramelessCallers
    PROVE  PoolSpec => UsesArrayProperly
<1>1. PoolInit => ArrayInit
  BY Zenon DEF PoolInit
<1>2. PoolInv /\ [PoolNext]_vars => [ArrayNext]_arrayVars
  BY PoolStep, Zenon
<1> QED BY <1>1, <1>2, PoolInvariant, PTL DEF PoolSpec, UsesArrayProperly, ArraySpec

\* Where no frameless profiled function calls a framed one, a wrapper returns to
\* the call site with the function's integer result, the caller's rbp and the
\* caller's local variable as it was, for any number of threads, contexts,
\* nested calls and tail calls.
THEOREM ReturnsAlwaysIntact ==
    ASSUME ~FramelessCallers
    PROVE  PoolSpec => []ReturnsIntact
<1>1. PoolInv => ReturnsIntact
  BY IntactAtReturn, Zenon
<1> QED BY <1>1, PoolInvariant, PTL

\* So what holds of the array holds of the program: calls in progress have
\* different contexts, and getNewContext exits only when all are in use.
THEOREM PoolContexts ==
    ASSUME ~FramelessCallers
    PROVE  PoolSpec => [](ContextsExclusive /\ ExitsOnlyWhenFull)
  BY PoolUsesArray, ExclusiveAlways, ExitsFullAlways, PTL DEF UsesArrayProperly
=============================================================================
