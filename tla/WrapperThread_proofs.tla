------------------------ MODULE WrapperThread_proofs ------------------------
(***************************************************************************)
(* The invariant of one thread of Wrapper, and what each step does to it.  *)
(*                                                                         *)
(* The invariant says of each thread that the contexts linked from its     *)
(* s_wrappingContext form a list el[1..len], the innermost last, where     *)
(* el[k] guards the stack slot at[k] and pl[k] tells whether wrapper_rp    *)
(* has been planted there; that the code interrupted by the thread's l-th  *)
(* handler had sp[l] slots and m[l] linked contexts; and that each context *)
(* is in one place only: place[c] is its index in the list, or minus the   *)
(* level of the code that has it in hand.                                  *)
(***************************************************************************)
EXTENDS Wrapper, Integers, TLAPS

Entering == {"map", "link", "fill", "swap"}
Linking == {"fill", "swap"}
Recording == {"lock", "record", "unlock", "unmap"}
Returning == {"resume", "take", "unlink"} \cup Recording
Hand == {"link"} \cup Recording      \* the context in hand is not in the list
Holding == Hand \cup Linking \cup {"unlink"}

Innermost(el, n) == IF n = 0 THEN NULL ELSE el[n]

\* The list of contexts is ordered by the slots, and a context without
\* wrapper_rp in its slot is the last one of that slot.
ListOK(X, top, len, el, at, pl) ==
    /\ top = Innermost(el, len)
    /\ \A k \in 1..len : el[k] \in Ids /\ at[k] >= 1 /\ X[el[k]].old = Innermost(el, k - 1)
    /\ \A j, k \in 1..len : j < k => at[j] <= at[k] /\ (~pl[j] => at[j] < at[k])

\* A slot differs from what it would be without profiling exactly when a
\* context guards it.
StackOK(S, H, d, len, at, pl) ==
    \A n \in 1..d : S[n] # SIG =>
        /\ H[n] \in Sites
        /\ S[n] = RP \/ S[n] = H[n]
        /\ S[n] = RP <=> \E k \in 1..len : at[k] = n /\ pl[k]

\* The outermost context of a slot has its return address, the others wrapper_rp.
AddressesOK(X, S, H, d, len, el, at, pl) ==
    \A k \in 1..len : pl[k] /\ at[k] <= d /\ S[at[k]] # SIG =>
        X[el[k]].realReturnAddr = IF k > 1 /\ at[k - 1] = at[k] THEN RP ELSE H[at[k]]

\* Code at p with registers r, on a stack of s slots and with n linked
\* contexts.  The slot of a return in progress is s + 1: it has been popped.
LevelOK(X, S, p, r, s, n, el, at, pl) ==
    /\ \A k \in 1..n : at[k] <= s + 1
    /\ p \in Entering => s >= 1 /\ S[s] # SIG /\ r.fn \in Fns
    /\ p \in Returning => r.want \in Sites
    /\ p \notin Returning /\ n > 0 => at[n] <= s
    /\ p = "link" => X[r.c].old = Innermost(el, n)
    /\ p \in Linking => n > 0 /\ el[n] = r.c /\ at[n] = s /\ ~pl[n]
    /\ p = "swap" => X[r.c].realReturnAddr = S[s]
    /\ p = "resume" => IF r.to = RP THEN n > 0 /\ at[n] = s + 1
                                    ELSE r.to = r.want /\ (n > 0 => at[n] <= s)
    /\ p \in {"take", "unlink"} => n > 0 /\ at[n] = s + 1
    /\ p = "unlink" => r.c = el[n]
    /\ p \in Recording =>
         X[r.c].realReturnAddr = IF n > 0 /\ at[n] = s + 1 THEN RP ELSE r.want
    /\ \A k \in 1..n : at[k] = s + 1 =>
         X[el[k]].realReturnAddr = IF k > 1 /\ at[k - 1] = s + 1 THEN RP ELSE r.want

\* The code that handlers interrupted, each right below its signal frame.
SavedOK(X, S, d, V, v, len, el, at, pl, sp, m) ==
    /\ \A l \in 1..v :
         /\ sp[l] < d /\ m[l] <= len
         /\ S[sp[l] + 1] = SIG
         /\ LevelOK(X, S, V[l].pc, V[l].reg, sp[l], m[l], el, at, pl)
         /\ \A k \in 1..len : k > m[l] => at[k] > sp[l] + 1
    /\ \A j, l \in 1..v : j < l => sp[j] < sp[l]
    /\ \A n \in 1..d : S[n] = SIG => \E l \in 1..v : n = sp[l] + 1

\* wrapper_rp is still to be planted only by code that is about to do so.
PlantingOK(V, v, p, len, pl, m) ==
    \A k \in 1..len : ~pl[k] =>
        \/ p \in Linking /\ k = len
        \/ \E l \in 1..v : V[l].pc \in Linking /\ k = m[l]

\* The contexts of thread t are those in its list and in its hands.
OwnOK(t, O, V, v, p, r, len, el, place) ==
    /\ \A k \in 1..len : O[el[k]] = t /\ place[el[k]] = k
    /\ \A l \in 1..v : V[l].pc \in Hand =>
         V[l].reg.c \in Ids /\ O[V[l].reg.c] = t /\ place[V[l].reg.c] = 0 - l
    /\ p \in Hand => r.c \in Ids /\ O[r.c] = t /\ place[r.c] = 0 - (v + 1)
    /\ \A c \in Ids : O[c] = t =>
         \/ \E k \in 1..len : el[k] = c
         \/ \E l \in 1..v : V[l].pc \in Hand /\ V[l].reg.c = c
         \/ p \in Hand /\ r.c = c

Ghosts(len, el, at, pl, sp, m, place) ==
    /\ len \in Nat
    /\ el \in [Nat -> Pointers]
    /\ at \in [Nat -> Nat]
    /\ pl \in [Nat -> BOOLEAN]
    /\ sp \in [Nat -> Nat]
    /\ m \in [Nat -> Nat]
    /\ place \in [Ids -> Int]

ThreadOK(t, O, X, S, H, d, V, v, p, r, top, len, el, at, pl, sp, m, place) ==
    /\ Ghosts(len, el, at, pl, sp, m, place)
    /\ ListOK(X, top, len, el, at, pl)
    /\ StackOK(S, H, d, len, at, pl)
    /\ AddressesOK(X, S, H, d, len, el, at, pl)
    /\ LevelOK(X, S, p, r, d, len, el, at, pl)
    /\ SavedOK(X, S, d, V, v, len, el, at, pl, sp, m)
    /\ PlantingOK(V, v, p, len, pl, m)
    /\ OwnOK(t, O, V, v, p, r, len, el, place)

Threaded(t, O, X, S, H, d, V, v, p, r, top) ==
    \E len, el, at, pl, sp, m, place :
        ThreadOK(t, O, X, S, H, d, V, v, p, r, top, len, el, at, pl, sp, m, place)

-----------------------------------------------------------------------------
(* What a step leaves alone *)

\* A level depends on the slot on top of it, its own list and its own contexts.
LevelSame(X, X2, S, S2, p, r, s, n, el, el2, at, at2, pl, pl2) ==
    /\ p \in Entering => S2[s] = S[s]
    /\ p \in Hand => X2[r.c] = X[r.c]
    /\ \A k \in 1..n : /\ el2[k] = el[k] /\ at2[k] = at[k] /\ pl2[k] = pl[k]
                       /\ X2[el[k]] = X[el[k]]

\* Where the last step of preProfile and the program are.
LEMMA SwapAndUser ==
    /\ "swap" \in Entering /\ "swap" \in Linking
    /\ "swap" \notin Returning /\ "swap" \notin Recording
    /\ "swap" \notin {"take", "unlink"} /\ "swap" # "link" /\ "swap" # "resume"
    /\ "swap" # "unlink"
    /\ "user" \notin Entering /\ "user" \notin Linking
    /\ "user" \notin Returning /\ "user" \notin Recording
    /\ "user" \notin {"take", "unlink"} /\ "user" # "link" /\ "user" # "resume"
    /\ "user" # "unlink" /\ "user" # "swap"
  BY DEF Entering, Linking, Returning, Recording

\* What leaves without arithmetic use of the order of the numbers.
LEMMA Order ==
    /\ \A n \in Nat : n <= n /\ ~(n < n) /\ (n > 0 => n # 0)
    /\ \A n \in Nat : n > 1 => n - 1 \in 1..n /\ n - 1 < n
    /\ \A n, d \in Nat : n < d => n + 1 \in 1..d /\ n # d /\ (n >= 1 => n \in 1..d)
    /\ \A n, d \in Nat : n <= d => (d <= n => n = d) /\ (n >= 1 => n \in 1..d)
  OBVIOUS

\* Code whose slot, list and context in hand stay as they are stays consistent.
LEMMA LevelFrame ==
    ASSUME NEW X, NEW X2, NEW S, NEW S2, NEW p, NEW r, NEW s \in Nat, NEW n \in Nat,
           NEW el, NEW el2, NEW at, NEW at2, NEW pl, NEW pl2,
           LevelOK(X, S, p, r, s, n, el, at, pl),
           LevelSame(X, X2, S, S2, p, r, s, n, el, el2, at, at2, pl, pl2)
    PROVE  LevelOK(X2, S2, p, r, s, n, el2, at2, pl2)
<1> USE DEF LevelSame
<1>1. Innermost(el2, n) = Innermost(el, n)
  BY DEF Innermost
<1>2. n > 0 => el2[n] = el[n] /\ at2[n] = at[n] /\ pl2[n] = pl[n] /\ X2[el[n]] = X[el[n]]
  OBVIOUS
<1>3. p = "swap" => X2[r.c].realReturnAddr = S2[s]
  BY <1>2, Zenon DEF LevelOK, Entering, Linking
<1>4. p \in Recording =>
        X2[r.c].realReturnAddr = IF n > 0 /\ at2[n] = s + 1 THEN RP ELSE r.want
  BY <1>2, Zenon DEF LevelOK, Hand
<1>5. \A k \in 1..n : at2[k] = s + 1 =>
        X2[el2[k]].realReturnAddr = IF k > 1 /\ at2[k - 1] = s + 1 THEN RP ELSE r.want
  <2> SUFFICES ASSUME NEW k \in 1..n, at2[k] = s + 1
               PROVE  X2[el2[k]].realReturnAddr
                        = IF k > 1 /\ at2[k - 1] = s + 1 THEN RP ELSE r.want
    BY Zenon
  <2>1. k > 1 => k - 1 \in 1..n
    OBVIOUS
  <2>2. k > 1 => at2[k - 1] = at[k - 1]
    BY <2>1, Zenon
  <2> QED BY <2>2 DEF LevelOK
<1>6. p = "link" => X2[r.c].old = Innermost(el2, n)
  BY <1>1, Zenon DEF LevelOK, Hand
<1>7. \A k \in 1..n : at2[k] <= s + 1
  BY Zenon DEF LevelOK
<1> QED BY <1>2, <1>3, <1>4, <1>5, <1>6, <1>7, Zenon DEF LevelOK, Entering

\* Interrupted code is not disturbed by a step of the handler above it.
SavedSame(X, X2, S, S2, d, d2, V, v, len2, el, el2, at, at2, pl, pl2, sp, m) ==
    /\ \A n \in 1..d2 : S2[n] = SIG => n \in 1..d /\ S[n] = SIG
    /\ \A l \in 1..v :
         /\ sp[l] < d2 /\ S2[sp[l] + 1] = SIG /\ m[l] <= len2
         /\ \A k \in 1..len2 : k > m[l] => at2[k] > sp[l] + 1
         /\ LevelSame(X, X2, S, S2, V[l].pc, V[l].reg, sp[l], m[l], el, el2, at, at2, pl, pl2)

\* The same for all the code that handlers interrupted.
LEMMA SavedFrame ==
    ASSUME NEW X, NEW X2, NEW S, NEW S2, NEW d, NEW d2, NEW V, NEW v, NEW len, NEW len2, NEW el, NEW el2,
           NEW at, NEW at2, NEW pl, NEW pl2, NEW sp, NEW m,
           \A l \in 1..v : sp[l] \in Nat /\ m[l] \in Nat,
           SavedOK(X, S, d, V, v, len, el, at, pl, sp, m),
           SavedSame(X, X2, S, S2, d, d2, V, v, len2, el, el2, at, at2, pl, pl2, sp, m)
    PROVE  SavedOK(X2, S2, d2, V, v, len2, el2, at2, pl2, sp, m)
<1>1. ASSUME NEW l \in 1..v
      PROVE  LevelOK(X2, S2, V[l].pc, V[l].reg, sp[l], m[l], el2, at2, pl2)
  <2>1. LevelOK(X, S, V[l].pc, V[l].reg, sp[l], m[l], el, at, pl)
    BY Zenon DEF SavedOK
  <2>2. LevelSame(X, X2, S, S2, V[l].pc, V[l].reg, sp[l], m[l], el, el2, at, at2, pl, pl2)
    BY Zenon DEF SavedSame
  <2>3. sp[l] \in Nat /\ m[l] \in Nat
    BY Zenon
  <2> QED BY <2>1, <2>2, <2>3, LevelFrame
<1>2. \A n \in 1..d2 : S2[n] = SIG => \E l \in 1..v : n = sp[l] + 1
  BY Zenon DEF SavedOK, SavedSame
<1> QED BY <1>1, <1>2, Zenon DEF SavedOK, SavedSame

\* A thread does not depend on the contexts of the others.
LEMMA ThreadFrame ==
    ASSUME NEW t \in Threads, NEW O, NEW O2, NEW X, NEW X2, NEW S, NEW H, NEW d \in Nat,
           NEW V, NEW v \in Nat, NEW p, NEW r, NEW top,
           Threaded(t, O, X, S, H, d, V, v, p, r, top),
           \A c \in Ids : (O2[c] = t <=> O[c] = t) /\ (O[c] = t => X2[c] = X[c])
    PROVE  Threaded(t, O2, X2, S, H, d, V, v, p, r, top)
<1> PICK len, el, at, pl, sp, m, place :
      ThreadOK(t, O, X, S, H, d, V, v, p, r, top, len, el, at, pl, sp, m, place)
  BY Zenon DEF Threaded
<1>0. Ghosts(len, el, at, pl, sp, m, place)
  BY Zenon DEF ThreadOK
<1> USE <1>0 DEF Ghosts
<1>1. \A k \in 1..len : el[k] \in Ids /\ X2[el[k]] = X[el[k]]
  BY Zenon DEF ThreadOK, ListOK, OwnOK
<1>2. p \in Hand => X2[r.c] = X[r.c]
  BY Zenon DEF ThreadOK, OwnOK
<1>3. \A l \in 1..v : V[l].pc \in Hand => X2[V[l].reg.c] = X[V[l].reg.c]
  BY Zenon DEF ThreadOK, OwnOK
<1>4. ListOK(X2, top, len, el, at, pl)
  BY <1>1, Zenon DEF ThreadOK, ListOK
<1>5. AddressesOK(X2, S, H, d, len, el, at, pl)
  BY <1>1, SMTT(20) DEF ThreadOK, AddressesOK
<1>6. LevelOK(X2, S, p, r, d, len, el, at, pl)
  <2>1. LevelSame(X, X2, S, S, p, r, d, len, el, el, at, at, pl, pl)
    BY <1>1, <1>2, Zenon DEF LevelSame
  <2>2. LevelOK(X, S, p, r, d, len, el, at, pl) /\ len \in Nat
    BY Zenon DEF ThreadOK
  <2> QED BY <2>1, <2>2, LevelFrame, Zenon
<1>7. SavedOK(X2, S, d, V, v, len, el, at, pl, sp, m)
  <2>1. SavedOK(X, S, d, V, v, len, el, at, pl, sp, m)
    BY Zenon DEF ThreadOK
  <2>2. ASSUME NEW l \in 1..v
        PROVE  /\ sp[l] < d /\ S[sp[l] + 1] = SIG /\ m[l] <= len
               /\ \A k \in 1..len : k > m[l] => at[k] > sp[l] + 1
    BY <2>1, Zenon DEF SavedOK
  <2>3. ASSUME NEW l \in 1..v
        PROVE  LevelSame(X, X2, S, S, V[l].pc, V[l].reg, sp[l], m[l], el, el, at, at, pl, pl)
    <3>1. m[l] \in Nat /\ m[l] <= len
      BY <2>2
    <3>2. \A k \in 1..m[l] : k \in 1..len
      BY <3>1
    <3> QED BY <1>1, <1>3, <3>2, Zenon DEF LevelSame
  <2>4. SavedSame(X, X2, S, S, d, d, V, v, len, el, el, at, at, pl, pl, sp, m)
    BY <2>2, <2>3, Zenon DEF SavedSame
  <2>5. \A l \in 1..v : sp[l] \in Nat /\ m[l] \in Nat
    OBVIOUS
  <2> QED BY <2>1, <2>4, <2>5, SavedFrame, Zenon
<1>8. OwnOK(t, O2, V, v, p, r, len, el, place)
  <2>1. OwnOK(t, O, V, v, p, r, len, el, place)
    BY Zenon DEF ThreadOK
  <2> QED BY <1>1, <2>1, Zenon DEF OwnOK
<1>9. ThreadOK(t, O2, X2, S, H, d, V, v, p, r, top, len, el, at, pl, sp, m, place)
  BY <1>4, <1>5, <1>6, <1>7, <1>8, Zenon DEF ThreadOK
<1> QED BY <1>9, Zenon DEF Threaded

\* The last context of the list has the highest slot.
LEMMA ListBelow ==
    ASSUME NEW X, NEW top, NEW len \in Nat, NEW el, NEW at \in [Nat -> Nat], NEW pl,
           NEW s \in Nat, ListOK(X, top, len, el, at, pl), len > 0 => at[len] <= s
    PROVE  \A k \in 1..len : at[k] <= s
<1> SUFFICES ASSUME NEW k \in 1..len PROVE at[k] <= s
  BY Zenon
<1>1. k = len \/ (k < len /\ len \in 1..len)
  OBVIOUS
<1>2. at[k] <= at[len]
  BY <1>1 DEF ListOK
<1> QED BY <1>2

-----------------------------------------------------------------------------
(* Steps that change the program counter and the registers only *)

\* A new program counter and registers need only be consistent with the stack.
LEMMA Retarget ==
    ASSUME NEW t, NEW O, NEW X, NEW S, NEW H, NEW d, NEW V, NEW v, NEW p, NEW r, NEW top,
           NEW len, NEW el, NEW at, NEW pl, NEW sp, NEW m, NEW place, NEW p2, NEW r2,
           ThreadOK(t, O, X, S, H, d, V, v, p, r, top, len, el, at, pl, sp, m, place),
           LevelOK(X, S, p2, r2, d, len, el, at, pl),
           p \notin Linking, p2 \in Hand <=> p \in Hand, p2 \in Hand => r2.c = r.c
    PROVE  Threaded(t, O, X, S, H, d, V, v, p2, r2, top)
<1>1. PlantingOK(V, v, p2, len, pl, m)
  BY Zenon DEF ThreadOK, PlantingOK
<1>2. OwnOK(t, O, V, v, p2, r2, len, el, place)
  <2>1. OwnOK(t, O, V, v, p, r, len, el, place)
    BY Zenon DEF ThreadOK
  <2> QED BY <2>1, Zenon DEF OwnOK
<1>3. ThreadOK(t, O, X, S, H, d, V, v, p2, r2, top, len, el, at, pl, sp, m, place)
  BY <1>1, <1>2, Zenon DEF ThreadOK
<1> QED BY <1>3, Zenon DEF Threaded

\* A jump back to the call site: no context guards the slot just popped.
LEMMA ResumeCallerKeeps ==
    ASSUME NEW t, NEW O, NEW X, NEW S, NEW H, NEW d \in Nat, NEW V, NEW v, NEW r, NEW r2, NEW top,
           Threaded(t, O, X, S, H, d, V, v, "resume", r, top), r.to # RP
    PROVE  Threaded(t, O, X, S, H, d, V, v, "user", r2, top)
<1> PICK len, el, at, pl, sp, m, place :
      ThreadOK(t, O, X, S, H, d, V, v, "resume", r, top, len, el, at, pl, sp, m, place)
  BY Zenon DEF Threaded
<1>0. /\ LevelOK(X, S, "resume", r, d, len, el, at, pl) /\ len \in Nat
      /\ at \in [Nat -> Nat] /\ ListOK(X, top, len, el, at, pl)
  BY Zenon DEF ThreadOK, Ghosts
<1>1. \A k \in 1..len : at[k] <= d
  <2>1. len > 0 => at[len] <= d
    BY <1>0, Zenon DEF LevelOK
  <2> QED BY <1>0, <2>1, ListBelow, Zenon
<1>2. LevelOK(X, S, "user", r2, d, len, el, at, pl)
  BY <1>0, <1>1 DEF LevelOK, Entering, Linking, Returning, Recording
<1>3. "user" \notin Hand /\ "resume" \notin Hand \cup Linking
  BY Zenon DEF Hand, Linking, Recording
<1> QED BY <1>2, <1>3, Retarget, Zenon

\* A return to wrapper_rp: the innermost context guards the slot just popped.
LEMMA ResumeWrapperKeeps ==
    ASSUME NEW t, NEW O, NEW X, NEW S, NEW H, NEW d \in Nat, NEW V, NEW v, NEW r, NEW r2, NEW top,
           Threaded(t, O, X, S, H, d, V, v, "resume", r, top), r.to = RP, r2.want = r.want
    PROVE  Threaded(t, O, X, S, H, d, V, v, "take", r2, top)
<1> PICK len, el, at, pl, sp, m, place :
      ThreadOK(t, O, X, S, H, d, V, v, "resume", r, top, len, el, at, pl, sp, m, place)
  BY Zenon DEF Threaded
<1>0. LevelOK(X, S, "resume", r, d, len, el, at, pl)
  BY Zenon DEF ThreadOK
<1>2. LevelOK(X, S, "take", r2, d, len, el, at, pl)
  BY <1>0, Zenon DEF LevelOK, Entering, Linking, Returning, Recording
<1>3. "take" \notin Hand /\ "resume" \notin Hand \cup Linking
  BY Zenon DEF Hand, Linking, Recording
<1> QED BY <1>2, <1>3, Retarget, Zenon

\* wrapper_rp picks up the context in s_wrappingContext.
LEMMA TakeContextKeeps ==
    ASSUME NEW t, NEW O, NEW X, NEW S, NEW H, NEW d \in Nat, NEW V, NEW v, NEW r, NEW r2, NEW top,
           Threaded(t, O, X, S, H, d, V, v, "take", r, top), r2.want = r.want, r2.c = top
    PROVE  Threaded(t, O, X, S, H, d, V, v, "unlink", r2, top)
<1> PICK len, el, at, pl, sp, m, place :
      ThreadOK(t, O, X, S, H, d, V, v, "take", r, top, len, el, at, pl, sp, m, place)
  BY Zenon DEF Threaded
<1>0. /\ LevelOK(X, S, "take", r, d, len, el, at, pl) /\ len \in Nat
      /\ top = Innermost(el, len)
  BY Zenon DEF ThreadOK, Ghosts, ListOK
<1>1. r2.c = el[len]
  BY <1>0 DEF LevelOK, Innermost
<1>2. LevelOK(X, S, "unlink", r2, d, len, el, at, pl)
  BY <1>0, <1>1, Zenon DEF LevelOK, Entering, Linking, Returning, Recording
<1>3. "unlink" \notin Hand /\ "take" \notin Hand \cup Linking
  BY Zenon DEF Hand, Linking, Recording
<1> QED BY <1>2, <1>3, Retarget, Zenon

\* The lock, the update of the statistics and the unlock.
LEMMA RecordingKeeps ==
    ASSUME NEW t, NEW O, NEW X, NEW S, NEW H, NEW d \in Nat, NEW V, NEW v, NEW r, NEW top,
           NEW p \in Recording, NEW p2 \in Recording,
           Threaded(t, O, X, S, H, d, V, v, p, r, top)
    PROVE  Threaded(t, O, X, S, H, d, V, v, p2, r, top)
<1> PICK len, el, at, pl, sp, m, place :
      ThreadOK(t, O, X, S, H, d, V, v, p, r, top, len, el, at, pl, sp, m, place)
  BY Zenon DEF Threaded
<1>0. LevelOK(X, S, p, r, d, len, el, at, pl)
  BY Zenon DEF ThreadOK
<1>2. LevelOK(X, S, p2, r, d, len, el, at, pl)
  BY <1>0, Zenon DEF LevelOK, Entering, Linking, Returning, Recording
<1>3. p \in Hand /\ p2 \in Hand /\ p \notin Linking
  BY Zenon DEF Hand, Linking, Recording
<1> QED BY <1>2, <1>3, Retarget, Zenon

\* A tail call reuses the slot of the caller's own call.
LEMMA TailCallKeeps ==
    ASSUME NEW t, NEW O, NEW X, NEW S, NEW H, NEW d \in Nat, NEW V, NEW v, NEW r, NEW r2, NEW top,
           Threaded(t, O, X, S, H, d, V, v, "user", r, top),
           d > 0, S[d] # SIG, r2.fn \in Fns
    PROVE  Threaded(t, O, X, S, H, d, V, v, "map", r2, top)
<1> PICK len, el, at, pl, sp, m, place :
      ThreadOK(t, O, X, S, H, d, V, v, "user", r, top, len, el, at, pl, sp, m, place)
  BY Zenon DEF Threaded
<1>0. /\ LevelOK(X, S, "user", r, d, len, el, at, pl) /\ len \in Nat
      /\ at \in [Nat -> Nat] /\ ListOK(X, top, len, el, at, pl)
  BY Zenon DEF ThreadOK, Ghosts
<1>1. \A k \in 1..len : at[k] <= d
  <2>1. len > 0 => at[len] <= d
    BY <1>0, Zenon DEF LevelOK, Returning, Recording
  <2> QED BY <1>0, <2>1, ListBelow, Zenon
<1>3. LevelOK(X, S, "map", r2, d, len, el, at, pl)
  BY <1>0, <1>1 DEF LevelOK, Entering, Linking, Returning, Recording
<1>4. "user" \notin Hand \cup Linking /\ "map" \notin Hand
  BY Zenon DEF Hand, Linking, Recording
<1> QED BY <1>3, <1>4, Retarget, Zenon

-----------------------------------------------------------------------------
(* Calls and returns *)

\* Interrupted code has the same slots on a stack that grows or shrinks above
\* the signal frames.
SameFrames(S, S2, d, d2) ==
    /\ \A n \in 1..d : n <= d2 => S2[n] = S[n]
    /\ \A n \in 1..d2 : n > d => S2[n] # SIG
    /\ \A n \in 1..d : n > d2 => S[n] # SIG

\* Interrupted code does not notice changes above its signal frame.
LEMMA SavedSlots ==
    ASSUME NEW X, NEW S, NEW S2, NEW d \in Nat, NEW d2 \in Nat, NEW V, NEW v \in Nat,
           NEW len, NEW el, NEW at, NEW pl, NEW sp \in [Nat -> Nat], NEW m \in [Nat -> Nat],
           SavedOK(X, S, d, V, v, len, el, at, pl, sp, m),
           SameFrames(S, S2, d, d2)
    PROVE  SavedOK(X, S2, d2, V, v, len, el, at, pl, sp, m)
<1>1. \A n \in 1..d2 : S2[n] = SIG => n \in 1..d /\ S[n] = SIG
  BY DEF SameFrames
<1>2. ASSUME NEW l \in 1..v
      PROVE  /\ sp[l] < d2 /\ S2[sp[l] + 1] = SIG /\ m[l] <= len
             /\ \A k \in 1..len : k > m[l] => at[k] > sp[l] + 1
             /\ LevelSame(X, X, S, S2, V[l].pc, V[l].reg, sp[l], m[l], el, el, at, at, pl, pl)
  <2>1. /\ sp[l] < d /\ S[sp[l] + 1] = SIG /\ m[l] <= len
        /\ \A k \in 1..len : k > m[l] => at[k] > sp[l] + 1
        /\ LevelOK(X, S, V[l].pc, V[l].reg, sp[l], m[l], el, at, pl)
    BY Zenon DEF SavedOK
  <2>2. sp[l] \in Nat
    OBVIOUS
  <2>3. sp[l] < d2 /\ S2[sp[l] + 1] = SIG
    BY <2>1, <2>2 DEF SameFrames
  <2>4. sp[l] >= 1 => S2[sp[l]] = S[sp[l]]
    BY <2>1, <2>2, <2>3 DEF SameFrames
  <2>5. V[l].pc \in Entering => S2[sp[l]] = S[sp[l]]
    BY <2>1, <2>4, Zenon DEF LevelOK
  <2>6. LevelSame(X, X, S, S2, V[l].pc, V[l].reg, sp[l], m[l], el, el, at, at, pl, pl)
    BY <2>5, Zenon DEF LevelSame
  <2> QED BY <2>1, <2>3, <2>6, Zenon
<1>3. SavedSame(X, X, S, S2, d, d2, V, v, len, el, el, at, at, pl, pl, sp, m)
  BY <1>1, <1>2, Zenon DEF SavedSame
<1>4. \A l \in 1..v : sp[l] \in Nat /\ m[l] \in Nat
  OBVIOUS
<1> QED BY <1>3, <1>4, SavedFrame, Zenon

SameUpTo(S, S2, n) == \A i \in 1..n : S2[i] = S[i]

\* A call pushes a slot that no context guards.
LEMMA CallKeeps ==
    ASSUME NEW t, NEW O, NEW X, NEW S, NEW S2, NEW H, NEW H2, NEW d \in Nat,
           NEW V, NEW v \in Nat, NEW r, NEW r2, NEW top,
           Threaded(t, O, X, S, H, d, V, v, "user", r, top), NEW x \in Sites,
           S2[d + 1] = x, H2[d + 1] = x, SameUpTo(S, S2, d), SameUpTo(H, H2, d),
           NEW p2 \in {"user", "map"}, p2 = "map" => r2.fn \in Fns
    PROVE  Threaded(t, O, X, S2, H2, d + 1, V, v, p2, r2, top)
<1> USE DEF SameUpTo
<1> PICK len, el, at, pl, sp, m, place :
      ThreadOK(t, O, X, S, H, d, V, v, "user", r, top, len, el, at, pl, sp, m, place)
  BY Zenon DEF Threaded
<1>0. /\ Ghosts(len, el, at, pl, sp, m, place)
      /\ ListOK(X, top, len, el, at, pl)
      /\ StackOK(S, H, d, len, at, pl)
      /\ AddressesOK(X, S, H, d, len, el, at, pl)
      /\ LevelOK(X, S, "user", r, d, len, el, at, pl)
      /\ SavedOK(X, S, d, V, v, len, el, at, pl, sp, m)
      /\ PlantingOK(V, v, "user", len, pl, m)
      /\ OwnOK(t, O, V, v, "user", r, len, el, place)
  BY Zenon DEF ThreadOK
<1>1. len \in Nat /\ at \in [Nat -> Nat] /\ sp \in [Nat -> Nat] /\ m \in [Nat -> Nat]
  BY <1>0, Zenon DEF Ghosts
<1>2. x # SIG /\ x # RP
  BY WrapperAssumption, Zenon
<1>3. \A k \in 1..len : at[k] <= d
  <2>1. len > 0 => at[len] <= d
    BY <1>0, Zenon DEF LevelOK, Returning, Recording
  <2> QED BY <1>0, <1>1, <2>1, ListBelow, Zenon
<1>4. StackOK(S2, H2, d + 1, len, at, pl)
  <2> SUFFICES ASSUME NEW n \in 1..(d + 1), S2[n] # SIG
               PROVE  /\ H2[n] \in Sites
                      /\ S2[n] = RP \/ S2[n] = H2[n]
                      /\ S2[n] = RP <=> \E k \in 1..len : at[k] = n /\ pl[k]
    BY Zenon DEF StackOK
  <2>1. CASE n = d + 1
    <3>1. \A k \in 1..len : at[k] # d + 1
      BY <1>1, <1>3
    <3> QED BY <1>2, <2>1, <3>1, Zenon
  <2>2. CASE n \in 1..d
    BY <1>0, <2>2 DEF StackOK
  <2> QED BY <2>1, <2>2
<1>5. AddressesOK(X, S2, H2, d + 1, len, el, at, pl)
  <2> SUFFICES ASSUME NEW k \in 1..len, pl[k], S2[at[k]] # SIG
               PROVE  X[el[k]].realReturnAddr
                        = IF k > 1 /\ at[k - 1] = at[k] THEN RP ELSE H2[at[k]]
    BY Zenon DEF AddressesOK
  <2>1. at[k] \in 1..d
    BY <1>0, <1>1, <1>3 DEF ListOK
  <2> QED BY <1>0, <2>1 DEF AddressesOK
<1>6. LevelOK(X, S2, p2, r2, d + 1, len, el, at, pl)
  <2>1. \A k \in 1..len : at[k] <= (d + 1) + 1 /\ at[k] <= d + 1 /\ at[k] # (d + 1) + 1
    BY <1>1, <1>3
  <2>2. len > 0 => at[len] <= d + 1
    BY <1>1, <2>1
  <2> QED BY <1>2, <2>1, <2>2 DEF LevelOK, Entering, Linking, Returning, Recording
<1>7. SavedOK(X, S2, d + 1, V, v, len, el, at, pl, sp, m)
  <2>1. SameFrames(S, S2, d, d + 1) /\ d + 1 \in Nat
    BY <1>2 DEF SameFrames
  <2> QED BY <1>0, <1>1, <2>1, SavedSlots, Zenon
<1>8. PlantingOK(V, v, p2, len, pl, m)
  BY <1>0, Zenon DEF PlantingOK, Linking
<1>9. OwnOK(t, O, V, v, p2, r2, len, el, place)
  <2>1. "user" \notin Hand /\ p2 \notin Hand
    BY Zenon DEF Hand, Recording
  <2> QED BY <1>0, <2>1, Zenon DEF OwnOK
<1>10. ThreadOK(t, O, X, S2, H2, d + 1, V, v, p2, r2, top, len, el, at, pl, sp, m, place)
  BY <1>0, <1>4, <1>5, <1>6, <1>7, <1>8, <1>9, Zenon DEF ThreadOK
<1> QED BY <1>10, Zenon DEF Threaded

\* Outside preProfile, a context whose slot has no wrapper_rp yet belongs to
\* interrupted code, below the signal frame.
LEMMA TopPlanted ==
    ASSUME NEW X, NEW S, NEW d \in Nat, NEW V, NEW v \in Nat, NEW p, NEW len, NEW el,
           NEW at, NEW pl, NEW sp \in [Nat -> Nat], NEW m,
           SavedOK(X, S, d, V, v, len, el, at, pl, sp, m),
           PlantingOK(V, v, p, len, pl, m), p \notin Linking
    PROVE  \A k \in 1..len : ~pl[k] => at[k] < d
<1> SUFFICES ASSUME NEW k \in 1..len, ~pl[k] PROVE at[k] < d
  BY Zenon
<1>2. PICK l \in 1..v : V[l].pc \in Linking /\ k = m[l]
  BY Zenon DEF PlantingOK
<1>3. sp[l] < d /\ LevelOK(X, S, V[l].pc, V[l].reg, sp[l], m[l], el, at, pl)
  BY Zenon DEF SavedOK
<1>4. at[k] = sp[l]
  BY <1>2, <1>3, Zenon DEF LevelOK
<1> QED BY <1>3, <1>4, Zenon

\* A return pops a slot, whose contexts become those of the return in progress.
LEMMA RetKeeps ==
    ASSUME NEW t, NEW O, NEW X, NEW S, NEW S2, NEW H, NEW H2, NEW d \in Nat, NEW d2 \in Nat,
           NEW V, NEW v \in Nat, NEW r, NEW r2, NEW top,
           Threaded(t, O, X, S, H, d, V, v, "user", r, top),
           d = d2 + 1, S[d] # SIG, SameUpTo(S, S2, d2), SameUpTo(H, H2, d2),
           r2.to = S[d], r2.want = H[d]
    PROVE  Threaded(t, O, X, S2, H2, d2, V, v, "resume", r2, top)
<1> USE DEF SameUpTo
<1> PICK len, el, at, pl, sp, m, place :
      ThreadOK(t, O, X, S, H, d, V, v, "user", r, top, len, el, at, pl, sp, m, place)
  BY Zenon DEF Threaded
<1>0. /\ Ghosts(len, el, at, pl, sp, m, place)
      /\ ListOK(X, top, len, el, at, pl)
      /\ StackOK(S, H, d, len, at, pl)
      /\ AddressesOK(X, S, H, d, len, el, at, pl)
      /\ LevelOK(X, S, "user", r, d, len, el, at, pl)
      /\ SavedOK(X, S, d, V, v, len, el, at, pl, sp, m)
      /\ PlantingOK(V, v, "user", len, pl, m)
      /\ OwnOK(t, O, V, v, "user", r, len, el, place)
  BY Zenon DEF ThreadOK
<1>1. len \in Nat /\ at \in [Nat -> Nat] /\ sp \in [Nat -> Nat] /\ m \in [Nat -> Nat]
  BY <1>0, Zenon DEF Ghosts
<1>2. \A k \in 1..len : ~pl[k] => at[k] < d
  <2>1. "user" \notin Linking
    BY Zenon DEF Linking
  <2> QED BY <1>0, <1>1, <2>1, TopPlanted, Zenon
<1>3. \A k \in 1..len : at[k] <= d
  <2>1. len > 0 => at[len] <= d
    BY <1>0, Zenon DEF LevelOK, Returning, Recording
  <2> QED BY <1>0, <1>1, <2>1, ListBelow, Zenon
<1>4. StackOK(S2, H2, d2, len, at, pl)
  BY <1>0 DEF StackOK
<1>5. AddressesOK(X, S2, H2, d2, len, el, at, pl)
  <2> SUFFICES ASSUME NEW k \in 1..len, pl[k], at[k] <= d2, S2[at[k]] # SIG
               PROVE  X[el[k]].realReturnAddr
                        = IF k > 1 /\ at[k - 1] = at[k] THEN RP ELSE H2[at[k]]
    BY Zenon DEF AddressesOK
  <2>1. at[k] \in 1..d2
    BY <1>0, <1>1 DEF ListOK
  <2> QED BY <1>0, <2>1 DEF AddressesOK
<1>6. LevelOK(X, S2, "resume", r2, d2, len, el, at, pl)
  <2>1. d \in 1..d /\ H[d] \in Sites /\ (S[d] = RP \/ S[d] = H[d])
    BY <1>0 DEF StackOK
  <2>2. S[d] = RP => len > 0 /\ at[len] = d
    <3> SUFFICES ASSUME S[d] = RP PROVE len > 0 /\ at[len] = d
      BY Zenon
    <3>1. PICK k \in 1..len : at[k] = d
      BY <1>0, <2>1, Zenon DEF StackOK
    <3>2. len > 0 /\ len \in 1..len
      BY <1>1, <3>1
    <3>3. at[len] \in Nat /\ at[len] <= d /\ (len > 0 => at[len] <= at[len])
      BY <1>1, <1>3, <3>2
    <3>4. at[k] <= at[len]
      BY <1>0, <1>1, <3>1, <3>3, ListBelow, Zenon
    <3> QED BY <3>1, <3>2, <3>3, <3>4
  <2>3. ASSUME NEW k \in 1..len, at[k] = d
        PROVE  pl[k] /\ S[d] = RP
    <3>1. pl[k]
      BY <1>2, <2>3
    <3>2. \E j \in 1..len : at[j] = d /\ pl[j]
      BY <2>3, <3>1, Zenon
    <3> QED BY <1>0, <2>1, <3>1, <3>2, Zenon DEF StackOK
  <2>4. ASSUME NEW k \in 1..len, at[k] = d
        PROVE  X[el[k]].realReturnAddr = IF k > 1 /\ at[k - 1] = d THEN RP ELSE r2.want
    BY <1>0, <2>3, <2>4 DEF AddressesOK
  <2>5. H[d] # RP
    BY <2>1, WrapperAssumption, Zenon
  <2>6. S[d] # RP => (len > 0 => at[len] <= d2)
    <3> SUFFICES ASSUME S[d] # RP, len > 0 PROVE at[len] <= d2
      BY Zenon
    <3>1. len \in 1..len
      BY <1>1
    <3>2. at[len] # d /\ at[len] <= d /\ at[len] \in Nat
      BY <1>1, <1>3, <2>3, <3>1, Zenon
    <3> QED BY <3>2
  <2> QED BY <1>3, <2>1, <2>2, <2>4, <2>5, <2>6, Zenon
          DEF LevelOK, Entering, Linking, Returning, Recording
<1>7. SavedOK(X, S2, d2, V, v, len, el, at, pl, sp, m)
  <2>1. SameFrames(S, S2, d, d2)
    BY DEF SameFrames
  <2> QED BY <1>0, <1>1, <2>1, SavedSlots, Zenon
<1>8. PlantingOK(V, v, "resume", len, pl, m)
  BY <1>0, Zenon DEF PlantingOK, Linking
<1>9. OwnOK(t, O, V, v, "resume", r2, len, el, place)
  <2>1. "user" \notin Hand /\ "resume" \notin Hand
    BY Zenon DEF Hand, Recording
  <2> QED BY <1>0, <2>1, Zenon DEF OwnOK
<1>10. ThreadOK(t, O, X, S2, H2, d2, V, v, "resume", r2, top, len, el, at, pl, sp, m, place)
  BY <1>0, <1>4, <1>5, <1>6, <1>7, <1>8, <1>9, Zenon DEF ThreadOK
<1> QED BY <1>10, Zenon DEF Threaded

-----------------------------------------------------------------------------
(* Signals *)

\* A signal saves the interrupted code below a new frame.
LEMMA SignalKeeps ==
    ASSUME NEW t, NEW O, NEW X, NEW S, NEW S2, NEW H, NEW H2, NEW d \in Nat,
           NEW V, NEW V2, NEW v \in Nat, NEW p, NEW r, NEW r2, NEW top,
           Threaded(t, O, X, S, H, d, V, v, p, r, top),
           S2[d + 1] = SIG, SameUpTo(S, S2, d), SameUpTo(H, H2, d),
           V2[v + 1].pc = p, V2[v + 1].reg = r, SameUpTo(V, V2, v)
    PROVE  Threaded(t, O, X, S2, H2, d + 1, V2, v + 1, "user", r2, top)
<1> USE DEF SameUpTo
<1> PICK len, el, at, pl, sp, m, place :
      ThreadOK(t, O, X, S, H, d, V, v, p, r, top, len, el, at, pl, sp, m, place)
  BY Zenon DEF Threaded
<1>0. /\ Ghosts(len, el, at, pl, sp, m, place)
      /\ ListOK(X, top, len, el, at, pl)
      /\ StackOK(S, H, d, len, at, pl)
      /\ AddressesOK(X, S, H, d, len, el, at, pl)
      /\ LevelOK(X, S, p, r, d, len, el, at, pl)
      /\ SavedOK(X, S, d, V, v, len, el, at, pl, sp, m)
      /\ PlantingOK(V, v, p, len, pl, m)
      /\ OwnOK(t, O, V, v, p, r, len, el, place)
  BY Zenon DEF ThreadOK
<1> DEFINE sp2 == [sp EXCEPT ![v + 1] = d]
           m2 == [m EXCEPT ![v + 1] = len]
<1>1. len \in Nat /\ at \in [Nat -> Nat] /\ sp \in [Nat -> Nat] /\ m \in [Nat -> Nat]
  BY <1>0, Zenon DEF Ghosts
<1>2. /\ sp2 \in [Nat -> Nat] /\ m2 \in [Nat -> Nat]
      /\ sp2[v + 1] = d /\ m2[v + 1] = len
      /\ \A l \in 1..v : sp2[l] = sp[l] /\ m2[l] = m[l]
  BY <1>1
<1>3. \A k \in 1..len : at[k] <= d + 1
  BY <1>0, Zenon DEF LevelOK
<1> HIDE DEF sp2, m2
<1>4. Ghosts(len, el, at, pl, sp2, m2, place)
  BY <1>0, <1>2, Zenon DEF Ghosts
<1>5. StackOK(S2, H2, d + 1, len, at, pl)
  <2> SUFFICES ASSUME NEW n \in 1..(d + 1), S2[n] # SIG
               PROVE  /\ H2[n] \in Sites
                      /\ S2[n] = RP \/ S2[n] = H2[n]
                      /\ S2[n] = RP <=> \E k \in 1..len : at[k] = n /\ pl[k]
    BY Zenon DEF StackOK
  <2>1. n \in 1..d
    OBVIOUS
  <2> QED BY <1>0, <2>1 DEF StackOK
<1>6. AddressesOK(X, S2, H2, d + 1, len, el, at, pl)
  <2> SUFFICES ASSUME NEW k \in 1..len, pl[k], S2[at[k]] # SIG
               PROVE  X[el[k]].realReturnAddr
                        = IF k > 1 /\ at[k - 1] = at[k] THEN RP ELSE H2[at[k]]
    BY Zenon DEF AddressesOK
  <2>1. at[k] \in 1..d
    <3>1. at[k] >= 1
      BY <1>0, Zenon DEF ListOK
    <3>2. at[k] # d + 1 /\ at[k] <= d + 1 /\ at[k] \in Nat
      BY <1>1, <1>3
    <3> QED BY <3>1, <3>2
  <2> QED BY <1>0, <2>1 DEF AddressesOK
<1>7. LevelOK(X, S2, "user", r2, d + 1, len, el, at, pl)
  <2>1. \A k \in 1..len : at[k] <= (d + 1) + 1 /\ at[k] # (d + 1) + 1
    BY <1>1, <1>3
  <2>2. len > 0 => len \in 1..len
    BY <1>1
  <2>3. len > 0 => at[len] <= d + 1
    BY <1>3, <2>2, Zenon
  <2> QED BY <2>1, <2>3, Zenon DEF LevelOK, Entering, Linking, Returning, Recording
<1>8. SavedOK(X, S2, d + 1, V2, v + 1, len, el, at, pl, sp2, m2)
  <2>1. ASSUME NEW l \in 1..v
        PROVE  /\ sp2[l] < d /\ sp2[l] < d + 1 /\ m2[l] <= len
               /\ S2[sp2[l] + 1] = SIG
               /\ LevelOK(X, S2, V2[l].pc, V2[l].reg, sp2[l], m2[l], el, at, pl)
               /\ \A k \in 1..len : k > m2[l] => at[k] > sp2[l] + 1
    <3>1. /\ sp[l] < d /\ m[l] <= len
          /\ S[sp[l] + 1] = SIG
          /\ LevelOK(X, S, V[l].pc, V[l].reg, sp[l], m[l], el, at, pl)
          /\ \A k \in 1..len : k > m[l] => at[k] > sp[l] + 1
      BY <1>0, Zenon DEF SavedOK
    <3>2. sp[l] \in Nat /\ m[l] \in Nat
      BY <1>1
    <3>3. S2[sp[l] + 1] = SIG /\ sp[l] < d + 1 /\ (sp[l] >= 1 => S2[sp[l]] = S[sp[l]])
      BY <3>1, <3>2
    <3>4. V[l].pc \in Entering => S2[sp[l]] = S[sp[l]]
      BY <3>1, <3>3, Zenon DEF LevelOK
    <3>5. LevelSame(X, X, S, S2, V[l].pc, V[l].reg, sp[l], m[l], el, el, at, at, pl, pl)
      BY <3>4, Zenon DEF LevelSame
    <3>6. LevelOK(X, S2, V[l].pc, V[l].reg, sp[l], m[l], el, at, pl)
      BY <3>1, <3>2, <3>5, LevelFrame
    <3> QED BY <1>2, <3>1, <3>3, <3>6, Zenon
  <2>2. /\ sp2[v + 1] < d + 1 /\ m2[v + 1] <= len
        /\ S2[sp2[v + 1] + 1] = SIG
        /\ LevelOK(X, S2, V2[v + 1].pc, V2[v + 1].reg, sp2[v + 1], m2[v + 1], el, at, pl)
        /\ \A k \in 1..len : k > m2[v + 1] => at[k] > sp2[v + 1] + 1
    <3>1. p \in Entering => S2[d] = S[d]
      BY <1>0, SMTT(20) DEF LevelOK
    <3>2. LevelSame(X, X, S, S2, p, r, d, len, el, el, at, at, pl, pl)
      BY <3>1, Zenon DEF LevelSame
    <3>3. LevelOK(X, S2, p, r, d, len, el, at, pl)
      BY <1>0, <1>1, <3>2, LevelFrame, SMTT(20)
    <3>4. \A k \in 1..len : ~(k > len)
      BY <1>1
    <3> QED BY <1>1, <1>2, <3>3, <3>4, SMTT(20)
  <2>3. \A l \in 1..(v + 1) : l \in 1..v \/ l = v + 1
    OBVIOUS
  <2>4. \A j, l \in 1..(v + 1) : j < l => sp2[j] < sp2[l]
    <3>1. \A j, l \in 1..v : j < l => sp2[j] < sp2[l]
      BY <1>0, <1>2, Zenon DEF SavedOK
    <3>2. \A j, l \in 1..(v + 1) : j < l => j \in 1..v
      OBVIOUS
    <3>3. \A j \in 1..v : sp2[j] < sp2[v + 1]
      BY <1>2, <2>1, Zenon
    <3> QED BY <2>3, <3>1, <3>2, <3>3, Zenon
  <2>5. \A n \in 1..(d + 1) : S2[n] = SIG => \E l \in 1..(v + 1) : n = sp2[l] + 1
    <3> SUFFICES ASSUME NEW n \in 1..(d + 1), S2[n] = SIG
                 PROVE  \E l \in 1..(v + 1) : n = sp2[l] + 1
      BY Zenon
    <3>1. CASE n = d + 1
      BY <1>2, <3>1
    <3>2. CASE n \in 1..d
      <4>1. PICK l \in 1..v : n = sp[l] + 1
        BY <1>0, <3>2, Zenon DEF SavedOK
      <4> QED BY <1>2, <4>1
    <3> QED BY <3>1, <3>2
  <2>6. \A l \in 1..(v + 1) :
          /\ sp2[l] < d + 1 /\ m2[l] <= len
          /\ S2[sp2[l] + 1] = SIG
          /\ LevelOK(X, S2, V2[l].pc, V2[l].reg, sp2[l], m2[l], el, at, pl)
          /\ \A k \in 1..len : k > m2[l] => at[k] > sp2[l] + 1
    BY <2>1, <2>2, <2>3, Zenon
  <2> QED BY <2>4, <2>5, <2>6, Zenon DEF SavedOK
<1>9. PlantingOK(V2, v + 1, "user", len, pl, m2)
  <2> SUFFICES ASSUME NEW k \in 1..len, ~pl[k]
               PROVE  \E l \in 1..(v + 1) : V2[l].pc \in Linking /\ k = m2[l]
    BY Zenon DEF PlantingOK
  <2>1. CASE p \in Linking /\ k = len
    <3>1. v + 1 \in 1..(v + 1)
      OBVIOUS
    <3> QED BY <1>2, <2>1, <3>1, Zenon
  <2>2. ASSUME NEW l \in 1..v, V[l].pc \in Linking, k = m[l]
        PROVE  \E i \in 1..(v + 1) : V2[i].pc \in Linking /\ k = m2[i]
    <3>1. l \in 1..(v + 1) /\ V2[l].pc \in Linking /\ k = m2[l]
      BY <1>2, <2>2
    <3> QED BY <3>1, Zenon
  <2> QED BY <1>0, <2>1, <2>2, Zenon DEF PlantingOK
<1>10. OwnOK(t, O, V2, v + 1, "user", r2, len, el, place)
  <2>1. "user" \notin Hand
    BY Zenon DEF Hand, Recording
  <2>2. \A l \in 1..(v + 1) : V2[l].pc \in Hand =>
          V2[l].reg.c \in Ids /\ O[V2[l].reg.c] = t /\ place[V2[l].reg.c] = 0 - l
    <3> SUFFICES ASSUME NEW l \in 1..(v + 1), V2[l].pc \in Hand
                 PROVE  V2[l].reg.c \in Ids /\ O[V2[l].reg.c] = t /\ place[V2[l].reg.c] = 0 - l
      BY Zenon
    <3>1. CASE l = v + 1
      BY <1>0, <3>1, Zenon DEF OwnOK
    <3>2. CASE l \in 1..v
      <4>1. V2[l] = V[l]
        BY <3>2, Zenon
      <4> QED BY <1>0, <3>2, <4>1, Zenon DEF OwnOK
    <3> QED BY <3>1, <3>2
  <2>3. ASSUME NEW c \in Ids, O[c] = t
        PROVE  \/ \E k \in 1..len : el[k] = c
               \/ \E l \in 1..(v + 1) : V2[l].pc \in Hand /\ V2[l].reg.c = c
    <3>1. v + 1 \in 1..(v + 1) /\ \A l \in 1..v : l \in 1..(v + 1)
      OBVIOUS
    <3>2. \/ \E k \in 1..len : el[k] = c
          \/ \E l \in 1..v : V[l].pc \in Hand /\ V[l].reg.c = c
          \/ p \in Hand /\ r.c = c
      BY <1>0, <2>3, Zenon DEF OwnOK
    <3> QED BY <3>1, <3>2, Zenon
  <2>4. \A k \in 1..len : O[el[k]] = t /\ place[el[k]] = k
    BY <1>0, Zenon DEF OwnOK
  <2> QED BY <2>1, <2>2, <2>3, <2>4, Zenon DEF OwnOK
<1>11. ThreadOK(t, O, X, S2, H2, d + 1, V2, v + 1, "user", r2, top,
                len, el, at, pl, sp2, m2, place)
  BY <1>0, <1>4, <1>5, <1>6, <1>7, <1>8, <1>9, <1>10, Zenon DEF ThreadOK
<1> QED BY <1>11, Zenon DEF Threaded

\* A handler that is back at its signal frame has unlinked all its contexts: the
\* code it interrupted finds its stack and its list as they were.
LEMMA SigReturnKeeps ==
    ASSUME NEW t, NEW O, NEW X, NEW S, NEW S2, NEW H, NEW H2, NEW d \in Nat, NEW d2 \in Nat,
           NEW V, NEW V2, NEW v \in Nat, NEW r, NEW top,
           Threaded(t, O, X, S, H, d, V, v, "user", r, top),
           d = d2 + 1, S[d] = SIG, SameUpTo(S, S2, d2), SameUpTo(H, H2, d2),
           SameUpTo(V, V2, v - 1)
    PROVE  v > 0 /\ Threaded(t, O, X, S2, H2, d2, V2, v - 1, V[v].pc, V[v].reg, top)
<1> USE DEF SameUpTo
<1> PICK len, el, at, pl, sp, m, place :
      ThreadOK(t, O, X, S, H, d, V, v, "user", r, top, len, el, at, pl, sp, m, place)
  BY Zenon DEF Threaded
<1>0. /\ Ghosts(len, el, at, pl, sp, m, place)
      /\ ListOK(X, top, len, el, at, pl)
      /\ StackOK(S, H, d, len, at, pl)
      /\ AddressesOK(X, S, H, d, len, el, at, pl)
      /\ LevelOK(X, S, "user", r, d, len, el, at, pl)
      /\ SavedOK(X, S, d, V, v, len, el, at, pl, sp, m)
      /\ PlantingOK(V, v, "user", len, pl, m)
      /\ OwnOK(t, O, V, v, "user", r, len, el, place)
  BY Zenon DEF ThreadOK
<1>1. len \in Nat /\ at \in [Nat -> Nat] /\ sp \in [Nat -> Nat] /\ m \in [Nat -> Nat]
  BY <1>0, Zenon DEF Ghosts
<1>2. v > 0 /\ sp[v] = d2 /\ \A l \in 1..(v - 1) : l \in 1..v /\ sp[l] < d2
  <2>1. d \in 1..d
    OBVIOUS
  <2>2. PICK l \in 1..v : d = sp[l] + 1
    BY <1>0, <2>1, Zenon DEF SavedOK
  <2>3. v > 0 /\ v \in 1..v
    BY <2>2
  <2>4. sp[v] < d
    BY <1>0, <2>3, Zenon DEF SavedOK
  <2>5. l < v => sp[l] < sp[v]
    BY <1>0, <2>2, <2>3, Zenon DEF SavedOK
  <2>6. l = v
    <3>1. sp[l] \in Nat /\ sp[v] \in Nat /\ (l < v \/ l = v)
      BY <1>1, <2>2
    <3> QED BY <2>2, <2>4, <2>5, <3>1
  <2>7. \A i \in 1..(v - 1) : i \in 1..v /\ i < v
    OBVIOUS
  <2>8. sp[v] = d2
    <3>1. sp[v] \in Nat
      BY <1>1, Zenon
    <3> QED BY <2>2, <2>6, <3>1
  <2>9. \A i \in 1..(v - 1) : sp[i] < sp[v]
    BY <1>0, <2>3, <2>7, Zenon DEF SavedOK
  <2> QED BY <2>3, <2>7, <2>8, <2>9, Zenon
<1>3. v \in 1..v
  BY <1>2
<1>4. \A k \in 1..len : at[k] <= d
  <2>1. len > 0 => at[len] <= d
    BY <1>0, Zenon DEF LevelOK, Returning, Recording
  <2> QED BY <1>0, <1>1, <2>1, ListBelow, Zenon
<1>5. m[v] = len
  <2>1. m[v] <= len /\ \A k \in 1..len : k > m[v] => at[k] > sp[v] + 1
    BY <1>0, <1>3, Zenon DEF SavedOK
  <2>2. m[v] < len => len \in 1..len /\ at[len] \in Nat
    BY <1>1
  <2>3. ~(m[v] < len)
    BY <1>1, <1>2, <1>4, <2>1, <2>2
  <2>4. m[v] \in Nat /\ len \in Nat /\ m[v] <= len
    BY <1>1, <2>1, Zenon
  <2> HIDE DEF SameUpTo
  <2> QED BY <2>3, <2>4
<1>a. \A n \in 1..d2 : n \in 1..d /\ S2[n] = S[n] /\ H2[n] = H[n]
  <2> HIDE DEF SameUpTo
  <2>1. \A n \in 1..d2 : n \in 1..d
    OBVIOUS
  <2> QED BY <2>1, Zenon DEF SameUpTo
<1>6. StackOK(S2, H2, d2, len, at, pl)
  <2> SUFFICES ASSUME NEW n \in 1..d2, S2[n] # SIG
               PROVE  /\ H2[n] \in Sites /\ (S2[n] = RP \/ S2[n] = H2[n])
                      /\ S2[n] = RP <=> \E k \in 1..len : at[k] = n /\ pl[k]
    BY Zenon DEF StackOK
  <2>1. n \in 1..d /\ S2[n] = S[n] /\ H2[n] = H[n]
    BY <1>a, Zenon
  <2>2. /\ H[n] \in Sites /\ (S[n] = RP \/ S[n] = H[n])
        /\ S[n] = RP <=> \E k \in 1..len : at[k] = n /\ pl[k]
    BY <1>0, <2>1, Zenon DEF StackOK
  <2> QED BY <2>1, <2>2, Zenon
<1>7. AddressesOK(X, S2, H2, d2, len, el, at, pl)
  <2> SUFFICES ASSUME NEW k \in 1..len, pl[k], at[k] <= d2, S2[at[k]] # SIG
               PROVE  X[el[k]].realReturnAddr
                        = IF k > 1 /\ at[k - 1] = at[k] THEN RP ELSE H2[at[k]]
    BY Zenon DEF AddressesOK
  <2>1. at[k] \in 1..d2
    <3> HIDE DEF SameUpTo
    <3>1. at[k] \in Nat /\ at[k] >= 1
      BY <1>0, <1>1 DEF ListOK
    <3> QED BY <3>1, Order, Zenon
  <2>2. at[k] \in 1..d /\ S[at[k]] # SIG /\ H2[at[k]] = H[at[k]]
    BY <1>a, <2>1, Zenon
  <2>3. at[k] <= d
    <3> HIDE DEF SameUpTo
    <3> QED BY <2>2
  <2> QED BY <1>0, <2>2, <2>3, Zenon DEF AddressesOK
<1>8. ASSUME NEW l \in 1..v
      PROVE  LevelOK(X, S2, V[l].pc, V[l].reg, sp[l], m[l], el, at, pl)
  <2>1. LevelOK(X, S, V[l].pc, V[l].reg, sp[l], m[l], el, at, pl)
    BY <1>0, Zenon DEF SavedOK
  <2>2. sp[l] \in Nat /\ m[l] \in Nat /\ sp[l] <= d2
    <3>1. l = v \/ l \in 1..(v - 1)
      OBVIOUS
    <3> QED BY <1>1, <1>2, <3>1
  <2>3. sp[l] >= 1 => S2[sp[l]] = S[sp[l]]
    BY <2>2
  <2>4. V[l].pc \in Entering => S2[sp[l]] = S[sp[l]]
    BY <2>1, <2>3, Zenon DEF LevelOK
  <2>5. LevelSame(X, X, S, S2, V[l].pc, V[l].reg, sp[l], m[l], el, el, at, at, pl, pl)
    BY <2>4, Zenon DEF LevelSame
  <2> QED BY <2>1, <2>2, <2>5, LevelFrame, SMTT(20)
<1>9. LevelOK(X, S2, V[v].pc, V[v].reg, d2, len, el, at, pl)
  BY <1>2, <1>3, <1>5, <1>8, Zenon
<1>10. SavedOK(X, S2, d2, V2, v - 1, len, el, at, pl, sp, m)
  <2>1. ASSUME NEW l \in 1..(v - 1)
        PROVE  /\ sp[l] < d2 /\ m[l] <= len
               /\ S2[sp[l] + 1] = SIG
               /\ LevelOK(X, S2, V2[l].pc, V2[l].reg, sp[l], m[l], el, at, pl)
               /\ \A k \in 1..len : k > m[l] => at[k] > sp[l] + 1
    <3>1. l \in 1..v /\ sp[l] < d2 /\ sp[l] \in Nat
      BY <1>1, <1>2
    <3>2. /\ S[sp[l] + 1] = SIG /\ m[l] <= len
          /\ \A k \in 1..len : k > m[l] => at[k] > sp[l] + 1
      BY <1>0, <3>1, Zenon DEF SavedOK
    <3>3. S2[sp[l] + 1] = SIG
      BY <3>1, <3>2
    <3>4. V2[l] = V[l]
      BY Zenon
    <3> QED BY <1>8, <3>1, <3>2, <3>3, <3>4, Zenon
  <2>2. \A j, l \in 1..(v - 1) : j < l => sp[j] < sp[l]
    BY <1>0, <1>2, Zenon DEF SavedOK
  <2>3. ASSUME NEW n \in 1..d2, S2[n] = SIG
        PROVE  \E l \in 1..(v - 1) : n = sp[l] + 1
    <3>1. n \in 1..d /\ S[n] = SIG
      BY <2>3
    <3>2. PICK l \in 1..v : n = sp[l] + 1
      BY <1>0, <3>1, Zenon DEF SavedOK
    <3>3. l # v
      BY <1>2, <3>2
    <3>4. l \in 1..(v - 1)
      BY <3>2, <3>3
    <3> QED BY <3>2, <3>4, Zenon
  <2> QED BY <2>1, <2>2, <2>3, Zenon DEF SavedOK
<1>11. PlantingOK(V2, v - 1, V[v].pc, len, pl, m)
  <2> SUFFICES ASSUME NEW k \in 1..len, ~pl[k]
               PROVE  \/ V[v].pc \in Linking /\ k = len
                      \/ \E l \in 1..(v - 1) : V2[l].pc \in Linking /\ k = m[l]
    BY Zenon DEF PlantingOK
  <2>1. PICK l \in 1..v : V[l].pc \in Linking /\ k = m[l]
    BY <1>0, Zenon DEF PlantingOK, Linking
  <2>2. CASE l = v
    BY <1>5, <2>1, <2>2, Zenon
  <2>3. CASE l \in 1..(v - 1)
    BY <2>1, <2>3, Zenon
  <2> QED BY <2>1, <2>2, <2>3
<1>12. OwnOK(t, O, V2, v - 1, V[v].pc, V[v].reg, len, el, place)
  <2>1. "user" \notin Hand
    BY Zenon DEF Hand, Recording
  <2>2. \A l \in 1..(v - 1) : V2[l].pc \in Hand =>
          V2[l].reg.c \in Ids /\ O[V2[l].reg.c] = t /\ place[V2[l].reg.c] = 0 - l
    <3> SUFFICES ASSUME NEW l \in 1..(v - 1), V[l].pc \in Hand
                 PROVE  V[l].reg.c \in Ids /\ O[V[l].reg.c] = t /\ place[V[l].reg.c] = 0 - l
      BY Zenon
    <3> QED BY <1>0, <1>2, Zenon DEF OwnOK
  <2>3. V[v].pc \in Hand => /\ V[v].reg.c \in Ids /\ O[V[v].reg.c] = t
                            /\ place[V[v].reg.c] = 0 - ((v - 1) + 1)
    <3>1. (v - 1) + 1 = v
      OBVIOUS
    <3>2. V[v].pc \in Hand => /\ V[v].reg.c \in Ids /\ O[V[v].reg.c] = t
                              /\ place[V[v].reg.c] = 0 - v
      BY <1>0, <1>3, Zenon DEF OwnOK
    <3> QED BY <3>1, <3>2, Zenon
  <2>4. ASSUME NEW c \in Ids, O[c] = t
        PROVE  \/ \E k \in 1..len : el[k] = c
               \/ \E l \in 1..(v - 1) : V2[l].pc \in Hand /\ V2[l].reg.c = c
               \/ V[v].pc \in Hand /\ V[v].reg.c = c
    <3>1. \A l \in 1..v : l \in 1..(v - 1) \/ l = v
      OBVIOUS
    <3>2. \/ \E k \in 1..len : el[k] = c
          \/ \E l \in 1..v : V[l].pc \in Hand /\ V[l].reg.c = c
      BY <1>0, <2>1, <2>4, Zenon DEF OwnOK
    <3> QED BY <3>1, <3>2, Zenon
  <2>5. \A k \in 1..len : O[el[k]] = t /\ place[el[k]] = k
    BY <1>0, Zenon DEF OwnOK
  <2> QED BY <2>2, <2>3, <2>4, <2>5, Zenon DEF OwnOK
<1>13. ThreadOK(t, O, X, S2, H2, d2, V2, v - 1, V[v].pc, V[v].reg, top,
                len, el, at, pl, sp, m, place)
  BY <1>0, <1>6, <1>7, <1>9, <1>10, <1>11, <1>12, Zenon DEF ThreadOK
<1> QED BY <1>2, <1>13, Zenon DEF Threaded

-----------------------------------------------------------------------------
(* preProfile *)

\* O2 is O but for the owner of c, which is x.
Reowned(O, O2, c, x) == O2[c] = x /\ \A b \in Ids : b # c => O2[b] = O[b]

\* allocContext: the new context is in hand.
LEMMA MapContextKeeps ==
    ASSUME NEW t, NEW O, NEW O2, NEW X, NEW S, NEW H, NEW d \in Nat,
           NEW V, NEW v \in Nat, NEW r, NEW r2, NEW top, NEW c \in Ids,
           Threaded(t, O, X, S, H, d, V, v, "map", r, top),
           X[c].old = top, O[c] # t, r2.c = c, r2.fn = r.fn,
           Reowned(O, O2, c, t)
    PROVE  Threaded(t, O2, X, S, H, d, V, v, "link", r2, top)
<1> PICK len, el, at, pl, sp, m, place :
      ThreadOK(t, O, X, S, H, d, V, v, "map", r, top, len, el, at, pl, sp, m, place)
  BY Zenon DEF Threaded
<1> USE DEF Reowned
<1>0. /\ Ghosts(len, el, at, pl, sp, m, place)
      /\ ListOK(X, top, len, el, at, pl)
      /\ LevelOK(X, S, "map", r, d, len, el, at, pl)
      /\ PlantingOK(V, v, "map", len, pl, m)
      /\ OwnOK(t, O, V, v, "map", r, len, el, place)
  BY Zenon DEF ThreadOK
<1> DEFINE place2 == [place EXCEPT ![c] = 0 - (v + 1)]
<1>1. place \in [Ids -> Int]
  BY <1>0, Zenon DEF Ghosts
<1>2. /\ place2 \in [Ids -> Int] /\ place2[c] = 0 - (v + 1)
      /\ \A b \in Ids : b # c => place2[b] = place[b]
  BY <1>1
<1> HIDE DEF place2
<1>3. Ghosts(len, el, at, pl, sp, m, place2)
  BY <1>0, <1>2, Zenon DEF Ghosts
<1>4. top = Innermost(el, len)
  BY <1>0, Zenon DEF ListOK
<1>5. LevelOK(X, S, "link", r2, d, len, el, at, pl)
  <2>1. \A k \in 1..len : at[k] <= d /\ at[k] # d + 1
    <3>1. len > 0 => at[len] <= d
      BY <1>0, Zenon DEF LevelOK, Returning, Recording
    <3>2. len \in Nat /\ at \in [Nat -> Nat]
      BY <1>0, Zenon DEF Ghosts
    <3>3. \A k \in 1..len : at[k] <= d
      BY <1>0, <3>1, <3>2, ListBelow, Zenon
    <3> QED BY <3>2, <3>3
  <2> QED BY <1>0, <1>4, <2>1, Zenon
             DEF LevelOK, Entering, Linking, Returning, Recording
<1>6. PlantingOK(V, v, "link", len, pl, m)
  BY <1>0, Zenon DEF PlantingOK, Linking
<1>7. OwnOK(t, O2, V, v, "link", r2, len, el, place2)
  <2>1. "link" \in Hand /\ "map" \notin Hand
    BY Zenon DEF Hand, Recording
  <2>2. \A b \in Ids : O[b] = t => O2[b] = t /\ place2[b] = place[b]
    BY <1>2
  <2>3. \A k \in 1..len : O2[el[k]] = t /\ place2[el[k]] = k
    BY <1>0, <2>2, Zenon DEF ListOK, OwnOK
  <2>4. \A l \in 1..v : V[l].pc \in Hand =>
          V[l].reg.c \in Ids /\ O2[V[l].reg.c] = t /\ place2[V[l].reg.c] = 0 - l
    BY <1>0, <2>2, Zenon DEF OwnOK
  <2>5. \A b \in Ids : O2[b] = t =>
          \/ \E k \in 1..len : el[k] = b
          \/ \E l \in 1..v : V[l].pc \in Hand /\ V[l].reg.c = b
          \/ r2.c = b
    BY <1>0, <2>1, Zenon DEF OwnOK
  <2> QED BY <1>2, <2>1, <2>3, <2>4, <2>5, Zenon DEF OwnOK
<1>8. ThreadOK(t, O2, X, S, H, d, V, v, "link", r2, top, len, el, at, pl, sp, m, place2)
  BY <1>3, <1>5, <1>6, <1>7, Zenon DEF ThreadOK
<1> QED BY <1>8, Zenon DEF Threaded

\* The new context becomes the innermost of the list.
LEMMA LinkContextKeeps ==
    ASSUME NEW t, NEW O, NEW X, NEW S, NEW H, NEW d \in Nat,
           NEW V, NEW v \in Nat, NEW r, NEW top,
           Threaded(t, O, X, S, H, d, V, v, "link", r, top)
    PROVE  Threaded(t, O, X, S, H, d, V, v, "fill", r, r.c)
<1> PICK len, el, at, pl, sp, m, place :
      ThreadOK(t, O, X, S, H, d, V, v, "link", r, top, len, el, at, pl, sp, m, place)
  BY Zenon DEF Threaded
<1>0. /\ Ghosts(len, el, at, pl, sp, m, place)
      /\ ListOK(X, top, len, el, at, pl)
      /\ StackOK(S, H, d, len, at, pl)
      /\ AddressesOK(X, S, H, d, len, el, at, pl)
      /\ LevelOK(X, S, "link", r, d, len, el, at, pl)
      /\ SavedOK(X, S, d, V, v, len, el, at, pl, sp, m)
      /\ PlantingOK(V, v, "link", len, pl, m)
      /\ OwnOK(t, O, V, v, "link", r, len, el, place)
  BY Zenon DEF ThreadOK
<1> DEFINE len2 == len + 1
           el2 == [el EXCEPT ![len2] = r.c]
           at2 == [at EXCEPT ![len2] = d]
           pl2 == [pl EXCEPT ![len2] = FALSE]
           place2 == [place EXCEPT ![r.c] = len2]
<1>a. /\ len \in Nat /\ el \in [Nat -> Pointers] /\ at \in [Nat -> Nat]
      /\ pl \in [Nat -> BOOLEAN] /\ sp \in [Nat -> Nat] /\ m \in [Nat -> Nat]
      /\ place \in [Ids -> Int]
  BY <1>0, Zenon DEF Ghosts
<1>b. /\ r.c \in Ids /\ O[r.c] = t /\ place[r.c] = 0 - (v + 1)
      /\ X[r.c].old = Innermost(el, len)
      /\ d >= 1 /\ S[d] # SIG /\ r.fn \in Fns
  <2>1. "link" \in Hand /\ "link" \in Entering
    BY Zenon DEF Hand, Entering
  <2> QED BY <1>0, <2>1, Zenon DEF OwnOK, LevelOK
<1>1. /\ len2 \in Nat /\ \A k \in 1..len2 : k = len2 \/ k \in 1..len
      /\ \A k \in 1..len : k \in 1..len2 /\ k # len2
      /\ len2 \in 1..len2
  BY <1>a
<1>2. /\ el2[len2] = r.c /\ at2[len2] = d /\ ~pl2[len2]
      /\ \A k \in 1..len : el2[k] = el[k] /\ at2[k] = at[k] /\ pl2[k] = pl[k]
  <2> HIDE DEF len2
  <2>0. len \in Nat
    BY <1>a, Zenon
  <2>1. \A k \in 1..len : k \in Nat
    BY <2>0
  <2>2. el2[len2] = r.c /\ \A k \in 1..len : el2[k] = el[k]
    BY <1>a, <1>1, <2>1, Zenon
  <2>3. at2[len2] = d /\ \A k \in 1..len : at2[k] = at[k]
    BY <1>a, <1>1, <2>1, Zenon
  <2>4. ~pl2[len2] /\ \A k \in 1..len : pl2[k] = pl[k]
    BY <1>a, <1>1, <2>1, Zenon
  <2> QED BY <2>2, <2>3, <2>4, Zenon
<1>3. /\ el2 \in [Nat -> Pointers] /\ at2 \in [Nat -> Nat] /\ pl2 \in [Nat -> BOOLEAN]
      /\ place2 \in [Ids -> Int]
  <2>1. r.c \in Pointers /\ len2 \in Int
    BY <1>b, <1>1 DEF Pointers
  <2>2. el2 \in [Nat -> Pointers]
    BY <1>a, <1>1, <2>1, Zenon
  <2>3. at2 \in [Nat -> Nat]
    BY <1>a, <1>1, Zenon
  <2>4. pl2 \in [Nat -> BOOLEAN]
    BY <1>a, <1>1, Zenon
  <2>5. place2 \in [Ids -> Int]
    BY <1>a, <2>1, Zenon
  <2> QED BY <2>2, <2>3, <2>4, <2>5, Zenon
<1>4. place2[r.c] = len2 /\ \A b \in Ids : b # r.c => place2[b] = place[b]
  BY <1>a, <1>b, Zenon
<1> HIDE DEF el2, at2, pl2, place2
<1>5. Ghosts(len2, el2, at2, pl2, sp, m, place2)
  BY <1>a, <1>1, <1>3, Zenon DEF Ghosts
<1> HIDE DEF len2
<1>6. \A k \in 1..len : at[k] <= d /\ (~pl[k] => at[k] < d)
  <2>1. len > 0 => at[len] <= d
    BY <1>0, Zenon DEF LevelOK, Returning, Recording
  <2>2. \A k \in 1..len : at[k] <= d
    BY <1>0, <1>a, <2>1, ListBelow, Zenon
  <2>3. "link" \notin Linking
    BY Zenon DEF Linking
  <2>4. \A k \in 1..len : ~pl[k] => at[k] < d
    BY <1>0, <1>a, <2>3, TopPlanted, Zenon
  <2> QED BY <2>2, <2>4, Zenon
<1>7. ListOK(X, r.c, len2, el2, at2, pl2)
  <2>1. r.c = Innermost(el2, len2)
    BY <1>a, <1>2 DEF Innermost, len2
  <2>2. \A k \in 1..len : Innermost(el2, k - 1) = Innermost(el, k - 1)
    BY <1>a, <1>2 DEF Innermost
  <2>3. Innermost(el2, len2 - 1) = Innermost(el, len)
    BY <1>a, <1>2 DEF Innermost, len2
  <2>4. ASSUME NEW k \in 1..len2
        PROVE  el2[k] \in Ids /\ at2[k] >= 1 /\ X[el2[k]].old = Innermost(el2, k - 1)
    <3>1. CASE k = len2
      BY <1>b, <1>2, <2>3, <3>1, Zenon
    <3>2. CASE k \in 1..len
      BY <1>0, <1>2, <2>2, <3>2, Zenon DEF ListOK
    <3> QED BY <1>1, <3>1, <3>2, Zenon
  <2>5. ASSUME NEW j \in 1..len2, NEW k \in 1..len2, j < k
        PROVE  at2[j] <= at2[k] /\ (~pl2[j] => at2[j] < at2[k])
    <3>1. j \in 1..len
      BY <1>a, <2>5 DEF len2
    <3>2. CASE k = len2
      BY <1>2, <1>6, <3>1, <3>2, Zenon
    <3>3. CASE k \in 1..len
      BY <1>0, <1>2, <2>5, <3>1, <3>3, Zenon DEF ListOK
    <3> QED BY <1>1, <3>2, <3>3, Zenon
  <2> QED BY <2>1, <2>4, <2>5, Zenon DEF ListOK
<1>8. StackOK(S, H, d, len2, at2, pl2)
  <2>1. \A n : (\E k \in 1..len2 : at2[k] = n /\ pl2[k]) <=> (\E k \in 1..len : at[k] = n /\ pl[k])
    BY <1>1, <1>2, Zenon
  <2> QED BY <1>0, <2>1, ZenonT(30) DEF StackOK
<1>9. AddressesOK(X, S, H, d, len2, el2, at2, pl2)
  <2> SUFFICES ASSUME NEW k \in 1..len2, pl2[k], at2[k] <= d, S[at2[k]] # SIG
               PROVE  X[el2[k]].realReturnAddr
                        = IF k > 1 /\ at2[k - 1] = at2[k] THEN RP ELSE H[at2[k]]
    BY Zenon DEF AddressesOK
  <2>1. k \in 1..len
    BY <1>1, <1>2, Zenon
  <2>2. k > 1 => at2[k - 1] = at[k - 1]
    BY <1>a, <1>2, <2>1
  <2>3. el2[k] = el[k] /\ at2[k] = at[k] /\ pl2[k] = pl[k]
    BY <1>2, <2>1, Zenon
  <2> QED BY <1>0, <2>1, <2>2, <2>3, Zenon DEF AddressesOK
<1>10. LevelOK(X, S, "fill", r, d, len2, el2, at2, pl2)
  <2>1. \A k \in 1..len2 : at2[k] <= d /\ at2[k] <= d + 1 /\ at2[k] # d + 1
    <3> SUFFICES ASSUME NEW k \in 1..len2 PROVE at2[k] <= d /\ at2[k] \in Nat
      OBVIOUS
    <3>1. k \in Nat
      BY <1>1
    <3> QED BY <1>1, <1>2, <1>3, <1>6, <3>1
  <2>2. len2 > 0
    BY <1>a DEF len2
  <2> QED BY <1>b, <1>2, <2>1, <2>2
             DEF LevelOK, Entering, Linking, Returning, Recording
<1>11. SavedOK(X, S, d, V, v, len2, el2, at2, pl2, sp, m)
  <2>1. ASSUME NEW l \in 1..v
        PROVE  /\ sp[l] < d /\ S[sp[l] + 1] = SIG /\ m[l] <= len2
               /\ \A k \in 1..len2 : k > m[l] => at2[k] > sp[l] + 1
               /\ LevelSame(X, X, S, S, V[l].pc, V[l].reg, sp[l], m[l],
                            el, el2, at, at2, pl, pl2)
    <3>1. /\ sp[l] < d /\ S[sp[l] + 1] = SIG /\ m[l] <= len
          /\ \A k \in 1..len : k > m[l] => at[k] > sp[l] + 1
      BY <1>0, Zenon DEF SavedOK
    <3>2. sp[l] \in Nat /\ m[l] \in Nat
      BY <1>a
    <3>3. d > sp[l] + 1
      BY <1>b, <3>1, <3>2
    <3>4. m[l] <= len2
      BY <1>a, <3>1, <3>2 DEF len2
    <3>5. ASSUME NEW k \in 1..len2, k > m[l] PROVE at2[k] > sp[l] + 1
      BY <1>1, <1>2, <3>1, <3>3, <3>5, Zenon
    <3>6. \A k \in 1..m[l] : k \in 1..len
      BY <1>a, <3>1, <3>2
    <3>7. LevelSame(X, X, S, S, V[l].pc, V[l].reg, sp[l], m[l], el, el2, at, at2, pl, pl2)
      BY <1>2, <3>6, Zenon DEF LevelSame
    <3> QED BY <3>1, <3>4, <3>5, <3>7, Zenon
  <2>2. SavedSame(X, X, S, S, d, d, V, v, len2, el, el2, at, at2, pl, pl2, sp, m)
    BY <2>1, Zenon DEF SavedSame
  <2>3. \A l \in 1..v : sp[l] \in Nat /\ m[l] \in Nat
    BY <1>a
  <2> QED BY <1>0, <2>2, <2>3, SavedFrame, Zenon
<1>12. PlantingOK(V, v, "fill", len2, pl2, m)
  <2> SUFFICES ASSUME NEW k \in 1..len2, ~pl2[k], k # len2
               PROVE  \E l \in 1..v : V[l].pc \in Linking /\ k = m[l]
    BY Zenon DEF PlantingOK, Linking
  <2>1. k \in 1..len /\ ~pl[k]
    BY <1>1, <1>2, Zenon
  <2> QED BY <1>0, <2>1, Zenon DEF PlantingOK, Linking
<1>13. OwnOK(t, O, V, v, "fill", r, len2, el2, place2)
  <2>1. "fill" \notin Hand /\ "link" \in Hand
    BY Zenon DEF Hand, Recording
  <2>2. ASSUME NEW k \in 1..len2
        PROVE  O[el2[k]] = t /\ place2[el2[k]] = k
    <3>1. CASE k = len2
      BY <1>b, <1>2, <1>4, <3>1, Zenon
    <3>2. CASE k \in 1..len
      <4>1. el[k] \in Ids /\ O[el[k]] = t /\ place[el[k]] = k
        BY <1>0, <3>2, Zenon DEF OwnOK, ListOK
      <4>2. el[k] # r.c
        BY <1>b, <3>2, <4>1
      <4> QED BY <1>2, <1>4, <3>2, <4>1, <4>2, Zenon
    <3> QED BY <1>1, <3>1, <3>2, Zenon
  <2>3. ASSUME NEW l \in 1..v, V[l].pc \in Hand
        PROVE  V[l].reg.c \in Ids /\ O[V[l].reg.c] = t /\ place2[V[l].reg.c] = 0 - l
    <3>1. V[l].reg.c \in Ids /\ O[V[l].reg.c] = t /\ place[V[l].reg.c] = 0 - l
      BY <1>0, <2>3, Zenon DEF OwnOK
    <3>2. V[l].reg.c # r.c
      BY <1>b, <3>1
    <3> QED BY <1>4, <3>1, <3>2, Zenon
  <2>4. ASSUME NEW b \in Ids, O[b] = t
        PROVE  \/ \E k \in 1..len2 : el2[k] = b
               \/ \E l \in 1..v : V[l].pc \in Hand /\ V[l].reg.c = b
    <3>1. \/ \E k \in 1..len : el[k] = b
          \/ \E l \in 1..v : V[l].pc \in Hand /\ V[l].reg.c = b
          \/ r.c = b
      BY <1>0, <2>4, Zenon DEF OwnOK
    <3> QED BY <1>1, <1>2, <3>1, Zenon
  <2> QED BY <2>1, <2>2, <2>3, <2>4, Zenon DEF OwnOK
<1>14. ThreadOK(t, O, X, S, H, d, V, v, "fill", r, r.c, len2, el2, at2, pl2, sp, m, place2)
  BY <1>5, <1>7, <1>8, <1>9, <1>10, <1>11, <1>12, <1>13, Zenon DEF ThreadOK
<1> QED BY <1>14, Zenon DEF Threaded

\* A context that guards a slot above the signal frames belongs to no
\* interrupted code.
TopAbove(S, d, len, at) == len > 0 /\ (at[len] > d \/ (at[len] = d /\ S[d] # SIG))

SavedBelow(v, len, m) ==
    \A l \in 1..v : m[l] < len /\ \A k \in 1..m[l] : k \in 1..len /\ k # len

\* A context linked by the running code guards a slot above all signal frames.
LEMMA AboveSaved ==
    ASSUME NEW X, NEW S, NEW d \in Nat, NEW V, NEW v \in Nat, NEW len \in Nat, NEW el,
           NEW at \in [Nat -> Nat], NEW pl, NEW sp \in [Nat -> Nat], NEW m \in [Nat -> Nat],
           SavedOK(X, S, d, V, v, len, el, at, pl, sp, m),
           TopAbove(S, d, len, at)
    PROVE  SavedBelow(v, len, m)
<1> SUFFICES ASSUME NEW l \in 1..v PROVE m[l] < len
  BY DEF SavedBelow
<1>1. sp[l] < d /\ m[l] <= len /\ S[sp[l] + 1] = SIG
  BY Zenon DEF SavedOK
<1>2. \A k \in 1..m[l] : at[k] <= sp[l] + 1
  BY Zenon DEF SavedOK, LevelOK
<1>3. sp[l] \in Nat /\ m[l] \in Nat /\ at[len] \in Nat
  OBVIOUS
<1>4. at[len] > sp[l] + 1
  BY <1>1, <1>3 DEF TopAbove
<1>5. m[l] = len => len \in 1..m[l]
  BY DEF TopAbove
<1>6. m[l] # len
  BY <1>2, <1>3, <1>4, <1>5
<1> QED BY <1>1, <1>3, <1>6

\* The context takes the return address of the slot.
LEMMA FillContextKeeps ==
    ASSUME NEW t, NEW O, NEW X, NEW X2, NEW S, NEW H, NEW d \in Nat,
           NEW V, NEW v \in Nat, NEW r, NEW top,
           Threaded(t, O, X, S, H, d, V, v, "fill", r, top),
           X2[r.c].old = X[r.c].old, X2[r.c].realReturnAddr = S[d],
           \A b \in Ids : b # r.c => X2[b] = X[b]
    PROVE  Threaded(t, O, X2, S, H, d, V, v, "swap", r, top)
<1> PICK len, el, at, pl, sp, m, place :
      ThreadOK(t, O, X, S, H, d, V, v, "fill", r, top, len, el, at, pl, sp, m, place)
  BY Zenon DEF Threaded
<1>0. /\ Ghosts(len, el, at, pl, sp, m, place)
      /\ ListOK(X, top, len, el, at, pl)
      /\ AddressesOK(X, S, H, d, len, el, at, pl)
      /\ LevelOK(X, S, "fill", r, d, len, el, at, pl)
      /\ SavedOK(X, S, d, V, v, len, el, at, pl, sp, m)
      /\ PlantingOK(V, v, "fill", len, pl, m)
      /\ OwnOK(t, O, V, v, "fill", r, len, el, place)
  BY Zenon DEF ThreadOK
<1>1. /\ len \in Nat /\ at \in [Nat -> Nat] /\ sp \in [Nat -> Nat] /\ m \in [Nat -> Nat]
  BY <1>0, Zenon DEF Ghosts
<1>2. /\ len > 0 /\ el[len] = r.c /\ at[len] = d /\ ~pl[len]
      /\ d >= 1 /\ S[d] # SIG /\ r.fn \in Fns
  BY <1>0, Zenon DEF LevelOK, Linking, Entering
<1>3. len \in 1..len /\ r.c \in Ids /\ place[r.c] = len
  <2>1. len \in 1..len
    BY <1>1, <1>2
  <2> QED BY <1>0, <1>2, <2>1, Zenon DEF ListOK, OwnOK
<1>4. \A k \in 1..len : k # len => el[k] \in Ids /\ el[k] # r.c /\ X2[el[k]] = X[el[k]]
  BY <1>0, <1>3, Zenon DEF ListOK, OwnOK
<1>5. \A k \in 1..len : X2[el[k]].old = X[el[k]].old
  BY <1>2, <1>4, Zenon
<1>6. ListOK(X2, top, len, el, at, pl)
  BY <1>0, <1>5, Zenon DEF ListOK
<1>7. AddressesOK(X2, S, H, d, len, el, at, pl)
  <2> SUFFICES ASSUME NEW k \in 1..len, pl[k], at[k] <= d, S[at[k]] # SIG
               PROVE  X2[el[k]].realReturnAddr
                        = IF k > 1 /\ at[k - 1] = at[k] THEN RP ELSE H[at[k]]
    BY Zenon DEF AddressesOK
  <2>1. X2[el[k]] = X[el[k]]
    BY <1>2, <1>4, Zenon
  <2> QED BY <1>0, <2>1, Zenon DEF AddressesOK
<1>8. LevelOK(X2, S, "swap", r, d, len, el, at, pl)
  <2>1. \A k \in 1..len : at[k] <= d
    <3>1. len > 0 => at[len] <= d
      BY <1>2, Order, Zenon
    <3> QED BY <1>0, <1>1, <3>1, ListBelow, Zenon
  <2>2. \A k \in 1..len : at[k] <= d + 1 /\ at[k] # d + 1
    BY <1>1, <2>1
  <2> QED BY <1>2, <2>2, Order, SwapAndUser, Zenon DEF LevelOK
<1>9. SavedOK(X2, S, d, V, v, len, el, at, pl, sp, m)
  <2>0. SavedBelow(v, len, m)
    <3>1. TopAbove(S, d, len, at)
      BY <1>2, Zenon DEF TopAbove
    <3>2. SavedOK(X, S, d, V, v, len, el, at, pl, sp, m)
      BY <1>0, Zenon
    <3> QED BY <1>1, <3>1, <3>2, AboveSaved, Zenon
  <2>1. ASSUME NEW l \in 1..v
        PROVE  LevelSame(X, X2, S, S, V[l].pc, V[l].reg, sp[l], m[l], el, el, at, at, pl, pl)
    <3>1. V[l].pc \in Hand => V[l].reg.c \in Ids /\ place[V[l].reg.c] = 0 - l
      BY <1>0, Zenon DEF OwnOK
    <3>2. V[l].pc \in Hand => V[l].reg.c # r.c
      BY <1>1, <1>3, <3>1
    <3> QED BY <1>4, <2>0, <3>1, <3>2, Zenon DEF LevelSame, SavedBelow
  <2>2. SavedSame(X, X2, S, S, d, d, V, v, len, el, el, at, at, pl, pl, sp, m)
    BY <1>0, <2>1, Zenon DEF SavedSame, SavedOK
  <2>3. \A l \in 1..v : sp[l] \in Nat /\ m[l] \in Nat
    BY <1>1
  <2> QED BY <1>0, <2>2, <2>3, SavedFrame, Zenon
<1>10. PlantingOK(V, v, "swap", len, pl, m)
  BY <1>0, Zenon DEF PlantingOK, Linking
<1>11. OwnOK(t, O, V, v, "swap", r, len, el, place)
  <2>1. "fill" \notin Hand /\ "swap" \notin Hand
    BY Zenon DEF Hand, Recording
  <2> QED BY <1>0, <2>1, Zenon DEF OwnOK
<1>12. ThreadOK(t, O, X2, S, H, d, V, v, "swap", r, top, len, el, at, pl, sp, m, place)
  BY <1>6, <1>7, <1>8, <1>9, <1>10, <1>11, Zenon DEF ThreadOK
<1> QED BY <1>12, Zenon DEF Threaded

\* wrapper_rp replaces the return address of the slot.
LEMMA SwapReturnAddrKeeps ==
    ASSUME NEW t, NEW O, NEW X, NEW S, NEW S2, NEW H, NEW d \in Nat,
           NEW V, NEW v \in Nat, NEW r, NEW r2, NEW top,
           Threaded(t, O, X, S, H, d, V, v, "swap", r, top),
           S2[d] = RP, \A n \in 1..d : n # d => S2[n] = S[n]
    PROVE  Threaded(t, O, X, S2, H, d, V, v, "user", r2, top)
<1> PICK len, el, at, pl, sp, m, place :
      ThreadOK(t, O, X, S, H, d, V, v, "swap", r, top, len, el, at, pl, sp, m, place)
  BY Zenon DEF Threaded
<1>0. /\ Ghosts(len, el, at, pl, sp, m, place)
      /\ ListOK(X, top, len, el, at, pl)
      /\ StackOK(S, H, d, len, at, pl)
      /\ AddressesOK(X, S, H, d, len, el, at, pl)
      /\ LevelOK(X, S, "swap", r, d, len, el, at, pl)
      /\ SavedOK(X, S, d, V, v, len, el, at, pl, sp, m)
      /\ PlantingOK(V, v, "swap", len, pl, m)
      /\ OwnOK(t, O, V, v, "swap", r, len, el, place)
  BY Zenon DEF ThreadOK
<1> DEFINE pl2 == [pl EXCEPT ![len] = TRUE]
<1>1. /\ len \in Nat /\ at \in [Nat -> Nat] /\ sp \in [Nat -> Nat] /\ m \in [Nat -> Nat]
      /\ pl \in [Nat -> BOOLEAN]
  BY <1>0, Zenon DEF Ghosts
<1>2. /\ len > 0 /\ el[len] = r.c /\ at[len] = d /\ ~pl[len]
      /\ d >= 1 /\ S[d] # SIG /\ X[r.c].realReturnAddr = S[d]
  BY <1>0, Zenon DEF LevelOK, Linking, Entering
<1>3. len \in 1..len /\ d \in 1..d /\ \A k \in 1..len : k \in Nat
  BY <1>1, <1>2
<1>4. pl2 \in [Nat -> BOOLEAN] /\ pl2[len] /\ \A k \in 1..len : k # len => pl2[k] = pl[k]
  <2>1. pl2 \in [Nat -> BOOLEAN]
    BY <1>1, Zenon
  <2> QED BY <1>1, <1>3, <2>1, Zenon
<1> HIDE DEF pl2
<1>5. Ghosts(len, el, at, pl2, sp, m, place)
  BY <1>0, <1>4, Zenon DEF Ghosts
<1>6. \A k \in 1..len : at[k] <= d
  <2>1. len > 0 => at[len] <= d
    BY <1>2
  <2> QED BY <1>0, <1>1, <2>1, ListBelow, Zenon
<1>7. SIG # RP
  BY Zenon DEF SIG, RP
<1>8. ListOK(X, top, len, el, at, pl2)
  <2>1. \A j, k \in 1..len : j < k => j # len
    BY <1>1
  <2> QED BY <1>0, <1>4, <2>1, Zenon DEF ListOK
<1>9. StackOK(S2, H, d, len, at, pl2)
  <2> SUFFICES ASSUME NEW n \in 1..d, S2[n] # SIG
               PROVE  /\ H[n] \in Sites
                      /\ S2[n] = RP \/ S2[n] = H[n]
                      /\ S2[n] = RP <=> \E k \in 1..len : at[k] = n /\ pl2[k]
    BY Zenon DEF StackOK
  <2>1. CASE n = d
    <3>1. H[d] \in Sites
      BY <1>0, <1>2, <1>3, Zenon DEF StackOK
    <3> QED BY <1>2, <1>3, <1>4, <2>1, <3>1, Zenon
  <2>2. CASE n # d
    <3>1. (\E k \in 1..len : at[k] = n /\ pl2[k]) <=> (\E k \in 1..len : at[k] = n /\ pl[k])
      BY <1>2, <1>4, <2>2, Zenon
    <3> QED BY <1>0, <2>2, <3>1, Zenon DEF StackOK
  <2> QED BY <2>1, <2>2, Zenon
<1>10. AddressesOK(X, S2, H, d, len, el, at, pl2)
  <2> SUFFICES ASSUME NEW k \in 1..len, pl2[k], S2[at[k]] # SIG
               PROVE  X[el[k]].realReturnAddr
                        = IF k > 1 /\ at[k - 1] = at[k] THEN RP ELSE H[at[k]]
    BY Zenon DEF AddressesOK
  <2>1. at[k] \in 1..d /\ at[k] <= d
    <3>1. at[k] \in Nat /\ at[k] >= 1 /\ at[k] <= d
      BY <1>0, <1>1, <1>3, <1>6, Zenon DEF ListOK
    <3> QED BY <3>1, Order, Zenon
  <2>2. S[at[k]] # SIG
    BY <1>2, <2>1, Zenon
  <2>3. CASE k # len
    BY <1>0, <1>4, <2>1, <2>2, <2>3, Zenon DEF AddressesOK
  <2>4. CASE k = len /\ len > 1 /\ at[len - 1] = d
    <3>1. len - 1 \in 1..len /\ len - 1 < len
      BY <1>1, <2>4, Order, Zenon
    <3>2. pl[len - 1] \/ at[len - 1] < at[len]
      BY <1>0, <2>4, <3>1, Zenon DEF ListOK
    <3>3. pl[len - 1]
      BY <1>2, <1>3, <2>4, <3>2, Order, Zenon
    <3>4. S[d] = RP
      BY <1>0, <1>2, <1>3, <2>4, <3>1, <3>3, Zenon DEF StackOK
    <3> QED BY <1>2, <2>4, <3>4, Zenon
  <2>5. CASE k = len /\ ~(len > 1 /\ at[len - 1] = d)
    <3>1. ASSUME NEW j \in 1..len, at[j] = d, pl[j] PROVE FALSE
      <4>0. j # len
        BY <1>2, <3>1, Zenon
      <4>1. len > 1 /\ len - 1 \in 1..len /\ (j = len - 1 \/ j < len - 1)
        BY <1>1, <4>0
      <4>2. at[j] = at[len - 1] \/ at[j] <= at[len - 1]
        <5>1. j < len - 1 => at[j] <= at[len - 1]
          BY <1>0, <4>1, Zenon DEF ListOK
        <5> QED BY <4>1, <5>1, Zenon
      <4>3. at[len - 1] <= d /\ at[len - 1] \in Nat
        BY <1>1, <1>6, <4>1
      <4> QED BY <2>5, <3>1, <4>1, <4>2, <4>3, Order, Zenon
    <3>2. S[d] # RP
      BY <1>0, <1>2, <1>3, <3>1, Zenon DEF StackOK
    <3>3. S[d] = H[d]
      BY <1>0, <1>2, <1>3, <3>2, Zenon DEF StackOK
    <3> QED BY <1>2, <2>5, <3>3, Zenon
  <2> QED BY <1>2, <2>3, <2>4, <2>5, Zenon
<1>11. LevelOK(X, S2, "user", r2, d, len, el, at, pl2)
  <2>1. \A k \in 1..len : at[k] <= d + 1 /\ at[k] # d + 1
    BY <1>1, <1>6, SMTT(20)
  <2> QED BY <1>2, <2>1, Order, SwapAndUser, Zenon DEF LevelOK
<1>12. SavedOK(X, S2, d, V, v, len, el, at, pl2, sp, m)
  <2>0. SavedBelow(v, len, m)
    <3>1. TopAbove(S, d, len, at)
      BY <1>2, Zenon DEF TopAbove
    <3>2. SavedOK(X, S, d, V, v, len, el, at, pl, sp, m)
      BY <1>0, Zenon
    <3> QED BY <1>1, <3>1, <3>2, AboveSaved, Zenon
  <2>1. ASSUME NEW l \in 1..v
        PROVE  /\ sp[l] < d /\ S2[sp[l] + 1] = SIG /\ m[l] <= len
               /\ \A k \in 1..len : k > m[l] => at[k] > sp[l] + 1
               /\ LevelSame(X, X, S, S2, V[l].pc, V[l].reg, sp[l], m[l],
                            el, el, at, at, pl, pl2)
    <3>1. /\ sp[l] < d /\ S[sp[l] + 1] = SIG /\ m[l] <= len
          /\ \A k \in 1..len : k > m[l] => at[k] > sp[l] + 1
          /\ LevelOK(X, S, V[l].pc, V[l].reg, sp[l], m[l], el, at, pl)
      BY <1>0, Zenon DEF SavedOK
    <3>2. sp[l] \in Nat
      BY <1>1
    <3>3. S2[sp[l] + 1] = SIG /\ (sp[l] >= 1 => S2[sp[l]] = S[sp[l]])
      <4>1. sp[l] + 1 \in 1..d /\ sp[l] # d /\ (sp[l] >= 1 => sp[l] \in 1..d)
        BY <3>1, <3>2, Order, Zenon
      <4>2. sp[l] + 1 # d
        BY <1>2, <3>1, Zenon
      <4> QED BY <3>1, <4>1, <4>2, Zenon
    <3>4. V[l].pc \in Entering => S2[sp[l]] = S[sp[l]]
      BY <3>1, <3>3, Zenon DEF LevelOK
    <3>5. LevelSame(X, X, S, S2, V[l].pc, V[l].reg, sp[l], m[l], el, el, at, at, pl, pl2)
      BY <1>4, <2>0, <3>4, Zenon DEF LevelSame, SavedBelow
    <3> QED BY <3>1, <3>3, <3>5, Zenon
  <2>2. \A n \in 1..d : S2[n] = SIG => n \in 1..d /\ S[n] = SIG
    BY <1>7, Zenon
  <2>3. SavedSame(X, X, S, S2, d, d, V, v, len, el, el, at, at, pl, pl2, sp, m)
    BY <2>1, <2>2, Zenon DEF SavedSame
  <2>4. \A l \in 1..v : sp[l] \in Nat /\ m[l] \in Nat
    BY <1>1, SMTT(20)
  <2> QED BY <1>0, <2>3, <2>4, SavedFrame, Zenon
<1>13. PlantingOK(V, v, "user", len, pl2, m)
  BY <1>0, <1>4, Zenon DEF PlantingOK
<1>14. OwnOK(t, O, V, v, "user", r2, len, el, place)
  <2>1. "user" \notin Hand /\ "swap" \notin Hand
    BY Zenon DEF Hand, Recording
  <2> QED BY <1>0, <2>1, Zenon DEF OwnOK
<1>15. ThreadOK(t, O, X, S2, H, d, V, v, "user", r2, top, len, el, at, pl2, sp, m, place)
  BY <1>5, <1>8, <1>9, <1>10, <1>11, <1>12, <1>13, <1>14, Zenon DEF ThreadOK
<1> QED BY <1>15, Zenon DEF Threaded

-----------------------------------------------------------------------------
(* postProfile *)

\* The innermost context leaves the list and is in hand.
LEMMA UnlinkContextKeeps ==
    ASSUME NEW t, NEW O, NEW X, NEW S, NEW H, NEW d \in Nat,
           NEW V, NEW v \in Nat, NEW r, NEW top,
           Threaded(t, O, X, S, H, d, V, v, "unlink", r, top)
    PROVE  Threaded(t, O, X, S, H, d, V, v, "lock", r, X[r.c].old)
<1> PICK len, el, at, pl, sp, m, place :
      ThreadOK(t, O, X, S, H, d, V, v, "unlink", r, top, len, el, at, pl, sp, m, place)
  BY Zenon DEF Threaded
<1>0. /\ Ghosts(len, el, at, pl, sp, m, place)
      /\ ListOK(X, top, len, el, at, pl)
      /\ StackOK(S, H, d, len, at, pl)
      /\ AddressesOK(X, S, H, d, len, el, at, pl)
      /\ LevelOK(X, S, "unlink", r, d, len, el, at, pl)
      /\ SavedOK(X, S, d, V, v, len, el, at, pl, sp, m)
      /\ PlantingOK(V, v, "unlink", len, pl, m)
      /\ OwnOK(t, O, V, v, "unlink", r, len, el, place)
  BY Zenon DEF ThreadOK
<1> DEFINE len2 == len - 1
           place2 == [place EXCEPT ![r.c] = 0 - (v + 1)]
<1>1. /\ len \in Nat /\ at \in [Nat -> Nat] /\ sp \in [Nat -> Nat] /\ m \in [Nat -> Nat]
      /\ place \in [Ids -> Int]
  BY <1>0, Zenon DEF Ghosts
<1>2. len > 0 /\ el[len] = r.c /\ at[len] = d + 1 /\ r.want \in Sites
  BY <1>0, Zenon DEF LevelOK, Returning
<1>3. /\ len \in 1..len /\ len2 \in Nat
      /\ \A k \in 1..len2 : k \in 1..len /\ k # len
      /\ \A k \in 1..len : k = len \/ k \in 1..len2
  BY <1>1, <1>2
<1>4. r.c \in Ids /\ O[r.c] = t /\ place[r.c] = len
  BY <1>0, <1>2, <1>3, Zenon DEF ListOK, OwnOK
<1>5. /\ place2 \in [Ids -> Int] /\ place2[r.c] = 0 - (v + 1)
      /\ \A b \in Ids : b # r.c => place2[b] = place[b]
  BY <1>1, <1>4
<1> HIDE DEF place2
<1>6. Ghosts(len2, el, at, pl, sp, m, place2)
  BY <1>0, <1>3, <1>5, Zenon DEF Ghosts
<1>7. X[r.c].old = Innermost(el, len2)
  BY <1>0, <1>2, <1>3, Zenon DEF ListOK
<1>8. X[r.c].realReturnAddr = IF len2 > 0 /\ at[len2] = d + 1 THEN RP ELSE r.want
  <2>1. X[el[len]].realReturnAddr = IF len > 1 /\ at[len - 1] = d + 1 THEN RP ELSE r.want
    BY <1>0, <1>2, <1>3, Zenon DEF LevelOK
  <2>2. len > 1 <=> len2 > 0
    BY <1>1
  <2> QED BY <1>2, <2>1, <2>2, Zenon
<1> HIDE DEF len2
<1>9. ListOK(X, X[r.c].old, len2, el, at, pl)
  BY <1>0, <1>3, <1>7, Zenon DEF ListOK
<1>10. StackOK(S, H, d, len2, at, pl)
  <2> SUFFICES ASSUME NEW n \in 1..d, S[n] # SIG
               PROVE  /\ H[n] \in Sites
                      /\ S[n] = RP \/ S[n] = H[n]
                      /\ S[n] = RP <=> \E k \in 1..len2 : at[k] = n /\ pl[k]
    BY Zenon DEF StackOK
  <2>1. at[len] # n
    BY <1>2
  <2>2. (\E k \in 1..len2 : at[k] = n /\ pl[k]) <=> (\E k \in 1..len : at[k] = n /\ pl[k])
    BY <1>3, <2>1, Zenon
  <2> QED BY <1>0, <2>2, Zenon DEF StackOK
<1>11. AddressesOK(X, S, H, d, len2, el, at, pl)
  BY <1>0, <1>3, Zenon DEF AddressesOK
<1>12. LevelOK(X, S, "lock", r, d, len2, el, at, pl)
  <2>1. \A k \in 1..len2 : at[k] <= d + 1
    BY <1>0, <1>3, Zenon DEF LevelOK
  <2>2. \A k \in 1..len2 : at[k] = d + 1 =>
          X[el[k]].realReturnAddr = IF k > 1 /\ at[k - 1] = d + 1 THEN RP ELSE r.want
    BY <1>0, <1>3, Zenon DEF LevelOK
  <2> QED BY <1>2, <1>8, <2>1, <2>2, Zenon
             DEF LevelOK, Entering, Linking, Returning, Recording
<1>13. SavedOK(X, S, d, V, v, len2, el, at, pl, sp, m)
  <2>1. SavedBelow(v, len, m)
    <3>1. TopAbove(S, d, len, at)
      BY <1>2 DEF TopAbove
    <3>2. SavedOK(X, S, d, V, v, len, el, at, pl, sp, m)
      BY <1>0, Zenon
    <3> QED BY <1>1, <3>1, <3>2, AboveSaved, Zenon
  <2>2. \A l \in 1..v : m[l] <= len2
    BY <1>1, <2>1 DEF SavedBelow, len2
  <2> QED BY <1>0, <1>3, <2>2, Zenon DEF SavedOK
<1>14. PlantingOK(V, v, "lock", len2, pl, m)
  <2>1. "lock" \notin Linking /\ "unlink" \notin Linking
    BY Zenon DEF Linking
  <2> QED BY <1>0, <1>3, <2>1, Zenon DEF PlantingOK
<1>15. OwnOK(t, O, V, v, "lock", r, len2, el, place2)
  <2>1. "unlink" \notin Hand /\ "lock" \in Hand
    BY Zenon DEF Hand, Recording
  <2>2. ASSUME NEW k \in 1..len2
        PROVE  O[el[k]] = t /\ place2[el[k]] = k
    <3>1. k \in 1..len /\ k # len
      BY <1>3, Zenon
    <3>2. el[k] \in Ids /\ O[el[k]] = t /\ place[el[k]] = k
      BY <1>0, <3>1, Zenon DEF OwnOK, ListOK
    <3> QED BY <1>4, <1>5, <3>1, <3>2, Zenon
  <2>3. ASSUME NEW l \in 1..v, V[l].pc \in Hand
        PROVE  V[l].reg.c \in Ids /\ O[V[l].reg.c] = t /\ place2[V[l].reg.c] = 0 - l
    <3>1. V[l].reg.c \in Ids /\ O[V[l].reg.c] = t /\ place[V[l].reg.c] = 0 - l
      BY <1>0, <2>3, Zenon DEF OwnOK
    <3>2. V[l].reg.c # r.c
      BY <1>1, <1>4, <3>1, SMTT(20)
    <3> QED BY <1>5, <3>1, <3>2, Zenon
  <2>4. ASSUME NEW b \in Ids, O[b] = t
        PROVE  \/ \E k \in 1..len2 : el[k] = b
               \/ \E l \in 1..v : V[l].pc \in Hand /\ V[l].reg.c = b
               \/ r.c = b
    <3>1. \/ \E k \in 1..len : el[k] = b
          \/ \E l \in 1..v : V[l].pc \in Hand /\ V[l].reg.c = b
      BY <1>0, <2>1, <2>4, Zenon DEF OwnOK
    <3> QED BY <1>2, <1>3, <3>1, Zenon
  <2> QED BY <1>4, <1>5, <2>1, <2>2, <2>3, <2>4, Zenon DEF OwnOK
<1>16. ThreadOK(t, O, X, S, H, d, V, v, "lock", r, X[r.c].old,
                len2, el, at, pl, sp, m, place2)
  BY <1>6, <1>9, <1>10, <1>11, <1>12, <1>13, <1>14, <1>15, Zenon DEF ThreadOK
<1> QED BY <1>16, Zenon DEF Threaded

\* freeContext: the context in hand is nobody's.
LEMMA UnmapContextKeeps ==
    ASSUME NEW t \in Threads, NEW O, NEW O2, NEW X, NEW S, NEW H, NEW d \in Nat,
           NEW V, NEW v \in Nat, NEW r, NEW r2, NEW top,
           Threaded(t, O, X, S, H, d, V, v, "unmap", r, top),
           r2.to = X[r.c].realReturnAddr, r2.want = r.want,
           Reowned(O, O2, r.c, NULL)
    PROVE  Threaded(t, O2, X, S, H, d, V, v, "resume", r2, top)
<1> PICK len, el, at, pl, sp, m, place :
      ThreadOK(t, O, X, S, H, d, V, v, "unmap", r, top, len, el, at, pl, sp, m, place)
  BY Zenon DEF Threaded
<1> USE DEF Reowned
<1>0. /\ Ghosts(len, el, at, pl, sp, m, place)
      /\ ListOK(X, top, len, el, at, pl)
      /\ LevelOK(X, S, "unmap", r, d, len, el, at, pl)
      /\ PlantingOK(V, v, "unmap", len, pl, m)
      /\ OwnOK(t, O, V, v, "unmap", r, len, el, place)
  BY Zenon DEF ThreadOK
<1>1. len \in Nat /\ at \in [Nat -> Nat]
  BY <1>0, Zenon DEF Ghosts
<1>2. /\ \A k \in 1..len : at[k] <= d + 1
      /\ r.want \in Sites
      /\ X[r.c].realReturnAddr = IF len > 0 /\ at[len] = d + 1 THEN RP ELSE r.want
  BY <1>0, Zenon DEF LevelOK, Returning, Recording
<1>3. r.want # RP /\ t # NULL
  BY <1>2, WrapperAssumption, Zenon
<1>4. LevelOK(X, S, "resume", r2, d, len, el, at, pl)
  <2>1. r2.to = RP => len > 0 /\ at[len] = d + 1
    BY <1>2, <1>3, Zenon
  <2>2. r2.to # RP => r2.to = r2.want /\ ~(len > 0 /\ at[len] = d + 1)
    BY <1>2, Zenon
  <2>3. len > 0 => len \in 1..len /\ at[len] \in Nat
    BY <1>1
  <2>4. r2.to # RP => (len > 0 => at[len] <= d)
    BY <1>2, <2>2, <2>3, SMTT(20)
  <2> QED BY <1>0, <1>2, <2>1, <2>2, <2>4, Zenon
             DEF LevelOK, Entering, Linking, Returning, Recording
<1>5. PlantingOK(V, v, "resume", len, pl, m)
  BY <1>0, Zenon DEF PlantingOK, Linking
<1>6. OwnOK(t, O2, V, v, "resume", r2, len, el, place)
  <2>1. "resume" \notin Hand /\ "unmap" \in Hand
    BY Zenon DEF Hand, Recording
  <2>2. r.c \in Ids /\ place[r.c] = 0 - (v + 1)
    BY <1>0, <2>1, Zenon DEF OwnOK
  <2>3. \A k \in 1..len : O2[el[k]] = t /\ place[el[k]] = k
    <3> SUFFICES ASSUME NEW k \in 1..len PROVE O2[el[k]] = t /\ place[el[k]] = k
      BY Zenon
    <3>1. el[k] \in Ids /\ O[el[k]] = t /\ place[el[k]] = k
      BY <1>0, Zenon DEF OwnOK, ListOK
    <3>2. el[k] # r.c
      BY <2>2, <3>1, SMTT(20)
    <3> QED BY <3>1, <3>2, Zenon
  <2>4. ASSUME NEW l \in 1..v, V[l].pc \in Hand
        PROVE  V[l].reg.c \in Ids /\ O2[V[l].reg.c] = t /\ place[V[l].reg.c] = 0 - l
    <3>1. V[l].reg.c \in Ids /\ O[V[l].reg.c] = t /\ place[V[l].reg.c] = 0 - l
      BY <1>0, <2>4, Zenon DEF OwnOK
    <3>2. V[l].reg.c # r.c
      BY <2>2, <3>1
    <3> QED BY <3>1, <3>2, Zenon
  <2>5. ASSUME NEW b \in Ids, O2[b] = t
        PROVE  \/ \E k \in 1..len : el[k] = b
               \/ \E l \in 1..v : V[l].pc \in Hand /\ V[l].reg.c = b
    <3>1. b # r.c /\ O[b] = t
      BY <1>3, <2>5, Zenon
    <3> QED BY <1>0, <3>1, Zenon DEF OwnOK
  <2> QED BY <2>1, <2>3, <2>4, <2>5, Zenon DEF OwnOK
<1>7. ThreadOK(t, O2, X, S, H, d, V, v, "resume", r2, top, len, el, at, pl, sp, m, place)
  BY <1>4, <1>5, <1>6, Zenon DEF ThreadOK
<1> QED BY <1>7, Zenon DEF Threaded

-----------------------------------------------------------------------------
(* The invariant *)

\* What the invariant of a thread says about the state it is in.
Consequent(t, O, S, H, d, p, r, top) ==
    /\ p \in Holding => r.c \in Ids /\ O[r.c] = t
    /\ p = "take" => top \in Ids /\ O[top] = t
    /\ p = "resume" /\ r.to # RP => r.to = r.want
    /\ p \in Entering => d >= 1 /\ S[d] # SIG
    /\ p = "user" /\ d = 0 => \A c \in Ids : O[c] # t
    /\ p = "user" /\ d > 0 /\ S[d] # SIG => H[d] \in Sites

\* The invariant gives the facts that the actions and the properties need.
LEMMA Consequences ==
    ASSUME NEW t, NEW O, NEW X, NEW S, NEW H, NEW d \in Nat,
           NEW V, NEW v \in Nat, NEW p, NEW r, NEW top,
           Threaded(t, O, X, S, H, d, V, v, p, r, top)
    PROVE  Consequent(t, O, S, H, d, p, r, top)
<1> PICK len, el, at, pl, sp, m, place :
      ThreadOK(t, O, X, S, H, d, V, v, p, r, top, len, el, at, pl, sp, m, place)
  BY Zenon DEF Threaded
<1>0. /\ Ghosts(len, el, at, pl, sp, m, place)
      /\ ListOK(X, top, len, el, at, pl)
      /\ StackOK(S, H, d, len, at, pl)
      /\ LevelOK(X, S, p, r, d, len, el, at, pl)
      /\ SavedOK(X, S, d, V, v, len, el, at, pl, sp, m)
      /\ OwnOK(t, O, V, v, p, r, len, el, place)
  BY Zenon DEF ThreadOK
<1>1. len \in Nat /\ at \in [Nat -> Nat] /\ sp \in [Nat -> Nat]
  BY <1>0, Zenon DEF Ghosts
<1>2. len > 0 => el[len] \in Ids /\ O[el[len]] = t
  <2>1. len > 0 => len \in 1..len
    BY <1>1
  <2> QED BY <1>0, <2>1, Zenon DEF ListOK, OwnOK
<1>3. p \in Linking \cup {"unlink", "take"} => len > 0
  BY <1>0, Zenon DEF LevelOK, Linking
<1>4. p \in Linking \cup {"unlink"} => r.c = el[len]
  BY <1>0, Zenon DEF LevelOK, Linking
<1>5. p \in Hand => r.c \in Ids /\ O[r.c] = t
  BY <1>0, Zenon DEF OwnOK
<1>6. p = "take" => top = el[len]
  BY <1>0, <1>1, <1>3, Order, Zenon DEF ListOK, Innermost
<1>7. p = "resume" /\ r.to # RP => r.to = r.want
  BY <1>0, Zenon DEF LevelOK
<1>8. p \in Entering => d >= 1 /\ S[d] # SIG
  BY <1>0, Zenon DEF LevelOK
<1>9. ASSUME p = "user", d = 0, NEW c \in Ids PROVE O[c] # t
  <2>1. v = 0
    <3>1. v > 0 => v \in 1..v /\ sp[v] \in Nat
      BY <1>1
    <3>2. v > 0 => sp[v] < d
      BY <1>0, <3>1, Zenon DEF SavedOK
    <3> QED BY <1>9, <3>1, <3>2
  <2>2. len = 0
    <3>1. len > 0 => len \in 1..len /\ at[len] \in Nat
      BY <1>1
    <3>2. len > 0 => at[len] >= 1
      BY <1>0, <3>1, Zenon DEF ListOK
    <3>3. len > 0 => at[len] <= d
      BY <1>0, <1>9, Zenon DEF LevelOK, Returning, Recording
    <3> QED BY <1>1, <1>9, <3>1, <3>2, <3>3
  <2>3. p \notin Hand
    BY <1>9, Zenon DEF Hand, Recording
  <2>4. 1..len = {} /\ 1..v = {}
    BY <2>1, <2>2
  <2> QED BY <1>0, <2>3, <2>4, Zenon DEF OwnOK
<1>10. p = "user" /\ d > 0 /\ S[d] # SIG => H[d] \in Sites
  <2>1. d > 0 => d \in 1..d
    OBVIOUS
  <2> QED BY <1>0, <2>1, Zenon DEF StackOK
<1>11. p \in Holding => r.c \in Ids /\ O[r.c] = t
  BY <1>2, <1>3, <1>4, <1>5, Zenon DEF Holding
<1> QED BY <1>2, <1>3, <1>6, <1>7, <1>8, <1>9, <1>10, <1>11, Zenon DEF Consequent
=============================================================================
