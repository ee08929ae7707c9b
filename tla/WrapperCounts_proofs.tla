------------------------ MODULE WrapperCounts_proofs ------------------------
(***************************************************************************)
(* Proof that Wrapper records every profiled call, for every number of     *)
(* threads, calls and signals: the calls that have begun are counted       *)
(* against those that updateStat has recorded and those that stand         *)
(* somewhere between preProfile and postProfile.                           *)
(***************************************************************************)
EXTENDS Wrapper_proofs, FiniteSetTheorems

-----------------------------------------------------------------------------
(* The calls that are not recorded yet *)

\* Position q of a thread's code is at P[q] with registers R[q].  From the
\* mapping of a context to its record the context stands for a call.
InHand == Hand \cup {"fill"}
Unsettled == {"link", "fill", "unlock", "unmap"}

\* F[c] is the function whose call context c stands for.  It is in functionPtr
\* except while preProfile is about to store it and after updateStat.
Booked(Pos, P, R, X, M, F) ==
    /\ F \in [Ids -> Fns \cup {NULL}]
    /\ \A q \in Pos : P[q] \in {"link", "fill"} => F[R[q].c] = R[q].fn
    /\ \A q \in Pos : P[q] \in {"unlock", "unmap"} => F[R[q].c] = NULL
    /\ \A c \in M : \/ F[c] = X[c].functionPtr /\ F[c] \in Fns
                    \/ \E q \in Pos : P[q] \in Unsettled /\ R[q].c = c
    /\ \A c \in Ids \ M : F[c] = NULL

Calling(Pos, P, R, f) == {q \in Pos : P[q] = "map" /\ R[q].fn = f}
Standing(F, f) == {c \in Ids : F[c] = f}

\* Of the B[f] calls of f, N[f] are recorded and the others stand somewhere.
Balanced(Pos, P, R, F, B, N) ==
    /\ B \in [Fns -> Nat] /\ N \in [Fns -> Nat]
    /\ \A f \in Fns :
         /\ IsFiniteSet(Calling(Pos, P, R, f)) /\ IsFiniteSet(Standing(F, f))
         /\ B[f] = N[f] + (Cardinality(Calling(Pos, P, R, f)) + Cardinality(Standing(F, f)))

\* Code at different positions has different contexts in hand.
HeldOnce(Pos, P, R, M) ==
    /\ \A q \in Pos : P[q] \in InHand => R[q].c \in M
    /\ \A q, s \in Pos : P[q] \in InHand /\ P[s] \in InHand /\ q # s => R[q].c # R[s].c

\* Code at position q moves to p with registers r, and no other code moves.
Moved(Pos, P, R, P2, R2, q, p, r) ==
    /\ q \in Pos /\ P2[q] = p /\ R2[q] = r
    /\ \A s \in Pos : s # q => P2[s] = P[s] /\ (P[s] # "user" => R2[s] = R[s])

\* Only the context at c is written.
OnlyAt(c, X, X2) == \A b \in Ids : b # c => X2[b] = X[b]

\* A set with one element more.
LEMMA OneMore ==
    ASSUME NEW S, NEW T, NEW x, IsFiniteSet(S), x \notin S, T = S \cup {x}
    PROVE  IsFiniteSet(T) /\ Cardinality(S) \in Nat /\ Cardinality(T) = Cardinality(S) + 1
BY FS_AddElement, FS_CardinalityType

\* A set with one element less.
LEMMA OneLess ==
    ASSUME NEW S, NEW T, NEW x, IsFiniteSet(S), x \in S, T = S \ {x}
    PROVE  IsFiniteSet(T) /\ Cardinality(S) \in Nat /\ Cardinality(T) = Cardinality(S) - 1
BY FS_RemoveElement, FS_CardinalityType

\* A step keeps the books that does not touch them.
LEMMA PlainKeeps ==
    ASSUME NEW Pos, NEW P, NEW R, NEW P2, NEW R2, NEW q, NEW p, NEW r,
           NEW X, NEW M, NEW F, NEW B, NEW N,
           Booked(Pos, P, R, X, M, F), Balanced(Pos, P, R, F, B, N),
           Moved(Pos, P, R, P2, R2, q, p, r),
           p = P[q] \/ (p = "fill" /\ P[q] = "link") \/ (p = "unmap" /\ P[q] = "unlock")
             \/ {p, P[q]} \cap (Unsettled \cup {"map"}) = {},
           p \in Unsettled \cup {"map"} => r = R[q]
    PROVE  Booked(Pos, P2, R2, X, M, F) /\ Balanced(Pos, P2, R2, F, B, N)
<1>1. ASSUME NEW s \in Pos
      PROVE  /\ P2[s] \in {"link", "fill"} => P[s] \in {"link", "fill"} /\ R2[s] = R[s]
             /\ P2[s] \in {"unlock", "unmap"} => P[s] \in {"unlock", "unmap"} /\ R2[s] = R[s]
             /\ P[s] \in Unsettled => P2[s] \in Unsettled /\ R2[s] = R[s]
             /\ P[s] = "map" <=> P2[s] = "map"
             /\ P[s] = "map" => R2[s] = R[s]
  <2>1. CASE s = q
    BY <2>1, Zenon DEF Moved, Unsettled
  <2>2. CASE s # q
    BY <2>2, Zenon DEF Moved, Unsettled
  <2> QED BY <2>1, <2>2, Zenon
<1>2. Booked(Pos, P2, R2, X, M, F)
  <2>1. ASSUME NEW s \in Pos, P2[s] \in {"link", "fill"} PROVE F[R2[s].c] = R2[s].fn
    <3>1. P[s] \in {"link", "fill"} /\ R2[s] = R[s]
      BY <1>1, <2>1, Zenon
    <3> QED BY <3>1, Zenon DEF Booked
  <2>2. ASSUME NEW s \in Pos, P2[s] \in {"unlock", "unmap"} PROVE F[R2[s].c] = NULL
    <3>1. P[s] \in {"unlock", "unmap"} /\ R2[s] = R[s]
      BY <1>1, <2>2, Zenon
    <3> QED BY <3>1, Zenon DEF Booked
  <2>3. ASSUME NEW c, NEW s \in Pos, P[s] \in Unsettled /\ R[s].c = c
        PROVE  P2[s] \in Unsettled /\ R2[s].c = c
    BY <1>1, <2>3, Zenon
  <2> QED BY <2>1, <2>2, <2>3, Zenon DEF Booked
<1>3. ASSUME NEW f \in Fns PROVE Calling(Pos, P2, R2, f) = Calling(Pos, P, R, f)
  BY <1>1, Zenon DEF Calling
<1> QED BY <1>2, <1>3, Zenon DEF Balanced

\* A redirected call has begun.
LEMMA BeginKeeps ==
    ASSUME NEW Pos, NEW P, NEW R, NEW P2, NEW R2, NEW q, NEW r, NEW f \in Fns,
           NEW X, NEW M, NEW F, NEW B, NEW N,
           Booked(Pos, P, R, X, M, F), Balanced(Pos, P, R, F, B, N),
           P[q] = "user", r.fn = f, Moved(Pos, P, R, P2, R2, q, "map", r)
    PROVE  /\ Booked(Pos, P2, R2, X, M, F)
           /\ Balanced(Pos, P2, R2, F, [B EXCEPT ![f] = @ + 1], N)
<1>1. ASSUME NEW s \in Pos
      PROVE  /\ P2[s] \in Unsettled <=> P[s] \in Unsettled
             /\ P[s] \in Unsettled => P2[s] = P[s] /\ R2[s] = R[s]
             /\ s # q => (P[s] = "map" <=> P2[s] = "map") /\ (P[s] = "map" => R2[s] = R[s])
  <2>1. CASE s = q
    BY <2>1, Zenon DEF Moved, Unsettled
  <2>2. CASE s # q
    BY <2>2, Zenon DEF Moved, Unsettled
  <2> QED BY <2>1, <2>2, Zenon
<1>2. Booked(Pos, P2, R2, X, M, F)
  <2>1. ASSUME NEW s \in Pos, P2[s] \in {"link", "fill"} PROVE F[R2[s].c] = R2[s].fn
    <3>1. P[s] \in {"link", "fill"} /\ R2[s] = R[s]
      BY <1>1, <2>1, Zenon DEF Unsettled
    <3> QED BY <3>1, Zenon DEF Booked
  <2>2. ASSUME NEW s \in Pos, P2[s] \in {"unlock", "unmap"} PROVE F[R2[s].c] = NULL
    <3>1. P[s] \in {"unlock", "unmap"} /\ R2[s] = R[s]
      BY <1>1, <2>2, Zenon DEF Unsettled
    <3> QED BY <3>1, Zenon DEF Booked
  <2>3. ASSUME NEW c, NEW s \in Pos, P[s] \in Unsettled /\ R[s].c = c
        PROVE  P2[s] \in Unsettled /\ R2[s].c = c
    BY <1>1, <2>3, Zenon
  <2> QED BY <2>1, <2>2, <2>3, Zenon DEF Booked
<1>3. q \in Pos /\ P2[q] = "map" /\ R2[q].fn = f
  BY Zenon DEF Moved
<1>4. ASSUME NEW g \in Fns, g # f PROVE Calling(Pos, P2, R2, g) = Calling(Pos, P, R, g)
  BY <1>1, <1>3, <1>4, Zenon DEF Calling
<1>5. Calling(Pos, P2, R2, f) = Calling(Pos, P, R, f) \cup {q} /\ q \notin Calling(Pos, P, R, f)
  BY <1>1, <1>3, Zenon DEF Calling
<1>6. /\ B \in [Fns -> Nat] /\ N \in [Fns -> Nat]
      /\ IsFiniteSet(Calling(Pos, P, R, f)) /\ IsFiniteSet(Standing(F, f))
      /\ B[f] = N[f] + (Cardinality(Calling(Pos, P, R, f)) + Cardinality(Standing(F, f)))
  BY Zenon DEF Balanced
<1>7. /\ IsFiniteSet(Calling(Pos, P2, R2, f))
      /\ Cardinality(Calling(Pos, P2, R2, f)) = Cardinality(Calling(Pos, P, R, f)) + 1
  BY <1>5, <1>6, OneMore, Zenon
<1>8. Cardinality(Calling(Pos, P, R, f)) \in Nat /\ Cardinality(Standing(F, f)) \in Nat
  BY <1>6, FS_CardinalityType, Zenon
<1>9. B[f] + 1 = N[f] + (Cardinality(Calling(Pos, P2, R2, f)) + Cardinality(Standing(F, f)))
  BY <1>6, <1>7, <1>8
<1>10. [B EXCEPT ![f] = @ + 1] \in [Fns -> Nat]
  BY <1>6
<1> QED BY <1>2, <1>4, <1>6, <1>7, <1>9, <1>10, Zenon DEF Balanced

\* The call has its context.
LEMMA MapKeepsBooks ==
    ASSUME NEW Pos, NEW P, NEW R, NEW P2, NEW R2, NEW q, NEW r, NEW c \in Ids,
           NEW X, NEW X2, NEW M \in SUBSET Ids, NEW F, NEW B, NEW N,
           Booked(Pos, P, R, X, M, F), Balanced(Pos, P, R, F, B, N), HeldOnce(Pos, P, R, M),
           c \notin M, OnlyAt(c, X, X2), NULL \notin Fns,
           P[q] = "map", r.fn = R[q].fn, r.fn \in Fns, r.c = c,
           Moved(Pos, P, R, P2, R2, q, "link", r)
    PROVE  /\ Booked(Pos, P2, R2, X2, M \cup {c}, [F EXCEPT ![c] = r.fn])
           /\ Balanced(Pos, P2, R2, [F EXCEPT ![c] = r.fn], B, N)
<1> DEFINE f == r.fn
           F2 == [F EXCEPT ![c] = f]
<1>1. /\ F \in [Ids -> Fns \cup {NULL}] /\ F[c] = NULL /\ q \in Pos
      /\ P2[q] = "link" /\ R2[q] = r
  BY Zenon DEF Booked, Moved
<1>2. F2 \in [Ids -> Fns \cup {NULL}] /\ F2[c] = f /\ \A b \in Ids : b # c => F2[b] = F[b]
  BY <1>1, Zenon
<1> HIDE DEF F2
<1>3. ASSUME NEW s \in Pos, s # q
      PROVE  /\ P2[s] = P[s]
             /\ P[s] # "user" => R2[s] = R[s]
             /\ P[s] \in Unsettled => R[s].c \in M
  BY <1>3, Zenon DEF Moved, HeldOnce, InHand, Hand, Recording, Unsettled
<1>4. Booked(Pos, P2, R2, X2, M \cup {c}, F2)
  <2>1. ASSUME NEW s \in Pos, P2[s] \in {"link", "fill"} PROVE F2[R2[s].c] = R2[s].fn
    <3>1. CASE s = q
      BY <1>1, <1>2, <2>1, <3>1, Zenon
    <3>2. CASE s # q
      <4>1. P[s] \in {"link", "fill"} /\ R2[s] = R[s] /\ R[s].c \in M
        BY <1>3, <2>1, <3>2, Zenon DEF Unsettled
      <4>2. F[R[s].c] = R[s].fn
        BY <4>1, Zenon DEF Booked
      <4> QED BY <1>2, <4>1, <4>2, Zenon
    <3> QED BY <3>1, <3>2, Zenon
  <2>2. ASSUME NEW s \in Pos, P2[s] \in {"unlock", "unmap"} PROVE F2[R2[s].c] = NULL
    <3>1. CASE s = q
      BY <1>1, <1>2, <2>2, <3>1, Zenon
    <3>2. CASE s # q
      <4>1. P[s] \in {"unlock", "unmap"} /\ R2[s] = R[s] /\ R[s].c \in M
        BY <1>3, <2>2, <3>2, Zenon DEF Unsettled
      <4>2. F[R[s].c] = NULL
        BY <4>1, Zenon DEF Booked
      <4> QED BY <1>2, <4>1, <4>2, Zenon
    <3> QED BY <3>1, <3>2, Zenon
  <2>3. ASSUME NEW b \in M \cup {c}
        PROVE  \/ F2[b] = X2[b].functionPtr /\ F2[b] \in Fns
               \/ \E s \in Pos : P2[s] \in Unsettled /\ R2[s].c = b
    <3>1. CASE b = c
      BY <1>1, <3>1, Zenon DEF Unsettled
    <3>2. CASE b # c /\ F[b] = X[b].functionPtr /\ F[b] \in Fns
      BY <1>2, <2>3, <3>2, Zenon DEF OnlyAt
    <3>3. ASSUME b # c, NEW s \in Pos, P[s] \in Unsettled, R[s].c = b
          PROVE  P2[s] \in Unsettled /\ R2[s].c = b
      <4>1. s # q
        BY <3>3, Zenon DEF Unsettled
      <4> QED BY <1>3, <3>3, <4>1, Zenon DEF Unsettled
    <3> QED BY <2>3, <3>1, <3>2, <3>3, Zenon DEF Booked
  <2>4. ASSUME NEW b \in Ids \ (M \cup {c}) PROVE F2[b] = NULL
    BY <1>2, <2>4, Zenon DEF Booked
  <2> QED BY <1>2, <2>1, <2>2, <2>3, <2>4, Zenon DEF Booked
<1>5. ASSUME NEW g \in Fns, g # f
      PROVE  Calling(Pos, P2, R2, g) = Calling(Pos, P, R, g) /\ Standing(F2, g) = Standing(F, g)
  <2>1. ASSUME NEW s \in Pos PROVE s \in Calling(Pos, P2, R2, g) <=> s \in Calling(Pos, P, R, g)
    <3>1. CASE s = q
      BY <1>1, <1>5, <3>1, Zenon DEF Calling
    <3>2. CASE s # q
      BY <1>3, <3>2, Zenon DEF Calling
    <3> QED BY <3>1, <3>2, Zenon
  <2>2. Calling(Pos, P2, R2, g) = Calling(Pos, P, R, g)
    BY <2>1, Zenon DEF Calling
  <2> QED BY <1>1, <1>2, <1>5, <2>2, Zenon DEF Standing
<1>6. /\ Calling(Pos, P2, R2, f) = Calling(Pos, P, R, f) \ {q} /\ q \in Calling(Pos, P, R, f)
      /\ Standing(F2, f) = Standing(F, f) \cup {c} /\ c \notin Standing(F, f)
  <2>1. q \in Calling(Pos, P, R, f) /\ q \notin Calling(Pos, P2, R2, f)
    BY <1>1, Zenon DEF Calling
  <2>2. ASSUME NEW s \in Pos, s # q
        PROVE  s \in Calling(Pos, P2, R2, f) <=> s \in Calling(Pos, P, R, f)
    BY <1>3, <2>2, Zenon DEF Calling
  <2>3. Calling(Pos, P2, R2, f) = Calling(Pos, P, R, f) \ {q}
    BY <2>1, <2>2, Zenon DEF Calling
  <2>4. c \notin Standing(F, f) /\ c \in Standing(F2, f)
    BY <1>1, <1>2, Zenon DEF Standing
  <2>5. ASSUME NEW b \in Ids, b # c PROVE b \in Standing(F2, f) <=> b \in Standing(F, f)
    BY <1>2, <2>5, Zenon DEF Standing
  <2>6. Standing(F2, f) = Standing(F, f) \cup {c}
    BY <2>4, <2>5, Zenon DEF Standing
  <2> QED BY <2>1, <2>3, <2>4, <2>6, Zenon
<1>7. /\ B \in [Fns -> Nat] /\ N \in [Fns -> Nat]
      /\ IsFiniteSet(Calling(Pos, P, R, f)) /\ IsFiniteSet(Standing(F, f))
      /\ B[f] = N[f] + (Cardinality(Calling(Pos, P, R, f)) + Cardinality(Standing(F, f)))
  BY Zenon DEF Balanced
<1>8. /\ IsFiniteSet(Calling(Pos, P2, R2, f)) /\ IsFiniteSet(Standing(F2, f))
      /\ Cardinality(Calling(Pos, P2, R2, f)) = Cardinality(Calling(Pos, P, R, f)) - 1
      /\ Cardinality(Standing(F2, f)) = Cardinality(Standing(F, f)) + 1
  <2>1. /\ IsFiniteSet(Calling(Pos, P2, R2, f))
        /\ Cardinality(Calling(Pos, P2, R2, f)) = Cardinality(Calling(Pos, P, R, f)) - 1
    <3>1. IsFiniteSet(Calling(Pos, P, R, f)) /\ q \in Calling(Pos, P, R, f)
      BY <1>6, <1>7, Zenon
    <3>2. Calling(Pos, P2, R2, f) = Calling(Pos, P, R, f) \ {q}
      BY <1>6, Zenon
    <3> QED BY <3>1, <3>2, OneLess, Zenon
  <2>2. /\ IsFiniteSet(Standing(F2, f))
        /\ Cardinality(Standing(F2, f)) = Cardinality(Standing(F, f)) + 1
    BY <1>6, <1>7, OneMore, Zenon
  <2> QED BY <2>1, <2>2, Zenon
<1>9. Cardinality(Calling(Pos, P, R, f)) \in Nat /\ Cardinality(Standing(F, f)) \in Nat
  BY <1>7, FS_CardinalityType, Zenon
<1>10. B[f] = N[f] + (Cardinality(Calling(Pos, P2, R2, f)) + Cardinality(Standing(F2, f)))
  BY <1>7, <1>8, <1>9
<1>11. Balanced(Pos, P2, R2, F2, B, N)
  BY <1>5, <1>7, <1>8, <1>10, Zenon DEF Balanced
<1> QED BY <1>4, <1>11, Zenon DEF F2

\* The context has the function.
LEMMA FillKeepsBooks ==
    ASSUME NEW Pos, NEW P, NEW R, NEW P2, NEW R2, NEW q, NEW c \in Ids,
           NEW X, NEW X2, NEW M \in SUBSET Ids, NEW F, NEW B, NEW N,
           Booked(Pos, P, R, X, M, F), Balanced(Pos, P, R, F, B, N), HeldOnce(Pos, P, R, M),
           P[q] = "fill", R[q].c = c, R[q].fn \in Fns, X2[c].functionPtr = R[q].fn,
           OnlyAt(c, X, X2), Moved(Pos, P, R, P2, R2, q, "swap", R[q])
    PROVE  Booked(Pos, P2, R2, X2, M, F) /\ Balanced(Pos, P2, R2, F, B, N)
<1>1. F[c] = X2[c].functionPtr /\ F[c] \in Fns
  BY Zenon DEF Booked, Moved
<1>2. ASSUME NEW s \in Pos
      PROVE  /\ P2[s] \in Unsettled => P[s] = P2[s] /\ R2[s] = R[s]
             /\ P[s] \in Unsettled => s = q \/ (P2[s] = P[s] /\ R2[s] = R[s])
             /\ P[s] = "map" <=> P2[s] = "map"
             /\ P[s] = "map" => R2[s] = R[s]
  <2>1. CASE s = q
    BY <2>1, Zenon DEF Moved, Unsettled
  <2>2. CASE s # q
    BY <2>2, Zenon DEF Moved, Unsettled
  <2> QED BY <2>1, <2>2, Zenon
<1>3. Booked(Pos, P2, R2, X2, M, F)
  <2>1. ASSUME NEW s \in Pos, P2[s] \in {"link", "fill"} PROVE F[R2[s].c] = R2[s].fn
    <3>1. P[s] \in {"link", "fill"} /\ R2[s] = R[s]
      BY <1>2, <2>1, Zenon DEF Unsettled
    <3> QED BY <3>1, Zenon DEF Booked
  <2>2. ASSUME NEW s \in Pos, P2[s] \in {"unlock", "unmap"} PROVE F[R2[s].c] = NULL
    <3>1. P[s] \in {"unlock", "unmap"} /\ R2[s] = R[s]
      BY <1>2, <2>2, Zenon DEF Unsettled
    <3> QED BY <3>1, Zenon DEF Booked
  <2>3. ASSUME NEW b \in M
        PROVE  \/ F[b] = X2[b].functionPtr /\ F[b] \in Fns
               \/ \E s \in Pos : P2[s] \in Unsettled /\ R2[s].c = b
    <3>1. CASE b = c
      BY <1>1, <3>1, Zenon
    <3>2. CASE b # c /\ F[b] = X[b].functionPtr /\ F[b] \in Fns
      BY <2>3, <3>2, Zenon DEF OnlyAt
    <3>3. ASSUME b # c, NEW s \in Pos, P[s] \in Unsettled, R[s].c = b
          PROVE  P2[s] \in Unsettled /\ R2[s].c = b
      BY <1>2, <3>3, Zenon
    <3> QED BY <3>1, <3>2, <3>3, Zenon DEF Booked
  <2> QED BY <2>1, <2>2, <2>3, Zenon DEF Booked
<1>4. ASSUME NEW f \in Fns PROVE Calling(Pos, P2, R2, f) = Calling(Pos, P, R, f)
  BY <1>2, Zenon DEF Calling
<1> QED BY <1>3, <1>4, Zenon DEF Balanced

\* The call is in the statistics of its function.
LEMMA RecordKeepsBooks ==
    ASSUME NEW Pos, NEW P, NEW R, NEW P2, NEW R2, NEW q, NEW c \in Ids,
           NEW X, NEW M \in SUBSET Ids, NEW F, NEW B, NEW N,
           Booked(Pos, P, R, X, M, F), Balanced(Pos, P, R, F, B, N), HeldOnce(Pos, P, R, M),
           NULL \notin Fns, P[q] = "record", R[q].c = c,
           Moved(Pos, P, R, P2, R2, q, "unlock", R[q])
    PROVE  /\ X[c].functionPtr \in Fns
           /\ Booked(Pos, P2, R2, X, M, [F EXCEPT ![c] = NULL])
           /\ Balanced(Pos, P2, R2, [F EXCEPT ![c] = NULL], B,
                       [N EXCEPT ![X[c].functionPtr] = @ + 1])
<1> DEFINE f == X[c].functionPtr
           F2 == [F EXCEPT ![c] = NULL]
           N2 == [N EXCEPT ![f] = @ + 1]
<1>1. /\ F \in [Ids -> Fns \cup {NULL}] /\ q \in Pos /\ P2[q] = "unlock" /\ R2[q] = R[q]
      /\ c \in M
  BY Zenon DEF Booked, Moved, HeldOnce, InHand, Hand, Recording
<1>2. ASSUME NEW s \in Pos, P[s] \in Unsettled PROVE s # q /\ R[s].c # c
  BY <1>1, <1>2, Zenon DEF Unsettled, HeldOnce, InHand, Hand, Recording
<1>3. F[c] = f /\ f \in Fns
  BY <1>1, <1>2, Zenon DEF Booked
<1>4. F2 \in [Ids -> Fns \cup {NULL}] /\ F2[c] = NULL /\ \A b \in Ids : b # c => F2[b] = F[b]
  BY <1>1, Zenon
<1> HIDE DEF F2
<1>5. ASSUME NEW s \in Pos
      PROVE  /\ P2[s] \in {"link", "fill"} => P[s] = P2[s] /\ R2[s] = R[s]
             /\ P2[s] \in Unsettled => s = q \/ (P[s] = P2[s] /\ R2[s] = R[s])
             /\ P[s] \in Unsettled => P2[s] = P[s] /\ R2[s] = R[s]
             /\ P[s] = "map" <=> P2[s] = "map"
             /\ P[s] = "map" => R2[s] = R[s]
  <2>1. CASE s = q
    BY <2>1, Zenon DEF Moved, Unsettled
  <2>2. CASE s # q
    BY <2>2, Zenon DEF Moved, Unsettled
  <2> QED BY <2>1, <2>2, Zenon
<1>6. ASSUME NEW s \in Pos, P[s] \in Unsettled PROVE F2[R[s].c] = F[R[s].c]
  <2>1. R[s].c \in Ids /\ R[s].c # c
    BY <1>2, <1>6, Zenon DEF HeldOnce, InHand, Hand, Recording, Unsettled
  <2> QED BY <1>4, <2>1, Zenon
<1>7. Booked(Pos, P2, R2, X, M, F2)
  <2>1. ASSUME NEW s \in Pos, P2[s] \in {"link", "fill"} PROVE F2[R2[s].c] = R2[s].fn
    <3>1. P[s] \in {"link", "fill"} /\ R2[s] = R[s] /\ F2[R[s].c] = F[R[s].c]
      BY <1>5, <1>6, <2>1, Zenon DEF Unsettled
    <3> QED BY <3>1, Zenon DEF Booked
  <2>2. ASSUME NEW s \in Pos, P2[s] \in {"unlock", "unmap"} PROVE F2[R2[s].c] = NULL
    <3>1. CASE s = q
      BY <1>1, <1>4, <3>1, Zenon
    <3>2. CASE s # q
      <4>1. P[s] \in {"unlock", "unmap"} /\ R2[s] = R[s] /\ F2[R[s].c] = F[R[s].c]
        BY <1>5, <1>6, <2>2, <3>2, Zenon DEF Unsettled
      <4> QED BY <4>1, Zenon DEF Booked
    <3> QED BY <3>1, <3>2, Zenon
  <2>3. ASSUME NEW b \in M
        PROVE  \/ F2[b] = X[b].functionPtr /\ F2[b] \in Fns
               \/ \E s \in Pos : P2[s] \in Unsettled /\ R2[s].c = b
    <3>1. CASE b = c
      BY <1>1, <3>1, Zenon DEF Unsettled
    <3>2. CASE b # c /\ F[b] = X[b].functionPtr /\ F[b] \in Fns
      BY <1>4, <3>2, Zenon
    <3>3. ASSUME b # c, NEW s \in Pos, P[s] \in Unsettled, R[s].c = b
          PROVE  P2[s] \in Unsettled /\ R2[s].c = b
      BY <1>5, <3>3, Zenon
    <3> QED BY <3>1, <3>2, <3>3, Zenon DEF Booked
  <2>4. ASSUME NEW b \in Ids \ M PROVE F2[b] = NULL
    BY <1>1, <1>4, <2>4, Zenon DEF Booked
  <2> QED BY <1>4, <2>1, <2>2, <2>3, <2>4, Zenon DEF Booked
<1>8. ASSUME NEW g \in Fns PROVE Calling(Pos, P2, R2, g) = Calling(Pos, P, R, g)
  BY <1>5, Zenon DEF Calling
<1>9. ASSUME NEW g \in Fns, g # f PROVE Standing(F2, g) = Standing(F, g)
  <2>1. ASSUME NEW b \in Ids PROVE F2[b] = g <=> F[b] = g
    BY <1>3, <1>4, <1>9, Zenon
  <2> QED BY <2>1, Zenon DEF Standing
<1>10. Standing(F2, f) = Standing(F, f) \ {c} /\ c \in Standing(F, f)
  <2>1. ASSUME NEW b \in Ids PROVE F2[b] = f <=> F[b] = f /\ b # c
    BY <1>3, <1>4, Zenon
  <2>2. Standing(F2, f) = Standing(F, f) \ {c}
    BY <2>1, Zenon DEF Standing
  <2> QED BY <1>3, <2>2, Zenon DEF Standing
<1>11. /\ B \in [Fns -> Nat] /\ N \in [Fns -> Nat] /\ IsFiniteSet(Calling(Pos, P, R, f))
       /\ IsFiniteSet(Standing(F, f)) /\ Cardinality(Calling(Pos, P, R, f)) \in Nat
       /\ B[f] = N[f] + (Cardinality(Calling(Pos, P, R, f)) + Cardinality(Standing(F, f)))
  BY <1>3, FS_CardinalityType, Zenon DEF Balanced
<1>12. /\ IsFiniteSet(Standing(F2, f)) /\ Cardinality(Standing(F, f)) \in Nat
       /\ Cardinality(Standing(F2, f)) = Cardinality(Standing(F, f)) - 1
  BY <1>10, <1>11, OneLess, Zenon
<1>13. B[f] = (N[f] + 1) + (Cardinality(Calling(Pos, P, R, f)) + Cardinality(Standing(F2, f)))
  BY <1>3, <1>11, <1>12
<1>14. /\ N2 \in [Fns -> Nat] /\ N2[f] = N[f] + 1
       /\ \A g \in Fns : g # f => N2[g] = N[g]
  BY <1>3, <1>11
<1> HIDE DEF N2
<1>15. Balanced(Pos, P2, R2, F2, B, N2)
  <2>1. ASSUME NEW g \in Fns
        PROVE  /\ IsFiniteSet(Calling(Pos, P2, R2, g)) /\ IsFiniteSet(Standing(F2, g))
               /\ B[g] = N2[g] + (Cardinality(Calling(Pos, P2, R2, g))
                                  + Cardinality(Standing(F2, g)))
    <3>1. CASE g = f
      BY <1>8, <1>11, <1>12, <1>13, <1>14, <3>1, Zenon
    <3>2. CASE g # f
      BY <1>8, <1>9, <1>14, <3>2, Zenon DEF Balanced
    <3> QED BY <3>1, <3>2, Zenon
  <2> QED BY <1>11, <1>14, <2>1, Zenon DEF Balanced
<1> QED BY <1>3, <1>7, <1>15, Zenon DEF F2, N2

\* The context of the recorded call is gone.
LEMMA UnmapKeepsBooks ==
    ASSUME NEW Pos, NEW P, NEW R, NEW P2, NEW R2, NEW q, NEW r, NEW c \in Ids,
           NEW X, NEW M \in SUBSET Ids, NEW F, NEW B, NEW N,
           Booked(Pos, P, R, X, M, F), Balanced(Pos, P, R, F, B, N),
           P[q] = "unmap", R[q].c = c, Moved(Pos, P, R, P2, R2, q, "resume", r)
    PROVE  Booked(Pos, P2, R2, X, M \ {c}, F) /\ Balanced(Pos, P2, R2, F, B, N)
<1>1. F[c] = NULL
  BY Zenon DEF Booked, Moved
<1>2. ASSUME NEW s \in Pos
      PROVE  /\ P2[s] \in Unsettled => P[s] = P2[s] /\ R2[s] = R[s]
             /\ P[s] \in Unsettled => s = q \/ (P2[s] = P[s] /\ R2[s] = R[s])
             /\ P[s] = "map" <=> P2[s] = "map"
             /\ P[s] = "map" => R2[s] = R[s]
  <2>1. CASE s = q
    BY <2>1, Zenon DEF Moved, Unsettled
  <2>2. CASE s # q
    BY <2>2, Zenon DEF Moved, Unsettled
  <2> QED BY <2>1, <2>2, Zenon
<1>3. Booked(Pos, P2, R2, X, M \ {c}, F)
  <2>1. ASSUME NEW s \in Pos, P2[s] \in {"link", "fill"} PROVE F[R2[s].c] = R2[s].fn
    <3>1. P[s] \in {"link", "fill"} /\ R2[s] = R[s]
      BY <1>2, <2>1, Zenon DEF Unsettled
    <3> QED BY <3>1, Zenon DEF Booked
  <2>2. ASSUME NEW s \in Pos, P2[s] \in {"unlock", "unmap"} PROVE F[R2[s].c] = NULL
    <3>1. P[s] \in {"unlock", "unmap"} /\ R2[s] = R[s]
      BY <1>2, <2>2, Zenon DEF Unsettled
    <3> QED BY <3>1, Zenon DEF Booked
  <2>3. ASSUME NEW b \in M \ {c}, NEW s \in Pos, P[s] \in Unsettled, R[s].c = b
        PROVE  P2[s] \in Unsettled /\ R2[s].c = b
    BY <1>2, <2>3, Zenon
  <2>4. ASSUME NEW b \in Ids \ (M \ {c}) PROVE F[b] = NULL
    BY <1>1, <2>4, Zenon DEF Booked
  <2> QED BY <2>1, <2>2, <2>3, <2>4, Zenon DEF Booked
<1>4. ASSUME NEW f \in Fns PROVE Calling(Pos, P2, R2, f) = Calling(Pos, P, R, f)
  BY <1>2, Zenon DEF Calling
<1> QED BY <1>3, <1>4, Zenon DEF Balanced

\* A thread without return slots is in no handler.
LEMMA EmptyStack ==
    ASSUME NEW t, NEW O, NEW X, NEW S, NEW H, NEW d \in Nat,
           NEW V, NEW v \in Nat, NEW p, NEW r, NEW top,
           Threaded(t, O, X, S, H, d, V, v, p, r, top), d = 0
    PROVE  v = 0
<1> PICK len, el, at, pl, sp, m, place :
      ThreadOK(t, O, X, S, H, d, V, v, p, r, top, len, el, at, pl, sp, m, place)
  BY Zenon DEF Threaded
<1>1. SavedOK(X, S, d, V, v, len, el, at, pl, sp, m) /\ sp \in [Nat -> Nat]
  BY Zenon DEF ThreadOK, Ghosts
<1>2. v > 0 => v \in 1..v /\ sp[v] \in Nat
  BY <1>1
<1>3. v > 0 => sp[v] < d
  BY <1>1, <1>2, Zenon DEF SavedOK
<1> QED BY <1>2, <1>3

\* Code that is about to make a context knows the function.
LEMMA EntersWithFunction ==
    ASSUME NEW t, NEW O, NEW X, NEW S, NEW H, NEW d \in Nat,
           NEW V, NEW v \in Nat, NEW p, NEW r, NEW top,
           Threaded(t, O, X, S, H, d, V, v, p, r, top), p \in Entering
    PROVE  r.fn \in Fns
<1>1. PICK len, el, at, pl, sp, m, place :
        ThreadOK(t, O, X, S, H, d, V, v, p, r, top, len, el, at, pl, sp, m, place)
  BY Zenon DEF Threaded
<1>2. LevelOK(X, S, p, r, d, len, el, at, pl)
  BY <1>1, Zenon DEF ThreadOK
<1> QED BY <1>2, Zenon DEF LevelOK

\* P[l] and R[l] are the code that the l-th handler of a thread interrupted,
\* and the code it runs for l = v + 1.
Levels(V, v, p, r, P, R) ==
    /\ \A l \in 1..v : P[l] = V[l].pc /\ R[l] = V[l].reg
    /\ P[v + 1] = p /\ R[v + 1] = r

\* What the levels have in hand is the thread's own, each its own context.
Apart(t, O, v, P, R) ==
    /\ \A l \in 1..(v + 1) : P[l] \in InHand => R[l].c \in Ids /\ O[R[l].c] = t
    /\ \A j, l \in 1..(v + 1) :
         P[j] \in InHand /\ P[l] \in InHand /\ j # l => R[j].c # R[l].c

\* The contexts in the hands of one thread are its own and different.
LEMMA ThreadHolds ==
    ASSUME NEW t, NEW O, NEW X, NEW S, NEW H, NEW d \in Nat,
           NEW V, NEW v \in Nat, NEW p, NEW r, NEW top, NEW P, NEW R,
           Threaded(t, O, X, S, H, d, V, v, p, r, top),
           Levels(V, v, p, r, P, R)
    PROVE  Apart(t, O, v, P, R)
<1>a. \A l \in 1..v : P[l] = V[l].pc /\ R[l] = V[l].reg
  BY Zenon DEF Levels
<1>b. P[v + 1] = p /\ R[v + 1] = r
  BY Zenon DEF Levels
<1> PICK len, el, at, pl, sp, m, place :
      ThreadOK(t, O, X, S, H, d, V, v, p, r, top, len, el, at, pl, sp, m, place)
  BY Zenon DEF Threaded
<1>0. /\ Ghosts(len, el, at, pl, sp, m, place)
      /\ ListOK(X, top, len, el, at, pl)
      /\ LevelOK(X, S, p, r, d, len, el, at, pl)
      /\ SavedOK(X, S, d, V, v, len, el, at, pl, sp, m)
      /\ OwnOK(t, O, V, v, p, r, len, el, place)
  BY Zenon DEF ThreadOK
<1>1. len \in Nat /\ at \in [Nat -> Nat] /\ sp \in [Nat -> Nat] /\ m \in [Nat -> Nat]
  BY <1>0, Zenon DEF Ghosts
<1> DEFINE slot(l) == IF l = v + 1 THEN d ELSE sp[l]
           num(l) == IF l = v + 1 THEN len ELSE m[l]
<1>2. ASSUME NEW l \in 1..(v + 1) PROVE l = v + 1 \/ (l \in 1..v /\ l # v + 1)
  OBVIOUS
<1>3. ASSUME NEW l \in 1..(v + 1), P[l] \in Hand
      PROVE  R[l].c \in Ids /\ O[R[l].c] = t /\ place[R[l].c] = 0 - l
  <2>1. CASE l = v + 1
    BY <1>0, <1>3, <1>b, <2>1, Zenon DEF OwnOK
  <2>2. CASE l \in 1..v
    <3>1. V[l].pc \in Hand /\ V[l].reg = R[l]
      BY <1>3, <1>a, <2>2, Zenon
    <3>2. V[l].reg.c \in Ids /\ O[V[l].reg.c] = t /\ place[V[l].reg.c] = 0 - l
      BY <1>0, <2>2, <3>1, Zenon DEF OwnOK
    <3> QED BY <3>1, <3>2, Zenon
  <2> QED BY <1>2, <2>1, <2>2, Zenon
<1>4. ASSUME NEW l \in 1..(v + 1), P[l] = "fill"
      PROVE  /\ num(l) \in 1..len /\ el[num(l)] = R[l].c /\ at[num(l)] = slot(l)
             /\ R[l].c \in Ids /\ O[R[l].c] = t /\ place[R[l].c] = num(l)
  <2>1. num(l) > 0 /\ el[num(l)] = R[l].c /\ at[num(l)] = slot(l) /\ num(l) \in Nat
    <3>1. CASE l = v + 1
      BY <1>0, <1>1, <1>4, <1>b, <3>1, Zenon DEF LevelOK, Linking
    <3>2. CASE l \in 1..v /\ l # v + 1
      <4>1. LevelOK(X, S, V[l].pc, V[l].reg, sp[l], m[l], el, at, pl) /\ m[l] \in Nat
        BY <1>0, <1>1, <3>2 DEF SavedOK
      <4>2. V[l].pc = "fill" /\ V[l].reg = R[l]
        BY <1>4, <1>a, <3>2, Zenon
      <4> QED BY <3>2, <4>1, <4>2, Zenon DEF LevelOK, Linking
    <3> QED BY <1>2, <3>1, <3>2, Zenon
  <2>2. num(l) <= len
    <3>1. CASE l = v + 1
      BY <1>1, <3>1
    <3>2. CASE l \in 1..v /\ l # v + 1
      BY <1>0, <3>2, Zenon DEF SavedOK
    <3> QED BY <1>2, <3>1, <3>2, Zenon
  <2> HIDE DEF num
  <2>3. num(l) \in 1..len
    BY <1>1, <2>1, <2>2
  <2> QED BY <1>0, <2>1, <2>3, Zenon DEF ListOK, OwnOK
<1>5. ASSUME NEW l \in 1..(v + 1), P[l] \in InHand PROVE R[l].c \in Ids /\ O[R[l].c] = t
  BY <1>3, <1>4, <1>5, Zenon DEF InHand
<1>6. ASSUME NEW j \in 1..(v + 1), NEW l \in 1..(v + 1), j < l PROVE slot(j) < slot(l)
  <2>1. j \in 1..v /\ j # v + 1
    BY <1>6
  <2>2. CASE l = v + 1
    BY <1>0, <2>1, <2>2, Zenon DEF SavedOK
  <2>3. CASE l \in 1..v /\ l # v + 1
    BY <1>0, <1>6, <2>1, <2>3, Zenon DEF SavedOK
  <2> QED BY <1>2, <2>2, <2>3, Zenon
<1>7. ASSUME NEW l \in 1..(v + 1) PROVE slot(l) \in Nat
  BY <1>1
<1> HIDE DEF slot, num
<1>8. ASSUME NEW j \in 1..(v + 1), NEW l \in 1..(v + 1), j # l, P[j] \in InHand, P[l] \in InHand
      PROVE  R[j].c # R[l].c
  <2>1. CASE P[j] \in Hand /\ P[l] \in Hand
    <3>1. 0 - j # 0 - l
      BY <1>8
    <3> QED BY <1>3, <2>1, <3>1, Zenon
  <2>2. CASE P[j] = "fill" /\ P[l] \in Hand
    <3>1. num(j) \in 1..len /\ place[R[j].c] = num(j) /\ place[R[l].c] = 0 - l
      BY <1>3, <1>4, <2>2, Zenon
    <3>2. num(j) # 0 - l
      BY <1>1, <3>1
    <3> QED BY <3>1, <3>2, Zenon
  <2>3. CASE P[j] \in Hand /\ P[l] = "fill"
    <3>1. num(l) \in 1..len /\ place[R[l].c] = num(l) /\ place[R[j].c] = 0 - j
      BY <1>3, <1>4, <2>3, Zenon
    <3>2. num(l) # 0 - j
      BY <1>1, <3>1
    <3> QED BY <3>1, <3>2, Zenon
  <2>4. CASE P[j] = "fill" /\ P[l] = "fill"
    <3>1. slot(j) # slot(l)
      BY <1>6, <1>7, <1>8
    <3>2. /\ at[num(j)] = slot(j) /\ place[R[j].c] = num(j)
          /\ at[num(l)] = slot(l) /\ place[R[l].c] = num(l)
      BY <1>4, <2>4, Zenon
    <3> QED BY <3>1, <3>2, Zenon
  <2> QED BY <1>8, <2>1, <2>2, <2>3, <2>4, Zenon DEF InHand
<1> QED BY <1>5, <1>8, Zenon DEF Apart

\* A signal frame on top of the stack belongs to a handler.
LEMMA InHandler ==
    ASSUME NEW t, NEW O, NEW X, NEW S, NEW H, NEW d \in Nat,
           NEW V, NEW v \in Nat, NEW p, NEW r, NEW top,
           Threaded(t, O, X, S, H, d, V, v, p, r, top), d > 0, S[d] = SIG
    PROVE  v > 0
<1>1. PICK len, el, at, pl, sp, m, place :
        ThreadOK(t, O, X, S, H, d, V, v, p, r, top, len, el, at, pl, sp, m, place)
  BY Zenon DEF Threaded
<1>2. SavedOK(X, S, d, V, v, len, el, at, pl, sp, m) /\ d \in 1..d
  BY <1>1 DEF ThreadOK
<1>3. PICK l \in 1..v : d = sp[l] + 1
  BY <1>2, Zenon DEF SavedOK
<1> QED BY <1>3

-----------------------------------------------------------------------------
(* Every call is recorded *)

\* The code of all threads, with what their handlers interrupted below it.
Pos == Threads \X Nat
Pcs == [q \in Pos |-> IF q[2] \in 1..Len(saved[q[1]]) THEN saved[q[1]][q[2]].pc
                      ELSE IF q[2] = Len(saved[q[1]]) + 1 THEN pc[q[1]] ELSE "user"]
Regs == [q \in Pos |-> IF q[2] \in 1..Len(saved[q[1]]) THEN saved[q[1]][q[2]].reg
                       ELSE reg[q[1]]]
Top(t) == <<t, Len(saved[t]) + 1>>

\* What Pcs and Regs hold for a handler's code, for the code a thread runs and
\* above it.
LEMMA Positions ==
    ASSUME NEW t \in Threads, NEW l \in Nat
    PROVE  /\ <<t, l>> \in Pos
           /\ l \in 1..Len(saved[t]) =>
                Pcs[<<t, l>>] = saved[t][l].pc /\ Regs[<<t, l>>] = saved[t][l].reg
           /\ l \notin 1..Len(saved[t]) /\ l = Len(saved[t]) + 1 =>
                Pcs[<<t, l>>] = pc[t] /\ Regs[<<t, l>>] = reg[t]
           /\ l \notin 1..Len(saved[t]) /\ l # Len(saved[t]) + 1 => Pcs[<<t, l>>] = "user"
BY DEF Pos, Pcs, Regs

\* A position is a thread and a level of its handlers.
LEMMA EveryPosition ==
    ASSUME NEW q \in Pos
    PROVE  \E t \in Threads, l \in Nat : q = <<t, l>>
BY DEF Pos

\* Different code has different contexts in hand.
LEMMA HeldApart == WrapperInv => HeldOnce(Pos, Pcs, Regs, mapped)
<1> SUFFICES ASSUME WrapperInv PROVE HeldOnce(Pos, Pcs, Regs, mapped)
  BY Zenon
<1>1. PICK O : Owned(O) /\ \A t \in Threads : At(t, O)
  BY Zenon DEF WrapperInv
<1>2. ASSUME NEW t \in Threads
      PROVE  /\ \A l \in Nat : Pcs[<<t, l>>] \in InHand =>
                  Regs[<<t, l>>].c \in Ids /\ O[Regs[<<t, l>>].c] = t
             /\ \A j, l \in Nat :
                  Pcs[<<t, j>>] \in InHand /\ Pcs[<<t, l>>] \in InHand /\ j # l =>
                  Regs[<<t, j>>].c # Regs[<<t, l>>].c
  <2> DEFINE v == Len(saved[t])
             P == [l \in Nat |-> Pcs[<<t, l>>]]
             R == [l \in Nat |-> Regs[<<t, l>>]]
  <2>1. v \in Nat /\ Len(stack[t]) \in Nat
    BY DEF WrapperInv, TypeOK
  <2>2. Threaded(t, O, ctx, stack[t], shadow[t], Len(stack[t]), saved[t], v,
                 pc[t], reg[t], s_wrappingContext[t])
    BY <1>1, Zenon DEF At
  <2> HIDE DEF v
  <2>3. \A l \in Nat : P[l] = Pcs[<<t, l>>] /\ R[l] = Regs[<<t, l>>]
    BY Zenon
  <2> HIDE DEF P, R
  <2>4. v + 1 \in Nat /\ v + 1 \notin 1..v /\ \A l \in 1..v : l \in Nat
    BY <2>1
  <2>5. ASSUME NEW l \in 1..v PROVE P[l] = saved[t][l].pc /\ R[l] = saved[t][l].reg
    <3>1. l \in Nat /\ l \in 1..Len(saved[t])
      BY <2>4, Zenon DEF v
    <3>2. Pcs[<<t, l>>] = saved[t][l].pc /\ Regs[<<t, l>>] = saved[t][l].reg
      BY <3>1, Positions, Zenon
    <3> QED BY <2>3, <3>1, <3>2, Zenon
  <2>6. P[v + 1] = pc[t] /\ R[v + 1] = reg[t]
    BY <2>3, <2>4, Positions, Zenon DEF v
  <2>7. Apart(t, O, v, P, R)
    <3>1. Levels(saved[t], v, pc[t], reg[t], P, R)
      BY <2>5, <2>6, Zenon DEF Levels
    <3> QED BY <2>1, <2>2, <3>1, ThreadHolds, Zenon
  <2>8. ASSUME NEW l \in Nat, P[l] \in InHand PROVE l \in 1..(v + 1)
    <3>1. P[l] # "user"
      BY <2>8, Zenon DEF InHand, Hand, Recording
    <3>2. l \in 1..v \/ l = v + 1
      BY <2>3, <3>1, Positions, Zenon DEF v
    <3> QED BY <2>1, <3>2
  <2>9. ASSUME NEW l \in Nat, Pcs[<<t, l>>] \in InHand
        PROVE  Regs[<<t, l>>].c \in Ids /\ O[Regs[<<t, l>>].c] = t
    <3>1. P[l] = Pcs[<<t, l>>] /\ R[l] = Regs[<<t, l>>]
      BY <2>3, Zenon
    <3> QED BY <2>7, <2>8, <2>9, <3>1, Zenon DEF Apart
  <2>10. ASSUME NEW j \in Nat, NEW l \in Nat, Pcs[<<t, j>>] \in InHand,
                Pcs[<<t, l>>] \in InHand, j # l
         PROVE  Regs[<<t, j>>].c # Regs[<<t, l>>].c
    <3>1. P[l] = Pcs[<<t, l>>] /\ R[l] = Regs[<<t, l>>]
      BY <2>3, Zenon
    <3>2. P[j] = Pcs[<<t, j>>] /\ R[j] = Regs[<<t, j>>]
      BY <2>3, Zenon
    <3>3. j \in 1..(v + 1) /\ l \in 1..(v + 1)
      BY <2>8, <2>10, <3>1, <3>2, Zenon
    <3>4. R[j].c # R[l].c
      BY <2>7, <2>10, <3>1, <3>2, <3>3, Zenon DEF Apart
    <3> QED BY <3>1, <3>2, <3>4, Zenon
  <2> QED BY <2>9, <2>10, Zenon
<1>3. ASSUME NEW q \in Pos, Pcs[q] \in InHand PROVE Regs[q].c \in mapped
  <2>1. PICK t \in Threads, l \in Nat : q = <<t, l>>
    BY EveryPosition, Zenon
  <2>2. Regs[q].c \in Ids /\ O[Regs[q].c] \in Threads
    BY <1>2, <1>3, <2>1, Zenon
  <2> QED BY <1>1, <2>2, WrapperAssumption, Zenon DEF Owned
<1>4. ASSUME NEW q \in Pos, NEW s \in Pos, Pcs[q] \in InHand, Pcs[s] \in InHand, q # s
      PROVE  Regs[q].c # Regs[s].c
  <2>1. PICK t \in Threads, l \in Nat : q = <<t, l>>
    BY EveryPosition, Zenon
  <2>2. PICK u \in Threads, k \in Nat : s = <<u, k>>
    BY EveryPosition, Zenon
  <2>3. CASE t = u
    <3>1. l # k
      BY <1>4, <2>1, <2>2, <2>3, Zenon
    <3>2. Pcs[<<t, l>>] \in InHand /\ Pcs[<<t, k>>] \in InHand
      BY <1>4, <2>1, <2>2, <2>3, Zenon
    <3>3. Regs[<<t, l>>].c # Regs[<<t, k>>].c
      BY <1>2, <3>1, <3>2, Zenon
    <3> QED BY <2>1, <2>2, <2>3, <3>3, Zenon
  <2>4. CASE t # u
    <3>1. O[Regs[<<t, l>>].c] = t
      BY <1>2, <1>4, <2>1, Zenon
    <3>2. O[Regs[<<u, k>>].c] = u
      BY <1>2, <1>4, <2>2, Zenon
    <3> QED BY <2>1, <2>2, <2>4, <3>1, <3>2, Zenon
  <2> QED BY <2>3, <2>4, Zenon
<1> QED BY <1>3, <1>4, Zenon DEF HeldOnce

\* The same after a step.
LEMMA NextPositions ==
    ASSUME NEW t \in Threads, NEW l \in Nat
    PROVE  /\ l \in 1..Len(saved'[t]) =>
                Pcs'[<<t, l>>] = saved'[t][l].pc /\ Regs'[<<t, l>>] = saved'[t][l].reg
           /\ l \notin 1..Len(saved'[t]) /\ l = Len(saved'[t]) + 1 =>
                Pcs'[<<t, l>>] = pc'[t] /\ Regs'[<<t, l>>] = reg'[t]
           /\ l \notin 1..Len(saved'[t]) /\ l # Len(saved'[t]) + 1 => Pcs'[<<t, l>>] = "user"
BY DEF Pos, Pcs, Regs

\* The other threads stay where they are.
Alone(t) ==
    \A u \in Threads : u # t => pc'[u] = pc[u] /\ reg'[u] = reg[u] /\ saved'[u] = saved[u]

\* A step of one thread moves no code of another, its handlers included.
LEMMA OthersStay ==
    ASSUME NEW t \in Threads, Alone(t), NEW u \in Threads, u # t, NEW l \in Nat
    PROVE  Pcs'[<<u, l>>] = Pcs[<<u, l>>]
           /\ (Pcs[<<u, l>>] # "user" => Regs'[<<u, l>>] = Regs[<<u, l>>])
<1>1. pc'[u] = pc[u] /\ reg'[u] = reg[u] /\ saved'[u] = saved[u]
  BY Zenon DEF Alone
<1>2. CASE l \in 1..Len(saved[u])
  <2>1. Pcs[<<u, l>>] = saved[u][l].pc /\ Regs[<<u, l>>] = saved[u][l].reg
    BY <1>2, Positions, Zenon
  <2>2. Pcs'[<<u, l>>] = saved[u][l].pc /\ Regs'[<<u, l>>] = saved[u][l].reg
    BY <1>1, <1>2, NextPositions, Zenon
  <2> QED BY <2>1, <2>2, Zenon
<1>3. CASE l \notin 1..Len(saved[u]) /\ l = Len(saved[u]) + 1
  <2>1. Pcs[<<u, l>>] = pc[u] /\ Regs[<<u, l>>] = reg[u]
    BY <1>3, Positions, Zenon
  <2>2. Pcs'[<<u, l>>] = pc[u] /\ Regs'[<<u, l>>] = reg[u]
    BY <1>1, <1>3, NextPositions, Zenon
  <2> QED BY <2>1, <2>2, Zenon
<1>4. CASE l \notin 1..Len(saved[u]) /\ l # Len(saved[u]) + 1
  <2>1. Pcs[<<u, l>>] = "user"
    BY <1>4, Positions, Zenon
  <2>2. Pcs'[<<u, l>>] = "user"
    BY <1>1, <1>4, NextPositions, Zenon
  <2> QED BY <2>1, <2>2, Zenon
<1> QED BY <1>2, <1>3, <1>4, Zenon

\* To move the code a thread runs is to leave its other code alone.
LEMMA MovesTop ==
    ASSUME TypeOK, NEW t \in Threads, Alone(t),
           \A l \in Nat : l # Len(saved[t]) + 1 =>
             /\ Pcs'[<<t, l>>] = Pcs[<<t, l>>]
             /\ Pcs[<<t, l>>] # "user" => Regs'[<<t, l>>] = Regs[<<t, l>>]
    PROVE  /\ Pcs[Top(t)] = pc[t] /\ Regs[Top(t)] = reg[t]
           /\ Moved(Pos, Pcs, Regs, Pcs', Regs', Top(t), Pcs'[Top(t)], Regs'[Top(t)])
<1>1. /\ Len(saved[t]) + 1 \in Nat /\ Len(saved[t]) + 1 \notin 1..Len(saved[t])
  BY DEF TypeOK
<1>2. Top(t) \in Pos /\ Pcs[Top(t)] = pc[t] /\ Regs[Top(t)] = reg[t]
  BY <1>1, Positions, Zenon DEF Top
<1>3. ASSUME NEW s \in Pos, s # Top(t)
      PROVE  Pcs'[s] = Pcs[s] /\ (Pcs[s] # "user" => Regs'[s] = Regs[s])
  <2>1. PICK u \in Threads, l \in Nat : s = <<u, l>>
    BY EveryPosition, Zenon
  <2>2. CASE u = t
    <3>1. l # Len(saved[t]) + 1
      BY <1>3, <2>1, <2>2, Zenon DEF Top
    <3> QED BY <2>1, <2>2, <3>1, Zenon
  <2>3. CASE u # t
    BY <2>1, <2>3, OthersStay, Zenon
  <2> QED BY <2>2, <2>3, Zenon
<1> QED BY <1>2, <1>3, Zenon DEF Moved

\* A step of a thread moves the code it runs.
LEMMA StepMoves ==
    ASSUME TypeOK, NEW t \in Threads, saved' = saved, Alone(t)
    PROVE  /\ Pcs[Top(t)] = pc[t] /\ Regs[Top(t)] = reg[t]
           /\ Moved(Pos, Pcs, Regs, Pcs', Regs', Top(t), pc'[t], reg'[t])
<1>1. Len(saved[t]) + 1 \in Nat /\ Len(saved[t]) + 1 \notin 1..Len(saved[t])
  BY DEF TypeOK
<1>2. ASSUME NEW l \in Nat, l # Len(saved[t]) + 1
      PROVE  /\ Pcs'[<<t, l>>] = Pcs[<<t, l>>]
             /\ Pcs[<<t, l>>] # "user" => Regs'[<<t, l>>] = Regs[<<t, l>>]
  <2>1. CASE l \in 1..Len(saved[t])
    <3>1. Pcs[<<t, l>>] = saved[t][l].pc /\ Regs[<<t, l>>] = saved[t][l].reg
      BY <2>1, Positions, Zenon
    <3>2. Pcs'[<<t, l>>] = saved[t][l].pc /\ Regs'[<<t, l>>] = saved[t][l].reg
      BY <2>1, NextPositions, Zenon
    <3> QED BY <3>1, <3>2, Zenon
  <2>2. CASE l \notin 1..Len(saved[t])
    <3>1. Pcs[<<t, l>>] = "user"
      BY <1>2, <2>2, Positions, Zenon
    <3>2. Pcs'[<<t, l>>] = "user"
      BY <1>2, <2>2, NextPositions, Zenon
    <3> QED BY <3>1, <3>2, Zenon
  <2> QED BY <2>1, <2>2, Zenon
<1>3. Pcs'[Top(t)] = pc'[t] /\ Regs'[Top(t)] = reg'[t]
  BY <1>1, NextPositions, Zenon DEF Top
<1>4. /\ Pcs[Top(t)] = pc[t] /\ Regs[Top(t)] = reg[t]
      /\ Moved(Pos, Pcs, Regs, Pcs', Regs', Top(t), Pcs'[Top(t)], Regs'[Top(t)])
  BY <1>2, MovesTop, Zenon
<1> QED BY <1>3, <1>4, Zenon

\* A handler that starts leaves the code it interrupts where it is.
LEMMA SignalMoves ==
    ASSUME TypeOK, NEW t \in Threads, Signal(t)
    PROVE  /\ Pcs[Top(t)] = pc[t] /\ Regs[Top(t)] = reg[t]
           /\ Moved(Pos, Pcs, Regs, Pcs', Regs', Top(t), pc[t], reg[t])
<1> DEFINE K == [pc : PCs, reg : Registers]
           k == [pc |-> pc[t], reg |-> reg[t]]
           v == Len(saved[t])
<1>1. saved[t] \in Seq(K) /\ k \in K /\ k.pc = pc[t] /\ k.reg = reg[t]
  BY Zenon DEF TypeOK
<1>2. saved'[t] = Append(saved[t], k) /\ pc'[t] = "user" /\ Alone(t)
  BY Zenon DEF Signal, TypeOK, Alone
<1> HIDE DEF K, k
<1>3. /\ Len(saved'[t]) = v + 1 /\ saved'[t][v + 1] = k
      /\ \A l \in 1..v : saved'[t][l] = saved[t][l]
  <2>1. /\ Len(Append(saved[t], k)) = Len(saved[t]) + 1
        /\ Append(saved[t], k)[Len(saved[t]) + 1] = k
        /\ \A l \in 1..Len(saved[t]) : Append(saved[t], k)[l] = saved[t][l]
    BY <1>1, AppendFacts
  <2> QED BY <1>2, <2>1, Zenon
<1>4. v \in Nat
  BY <1>1
<1> HIDE DEF v
<1>5. /\ v + 1 \in Nat /\ v + 1 \in 1..(v + 1)
      /\ \A l \in 1..v : l \in 1..(v + 1)
      /\ \A l \in Nat : l \notin 1..v /\ l # v + 1 => l \notin 1..(v + 1)
  BY <1>4
<1>6. ASSUME NEW l \in Nat, l # Len(saved[t]) + 1
      PROVE  /\ Pcs'[<<t, l>>] = Pcs[<<t, l>>]
             /\ Pcs[<<t, l>>] # "user" => Regs'[<<t, l>>] = Regs[<<t, l>>]
  <2>1. CASE l \in 1..v
    <3>1. Pcs[<<t, l>>] = saved[t][l].pc /\ Regs[<<t, l>>] = saved[t][l].reg
      BY <2>1, Positions, Zenon DEF v
    <3>2. Pcs'[<<t, l>>] = saved'[t][l].pc /\ Regs'[<<t, l>>] = saved'[t][l].reg
      BY <1>3, <1>5, <2>1, NextPositions, Zenon
    <3> QED BY <1>3, <2>1, <3>1, <3>2, Zenon
  <2>2. CASE l \notin 1..v
    <3>1. Pcs[<<t, l>>] = "user"
      BY <1>6, <2>2, Positions, Zenon DEF v
    <3>2. l \notin 1..Len(saved'[t])
      BY <1>3, <1>5, <1>6, <2>2, Zenon DEF v
    <3>3. Pcs'[<<t, l>>] = "user"
      BY <1>2, <3>2, NextPositions, Zenon
    <3> QED BY <3>1, <3>3, Zenon
  <2> QED BY <2>1, <2>2, Zenon
<1>7. Pcs'[Top(t)] = pc[t] /\ Regs'[Top(t)] = reg[t]
  <2>1. v + 1 \in 1..Len(saved'[t]) /\ Top(t) = <<t, v + 1>>
    BY <1>3, <1>5, Zenon DEF Top, v
  <2>2. Pcs'[<<t, v + 1>>] = saved'[t][v + 1].pc /\ Regs'[<<t, v + 1>>] = saved'[t][v + 1].reg
    BY <1>5, <2>1, NextPositions, Zenon
  <2> QED BY <1>1, <1>3, <2>1, <2>2, Zenon
<1>8. /\ Pcs[Top(t)] = pc[t] /\ Regs[Top(t)] = reg[t]
      /\ Moved(Pos, Pcs, Regs, Pcs', Regs', Top(t), Pcs'[Top(t)], Regs'[Top(t)])
  BY <1>2, <1>6, MovesTop, Zenon
<1> QED BY <1>7, <1>8, Zenon

\* A handler that ends leaves the code below it where it is.
LEMMA SigReturnMoves ==
    ASSUME WrapperInv, NEW t \in Threads, SigReturn(t)
    PROVE  /\ Pcs[Top(t)] = "user"
           /\ Moved(Pos, Pcs, Regs, Pcs', Regs', Top(t), "user", Regs'[Top(t)])
<1> DEFINE K == [pc : PCs, reg : Registers]
           v == Len(saved[t])
           d == Len(stack[t])
<1>0. TypeOK
  BY Zenon DEF WrapperInv
<1>1. saved[t] \in Seq(K) /\ stack[t] \in Seq(Slots) /\ stack[t] # <<>> /\ Last(stack[t]) = SIG
  BY <1>0, Zenon DEF TypeOK, SigReturn
<1>2. /\ saved'[t] = Front(saved[t]) /\ pc[t] = "user"
      /\ pc'[t] = Last(saved[t]).pc /\ reg'[t] = Last(saved[t]).reg /\ Alone(t)
  BY <1>0, Zenon DEF SigReturn, TypeOK, Alone
<1> HIDE DEF K
<1>3. v \in Nat /\ d \in Nat /\ d > 0
  BY <1>1
<1>4. v > 0
  <2>1. PICK O : At(t, O)
    BY Zenon DEF WrapperInv
  <2>2. Threaded(t, O, ctx, stack[t], shadow[t], d, saved[t], v, pc[t], reg[t],
                 s_wrappingContext[t])
    BY <2>1, Zenon DEF At
  <2>3. stack[t][d] = SIG
    BY <1>1, Zenon DEF Last
  <2> HIDE DEF d, v
  <2> QED BY <1>3, <2>2, <2>3, InHandler, Zenon
<1>5. /\ Len(saved'[t]) = v - 1 /\ Last(saved[t]) = saved[t][v]
      /\ \A l \in 1..(v - 1) : saved'[t][l] = saved[t][l]
  BY <1>1, <1>2, <1>4, FrontFacts, Zenon
<1> HIDE DEF v
<1>6. /\ v \in 1..v /\ v \notin 1..(v - 1) /\ v = (v - 1) + 1 /\ v + 1 \in Nat
      /\ v + 1 \notin 1..(v - 1) /\ v + 1 # (v - 1) + 1
      /\ \A l \in 1..v : l = v \/ l \in 1..(v - 1)
      /\ \A l \in Nat : l \notin 1..v => l \notin 1..(v - 1) /\ l # (v - 1) + 1
  BY <1>3, <1>4
<1>7. ASSUME NEW l \in Nat, l # Len(saved[t]) + 1
      PROVE  /\ Pcs'[<<t, l>>] = Pcs[<<t, l>>]
             /\ Pcs[<<t, l>>] # "user" => Regs'[<<t, l>>] = Regs[<<t, l>>]
  <2>1. CASE l \in 1..(v - 1) /\ l \in 1..v
    <3>1. Pcs[<<t, l>>] = saved[t][l].pc /\ Regs[<<t, l>>] = saved[t][l].reg
      BY <2>1, Positions, Zenon DEF v
    <3>2. Pcs'[<<t, l>>] = saved'[t][l].pc /\ Regs'[<<t, l>>] = saved'[t][l].reg
      BY <1>5, <2>1, NextPositions, Zenon
    <3> QED BY <1>5, <2>1, <3>1, <3>2, Zenon
  <2>2. CASE l = v
    <3>1. Pcs[<<t, l>>] = saved[t][v].pc /\ Regs[<<t, l>>] = saved[t][v].reg
      BY <1>6, <2>2, Positions, Zenon DEF v
    <3>2. l \notin 1..Len(saved'[t]) /\ l = Len(saved'[t]) + 1
      BY <1>5, <1>6, <2>2, Zenon
    <3>3. Pcs'[<<t, l>>] = pc'[t] /\ Regs'[<<t, l>>] = reg'[t]
      BY <3>2, NextPositions, Zenon
    <3> QED BY <1>2, <1>5, <3>1, <3>3, Zenon
  <2>3. CASE l \notin 1..v
    <3>1. Pcs[<<t, l>>] = "user"
      BY <1>7, <2>3, Positions, Zenon DEF v
    <3>2. l \notin 1..Len(saved'[t]) /\ l # Len(saved'[t]) + 1
      BY <1>5, <1>6, <2>3, Zenon
    <3>3. Pcs'[<<t, l>>] = "user"
      BY <3>2, NextPositions, Zenon
    <3> QED BY <3>1, <3>3, Zenon
  <2> QED BY <1>6, <2>1, <2>2, <2>3, Zenon
<1>8. Pcs'[Top(t)] = "user"
  <2>1. v + 1 \notin 1..Len(saved'[t]) /\ v + 1 # Len(saved'[t]) + 1 /\ Top(t) = <<t, v + 1>>
    BY <1>5, <1>6, Zenon DEF Top, v
  <2>2. Pcs'[<<t, v + 1>>] = "user"
    BY <1>6, <2>1, NextPositions, Zenon
  <2> QED BY <2>1, <2>2, Zenon
<1>9. /\ Pcs[Top(t)] = pc[t]
      /\ Moved(Pos, Pcs, Regs, Pcs', Regs', Top(t), Pcs'[Top(t)], Regs'[Top(t)])
  BY <1>0, <1>2, <1>7, MovesTop, Zenon
<1> QED BY <1>2, <1>8, <1>9, Zenon

\* Every call that has begun is recorded or still stands in one place: in the
\* code that is about to map its context, or in that context.
CountInv ==
    \E F : /\ Booked(Pos, Pcs, Regs, ctx, mapped, F)
           /\ Balanced(Pos, Pcs, Regs, F, begun, recorded)

\* The steps that touch neither contexts nor counters.
LEMMA PlainStep ==
    ASSUME CountInv, NEW t \in Threads, NEW p, NEW r,
           UNCHANGED <<ctx, mapped, begun, recorded>>,
           Moved(Pos, Pcs, Regs, Pcs', Regs', Top(t), p, r),
           \/ p = Pcs[Top(t)]
           \/ p = "fill" /\ Pcs[Top(t)] = "link"
           \/ p = "unmap" /\ Pcs[Top(t)] = "unlock"
           \/ {p, Pcs[Top(t)]} \cap (Unsettled \cup {"map"}) = {},
           p \in Unsettled \cup {"map"} => r = Regs[Top(t)]
    PROVE  CountInv'
<1>1. PICK F : /\ Booked(Pos, Pcs, Regs, ctx, mapped, F)
               /\ Balanced(Pos, Pcs, Regs, F, begun, recorded)
  BY Zenon DEF CountInv
<1>2. /\ Booked(Pos, Pcs', Regs', ctx, mapped, F)
      /\ Balanced(Pos, Pcs', Regs', F, begun, recorded)
  BY <1>1, PlainKeeps, Zenon
<1>3. ctx' = ctx /\ mapped' = mapped /\ begun' = begun /\ recorded' = recorded
  BY Zenon
<1>4. Pos' = Pos
  BY Zenon DEF Pos
<1>5. /\ Booked(Pos, Pcs, Regs, ctx, mapped, F)'
      /\ Balanced(Pos, Pcs, Regs, F, begun, recorded)'
  BY <1>2, <1>3, <1>4, Zenon
<1> QED BY <1>5, Zenon DEF CountInv

\* The steps of the program and of the wrapper that only move on.
LEMMA CountMoves ==
    ASSUME WrapperInv, CountInv, NEW t \in Threads,
           \/ \E s \in Sites : Call(t, s)
           \/ Ret(t) \/ ResumeCaller(t) \/ ResumeWrapper(t) \/ LinkContext(t)
           \/ SwapReturnAddr(t) \/ TakeContext(t) \/ UnlinkContext(t) \/ AcquireStats(t)
           \/ ReleaseStats(t)
    PROVE  CountInv'
<1>0. TypeOK
  BY Zenon DEF WrapperInv
<1>1. saved' = saved /\ UNCHANGED <<ctx, mapped, begun, recorded>>
  BY Zenon DEF Call, Ret, ResumeCaller, ResumeWrapper, LinkContext, SwapReturnAddr, TakeContext,
     UnlinkContext, AcquireStats, ReleaseStats, heap, statVars, sigVars, ghosts
<1>2. Alone(t)
  BY <1>0, <1>1, Zenon DEF TypeOK, Alone, Goto, Call, Ret, ResumeCaller, ResumeWrapper, LinkContext,
     SwapReturnAddr, TakeContext, UnlinkContext, AcquireStats, ReleaseStats
<1>3. /\ Pcs[Top(t)] = pc[t] /\ Regs[Top(t)] = reg[t]
      /\ Moved(Pos, Pcs, Regs, Pcs', Regs', Top(t), pc'[t], reg'[t])
  BY <1>0, <1>1, <1>2, StepMoves, Zenon
<1>4. \/ pc[t] = "link" /\ pc'[t] = "fill" /\ reg'[t] = reg[t]
      \/ pc[t] = "unlock" /\ pc'[t] = "unmap" /\ reg'[t] = reg[t]
      \/ /\ pc[t] \in {"user", "resume", "swap", "take", "unlink", "lock"}
         /\ pc'[t] \in {"user", "resume", "take", "unlink", "lock", "record"}
  BY <1>0, Zenon DEF TypeOK, Goto, Call, Ret, ResumeCaller, ResumeWrapper, LinkContext,
     SwapReturnAddr, TakeContext, UnlinkContext, AcquireStats, ReleaseStats
<1>5. /\ \/ pc'[t] = "fill" /\ pc[t] = "link"
         \/ pc'[t] = "unmap" /\ pc[t] = "unlock"
         \/ {pc'[t], pc[t]} \cap (Unsettled \cup {"map"}) = {}
      /\ pc'[t] \in Unsettled \cup {"map"} => reg'[t] = reg[t]
  BY <1>4, Zenon DEF Unsettled
<1> QED BY <1>1, <1>3, <1>5, PlainStep, Zenon

\* Handlers start and end.
LEMMA CountSignals ==
    ASSUME WrapperInv, CountInv, NEW t \in Threads, Signal(t) \/ SigReturn(t)
    PROVE  CountInv'
<1>0. TypeOK
  BY Zenon DEF WrapperInv
<1>1. UNCHANGED <<ctx, mapped, begun, recorded>>
  BY Zenon DEF Signal, SigReturn, heap, statVars
<1>2. CASE Signal(t)
  <2>1. /\ Pcs[Top(t)] = pc[t] /\ Regs[Top(t)] = reg[t]
        /\ Moved(Pos, Pcs, Regs, Pcs', Regs', Top(t), pc[t], reg[t])
    BY <1>0, <1>2, SignalMoves, Zenon
  <2> QED BY <1>1, <2>1, PlainStep, Zenon
<1>3. CASE SigReturn(t)
  <2>1. /\ Pcs[Top(t)] = "user"
        /\ Moved(Pos, Pcs, Regs, Pcs', Regs', Top(t), "user", Regs'[Top(t)])
    BY <1>3, SigReturnMoves, Zenon
  <2>2. "user" \notin Unsettled \cup {"map"}
    BY Zenon DEF Unsettled
  <2> QED BY <1>1, <2>1, <2>2, PlainStep, Zenon
<1> QED BY <1>2, <1>3, Zenon

\* A profiled call begins.
LEMMA CountBegins ==
    ASSUME WrapperInv, CountInv, NEW t \in Threads, NEW f \in Fns,
           (\E s \in Sites : CallProfiled(t, s, f)) \/ TailCallProfiled(t, f)
    PROVE  CountInv'
<1>0. TypeOK
  BY Zenon DEF WrapperInv
<1>1. PICK F : /\ Booked(Pos, Pcs, Regs, ctx, mapped, F)
               /\ Balanced(Pos, Pcs, Regs, F, begun, recorded)
  BY Zenon DEF CountInv
<1>2. /\ saved' = saved /\ ctx' = ctx /\ mapped' = mapped /\ recorded' = recorded
      /\ begun' = [begun EXCEPT ![f] = @ + 1]
  BY Zenon DEF CallProfiled, TailCallProfiled, heap, statVars, sigVars
<1>3. Alone(t) /\ pc[t] = "user" /\ pc'[t] = "map" /\ reg'[t].fn = f
  BY <1>0, <1>2, Zenon DEF TypeOK, Alone, Goto, CallProfiled, TailCallProfiled, NoReg
<1>4. Pcs[Top(t)] = "user" /\ Moved(Pos, Pcs, Regs, Pcs', Regs', Top(t), "map", reg'[t])
  BY <1>0, <1>2, <1>3, StepMoves, Zenon
<1>5. /\ Booked(Pos, Pcs', Regs', ctx, mapped, F)
      /\ Balanced(Pos, Pcs', Regs', F, [begun EXCEPT ![f] = @ + 1], recorded)
  BY <1>1, <1>3, <1>4, BeginKeeps, SMTT(30)
<1>6. Pos' = Pos
  BY Zenon DEF Pos
<1>7. /\ Booked(Pos, Pcs, Regs, ctx, mapped, F)'
      /\ Balanced(Pos, Pcs, Regs, F, begun, recorded)'
  BY <1>2, <1>5, <1>6, Zenon
<1> QED BY <1>7, Zenon DEF CountInv

\* preProfile maps the context of a call.
LEMMA CountMaps ==
    ASSUME WrapperInv, CountInv, NEW t \in Threads, MapContext(t)
    PROVE  CountInv'
<1>0. TypeOK /\ HeldOnce(Pos, Pcs, Regs, mapped)
  BY HeldApart, Zenon DEF WrapperInv
<1>1. PICK F : /\ Booked(Pos, Pcs, Regs, ctx, mapped, F)
               /\ Balanced(Pos, Pcs, Regs, F, begun, recorded)
  BY Zenon DEF CountInv
<1> DEFINE c == CHOOSE b \in Ids : b \notin mapped
<1>2. c \in Ids /\ c \notin mapped
  <2>1. \E b \in Ids : b \notin mapped
    BY <1>0, Zenon DEF MapContext, TypeOK
  <2> QED BY <2>1, Zenon
<1>3. /\ saved' = saved /\ begun' = begun /\ recorded' = recorded /\ mapped' = mapped \cup {c}
      /\ ctx' = [ctx EXCEPT ![c] = [old |-> s_wrappingContext[t],
                                    realReturnAddr |-> NULL, functionPtr |-> NULL]]
      /\ reg' = [reg EXCEPT ![t].c = c]
  BY Zenon DEF MapContext, statVars, sigVars, ghosts
<1> HIDE DEF c
<1>4. Alone(t) /\ pc[t] = "map" /\ pc'[t] = "link"
  BY <1>0, <1>3, Zenon DEF TypeOK, Alone, Goto, MapContext
<1>5. reg'[t].fn = reg[t].fn /\ reg'[t].c = c /\ reg[t].fn \in Fns
  <2>1. PICK O : At(t, O)
    BY Zenon DEF WrapperInv
  <2>2. reg[t].fn \in Fns
    <3>1. Len(stack[t]) \in Nat /\ Len(saved[t]) \in Nat
      BY <1>0 DEF TypeOK
    <3>2. "map" \in Entering
      BY Zenon DEF Entering
    <3> QED BY <1>4, <2>1, <3>1, <3>2, EntersWithFunction, Zenon DEF At
  <2>3. reg[t] \in Registers /\ reg'[t] = [reg[t] EXCEPT !.c = c]
    BY <1>0, <1>3, Zenon DEF TypeOK
  <2> QED BY <2>2, <2>3, Zenon DEF Registers
<1>6. OnlyAt(c, ctx, ctx')
  BY <1>0, <1>3, Zenon DEF TypeOK, OnlyAt
<1>7. /\ Pcs[Top(t)] = "map" /\ Regs[Top(t)] = reg[t]
      /\ Moved(Pos, Pcs, Regs, Pcs', Regs', Top(t), "link", reg'[t])
  BY <1>0, <1>3, <1>4, StepMoves, Zenon
<1>8. /\ Booked(Pos, Pcs', Regs', ctx', mapped \cup {c}, [F EXCEPT ![c] = reg'[t].fn])
      /\ Balanced(Pos, Pcs', Regs', [F EXCEPT ![c] = reg'[t].fn], begun, recorded)
  <2>1. mapped \in SUBSET Ids /\ NULL \notin Fns
    BY <1>0, WrapperAssumption, Zenon DEF TypeOK
  <2> DEFINE r == reg'[t]
  <2>2. r.fn = Regs[Top(t)].fn /\ r.fn \in Fns /\ r.c = c
    BY <1>5, <1>7, Zenon
  <2>3. Moved(Pos, Pcs, Regs, Pcs', Regs', Top(t), "link", r) /\ Pcs[Top(t)] = "map"
    BY <1>7, Zenon
  <2> HIDE DEF r
  <2>4. /\ Booked(Pos, Pcs', Regs', ctx', mapped \cup {c}, [F EXCEPT ![c] = r.fn])
        /\ Balanced(Pos, Pcs', Regs', [F EXCEPT ![c] = r.fn], begun, recorded)
    BY <1>0, <1>1, <1>2, <1>6, <2>1, <2>2, <2>3, MapKeepsBooks, Zenon
  <2> QED BY <2>4, Zenon DEF r
<1>9. Pos' = Pos
  BY Zenon DEF Pos
<1>10. \E G : /\ Booked(Pos, Pcs', Regs', ctx', mapped', G)
              /\ Balanced(Pos, Pcs', Regs', G, begun', recorded')
  BY <1>3, <1>8, Zenon
<1> QED BY <1>9, <1>10, Zenon DEF CountInv

\* preProfile fills the context.
LEMMA CountFills ==
    ASSUME WrapperInv, CountInv, NEW t \in Threads, FillContext(t)
    PROVE  CountInv'
<1>0. TypeOK /\ HeldOnce(Pos, Pcs, Regs, mapped)
  BY HeldApart, Zenon DEF WrapperInv
<1>1. PICK F : /\ Booked(Pos, Pcs, Regs, ctx, mapped, F)
               /\ Balanced(Pos, Pcs, Regs, F, begun, recorded)
  BY Zenon DEF CountInv
<1> DEFINE c == reg[t].c
<1>2. /\ saved' = saved /\ begun' = begun /\ recorded' = recorded /\ mapped' = mapped
      /\ reg' = reg /\ pc[t] = "fill" /\ pc' = [pc EXCEPT ![t] = "swap"]
  BY Zenon DEF FillContext, Goto, statVars, sigVars, ghosts
<1>3. Alone(t) /\ pc'[t] = "swap"
  BY <1>0, <1>2, Zenon DEF TypeOK, Alone
<1>4. PICK O : At(t, O)
  BY Zenon DEF WrapperInv
<1>5. c \in Ids /\ reg[t].fn \in Fns
  <2>1. Len(stack[t]) \in Nat /\ Len(saved[t]) \in Nat
    BY <1>0 DEF TypeOK
  <2>2. "fill" \in Entering /\ "fill" \in Holding
    BY Zenon DEF Entering, Holding, Linking
  <2>3. reg[t].fn \in Fns
    BY <1>2, <1>4, <2>1, <2>2, EntersWithFunction, Zenon DEF At
  <2>4. Known(t, O)
    BY <1>0, <1>4, AtSays, Zenon
  <2> QED BY <1>2, <2>2, <2>3, <2>4, Zenon DEF Known, Consequent
<1>6. ctx'[c].functionPtr = reg[t].fn /\ OnlyAt(c, ctx, ctx')
  <2>1. ctx' = [ctx EXCEPT ![c].realReturnAddr = Last(stack[t]), ![c].functionPtr = reg[t].fn]
    BY Zenon DEF FillContext
  <2>2. ctx \in [Ids -> Contexts] /\ ctx[c] \in Contexts
    BY <1>0, <1>5, Zenon DEF TypeOK
  <2>3. OnlyAt(c, ctx, ctx')
    BY <2>1, <2>2, Zenon DEF OnlyAt
  <2>4. ctx'[c].functionPtr = reg[t].fn
    BY <1>5, <2>1, <2>2 DEF Contexts
  <2> QED BY <2>3, <2>4, Zenon
<1>7. /\ Pcs[Top(t)] = "fill" /\ Regs[Top(t)] = reg[t]
      /\ Moved(Pos, Pcs, Regs, Pcs', Regs', Top(t), "swap", reg[t])
  BY <1>0, <1>2, <1>3, StepMoves, Zenon
<1>8. /\ Booked(Pos, Pcs', Regs', ctx', mapped, F)
      /\ Balanced(Pos, Pcs', Regs', F, begun, recorded)
  <2>1. mapped \in SUBSET Ids
    BY <1>0, Zenon DEF TypeOK
  <2>2. Regs[Top(t)].c = c /\ Regs[Top(t)].fn \in Fns /\ ctx'[c].functionPtr = Regs[Top(t)].fn
    BY <1>5, <1>6, <1>7, Zenon
  <2>3. Moved(Pos, Pcs, Regs, Pcs', Regs', Top(t), "swap", Regs[Top(t)])
    BY <1>7, Zenon
  <2> HIDE DEF c
  <2> QED BY <1>0, <1>1, <1>5, <1>6, <1>7, <2>1, <2>2, <2>3, FillKeepsBooks, SMTT(30)
<1>9. Pos' = Pos
  BY Zenon DEF Pos
<1> QED BY <1>2, <1>8, <1>9, Zenon DEF CountInv

\* updateStat counts the call.
LEMMA CountRecords ==
    ASSUME WrapperInv, CountInv, NEW t \in Threads, RecordCall(t)
    PROVE  CountInv'
<1>0. TypeOK /\ HeldOnce(Pos, Pcs, Regs, mapped)
  BY HeldApart, Zenon DEF WrapperInv
<1>1. PICK F : /\ Booked(Pos, Pcs, Regs, ctx, mapped, F)
               /\ Balanced(Pos, Pcs, Regs, F, begun, recorded)
  BY Zenon DEF CountInv
<1> DEFINE c == reg[t].c
<1>2. /\ saved' = saved /\ begun' = begun /\ mapped' = mapped /\ ctx' = ctx
      /\ recorded' = [recorded EXCEPT ![ctx[c].functionPtr] = @ + 1]
      /\ reg' = reg /\ pc[t] = "record" /\ pc' = [pc EXCEPT ![t] = "unlock"]
  BY Zenon DEF RecordCall, Goto, heap, sigVars, ghosts
<1>3. Alone(t) /\ pc'[t] = "unlock"
  BY <1>0, <1>2, Zenon DEF TypeOK, Alone
<1>4. c \in Ids
  <2>1. PICK O : At(t, O)
    BY Zenon DEF WrapperInv
  <2>2. Known(t, O) /\ "record" \in Holding
    BY <1>0, <2>1, AtSays, Zenon DEF Holding, Hand, Recording
  <2> QED BY <1>2, <2>2, Zenon DEF Known, Consequent
<1>5. /\ Pcs[Top(t)] = "record" /\ Regs[Top(t)] = reg[t]
      /\ Moved(Pos, Pcs, Regs, Pcs', Regs', Top(t), "unlock", reg[t])
  BY <1>0, <1>2, <1>3, StepMoves, Zenon
<1>6. /\ Booked(Pos, Pcs', Regs', ctx, mapped, [F EXCEPT ![c] = NULL])
      /\ Balanced(Pos, Pcs', Regs', [F EXCEPT ![c] = NULL], begun,
                  [recorded EXCEPT ![ctx[c].functionPtr] = @ + 1])
  <2>1. mapped \in SUBSET Ids /\ NULL \notin Fns
    BY <1>0, WrapperAssumption, Zenon DEF TypeOK
  <2>2. Regs[Top(t)].c = c
    BY <1>5, Zenon
  <2>3. Moved(Pos, Pcs, Regs, Pcs', Regs', Top(t), "unlock", Regs[Top(t)])
    BY <1>5, Zenon
  <2> HIDE DEF c
  <2> QED BY <1>0, <1>1, <1>4, <1>5, <2>1, <2>2, <2>3, RecordKeepsBooks, Zenon
<1>7. Pos' = Pos
  BY Zenon DEF Pos
<1>8. \E G : /\ Booked(Pos, Pcs', Regs', ctx', mapped', G)
             /\ Balanced(Pos, Pcs', Regs', G, begun', recorded')
  BY <1>2, <1>6, Zenon
<1> QED BY <1>7, <1>8, Zenon DEF CountInv

\* postProfile unmaps the context.
LEMMA CountUnmaps ==
    ASSUME WrapperInv, CountInv, NEW t \in Threads, UnmapContext(t)
    PROVE  CountInv'
<1>0. TypeOK
  BY Zenon DEF WrapperInv
<1>1. PICK F : /\ Booked(Pos, Pcs, Regs, ctx, mapped, F)
               /\ Balanced(Pos, Pcs, Regs, F, begun, recorded)
  BY Zenon DEF CountInv
<1> DEFINE c == reg[t].c
<1>2. /\ saved' = saved /\ begun' = begun /\ recorded' = recorded /\ ctx' = ctx
      /\ mapped' = mapped \ {c} /\ pc[t] = "unmap" /\ pc' = [pc EXCEPT ![t] = "resume"]
      /\ reg' = [reg EXCEPT ![t].to = ctx[c].realReturnAddr, ![t].c = NULL]
  BY Zenon DEF UnmapContext, Goto, statVars, sigVars, ghosts
<1>3. Alone(t) /\ pc'[t] = "resume"
  BY <1>0, <1>2, Zenon DEF TypeOK, Alone
<1>4. c \in Ids
  <2>1. PICK O : At(t, O)
    BY Zenon DEF WrapperInv
  <2>2. Known(t, O) /\ "unmap" \in Holding
    BY <1>0, <2>1, AtSays, Zenon DEF Holding, Hand, Recording
  <2> QED BY <1>2, <2>2, Zenon DEF Known, Consequent
<1>5. /\ Pcs[Top(t)] = "unmap" /\ Regs[Top(t)] = reg[t]
      /\ Moved(Pos, Pcs, Regs, Pcs', Regs', Top(t), "resume", reg'[t])
  BY <1>0, <1>2, <1>3, StepMoves, Zenon
<1>6. /\ Booked(Pos, Pcs', Regs', ctx, mapped \ {c}, F)
      /\ Balanced(Pos, Pcs', Regs', F, begun, recorded)
  <2>1. mapped \in SUBSET Ids /\ Regs[Top(t)].c = c
    BY <1>0, <1>5, Zenon DEF TypeOK
  <2> HIDE DEF c
  <2> QED BY <1>1, <1>4, <1>5, <2>1, UnmapKeepsBooks, Zenon
<1>7. Pos' = Pos
  BY Zenon DEF Pos
<1> QED BY <1>2, <1>6, <1>7, Zenon DEF CountInv

\* A step that changes nothing.
LEMMA CountStutters ==
    ASSUME CountInv, UNCHANGED vars
    PROVE  CountInv'
BY Zenon DEF CountInv, vars, Pcs, Regs, Pos

\* Every step keeps the books.
LEMMA CountPreserved == WrapperInv /\ CountInv /\ [WrapperNext]_vars => CountInv'
<1> SUFFICES ASSUME WrapperInv, CountInv, [WrapperNext]_vars PROVE CountInv'
  BY Zenon
<1>1. CASE UNCHANGED vars \/ Finished
  BY <1>1, CountStutters, Zenon DEF Finished
<1>2. ASSUME NEW t \in Threads, Program(t) PROVE CountInv'
  BY <1>2, CountMoves, CountBegins, CountSignals, Zenon DEF Program
<1>3. ASSUME NEW t \in Threads, Profile(t) PROVE CountInv'
  <2>1. CASE SpinForStats(t)
    BY <2>1, CountStutters, Zenon DEF SpinForStats
  <2> QED BY <1>3, <2>1, CountMoves, CountMaps, CountFills, CountRecords, CountUnmaps, Zenon
             DEF Profile
<1> QED BY <1>1, <1>2, <1>3, Zenon DEF WrapperNext

\* Before the first call the books are empty.
LEMMA CountInitially == WrapperInit => CountInv
<1> SUFFICES ASSUME WrapperInit PROVE CountInv
  BY Zenon
<1>1. ASSUME NEW q \in Pos PROVE Pcs[q] = "user"
  <2>1. PICK t \in Threads, l \in Nat : q = <<t, l>>
    BY EveryPosition, Zenon
  <2>2. saved[t] = <<>> /\ pc[t] = "user"
    BY Zenon DEF WrapperInit
  <2>3. l \notin 1..Len(saved[t])
    BY <2>2
  <2> QED BY <2>1, <2>2, <2>3, Positions, Zenon
<1>2. PICK F : F \in [Ids -> Fns \cup {NULL}] /\ \A c \in Ids : F[c] = NULL
  <2>1. [c \in Ids |-> NULL] \in [Ids -> Fns \cup {NULL}]
    BY Zenon
  <2> QED BY <2>1, Zenon
<1>3. Booked(Pos, Pcs, Regs, ctx, mapped, F)
  <2>1. mapped = {}
    BY Zenon DEF WrapperInit
  <2> QED BY <1>1, <1>2, <2>1, Zenon DEF Booked
<1>4. Balanced(Pos, Pcs, Regs, F, begun, recorded)
  <2>1. ASSUME NEW f \in Fns
        PROVE  Calling(Pos, Pcs, Regs, f) = {} /\ Standing(F, f) = {}
    BY <1>1, <1>2, WrapperAssumption, Zenon DEF Calling, Standing
  <2>2. begun \in [Fns -> Nat] /\ recorded \in [Fns -> Nat]
    BY DEF WrapperInit
  <2>3. \A f \in Fns : begun[f] = 0 /\ recorded[f] = 0
    BY Zenon DEF WrapperInit
  <2>4. IsFiniteSet({}) /\ Cardinality({}) = 0 /\ 0 = 0 + (0 + 0)
    BY FS_EmptySet
  <2> QED BY <2>1, <2>2, <2>3, <2>4, Zenon DEF Balanced
<1> QED BY <1>3, <1>4, Zenon DEF CountInv

\* postProfile records every profiled call once and for its own function,
\* however calls, tail calls and handlers of all threads nested.
THEOREM EveryCallIsRecorded == WrapperSpec => []EveryCallRecorded
<1>1. WrapperInv /\ CountInv => EveryCallRecorded
  <2> SUFFICES ASSUME WrapperInv, CountInv, Quiet PROVE recorded = begun
    BY Zenon DEF EveryCallRecorded
  <2>1. PICK F : /\ Booked(Pos, Pcs, Regs, ctx, mapped, F)
                 /\ Balanced(Pos, Pcs, Regs, F, begun, recorded)
    BY Zenon DEF CountInv
  <2>2. PICK O : Owned(O) /\ \A t \in Threads : At(t, O)
    BY Zenon DEF WrapperInv
  <2>3. ASSUME NEW t \in Threads PROVE pc[t] = "user" /\ Len(saved[t]) = 0
    <3>1. pc[t] = "user" /\ Len(stack[t]) = 0 /\ Len(stack[t]) \in Nat /\ Len(saved[t]) \in Nat
      BY DEF Quiet, WrapperInv, TypeOK
    <3> QED BY <2>2, <3>1, EmptyStack, Zenon DEF At
  <2>4. ASSUME NEW q \in Pos PROVE Pcs[q] = "user"
    <3>1. PICK t \in Threads, l \in Nat : q = <<t, l>>
      BY EveryPosition, Zenon
    <3>2. pc[t] = "user" /\ Len(saved[t]) = 0
      BY <2>3, Zenon
    <3>3. l \notin 1..Len(saved[t])
      BY <3>2
    <3> QED BY <3>1, <3>2, <3>3, Positions, Zenon
  <2>5. mapped = {}
    <3> SUFFICES ASSUME NEW c \in mapped PROVE FALSE
      BY Zenon
    <3>1. c \in Ids /\ O[c] \in Threads
      BY <2>2, Zenon DEF WrapperInv, TypeOK, Owned
    <3> DEFINE t == O[c]
    <3>2. pc[t] = "user" /\ Len(stack[t]) = 0 /\ Known(t, O)
      BY <2>2, <3>1, AtSays DEF WrapperInv, Quiet
    <3> QED BY <3>1, <3>2, Zenon DEF Known, Consequent
  <2>6. ASSUME NEW f \in Fns PROVE recorded[f] = begun[f]
    <3>1. Calling(Pos, Pcs, Regs, f) = {}
      BY <2>4, Zenon DEF Calling
    <3>2. Standing(F, f) = {}
      BY <2>1, <2>5, WrapperAssumption, Zenon DEF Booked, Standing
    <3>3. /\ recorded[f] \in Nat
          /\ begun[f] = recorded[f] + (Cardinality({}) + Cardinality({}))
      BY <2>1, <3>1, <3>2, Zenon DEF Balanced
    <3> QED BY <3>3, FS_EmptySet
  <2>7. recorded \in [Fns -> Nat] /\ begun \in [Fns -> Nat]
    BY <2>1, Zenon DEF Balanced
  <2>8. recorded = [f \in Fns |-> recorded[f]] /\ begun = [f \in Fns |-> begun[f]]
    BY <2>7, Zenon
  <2>9. [f \in Fns |-> recorded[f]] = [f \in Fns |-> begun[f]]
    BY <2>6, Zenon
  <2> QED BY <2>8, <2>9, Zenon
<1>2. CountInv /\ WrapperInv /\ [WrapperNext]_vars => CountInv'
  BY CountPreserved, Zenon
<1>3. WrapperSpec => []CountInv
  BY <1>2, CountInitially, WrapperInvariant, PTL DEF WrapperSpec
<1> QED BY <1>1, <1>3, WrapperInvariant, PTL
=============================================================================
