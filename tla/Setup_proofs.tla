---------------------------- MODULE Setup_proofs ----------------------------
(***************************************************************************)
(* Proofs about what the first redirected call sets up: get_fn_list for    *)
(* values of any length, getLibMap for any number of loaded objects, the   *)
(* redirector table for every page size, slot size and list of names, and  *)
(* the composition of the three.                                           *)
(***************************************************************************)
EXTENDS Setup, FiniteSetTheorems, TLAPS

-----------------------------------------------------------------------------
(* get_fn_list *)

\* The start of the next name is at most one past the next separator: the
\* inductive invariant behind CutInBounds.
ScanInvariant ==
    /\ env_value \in Values
    /\ env_value \in Seq(Chars)
    /\ i \in 0..Len(env_value)
    /\ k \in 0..(i + 1)
    /\ result \in Seq(Names)
    /\ cut \in [start : Nat, len : Int]
    /\ CutInBounds

\* The loop of get_fn_list establishes and keeps ScanInvariant.
LEMMA ScanInvariantHolds == FnListSpec => []ScanInvariant
<1>1. FnListInit => ScanInvariant
  BY FnListAssumption DEF FnListInit, ScanInvariant, CutInBounds
<1>2. ScanInvariant /\ [FnListNext]_fnVars => ScanInvariant'
  <2> SUFFICES ASSUME ScanInvariant, [FnListNext]_fnVars
               PROVE ScanInvariant'
    OBVIOUS
  <2>0. Len(env_value) \in Nat /\ i \in Nat /\ k \in Nat
    BY DEF ScanInvariant
  <2>1. CASE CutName
    <3>1. i < Len(env_value) /\ k <= i + 1 /\ env_value' = env_value
      BY <2>1 DEF CutName, AtCut, ScanInvariant
    <3>2. cut' = [start |-> k, len |-> i - k + 1] /\ k' = i + 2 /\ i' = i + 1
      BY <2>1 DEF CutName
    <3>3. SubSeq(env_value, k + 1, i + 1) \in Names
      <4>1. k + 1 \in 1..(Len(env_value) + 1) /\ i + 1 \in 0..Len(env_value)
        BY <2>0, <3>1
      <4> QED
        BY <4>1, SetupAssumption, Zenon DEF ScanInvariant
    <3>4. result' \in Seq(Names)
      BY <2>1, <3>3 DEF CutName, ScanInvariant
    <3> QED
      BY <2>0, <3>1, <3>2, <3>4 DEF ScanInvariant, CutInBounds
  <2>2. CASE SkipChar
    BY <2>0, <2>2 DEF SkipChar, ScanInvariant, CutInBounds
  <2>3. CASE UNCHANGED fnVars
    BY <2>3 DEF fnVars, ScanInvariant, CutInBounds
  <2> QED
    BY <2>1, <2>2, <2>3 DEF FnListNext, FnListDone
<1> QED
  BY <1>1, <1>2, PTL DEF FnListSpec

\* The separators up to position p, and the fields that end there.
BoundsTo(p) == {b \in Bounds : b <= p}
FieldsTo(p) == {f \in Fields : f[2] <= p}

\* The loop has cut the fields that end at or before position i + 1, in their
\* order, and the next one starts after k, the last separator so far.
SplitInvariant ==
    /\ k \in BoundsTo(i + 1)
    /\ \A b \in BoundsTo(i + 1) : b <= k
    /\ IsFiniteSet(FieldsTo(i + 1)) /\ Cardinality(FieldsTo(i + 1)) = Len(result)
    /\ IsFiniteSet(BoundsTo(k)) /\ Cardinality(BoundsTo(k)) = Len(result) + 1
    /\ \A f \in FieldsTo(i + 1) :
         /\ Cardinality(BoundsTo(f[1])) \in 1..Len(result)
         /\ result[Cardinality(BoundsTo(f[1]))] = SubSeq(env_value, f[1] + 1, f[2] - 1)

NoLeadingColon == env_value # <<>> /\ env_value[1] # Colon

\* Before the first iteration no field has ended.
LEMMA SplitInitially ==
    ASSUME ScanInvariant, NoLeadingColon, i = 0, k = 0, result = <<>>
    PROVE  SplitInvariant
<1>1. Len(env_value) \in Nat /\ Len(env_value) > 0
  BY DEF ScanInvariant, NoLeadingColon
<1>2. BoundsTo(1) = {0} /\ BoundsTo(0) = {0}
  BY <1>1 DEF BoundsTo, Bounds, NoLeadingColon
<1>3. \A f \in Fields : f[1] \in Nat /\ f[2] \in Nat /\ f[1] < f[2] /\ f[1] \in Bounds /\ f[2] \in Bounds
  BY <1>1 DEF Fields, Bounds
<1>4. FieldsTo(1) = {}
  <2> SUFFICES ASSUME NEW f \in Fields, f[2] <= 1 PROVE FALSE
    BY DEF FieldsTo
  <2>1. f[2] \in BoundsTo(1)
    BY <1>3 DEF BoundsTo
  <2> QED
    BY <1>2, <1>3, <2>1
<1>5. IsFiniteSet({}) /\ Cardinality({}) = 0
  BY FS_EmptySet
<1>6. IsFiniteSet({0}) /\ Cardinality({0}) = 1
  BY FS_Singleton
<1>7. i + 1 = 1 /\ Len(result) = 0 /\ 0 <= 0
  OBVIOUS
<1>8. \A b \in {0} : b <= 0
  OBVIOUS
<1> QED
  BY <1>2, <1>4, <1>5, <1>6, <1>7, <1>8 DEF SplitInvariant

\* Position i + 2 is a separator exactly when a name is cut.
LEMMA NextBound ==
    ASSUME ScanInvariant, i < Len(env_value)
    PROVE  /\ i + 2 \in Bounds <=> Char(i + 1) \in {Colon, End}
           /\ \A b \in Bounds : b \in Nat
           /\ \A b \in Bounds : b <= i + 2 <=> b <= i + 1 \/ b = i + 2
<1>1. i \in Nat /\ Len(env_value) \in Nat /\ env_value \in Seq(Chars) /\ i + 1 <= Len(env_value)
  BY DEF ScanInvariant
<1>2. CASE i + 1 < Len(env_value)
  <2>1. Char(i + 1) = env_value[i + 2] /\ env_value[i + 2] \in Chars /\ i + 2 \in 1..Len(env_value)
    BY <1>1, <1>2 DEF Char
  <2>2. Char(i + 1) # End
    BY <2>1, FnListAssumption
  <2> QED
    BY <1>1, <2>1, <2>2 DEF Bounds
<1>3. CASE i + 1 = Len(env_value)
  BY <1>1, <1>3 DEF Bounds, Char
<1> QED
  BY <1>1, <1>2, <1>3

\* Cutting a name ends the field between k and the separator at i + 2.
LEMMA SplitCut ==
    ASSUME ScanInvariant, SplitInvariant, CutName
    PROVE  SplitInvariant'
<1> DEFINE g == <<k, i + 2>>
           name == SubSeq(env_value, k + 1, i + 1)
           n == Len(result)
<1>1. /\ i \in Nat /\ k \in Nat /\ k <= i + 1 /\ i < Len(env_value)
      /\ result \in Seq(Names) /\ n \in Nat /\ k \in Bounds
  BY DEF ScanInvariant, SplitInvariant, CutName, AtCut, BoundsTo
<1>2. i' = i + 1 /\ k' = i + 2 /\ env_value' = env_value /\ result' = Append(result, name)
  BY DEF CutName
<1>3. Len(result') = n + 1 /\ result'[n + 1] = name /\ \A c \in 1..n : result'[c] = result[c]
  BY <1>1, <1>2
<1>4. /\ i + 2 \in Bounds
      /\ \A b \in Bounds : b \in Nat
      /\ \A b \in Bounds : b <= i + 2 <=> b <= i + 1 \/ b = i + 2
  BY <1>1, NextBound DEF CutName, AtCut
<1>5. \A b \in Bounds : b <= i + 1 => b <= k
  BY DEF SplitInvariant, BoundsTo
<1>6. BoundsTo(i + 2) = BoundsTo(k) \cup {i + 2} /\ i + 2 \notin BoundsTo(k)
  <2>1. ~(i + 2 <= k) /\ \A b \in Bounds : b <= i + 2 <=> b <= k \/ b = i + 2
    BY <1>1, <1>4, <1>5
  <2> QED
    BY <1>4, <2>1, Zenon DEF BoundsTo
<1>7. IsFiniteSet(BoundsTo(k)) /\ Cardinality(BoundsTo(k)) = n + 1
  BY DEF SplitInvariant
<1>8. IsFiniteSet(BoundsTo(i + 2)) /\ Cardinality(BoundsTo(i + 2)) = n + 2
  <2>1. /\ IsFiniteSet(BoundsTo(k) \cup {i + 2})
        /\ Cardinality(BoundsTo(k) \cup {i + 2}) = Cardinality(BoundsTo(k)) + 1
    BY <1>6, <1>7, FS_AddElement
  <2>2. Cardinality(BoundsTo(k)) + 1 = n + 2
    BY <1>1, <1>7
  <2> QED
    BY <1>6, <2>1, <2>2, Zenon
<1>9. g \in Fields
  BY <1>1, <1>4, <1>5 DEF Fields
<1>10. ASSUME NEW f \in Fields, f[2] = i + 2
       PROVE  f = g
  <2>1. /\ f \in Bounds \X Bounds /\ f[1] \in Bounds /\ f[1] < f[2]
        /\ \A c \in Bounds : ~(f[1] < c /\ c < f[2])
    BY DEF Fields
  <2>2. f[1] \in Nat /\ f[1] <= k
    <3>1. f[1] \in Nat
      BY <1>4, <2>1, Zenon
    <3>2. f[1] <= i + 1
      BY <1>1, <1>10, <2>1, <3>1
    <3> QED
      BY <1>5, <2>1, <3>1, <3>2, Zenon
  <2>3. f[1] = k
    BY <1>1, <1>10, <2>1, <2>2
  <2> QED
    BY <1>10, <2>1, <2>3
<1>11. \A f \in Fields : f[2] \in Bounds
  BY DEF Fields
<1>12. FieldsTo(i + 2) = FieldsTo(i + 1) \cup {g} /\ g \notin FieldsTo(i + 1)
  <2>1. g[2] = i + 2 /\ ~(i + 2 <= i + 1) /\ i + 2 <= i + 2
    BY <1>1
  <2> QED
    BY <1>4, <1>9, <1>10, <1>11, <2>1, Zenon DEF FieldsTo
<1>13. IsFiniteSet(FieldsTo(i + 2)) /\ Cardinality(FieldsTo(i + 2)) = n + 1
  <2>1. IsFiniteSet(FieldsTo(i + 1)) /\ Cardinality(FieldsTo(i + 1)) = n
    BY DEF SplitInvariant
  <2>2. /\ IsFiniteSet(FieldsTo(i + 1) \cup {g})
        /\ Cardinality(FieldsTo(i + 1) \cup {g}) = Cardinality(FieldsTo(i + 1)) + 1
    BY <1>12, <2>1, FS_AddElement
  <2> QED
    BY <1>12, <2>1, <2>2
<1>14. ASSUME NEW f \in FieldsTo(i + 2)
       PROVE  /\ Cardinality(BoundsTo(f[1])) \in 1..(n + 1)
              /\ result'[Cardinality(BoundsTo(f[1]))] = SubSeq(env_value, f[1] + 1, f[2] - 1)
  <2>1. CASE f \in FieldsTo(i + 1)
    <3>1. /\ Cardinality(BoundsTo(f[1])) \in 1..n
          /\ result[Cardinality(BoundsTo(f[1]))] = SubSeq(env_value, f[1] + 1, f[2] - 1)
      BY <2>1 DEF SplitInvariant
    <3> QED
      BY <1>1, <1>3, <3>1, SMTT(20)
  <2>2. CASE f = g
    <3>1. f[1] = k /\ f[2] = i + 2 /\ f[2] - 1 = i + 1
      BY <1>1, <2>2
    <3>2. n + 1 \in 1..(n + 1)
      BY <1>1
    <3> QED
      BY <1>3, <1>7, <3>1, <3>2, Zenon
  <2> QED
    BY <1>12, <2>1, <2>2, Zenon
<1>15. i' + 1 = i + 2
  BY <1>1, <1>2
<1>16. /\ BoundsTo(i + 1)' = BoundsTo(i + 2) /\ BoundsTo(k)' = BoundsTo(i + 2)
       /\ FieldsTo(i + 1)' = FieldsTo(i + 2)
       /\ \A f : BoundsTo(f[1])' = BoundsTo(f[1])
  BY <1>2, <1>15, Zenon DEF BoundsTo, FieldsTo, Fields, Bounds
<1>17. i + 2 \in BoundsTo(i + 2) /\ \A b \in BoundsTo(i + 2) : b <= i + 2
  BY <1>4 DEF BoundsTo
<1> QED
  <2>1. n + 2 = Len(result') + 1
    BY <1>1, <1>3
  <2> HIDE DEF n
  <2> QED
    BY <1>2, <1>3, <1>8, <1>13, <1>14, <1>16, <1>17, <2>1, Zenon DEF SplitInvariant

\* Another character ends no field.
LEMMA SplitSkip ==
    ASSUME ScanInvariant, SplitInvariant, SkipChar
    PROVE  SplitInvariant'
<1>1. i \in Nat /\ i < Len(env_value) /\ i' = i + 1
  BY DEF ScanInvariant, SkipChar
<1>2. k' = k /\ result' = result /\ env_value' = env_value
  BY DEF SkipChar
<1>3. /\ i + 2 \notin Bounds
      /\ \A b \in Bounds : b <= i + 2 <=> b <= i + 1 \/ b = i + 2
  BY <1>1, NextBound DEF SkipChar
<1>4. BoundsTo(i + 2) = BoundsTo(i + 1)
  BY <1>3, Zenon DEF BoundsTo
<1>5. \A f \in Fields : f[2] \in Bounds
  BY DEF Fields
<1>6. FieldsTo(i + 2) = FieldsTo(i + 1)
  BY <1>3, <1>5, Zenon DEF FieldsTo
<1>7. i' + 1 = i + 2
  BY <1>1
<1>8. /\ BoundsTo(i + 1)' = BoundsTo(i + 2) /\ BoundsTo(k)' = BoundsTo(k)
      /\ FieldsTo(i + 1)' = FieldsTo(i + 2)
      /\ \A f : BoundsTo(f[1])' = BoundsTo(f[1])
  BY <1>2, <1>7, Zenon DEF BoundsTo, FieldsTo, Fields, Bounds
<1> QED
  BY <1>2, <1>4, <1>6, <1>8, Zenon DEF SplitInvariant

\* The loop of get_fn_list keeps the invariant of the split.
LEMMA SplitInvariantHolds == FnListSpec => [](NoLeadingColon => SplitInvariant)
<1> DEFINE Inv == NoLeadingColon => SplitInvariant
<1>1. FnListInit /\ ScanInvariant => Inv
  BY SplitInitially DEF FnListInit
<1>2. ScanInvariant /\ Inv /\ [FnListNext]_fnVars => Inv'
  <2> SUFFICES ASSUME ScanInvariant, Inv, [FnListNext]_fnVars, NoLeadingColon'
               PROVE  SplitInvariant'
    OBVIOUS
  <2>1. NoLeadingColon
    BY DEF FnListNext, CutName, SkipChar, FnListDone, fnVars, NoLeadingColon
  <2>2. SplitInvariant
    BY <2>1
  <2>3. CASE UNCHANGED fnVars
    <3>1. i' = i /\ k' = k /\ result' = result /\ env_value' = env_value
      BY <2>3 DEF fnVars
    <3>2. /\ BoundsTo(i + 1)' = BoundsTo(i + 1) /\ BoundsTo(k)' = BoundsTo(k)
          /\ FieldsTo(i + 1)' = FieldsTo(i + 1)
          /\ \A f : BoundsTo(f[1])' = BoundsTo(f[1])
      BY <3>1, Zenon DEF BoundsTo, FieldsTo, Fields, Bounds
    <3> QED
      BY <2>2, <3>1, <3>2, Zenon DEF SplitInvariant
  <2> QED
    BY <2>2, <2>3, SplitCut, SplitSkip DEF FnListNext, FnListDone
<1> QED
  BY <1>1, <1>2, ScanInvariantHolds, PTL DEF FnListSpec

\* At the end every field has been cut.
LEMMA SplitComplete ==
    ASSUME ScanInvariant, NoLeadingColon => SplitInvariant
    PROVE  SplitsProperly
<1> SUFFICES ASSUME i = Len(env_value), NoLeadingColon PROVE IsSplit
  BY DEF SplitsProperly, NoLeadingColon
<1>1. Len(env_value) \in Nat /\ \A b \in Bounds : b <= i + 1
  BY DEF ScanInvariant, Bounds
<1>2. \A f \in Fields : f[2] \in Bounds
  BY DEF Fields
<1>3. FieldsTo(i + 1) = Fields
  BY <1>1, <1>2, Zenon DEF FieldsTo
<1>4. \A f : BoundsTo(f[1]) = {b \in Bounds : b <= f[1]}
  BY Zenon DEF BoundsTo
<1> QED
  BY <1>3, <1>4, Zenon DEF SplitInvariant, IsSplit

-----------------------------------------------------------------------------
(* getLibMap *)

\* Everything a loop has passed does not match: the inductive invariant.
SearchInvariant ==
    /\ \E n \in 1..MaxLibs : matches \in [1..n -> BOOLEAN]
    /\ l \in 1..LastMap /\ tmp_map \in 1..LastMap /\ lib_map \in 0..LastMap
    /\ at \in {"start", "prev", "next", "done"}
    /\ at = "start" => tmp_map = l
    /\ at = "prev" => tmp_map <= l /\ l > 1 /\ \A j \in (tmp_map + 1)..l : ~matches[j]
    /\ at = "next" => l = 1 /\ \A j \in 1..(tmp_map - 1) : ~matches[j]
    /\ at # "done" => lib_map = 0
    /\ NearestFound
    /\ PreloadedIsFound

\* The tests and the two loops of getLibMap keep SearchInvariant.
LEMMA SearchInvariantHolds == LibMapSpec => []SearchInvariant
<1>1. LibMapInit => SearchInvariant
  BY LibMapAssumption
  DEF LibMapInit, SearchInvariant, NearestFound, PreloadedIsFound, LastMap
<1>2. SearchInvariant /\ [LibMapNext]_mapVars => SearchInvariant'
  <2> SUFFICES ASSUME SearchInvariant, [LibMapNext]_mapVars
               PROVE SearchInvariant'
    OBVIOUS
  <2>0. PICK n \in 1..MaxLibs : matches \in [1..n -> BOOLEAN]
    BY DEF SearchInvariant
  <2>1. n \in Nat /\ LastMap = n /\ DOMAIN matches = 1..n
    BY <2>0, LibMapAssumption DEF LastMap
  <2>2. CASE Start
    BY <2>0, <2>1, <2>2
    DEF Start, SearchInvariant, NearestFound, PreloadedIsFound, Between, LastMap
  <2>3. CASE SearchPrevious
    BY <2>0, <2>1, <2>3
    DEF SearchPrevious, SearchInvariant, NearestFound, PreloadedIsFound, Between, LastMap
  <2>4. CASE SearchNext
    BY <2>0, <2>1, <2>4
    DEF SearchNext, SearchInvariant, NearestFound, PreloadedIsFound, Between, LastMap
  <2>5. CASE UNCHANGED mapVars
    BY <2>5
    DEF mapVars, SearchInvariant, NearestFound, PreloadedIsFound, Between, LastMap
  <2> QED
    BY <2>2, <2>3, <2>4, <2>5 DEF LibMapNext, LibMapDone
<1> QED
  BY <1>1, <1>2, PTL DEF LibMapSpec

-----------------------------------------------------------------------------
(* Arithmetic *)

\* Division with remainder.
LEMMA DivMod ==
    ASSUME NEW a \in Nat, NEW p \in Nat \ {0}
    PROVE  /\ a \div p \in Nat
           /\ a % p \in 0..(p - 1)
           /\ a = p * (a \div p) + (a % p)
  BY Z3

\* Multiplication by a natural number is monotone.
LEMMA MulMono ==
    ASSUME NEW s \in Nat, NEW a \in Nat, NEW b \in Nat, a <= b
    PROVE  s * a <= s * b
  BY Z3

\* A byte of slot f lies below the start of any later slot.
LEMMA SlotBelow ==
    ASSUME NEW s \in Nat, NEW f \in Nat, NEW h \in Nat, f < h, NEW o \in 0..(s - 1)
    PROVE  s * f + o < s * h
<1>1. s * (f + 1) <= s * h
  BY MulMono
<1>2. s * (f + 1) = s * f + s /\ s * f \in Nat /\ s * h \in Nat
  BY Z3
<1> QED
  BY <1>1, <1>2

\* (getpagesize()-1) rounds up: the result is the least multiple not below.
LEMMA AlignUpBounds ==
    ASSUME NEW a \in Nat
    PROVE  /\ AlignUp(a) \in Nat
           /\ a <= AlignUp(a)
           /\ AlignUp(a) < a + PageSize
           /\ a % PageSize = 0 => AlignUp(a) = a
<1> DEFINE b == a + PageSize - 1
           q == b \div PageSize
<1>1. PageSize \in Nat \ {0} /\ b \in Nat
  BY RedirectorsAssumption
<1>2. q \in Nat /\ b % PageSize \in 0..(PageSize - 1) /\ b = PageSize * q + (b % PageSize)
  BY <1>1, DivMod, ZenonT(60)
<1>3. AlignUp(a) = PageSize * q /\ PageSize * q \in Nat
  BY <1>1, <1>2 DEF AlignUp
<1>4. a <= AlignUp(a) /\ AlignUp(a) < a + PageSize
  <2> HIDE DEF q
  <2> QED
    BY <1>1, <1>2, <1>3
<1>5. ASSUME a % PageSize = 0
      PROVE  AlignUp(a) = a
  <2> DEFINE r == a \div PageSize
  <2>1. r \in Nat /\ a = PageSize * r
    BY <1>1, <1>5, DivMod
  <2>2. PageSize * r <= PageSize * q /\ PageSize * q < PageSize * r + PageSize
    BY <1>3, <1>4, <2>1
  <2>3. q = r
    <3> HIDE DEF q, r
    <3>1. CASE q < r
      <4>1. PageSize * q + 0 < PageSize * r
        BY <1>1, <1>2, <2>1, <3>1, SlotBelow
      <4> QED
        BY <1>1, <1>2, <2>1, <2>2, <4>1, <1>3
    <3>2. CASE q > r
      <4>1. PageSize * (r + 1) <= PageSize * q
        BY <1>1, <1>2, <2>1, <3>2, MulMono
      <4>2. PageSize * (r + 1) = PageSize * r + PageSize /\ PageSize * r \in Nat
        BY <1>1, <2>1, Z3
      <4> QED
        BY <1>1, <1>3, <2>2, <4>1, <4>2
    <3> QED
      BY <1>2, <2>1, <3>1, <3>2
  <2> QED
    BY <1>3, <2>1, <2>3
<1> QED
  BY <1>3, <1>4, <1>5

\* The pages that mprotect is called for cover the slots and lie within
\* the mapping.
LEMMA PagesCover ==
    ASSUME count \in Nat
    PROVE  /\ allocSize \in Nat
           /\ pagesNum \in Nat
           /\ REDIRECTOR_SIZE * count \in Nat
           /\ REDIRECTOR_SIZE * count <= PageSize * pagesNum
           /\ PageSize * pagesNum <= allocSize
<1>1. PageSize \in Nat \ {0} /\ REDIRECTOR_SIZE \in Nat
  BY RedirectorsAssumption
<1>2. REDIRECTOR_SIZE * count \in Nat
  BY <1>1, Z3
<1>3. allocSize \in Nat /\ allocSize = REDIRECTOR_SIZE * count + PageSize - 1
  BY <1>1, <1>2 DEF allocSize
<1>4. pagesNum \in Nat /\ allocSize % PageSize \in 0..(PageSize - 1)
      /\ allocSize = PageSize * pagesNum + (allocSize % PageSize)
  BY <1>1, <1>3, DivMod, ZenonT(60) DEF pagesNum
<1>5. PageSize * pagesNum \in Nat
  BY <1>1, <1>4, Z3
<1> HIDE DEF pagesNum, allocSize
<1> QED
  BY <1>1, <1>2, <1>3, <1>4, <1>5

\* Every offset below PageSize * pagesNum lies in one of those pages.
LEMMA PageOf ==
    ASSUME count \in Nat, NEW o \in Nat, o < PageSize * pagesNum
    PROVE  \E q \in 0..(pagesNum - 1) : PageSize * q <= o /\ o < PageSize * q + PageSize
<1> DEFINE q == o \div PageSize
<1>1. PageSize \in Nat \ {0} /\ pagesNum \in Nat
  BY RedirectorsAssumption, PagesCover
<1>2. q \in Nat /\ o % PageSize \in 0..(PageSize - 1) /\ o = PageSize * q + (o % PageSize)
  BY <1>1, DivMod, ZenonT(60)
<1>3. PageSize * q \in Nat /\ PageSize * pagesNum \in Nat
  BY <1>1, <1>2, Z3
<1> HIDE DEF q, pagesNum
<1>4. q < pagesNum
  <2>1. CASE pagesNum <= q
    <3>1. PageSize * pagesNum <= PageSize * q
      BY <1>1, <1>2, <2>1, MulMono
    <3> QED
      BY <1>1, <1>2, <1>3, <3>1
  <2> QED
    BY <1>1, <1>2, <2>1
<1>5. PageSize * q <= o /\ o < PageSize * q + PageSize
  BY <1>1, <1>2, <1>3
<1>6. q \in 0..(pagesNum - 1)
  BY <1>1, <1>2, <1>4
<1> QED
  BY <1>5, <1>6, Zenon

\* The code bytes of two slots are disjoint.
LEMMA SlotsDisjoint ==
    ASSUME redirectors \in Nat, NEW f \in Nat, NEW h \in Nat,
           NEW b \in CodeBytes(f), b \in CodeBytes(h)
    PROVE  f = h
<1>1. REDIRECTOR_SIZE \in Nat \ {0} /\ CodeSize \in 1..REDIRECTOR_SIZE
  BY RedirectorsAssumption
<1>2. REDIRECTOR_SIZE * f \in Nat /\ REDIRECTOR_SIZE * h \in Nat
  BY <1>1, Z3
<1>3. PICK o \in 0..(REDIRECTOR_SIZE - 1) : b = redirectors + (REDIRECTOR_SIZE * f + o)
  <2>1. b \in Int /\ b - redirectors - REDIRECTOR_SIZE * f \in 0..(REDIRECTOR_SIZE - 1)
    BY <1>1, <1>2 DEF CodeBytes, AddressOfIndex
  <2> QED
    BY <1>1, <1>2, <2>1
<1>4. PICK u \in 0..(REDIRECTOR_SIZE - 1) : b = redirectors + (REDIRECTOR_SIZE * h + u)
  <2>1. b \in Int /\ b - redirectors - REDIRECTOR_SIZE * h \in 0..(REDIRECTOR_SIZE - 1)
    BY <1>1, <1>2 DEF CodeBytes, AddressOfIndex
  <2> QED
    BY <1>1, <1>2, <2>1
<1>5. CASE f < h
  <2>1. REDIRECTOR_SIZE * f + o < REDIRECTOR_SIZE * h
    BY <1>1, <1>5, SlotBelow
  <2> QED
    BY <1>1, <1>2, <1>3, <1>4, <2>1
<1>6. CASE h < f
  <2>1. REDIRECTOR_SIZE * h + u < REDIRECTOR_SIZE * f
    BY <1>1, <1>6, SlotBelow
  <2> QED
    BY <1>1, <1>2, <1>3, <1>4, <2>1
<1> QED
  BY <1>5, <1>6

-----------------------------------------------------------------------------
(* The inductive invariant *)

Blank == \A b \in DOMAIN code : code[b] = Zero

\* A slot is blank or holds the whole code of the name that owns it.
Untorn(f) ==
    \/ \A b \in CodeBytes(f) : code[b] = Zero
    \/ \E n \in Names : IsIndexOf(f, n) /\ \A b \in CodeBytes(f) : code[b] = n

\* What initWrapperRedirectors has done so far, by program counter: the pages
\* up to index are executable, and nothing is written before it returns.
TableInvariant ==
    /\ names \in Seq(Names)
    /\ stage \in {"wait", "map", "protect", "zero", "ready", "failed"}
    /\ stage \in {"wait", "map"} => index = 0 /\ executable = {} /\ code = <<>>
    /\ stage \notin {"wait", "map"} =>
        /\ redirectors \in Nat
        /\ code = [b \in DOMAIN code |-> code[b]]
        /\ DOMAIN code = redirectors..(redirectors + AlignUp(allocSize) - 1)
    /\ \A g \in executable : \E q \in 0..(pagesNum - 1) : g = redirectors + PageSize * q
    /\ stage = "protect" =>
        /\ index \in Nat
        /\ \A q \in 0..(index - 1) : redirectors + PageSize * q \in executable
    /\ stage \in {"zero", "ready"} =>
        \A q \in 0..(pagesNum - 1) : redirectors + PageSize * q \in executable
    /\ stage \in {"protect", "zero"} => Blank
    /\ stage \in {"ready", "failed"} => \A f \in 0..(count - 1) : Untorn(f)

\* The bytes of every slot are in the mapping.
LEMMA SlotsMapped ==
    ASSUME TableInvariant, stage \notin {"wait", "map"}, NEW f \in 0..(count - 1), NEW b \in CodeBytes(f)
    PROVE  /\ b \in DOMAIN code
           /\ \E o \in Nat : b = redirectors + o /\ o < PageSize * pagesNum
<1>1. REDIRECTOR_SIZE \in Nat \ {0} /\ CodeSize \in 1..REDIRECTOR_SIZE /\ PageSize \in Nat \ {0}
  BY RedirectorsAssumption
<1>2. redirectors \in Nat /\ count \in Nat
      /\ DOMAIN code = redirectors..(redirectors + AlignUp(allocSize) - 1)
  BY DEF TableInvariant, count
<1>3. f \in Nat /\ f < count
  BY <1>2
<1>4. REDIRECTOR_SIZE * f \in Nat
  BY <1>1, <1>3, Z3
<1>5. PICK o \in 0..(REDIRECTOR_SIZE - 1) : b = redirectors + (REDIRECTOR_SIZE * f + o)
  <2>1. b \in Int /\ b - redirectors - REDIRECTOR_SIZE * f \in 0..(REDIRECTOR_SIZE - 1)
    BY <1>1, <1>2, <1>4 DEF CodeBytes, AddressOfIndex
  <2> QED
    BY <1>1, <1>2, <1>4, <2>1
<1>6. REDIRECTOR_SIZE * f + o < REDIRECTOR_SIZE * count
  BY <1>1, <1>2, <1>3, SlotBelow
<1>7. /\ allocSize \in Nat /\ pagesNum \in Nat /\ REDIRECTOR_SIZE * count \in Nat
      /\ REDIRECTOR_SIZE * count <= PageSize * pagesNum
      /\ PageSize * pagesNum <= allocSize
  BY <1>2, PagesCover
<1>8. AlignUp(allocSize) \in Nat /\ allocSize <= AlignUp(allocSize)
  BY <1>7, AlignUpBounds
<1>9. PageSize * pagesNum \in Nat
  BY <1>1, <1>7, Z3
<1> HIDE DEF pagesNum, allocSize, count
<1>10. REDIRECTOR_SIZE * f + o \in Nat /\ REDIRECTOR_SIZE * f + o < PageSize * pagesNum
  BY <1>4, <1>6, <1>7, <1>9
<1>11. b \in DOMAIN code
  <2> DEFINE off == REDIRECTOR_SIZE * f + o
             span == PageSize * pagesNum
             size == AlignUp(allocSize)
  <2>1. off \in Nat /\ off < span /\ b = redirectors + off
    BY <1>5, <1>10
  <2>2. span \in Nat /\ allocSize \in Nat /\ size \in Nat /\ span <= allocSize /\ allocSize <= size
    BY <1>7, <1>8, <1>9
  <2>3. redirectors \in Nat /\ DOMAIN code = redirectors..(redirectors + size - 1)
    BY <1>2
  <2> HIDE DEF off, span, size
  <2> QED
    BY <2>1, <2>2, <2>3
<1> QED
  BY <1>5, <1>10, <1>11

\* A table in which nothing has been written has no torn slot.
LEMMA BlankUntorn ==
    ASSUME TableInvariant, stage \notin {"wait", "map"}, Blank, NEW f \in 0..(count - 1)
    PROVE  Untorn(f)
  BY SlotsMapped DEF Blank, Untorn

\* mmap returns whole, zeroed pages.
LEMMA MapStep ==
    ASSUME TableInvariant, NEW base \in Bases, Map(base)
    PROVE  TableInvariant'
<1>1. base \in Nat /\ AlignUp(base) = base
  BY RedirectorsAssumption, AlignUpBounds
<1>2. /\ stage = "map" /\ stage' = "protect" /\ redirectors' = base
      /\ code' = [b \in base..(base + AlignUp(allocSize) - 1) |-> Zero]
      /\ names' = names /\ index' = 0 /\ executable' = {}
  BY <1>1 DEF Map, TableInvariant
<1>3. AlignUp(allocSize)' = AlignUp(allocSize)
  BY <1>2 DEF AlignUp, allocSize, count
<1>4. code' = [b \in DOMAIN code' |-> code'[b]]
  BY <1>2
<1> QED
  BY <1>1, <1>2, <1>3, <1>4 DEF TableInvariant, Blank

\* The functions of names alone do not change while names does not.
LEMMA SizesUnchanged ==
    ASSUME names' = names, redirectors' = redirectors
    PROVE  /\ count' = count /\ pagesNum' = pagesNum /\ allocSize' = allocSize
           /\ AlignUp(allocSize)' = AlignUp(allocSize)
           /\ \A f : CodeBytes(f)' = CodeBytes(f)
           /\ \A f, n : IsIndexOf(f, n)' = IsIndexOf(f, n)
  BY DEF count, pagesNum, allocSize, AlignUp, CodeBytes, AddressOfIndex, IsIndexOf

\* One more page is executable.
LEMMA ProtectStep ==
    ASSUME TableInvariant, Protect
    PROVE  TableInvariant'
<1>1. /\ stage = "protect" /\ stage' = "protect" /\ index \in Nat /\ index < pagesNum /\ index' = index + 1
      /\ executable' = executable \cup {redirectors + PageSize * index}
      /\ names' = names /\ redirectors' = redirectors /\ code' = code
  BY DEF Protect, TableInvariant
<1>2. pagesNum' = pagesNum /\ pagesNum \in Nat /\ AlignUp(allocSize)' = AlignUp(allocSize)
  BY <1>1, SizesUnchanged, PagesCover DEF TableInvariant, count
<1> HIDE DEF pagesNum
<1>3. index \in 0..(pagesNum - 1)
  BY <1>1, <1>2
<1>4. \A g \in executable' : \E q \in 0..(pagesNum - 1) : g = redirectors + PageSize * q
  BY <1>1, <1>3, Zenon DEF TableInvariant
<1>5. \A q \in 0..(index' - 1) : redirectors + PageSize * q \in executable'
  <2> SUFFICES ASSUME NEW q \in 0..(index' - 1)
               PROVE  redirectors + PageSize * q \in executable'
    OBVIOUS
  <2>1. q = index \/ q \in 0..(index - 1)
    BY <1>1
  <2> QED
    BY <1>1, <2>1, Zenon DEF TableInvariant
<1>6. Blank'
  BY <1>1 DEF TableInvariant, Blank
<1> QED
  BY <1>1, <1>2, <1>4, <1>5, <1>6 DEF TableInvariant

\* The steps that only move the program counter, and the clearing of a slot.
LEMMA ControlStep ==
    ASSUME TableInvariant, ProtectFails \/ Protected \/ Clear \/ Cleared \/ UNCHANGED tabVars
    PROVE  TableInvariant'
<1>1. names' = names /\ redirectors' = redirectors /\ executable' = executable
  BY DEF ProtectFails, Protected, Clear, Cleared, tabVars
<1>2. /\ pagesNum' = pagesNum /\ count' = count /\ AlignUp(allocSize)' = AlignUp(allocSize)
      /\ \A f : CodeBytes(f)' = CodeBytes(f)
      /\ \A f, n : IsIndexOf(f, n)' = IsIndexOf(f, n)
  BY <1>1, SizesUnchanged
<1>3. pagesNum \in Nat
  BY PagesCover DEF TableInvariant, count
<1> HIDE DEF pagesNum, count
<1>4. CASE ProtectFails
  <2>1. stage = "protect" /\ stage' = "failed" /\ code' = code /\ index' = index
    BY <1>4 DEF ProtectFails
  <2>2. \A f \in 0..(count - 1) : Untorn(f)'
    BY <1>2, <2>1, BlankUntorn DEF TableInvariant, Untorn
  <2> QED
    BY <1>1, <1>2, <2>1, <2>2 DEF TableInvariant
<1>5. CASE Protected
  <2>1. stage = "protect" /\ stage' = "zero" /\ code' = code /\ index \in Nat /\ index >= pagesNum
    BY <1>5 DEF Protected, TableInvariant
  <2>2. \A q \in 0..(pagesNum - 1) : redirectors + PageSize * q \in executable
    <3>1. \A q \in 0..(pagesNum - 1) : q \in 0..(index - 1)
      BY <1>3, <2>1
    <3> QED
      BY <2>1, <3>1, Zenon DEF TableInvariant
  <2> QED
    BY <1>1, <1>2, <2>1, <2>2 DEF TableInvariant, Blank
<1>6. CASE Clear
  <2>1. /\ stage = "zero" /\ stage' = "zero"
        /\ code' = [code EXCEPT ![redirectors + index] = Zero]
    BY <1>6 DEF Clear
  <2>2. DOMAIN code' = DOMAIN code /\ code' = [b \in DOMAIN code' |-> code'[b]]
    BY <2>1, ZenonT(60)
  <2>3. Blank'
    BY <2>1, <2>2 DEF TableInvariant, Blank
  <2> QED
    BY <1>1, <1>2, <2>1, <2>2, <2>3 DEF TableInvariant
<1>7. CASE Cleared
  <2>1. stage = "zero" /\ stage' = "ready" /\ code' = code /\ index' = index
    BY <1>7 DEF Cleared
  <2>2. \A f \in 0..(count - 1) : Untorn(f)'
    BY <1>2, <2>1, BlankUntorn DEF TableInvariant, Untorn
  <2> QED
    BY <1>1, <1>2, <2>1, <2>2 DEF TableInvariant
<1>8. CASE UNCHANGED tabVars
  <2>1. stage' = stage /\ code' = code /\ index' = index
    BY <1>8 DEF tabVars
  <2> QED
    BY <1>1, <1>2, <2>1 DEF TableInvariant, Blank, Untorn
<1> QED
  BY <1>4, <1>5, <1>6, <1>7, <1>8

\* The code written for a name fills its own slot and no byte of another.
LEMMA AddStep ==
    ASSUME TableInvariant, NEW n \in Names, AddNewFunction(n)
    PROVE  TableInvariant'
<1>1. /\ stage \in {"ready", "failed"} /\ stage' = stage /\ index' = index
      /\ names' = names /\ redirectors' = redirectors /\ executable' = executable
  BY DEF AddNewFunction
<1>2. PICK h \in 0..(count - 1) :
        /\ IsIndexOf(h, n)
        /\ code' = [b \in DOMAIN code |-> IF b \in CodeBytes(h) THEN n ELSE code[b]]
  BY DEF AddNewFunction
<1>3. /\ pagesNum' = pagesNum /\ count' = count /\ AlignUp(allocSize)' = AlignUp(allocSize)
      /\ \A f : CodeBytes(f)' = CodeBytes(f)
      /\ \A f, m : IsIndexOf(f, m)' = IsIndexOf(f, m)
  BY <1>1, SizesUnchanged
<1>4. count \in Nat /\ redirectors \in Nat
  BY <1>1 DEF TableInvariant, count
<1> HIDE DEF pagesNum, count, CodeBytes, IsIndexOf
<1>5. ASSUME NEW f \in 0..(count - 1)
      PROVE  Untorn(f)'
  <2>1. \A b \in CodeBytes(f) : b \in DOMAIN code
    BY <1>1, SlotsMapped
  <2>2. CASE f = h
    <3>1. \A b \in CodeBytes(f) : code'[b] = n
      BY <1>2, <2>1, <2>2
    <3> QED
      BY <1>2, <1>3, <2>2, <3>1 DEF Untorn
  <2>3. CASE f # h
    <3>1. \A b \in CodeBytes(f) : b \notin CodeBytes(h)
      BY <1>4, <2>3, SlotsDisjoint
    <3>2. \A b \in CodeBytes(f) : code'[b] = code[b]
      BY <1>2, <2>1, <3>1
    <3>3. Untorn(f)
      BY <1>1 DEF TableInvariant
    <3> QED
      BY <1>3, <3>2, <3>3 DEF Untorn
  <2> QED
    BY <2>2, <2>3
<1>6. DOMAIN code' = DOMAIN code /\ code' = [b \in DOMAIN code' |-> code'[b]]
  BY <1>2
<1> QED
  BY <1>1, <1>3, <1>5, <1>6 DEF TableInvariant

\* Every step on the table keeps the invariant, whoever takes it.
LEMMA TableStep ==
    ASSUME TableInvariant, [RedirectorsNext]_tabVars
    PROVE  TableInvariant'
  BY MapStep, ProtectStep, ControlStep, AddStep DEF RedirectorsNext, Idle

\* The table alone is sound for every list of names, not only for those
\* that get_fn_list returns.
LEMMA TableAlone == RedirectorsSpec => []TableInvariant
<1>1. RedirectorsInit => TableInvariant
  BY RedirectorsAssumption DEF RedirectorsInit, TableInvariant
<1> QED
  BY <1>1, TableStep, PTL DEF RedirectorsSpec

-----------------------------------------------------------------------------
(* The composition *)

\* The first redirected call cuts the list of functions as get_fn_list does
\* alone: nothing else touches its value, positions or result.
THEOREM CutsAsAlone == SetupSpec => FnListSpec
<1>1. SetupInit => FnListInit
  BY DEF SetupInit
<1>2. [SetupNext]_setupVars => [FnListNext]_fnVars
  BY DEF SetupNext, setupVars, Search, SkipElfperf, GetNames, NamesComplete, LayOut, Bind
<1> QED
  BY <1>1, <1>2, PTL DEF SetupSpec, FnListSpec

\* It looks for libelfperf.so as getLibMap does alone.
THEOREM SearchesAsAlone == SetupSpec => LibMapSpec
<1>1. SetupInit => LibMapInit
  BY DEF SetupInit
<1>2. [SetupNext]_setupVars => [LibMapNext]_mapVars
  BY DEF SetupNext, setupVars, Search, SkipElfperf, GetNames, NamesComplete, LayOut, Bind
<1> QED
  BY <1>1, <1>2, PTL DEF SetupSpec, LibMapSpec

\* The table is laid out for the list that get_fn_list has completed.
LEMMA TableInvariantHolds == SetupSpec => []TableInvariant
<1>1. SetupInit => TableInvariant
  BY DEF SetupInit, TableInvariant
<1>2. ASSUME ScanInvariant, TableInvariant, [SetupNext]_setupVars
      PROVE  TableInvariant'
  <2>1. CASE UNCHANGED tabVars
    BY <1>2, <2>1, TableStep
  <2>2. CASE NamesComplete
    <3>1. /\ stage = "wait" /\ stage' = "map" /\ names' = result /\ redirectors' = redirectors
          /\ index' = index /\ executable' = executable /\ code' = code
      BY <2>2 DEF NamesComplete
    <3>2. result \in Seq(Names) /\ index = 0 /\ executable = {} /\ code = <<>>
      BY <1>2, <3>1 DEF ScanInvariant, TableInvariant
    <3> QED
      BY <3>1, <3>2 DEF TableInvariant
  <2>3. CASE LayOut \/ Bind
    <3>1. RedirectorsNext
      BY <2>3 DEF LayOut, Bind, RedirectorsNext
    <3> QED
      BY <1>2, <3>1, TableStep
  <2> QED
    BY <1>2, <2>1, <2>2, <2>3
    DEF SetupNext, setupVars, Search, SkipElfperf, GetNames, Idle
<1>3. SetupSpec => []ScanInvariant
  BY CutsAsAlone, ScanInvariantHolds, PTL
<1> QED
  BY <1>1, <1>2, <1>3, PTL DEF SetupSpec

-----------------------------------------------------------------------------
(* The theorems *)

\* For a value of any length, the size_t that get_fn_list passes to strndup
\* is not a wrapped negative number and the copy stays inside the value.
THEOREM CutsStayInside == SetupSpec => []CutInBounds
<1>1. ScanInvariant => CutInBounds
  BY DEF ScanInvariant
<1> QED
  BY <1>1, CutsAsAlone, ScanInvariantHolds, PTL

\* A value of any length that does not begin with the separator is cut into
\* exactly its fields, in their order.
THEOREM CutsIntoFields == SetupSpec => []SplitsProperly
<1>1. ScanInvariant /\ (NoLeadingColon => SplitInvariant) => SplitsProperly
  BY SplitComplete
<1> QED
  BY <1>1, CutsAsAlone, ScanInvariantHolds, SplitInvariantHolds, PTL

\* Whatever the number of loaded objects, getLibMap returns the closest
\* library of that name in the direction it searches, or NULL.
THEOREM SearchIsSound == SetupSpec => []NearestFound
<1>1. SearchInvariant => NearestFound
  BY DEF SearchInvariant
<1> QED
  BY <1>1, SearchesAsAlone, SearchInvariantHolds, PTL

\* A preloaded libelfperf.so that is not the last object is found from every
\* caller, whatever the number of loaded objects.
THEOREM PreloadWorks == SetupSpec => []PreloadedIsFound
<1>1. SearchInvariant => PreloadedIsFound
  BY DEF SearchInvariant
<1> QED
  BY <1>1, SearchesAsAlone, SearchInvariantHolds, PTL

\* After a successful initWrapperRedirectors every byte of code that
\* writeRedirectionCode can write is mapped and executable, for every page
\* size, slot size and number of functions.
THEOREM TableIsExecutable == SetupSpec => []SlotsExecutable
<1>1. TableInvariant => SlotsExecutable
  <2> SUFFICES ASSUME TableInvariant, stage = "ready",
                      NEW f \in 0..(count - 1), NEW b \in CodeBytes(f)
               PROVE  b \in DOMAIN code /\ Executable(b)
    BY DEF SlotsExecutable
  <2>1. b \in DOMAIN code
    BY SlotsMapped
  <2>2. PICK o \in Nat : b = redirectors + o /\ o < PageSize * pagesNum
    BY SlotsMapped
  <2>3. count \in Nat /\ redirectors \in Nat /\ PageSize \in Nat
    BY RedirectorsAssumption DEF TableInvariant, count
  <2>4. PICK q \in 0..(pagesNum - 1) : PageSize * q <= o /\ o < PageSize * q + PageSize
    BY <2>2, <2>3, PageOf
  <2>5. redirectors + PageSize * q \in executable
    BY <2>4 DEF TableInvariant
  <2>6. q \in Nat
    BY <2>4
  <2>7. PageSize * q \in Nat
    BY <2>3, <2>6, Z3
  <2>8. /\ redirectors + PageSize * q <= b
        /\ b < redirectors + PageSize * q + PageSize
    BY <2>2, <2>3, <2>4, <2>7
  <2> QED
    BY <2>1, <2>5, <2>8, Zenon DEF Executable
<1> QED
  BY <1>1, TableInvariantHolds, PTL

\* addNewFunction never writes into the slot of another name, for every
\* list of names, repeated ones included.
THEOREM TableIsUntorn == SetupSpec => []SlotsUntorn
<1>1. TableInvariant => SlotsUntorn
  BY DEF TableInvariant, Untorn, SlotsUntorn
<1> QED
  BY <1>1, TableInvariantHolds, PTL

\* Every page that initWrapperRedirectors passes to mprotect is one that its
\* mmap returned.
THEOREM ProtectsInside == SetupSpec => []ProtectsOwnPages
<1>1. TableInvariant => ProtectsOwnPages
  <2> SUFFICES ASSUME TableInvariant, NEW g \in executable
               PROVE  g \in DOMAIN code /\ g + PageSize - 1 \in DOMAIN code
    BY DEF ProtectsOwnPages
  <2>1. stage \notin {"wait", "map"}
    BY DEF TableInvariant
  <2>2. PICK q \in 0..(pagesNum - 1) : g = redirectors + PageSize * q
    BY DEF TableInvariant
  <2>3. /\ count \in Nat /\ redirectors \in Nat /\ PageSize \in Nat \ {0}
        /\ DOMAIN code = redirectors..(redirectors + AlignUp(allocSize) - 1)
    BY <2>1, RedirectorsAssumption DEF TableInvariant, count
  <2>4. allocSize \in Nat /\ pagesNum \in Nat /\ PageSize * pagesNum <= allocSize
    BY <2>3, PagesCover
  <2>5. AlignUp(allocSize) \in Nat /\ allocSize <= AlignUp(allocSize)
    BY <2>4, AlignUpBounds
  <2> HIDE DEF pagesNum, allocSize, AlignUp
  <2>6. q \in Nat /\ q < pagesNum /\ PageSize - 1 \in 0..(PageSize - 1)
    BY <2>2, <2>3, <2>4
  <2>7. PageSize * q + (PageSize - 1) < PageSize * pagesNum
    BY <2>3, <2>4, <2>6, SlotBelow
  <2>8. PageSize * q \in Nat /\ PageSize * pagesNum \in Nat
    BY <2>3, <2>4, <2>6, Z3
  <2> QED
    BY <2>2, <2>3, <2>4, <2>5, <2>7, <2>8
<1> QED
  BY <1>1, TableInvariantHolds, PTL
=============================================================================
