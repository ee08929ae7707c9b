------------------------------- MODULE FnList -------------------------------
(***************************************************************************)
(* get_fn_list (libelfperf/ld-routines.h): the one loop that cuts the      *)
(* value of ELFPERF_PROFILE_FUNCTION into names.  Every part of the system *)
(* that needs the list, or only its length, calls it again.  The value is  *)
(* a sequence of characters; positions i and k count from 0 as in C.       *)
(***************************************************************************)
EXTENDS Integers, Sequences, FiniteSets

CONSTANTS
    Chars,          \* characters other than the terminating zero
    Values,         \* values the variable may have
    Colon,
    End             \* the terminating zero

ASSUME FnListAssumption ==
    /\ Values \subseteq Seq(Chars)
    /\ Colon \in Chars
    /\ End \notin Chars

VARIABLES
    env_value, i, k, result,
    cut             \* strndup's arguments: start and length of the last name

fnVars == <<env_value, i, k, result, cut>>

\* env_value[p].
Char(p) == IF p < Len(env_value) THEN env_value[p + 1] ELSE End

FnListInit ==
    /\ env_value \in Values
    /\ i = 0
    /\ k = 0
    /\ result = <<>>
    /\ cut = [start |-> 0, len |-> 0]

AtCut == i < Len(env_value) /\ Char(i + 1) \in {Colon, End}

\* Faulty: the start of the next name skips the separator twice.
CutNameFar ==
    /\ AtCut
    /\ cut' = [start |-> k, len |-> i - k + 1]
    /\ result' = Append(result, SubSeq(env_value, k + 1, i + 1))
    /\ k' = i + 3
    /\ i' = i + 1
    /\ UNCHANGED env_value

\* Faulty: the separator becomes part of the next name.
CutNameNear ==
    /\ AtCut
    /\ cut' = [start |-> k, len |-> i - k + 1]
    /\ result' = Append(result, SubSeq(env_value, k + 1, i + 1))
    /\ k' = i + 1
    /\ i' = i + 1
    /\ UNCHANGED env_value

\* strndup(env_value + k, i - k + 1) becomes the next element.
CutName ==
    /\ AtCut
    /\ cut' = [start |-> k, len |-> i - k + 1]
    /\ result' = Append(result, SubSeq(env_value, k + 1, i + 1))
    /\ k' = i + 2
    /\ i' = i + 1
    /\ UNCHANGED env_value

SkipChar ==
    /\ i < Len(env_value)
    /\ Char(i + 1) \notin {Colon, End}
    /\ i' = i + 1
    /\ UNCHANGED <<env_value, k, result, cut>>

FnListDone == i = Len(env_value) /\ UNCHANGED fnVars

FnListNext == CutName \/ SkipChar \/ FnListDone

FnListSpec == FnListInit /\ [][FnListNext]_fnVars

-----------------------------------------------------------------------------
(* Properties *)

\* The length passed to strndup, a size_t, never comes from a negative
\* difference, and the name it copies lies within the value.
CutInBounds == cut.len >= 0 /\ cut.start + cut.len <= Len(env_value)

\* Reference: where the fields of the value start and end.
Bounds == {p \in 1..Len(env_value) : env_value[p] = Colon} \cup {0, Len(env_value) + 1}

Fields ==
    {f \in Bounds \X Bounds : f[1] < f[2] /\ \A c \in Bounds : ~(f[1] < c /\ c < f[2])}

IsSplit ==
    /\ Len(result) = Cardinality(Fields)
    /\ \A f \in Fields :
        result[Cardinality({b \in Bounds : b <= f[1]})] =
            SubSeq(env_value, f[1] + 1, f[2] - 1)

\* A value that does not begin with the separator is cut into exactly its
\* fields, empty ones and a trailing one included.
SplitsProperly ==
    i = Len(env_value) /\ env_value # <<>> /\ env_value[1] # Colon => IsSplit
=============================================================================
