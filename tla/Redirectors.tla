----------------------------- MODULE Redirectors -----------------------------
(***************************************************************************)
(* The redirector table of libelfperf.so in memory: initWrapperRedirectors *)
(* maps it, makes its pages executable one by one and clears its slots,    *)
(* and addNewFunction later writes code into the slot of a name.  Memory   *)
(* is addressed by bytes; a page is named by its first address.            *)
(***************************************************************************)
EXTENDS Integers, Sequences

CONSTANTS
    Names,
    Bases,          \* addresses mmap may return
    PageSize,       \* getpagesize()
    REDIRECTOR_SIZE,
    CodeSize,       \* bytes writeRedirectionCode writes: 24 on x64, 10 on x86
    Zero            \* what a byte holds that no code was written to

ASSUME RedirectorsAssumption ==
    /\ PageSize \in Nat \ {0}
    /\ \A base \in Bases : base \in Nat /\ base % PageSize = 0
    /\ REDIRECTOR_SIZE \in Nat \ {0}
    /\ CodeSize \in 1..REDIRECTOR_SIZE
    /\ Zero \notin Names

VARIABLES
    names,          \* context->names, numbered from 1
    redirectors,    \* context->redirectors
    index,          \* loop index: pages, then bytes of the table
    executable,     \* pages that mprotect has made executable
    code,           \* address -> whose code the byte belongs to
    stage           \* where initWrapperRedirectors is, or how it ended

tabVars == <<names, redirectors, index, executable, code, stage>>

count == Len(names)
allocSize == REDIRECTOR_SIZE * count + PageSize - 1

AlignUp(a) == PageSize * ((a + PageSize - 1) \div PageSize)

\* Faulty: the size is rounded down.
pagesNumShort == (REDIRECTOR_SIZE * count) \div PageSize

\* Faulty: one page too many.
pagesNumOver == allocSize \div PageSize + 1

pagesNum == allocSize \div PageSize

RedirectorsInit ==
    /\ names \in Seq(Names)
    /\ redirectors = 0
    /\ index = 0
    /\ executable = {}
    /\ code = <<>>
    /\ stage = "map"

\* mmap rounds the length up to whole pages and zero-fills them.
Map(base) ==
    /\ stage = "map"
    /\ redirectors' = AlignUp(base)
    /\ code' = [b \in base..(base + AlignUp(allocSize) - 1) |-> Zero]
    /\ stage' = "protect"
    /\ UNCHANGED <<names, index, executable>>

Protect ==
    /\ stage = "protect"
    /\ index < pagesNum
    /\ executable' = executable \cup {redirectors + PageSize * index}
    /\ index' = index + 1
    /\ UNCHANGED <<names, redirectors, code, stage>>

\* mprotect fails and the function returns.
ProtectFails ==
    /\ stage = "protect"
    /\ index < pagesNum
    /\ stage' = "failed"
    /\ UNCHANGED <<names, redirectors, index, executable, code>>

Protected ==
    /\ stage = "protect"
    /\ index >= pagesNum
    /\ stage' = "zero"
    /\ index' = 0
    /\ UNCHANGED <<names, redirectors, executable, code>>

\* The first word of a slot is cleared.
Clear ==
    /\ stage = "zero"
    /\ index < REDIRECTOR_SIZE * count
    /\ code' = [code EXCEPT ![redirectors + index] = Zero]
    /\ index' = index + REDIRECTOR_SIZE
    /\ UNCHANGED <<names, redirectors, executable, stage>>

Cleared ==
    /\ stage = "zero"
    /\ index >= REDIRECTOR_SIZE * count
    /\ stage' = "ready"
    /\ UNCHANGED <<names, redirectors, index, executable, code>>

\* getFunctionIndex: the first element that equals the name.
IsIndexOf(f, n) ==
    /\ f \in 0..(count - 1)
    /\ names[f + 1] = n
    /\ \A j \in 0..(f - 1) : names[j + 1] # n

\* Faulty: elements are taken for words, not for slots.
AddressOfIndexDense(f) == redirectors + f

\* getRedirectorAddressForName, for a name that is in the list.
AddressOfIndex(f) == redirectors + REDIRECTOR_SIZE * f

CodeBytes(f) == AddressOfIndex(f)..(AddressOfIndex(f) + CodeSize - 1)

\* addNewFunction, called only for names that are in the list; the caller
\* does not learn that mprotect failed.
AddNewFunction(n) ==
    /\ stage \in {"ready", "failed"}
    /\ \E f \in 0..(count - 1) :
        /\ IsIndexOf(f, n)
        /\ code' = [b \in DOMAIN code |-> IF b \in CodeBytes(f) THEN n ELSE code[b]]
    /\ UNCHANGED <<names, redirectors, index, executable, stage>>

\* Nothing is listed, or every call has been bound.
Idle == stage \in {"ready", "failed"} /\ UNCHANGED tabVars

RedirectorsNext ==
    \/ \E base \in Bases : Map(base)
    \/ Protect \/ ProtectFails \/ Protected \/ Clear \/ Cleared
    \/ \E n \in Names : AddNewFunction(n)
    \/ Idle

RedirectorsSpec == RedirectorsInit /\ [][RedirectorsNext]_tabVars

-----------------------------------------------------------------------------
(* Properties *)

Executable(b) == \E g \in executable : g <= b /\ b < g + PageSize

\* When initialisation has succeeded, every byte of code that
\* writeRedirectionCode can write is inside the mapping and executable,
\* also where slots straddle pages.
SlotsExecutable ==
    stage = "ready" =>
        \A f \in 0..(count - 1) : \A b \in CodeBytes(f) :
            b \in DOMAIN code /\ Executable(b)

\* A slot holds the whole code of the first name of its index, or none of
\* any function: registration never touches a neighbour's slot, and a name
\* listed twice owns only the first of its slots.
SlotsUntorn ==
    stage \in {"ready", "failed"} =>
        \A f \in 0..(count - 1) :
            \/ \A b \in CodeBytes(f) : code[b] = Zero
            \/ \E n \in Names :
                IsIndexOf(f, n) /\ \A b \in CodeBytes(f) : code[b] = n

\* Every page that is passed to mprotect belongs to the mapping.
ProtectsOwnPages ==
    \A g \in executable : g \in DOMAIN code /\ g + PageSize - 1 \in DOMAIN code
=============================================================================
