--------------------------- MODULE Wrapper_proofs ---------------------------
(***************************************************************************)
(* Proofs about Wrapper, for every number of threads, calls and signals:   *)
(* the invariant of WrapperThread_proofs holds of every thread in every    *)
(* reachable state.  The mapped contexts are shared out among the threads: *)
(* O[c] is the thread that mapped c, and a step of one thread leaves the   *)
(* contexts of the others alone.                                           *)
(***************************************************************************)
EXTENDS WrapperThread_proofs, SequenceTheorems

\* The contexts that are mapped are those of the threads.
Owned(O) ==
    /\ O \in [Ids -> Threads \cup {NULL}]
    /\ \A c \in Ids : c \in mapped <=> O[c] # NULL

At(t, O) ==
    Threaded(t, O, ctx, stack[t], shadow[t], Len(stack[t]), saved[t], Len(saved[t]),
             pc[t], reg[t], s_wrappingContext[t])

Level(t) == Len(shadow[t]) = Len(stack[t])

WrapperInv ==
    /\ TypeOK
    /\ \A t \in Threads : Level(t)
    /\ \E O : Owned(O) /\ \A t \in Threads : At(t, O)

\* A step of t leaves the other threads alone.
OthersSame(t, O, O2) ==
    /\ \A u \in Threads \ {t} :
         /\ stack'[u] = stack[u] /\ shadow'[u] = shadow[u] /\ saved'[u] = saved[u]
         /\ pc'[u] = pc[u] /\ reg'[u] = reg[u]
         /\ s_wrappingContext'[u] = s_wrappingContext[u]
    /\ \A u \in Threads \ {t} : \A c \in Ids :
         (O2[c] = u <=> O[c] = u) /\ (O[c] = u => ctx'[c] = ctx[c])

Known(t, O) ==
    Consequent(t, O, stack[t], shadow[t], Len(stack[t]), pc[t], reg[t], s_wrappingContext[t])

\* What the invariant of a thread says of its program counter and registers.
LEMMA AtSays ==
    ASSUME NEW t \in Threads, NEW O, TypeOK, At(t, O)
    PROVE  Known(t, O)
<1>1. Len(stack[t]) \in Nat /\ Len(saved[t]) \in Nat
  BY DEF TypeOK
<1> QED BY <1>1, Consequences, Zenon DEF At, Known

\* A step of one thread that keeps that thread's invariant keeps them all.
LEMMA StepKeeps ==
    ASSUME NEW t \in Threads, NEW O, NEW O2,
           TypeOK, \A u \in Threads : Level(u), \A u \in Threads : At(u, O),
           TypeOK', Level(t)', Owned(O2)', At(t, O2)', OthersSame(t, O, O2)
    PROVE  WrapperInv'
<1>1. ASSUME NEW u \in Threads \ {t} PROVE At(u, O2)' /\ Level(u)'
  <2>1. Threaded(u, O, ctx, stack[u], shadow[u], Len(stack[u]), saved[u], Len(saved[u]),
                 pc[u], reg[u], s_wrappingContext[u])
    BY Zenon DEF At
  <2>2. Len(stack[u]) \in Nat /\ Len(saved[u]) \in Nat
    BY DEF TypeOK
  <2>3. \A c \in Ids : (O2[c] = u <=> O[c] = u) /\ (O[c] = u => ctx'[c] = ctx[c])
    BY Zenon DEF OthersSame
  <2>4. Threaded(u, O2, ctx', stack[u], shadow[u], Len(stack[u]), saved[u], Len(saved[u]),
                 pc[u], reg[u], s_wrappingContext[u])
    BY <2>1, <2>2, <2>3, ThreadFrame
  <2> QED BY <2>4, Zenon DEF At, Level, OthersSame
<1>2. \A u \in Threads : At(u, O2)' /\ Level(u)'
  BY <1>1, Zenon
<1> QED BY <1>2, Zenon DEF WrapperInv

\* What a push leaves of a sequence.
LEMMA AppendFacts ==
    ASSUME NEW T, NEW s \in Seq(T), NEW x \in T
    PROVE  /\ Append(s, x) \in Seq(T)
           /\ Len(Append(s, x)) = Len(s) + 1 /\ Append(s, x)[Len(s) + 1] = x
           /\ \A i \in 1..Len(s) : Append(s, x)[i] = s[i]
OBVIOUS

\* What a pop leaves of a sequence.
LEMMA FrontFacts ==
    ASSUME NEW T, NEW s \in Seq(T), Len(s) > 0
    PROVE  /\ Front(s) \in Seq(T)
           /\ Len(Front(s)) = Len(s) - 1
           /\ \A i \in 1..(Len(s) - 1) : Front(s)[i] = s[i]
           /\ Last(s) = s[Len(s)] /\ Last(s) \in T
<1>1. Len(s) - 1 \in Nat /\ \A i \in 1..Len(s) : s[i] \in T
  OBVIOUS
<1>2. \A i \in 1..(Len(s) - 1) : s[i] \in T
  BY <1>1
<1>3. Front(s) = SubSeq(s, 1, Len(s) - 1)
  BY Zenon DEF Front
<1>4. /\ SubSeq(s, 1, Len(s) - 1) \in Seq(T)
      /\ Len(SubSeq(s, 1, Len(s) - 1)) = IF 1 <= Len(s) - 1 THEN Len(s) - 1 - 1 + 1 ELSE 0
      /\ \A i \in 1..(Len(s) - 1 - 1 + 1) : SubSeq(s, 1, Len(s) - 1)[i] = s[1 + i - 1]
  BY <1>1, <1>2, SubSeqProperties
<1>5. /\ Front(s) \in Seq(T) /\ Len(Front(s)) = Len(s) - 1
      /\ \A i \in 1..(Len(s) - 1) : Front(s)[i] = s[i]
  <2> DEFINE n == Len(s) - 1
             u == SubSeq(s, 1, n)
  <2>1. n \in Nat /\ Front(s) = u
    BY <1>1, <1>3, Zenon
  <2>2. /\ u \in Seq(T) /\ Len(u) = (IF 1 <= n THEN n - 1 + 1 ELSE 0)
        /\ \A i \in 1..(n - 1 + 1) : u[i] = s[1 + i - 1]
    BY <1>4, Zenon
  <2> HIDE DEF n, u
  <2>3. Len(u) = n
    BY <2>1, <2>2
  <2>4. \A i \in 1..n : u[i] = s[i]
    BY <2>1, <2>2
  <2>5. Front(s) \in Seq(T) /\ Len(Front(s)) = n /\ \A i \in 1..n : Front(s)[i] = s[i]
    BY <2>1, <2>2, <2>3, <2>4, Zenon
  <2> QED BY <2>5, Zenon DEF n
<1>6. Last(s) = s[Len(s)] /\ Last(s) \in T
  BY <1>1 DEF Last
<1> QED BY <1>5, <1>6, Zenon

\* The slots and the top of a stack that is not empty.
LEMMA PopFacts ==
    ASSUME NEW T, NEW s \in Seq(T), Len(s) > 0
    PROVE  /\ Front(s) \in Seq(T) /\ Len(Front(s)) = Len(s) - 1
           /\ Last(s) = s[Len(s)] /\ Last(s) \in T
           /\ SameUpTo(s, Front(s), Len(s) - 1)
BY FrontFacts, Zenon DEF SameUpTo

\* A call, profiled or not.
LEMMA CallPreserves ==
    ASSUME WrapperInv, NEW t \in Threads, NEW s \in Sites, NEW f \in Fns \cup {NULL},
           Call(t, s) \/ (f \in Fns /\ CallProfiled(t, s, f))
    PROVE  WrapperInv'
<1>0. TypeOK /\ \A u \in Threads : Level(u)
  BY Zenon DEF WrapperInv
<1>1. PICK O : Owned(O) /\ \A u \in Threads : At(u, O)
  BY Zenon DEF WrapperInv
<1>2. /\ stack[t] \in Seq(Slots) /\ shadow[t] \in Seq(Slots) /\ s \in Slots
      /\ Len(saved[t]) \in Nat /\ Len(stack[t]) \in Nat /\ Len(shadow[t]) = Len(stack[t])
  BY <1>0 DEF TypeOK, Slots, Level
<1>3. /\ stack'[t] = Append(stack[t], s) /\ shadow'[t] = Append(shadow[t], s)
      /\ saved' = saved /\ s_wrappingContext' = s_wrappingContext /\ ctx' = ctx
      /\ mapped' = mapped
  BY <1>0, Zenon DEF TypeOK, Call, CallProfiled, Push, heap, sigVars
<1>4. /\ stack'[t] \in Seq(Slots) /\ Len(stack'[t]) = Len(stack[t]) + 1
      /\ stack'[t][Len(stack[t]) + 1] = s
      /\ SameUpTo(stack[t], stack'[t], Len(stack[t]))
  BY <1>2, <1>3, AppendFacts DEF SameUpTo
<1>5. /\ shadow'[t] \in Seq(Slots) /\ Len(shadow'[t]) = Len(stack[t]) + 1
      /\ shadow'[t][Len(stack[t]) + 1] = s
      /\ SameUpTo(shadow[t], shadow'[t], Len(stack[t]))
  BY <1>2, <1>3, AppendFacts DEF SameUpTo
<1>6. pc[t] = "user" /\ pc'[t] \in {"user", "map"} /\ (pc'[t] = "map" => reg'[t].fn \in Fns)
  BY <1>0, Zenon DEF TypeOK, NoReg, Call, CallProfiled, Goto
<1>7. At(t, O)'
  <2>1. Threaded(t, O, ctx, stack[t], shadow[t], Len(stack[t]), saved[t], Len(saved[t]),
                 "user", reg[t], s_wrappingContext[t])
    BY <1>1, <1>6, Zenon DEF At
  <2>2. Threaded(t, O, ctx, stack'[t], shadow'[t], Len(stack[t]) + 1, saved[t],
                 Len(saved[t]), pc'[t], reg'[t], s_wrappingContext[t])
    BY <1>2, <1>4, <1>5, <1>6, <2>1, CallKeeps, Zenon
  <2> QED BY <1>3, <1>4, <2>2, Zenon DEF At
<1>8. TypeOK'
  <2>1. stack' \in [Threads -> Seq(Slots)] /\ shadow' \in [Threads -> Seq(Slots)]
    BY <1>0, <1>3, <1>4, <1>5, Zenon DEF TypeOK, Call, CallProfiled, Push
  <2>2. pc' \in [Threads -> PCs]
    BY <1>0, Zenon DEF TypeOK, PCs, Call, CallProfiled, Goto
  <2>3. reg' \in [Threads -> Registers]
    <3>1. [NoReg EXCEPT !.fn = f] \in Registers
      BY Zenon DEF Registers, NoReg, Pointers, Addresses
    <3> QED BY <1>0, <3>1, Zenon DEF TypeOK, Call, CallProfiled
  <2> QED BY <1>0, <1>3, <2>1, <2>2, <2>3, Zenon DEF TypeOK
<1>9. OthersSame(t, O, O)
  BY <1>0, <1>3, Zenon DEF TypeOK, OthersSame, Call, CallProfiled, Goto, Push
<1>10. Level(t)' /\ Owned(O)'
  BY <1>1, <1>3, <1>4, <1>5, Zenon DEF Level, Owned
<1> QED BY <1>0, <1>1, <1>7, <1>8, <1>9, <1>10, StepKeeps, Zenon

\* The steps of t that change its program counter and its registers only.
LEMMA LocalStep ==
    ASSUME WrapperInv, NEW t \in Threads, NEW O, Owned(O), \A u \in Threads : At(u, O),
           UNCHANGED <<stack, shadow, saved, s_wrappingContext, ctx, mapped>>,
           NEW p2 \in PCs, NEW r2 \in Registers,
           pc' = [pc EXCEPT ![t] = p2], reg' = [reg EXCEPT ![t] = r2],
           Threaded(t, O, ctx, stack[t], shadow[t], Len(stack[t]), saved[t], Len(saved[t]),
                    p2, r2, s_wrappingContext[t])
    PROVE  WrapperInv'
<1>0. TypeOK /\ \A u \in Threads : Level(u)
  BY Zenon DEF WrapperInv
<1>1. pc'[t] = p2 /\ reg'[t] = r2
  BY <1>0, Zenon DEF TypeOK
<1>2. TypeOK'
  BY <1>0, Zenon DEF TypeOK
<1>3. At(t, O)'
  BY <1>1, Zenon DEF At
<1>4. OthersSame(t, O, O)
  BY <1>0, Zenon DEF TypeOK, OthersSame
<1>5. Level(t)' /\ Owned(O)'
  BY <1>0, Zenon DEF Level, Owned
<1> QED BY <1>0, <1>2, <1>3, <1>4, <1>5, StepKeeps, Zenon

\* A tail call.
LEMMA TailCallPreserves ==
    ASSUME WrapperInv, NEW t \in Threads, NEW f \in Fns, TailCallProfiled(t, f)
    PROVE  WrapperInv'
<1>1. PICK O : Owned(O) /\ \A u \in Threads : At(u, O)
  BY Zenon DEF WrapperInv
<1>2. TypeOK
  BY Zenon DEF WrapperInv
<1> DEFINE r2 == [NoReg EXCEPT !.fn = f]
<1>3. /\ pc[t] = "user" /\ pc' = [pc EXCEPT ![t] = "map"] /\ reg' = [reg EXCEPT ![t] = r2]
      /\ stack[t] # <<>> /\ Last(stack[t]) # SIG
      /\ UNCHANGED <<stack, shadow, saved, s_wrappingContext, ctx, mapped>>
  BY Zenon DEF TailCallProfiled, Goto, heap, sigVars
<1>4. r2 \in Registers /\ r2.fn \in Fns /\ "map" \in PCs
  BY Zenon DEF Registers, NoReg, Pointers, Addresses, PCs
<1> HIDE DEF r2
<1>5. Len(stack[t]) \in Nat /\ Len(stack[t]) > 0 /\ stack[t][Len(stack[t])] # SIG
  BY <1>2, <1>3 DEF TypeOK, Last
<1>6. Threaded(t, O, ctx, stack[t], shadow[t], Len(stack[t]), saved[t], Len(saved[t]),
               "user", reg[t], s_wrappingContext[t])
  BY <1>1, <1>3, Zenon DEF At
<1>7. Threaded(t, O, ctx, stack[t], shadow[t], Len(stack[t]), saved[t], Len(saved[t]),
               "map", r2, s_wrappingContext[t])
  BY <1>4, <1>5, <1>6, TailCallKeeps, Zenon
<1> QED BY <1>1, <1>3, <1>4, <1>7, LocalStep, Zenon

\* The two outcomes of a return: at the call site, or in wrapper_rp.
LEMMA ResumePreserves ==
    ASSUME WrapperInv, NEW t \in Threads, ResumeCaller(t) \/ ResumeWrapper(t)
    PROVE  WrapperInv'
<1>1. PICK O : Owned(O) /\ \A u \in Threads : At(u, O)
  BY Zenon DEF WrapperInv
<1>2. TypeOK
  BY Zenon DEF WrapperInv
<1>3. /\ pc[t] = "resume"
      /\ UNCHANGED <<stack, shadow, saved, s_wrappingContext, ctx, mapped>>
  BY Zenon DEF ResumeCaller, ResumeWrapper, Goto, heap, sigVars, ghosts
<1>4. Len(stack[t]) \in Nat /\ reg[t] \in Registers
  BY <1>2 DEF TypeOK
<1>5. Threaded(t, O, ctx, stack[t], shadow[t], Len(stack[t]), saved[t], Len(saved[t]),
               "resume", reg[t], s_wrappingContext[t])
  BY <1>1, <1>3, Zenon DEF At
<1>6. CASE ResumeCaller(t)
  <2>1. /\ pc' = [pc EXCEPT ![t] = "user"] /\ reg' = [reg EXCEPT ![t] = NoReg]
        /\ reg[t].to # RP
    BY <1>6, WrapperAssumption, Zenon DEF ResumeCaller, Goto
  <2>2. NoReg \in Registers /\ "user" \in PCs
    BY Zenon DEF Registers, NoReg, Pointers, Addresses, PCs
  <2>3. Threaded(t, O, ctx, stack[t], shadow[t], Len(stack[t]), saved[t], Len(saved[t]),
                 "user", NoReg, s_wrappingContext[t])
    BY <1>4, <1>5, <2>1, ResumeCallerKeeps, Zenon
  <2> QED BY <1>1, <1>3, <2>1, <2>2, <2>3, LocalStep, Zenon
<1>7. CASE ResumeWrapper(t)
  <2> DEFINE r2 == [reg[t] EXCEPT !.to = NULL]
  <2>1. /\ pc' = [pc EXCEPT ![t] = "take"] /\ reg' = [reg EXCEPT ![t] = r2]
        /\ reg[t].to = RP
    BY <1>7, Zenon DEF ResumeWrapper, Goto
  <2>2. r2 \in Registers /\ r2.want = reg[t].want /\ "take" \in PCs
    BY <1>4, Zenon DEF Registers, Addresses, PCs
  <2> HIDE DEF r2
  <2>3. Threaded(t, O, ctx, stack[t], shadow[t], Len(stack[t]), saved[t], Len(saved[t]),
                 "take", r2, s_wrappingContext[t])
    BY <1>4, <1>5, <2>1, <2>2, ResumeWrapperKeeps, Zenon
  <2> QED BY <1>1, <1>3, <2>1, <2>2, <2>3, LocalStep, Zenon
<1> QED BY <1>6, <1>7, Zenon

\* wrapper_rp picks up the context.
LEMMA TakeContextPreserves ==
    ASSUME WrapperInv, NEW t \in Threads, TakeContext(t)
    PROVE  WrapperInv'
<1>1. PICK O : Owned(O) /\ \A u \in Threads : At(u, O)
  BY Zenon DEF WrapperInv
<1>2. TypeOK
  BY Zenon DEF WrapperInv
<1> DEFINE r2 == [reg[t] EXCEPT !.c = s_wrappingContext[t]]
<1>3. /\ pc[t] = "take" /\ pc' = [pc EXCEPT ![t] = "unlink"] /\ reg' = [reg EXCEPT ![t] = r2]
      /\ UNCHANGED <<stack, shadow, saved, s_wrappingContext, ctx, mapped>>
  BY Zenon DEF TakeContext, Goto, heap, sigVars, ghosts
<1>4. /\ Len(stack[t]) \in Nat /\ r2 \in Registers /\ "unlink" \in PCs
      /\ r2.want = reg[t].want /\ r2.c = s_wrappingContext[t]
  <2>1. reg[t] \in Registers /\ s_wrappingContext[t] \in Pointers /\ Len(stack[t]) \in Nat
    BY <1>2 DEF TypeOK
  <2> QED BY <2>1, Zenon DEF Registers, PCs
<1> HIDE DEF r2
<1>5. Threaded(t, O, ctx, stack[t], shadow[t], Len(stack[t]), saved[t], Len(saved[t]),
               "take", reg[t], s_wrappingContext[t])
  BY <1>1, <1>3, Zenon DEF At
<1>6. Threaded(t, O, ctx, stack[t], shadow[t], Len(stack[t]), saved[t], Len(saved[t]),
               "unlink", r2, s_wrappingContext[t])
  BY <1>4, <1>5, TakeContextKeeps, Zenon
<1> QED BY <1>1, <1>3, <1>4, <1>6, LocalStep, Zenon

\* The steps of addNewStat.
LEMMA StatsPreserve ==
    ASSUME WrapperInv, NEW t \in Threads, AcquireStats(t) \/ RecordCall(t) \/ ReleaseStats(t)
    PROVE  WrapperInv'
<1>1. PICK O : Owned(O) /\ \A u \in Threads : At(u, O)
  BY Zenon DEF WrapperInv
<1>2. TypeOK
  BY Zenon DEF WrapperInv
<1>3. PICK p2 \in Recording : pc[t] \in Recording /\ pc' = [pc EXCEPT ![t] = p2]
  BY Zenon DEF AcquireStats, RecordCall, ReleaseStats, Goto, Recording
<1>4. reg' = reg /\ UNCHANGED <<stack, shadow, saved, s_wrappingContext, ctx, mapped>>
  BY Zenon DEF AcquireStats, RecordCall, ReleaseStats, heap, sigVars, ghosts
<1>5. /\ Len(stack[t]) \in Nat /\ reg[t] \in Registers /\ p2 \in PCs
      /\ reg' = [reg EXCEPT ![t] = reg[t]]
  BY <1>2, <1>3, <1>4 DEF TypeOK, PCs, Recording
<1>6. Threaded(t, O, ctx, stack[t], shadow[t], Len(stack[t]), saved[t], Len(saved[t]),
               pc[t], reg[t], s_wrappingContext[t])
  BY <1>1, Zenon DEF At
<1>7. Threaded(t, O, ctx, stack[t], shadow[t], Len(stack[t]), saved[t], Len(saved[t]),
               p2, reg[t], s_wrappingContext[t])
  BY <1>3, <1>5, <1>6, RecordingKeeps, Zenon
<1> QED BY <1>1, <1>3, <1>4, <1>5, <1>7, LocalStep, Zenon

\* The return instruction.
LEMMA RetPreserves ==
    ASSUME WrapperInv, NEW t \in Threads, Ret(t)
    PROVE  WrapperInv'
<1>0. TypeOK /\ \A u \in Threads : Level(u)
  BY Zenon DEF WrapperInv
<1>1. PICK O : Owned(O) /\ \A u \in Threads : At(u, O)
  BY Zenon DEF WrapperInv
<1> DEFINE d == Len(stack[t])
           r2 == [NoReg EXCEPT !.to = Last(stack[t]), !.want = Last(shadow[t])]
<1>2. /\ stack[t] \in Seq(Slots) /\ shadow[t] \in Seq(Slots) /\ d \in Nat
      /\ Len(saved[t]) \in Nat /\ Len(shadow[t]) = d /\ stack[t] # <<>>
  BY <1>0 DEF TypeOK, Level, Ret
<1>3. d > 0 /\ d - 1 \in Nat /\ d = (d - 1) + 1
  BY <1>2
<1>4. /\ stack'[t] = Front(stack[t]) /\ shadow'[t] = Front(shadow[t])
      /\ saved' = saved /\ s_wrappingContext' = s_wrappingContext /\ ctx' = ctx
      /\ mapped' = mapped
  BY <1>0, Zenon DEF TypeOK, Ret, heap, sigVars
<1>5. /\ stack'[t] \in Seq(Slots) /\ Len(stack'[t]) = d - 1 /\ Last(stack[t]) = stack[t][d]
      /\ SameUpTo(stack[t], stack'[t], d - 1) /\ Last(stack[t]) \in Slots
  <2>1. stack[t] \in Seq(Slots) /\ Len(stack[t]) > 0 /\ Len(stack[t]) = d
    BY <1>2, <1>3, Zenon
  <2>2. /\ Front(stack[t]) \in Seq(Slots) /\ Len(Front(stack[t])) = Len(stack[t]) - 1
        /\ Last(stack[t]) = stack[t][Len(stack[t])] /\ Last(stack[t]) \in Slots
        /\ SameUpTo(stack[t], Front(stack[t]), Len(stack[t]) - 1)
    BY <2>1, PopFacts, Zenon
  <2> QED BY <1>4, <2>1, <2>2, Zenon
<1>6. /\ shadow'[t] \in Seq(Slots) /\ Len(shadow'[t]) = d - 1 /\ Last(shadow[t]) = shadow[t][d]
      /\ SameUpTo(shadow[t], shadow'[t], d - 1)
  <2>1. shadow[t] \in Seq(Slots) /\ Len(shadow[t]) > 0 /\ Len(shadow[t]) = d
    BY <1>2, <1>3, Zenon
  <2>2. /\ Front(shadow[t]) \in Seq(Slots) /\ Len(Front(shadow[t])) = Len(shadow[t]) - 1
        /\ Last(shadow[t]) = shadow[t][Len(shadow[t])] /\ Last(shadow[t]) \in Slots
        /\ SameUpTo(shadow[t], Front(shadow[t]), Len(shadow[t]) - 1)
    BY <2>1, PopFacts, Zenon
  <2> QED BY <1>4, <2>1, <2>2, Zenon
<1>7. pc[t] = "user" /\ pc'[t] = "resume" /\ stack[t][d] # SIG
  BY <1>0, <1>5, Zenon DEF TypeOK, Ret, Goto
<1>8. reg' = [reg EXCEPT ![t] = r2] /\ reg'[t] = r2
  BY <1>0, Zenon DEF TypeOK, Ret
<1>9. r2.to = stack[t][d] /\ r2.want = shadow[t][d]
  BY <1>5, <1>6, Zenon DEF NoReg
<1>10. Threaded(t, O, ctx, stack[t], shadow[t], d, saved[t], Len(saved[t]),
                "user", reg[t], s_wrappingContext[t])
  BY <1>1, <1>7, Zenon DEF At
<1>11. r2 \in Registers
  <2>1. shadow[t][d] \in Sites
    <3>1. Known(t, O)
      BY <1>0, <1>1, AtSays, Zenon
    <3> QED BY <1>3, <1>7, <3>1, Zenon DEF Known, Consequent
  <2>2. stack[t][d] \in Addresses
    BY <1>5, <1>7, Zenon DEF Slots, Addresses
  <2> QED BY <1>5, <1>6, <2>1, <2>2, Zenon DEF Registers, NoReg, Pointers
<1> HIDE DEF r2, d
<1>12. Threaded(t, O, ctx, stack'[t], shadow'[t], d - 1, saved[t], Len(saved[t]),
                "resume", r2, s_wrappingContext[t])
  BY <1>2, <1>3, <1>5, <1>6, <1>7, <1>9, <1>10, RetKeeps, Zenon
<1>13. At(t, O)'
  BY <1>4, <1>5, <1>7, <1>8, <1>12, Zenon DEF At
<1>14. TypeOK'
  <2>1. stack' \in [Threads -> Seq(Slots)] /\ shadow' \in [Threads -> Seq(Slots)]
    BY <1>0, <1>4, <1>5, <1>6, Zenon DEF TypeOK, Ret
  <2>2. pc' \in [Threads -> PCs] /\ reg' \in [Threads -> Registers]
    BY <1>0, <1>8, <1>11, Zenon DEF TypeOK, PCs, Ret, Goto
  <2> QED BY <1>0, <1>4, <2>1, <2>2, Zenon DEF TypeOK
<1>15. OthersSame(t, O, O)
  BY <1>0, <1>4, <1>8, Zenon DEF TypeOK, OthersSame, Ret, Goto
<1>16. Level(t)' /\ Owned(O)'
  BY <1>1, <1>4, <1>5, <1>6, Zenon DEF Level, Owned
<1> QED BY <1>0, <1>1, <1>13, <1>14, <1>15, <1>16, StepKeeps, Zenon

\* The start of a handler.
LEMMA SignalPreserves ==
    ASSUME WrapperInv, NEW t \in Threads, Signal(t)
    PROVE  WrapperInv'
<1>0. TypeOK /\ \A u \in Threads : Level(u)
  BY Zenon DEF WrapperInv
<1>1. PICK O : Owned(O) /\ \A u \in Threads : At(u, O)
  BY Zenon DEF WrapperInv
<1> DEFINE K == [pc : PCs, reg : Registers]
           k == [pc |-> pc[t], reg |-> reg[t]]
<1>2. /\ stack[t] \in Seq(Slots) /\ shadow[t] \in Seq(Slots) /\ saved[t] \in Seq(K)
      /\ SIG \in Slots /\ k \in K /\ k.pc = pc[t] /\ k.reg = reg[t]
      /\ Len(saved[t]) \in Nat /\ Len(stack[t]) \in Nat /\ Len(shadow[t]) = Len(stack[t])
  <2>1. /\ stack[t] \in Seq(Slots) /\ shadow[t] \in Seq(Slots) /\ saved[t] \in Seq(K)
        /\ pc[t] \in PCs /\ reg[t] \in Registers /\ Len(shadow[t]) = Len(stack[t])
    BY <1>0, Zenon DEF TypeOK, Level
  <2>2. Len(saved[t]) \in Nat /\ Len(stack[t]) \in Nat /\ SIG \in Slots
    BY <2>1 DEF Slots
  <2> QED BY <2>1, <2>2, Zenon
<1>3. /\ stack'[t] = Append(stack[t], SIG) /\ shadow'[t] = Append(shadow[t], SIG)
      /\ saved'[t] = Append(saved[t], k) /\ pc'[t] = "user" /\ reg'[t] = NoReg
      /\ s_wrappingContext' = s_wrappingContext /\ ctx' = ctx /\ mapped' = mapped
  BY <1>0, Zenon DEF TypeOK, Signal, heap
<1> HIDE DEF K, k
<1>4. /\ stack'[t] \in Seq(Slots) /\ Len(stack'[t]) = Len(stack[t]) + 1
      /\ stack'[t][Len(stack[t]) + 1] = SIG
      /\ SameUpTo(stack[t], stack'[t], Len(stack[t]))
  BY <1>2, <1>3, AppendFacts DEF SameUpTo
<1>5. /\ shadow'[t] \in Seq(Slots) /\ Len(shadow'[t]) = Len(stack[t]) + 1
      /\ SameUpTo(shadow[t], shadow'[t], Len(stack[t]))
  BY <1>2, <1>3, AppendFacts DEF SameUpTo
<1>6. /\ saved'[t] \in Seq(K) /\ Len(saved'[t]) = Len(saved[t]) + 1
      /\ saved'[t][Len(saved[t]) + 1] = k
      /\ SameUpTo(saved[t], saved'[t], Len(saved[t]))
  BY <1>2, <1>3, AppendFacts DEF SameUpTo
<1>7. At(t, O)'
  <2>1. Threaded(t, O, ctx, stack[t], shadow[t], Len(stack[t]), saved[t], Len(saved[t]),
                 pc[t], reg[t], s_wrappingContext[t])
    BY <1>1, Zenon DEF At
  <2>2. Threaded(t, O, ctx, stack'[t], shadow'[t], Len(stack[t]) + 1, saved'[t],
                 Len(saved[t]) + 1, "user", NoReg, s_wrappingContext[t])
    BY <1>2, <1>4, <1>5, <1>6, <2>1, SignalKeeps, Zenon
  <2> QED BY <1>3, <1>4, <1>6, <2>2, Zenon DEF At
<1>8. TypeOK'
  <2>1. stack' \in [Threads -> Seq(Slots)] /\ shadow' \in [Threads -> Seq(Slots)]
    BY <1>0, <1>3, <1>4, <1>5, Zenon DEF TypeOK, Signal
  <2>2. saved' \in [Threads -> Seq(K)]
    BY <1>0, <1>3, <1>6, Zenon DEF TypeOK, Signal, K
  <2>3. pc' \in [Threads -> PCs] /\ reg' \in [Threads -> Registers]
    <3>1. NoReg \in Registers /\ "user" \in PCs
      BY Zenon DEF Registers, NoReg, Pointers, Addresses, PCs
    <3> QED BY <1>0, <3>1, Zenon DEF TypeOK, Signal
  <2> QED BY <1>0, <1>3, <2>1, <2>2, <2>3, Zenon DEF TypeOK, K
<1>9. OthersSame(t, O, O)
  BY <1>0, <1>3, Zenon DEF TypeOK, OthersSame, Signal
<1>10. Level(t)' /\ Owned(O)'
  BY <1>1, <1>3, <1>4, <1>5, Zenon DEF Level, Owned
<1> QED BY <1>0, <1>1, <1>7, <1>8, <1>9, <1>10, StepKeeps, Zenon

\* The end of a handler.
LEMMA SigReturnPreserves ==
    ASSUME WrapperInv, NEW t \in Threads, SigReturn(t)
    PROVE  WrapperInv'
<1>0. TypeOK /\ \A u \in Threads : Level(u)
  BY Zenon DEF WrapperInv
<1>1. PICK O : Owned(O) /\ \A u \in Threads : At(u, O)
  BY Zenon DEF WrapperInv
<1> DEFINE K == [pc : PCs, reg : Registers]
           d == Len(stack[t])
           v == Len(saved[t])
<1>2. /\ stack[t] \in Seq(Slots) /\ shadow[t] \in Seq(Slots) /\ saved[t] \in Seq(K)
      /\ d \in Nat /\ v \in Nat /\ Len(shadow[t]) = d /\ stack[t] # <<>>
  <2>1. /\ stack[t] \in Seq(Slots) /\ shadow[t] \in Seq(Slots) /\ saved[t] \in Seq(K)
        /\ Len(shadow[t]) = d /\ stack[t] # <<>>
    BY <1>0, Zenon DEF TypeOK, Level, SigReturn
  <2>2. d \in Nat /\ v \in Nat
    <3> HIDE DEF K
    <3> QED BY <2>1
  <2> QED BY <2>1, <2>2, Zenon
<1>3. d > 0 /\ d - 1 \in Nat /\ d = (d - 1) + 1
  BY <1>2
<1>4. /\ stack'[t] = Front(stack[t]) /\ shadow'[t] = Front(shadow[t])
      /\ saved'[t] = Front(saved[t])
      /\ pc'[t] = Last(saved[t]).pc /\ reg'[t] = Last(saved[t]).reg
      /\ s_wrappingContext' = s_wrappingContext /\ ctx' = ctx /\ mapped' = mapped
  BY <1>0, Zenon DEF TypeOK, SigReturn, heap
<1>5. /\ stack'[t] \in Seq(Slots) /\ Len(stack'[t]) = d - 1 /\ Last(stack[t]) = stack[t][d]
      /\ SameUpTo(stack[t], stack'[t], d - 1)
  <2>1. stack[t] \in Seq(Slots) /\ Len(stack[t]) > 0 /\ Len(stack[t]) = d
    BY <1>2, <1>3, Zenon
  <2>2. /\ Front(stack[t]) \in Seq(Slots) /\ Len(Front(stack[t])) = Len(stack[t]) - 1
        /\ Last(stack[t]) = stack[t][Len(stack[t])] /\ Last(stack[t]) \in Slots
        /\ SameUpTo(stack[t], Front(stack[t]), Len(stack[t]) - 1)
    BY <2>1, PopFacts, Zenon
  <2> QED BY <1>4, <2>1, <2>2, Zenon
<1>6. /\ shadow'[t] \in Seq(Slots) /\ Len(shadow'[t]) = d - 1
      /\ SameUpTo(shadow[t], shadow'[t], d - 1)
  <2>1. shadow[t] \in Seq(Slots) /\ Len(shadow[t]) > 0 /\ Len(shadow[t]) = d
    BY <1>2, <1>3, Zenon
  <2>2. /\ Front(shadow[t]) \in Seq(Slots) /\ Len(Front(shadow[t])) = Len(shadow[t]) - 1
        /\ Last(shadow[t]) = shadow[t][Len(shadow[t])] /\ Last(shadow[t]) \in Slots
        /\ SameUpTo(shadow[t], Front(shadow[t]), Len(shadow[t]) - 1)
    BY <2>1, PopFacts, Zenon
  <2> QED BY <1>4, <2>1, <2>2, Zenon
<1>7. pc[t] = "user" /\ stack[t][d] = SIG
  BY <1>0, <1>5, Zenon DEF SigReturn
<1>8. Threaded(t, O, ctx, stack[t], shadow[t], d, saved[t], v,
               "user", reg[t], s_wrappingContext[t])
  BY <1>1, <1>7, Zenon DEF At
<1> HIDE DEF K, d, v
<1>9. v > 0
  <2>1. SameUpTo(saved[t], saved[t], v - 1)
    BY Zenon DEF SameUpTo
  <2> QED BY <1>2, <1>3, <1>5, <1>6, <1>7, <1>8, <2>1, SigReturnKeeps, Zenon
<1>10. /\ saved'[t] \in Seq(K) /\ Len(saved'[t]) = v - 1 /\ Last(saved[t]) = saved[t][v]
       /\ SameUpTo(saved[t], saved'[t], v - 1) /\ Last(saved[t]) \in K
  BY <1>2, <1>4, <1>9, FrontFacts DEF SameUpTo, v
<1>11. Threaded(t, O, ctx, stack'[t], shadow'[t], d - 1, saved'[t], v - 1,
                saved[t][v].pc, saved[t][v].reg, s_wrappingContext[t])
  BY <1>2, <1>3, <1>5, <1>6, <1>7, <1>8, <1>10, SigReturnKeeps, Zenon
<1>12. At(t, O)'
  BY <1>4, <1>5, <1>10, <1>11, Zenon DEF At
<1>13. TypeOK'
  <2>1. stack' \in [Threads -> Seq(Slots)] /\ shadow' \in [Threads -> Seq(Slots)]
    BY <1>0, <1>4, <1>5, <1>6, Zenon DEF TypeOK, SigReturn
  <2>2. saved' \in [Threads -> Seq(K)]
    BY <1>0, <1>4, <1>10, Zenon DEF TypeOK, SigReturn, K
  <2>3. pc' \in [Threads -> PCs] /\ reg' \in [Threads -> Registers]
    <3>1. Last(saved[t]).pc \in PCs /\ Last(saved[t]).reg \in Registers
      BY <1>10, Zenon DEF K
    <3> QED BY <1>0, <3>1, Zenon DEF TypeOK, SigReturn
  <2> QED BY <1>0, <1>4, <2>1, <2>2, <2>3, Zenon DEF TypeOK, K
<1>14. OthersSame(t, O, O)
  BY <1>0, <1>4, Zenon DEF TypeOK, OthersSame, SigReturn
<1>15. Level(t)' /\ Owned(O)'
  BY <1>1, <1>4, <1>5, <1>6, Zenon DEF Level, Owned
<1> QED BY <1>0, <1>1, <1>12, <1>13, <1>14, <1>15, StepKeeps, Zenon

\* The steps of t that set s_wrappingContext.
LEMMA LinkPreserves ==
    ASSUME WrapperInv, NEW t \in Threads, LinkContext(t) \/ UnlinkContext(t)
    PROVE  WrapperInv'
<1>0. TypeOK /\ \A u \in Threads : Level(u)
  BY Zenon DEF WrapperInv
<1>1. PICK O : Owned(O) /\ \A u \in Threads : At(u, O)
  BY Zenon DEF WrapperInv
<1>2. /\ stack' = stack /\ shadow' = shadow /\ saved' = saved /\ ctx' = ctx
      /\ mapped' = mapped /\ reg' = reg
  BY Zenon DEF LinkContext, UnlinkContext, sigVars, ghosts
<1>3. Len(stack[t]) \in Nat /\ Len(saved[t]) \in Nat /\ reg[t] \in Registers
  BY <1>0 DEF TypeOK
<1>4. PICK q \in Pointers :
        /\ s_wrappingContext' = [s_wrappingContext EXCEPT ![t] = q]
        /\ pc' = [pc EXCEPT ![t] = pc'[t]] /\ pc'[t] \in PCs
        /\ Threaded(t, O, ctx, stack[t], shadow[t], Len(stack[t]), saved[t], Len(saved[t]),
                    pc'[t], reg[t], q)
  <2>1. Threaded(t, O, ctx, stack[t], shadow[t], Len(stack[t]), saved[t], Len(saved[t]),
                 pc[t], reg[t], s_wrappingContext[t])
    BY <1>1, Zenon DEF At
  <2>2. CASE LinkContext(t)
    <3>1. /\ pc[t] = "link" /\ pc'[t] = "fill" /\ pc' = [pc EXCEPT ![t] = "fill"]
          /\ s_wrappingContext' = [s_wrappingContext EXCEPT ![t] = reg[t].c]
      BY <1>0, <2>2, Zenon DEF TypeOK, LinkContext, Goto
    <3>2. reg[t].c \in Pointers /\ "fill" \in PCs
      BY <1>3, Zenon DEF Registers, PCs
    <3>3. Threaded(t, O, ctx, stack[t], shadow[t], Len(stack[t]), saved[t], Len(saved[t]),
                   "fill", reg[t], reg[t].c)
      BY <1>3, <2>1, <3>1, LinkContextKeeps, Zenon
    <3> QED BY <3>1, <3>2, <3>3, Zenon
  <2>3. CASE UnlinkContext(t)
    <3>1. /\ pc[t] = "unlink" /\ pc'[t] = "lock" /\ pc' = [pc EXCEPT ![t] = "lock"]
          /\ s_wrappingContext' = [s_wrappingContext EXCEPT ![t] = ctx[reg[t].c].old]
      BY <1>0, <2>3, Zenon DEF TypeOK, UnlinkContext, Goto
    <3>2. reg[t].c \in Ids
      <4>1. pc[t] \in Holding /\ Known(t, O)
        BY <1>0, <1>1, <3>1, AtSays, Zenon DEF Holding
      <4> QED BY <4>1, Zenon DEF Known, Consequent
    <3>3. ctx[reg[t].c].old \in Pointers /\ "lock" \in PCs
      BY <1>0, <3>2, Zenon DEF TypeOK, Contexts, PCs
    <3>4. Threaded(t, O, ctx, stack[t], shadow[t], Len(stack[t]), saved[t], Len(saved[t]),
                   "lock", reg[t], ctx[reg[t].c].old)
      BY <1>3, <2>1, <3>1, UnlinkContextKeeps, Zenon
    <3> QED BY <3>1, <3>3, <3>4, Zenon
  <2> QED BY <2>2, <2>3, Zenon
<1>5. s_wrappingContext'[t] = q
  BY <1>0, <1>4, Zenon DEF TypeOK
<1>6. At(t, O)'
  BY <1>2, <1>4, <1>5, Zenon DEF At
<1>7. TypeOK'
  BY <1>0, <1>2, <1>4, Zenon DEF TypeOK
<1>8. OthersSame(t, O, O)
  BY <1>0, <1>2, <1>4, Zenon DEF TypeOK, OthersSame
<1>9. Level(t)' /\ Owned(O)'
  BY <1>0, <1>1, <1>2, Zenon DEF Level, Owned
<1> QED BY <1>0, <1>1, <1>6, <1>7, <1>8, <1>9, StepKeeps, Zenon

\* allocContext.
LEMMA MapContextPreserves ==
    ASSUME WrapperInv, NEW t \in Threads, MapContext(t)
    PROVE  WrapperInv'
<1>0. TypeOK /\ \A u \in Threads : Level(u)
  BY Zenon DEF WrapperInv
<1>1. PICK O : Owned(O) /\ \A u \in Threads : At(u, O)
  BY Zenon DEF WrapperInv
<1> DEFINE k == [old |-> s_wrappingContext[t], realReturnAddr |-> NULL, functionPtr |-> NULL]
<1>2. PICK c \in Ids : c \notin mapped /\ c = CHOOSE x \in Ids : x \notin mapped
  BY <1>0, Zenon DEF TypeOK, MapContext
<1> DEFINE r2 == [reg[t] EXCEPT !.c = c]
<1>3. /\ stack' = stack /\ shadow' = shadow /\ saved' = saved
      /\ s_wrappingContext' = s_wrappingContext
      /\ mapped' = mapped \cup {c} /\ ctx' = [ctx EXCEPT ![c] = k]
      /\ reg' = [reg EXCEPT ![t].c = c]
      /\ pc[t] = "map" /\ pc' = [pc EXCEPT ![t] = "link"]
  BY <1>2, Zenon DEF MapContext, Goto, sigVars, ghosts
<1>4. /\ Len(stack[t]) \in Nat /\ Len(saved[t]) \in Nat /\ reg[t] \in Registers
      /\ s_wrappingContext[t] \in Pointers /\ pc'[t] = "link"
  BY <1>0, <1>3 DEF TypeOK
<1>5. /\ r2 \in Registers /\ r2.c = c /\ r2.fn = reg[t].fn
  BY <1>2, <1>4, Zenon DEF Registers, Pointers
<1>6. reg' = [reg EXCEPT ![t] = r2] /\ reg'[t] = r2
  BY <1>0, <1>3, Zenon DEF TypeOK
<1>7. k \in Contexts /\ k.old = s_wrappingContext[t]
  BY <1>4, Zenon DEF Contexts, Addresses
<1> HIDE DEF r2, k
<1>8. ctx'[c] = k /\ \A b \in Ids : b # c => ctx'[b] = ctx[b]
  BY <1>0, <1>2, <1>3, Zenon DEF TypeOK
<1>9. O[c] = NULL /\ NULL \notin Threads
  BY <1>1, <1>2, WrapperAssumption, Zenon DEF Owned
<1>10. PICK O2 : O2 \in [Ids -> Threads \cup {NULL}] /\ Reowned(O, O2, c, t)
  <2>1. /\ [O EXCEPT ![c] = t] \in [Ids -> Threads \cup {NULL}]
        /\ Reowned(O, [O EXCEPT ![c] = t], c, t)
    BY <1>1, <1>2, Zenon DEF Owned, Reowned
  <2> QED BY <2>1, Zenon
<1>11. At(t, O2)'
  <2>1. Threaded(t, O, ctx, stack[t], shadow[t], Len(stack[t]), saved[t], Len(saved[t]),
                 "map", reg[t], s_wrappingContext[t])
    BY <1>1, <1>3, Zenon DEF At
  <2>2. \A b \in Ids : (O[b] = t <=> O[b] = t) /\ (O[b] = t => ctx'[b] = ctx[b])
    BY <1>8, <1>9, Zenon
  <2>3. Threaded(t, O, ctx', stack[t], shadow[t], Len(stack[t]), saved[t], Len(saved[t]),
                 "map", reg[t], s_wrappingContext[t])
    BY <1>4, <2>1, <2>2, ThreadFrame
  <2>4. ctx'[c].old = s_wrappingContext[t] /\ O[c] # t
    BY <1>7, <1>8, <1>9, Zenon
  <2>5. Threaded(t, O2, ctx', stack[t], shadow[t], Len(stack[t]), saved[t], Len(saved[t]),
                 "link", r2, s_wrappingContext[t])
    BY <1>2, <1>4, <1>5, <1>10, <2>3, <2>4, MapContextKeeps, Zenon
  <2> QED BY <1>3, <1>4, <1>6, <2>5, Zenon DEF At
<1>12. TypeOK'
  <2>1. "link" \in PCs
    BY Zenon DEF PCs
  <2> QED BY <1>0, <1>2, <1>3, <1>5, <1>6, <1>7, <2>1, Zenon DEF TypeOK
<1>13. OthersSame(t, O, O2)
  <2>1. ASSUME NEW u \in Threads \ {t}, NEW b \in Ids
        PROVE  (O2[b] = u <=> O[b] = u) /\ (O[b] = u => ctx'[b] = ctx[b])
    BY <1>8, <1>9, <1>10, Zenon DEF Reowned
  <2> QED BY <1>0, <1>3, <1>6, <2>1 DEF TypeOK, OthersSame
<1>14. Level(t)' /\ Owned(O2)'
  <2>1. Level(t)'
    BY <1>0, <1>3, Zenon DEF Level
  <2>2. ASSUME NEW b \in Ids PROVE b \in mapped' <=> O2[b] # NULL
    BY <1>1, <1>3, <1>9, <1>10, Zenon DEF Owned, Reowned
  <2> QED BY <1>10, <2>1, <2>2, Zenon DEF Owned
<1> QED BY <1>0, <1>1, <1>11, <1>12, <1>13, <1>14, StepKeeps, Zenon

\* preProfile reads the slot.
LEMMA FillContextPreserves ==
    ASSUME WrapperInv, NEW t \in Threads, FillContext(t)
    PROVE  WrapperInv'
<1>0. TypeOK /\ \A u \in Threads : Level(u)
  BY Zenon DEF WrapperInv
<1>1. PICK O : Owned(O) /\ \A u \in Threads : At(u, O)
  BY Zenon DEF WrapperInv
<1> DEFINE c == reg[t].c
           k == [ctx[c] EXCEPT !.realReturnAddr = Last(stack[t]), !.functionPtr = reg[t].fn]
<1>2. /\ stack' = stack /\ shadow' = shadow /\ saved' = saved /\ mapped' = mapped
      /\ s_wrappingContext' = s_wrappingContext /\ reg' = reg
      /\ pc[t] = "fill" /\ pc' = [pc EXCEPT ![t] = "swap"]
      /\ ctx' = [ctx EXCEPT ![c].realReturnAddr = Last(stack[t]),
                            ![c].functionPtr = reg[t].fn]
  BY Zenon DEF FillContext, Goto, sigVars, ghosts
<1>3. /\ stack[t] \in Seq(Slots) /\ Len(stack[t]) \in Nat /\ Len(saved[t]) \in Nat
      /\ reg[t] \in Registers /\ pc'[t] = "swap"
  BY <1>0, <1>2 DEF TypeOK
<1>4. Threaded(t, O, ctx, stack[t], shadow[t], Len(stack[t]), saved[t], Len(saved[t]),
               "fill", reg[t], s_wrappingContext[t])
  BY <1>1, <1>2, Zenon DEF At
<1>5. c \in Ids /\ O[c] = t
  <2>1. pc[t] \in Holding /\ Known(t, O)
    BY <1>0, <1>1, <1>2, AtSays, Zenon DEF Holding, Linking
  <2> QED BY <2>1, Zenon DEF Known, Consequent
<1>6. Len(stack[t]) >= 1 /\ stack[t][Len(stack[t])] # SIG
  <2>1. pc[t] \in Entering /\ Known(t, O)
    BY <1>0, <1>1, <1>2, AtSays, Zenon DEF Entering
  <2> QED BY <2>1, Zenon DEF Known, Consequent
<1>7. Last(stack[t]) = stack[t][Len(stack[t])] /\ Last(stack[t]) \in Addresses
  BY <1>3, <1>6 DEF Last, Slots, Addresses
<1>8. /\ k \in Contexts /\ k.old = ctx[c].old
      /\ k.realReturnAddr = stack[t][Len(stack[t])]
  <2>1. ctx[c] \in Contexts /\ reg[t].fn \in Fns \cup {NULL}
    BY <1>0, <1>3, <1>5, Zenon DEF TypeOK, Registers
  <2> QED BY <1>7, <2>1, Zenon DEF Contexts
<1>9. ctx' = [ctx EXCEPT ![c] = k]
  BY <1>0, <1>2, <1>5, Zenon DEF TypeOK, Contexts
<1> HIDE DEF k
<1>10. ctx'[c] = k /\ \A b \in Ids : b # c => ctx'[b] = ctx[b]
  BY <1>0, <1>5, <1>9, Zenon DEF TypeOK
<1>11. At(t, O)'
  <2>1. /\ ctx'[c].old = ctx[c].old /\ ctx'[c].realReturnAddr = stack[t][Len(stack[t])]
        /\ \A b \in Ids : b # c => ctx'[b] = ctx[b]
    BY <1>8, <1>10, Zenon
  <2>2. Threaded(t, O, ctx', stack[t], shadow[t], Len(stack[t]), saved[t], Len(saved[t]),
                 "swap", reg[t], s_wrappingContext[t])
    BY <1>3, <1>4, <2>1, FillContextKeeps, Zenon
  <2> QED BY <1>2, <1>3, <2>2, Zenon DEF At
<1>12. TypeOK'
  <2>1. "swap" \in PCs
    BY Zenon DEF PCs
  <2> QED BY <1>0, <1>2, <1>8, <1>9, <2>1, Zenon DEF TypeOK
<1>13. OthersSame(t, O, O)
  <2>1. ASSUME NEW u \in Threads \ {t}, NEW b \in Ids
        PROVE  O[b] = u => ctx'[b] = ctx[b]
    BY <1>5, <1>10, Zenon
  <2> QED BY <1>0, <1>2, <2>1, Zenon DEF TypeOK, OthersSame
<1>14. Level(t)' /\ Owned(O)'
  BY <1>0, <1>1, <1>2, Zenon DEF Level, Owned
<1> QED BY <1>0, <1>1, <1>11, <1>12, <1>13, <1>14, StepKeeps, Zenon

\* The wrapper plants wrapper_rp.
LEMMA SwapReturnAddrPreserves ==
    ASSUME WrapperInv, NEW t \in Threads, SwapReturnAddr(t)
    PROVE  WrapperInv'
<1>0. TypeOK /\ \A u \in Threads : Level(u)
  BY Zenon DEF WrapperInv
<1>1. PICK O : Owned(O) /\ \A u \in Threads : At(u, O)
  BY Zenon DEF WrapperInv
<1> DEFINE d == Len(stack[t])
           S2 == [stack[t] EXCEPT ![d] = RP]
<1>2. /\ shadow' = shadow /\ saved' = saved /\ mapped' = mapped /\ ctx' = ctx
      /\ s_wrappingContext' = s_wrappingContext /\ reg' = [reg EXCEPT ![t] = NoReg]
      /\ pc[t] = "swap" /\ pc' = [pc EXCEPT ![t] = "user"]
      /\ stack' = [stack EXCEPT ![t] = S2]
  BY Zenon DEF SwapReturnAddr, Goto, sigVars, ghosts, heap
<1>3. /\ stack[t] \in Seq(Slots) /\ d \in Nat /\ Len(saved[t]) \in Nat /\ RP \in Slots
      /\ pc'[t] = "user" /\ reg'[t] = NoReg /\ stack'[t] = S2 /\ Len(shadow[t]) = d
  BY <1>0, <1>2 DEF TypeOK, Slots, Level
<1>4. Threaded(t, O, ctx, stack[t], shadow[t], d, saved[t], Len(saved[t]),
               "swap", reg[t], s_wrappingContext[t])
  BY <1>1, <1>2, Zenon DEF At
<1>5. d >= 1
  <2>1. pc[t] \in Entering /\ Known(t, O)
    BY <1>0, <1>1, <1>2, AtSays, Zenon DEF Entering
  <2> QED BY <2>1, Zenon DEF Known, Consequent
<1>6. S2 \in Seq(Slots) /\ Len(S2) = d /\ S2[d] = RP /\ \A n \in 1..d : n # d => S2[n] = stack[t][n]
  <2>1. d \in 1..Len(stack[t])
    BY <1>3, <1>5
  <2> QED BY <1>3, <2>1, ExceptSeq
<1> HIDE DEF d, S2
<1>7. At(t, O)'
  <2>1. Threaded(t, O, ctx, S2, shadow[t], d, saved[t], Len(saved[t]),
                 "user", NoReg, s_wrappingContext[t])
    BY <1>3, <1>4, <1>6, SwapReturnAddrKeeps, Zenon
  <2> QED BY <1>2, <1>3, <1>6, <2>1, Zenon DEF At
<1>8. TypeOK'
  <2>1. "user" \in PCs /\ NoReg \in Registers
    BY Zenon DEF PCs, Registers, NoReg, Pointers, Addresses
  <2> QED BY <1>0, <1>2, <1>6, <2>1, Zenon DEF TypeOK
<1>9. OthersSame(t, O, O)
  BY <1>0, <1>2, Zenon DEF TypeOK, OthersSame
<1>10. Level(t)' /\ Owned(O)'
  BY <1>1, <1>2, <1>3, <1>6, Zenon DEF Level, Owned
<1> QED BY <1>0, <1>1, <1>7, <1>8, <1>9, <1>10, StepKeeps, Zenon

\* freeContext.
LEMMA UnmapContextPreserves ==
    ASSUME WrapperInv, NEW t \in Threads, UnmapContext(t)
    PROVE  WrapperInv'
<1>0. TypeOK /\ \A u \in Threads : Level(u)
  BY Zenon DEF WrapperInv
<1>1. PICK O : Owned(O) /\ \A u \in Threads : At(u, O)
  BY Zenon DEF WrapperInv
<1> DEFINE c == reg[t].c
           r2 == [reg[t] EXCEPT !.to = ctx[c].realReturnAddr, !.c = NULL]
<1>2. /\ stack' = stack /\ shadow' = shadow /\ saved' = saved /\ ctx' = ctx
      /\ s_wrappingContext' = s_wrappingContext /\ mapped' = mapped \ {c}
      /\ pc[t] = "unmap" /\ pc' = [pc EXCEPT ![t] = "resume"]
      /\ reg' = [reg EXCEPT ![t].to = ctx[c].realReturnAddr, ![t].c = NULL]
  BY Zenon DEF UnmapContext, Goto, sigVars, ghosts
<1>3. /\ Len(stack[t]) \in Nat /\ Len(saved[t]) \in Nat /\ reg[t] \in Registers
      /\ pc'[t] = "resume"
  BY <1>0, <1>2 DEF TypeOK
<1>4. Threaded(t, O, ctx, stack[t], shadow[t], Len(stack[t]), saved[t], Len(saved[t]),
               "unmap", reg[t], s_wrappingContext[t])
  BY <1>1, <1>2, Zenon DEF At
<1>5. c \in Ids /\ O[c] = t
  <2>1. pc[t] \in Holding /\ Known(t, O)
    BY <1>0, <1>1, <1>2, AtSays, Zenon DEF Holding, Hand, Recording
  <2> QED BY <2>1, Zenon DEF Known, Consequent
<1>6. r2 \in Registers /\ r2.to = ctx[c].realReturnAddr /\ r2.want = reg[t].want
  <2>1. ctx[c].realReturnAddr \in Addresses
    BY <1>0, <1>5, Zenon DEF TypeOK, Contexts
  <2> QED BY <1>3, <2>1, Zenon DEF Registers, Pointers
<1>7. reg' = [reg EXCEPT ![t] = r2] /\ reg'[t] = r2
  BY <1>0, <1>2, Zenon DEF TypeOK, Registers
<1> HIDE DEF r2
<1>8. PICK O2 : O2 \in [Ids -> Threads \cup {NULL}] /\ Reowned(O, O2, c, NULL)
  <2>1. /\ [O EXCEPT ![c] = NULL] \in [Ids -> Threads \cup {NULL}]
        /\ Reowned(O, [O EXCEPT ![c] = NULL], c, NULL)
    BY <1>1, <1>5, Zenon DEF Owned, Reowned
  <2> QED BY <2>1, Zenon
<1>9. At(t, O2)'
  <2>1. Threaded(t, O2, ctx, stack[t], shadow[t], Len(stack[t]), saved[t], Len(saved[t]),
                 "resume", r2, s_wrappingContext[t])
    BY <1>3, <1>4, <1>6, <1>8, UnmapContextKeeps, Zenon
  <2> QED BY <1>2, <1>3, <1>7, <2>1, Zenon DEF At
<1>10. TypeOK'
  <2>1. "resume" \in PCs
    BY Zenon DEF PCs
  <2> QED BY <1>0, <1>2, <1>6, <1>7, <2>1, Zenon DEF TypeOK
<1>11. OthersSame(t, O, O2)
  <2>1. NULL \notin Threads
    BY WrapperAssumption, Zenon
  <2>2. ASSUME NEW u \in Threads \ {t}, NEW b \in Ids PROVE O2[b] = u <=> O[b] = u
    BY <1>5, <1>8, <2>1, Zenon DEF Reowned
  <2> QED BY <1>0, <1>2, <1>7, <2>2, Zenon DEF TypeOK, OthersSame
<1>12. Level(t)' /\ Owned(O2)'
  <2>1. Level(t)'
    BY <1>0, <1>2, Zenon DEF Level
  <2>2. ASSUME NEW b \in Ids PROVE b \in mapped' <=> O2[b] # NULL
    BY <1>1, <1>2, <1>8, Zenon DEF Owned, Reowned
  <2> QED BY <1>8, <2>1, <2>2, Zenon DEF Owned
<1> QED BY <1>0, <1>1, <1>9, <1>10, <1>11, <1>12, StepKeeps, Zenon

-----------------------------------------------------------------------------
(* The theorems *)

\* The invariant holds before the first call.
LEMMA InitEstablishes == WrapperInit => WrapperInv
<1> SUFFICES ASSUME WrapperInit PROVE WrapperInv
  BY Zenon
<1>1. TypeOK
  <2>1. /\ NoReg \in Registers /\ "user" \in PCs
        /\ [old |-> NULL, realReturnAddr |-> NULL, functionPtr |-> NULL] \in Contexts
    BY Zenon DEF NoReg, Registers, Contexts, Pointers, Addresses, PCs
  <2> QED BY <2>1 DEF WrapperInit, TypeOK, Pointers
<1>2. \A t \in Threads : Level(t)
  BY Zenon DEF WrapperInit, Level
<1>3. PICK O : O \in [Ids -> Threads \cup {NULL}] /\ \A c \in Ids : O[c] = NULL
  <2>1. [c \in Ids |-> NULL] \in [Ids -> Threads \cup {NULL}]
    BY Zenon
  <2> QED BY <2>1, Zenon
<1>4. Owned(O)
  BY <1>3, Zenon DEF WrapperInit, Owned
<1>5. ASSUME NEW t \in Threads PROVE At(t, O)
  <2>1. /\ stack[t] = <<>> /\ Len(stack[t]) = 0 /\ Len(saved[t]) = 0 /\ pc[t] = "user"
        /\ s_wrappingContext[t] = NULL
    BY Zenon DEF WrapperInit
  <2> DEFINE el == [n \in Nat |-> NULL]
             at == [n \in Nat |-> 0]
             pl == [n \in Nat |-> TRUE]
             place == [c \in Ids |-> 0]
  <2>2. Ghosts(0, el, at, pl, at, at, place)
    BY DEF Ghosts, Pointers
  <2> HIDE DEF el, at, pl, place
  <2>3. 1..0 = {}
    OBVIOUS
  <2>4. ListOK(ctx, NULL, 0, el, at, pl) /\ PlantingOK(saved[t], 0, "user", 0, pl, at)
    BY <2>3, Zenon DEF ListOK, Innermost, PlantingOK
  <2>5. StackOK(stack[t], shadow[t], 0, 0, at, pl)
    BY <2>3, Zenon DEF StackOK
  <2>6. AddressesOK(ctx, stack[t], shadow[t], 0, 0, el, at, pl)
    BY <2>3, Zenon DEF AddressesOK
  <2>7. LevelOK(ctx, stack[t], "user", reg[t], 0, 0, el, at, pl)
    BY <2>3 DEF LevelOK, Entering, Returning, Linking, Recording
  <2>8. SavedOK(ctx, stack[t], 0, saved[t], 0, 0, el, at, pl, at, at)
    BY <2>3, Zenon DEF SavedOK
  <2>9. OwnOK(t, O, saved[t], 0, "user", reg[t], 0, el, place)
    <3>1. \A c \in Ids : O[c] # t
      BY <1>3, WrapperAssumption, Zenon
    <3> QED BY <2>3, <3>1, Zenon DEF OwnOK, Hand, Recording
  <2>10. ThreadOK(t, O, ctx, stack[t], shadow[t], 0, saved[t], 0, "user", reg[t], NULL,
                  0, el, at, pl, at, at, place)
    BY <2>2, <2>4, <2>5, <2>6, <2>7, <2>8, <2>9, Zenon DEF ThreadOK
  <2>11. Threaded(t, O, ctx, stack[t], shadow[t], 0, saved[t], 0, "user", reg[t], NULL)
    BY <2>10, Zenon DEF Threaded
  <2> QED BY <2>1, <2>11, Zenon DEF At
<1> QED BY <1>1, <1>2, <1>4, <1>5, Zenon DEF WrapperInv

\* A step that changes nothing.
LEMMA StutterKeeps ==
    ASSUME WrapperInv, UNCHANGED vars
    PROVE  WrapperInv'
<1>1. PICK O : Owned(O) /\ \A t \in Threads : At(t, O)
  BY Zenon DEF WrapperInv
<1>2. TypeOK' /\ \A t \in Threads : Level(t)'
  BY Zenon DEF WrapperInv, TypeOK, Level, vars
<1>3. Owned(O)' /\ \A t \in Threads : At(t, O)'
  BY <1>1, Zenon DEF Owned, At, vars
<1> QED BY <1>2, <1>3, Zenon DEF WrapperInv

\* Every step of the program preserves the invariant.
LEMMA NextPreserves == WrapperInv /\ [WrapperNext]_vars => WrapperInv'
<1> SUFFICES ASSUME WrapperInv, [WrapperNext]_vars PROVE WrapperInv'
  BY Zenon
<1>1. CASE UNCHANGED vars \/ Finished
  BY <1>1, StutterKeeps, Zenon DEF Finished
<1>2. ASSUME NEW t \in Threads, Program(t) PROVE WrapperInv'
  <2>1. CASE \E s \in Sites : Call(t, s)
    BY <2>1, CallPreserves, Zenon
  <2>2. CASE \E s \in Sites, f \in Fns : CallProfiled(t, s, f)
    BY <2>2, CallPreserves, Zenon
  <2>3. CASE \E f \in Fns : TailCallProfiled(t, f)
    BY <2>3, TailCallPreserves, Zenon
  <2> QED BY <1>2, <2>1, <2>2, <2>3, Zenon, RetPreserves, ResumePreserves, SignalPreserves,
             SigReturnPreserves DEF Program
<1>3. ASSUME NEW t \in Threads, Profile(t) PROVE WrapperInv'
  <2>1. CASE SpinForStats(t)
    BY <2>1, StutterKeeps, Zenon DEF SpinForStats
  <2> QED BY <1>3, <2>1, Zenon, MapContextPreserves, LinkPreserves, FillContextPreserves,
             SwapReturnAddrPreserves, TakeContextPreserves, StatsPreserve,
             UnmapContextPreserves DEF Profile
<1> QED BY <1>1, <1>2, <1>3, Zenon DEF WrapperNext

\* Every reachable state has the context lists, stacks and interrupted code
\* of preProfile, postProfile and wrapper in the relation of the invariant.
THEOREM WrapperInvariant == WrapperSpec => []WrapperInv
BY InitEstablishes, NextPreserves, PTL DEF WrapperSpec

\* Profiling is transparent to control flow: with any number of threads,
\* nested calls, tail calls and signal handlers, a return through wrapper_rp
\* ends at the call site the program would return to without profiling.
THEOREM ReturnsAlwaysToCaller == WrapperSpec => []ReturnsToCaller
<1>1. WrapperInv => ReturnsToCaller
  <2> SUFFICES ASSUME WrapperInv, NEW t \in Threads, pc[t] = "resume", reg[t].to # RP
               PROVE  reg[t].to = reg[t].want
    BY Zenon DEF ReturnsToCaller
  <2>1. PICK O : Known(t, O)
    BY AtSays, Zenon DEF WrapperInv
  <2> QED BY <2>1, Zenon DEF Known, Consequent
<1> QED BY <1>1, WrapperInvariant, PTL

\* preProfile and postProfile touch mapped contexts only, and a return
\* through wrapper_rp always finds one in s_wrappingContext.
THEOREM ContextsAlwaysLive == WrapperSpec => []ContextsLive
<1>1. WrapperInv => ContextsLive
  <2> SUFFICES ASSUME WrapperInv, NEW t \in Threads
               PROVE  /\ pc[t] = "take" => s_wrappingContext[t] \in mapped
                      /\ pc[t] \in Holding => reg[t].c \in mapped
    BY Zenon DEF ContextsLive, Holding, Hand, Linking, Recording
  <2>1. PICK O : Owned(O) /\ Known(t, O)
    BY AtSays, Zenon DEF WrapperInv
  <2> QED BY <2>1, WrapperAssumption, Zenon DEF Owned, Known, Consequent
<1> QED BY <1>1, WrapperInvariant, PTL

\* postProfile unmaps what preProfile has mapped: when every call of every
\* thread has returned, no context is left.
THEOREM NothingEverLeaks == WrapperSpec => []NothingLeaks
<1>1. WrapperInv => NothingLeaks
  <2> SUFFICES ASSUME WrapperInv, Quiet, NEW c \in mapped PROVE FALSE
    BY Zenon DEF NothingLeaks
  <2>1. PICK O : Owned(O) /\ \A t \in Threads : At(t, O)
    BY Zenon DEF WrapperInv
  <2>2. c \in Ids /\ O[c] \in Threads
    BY <2>1, Zenon DEF WrapperInv, TypeOK, Owned
  <2> DEFINE t == O[c]
  <2>3. pc[t] = "user" /\ Len(stack[t]) = 0 /\ Known(t, O)
    BY <2>1, <2>2, AtSays DEF WrapperInv, Quiet
  <2> QED BY <2>2, <2>3, Zenon DEF Known, Consequent
<1> QED BY <1>1, WrapperInvariant, PTL
=============================================================================
