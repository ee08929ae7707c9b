----------------------------- MODULE WrapperAsm -----------------------------
(***************************************************************************)
(* The machine code around preProfile and postProfile: the redirector, and *)
(* the two halves of wrapper, for x86-64 and for x86.  One profiled call   *)
(* is run instruction by instruction on symbolic register contents.        *)
(*                                                                         *)
(* The stack is counted in machine words and its top comes first; an xmm   *)
(* register takes two words.  C functions may change every register that   *)
(* the calling convention lets them change.  xmm8-15 carry no arguments    *)
(* and no results and are left out.                                        *)
(***************************************************************************)
EXTENDS Naturals, Sequences, SequencesExt

CONSTANT Stacked    \* arguments of the call that are on the stack

VARIABLES
    arch,           \* "x64" or "x86"
    phase,          \* "entry" half, the "body" of the function, "exit" half, "caller"
    ip,             \* next instruction of the half that runs
    regs,
    stack,
    passed,         \* arguments preProfile was called with
    target          \* where the last ret went

vars == <<arch, phase, ip, regs, stack, passed, target>>

-----------------------------------------------------------------------------
(* The instructions *)

Push(r)       == <<"push", r>>
Pop(r)        == <<"pop", r>>
PushX(r)      == <<"pushx", r>>      \* sub $16, %rsp; movdqu r, (%rsp)
PopX(r)       == <<"popx", r>>       \* movdqu (%rsp), r; add $16, %rsp
PushVal(v)    == <<"pushval", v>>
PushAt(n)     == <<"pushat", n>>     \* push of the n-th word
MovVal(v, r)  == <<"movval", v, r>>
Load(n, r)    == <<"load", n, r>>
Store(r, n)   == <<"store", r, n>>
StoreVal(v, n) == <<"storeval", v, n>>
Xchg(r)       == <<"xchg", r>>
Drop(n)       == <<"drop", n>>
CallC(f)      == <<"call", f>>
RetI          == <<"ret">>

Each(Op(_), rs) == [i \in 1..Len(rs) |-> Op(rs[i])]

R8to15 == <<"r8", "r9", "r10", "r11", "r12", "r13", "r14", "r15">>
Xmm == <<"xmm0", "xmm1", "xmm2", "xmm3", "xmm4", "xmm5", "xmm6", "xmm7">>
AllX86 == <<"eax", "ecx", "edx", "ebx", "esp", "ebp", "esi", "edi">>   \* pushal order

\* What a C function leaves unchanged, and where it returns its results.
CalleeSaved == {"rbx", "rbp", "r12", "r13", "r14", "r15", "ebx", "ebp", "esi", "edi", "esp"}
Results == {"rax", "rdx", "xmm0", "xmm1", "eax", "edx"}

Registers(a) ==
    IF a = "x86" THEN Range(AllX86)
    ELSE Range(R8to15) \cup Range(Xmm)
            \cup {"rax", "rbx", "rcx", "rdx", "rdi", "rsi", "rbp"}

-----------------------------------------------------------------------------
(* The code *)

Redirector64 ==
    <<Push("rax"), MovVal("fcnPtr", "rax"), Push("rax"), MovVal("wrapper", "rax")>>

\* The prologue the compiler gives wrapper, undone by its first instruction.
Prologue64 == <<Push("rbp"), MovVal("frame", "rbp"), Pop("rbp")>>

\* Faulty: the two arguments are loaded before the registers are pushed.
Entry64EarlyLoad ==
    Redirector64 \o Prologue64
    \o <<Load(4, "rdi"), Load(2, "rsi"), Push("rdi"), Push("rsi")>>
    \o Each(Push, <<"rbx", "rcx", "rdx">> \o R8to15)
    \o Each(PushX, Xmm) \o <<CallC("preProfile")>> \o Each(PopX, Reverse(Xmm))
    \o Each(Pop, Reverse(<<"rdi", "rsi", "rbx", "rcx", "rdx">> \o R8to15))
    \o <<MovVal("wrapper_rp", "rax"), Store("rax", 2), Pop("rax"), Xchg("rax"), RetI>>

\* Faulty: %rax, which counts the vector arguments, is not put back.
Entry64LosesRax ==
    Redirector64 \o Prologue64
    \o <<Push("rdi"), Push("rsi"), Load(4, "rdi"), Load(2, "rsi")>>
    \o Each(Push, <<"rbx", "rcx", "rdx">> \o R8to15)
    \o Each(PushX, Xmm) \o <<CallC("preProfile")>> \o Each(PopX, Reverse(Xmm))
    \o Each(Pop, Reverse(<<"rdi", "rsi", "rbx", "rcx", "rdx">> \o R8to15))
    \o <<MovVal("wrapper_rp", "rax"), Store("rax", 2), Pop("rax"), Store("rax", 0), RetI>>

Entry64 ==
    Redirector64 \o Prologue64
    \o <<Push("rdi"), Push("rsi"), Load(4, "rdi"), Load(2, "rsi")>>
    \o Each(Push, <<"rbx", "rcx", "rdx">> \o R8to15)
    \o Each(PushX, Xmm) \o <<CallC("preProfile")>> \o Each(PopX, Reverse(Xmm))
    \o Each(Pop, Reverse(<<"rdi", "rsi", "rbx", "rcx", "rdx">> \o R8to15))
    \o <<MovVal("wrapper_rp", "rax"), Store("rax", 2), Pop("rax"), Xchg("rax"), RetI>>

Saved64 == <<"rbx", "rcx", "rdx", "rdi", "rsi">> \o R8to15

\* Faulty: postProfile's result is written over the saved %rax.
Exit64WrongSlot ==
    <<PushVal("0"), Push("rax")>> \o Each(Push, Saved64) \o Each(PushX, Xmm)
    \o <<CallC("postProfile")>>
    \o Each(PopX, Reverse(Xmm)) \o Each(Pop, Reverse(Saved64))
    \o <<Store("rax", 0), Pop("rax"), RetI>>

Exit64 ==
    <<PushVal("0"), Push("rax")>> \o Each(Push, Saved64) \o Each(PushX, Xmm)
    \o <<CallC("postProfile")>>
    \o Each(PopX, Reverse(Xmm)) \o Each(Pop, Reverse(Saved64))
    \o <<Store("rax", 1), Pop("rax"), RetI>>

Entry32 ==
    <<PushVal("fcnPtr"), Push("ebp"), MovVal("frame", "ebp"), Pop("ebp")>>
    \o Each(Push, AllX86)
    \o <<PushAt(8), PushAt(10), CallC("preProfile"), Drop(2), StoreVal("wrapper_rp", 9)>>
    \o Each(Pop, Reverse(AllX86)) \o <<RetI>>

Exit32 ==
    <<PushVal("0")>> \o Each(Push, AllX86)
    \o <<CallC("postProfile"), Store("eax", 8)>>
    \o Each(Pop, Reverse(AllX86)) \o <<RetI>>

Code ==
    CASE arch = "x64" /\ phase = "entry" -> Entry64
      [] arch = "x64" /\ phase = "exit"  -> Exit64
      [] arch = "x86" /\ phase = "entry" -> Entry32
      [] arch = "x86" /\ phase = "exit"  -> Exit32
      [] OTHER -> <<>>

-----------------------------------------------------------------------------
(* The machine *)

Sym(v) == <<"constant", v>>
Caller(r) == <<"caller's", r>>
Body(r) == <<"function's", r>>

AsmInit ==
    /\ arch \in {"x64", "x86"}
    /\ phase = "entry"
    /\ ip = 1
    /\ regs = [r \in Registers(arch) |-> Caller(r)]
    /\ stack = <<Sym("retaddr")>> \o Stacked
    /\ passed = <<>>
    /\ target = Sym("redirector")

Instr == Code[ip]
Is(op) == phase \in {"entry", "exit"} /\ ip <= Len(Code) /\ Instr[1] = op
Advance == ip' = ip + 1 /\ UNCHANGED <<arch, phase, target>>

Word(n) == stack[n + 1]
Junk(r) == <<"junk", r>>

\* Instructions that push, pop or overwrite words of the stack.
StackInstr ==
    /\ \/ Is("push") /\ stack' = <<regs[Instr[2]]>> \o stack
       \/ Is("pushval") /\ stack' = <<Sym(Instr[2])>> \o stack
       \/ Is("pushat") /\ stack' = <<Word(Instr[2])>> \o stack
       \/ Is("pushx") /\ stack' = <<regs[Instr[2]], Sym("upper half")>> \o stack
       \/ Is("store") /\ stack' = [stack EXCEPT ![Instr[3] + 1] = regs[Instr[2]]]
       \/ Is("storeval") /\ stack' = [stack EXCEPT ![Instr[3] + 1] = Sym(Instr[2])]
       \/ Is("drop") /\ stack' = SubSeq(stack, Instr[2] + 1, Len(stack))
    /\ Advance
    /\ UNCHANGED <<regs, passed>>

\* Instructions that set a register; popal skips the saved %esp.
RegisterInstr ==
    /\ \/ /\ Is("pop")
          /\ regs' = [regs EXCEPT ![Instr[2]] = IF Instr[2] = "esp" THEN @ ELSE Head(stack)]
          /\ stack' = Tail(stack)
       \/ /\ Is("popx")
          /\ regs' = [regs EXCEPT ![Instr[2]] = Head(stack)]
          /\ stack' = Tail(Tail(stack))
       \/ /\ Is("movval")
          /\ regs' = [regs EXCEPT ![Instr[3]] = Sym(Instr[2])]
          /\ UNCHANGED stack
       \/ /\ Is("load")
          /\ regs' = [regs EXCEPT ![Instr[3]] = Word(Instr[2])]
          /\ UNCHANGED stack
       \/ /\ Is("xchg")
          /\ regs' = [regs EXCEPT ![Instr[2]] = Head(stack)]
          /\ stack' = <<regs[Instr[2]]>> \o Tail(stack)
    /\ Advance
    /\ UNCHANGED passed

\* preProfile(returnAddr, functionPtr); postProfile returns realReturnAddr.
CallInstr ==
    /\ Is("call")
    /\ passed' = IF Instr[2] = "postProfile" THEN passed
                 ELSE IF arch = "x64" THEN <<regs["rdi"], regs["rsi"]>>
                 ELSE <<Word(0), Word(1)>>
    /\ regs' = [r \in Registers(arch) |->
                    IF r \in CalleeSaved THEN regs[r]
                    ELSE IF r \in {"rax", "eax"} /\ Instr[2] = "postProfile"
                    THEN passed[1]
                    ELSE Junk(r)]
    /\ Advance
    /\ UNCHANGED stack

\* The ret that ends a half.
RetInstr ==
    /\ Is("ret")
    /\ target' = Head(stack)
    /\ stack' = Tail(stack)
    /\ phase' = IF phase = "entry" THEN "body" ELSE "caller"
    /\ ip' = 1
    /\ UNCHANGED <<arch, regs, passed>>

\* The profiled function runs and returns to the address in its slot.
RunBody ==
    /\ phase = "body"
    /\ regs' = [r \in Registers(arch) |->
                    IF r \in CalleeSaved THEN regs[r]
                    ELSE IF r \in Results THEN Body(r) ELSE Junk(r)]
    /\ target' = Head(stack)
    /\ stack' = Tail(stack)
    /\ phase' = "exit"
    /\ UNCHANGED <<arch, ip, passed>>

Done == phase = "caller" /\ UNCHANGED vars

AsmNext == StackInstr \/ RegisterInstr \/ CallInstr \/ RetInstr \/ RunBody \/ Done

AsmSpec == AsmInit /\ [][AsmNext]_vars

-----------------------------------------------------------------------------
(* Properties *)

\* The profiled function starts as if it had been called directly: every
\* register, %rax and the vector registers included, and all stacked
\* arguments are the caller's; only the return slot is wrapper_rp.
EntryTransparent ==
    phase = "body" =>
        /\ target = Sym("fcnPtr")
        /\ stack = <<Sym("wrapper_rp")>> \o Stacked
        /\ regs = [r \in Registers(arch) |-> Caller(r)]

\* preProfile gets the real return address and the function, in that order.
ArgumentsPassed == passed \in {<<>>, <<Sym("retaddr"), Sym("fcnPtr")>>}

\* The caller resumes as if the function had returned directly: at its own
\* address, with the function's results, its own callee-saved registers and
\* a balanced stack.
ExitTransparent ==
    phase = "caller" =>
        /\ target = Sym("retaddr")
        /\ stack = Stacked
        /\ \A r \in Registers(arch) :
            /\ r \in Results => regs[r] = Body(r)
            /\ r \in CalleeSaved => regs[r] = Caller(r)
=============================================================================
