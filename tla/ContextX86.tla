----------------------------- MODULE ContextX86 -----------------------------
(***************************************************************************)
(* The context switch of thread_x86 (thread_x86_asm.S): thread_yield and   *)
(* timer_reschedule_isr both leave a full_stack_frame on the thread's      *)
(* stack and hand its address to the scheduler; a thread is resumed by     *)
(* popping the frame its tcb's sp points to.  A step is a few instructions *)
(* between which the timer may interrupt, if the interrupts are enabled.   *)
(*                                                                         *)
(* A stack is a sequence of words, its top last.  A register's value names *)
(* the thread and the computation that left it there.  Which thread the    *)
(* scheduler chooses is ThreadX86.tla's subject.                           *)
(***************************************************************************)
EXTENDS Naturals, Sequences, SequencesExt

CONSTANTS
  Main,       \* the thread that runs first
  Others,     \* the threads it may create
  MaxComputes \* bound: computations of a thread

Threads == {Main} \cup Others

ContextAssumption == Main \notin Others /\ MaxComputes \in Nat

VARIABLES
  regs,    \* the general registers; rsp is the end of the stack in use
  rip,     \* where the CPU is: in the thread's code ("run") or in the assembly
  flag,    \* the interrupt flag
  on,      \* the thread whose stack rsp points into
  stack,   \* per thread: the words up to rsp, or up to its tcb's sp
  sp,      \* per thread: the sp of its tcb, as the length of the stack; 0: none
  pready,  \* the thread that is to run
  view     \* history, per thread: what its code expects to find when it goes on

cvars == <<regs, rip, flag, on, stack, sp, pready, view>>

\* The order in which the registers are pushed, and popped.
Pushed == <<"rbp", "r15", "r14", "r13", "r12", "r11", "r10", "r9", "r8",
            "rdi", "rsi", "rbx", "rcx", "rdx", "rax">>
\* Mutant of Popped: two registers change places.
PoppedSwapped == <<"rax", "rdx", "rcx", "rsi", "rbx", "rdi", "r8", "r9", "r10",
                   "r11", "r12", "r13", "r14", "r15", "rbp">>
Popped == <<"rax", "rdx", "rcx", "rbx", "rsi", "rdi", "r8", "r9", "r10",
            "r11", "r12", "r13", "r14", "r15", "rbp">>
Regs == ToSet(Pushed)
\* What a function may change, as far as thread_yield is concerned.
Scratch == {"rax", "rcx", "rdx"}

Top(s, i) == s[Len(s) - i + 1]
Drop(s, n) == SubSeq(s, 1, Len(s) - n)

Computed(t, n) == [r \in Regs |-> <<t, n, r>>]

\* ac_thread_early_init: main runs on the boot's stack.
Init ==
  /\ regs = Computed(Main, 0)
  /\ rip = "run" /\ flag = TRUE /\ on = Main
  /\ stack = [t \in Threads |-> <<>>]
  /\ sp = [t \in Threads |-> 0]
  /\ pready = Main
  /\ view = [t \in Threads |-> [n |-> 0, known |-> Regs, flag |-> TRUE, depth |-> 0]]

-----------------------------------------------------------------------------
(* The thread's code                                                       *)

\* It computes, and calls disable_intr or restore_intr.
Compute(f) ==
  /\ rip = "run"
  /\ view[on].n < MaxComputes
  /\ regs' = Computed(on, view[on].n + 1)
  /\ flag' = f
  /\ view' = [view EXCEPT ![on].n = @ + 1, ![on].known = Regs, ![on].flag = f]
  /\ UNCHANGED <<rip, on, stack, sp, pready>>

\* init_stack_frame, for a thread that is created: the entry, its argument in rdi,
\* the default flags and an empty stack.  The other registers are what was there.
InitStackFrame(t) ==
  /\ rip = "run" /\ sp[t] = 0 /\ t # on
  /\ stack' = [stack EXCEPT ![t] = <<"ss", 0, TRUE, "cs", "run">> \o
                 [i \in DOMAIN Pushed |-> <<t, 0, Pushed[i]>>]]
  /\ sp' = [sp EXCEPT ![t] = Len(stack'[t])]
  /\ view' = [view EXCEPT ![t].known = {"rdi"}]
  /\ UNCHANGED <<regs, rip, flag, on, pready>>

\* call thread_yield: the return address is pushed.
Yield ==
  /\ rip = "run"
  /\ stack' = [stack EXCEPT ![on] = Append(@, "run")]
  /\ rip' = "yield"
  /\ view' = [view EXCEPT ![on].known = @ \ Scratch]
  /\ UNCHANGED <<regs, flag, on, sp, pready>>

-----------------------------------------------------------------------------
(* thread_yield                                                            *)

PopAddress ==
  /\ rip = "yield"
  /\ regs' = [regs EXCEPT !["rcx"] = Top(stack[on], 1)]
  /\ stack' = [stack EXCEPT ![on] = Drop(@, 1)]
  /\ rip' = "frame"
  /\ UNCHANGED <<flag, on, sp, pready, view>>

\* What aligns the stack to 16 bytes.
Padding(n) == [i \in 1 .. n |-> "pad"]

\* The words iretq pops: ss, rsp, flags, cs and rip.
IretFrame(depth, to) == <<"ss", depth, flag, "cs", to>>

PushFrame ==
  /\ rip = "frame"
  /\ stack' = [stack EXCEPT ![on] = @ \o IretFrame(Len(@), regs["rcx"])]
  /\ regs' = [regs EXCEPT !["rdx"] = Len(stack[on]), !["rax"] = "cs"]
  /\ rip' = "save"
  /\ UNCHANGED <<flag, on, sp, pready, view>>

\* The registers, and up to a word to align the stack; rbp keeps where they are.
\* The isr is at the same place, entered by an interrupt.
Save(pad) ==
  /\ rip \in {"save", "isr"}
  /\ LET words == [i \in DOMAIN Pushed |-> regs[Pushed[i]]]
     IN /\ stack' = [stack EXCEPT ![on] = @ \o words \o Padding(pad)]
        /\ regs' = [regs EXCEPT !["rbp"] = Len(stack[on]) + Len(Pushed)]
  /\ rip' = IF rip = "save" THEN "cli" ELSE "schedule"
  /\ UNCHANGED <<flag, on, sp, pready, view>>

Cli ==
  /\ rip = "cli"
  /\ flag' = FALSE
  /\ rip' = "schedule"
  /\ UNCHANGED <<regs, on, stack, sp, pready, view>>

\* thread_scheduler_intr_disabled, called with sp = rbp - 0x70: pready's sp is set,
\* and a thread that has a stack is chosen, it may be the same one.
Schedule(t) ==
  /\ rip = "schedule"
  /\ sp' = [sp EXCEPT ![pready] = regs["rbp"]]
  /\ sp'[t] # 0
  /\ pready' = t
  /\ regs' = [regs EXCEPT !["rax"] = t]
  /\ rip' = "switch"
  /\ UNCHANGED <<flag, on, stack, view>>

\* The stack of the tcb in rax.  What was pushed after its frame is given up.
Switch ==
  /\ rip = "switch"
  /\ LET t == regs["rax"]
     IN /\ on' = t
        /\ stack' = [stack EXCEPT ![t] = SubSeq(@, 1, sp[t])]
  /\ rip' = "restore"
  /\ UNCHANGED <<regs, flag, sp, pready, view>>

\* The registers are popped, and iretq pops the rest.
Restore ==
  /\ rip = "restore"
  /\ LET n == Len(Popped)
         frame == SubSeq(Drop(stack[on], n), Len(stack[on]) - n - 4, Len(stack[on]) - n)
     IN /\ regs' = [r \in Regs |-> Top(stack[on], CHOOSE i \in 1 .. n : Popped[i] = r)]
        /\ rip' = frame[5]
        /\ flag' = frame[3]
        /\ stack' = [stack EXCEPT ![on] = SubSeq(@, 1, frame[2])]
  /\ UNCHANGED <<on, sp, pready, view>>

\* The timer's interrupt: the CPU aligns the stack, pushes the frame and clears the
\* flag.
Interrupt(pad) ==
  /\ flag
  /\ stack' = [stack EXCEPT ![on] = @ \o Padding(pad) \o IretFrame(Len(@), rip)]
  /\ rip' = "isr" /\ flag' = FALSE
  /\ UNCHANGED <<regs, on, sp, pready, view>>

-----------------------------------------------------------------------------
Next ==
  \/ \E f \in BOOLEAN : Compute(f)
  \/ \E t \in Others : InitStackFrame(t)
  \/ Yield \/ PopAddress \/ PushFrame \/ Cli \/ Switch \/ Restore
  \/ \E pad \in 0 .. 1 : Save(pad) \/ Interrupt(pad)
  \/ \E t \in Threads : Schedule(t)

Spec == Init /\ [][Next]_cvars

\* A thread goes on as if it had never been switched: whatever the others did since,
\* and wherever in thread_yield it was interrupted, its code finds its registers
\* (after a yield, all that a call keeps and more), its interrupt flag and its
\* stack as it left them, and runs on its own stack, as pready.
ContextKept ==
  rip = "run" =>
    /\ pready = on
    /\ \A r \in view[on].known : regs[r] = <<on, view[on].n, r>>
    /\ flag = view[on].flag
    /\ Len(stack[on]) = view[on].depth
=============================================================================
