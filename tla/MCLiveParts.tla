----------------------------- MODULE MCLiveParts ----------------------------
(***************************************************************************)
(* The instances TLC checks of the parts of which something must happen in *)
(* the end.  As in MCSafeParts, in a behaviour one part runs, and the      *)
(* others stay in an initial state of theirs.  The fairness of each part   *)
(* is a premise of its properties: it is the one its module justifies.     *)
(*                                                                         *)
(* The threads of Posix are the part this module extends: its names are    *)
(* the ones without a prefix (Init, Next).  The others are instances.      *)
(***************************************************************************)
EXTENDS Integers, Sequences, ThreadPosix

CONSTANTS
  NULL,
  Size, WordSize, Starts, MaxAdds, Producers, Mems,  \* of the ring buffer
  Senders, Msgs,                                     \* of the list
  ReadyTcbs, IdleTcb, MainTcb, MaxTime,              \* of the ready list
  OtherVecs, MaxEvents,                              \* of the interrupts
  Setups, MaxFlush, MaxOps,                          \* of the keyboard
  ArmThreads, ArmStacks,                             \* of the ARM's threads
  IrqThreads, OneShots, IrqSlots, MaxNest, Programs  \* of the ARM's interrupts

VARIABLES
  part,   \* the part that runs
  addIdx, rmvIdx, seq, cellMem, live, pc, mem, pos, res, bcpc, cmem, ret, adds, entries,
  head, tail, next, nodeMsg, nextPtr, free, lpc, arg, prev, lcpc, cnext, lret, chain,
  ready, id, stack, waiting, deadline, now, blocked,
  ipc, idt, iflag, frames, irr, isr, lvt, pic, redir, remote, kbd, counters, reset, events,
  kpc, kcall, dev, config, out, flight, slow, tested, enabled, type, isReset, count,
  atid, pnext, pready, framed, pstack, at, got, heap,
  table, hcount, todo, rpc, hat, ok, timer, ris, source, walks, raced

\* The variables of each part.
bufVars == <<addIdx, rmvIdx, seq, cellMem, live, pc, mem, pos, res, bcpc, cmem, ret, adds,
             entries>>
listVars == <<head, tail, next, nodeMsg, nextPtr, free, lpc, arg, prev, lcpc, cnext, lret, chain>>
readyVars == <<ready, id, stack, waiting, deadline, now, blocked>>
intrVars == <<ipc, idt, iflag, frames, irr, isr, lvt, pic, redir, remote, kbd, counters,
              reset, events>>
keybVars == <<kpc, kcall, dev, config, out, flight, slow, tested, enabled, type, isReset, count>>
armVars == <<atid, pnext, pready, framed, pstack, at, got, heap>>
irqVars == <<table, hcount, todo, rpc, hat, ok, timer, ris, source, walks, raced>>
partsVars == <<part, bufVars, listVars, readyVars, intrVars, keybVars, armVars, irqVars,
               tpvars>>

Buff == INSTANCE RingBuff WITH cpc <- bcpc

\* One list: its consumer waits for one of two producers, or for nobody.
List == INSTANCE LinkList WITH
  Lists <- {"list"}, Producers <- Senders, pc <- lpc, cpc <- lcpc, ret <- lret

Ready == INSTANCE ThreadX86 WITH
  Tcbs <- ReadyTcbs, Idle <- IdleTcb, Main <- MainTcb

Intr == INSTANCE Interrupts WITH Others <- OtherVecs, isReset <- reset

Keyb == INSTANCE Keyboard WITH call <- kcall

\* The value of Setups: a keyboard at the second channel, a keyboard at the first where
\* there is no second one, or a mouse.
Attached == {<<"none", "kbd">>, <<"kbd", "no port">>, <<"mouse", "none">>}

Arm == INSTANCE ThreadArm WITH MaxThreads <- ArmThreads, Stacks <- ArmStacks, tid <- atid

Irq == INSTANCE IrqArm WITH
  Threads <- IrqThreads, Slots <- IrqSlots, count <- hcount, at <- hat

\* The value of Programs: two threads register one timer each, or one thread both.
OneOrBoth == {[p \in IrqThreads |-> IF p = "p1" THEN <<1, 2>> ELSE <<>>],
              [p \in IrqThreads |-> IF p = "p1" THEN <<1>> ELSE <<2>>]}

ASSUME Assumptions ==
  /\ Buff!SizeAssumption /\ Ready!ThreadAssumption /\ Intr!InterruptsAssumption
  /\ Keyb!KeyboardAssumption
  /\ Arm!ThreadArmAssumption /\ Irq!IrqAssumption

-----------------------------------------------------------------------------
Parts == {"ring_buff", "link_list", "thread_x86", "interrupts", "keyboard", "thread_arm",
          "irq_arm", "thread_posix"}

\* Of the initial states of a part that does not run, one is enough.
PartsInit ==
  /\ part \in Parts
  /\ Buff!Init /\ List!Init /\ Ready!Init /\ Arm!Init /\ Init
  /\ Intr!Init /\ (part # "interrupts" => redir.mask)
  /\ Keyb!Init /\ (part # "keyboard" => dev = <<"none", "kbd">> /\ slow /\ out = <<>>)
  /\ Irq!Init /\ (part # "irq_arm" => todo = CHOOSE f \in Programs : TRUE)

OthersStay ==
  /\ UNCHANGED part
  /\ IF part = "ring_buff" THEN TRUE ELSE UNCHANGED bufVars
  /\ IF part = "link_list" THEN TRUE ELSE UNCHANGED listVars
  /\ IF part = "thread_x86" THEN TRUE ELSE UNCHANGED readyVars
  /\ IF part = "interrupts" THEN TRUE ELSE UNCHANGED intrVars
  /\ IF part = "keyboard" THEN TRUE ELSE UNCHANGED keybVars
  /\ IF part = "thread_arm" THEN TRUE ELSE UNCHANGED armVars
  /\ IF part = "irq_arm" THEN TRUE ELSE UNCHANGED irqVars
  /\ IF part = "thread_posix" THEN TRUE ELSE UNCHANGED tpvars

PartsNext ==
  \/ part = "ring_buff" /\ Buff!Next /\ OthersStay
  \/ part = "link_list" /\ List!Next /\ OthersStay
  \/ part = "thread_x86" /\ Ready!Next /\ OthersStay
  \/ part = "interrupts" /\ Intr!Next /\ OthersStay
  \/ part = "keyboard" /\ Keyb!Next /\ OthersStay
  \/ part = "thread_arm" /\ Arm!Next /\ OthersStay
  \/ part = "irq_arm" /\ Irq!Next /\ OthersStay
  \/ part = "thread_posix" /\ Next /\ OthersStay

PartsSpec == PartsInit /\ [][PartsNext]_partsVars

-----------------------------------------------------------------------------
(* The fairness that the modules state, of the part that runs.             *)

ListFairness ==
  /\ \A p \in Senders :
       WF_listVars(part = "link_list" /\ (List!AddXchg(p) \/ List!AddLink(p)))
  /\ WF_listVars(part = "link_list" /\ List!Consumer("list"))

ReadyFairness ==
  /\ WF_readyVars(part = "thread_x86" /\ Ready!Tick)
  /\ \A t \in ReadyTcbs :
       WF_readyVars(part = "thread_x86" /\ Ready!pready = t /\ Ready!Reschedule)

IntrFairness ==
  /\ WF_intrVars(part = "interrupts" /\ Intr!Program)
  /\ WF_intrVars(part = "interrupts" /\ Intr!Handler)
  /\ WF_intrVars(part = "interrupts" /\ Intr!Forward)
  /\ WF_intrVars(part = "interrupts" /\ Intr!Toggle(TRUE))
  /\ \A v \in {Intr!KeyVec, Intr!TimerVec} \cup OtherVecs :
       SF_intrVars(part = "interrupts" /\ Intr!Deliver(v))

KeybFairness ==
  /\ WF_keybVars(part = "keyboard" /\ Keyb!Program)
  /\ \A c \in 1 .. 2 : WF_keybVars(part = "keyboard" /\ Keyb!Arrive(c))

ArmFairness ==
  /\ WF_armVars(part = "thread_arm" /\ Arm!Reschedule)
  /\ \A t \in Arm!Tcbs : SF_armVars(part = "thread_arm" /\ Arm!Thread(t))

IrqFairness ==
  /\ WF_irqVars(part = "irq_arm" /\ \E p \in IrqThreads : Irq!Irq(p))
  /\ \A p \in IrqThreads :
       WF_irqVars(part = "irq_arm" /\ (Irq!Handle(p) \/ Irq!Return(p)))

-----------------------------------------------------------------------------
(* The properties of the parts, each stated in its module.                 *)
(* ThreadsHaveTcbs is that of ThreadPosix.                                 *)

\* The ring buffer is a bounded queue.
ImplementsBoundedQueue == Buff!ImplementsBoundedQueue
\* An add returns, whatever the others do.
AddReturns == part = "ring_buff" => Buff!AddReturns
\* A message that was added is removed.
MsgIsRemoved == part = "link_list" => (ListFairness => List!MsgIsRemoved)
\* A thread of the x86 is at one place.
ThreadsAccounted == Ready!ThreadsAccounted
\* No thread is woken early or out of turn.
WokenInTime == Ready!WokenInTime
\* A thread that is ready, or whose time came, runs.
ThreadsRun == part = "thread_x86" => (ReadyFairness => Ready!ThreadsRun)
\* No interrupt is left in service or meets an empty gate.
HandledOrReset == Intr!HandledOrReset
\* Every key that is pressed is read.
KeysAreRead == part = "interrupts" => (IntrFairness => Intr!KeysAreRead)
\* The initialization of the keyboard ends.
InitEnds == part = "keyboard" => (KeybFairness => Keyb!InitEnds)
\* What it finds is what is there.
Identified == Keyb!Identified
\* The ring of the ARM's tcbs holds every thread, and no tcb is lost.
TcbsAccounted == Arm!TcbsAccounted
\* A thread of the ARM that was created runs.
CreatedRuns == part = "thread_arm" => (ArmFairness => Arm!CreatedRuns)
\* A handler that was registered is called.
RegisteredIsCalled == Irq!RegisteredIsCalled
\* Every expiration of a timer is handled.
Serviced == part = "irq_arm" => (IrqFairness => Irq!Serviced)
=============================================================================
