----------------------------- MODULE Interrupts -----------------------------
(***************************************************************************)
(* Interrupts on x86: what ac_init does to the IDT, the PIC, the local     *)
(* APIC and the IOAPIC before it enables them, the handlers, and a driver  *)
(* that takes an interrupt into use (as the keyboard's test does): it      *)
(* programs the redirection entry, sets the handler and enables the        *)
(* device, while timer, stray and device interrupts go on.                 *)
(*                                                                         *)
(* One processor.  An interrupt gate clears IF, so a handler is entered    *)
(* (Deliver, Stray, SoftInt) and run to its iret (a Handler's action) in   *)
(* two steps that no other interrupt comes between.                        *)
(*                                                                         *)
(* External: the APIC's registers irr and isr, the IOAPIC's level          *)
(* triggered delivery with its remote irr bit, the PIC, the device.        *)
(***************************************************************************)
EXTENDS Integers, Sequences, FiniteSets

CONSTANTS Others,       \* vectors that keep their intr_undefined handler
          MaxEvents     \* bound: key presses, software and stray interrupts

KeyVec == 33            \* 0x20 + keyboard_irq
PicVec == 32            \* IRQ 0 of the PIC once it is remapped
TimerVec == 253         \* TIMER_RESCHEDULE_ISR_INTR
ReschedVec == 254       \* RESCHEDULE_ISR_INTR
Spurious == 255         \* APIC_SPURIOUS_VECTOR
\* The vectors for which initialize_intr_descriptor_table sets handlers that
\* reset the machine: 15 is reserved, the rest of the first 32 undefined.
Exceptions == 0 .. 14 \cup 16 .. 20
WithErrorCode == {8, 17} \cup 10 .. 14     \* the expt_ handlers, not the intr_ ones
Vectors == Exceptions \cup {KeyVec, PicVec, TimerVec, ReschedVec, Spurious} \cup Others

InterruptsAssumption ==
  /\ Others \subseteq Nat
  /\ Others \cap (Exceptions \cup {KeyVec, PicVec, TimerVec, ReschedVec, Spurious}) = {}

VARIABLES
  ipc,      \* where the boot, then the driver, is
  idt,      \* the gates: [p |-> present, ih |-> handler]
  iflag,    \* the interrupt flag
  frames,   \* the interrupt being handled: <<>> or one vector, and where from
  irr, isr, \* the APIC: requested vectors, vectors in service
  lvt,      \* the APIC timer's vector, 0 while disabled
  pic,      \* the PIC: [base |-> its first vector, masked |-> all masked]
  redir,    \* the keyboard's redirection entry: [vec, mask]
  remote,   \* its remote irr: delivered, and no EOI yet
  kbd,      \* the device: [on |-> it interrupts, keys |-> pressed and not read]
  counters, \* how often the handlers of undefined vectors ran
  isReset,  \* reset_x86 was called
  events    \* key presses, software and stray interrupts so far

ivars == <<ipc, idt, iflag, frames, irr, isr, lvt, pic, redir, remote, kbd, counters,
           isReset, events>>

Gate(h) == [p |-> TRUE, ih |-> h]
NoGate == [p |-> FALSE, ih |-> "none"]   \* INTR_GATE_INITIALIZER

Init ==
  /\ ipc = "idt"
  /\ idt = [v \in Vectors |-> NoGate]
  /\ iflag = FALSE
  /\ frames = <<>>
  /\ irr = {}
  /\ isr = {}
  /\ lvt = 0
  /\ pic = [base |-> 8, masked |-> FALSE]
  /\ redir \in {[vec |-> 0, mask |-> TRUE]} \cup {[vec |-> v, mask |-> FALSE] : v \in Others}
  /\ remote = FALSE
  /\ kbd = [on |-> TRUE, keys |-> 0]
  /\ counters = [v \in Vectors |-> 0]
  /\ isReset = FALSE
  /\ events = 0

-----------------------------------------------------------------------------
(* ac_init, with interrupts disabled.                                      *)

InThread == frames = <<>> /\ ~isReset
Boot(from, to) == ipc = from /\ ipc' = to /\ InThread

\* init_idt_to_undefined gives every vector the handler of its own that counts.
AllUndefined == [v \in Vectors |-> Gate("undefined")]

\* Then come the handlers of the exceptions.
Handlers0 == [v \in Vectors |-> IF v \in Exceptions THEN Gate("exception")
                                                    ELSE AllUndefined[v]]
InitIdt ==
  /\ Boot("idt", "apic")
  /\ idt' = Handlers0
  /\ counters' = [v \in Vectors |-> IF v \in Exceptions \ {7, 9} THEN 0 ELSE counters[v]]
  /\ UNCHANGED <<iflag, frames, irr, isr, lvt, pic, redir, remote, kbd, isReset, events>>

\* remap_pic_vectors(0x20, 0x28), then both masks 0xff.
DisabledPic == [base |-> 32, masked |-> TRUE]

\* apic_early_init; ac_init resets when there is no APIC.
InitApic ==
  /\ Boot("apic", "thread")
  /\ \/ /\ pic' = DisabledPic
        /\ idt' = [idt EXCEPT ![Spurious] = Gate("spurious")]
        /\ UNCHANGED isReset
     \/ isReset' = TRUE /\ UNCHANGED <<pic, idt>>
  /\ UNCHANGED <<iflag, frames, irr, isr, lvt, redir, remote, kbd, counters, events>>

\* ac_thread_early_init: the timer (TSC deadline mode) first, then the handlers;
\* init_timer resets a processor without that mode.
InitThread ==
  /\ Boot("thread", "ioapic")
  /\ \/ /\ lvt' = TimerVec
        /\ idt' = [idt EXCEPT ![ReschedVec] = Gate("reschedule"),
                              ![TimerVec] = Gate("timer_reschedule")]
        /\ UNCHANGED isReset
     \/ isReset' = TRUE /\ UNCHANGED <<lvt, idt>>
  /\ UNCHANGED <<iflag, frames, irr, isr, pic, redir, remote, kbd, counters, events>>

\* What ioapic_early_init writes to every redirection entry.
MaskedEntry == [vec |-> 0, mask |-> TRUE]

\* It is edge triggered, which clears the remote irr firmware's entry may have.
InitIoapic ==
  /\ Boot("ioapic", "keyboard")
  /\ redir' = MaskedEntry
  /\ remote' = FALSE
  /\ UNCHANGED <<idt, iflag, frames, irr, isr, lvt, pic, kbd, counters, isReset, events>>

\* What ac_keyboard_early_init (Keyboard.tla) leaves: CFG_PORT1_DISABLED, flushed.
InitKeyboard ==
  /\ Boot("keyboard", "sti")
  /\ kbd' = [on |-> FALSE, keys |-> 0]
  /\ UNCHANGED <<idt, iflag, frames, irr, isr, lvt, pic, redir, remote, counters, isReset, events>>

Sti ==
  /\ Boot("sti", "route")
  /\ iflag' = TRUE
  /\ UNCHANGED <<idt, frames, irr, isr, lvt, pic, redir, remote, kbd, counters, isReset, events>>

-----------------------------------------------------------------------------
(* The driver.  set_intr_gate clears the gate and then fills it, and       *)
(* set_intr_handler does not disable interrupts.                           *)

\* ioapic_set_redir: the low word, with the vector and the mask, first.
Route ==
  /\ Boot("route", "clear")
  /\ redir' = [vec |-> KeyVec, mask |-> FALSE]
  /\ UNCHANGED <<idt, iflag, frames, irr, isr, lvt, pic, remote, kbd, counters, isReset, events>>

ClearGate ==
  /\ Boot("clear", "fill")
  /\ idt' = [idt EXCEPT ![KeyVec] = NoGate]
  /\ UNCHANGED <<iflag, frames, irr, isr, lvt, pic, redir, remote, kbd, counters, isReset, events>>

FillGate ==
  /\ Boot("fill", "enable")
  /\ idt' = [idt EXCEPT ![KeyVec] = Gate("keyboard")]
  /\ UNCHANGED <<iflag, frames, irr, isr, lvt, pic, redir, remote, kbd, counters, isReset, events>>

\* keyboard_intr_enable.
EnableDevice ==
  /\ Boot("enable", "running")
  /\ kbd' = [kbd EXCEPT !.on = TRUE]
  /\ UNCHANGED <<idt, iflag, frames, irr, isr, lvt, pic, redir, remote, counters, isReset, events>>

-----------------------------------------------------------------------------
(* The hardware.                                                           *)

Event == events < MaxEvents /\ ~isReset /\ events' = events + 1

Press ==
  /\ Event
  /\ kbd' = [kbd EXCEPT !.keys = @ + 1]
  /\ UNCHANGED <<ipc, idt, iflag, frames, irr, isr, lvt, pic, redir, remote, counters, isReset>>

Forwards(k, r) == k.on /\ k.keys > 0 /\ ~r.mask

\* The IOAPIC forwards a level that is asserted and not being served.
Forward ==
  /\ ~isReset
  /\ Forwards(kbd, redir) /\ ~remote
  /\ remote' = TRUE
  /\ irr' = irr \cup {redir.vec}
  /\ UNCHANGED <<ipc, idt, iflag, frames, isr, lvt, pic, redir, kbd, counters, isReset, events>>

\* The TSC passes the deadline: that of the next slice, which is longer than the
\* handler that sets it.
TimerExpires ==
  /\ ~isReset
  /\ frames # <<>> => frames[1].vec # TimerVec
  /\ lvt # 0
  /\ irr' = irr \cup {lvt}
  /\ UNCHANGED <<ipc, idt, iflag, frames, isr, lvt, pic, redir, remote, kbd, counters, isReset, events>>

\* The processor enters the handler of v: with no gate, or before there is an
\* IDT, a fault, for which reset_x86 is called in the end.
Enter(v, from) ==
  /\ frames' = <<[vec |-> v, from |-> from, iflag |-> iflag]>>
  /\ iflag' = FALSE
  /\ isReset' = ~idt[v].p

\* An interrupt of the APIC, the highest vector first.
Deliver(v) ==
  /\ InThread /\ iflag
  /\ v \in irr
  /\ \A u \in irr : u <= v
  /\ \A u \in isr : u < v
  /\ irr' = irr \ {v}
  /\ isr' = isr \cup {v}
  /\ Enter(v, "apic")
  /\ UNCHANGED <<ipc, idt, lvt, pic, redir, remote, kbd, counters, events>>

\* A stray interrupt: the spurious one of the APIC, which is not in service, or
\* IRQ 0 of the PIC.
Stray ==
  /\ InThread /\ iflag /\ Event
  /\ \/ Enter(Spurious, "stray")
     \/ ~pic.masked /\ Enter(pic.base, "pic")
  /\ UNCHANGED <<ipc, idt, irr, isr, lvt, pic, redir, remote, kbd, counters>>

\* An exception, or the instruction int (as the interrupts' test executes it), with
\* interrupts enabled or not.  Nothing raises ReschedVec: thread_yield calls the
\* scheduler itself.
SoftInt(v) ==
  /\ v \in Exceptions \cup Others
  /\ InThread /\ Event
  /\ ipc \notin {"idt", "apic", "thread"}
  /\ Enter(v, "int")
  /\ UNCHANGED <<ipc, idt, irr, isr, lvt, pic, redir, remote, kbd, counters>>

\* disable_intr and restore_intr around a thread's critical sections.
Toggle(on) ==
  /\ InThread /\ ipc = "running"
  /\ iflag = ~on
  /\ iflag' = on
  /\ UNCHANGED <<ipc, idt, frames, irr, isr, lvt, pic, redir, remote, kbd, counters, isReset, events>>

-----------------------------------------------------------------------------
(* The handlers.                                                           *)

Handles(h) == ~isReset /\ frames # <<>> /\ idt[frames[1].vec].ih = h

Iret == iflag' = frames[1].iflag /\ frames' = <<>>

\* Mutant of Eoi: a handler that does not send it.
NoEoi == UNCHANGED <<isr, remote>>

\* send_apic_eoi ends the highest interrupt in service, if there is one; the
\* IOAPIC sees that of a level triggered one.
Eoi ==
  LET top == IF isr = {} THEN {} ELSE {CHOOSE w \in isr : \A u \in isr : u <= w}
  IN /\ isr' = isr \ top
     /\ remote' = (remote /\ redir.vec \notin top)

\* INTR_UNDEFINED: count, and send the EOI.
Undefined ==
  /\ Handles("undefined")
  /\ counters' = [counters EXCEPT ![frames[1].vec] = @ + 1]
  /\ Eoi /\ Iret
  /\ UNCHANGED <<ipc, idt, irr, lvt, pic, redir, kbd, isReset, events>>

\* The exceptions: count, print and reset_x86, which does not return.
Intr(vecs) ==
  /\ Handles("exception")
  /\ frames[1].vec \in vecs
  /\ counters' = [counters EXCEPT ![frames[1].vec] = @ + 1]
  /\ isReset' = TRUE
  /\ UNCHANGED <<ipc, idt, iflag, frames, irr, isr, lvt, pic, redir, remote, kbd, events>>

Exception == Intr(Exceptions \ WithErrorCode)
ErrorException == Intr(WithErrorCode)

\* apic_spurious_interrupt_isr sends no EOI.
SpuriousIsr ==
  /\ Handles("spurious")
  /\ Iret
  /\ UNCHANGED <<ipc, idt, irr, isr, lvt, pic, redir, remote, kbd, counters, isReset, events>>

\* timer_reschedule_isr: the scheduler's part is ThreadX86.tla.
TimerReschedule ==
  /\ Handles("timer_reschedule")
  /\ Eoi /\ Iret
  /\ UNCHANGED <<ipc, idt, irr, lvt, pic, redir, kbd, counters, isReset, events>>

\* The driver's handler reads one byte, if the status says that there is one.
KeyboardIsr ==
  /\ Handles("keyboard")
  /\ kbd' = [kbd EXCEPT !.keys = IF @ > 0 THEN @ - 1 ELSE 0]
  /\ Eoi /\ Iret
  /\ UNCHANGED <<ipc, idt, irr, lvt, pic, redir, counters, isReset, events>>

-----------------------------------------------------------------------------

Handler == Undefined \/ Exception \/ ErrorException \/ SpuriousIsr \/ TimerReschedule \/ KeyboardIsr
Program ==
  \/ InitIdt \/ InitApic \/ InitThread \/ InitIoapic \/ InitKeyboard \/ Sti
  \/ Route \/ ClearGate \/ FillGate \/ EnableDevice

Next ==
  \/ Program \/ Handler
  \/ Press \/ Forward \/ TimerExpires \/ Stray
  \/ \E v \in Vectors : Deliver(v) \/ SoftInt(v)
  \/ \E on \in BOOLEAN : Toggle(on)

(* The code runs, and enables interrupts again.  An interrupt that is      *)
(* requested is delivered in the end, although the timer's go first.       *)
Fairness ==
  /\ WF_ivars(Program) /\ WF_ivars(Handler) /\ WF_ivars(Forward)
  /\ WF_ivars(Toggle(TRUE))
  /\ \A v \in {KeyVec, TimerVec} \cup Others : SF_ivars(Deliver(v))

Spec == Init /\ [][Next]_ivars /\ Fairness

-----------------------------------------------------------------------------
(* Properties                                                              *)

\* Outside of a handler no vector is in service, or every lower one would be
\* blocked for good: each handler the APIC enters sends its EOI, and the one
\* that does not (the spurious one) is never entered by it.   And only what
\* the boot or an exception does resets the machine: neither a stray interrupt
\* nor a device's meets an empty gate or the masked PIC.
HandledOrReset ==
  /\ frames = <<>> => isr = {}
  /\ frames # <<>> => frames[1].from # "pic"
  /\ isReset => \/ ipc \in {"thread", "ioapic"}
                \/ frames # <<>> /\ frames[1].vec \in Exceptions

\* Once the device is enabled, every key that is pressed is read: no EOI is
\* missed, none of its interrupts is lost while the gate or the entry is
\* changed, or while interrupts are disabled.
KeysAreRead == (ipc = "running" /\ kbd.keys > 0) ~> (kbd.keys = 0 \/ isReset)
=============================================================================
