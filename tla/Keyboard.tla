------------------------------ MODULE Keyboard ------------------------------
(***************************************************************************)
(* The PS/2 keyboard of x86: ac_keyboard_early_init, which disables the    *)
(* two channels of the 8042 controller, flushes it, tests and enables the  *)
(* channels, resets and identifies the devices; and the operations         *)
(* afterwards.  The program runs alone, with interrupts off; what it races *)
(* with is the devices: their bytes share one output buffer with the       *)
(* controller's own answers, and arrive when they do.                      *)
(*                                                                         *)
(* External: the controller and the devices (Answer, Arrive, Press), as    *)
(* the code uses them.  A slow device may answer after a read with a       *)
(* timeout has given up; any other answers in time.                        *)
(***************************************************************************)
EXTENDS Integers, Sequences

CONSTANTS Setups,    \* what may be attached: functions from channels to devices
          MaxFlush,  \* max_flush, the reads of step 12
          MaxOps     \* bound: keys pressed and interrupt changes after that

Channels == {1, 2}

\* There is always a first channel.
KeyboardAssumption ==
  \A d \in Setups :
    d \in [Channels -> {"none", "no port", "kbd", "mouse"}] /\ d[1] # "no port"

VARIABLES
  kpc,      \* where the program is
  call,     \* send_device_get_response: its channel, command and result
  dev,      \* the device of each channel; "no port": there is no such channel
  config,   \* the controller's configuration byte
  out,      \* the bytes in the output buffer, oldest first
  flight,   \* per channel, the bytes its device is sending
  slow,     \* the devices may answer late
  tested,   \* the channels that passed their test (test_channel1, _2)
  enabled,  \* channel1_enabled, channel2_enabled
  type,     \* channel1_device_type, channel2_device_type
  isReset,  \* channel1_device_reset, channel2_device_reset
  count     \* reads of the last flush, then keys and changes

ctlVars == <<config, out, flight>>
resVars == <<tested, enabled, type, isReset>>
kvars == <<kpc, call, dev, slow, ctlVars, resVars, count>>

Bit(b, m) == (b \div m) % 2 = 1
With(b, m) == IF Bit(b, m) THEN b ELSE b + m
Less(b, m) == IF Bit(b, m) THEN b - m ELSE b
Clock(c) == 16 * c   \* the bit that is set while the channel is disabled
Intr(c) == c         \* CFG_PORT1_ENABLED and CFG_PORT2_ENABLED

\* (cur & CFG_RD_ONLY_MASK) | (new & ~CFG_RD_ONLY_MASK), the mask being 0x8C.
Merge(cur, new) ==
  LET K(b, m) == IF Bit(b, m) THEN m ELSE 0
  IN K(cur, 4) + K(cur, 8) + K(cur, 128) + K(new, 1) + K(new, 2) + K(new, 16)
     + K(new, 32) + K(new, 64)

Init ==
  /\ kpc = "disable"
  /\ call = [ch |-> 0, cmd |-> 0, res |-> 0]
  /\ dev \in Setups
  /\ slow \in BOOLEAN
  /\ config = 71                \* from firmware: interrupts and translation on
  /\ out \in {<<>>, <<28>>}     \* a key may have been pressed before
  /\ flight = [c \in Channels |-> <<>>]
  /\ tested = {}
  /\ enabled = {}
  /\ type = [c \in Channels |-> -1]
  /\ isReset = {}
  /\ count = 0

-----------------------------------------------------------------------------
(* The controller and the devices.                                         *)

Answer(d, cmd) ==
  CASE d \in {"none", "no port"} -> <<>>
    [] d = "kbd" /\ cmd = 255 -> <<250, 170>>       \* ack, self test passed
    [] d = "kbd" /\ cmd = 242 -> <<250, 171, 131>>  \* ack, identity
    [] d = "mouse" /\ cmd = 255 -> <<250, 170, 0>>
    [] d = "mouse" /\ cmd = 242 -> <<250, 0>>
    [] OTHER -> <<250>>

Arrive(c) ==
  /\ flight[c] # <<>>
  /\ out' = Append(out, Head(flight[c]))
  /\ flight' = [flight EXCEPT ![c] = Tail(@)]
  /\ UNCHANGED <<kpc, call, dev, slow, config, resVars, count>>

\* The configuration byte k as it reads: a channel that is not there is disabled.
Shown(k) == IF dev[2] = "no port" THEN With(k, Clock(2)) ELSE k

-----------------------------------------------------------------------------
(* Reading the output buffer.                                              *)

Rest == IF out = <<>> THEN out ELSE Tail(out)

\* keyboard_rd_data waits for a byte.
Ready == out # <<>>

\* keyboard_rd_data_with_timeout returns a byte, or -1 when none comes in time.
ReadyOrLate == Ready \/ slow \/ \A c \in Channels : flight[c] = <<>>
Byte == IF out = <<>> THEN -1 ELSE Head(out)

\* A step of the program from l, that leaves all it does not name.
At(l) == kpc = l /\ UNCHANGED <<dev, slow>>
Go(l) == kpc' = l

-----------------------------------------------------------------------------
(* Steps 3 to 9 of ac_keyboard_early_init.                                 *)

Disable ==
  /\ At("disable")
  /\ config' = With(With(config, Clock(1)), Clock(2))
  /\ Go("flush")
  /\ UNCHANGED <<call, out, flight, resVars, count>>

\* Mutant of Flushed: the buffer is left as it is.
Unflushed == out

Flushed == Rest

Flush ==
  /\ At("flush")
  /\ ReadyOrLate
  /\ out' = Flushed
  /\ Go("wr_config")
  /\ UNCHANGED <<call, config, flight, resVars, count>>

\* keyboard_wr_config(call.cmd) asks for the configuration, and replaces all but the
\* read only bits of what it reads.
WrConfigAsk ==
  /\ At("wr_config")
  /\ out' = Append(out, Shown(config))
  /\ Go("wr_config_rd")
  /\ UNCHANGED <<call, config, flight, resVars, count>>

WrConfig ==
  /\ At("wr_config_rd")
  /\ Ready
  /\ config' = Merge(Head(out), call.cmd)
  /\ out' = Rest
  /\ Go(IF call.ch = 0 THEN "dual" ELSE "ready")
  /\ UNCHANGED <<call, flight, resVars, count>>

\* keyboard_enable_channel1 and 2, and the answer the caller waits for.
EnableAsk(c, from, to) ==
  /\ At(from)
  /\ config' = Less(config, Clock(c))
  /\ out' = Append(out, Shown(Less(config, Clock(c))))
  /\ Go(to)
  /\ UNCHANGED <<call, flight, resVars, count>>

EnableRead(c, from) == At(from) /\ Ready /\ out' = Rest
IsEnabled(c) == ~Bit(Head(out), Clock(c))

\* keyboard_has_dual_channels: channel 2 can be enabled, and is disabled again.
HasDual ==
  \/ EnableAsk(2, "dual", "dual_rd")
  \/ /\ EnableRead(2, "dual_rd")
     /\ tested' = IF IsEnabled(2) THEN {2} ELSE {}
     /\ config' = IF IsEnabled(2) THEN With(config, Clock(2)) ELSE config
     /\ Go("test1")
     /\ UNCHANGED <<call, flight, enabled, type, isReset, count>>

\* keyboard_test_channel1, and 2 if there are two: the controller answers 0.
TestAsk(c) ==
  /\ At(IF c = 1 THEN "test1" ELSE "test2")
  /\ out' = Append(out, 0)
  /\ Go(IF c = 1 THEN "test1_rd" ELSE "test2_rd")
  /\ UNCHANGED <<call, config, flight, resVars, count>>

TestRead(c) ==
  /\ At(IF c = 1 THEN "test1_rd" ELSE "test2_rd")
  /\ Ready
  /\ out' = Rest
  /\ tested' = IF Head(out) = 0 THEN tested \cup {c} ELSE tested \ {c}
  /\ Go(IF c = 1 /\ 2 \in tested THEN "test2"
        ELSE IF 1 \in tested' THEN "en1" ELSE IF 2 \in tested' THEN "en2" ELSE "reset")
  /\ call' = [call EXCEPT !.ch = 1]
  /\ UNCHANGED <<config, flight, enabled, type, isReset, count>>

Enable(c) ==
  \/ /\ c \in tested
     /\ EnableAsk(c, IF c = 1 THEN "en1" ELSE "en2", IF c = 1 THEN "en1_rd" ELSE "en2_rd")
  \/ /\ EnableRead(c, IF c = 1 THEN "en1_rd" ELSE "en2_rd")
     /\ enabled' = IF IsEnabled(c) THEN enabled \cup {c} ELSE enabled
     /\ Go(IF c = 1 /\ 2 \in tested THEN "en2" ELSE "reset")
     /\ UNCHANGED <<call, config, flight, tested, type, isReset, count>>

-----------------------------------------------------------------------------
(* keyboard_send_device_get_response.  call.cmd: 255 reset, 245 disable    *)
(* scanning, 242 identify, 244 enable scanning.                            *)

Call(c, cmd) == call' = [ch |-> c, cmd |-> cmd, res |-> 0] /\ Go("send")

Send ==
  /\ At("send")
  /\ flight' = IF Bit(config, Clock(call.ch)) THEN flight
               ELSE [flight EXCEPT ![call.ch] = @ \o Answer(dev[call.ch], call.cmd)]
  /\ Go("resp")
  /\ UNCHANGED <<call, config, out, resVars, count>>

\* The bytes after which the command is sent again, and those that are skipped
\* unless they answer a reset.
Resend == {0, 254, 255}
Skipped(cmd) == IF cmd = 255 THEN {} ELSE {170, 252, 253}

Respond ==
  /\ At("resp")
  /\ ReadyOrLate
  /\ out' = Rest
  /\ \/ Byte \in Resend /\ Go("send") /\ UNCHANGED call
     \/ Byte \in Skipped(call.cmd) /\ UNCHANGED <<kpc, call>>
     \/ /\ Byte \notin Resend \cup Skipped(call.cmd)
        /\ call' = [call EXCEPT !.res = Byte]
        /\ Go("returned")
  /\ UNCHANGED <<config, flight, resVars, count>>

-----------------------------------------------------------------------------
(* Steps 10 to 12.                                                         *)

\* The next channel to reset or to identify from channel c on, 3 if none.
NextIn(S, c) == IF c <= 1 /\ 1 \in S THEN 1 ELSE IF c <= 2 /\ 2 \in S THEN 2 ELSE 3

\* call.ch is the channel to look at next.
Reset ==
  /\ At("reset")
  /\ LET c == NextIn(enabled, call.ch)
     IN IF c = 3 THEN Go("type") /\ call' = [call EXCEPT !.ch = 1] ELSE Call(c, 255)
  /\ UNCHANGED <<ctlVars, resVars, count>>

\* Mutant of AckFollows: a byte is awaited after anything but the acknowledgement.
AckFollowsAny(res) == res # 250

AckFollows(res) == res = 170

\* keyboard_reset_device: after 0xAA the acknowledgement is still to be read.
ResetDone ==
  /\ call.cmd = 255
  /\ \/ At("returned") /\ AckFollows(call.res) /\ Go("reset_rd") /\ UNCHANGED <<out, isReset, call>>
     \/ /\ \/ At("returned") /\ ~AckFollows(call.res) /\ UNCHANGED out
              /\ isReset' = IF call.res = 250 THEN isReset \cup {call.ch} ELSE isReset
           \/ At("reset_rd") /\ Ready /\ out' = Rest
              /\ isReset' = IF Head(out) = 250 THEN isReset \cup {call.ch} ELSE isReset
        /\ call' = [call EXCEPT !.ch = @ + 1]
        /\ Go("reset")
  /\ UNCHANGED <<config, flight, tested, enabled, type, count>>

Type ==
  /\ At("type")
  /\ LET c == NextIn(isReset, call.ch)
     IN IF c = 3 THEN Go("last_flush") /\ UNCHANGED call ELSE Call(c, 245)
  /\ UNCHANGED <<ctlVars, resVars, count>>

SetType(t) == type' = [type EXCEPT ![call.ch] = t]
NextType == Go("type") /\ call' = [call EXCEPT !.ch = @ + 1]

\* keyboard_get_device_type.  The bytes of the identity are kept in an ac_u8.
Identify ==
  \/ /\ At("returned") /\ call.cmd = 245
     /\ IF call.res = 250 THEN Call(call.ch, 242) /\ UNCHANGED type ELSE SetType(-1) /\ NextType
     /\ UNCHANGED <<ctlVars, tested, enabled, isReset, count>>
  \/ /\ At("returned") /\ call.cmd = 242
     /\ IF call.res = 250 THEN Go("ident1") /\ UNCHANGED <<call, type>>
                          ELSE SetType(call.res) /\ Call(call.ch, 244)
     /\ UNCHANGED <<ctlVars, tested, enabled, isReset, count>>
  \/ /\ At("ident1") /\ ReadyOrLate
     /\ out' = Rest
     /\ IF Byte = 171 THEN Go("ident2") /\ UNCHANGED <<call, type>>
                      ELSE SetType(-1) /\ Call(call.ch, 244)
     /\ UNCHANGED <<config, flight, tested, enabled, isReset, count>>
  \/ /\ At("ident2") /\ ReadyOrLate
     /\ out' = Rest
     /\ SetType(Byte % 256) /\ Call(call.ch, 244)
     /\ UNCHANGED <<config, flight, tested, enabled, isReset, count>>
  \/ /\ At("returned") /\ call.cmd = 244
     /\ NextType
     /\ UNCHANGED <<ctlVars, resVars, count>>

LastFlush ==
  /\ At("last_flush")
  /\ ReadyOrLate
  /\ out' = Rest
  /\ IF Byte = -1 \/ count + 1 = MaxFlush THEN Go("ready") /\ count' = 0
                                          ELSE UNCHANGED kpc /\ count' = count + 1
  /\ UNCHANGED <<call, config, flight, resVars>>

-----------------------------------------------------------------------------
(* After the initialization: keys, and the operations.                     *)

Press(c) ==
  /\ At("ready") /\ count < MaxOps
  /\ dev[c] = "kbd" /\ ~Bit(config, Clock(c))
  /\ flight' = [flight EXCEPT ![c] = Append(@, 28)]
  /\ count' = count + 1
  /\ UNCHANGED <<kpc, call, config, out, resVars>>

\* ac_keyboard_rd_non_blocking and ac_keyboard_rd.
Rd ==
  /\ At("ready") /\ Ready
  /\ out' = Rest
  /\ UNCHANGED <<kpc, call, config, flight, resVars, count>>

\* keyboard_intr_enable (on) and keyboard_intr_disable: read the configuration,
\* set or clear the bits of the enabled channels, and write it.
IntrAsk(on) ==
  /\ At("ready") /\ count < MaxOps
  /\ out' = Append(out, Shown(config))
  /\ count' = count + 1
  /\ Go(IF on THEN "intr_on" ELSE "intr_off")
  /\ UNCHANGED <<call, config, flight, resVars>>

IntrSet(on) ==
  /\ At(IF on THEN "intr_on" ELSE "intr_off")
  /\ Ready
  /\ out' = Rest
  /\ LET Put(b, c) == IF c \notin enabled THEN b
                      ELSE IF on THEN With(b, Intr(c)) ELSE Less(b, Intr(c))
     IN call' = [call EXCEPT !.ch = 1, !.cmd = Put(Put(Head(out), 1), 2)]
  /\ Go("wr_config")
  /\ UNCHANGED <<config, flight, resVars, count>>

-----------------------------------------------------------------------------

Program ==
  \/ Disable \/ Flush \/ WrConfigAsk \/ WrConfig \/ HasDual
  \/ \E c \in Channels : TestAsk(c) \/ TestRead(c) \/ Enable(c)
  \/ Send \/ Respond \/ Reset \/ ResetDone \/ Type \/ Identify \/ LastFlush

Next ==
  \/ Program
  \/ Rd
  \/ \E on \in BOOLEAN : IntrAsk(on) \/ IntrSet(on)
  \/ \E c \in Channels : Arrive(c) \/ Press(c)

(* The program runs, and what a device sends arrives.                      *)
Fairness == WF_kvars(Program) /\ \A c \in Channels : WF_kvars(Arrive(c))

Spec == Init /\ [][Next]_kvars /\ Fairness

-----------------------------------------------------------------------------
(* Properties                                                              *)

\* The initialization ends, whatever keys were pressed before it and however
\* late the devices answer: no blocking read waits for a byte that was taken
\* for something else.
InitEnds == <>(kpc = "ready")

\* What it found is what is there: the channels with a port are enabled, and a
\* byte of another answer is never taken for an identity.  Only a slow keyboard
\* is not recognized (-1, or 255 when the second byte of the identity is late).
Identified ==
  kpc = "ready" =>
    \A c \in Channels :
      /\ c \in enabled <=> dev[c] # "no port"
      /\ type[c] \in IF dev[c] # "kbd" THEN {-1} ELSE IF slow THEN {131, -1, 255} ELSE {131}
=============================================================================
