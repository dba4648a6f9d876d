---------------------------- MODULE SweepControl ----------------------------
(***************************************************************************)
(* What a command of tsanet-ctl or of the sweep tab of the GUI becomes: a  *)
(* sequence of RPC calls (controller/cli/app.py, gui/main_window.py), each *)
(* a sequence of device commands (hub/dispatcher.py and device/commands),  *)
(* each an exchange on the serial link, which a push loop may be using at  *)
(* the same time.                                                          *)
(*                                                                         *)
(* Frequencies are small numbers; the device, which is not part of this    *)
(* repository, applies what it is told but clamps it silently to Top.      *)
(* Commands that neither change the sweep nor the LNA are one command.     *)
(***************************************************************************)
EXTENDS SerialLink

CONSTANTS
    Hz,             \* frequencies the user asks for
    Threshold,      \* _LNA_THRESHOLD_HZ
    Top,            \* the highest frequency the device sweeps to
    MaxActs,        \* bound: commands of the user
    MaxStirs        \* bound: reads of the push loop and early timeouts

ASSUME HzAssumption == Hz \subseteq Nat /\ {Threshold, Top} \subseteq Nat /\ Threshold <= Top
ASSUME BoundsAssumption == {MaxActs, MaxStirs} \subseteq Nat
ASSUME UsersAssumption == Users = {"serve", "push"}

\* Commands of the device: those that change its sweep or its LNA, and others.
Ops == {"start", "stop", "center", "span", "cw", "range", "sweep",
        "lna_on", "lna_off", "load", "reset", "read", "other"}
Commands == [op : Ops, a : Nat, b : Nat]

ASSUME NoCommandAssumption == NoCommand \notin Commands

VARIABLES
    todo,       \* device commands the user's command still needs
    want,       \* the user's command
    report,     \* what has been read back and shown
    trusted,    \* no answer so far was in doubt
    range,      \* the device: start and stop of its sweep
    lna,        \* the device: its amplifier is on
    silent,     \* the device: it answers nothing any more
    acts,
    stirs

request == <<todo, want, report, trusted, acts>>
device == <<range, lna, silent>>
vars == <<link, request, device, stirs>>

Device(op, a, b) == [op |-> op, a |-> a, b |-> b]
Plain(op) == Device(op, 0, 0)

Ranges == [start : 0..Top, stop : 0..Top]
Nothing == [kind |-> "nothing"]
Failed == [kind |-> "failed"]
Misread == [kind |-> "misread"]
Text == [kind |-> "text"]
Usage == [kind |-> "usage"]
Reading(r) == [kind |-> "reading", range |-> r]
Shown(r, warned) == [kind |-> "range", range |-> r, warned |-> warned]

TypeOK ==
    /\ todo \in Seq(Commands) /\ Len(todo) <= 3
    /\ range \in Ranges /\ range.start <= range.stop
    /\ {lna, trusted, silent} \subseteq BOOLEAN
    /\ acts \in 0..MaxActs /\ stirs \in 0..MaxStirs
    /\ report \in {Nothing, Failed, Misread} \cup {Shown(r, w) : r \in Ranges, w \in BOOLEAN}
    /\ tries \in [Users -> 0..Attempts] /\ \A u \in Users : Idle(u) <=> tries[u] = 0
    /\ doubt \in [Users -> BOOLEAN]

Init ==
    /\ LinkInit
    /\ todo = <<>> /\ want = Plain("none") /\ report = Nothing /\ trusted = TRUE
    /\ range = [start |-> 0, stop |-> Threshold] /\ lna = FALSE /\ silent = FALSE
    /\ acts = 0 /\ stirs = 0

----------------------------------------------------------------------------
(* The handlers of hub/dispatcher.py. *)

Larger(a, b) == IF a > b THEN a ELSE b
Smaller(a, b) == IF a < b THEN a ELSE b

\* _ensure_lna_for_hz
EnsureLna(hz) == IF hz > Threshold THEN <<Plain("lna_on")>> ELSE <<>>

\* A bug: a range needs the amplifier for its start only (mutated).
SweepStartOnly(op, a, b) ==
    CASE op \in {"start", "stop", "center", "cw", "range"} -> EnsureLna(a) \o <<Device(op, a, b)>>
      [] op \in {"span", "sweep"} -> <<Device(op, a, b)>>

\* _sweep: every setter of a frequency but that of the span sees to the LNA.
Sweep(op, a, b) ==
    CASE op \in {"start", "stop", "center", "cw"} -> EnsureLna(a) \o <<Device(op, a, b)>>
      [] op = "range" -> EnsureLna(Larger(a, b)) \o <<Device(op, a, b)>>
      [] op \in {"span", "sweep"} -> <<Device(op, a, b)>>

\* _signal
Signal(op) == <<Plain(op)>>

\* _preset: a preset may hold any sweep, and any LNA mode with it.
Preset(op) == <<Plain(op)>>

\* _device but for reset, _marker, _menu, _trace but for fetch_data: one
\* device command each.
DeviceQuery == <<Plain("other")>>
Marker == <<Plain("other")>>
Menu == <<Plain("other")>>
Trace == <<Plain("other")>>

\* trace.fetch_data reads the frequencies, then the values of a trace.
FetchData == <<Plain("read"), Plain("read")>>

----------------------------------------------------------------------------
(* The commands of controller/cli/app.py. *)

Ready == todo = <<>> /\ Idle("serve") /\ acts < MaxActs

Asks(command, calls) ==
    /\ Ready
    /\ todo' = calls /\ want' = command /\ acts' = acts + 1
    /\ report' = Nothing /\ trusted' = TRUE
    /\ UNCHANGED <<link, device, stirs>>

\* Each setter of the sweep reads back what the device has made of it.
SweepSet(op, a, b) == Asks(Device(op, a, b), Sweep(op, a, b) \o Sweep("sweep", 0, 0))

SweepGet == Asks(Plain("get"), Sweep("sweep", 0, 0))

SignalLna == \E op \in {"lna_on", "lna_off"} : Asks(Plain(op), Signal(op))

PresetLoad == Asks(Plain("load"), Preset("load"))

DeviceCommand == Asks(Plain("other"), DeviceQuery)
SignalSpur == Asks(Plain("other"), Signal("other"))
PresetSave == Asks(Plain("other"), Preset("other"))
MarkerCommand == Asks(Plain("other"), Marker)
TraceCommand == Asks(Plain("other"), Trace)
MenuCommand == Asks(Plain("other"), Menu)

\* trace stats and trace save, and Calculate in the statistics dialog.
TraceStats == Asks(Plain("fetch"), FetchData)
TraceSave == Asks(Plain("fetch"), FetchData)

\* device reset is written, and no answer is waited for.
ResetDevice ==
    /\ Ready /\ WriteOnly("serve", Plain("reset"))
    /\ want' = Plain("reset") /\ acts' = acts + 1 /\ report' = Nothing /\ trusted' = TRUE
    /\ UNCHANGED <<todo, device, stirs>>

\* The sweep tab of the GUI sets and reads back likewise.
ApplySweep(op, a, b) == op \in {"range", "center", "span", "cw"} /\ SweepSet(op, a, b)
RefreshSweepStatus == SweepGet

\* The sweep r is what the user has asked for, as far as it can be told.
Applied(command, r) ==
    CASE command.op = "start" -> r.start = command.a
      [] command.op = "stop" -> r.stop = command.a
      [] command.op = "center" -> (r.start + r.stop) \div 2 = command.a
      [] command.op = "span" -> r.stop - r.start = command.a
      [] command.op = "cw" -> r.start = command.a
      [] command.op = "range" -> r.start = command.a /\ r.stop = command.b
      [] OTHER -> TRUE

\* A bug: the value that was asked for is shown (mutated).
ReadbackEchoed(answer) ==
    {Shown([start |-> Smaller(want.a, Top), stop |-> Smaller(want.b, Top)], FALSE)}

\* _sweep_state and _warn_if_mismatch.  Two numbers are taken for a range
\* whatever they are: the first two of a list of frequencies, or half of one.
\* With less than two the command fails, and the sweep tab shows nothing new.
Readback(answer) ==
    IF answer.to.op = "sweep" /\ Whole
    THEN {Shown(answer.content.range, ~Applied(want, answer.content.range))}
    ELSE IF answer.to.op \in {"sweep", "read"} THEN {Nothing, Failed, Misread} ELSE {Nothing, Failed}

\* The serve thread takes the next device command.
ServeWrites ==
    /\ todo # <<>> /\ Idle("serve") /\ Begin("serve", Head(todo)) /\ todo' = Tail(todo)
    /\ UNCHANGED <<want, report, trusted, acts, device, stirs>>

\* An answer ends the exchange; a usage text raises CommandRejected.
ServeAnswered ==
    /\ TakeAnswer("serve") /\ trusted' = (trusted /\ ~doubt["serve"])
    /\ LET answer == Head(input) IN
       \/ /\ answer.content = Usage /\ todo' = <<>> /\ report' = Failed
       \/ /\ answer.content # Usage /\ asked["serve"].op # "sweep"
          /\ UNCHANGED <<todo, report>>
       \/ /\ answer.content # Usage /\ asked["serve"].op = "sweep"
          /\ report' \in Readback(answer) /\ UNCHANGED todo
    /\ UNCHANGED <<want, acts, device, stirs>>

\* A timeout is early when the device would still have answered.
Stir == stirs < MaxStirs /\ stirs' = stirs + 1
Wait == IF silent \/ jobs = <<>> THEN stirs' = stirs ELSE Stir

ServeRetries == Retry("serve") /\ Wait /\ UNCHANGED <<request, device>>

\* An error ends the user's command; what was written may still be executed.
ServeFails ==
    /\ GiveUp("serve") /\ Wait /\ todo' = <<>> /\ report' = Failed
    /\ UNCHANGED <<want, trusted, acts, device>>

ServeStep == ServeWrites \/ ServeAnswered \/ ServeRetries \/ ServeFails

----------------------------------------------------------------------------
(* A push loop, or none: it reads frequencies and values, and skips what   *)
(* fails (Subscriptions).                                                  *)

PushWrites ==
    /\ Stir /\ Begin("push", Plain("read"))
    /\ UNCHANGED <<request, device>>

PushRetries == Retry("push") /\ Wait /\ UNCHANGED <<request, device>>

PushEnds ==
    /\ \/ TakeAnswer("push") /\ UNCHANGED stirs
       \/ GiveUp("push") /\ Wait
    /\ UNCHANGED <<request, device>>

----------------------------------------------------------------------------
(* The device. *)

Clamped(start, stop) == [start |-> Smaller(start, Top), stop |-> Smaller(stop, Top)]

\* The sweep after a command.
Resulting(c) ==
    LET span == range.stop - range.start
        center == (range.start + range.stop) \div 2
    IN  CASE c.op = "start" -> Clamped(c.a, Larger(c.a, range.stop))
          [] c.op = "stop" -> Clamped(Smaller(c.a, range.start), c.a)
          [] c.op = "center" -> Clamped(Larger(c.a, span \div 2) - span \div 2,
                                        Larger(c.a, span \div 2) - span \div 2 + span)
          [] c.op = "span" -> Clamped(Larger(center, c.a \div 2) - c.a \div 2,
                                      Larger(center, c.a \div 2) - c.a \div 2 + c.a)
          [] c.op = "cw" -> Clamped(c.a, c.a)
          [] c.op = "range" -> Clamped(Smaller(c.a, c.b), Larger(c.a, c.b))
          [] c.op = "load" -> [start |-> 0, stop |-> Top]
          [] OTHER -> range

DeviceExecutes ==
    /\ jobs # <<>> /\ ~silent /\ Head(jobs).command.op # "reset"
    /\ LET c == Head(jobs).command IN
       /\ Execute(IF c.op = "sweep" THEN Reading(range) ELSE Text)
       /\ range' = Resulting(c)
       /\ lna' = IF c.op = "lna_on" THEN TRUE
                 ELSE IF c.op \in {"lna_off", "load"} THEN FALSE ELSE lna
    /\ UNCHANGED <<request, silent, stirs>>

\* It answers with a usage text, and does nothing.  It does have an LNA.
DeviceRejects ==
    /\ jobs # <<>> /\ ~silent /\ Execute(Usage)
    /\ Head(jobs).command.op \notin {"lna_on", "reset"}
    /\ UNCHANGED <<request, device, stirs>>

\* It starts anew, and answers nothing.
DeviceResets ==
    /\ jobs # <<>> /\ ~silent /\ Head(jobs).command.op = "reset" /\ jobs' = Tail(jobs)
    /\ range' = [start |-> 0, stop |-> Threshold] /\ lna' = FALSE
    /\ UNCHANGED <<asked, tries, input, doubt, request, silent, stirs>>

DeviceStep == DeviceExecutes \/ DeviceRejects \/ DeviceResets

DeviceFallsSilent ==
    /\ ~silent /\ silent' = TRUE /\ Stir
    /\ UNCHANGED <<link, request, range, lna>>

----------------------------------------------------------------------------

Next ==
    \/ \E op \in {"start", "stop", "center", "span", "cw"}, hz \in Hz :
           SweepSet(op, hz, 0) \/ ApplySweep(op, hz, 0)
    \/ \E start, stop \in Hz : SweepSet("range", start, stop) \/ ApplySweep("range", start, stop)
    \/ SweepGet \/ RefreshSweepStatus \/ SignalLna \/ PresetLoad
    \/ DeviceCommand \/ SignalSpur \/ PresetSave \/ MarkerCommand \/ TraceCommand
    \/ MenuCommand \/ TraceStats \/ TraceSave \/ ResetDevice
    \/ ServeStep \/ PushWrites \/ PushRetries \/ PushEnds
    \/ DeviceStep \/ DeviceFallsSilent

Spec == Init /\ [][Next]_vars

\* The serve thread runs, and its reads time out; the device answers as long
\* as it answers at all.
FairSpec == Spec /\ WF_vars(ServeStep) /\ WF_vars(DeviceStep)

----------------------------------------------------------------------------

\* A readback that no late or foreign answer can have reached shows what the
\* device sweeps, and without a warning the device does what was asked.
ReadbackTrue ==
    todo = <<>> /\ Idle("serve") /\ trusted /\ report.kind = "range" =>
        /\ report.range = range
        /\ ~report.warned => Applied(want, range)

\* Whatever commands are repeated, late or given up, the device carries out
\* no start, stop, center, cw or range above the threshold with its LNA off:
\* when the LNA cannot be switched on, the setter is never sent.
LnaBeforeSweep ==
    [][LET done == Head(jobs).command IN
       (DeviceExecutes /\ done.op \in {"start", "stop", "center", "cw", "range"}
            /\ Larger(done.a, done.b) > Threshold) => lna]_vars

\* Every command of the user ends, on a silent device too, and while others
\* use the link.
CommandsEnd == todo # <<>> ~> todo = <<>> /\ Idle("serve")
=============================================================================
