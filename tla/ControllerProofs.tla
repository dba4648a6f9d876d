-------------------------- MODULE ControllerProofs --------------------------
(***************************************************************************)
(* Proofs about the controller.  SweepControl: type correctness, answers   *)
(* that are one's own, readbacks that are true, and an LNA that is on when *)
(* a sweep needs it, for all frequencies, thresholds and numbers of        *)
(* attempts.  TraceStats: what is shown of a trace is true of what the     *)
(* device has sent, for texts of any length and values of any sign.        *)
(* Statistics: a frequency is read as it was printed.                      *)
(***************************************************************************)
EXTENDS Controller, FiniteSetTheorems, SequenceTheorems, WellFoundedInduction, TLAPS

Readings == {Reading(r) : r \in Ranges}
Jobs == [by : Users, command : Commands]
Answers == [by : Users, to : Commands, content : {Text, Usage} \cup Readings]

\* Setters that need the LNA, commands that turn it off, and commands that are
\* the last ones of a user's command.
High(c) == c.op \in {"start", "stop", "center", "cw", "range"} /\ Larger(c.a, c.b) > Threshold
Off(c) == c.op \in {"lna_off", "load", "reset"}
Final(c) == Off(c) \/ c.op = "sweep"

\* What has set the LNA to what it is.
Mode == IF lna THEN "lna_on" ELSE "lna_off"

\* The LNA is on once the first k of the jobs s are done after an l.
OnAfter(s, l, k) ==
    \E j \in 0..k : /\ (j = 0 /\ l = "lna_on") \/ (j > 0 /\ s[j].command.op = "lna_on")
                    /\ \A i \in (j + 1)..k : ~Off(s[i].command)

\* A setter that needs the LNA comes right after the command that turns it on.
Planned(s) ==
    \A k \in 1..Len(s) : /\ s[k].op # "reset"
                         /\ Final(s[k]) => k = Len(s)
                         /\ High(s[k]) /\ k > 1 => s[k - 1].op = "lna_on"

LinkType ==
    /\ asked \in [Users -> Commands \cup {NoCommand}]
    /\ tries \in [Users -> 0..Attempts] /\ (\A u \in Users : Idle(u) <=> tries[u] = 0)
    /\ doubt \in [Users -> BOOLEAN]
    /\ jobs \in Seq(Jobs) /\ input \in Seq(Answers)
    /\ asked["push"] \in {NoCommand, Plain("read")}
    /\ \A i \in 1..Len(input) : input[i].to.op = "sweep" => input[i].content \in {Usage} \cup Readings

Reports == {Nothing, Failed, Misread} \cup {Shown(r, w) : r \in Ranges, w \in BOOLEAN}

RequestType ==
    /\ todo \in Seq(Commands) /\ Len(todo) <= 3
    /\ report \in Reports
    /\ trusted \in BOOLEAN /\ acts \in 0..MaxActs /\ stirs \in 0..MaxStirs

DeviceType ==
    /\ range \in Ranges /\ range.start <= range.stop
    /\ lna \in BOOLEAN /\ silent \in BOOLEAN

\* Who waits without doubt waits alone, for the only job or answer there is.
AloneInv ==
    /\ \A u, w \in Users : ~Idle(u) /\ ~doubt[u] /\ w # u => Idle(w)
    /\ OwnAnswers

PlanInv ==
    /\ Planned(todo)
    /\ ~Idle("serve") => asked["serve"].op # "reset" /\ (Final(asked["serve"]) => todo = <<>>)

\* Every setter that needs the LNA finds it on, once its turn comes.
PowerInv ==
    /\ \A k \in 1..Len(jobs) : High(jobs[k].command) => OnAfter(jobs, Mode, k - 1)
    /\ ~Idle("serve") /\ High(asked["serve"]) => OnAfter(jobs, Mode, Len(jobs))
    /\ todo # <<>> /\ High(todo[1]) => OnAfter(jobs, Mode, Len(jobs))

\* What is read, and what has been shown, is what the device still does.
ReadInv ==
    /\ ~Idle("serve") /\ ~doubt["serve"] =>
           \A i \in 1..Len(input) : input[i].content \in Readings => input[i].content.range = range
    /\ report.kind = "range" /\ trusted =>
           /\ todo = <<>> /\ Idle("serve") /\ \A k \in 1..Len(jobs) : jobs[k].command.op = "read"
           /\ report.range = range /\ (~report.warned => Applied(want, range))

LnaInv == LinkType /\ RequestType /\ DeviceType /\ AloneInv /\ PlanInv /\ PowerInv /\ ReadInv

----------------------------------------------------------------------------
(* What the LNA does while jobs are added and done. *)

LEMMA OnAfterWrite ==
    ASSUME NEW s \in Seq(Jobs), NEW l, NEW x \in Jobs
    PROVE  /\ \A k \in 0..Len(s) : OnAfter(s, l, k) => OnAfter(Append(s, x), l, k)
           /\ OnAfter(s, l, Len(s)) /\ ~Off(x.command) => OnAfter(Append(s, x), l, Len(s) + 1)
           /\ x.command.op = "lna_on" => OnAfter(Append(s, x), l, Len(s) + 1)
<1> DEFINE t == Append(s, x)
<1>1. /\ Len(t) = Len(s) + 1 /\ t[Len(s) + 1] = x /\ Len(s) \in Nat
      /\ \A i \in 1..Len(s) : t[i] = s[i]
  OBVIOUS
<1>2. ASSUME NEW k \in 0..Len(s), OnAfter(s, l, k) PROVE OnAfter(t, l, k)
  <2>1. PICK j \in 0..k : /\ (j = 0 /\ l = "lna_on") \/ (j > 0 /\ s[j].command.op = "lna_on")
                         /\ \A i \in (j + 1)..k : ~Off(s[i].command)
    BY <1>2, Zenon DEF OnAfter
  <2>2. \A i \in (j + 1)..k : t[i] = s[i]
    BY <1>1
  <2>3. j > 0 => t[j] = s[j]
    BY <1>1
  <2> HIDE DEF t
  <2> QED
    BY <2>1, <2>2, <2>3, Zenon DEF OnAfter
<1>3. ASSUME OnAfter(s, l, Len(s)), ~Off(x.command) PROVE OnAfter(t, l, Len(s) + 1)
  <2>1. PICK j \in 0..Len(s) : /\ (j = 0 /\ l = "lna_on") \/ (j > 0 /\ s[j].command.op = "lna_on")
                              /\ \A i \in (j + 1)..Len(s) : ~Off(s[i].command)
    BY <1>3, Zenon DEF OnAfter
  <2>2. j \in 0..(Len(s) + 1) /\ (j > 0 => t[j] = s[j])
    BY <1>1
  <2>3. \A i \in (j + 1)..(Len(s) + 1) : (i \in (j + 1)..Len(s) /\ t[i] = s[i]) \/ t[i] = x
    BY <1>1
  <2>4. \A i \in (j + 1)..(Len(s) + 1) : ~Off(t[i].command)
    BY <1>3, <2>1, <2>3, Zenon
  <2> HIDE DEF t
  <2> QED
    BY <2>1, <2>2, <2>4, Zenon DEF OnAfter
<1>4. ASSUME x.command.op = "lna_on" PROVE OnAfter(t, l, Len(s) + 1)
  <2>1. Len(s) + 1 \in 0..(Len(s) + 1) /\ Len(s) + 1 > 0
    BY <1>1
  <2>2. \A i \in (Len(s) + 1 + 1)..(Len(s) + 1) : FALSE
    BY <1>1
  <2> HIDE DEF t
  <2> QED
    BY <1>1, <1>4, <2>1, <2>2, Zenon DEF OnAfter
<1> QED
  BY <1>2, <1>3, <1>4, Zenon

LEMMA OnAfterDone ==
    ASSUME NEW s \in Seq(Jobs), s # <<>>, NEW l, NEW l2, NEW k \in 1..Len(s), OnAfter(s, l, k),
           Head(s).command.op = "lna_on" => l2 = "lna_on",
           l = "lna_on" /\ ~Off(Head(s).command) => l2 = "lna_on"
    PROVE  OnAfter(Tail(s), l2, k - 1)
<1> DEFINE t == Tail(s)
<1>1. /\ Len(t) = Len(s) - 1 /\ Len(s) \in Nat /\ Head(s) = s[1]
      /\ \A i \in 1..Len(t) : t[i] = s[i + 1]
  OBVIOUS
<1>2. PICK j \in 0..k : /\ (j = 0 /\ l = "lna_on") \/ (j > 0 /\ s[j].command.op = "lna_on")
                       /\ \A i \in (j + 1)..k : ~Off(s[i].command)
  BY Zenon DEF OnAfter
<1>3. j \in Nat /\ k \in Nat /\ j <= k /\ 1 <= k /\ k <= Len(s)
  BY <1>1, <1>2
<1>4. \A m \in 0..(k - 1) : \A i \in (m + 1)..(k - 1) : t[i] = s[i + 1]
  BY <1>1, <1>3
<1>5. CASE j \in {0, 1}
  <2>1. l2 = "lna_on"
    <3>1. CASE j = 0
      <4>1. 1 \in (j + 1)..k
        BY <1>3, <3>1
      <4> QED
        BY <1>1, <1>2, <3>1, <4>1
    <3>2. CASE j = 1
      BY <1>1, <1>2, <3>2
    <3> QED
      BY <1>5, <3>1, <3>2
  <2>2. \A i \in (0 + 1)..(k - 1) : i + 1 \in (j + 1)..k
    BY <1>5, <1>3
  <2>3. \A i \in (0 + 1)..(k - 1) : ~Off(t[i].command)
    <3>1. 0 \in 0..(k - 1)
      BY <1>3
    <3> HIDE DEF t
    <3> QED
      BY <1>2, <1>4, <2>2, <3>1, Zenon
  <2>4. 0 \in 0..(k - 1)
    BY <1>3
  <2> HIDE DEF t
  <2>5. OnAfter(t, l2, k - 1)
    BY <2>1, <2>3, <2>4, Zenon DEF OnAfter
  <2> QED
    BY <2>5 DEF t
<1>6. CASE j > 1
  <2>1. j - 1 \in 0..(k - 1) /\ j - 1 > 0 /\ t[j - 1] = s[j]
    BY <1>1, <1>6, <1>3
  <2>2. t[j - 1].command.op = "lna_on"
    <3> HIDE DEF t
    <3> QED
      BY <1>2, <1>6, <1>3, <2>1
  <2>3. \A i \in ((j - 1) + 1)..(k - 1) : i + 1 \in (j + 1)..k
    BY <1>6, <1>3
  <2> HIDE DEF t
  <2>4. \A i \in ((j - 1) + 1)..(k - 1) : ~Off(t[i].command)
    BY <1>2, <1>4, <2>1, <2>3, Zenon
  <2>5. OnAfter(t, l2, k - 1)
    BY <2>1, <2>2, <2>4, Zenon DEF OnAfter
  <2> QED
    BY <2>5 DEF t
<1> QED
  BY <1>5, <1>6

----------------------------------------------------------------------------
(* What a user asks. *)

LEMMA LnaInit == Init => LnaInv
<1> SUFFICES ASSUME Init PROVE LnaInv
  OBVIOUS
<1> USE AttemptsAssumption, UsersAssumption DEF Init, LinkInit
<1>1. \A u \in Users : Idle(u)
  BY DEF Idle
<1>2. LinkType
  BY <1>1 DEF LinkType
<1>3. RequestType /\ DeviceType
  <2>1. 0 \in 0..MaxActs /\ 0 \in 0..MaxStirs
    BY BoundsAssumption
  <2>2. [start |-> 0, stop |-> Threshold] \in Ranges /\ 0 <= Threshold
    BY HzAssumption DEF Ranges
  <2>3. RequestType
    BY <2>1 DEF RequestType, Reports
  <2> QED
    BY <2>2, <2>3 DEF DeviceType
<1>4. AloneInv /\ PlanInv /\ PowerInv
  BY <1>1 DEF AloneInv, OwnAnswers, PlanInv, Planned, PowerInv
<1>5. ReadInv
  BY <1>1 DEF ReadInv, Nothing
<1> QED
  BY <1>2, <1>3, <1>4, <1>5 DEF LnaInv

\* A user's command may be any sequence of device commands that is planned.
Command(s) ==
    /\ s \in Seq(Commands) /\ Len(s) <= 3 /\ Planned(s)
    /\ s # <<>> => ~High(s[1])

LEMMA LnaAsks ==
    ASSUME LnaInv, NEW c, NEW s, Command(s), Asks(c, s)
    PROVE  LnaInv'
<1> USE DEF LnaInv, Asks, link, device
<1>1. \A u \in Users : Idle(u)' <=> Idle(u)
  BY DEF Idle
<1>2. Idle("serve") /\ Idle("serve")'
  BY DEF Ready, Idle
<1>3. LinkType'
  BY <1>1 DEF LinkType
<1>4. RequestType'
  BY BoundsAssumption DEF Reports, RequestType, Command, Ready
<1>5. DeviceType'
  BY DEF DeviceType
<1>6. AloneInv'
  BY <1>1 DEF AloneInv, OwnAnswers, Own
<1>7. PlanInv'
  BY <1>2 DEF PlanInv, Planned, Command
<1>8. PowerInv'
  BY <1>2 DEF PowerInv, Command, Mode
<1>9. ReadInv'
  BY <1>2 DEF ReadInv, Nothing
<1> QED
  BY <1>3, <1>4, <1>5, <1>6, <1>7, <1>8, <1>9

LEMMA OneCommand == ASSUME NEW op \in Ops, op # "reset",
                           op \notin {"start", "stop", "center", "cw", "range"}
                    PROVE  Command(<<Plain(op)>>)
BY DEF Command, Planned, Commands, Plain, Device, High

LEMMA TwoReads == Command(FetchData)
<1> DEFINE read == Plain("read")
<1>1. read \in Commands /\ read.op = "read" /\ ~Final(read) /\ ~High(read)
  BY DEF Plain, Device, Commands, Final, Off, High, Ops
<1>2. FetchData = <<read, read>>
  BY DEF FetchData
<1> HIDE DEF read
<1> QED
  BY <1>1, <1>2 DEF Command, Planned

LEMMA OnceEnsured ==
    ASSUME NEW c, NEW hz
    PROVE  \/ hz > Threshold /\ EnsureLna(hz) \o <<c>> = <<Device("lna_on", 0, 0)>> \o <<c>>
           \/ ~(hz > Threshold) /\ EnsureLna(hz) \o <<c>> = <<c>>
<1>1. hz > Threshold => EnsureLna(hz) = <<Device("lna_on", 0, 0)>>
  BY DEF EnsureLna, Plain
<1>2. ~(hz > Threshold) => EnsureLna(hz) = <<>>
  BY DEF EnsureLna
<1>3. CASE hz > Threshold
  BY <1>1, <1>3, Zenon
<1>4. CASE ~(hz > Threshold)
  <2>1. <<>> \o <<c>> = <<c>>
    OBVIOUS
  <2> QED
    BY <1>2, <1>4, <2>1, Zenon
<1> QED
  BY <1>3, <1>4, Zenon

\* A setter that is read back is planned, whether the LNA comes first or not.
LEMMA SetAndReadBack ==
    ASSUME NEW op \in {"start", "stop", "center", "span", "cw", "range"}, NEW a \in Nat, NEW b \in Nat,
           op # "range" => b = 0
    PROVE  Command(Sweep(op, a, b) \o Sweep("sweep", 0, 0))
<1> DEFINE set == Device(op, a, b)
           read == Device("sweep", 0, 0)
           on == Device("lna_on", 0, 0)
<1>1. set \in Commands /\ read \in Commands /\ on \in Commands
  BY DEF Device, Commands, Ops
<1>2. /\ set.op = op /\ set.a = a /\ set.b = b /\ read.op = "sweep" /\ on.op = "lna_on"
      /\ ~High(read) /\ ~High(on) /\ ~Final(set) /\ ~Final(on)
      /\ ~(Larger(a, b) > Threshold) => ~High(set)
  BY DEF Device, High, Final, Off
<1>3. Sweep("sweep", 0, 0) = <<read>>
  BY DEF Sweep
<1>4. (Sweep(op, a, b) = <<set>> /\ ~High(set)) \/ Sweep(op, a, b) = <<on>> \o <<set>>
  <2>1. CASE op \in {"start", "stop", "center", "cw"}
    <3>1. Sweep(op, a, b) = EnsureLna(a) \o <<set>> /\ Larger(a, b) = a
      BY <2>1 DEF Sweep, Larger
    <3> QED
      BY <1>2, <3>1, OnceEnsured
  <2>2. CASE op = "range"
    <3>1. Sweep(op, a, b) = EnsureLna(Larger(a, b)) \o <<set>>
      BY <2>2 DEF Sweep
    <3> QED
      BY <1>2, <3>1, OnceEnsured
  <2>3. CASE op = "span"
    BY <2>3 DEF Sweep, High, Device
  <2> QED
    BY <2>1, <2>2, <2>3
<1> HIDE DEF set, read, on
<1>5. ASSUME NEW s, s = <<set>> \o <<read>>, ~High(set) PROVE Command(s)
  <2>1. s \in Seq(Commands) /\ Len(s) = 2 /\ s[1] = set /\ s[2] = read
    BY <1>1, <1>5
  <2>2. op # "reset" /\ \A k \in 1..2 : k = 1 \/ k = 2
    OBVIOUS
  <2>3. ~High(s[1]) /\ ~High(s[2]) /\ ~Final(s[1]) /\ s[1].op # "reset" /\ s[2].op # "reset"
    BY <1>2, <1>5, <2>1, <2>2
  <2> QED
    BY <2>1, <2>2, <2>3 DEF Command, Planned
<1>6. ASSUME NEW p, p = <<on>> \o <<set>>, NEW s, s = p \o <<read>> PROVE Command(s)
  <2>1. p \in Seq(Commands) /\ Len(p) = 2 /\ p[1] = on /\ p[2] = set
    BY <1>1, <1>6
  <2>2. s \in Seq(Commands) /\ Len(s) = 3 /\ s[1] = on /\ s[2] = set /\ s[3] = read
    <3>1. <<read>> \in Seq(Commands) /\ Len(<<read>>) = 1 /\ <<read>>[1] = read
      BY <1>1
    <3> DEFINE r == <<read>>
    <3>2. s = p \o r
      BY <1>6
    <3> HIDE DEF r
    <3>3. r \in Seq(Commands) /\ Len(r) = 1 /\ r[1] = read
      BY <3>1 DEF r
    <3>4. /\ s \in Seq(Commands) /\ Len(s) = 3
          /\ \A i \in 1..3 : s[i] = IF i <= 2 THEN p[i] ELSE r[i - 2]
      BY <2>1, <3>2, <3>3, ConcatProperties
    <3> QED
      BY <2>1, <3>3, <3>4
  <2>3. op # "reset"
    OBVIOUS
  <2> QED
    BY <1>2, <2>2, <2>3 DEF Command, Planned
<1> QED
  BY <1>3, <1>4, <1>5, <1>6

Request ==
    \/ \E op \in {"start", "stop", "center", "span", "cw"}, hz \in Hz :
           SweepSet(op, hz, 0) \/ ApplySweep(op, hz, 0)
    \/ \E start, stop \in Hz : SweepSet("range", start, stop) \/ ApplySweep("range", start, stop)
    \/ SweepGet \/ RefreshSweepStatus \/ SignalLna \/ PresetLoad
    \/ DeviceCommand \/ SignalSpur \/ PresetSave \/ MarkerCommand \/ TraceCommand \/ MenuCommand
    \/ TraceStats \/ TraceSave

LEMMA LnaRequest == LnaInv /\ Request => LnaInv'
<1> SUFFICES ASSUME LnaInv, Request PROVE LnaInv'
  OBVIOUS
<1>1. ASSUME NEW op \in {"start", "stop", "center", "span", "cw"}, NEW hz \in Hz, SweepSet(op, hz, 0)
      PROVE  LnaInv'
  <2>1. hz \in Nat /\ 0 \in Nat
    BY HzAssumption
  <2> QED
    BY <1>1, <2>1, SetAndReadBack, LnaAsks DEF SweepSet
<1>2. ASSUME NEW start \in Hz, NEW stop \in Hz, SweepSet("range", start, stop) PROVE LnaInv'
  <2>1. start \in Nat /\ stop \in Nat
    BY HzAssumption
  <2> QED
    BY <1>2, <2>1, SetAndReadBack, LnaAsks DEF SweepSet
<1>3. CASE SweepGet \/ RefreshSweepStatus
  <2>1. Sweep("sweep", 0, 0) = <<Plain("sweep")>>
    BY DEF Sweep, Plain
  <2> QED
    BY <1>3, <2>1, OneCommand, LnaAsks DEF SweepGet, RefreshSweepStatus, Ops
<1>4. CASE SignalLna \/ PresetLoad
  BY <1>4, OneCommand, LnaAsks DEF SignalLna, PresetLoad, Signal, Preset, Ops
<1>5. CASE DeviceCommand \/ SignalSpur \/ PresetSave \/ MarkerCommand \/ TraceCommand \/ MenuCommand
  BY <1>5, OneCommand, LnaAsks
     DEF DeviceCommand, SignalSpur, PresetSave, MarkerCommand, TraceCommand, MenuCommand,
         DeviceQuery, Signal, Preset, Marker, Trace, Menu, Ops
<1>6. CASE TraceStats \/ TraceSave
  BY <1>6, TwoReads, LnaAsks DEF TraceStats, TraceSave
<1> QED
  BY <1>1, <1>2, <1>3, <1>4, <1>5, <1>6 DEF Request, ApplySweep

----------------------------------------------------------------------------
(* What happens to the link. *)

LEMMA LinkBegin ==
    ASSUME LinkType, AloneInv, NEW u \in Users, NEW c \in Commands, Begin(u, c),
           u = "push" => c = Plain("read")
    PROVE  LinkType' /\ AloneInv'
<1> USE DEF Begin, Write
<1>1. /\ asked' = [asked EXCEPT ![u] = c] /\ asked'[u] = c /\ c # NoCommand
      /\ \A w \in Users : w # u => (Idle(w)' <=> Idle(w)) /\ asked'[w] = asked[w]
      /\ ~Idle(u)'
  BY NoCommandAssumption DEF LinkType, Idle
<1>2. LinkType'
  <2>1. tries' \in [Users -> 0..Attempts] /\ \A w \in Users : Idle(w)' <=> tries'[w] = 0
    BY <1>1, AttemptsAssumption DEF LinkType
  <2>2. jobs' \in Seq(Jobs)
    <3>1. [by |-> u, command |-> c] \in Jobs
      BY DEF Jobs
    <3> QED
      BY <3>1 DEF LinkType
  <2>3. doubt' \in [Users -> BOOLEAN]
    BY DEF LinkType
  <2>4. asked' \in [Users -> Commands \cup {NoCommand}] /\ asked'["push"] \in {NoCommand, Plain("read")}
    BY <1>1, UsersAssumption DEF LinkType
  <2> QED
    BY <2>1, <2>2, <2>3, <2>4 DEF LinkType
<1>3. \A v, w \in Users : ~Idle(v)' /\ ~doubt'[v] /\ w # v => Idle(w)'
  BY <1>1 DEF LinkType, AloneInv, Quiet
<1>4. ASSUME NEW v \in Users, ~Idle(v)', ~doubt'[v] PROVE v = u /\ Quiet
  BY <1>1, <1>4 DEF LinkType, Quiet
<1>5. OwnAnswers'
  <2>1. Quiet => Len(jobs') = 1 /\ jobs'[1] = [by |-> u, command |-> c] /\ Len(input') = 0
    BY DEF Quiet
  <2> QED
    BY <1>1, <1>4, <2>1 DEF OwnAnswers, Own
<1> QED
  BY <1>2, <1>3, <1>5 DEF AloneInv

LEMMA LinkRetry ==
    ASSUME LinkType, NEW u \in Users, Retry(u)
    PROVE  LinkType' /\ AloneInv' /\ asked[u] \in Commands
<1> USE DEF Retry, Write
<1>1. asked[u] \in Commands /\ ~Idle(u) /\ \A w \in Users : Idle(w)' <=> Idle(w)
  BY DEF LinkType, TimedOut, Idle
<1>2. [by |-> u, command |-> asked[u]] \in Jobs
  BY <1>1 DEF Jobs
<1>3. tries' \in [Users -> 0..Attempts] /\ \A w \in Users : Idle(w)' <=> tries'[w] = 0
  BY <1>1, AttemptsAssumption DEF LinkType
<1>4. LinkType'
  BY <1>2, <1>3 DEF LinkType
<1>5. AloneInv'
  BY DEF AloneInv, OwnAnswers
<1> QED
  BY <1>1, <1>4, <1>5

LEMMA LinkFinish ==
    ASSUME LinkType, AloneInv, NEW u \in Users, TakeAnswer(u) \/ GiveUp(u)
    PROVE  LinkType' /\ AloneInv' /\ Idle(u)' /\ \A w \in Users : w # u => (Idle(w)' <=> Idle(w))
<1> USE DEF TakeAnswer, GiveUp, Finish
<1>1. Idle(u)' /\ ~Idle(u) /\ \A w \in Users : w # u => (Idle(w)' <=> Idle(w)) /\ asked'[w] = asked[w]
  BY DEF LinkType, Idle, TimedOut
<1>2. LinkType'
  <2>1. tries' \in [Users -> 0..Attempts] /\ \A w \in Users : Idle(w)' <=> tries'[w] = 0
    <3>1. tries' = [tries EXCEPT ![u] = 0]
      OBVIOUS
    <3>2. tries' \in [Users -> 0..Attempts]
      BY <3>1, AttemptsAssumption DEF LinkType
    <3>3. tries'[u] = 0 /\ \A w \in Users : w # u => tries'[w] = tries[w]
      BY <3>1 DEF LinkType
    <3> QED
      BY <1>1, <3>2, <3>3 DEF LinkType
  <2>2. input' \in Seq(Answers)
        /\ \A i \in 1..Len(input') : input'[i].to.op = "sweep" => input'[i].content \in {Usage} \cup Readings
    <3>1. CASE input # <<>> /\ input' = Tail(input)
      <4>1. /\ input' \in Seq(Answers)
            /\ \A i \in 1..Len(input') : i + 1 \in 1..Len(input) /\ input'[i] = input[i + 1]
        BY <3>1 DEF LinkType
      <4>2. ASSUME NEW i \in 1..Len(input'), input'[i].to.op = "sweep"
            PROVE  input'[i].content \in {Usage} \cup Readings
        <5>1. i + 1 \in 1..Len(input) /\ input'[i] = input[i + 1]
          BY <4>1
        <5>2. \A j \in 1..Len(input) :
                input[j].to.op = "sweep" => input[j].content \in {Usage} \cup Readings
          BY Zenon DEF LinkType
        <5> QED
          BY <4>2, <5>1, <5>2, Zenon
      <4> QED
        BY <4>1, <4>2, Zenon
    <3>2. CASE input' = input
      BY <3>2 DEF LinkType
    <3> QED
      BY <3>1, <3>2
  <2>3. asked' \in [Users -> Commands \cup {NoCommand}] /\ asked'["push"] \in {NoCommand, Plain("read")}
    BY UsersAssumption DEF LinkType
  <2> QED
    BY <2>1, <2>2, <2>3 DEF LinkType
<1>3. \A v \in Users : ~Idle(v)' => doubt'[v]
  BY <1>1 DEF AloneInv, LinkType
<1>4. AloneInv'
  BY <1>3 DEF AloneInv, OwnAnswers
<1> QED
  BY <1>1, <1>2, <1>4

LEMMA LinkExecute ==
    ASSUME LinkType, AloneInv, NEW content \in {Text, Usage} \cup Readings, Execute(content),
           Head(jobs).command.op = "sweep" => content \in {Usage} \cup Readings
    PROVE  LinkType' /\ AloneInv'
<1> USE DEF Execute
<1> DEFINE answer == [by |-> Head(jobs).by, to |-> Head(jobs).command, content |-> content]
<1>1. /\ Head(jobs) = jobs[1] /\ jobs[1] \in Jobs /\ answer \in Answers
      /\ jobs' \in Seq(Jobs) /\ Len(jobs') = Len(jobs) - 1 /\ Len(jobs) \in Nat \ {0}
      /\ \A i \in 1..Len(jobs') : jobs'[i] = jobs[i + 1]
  <2>1. /\ Head(jobs) = jobs[1] /\ jobs[1] \in Jobs
        /\ jobs' \in Seq(Jobs) /\ Len(jobs') = Len(jobs) - 1 /\ Len(jobs) \in Nat \ {0}
        /\ \A i \in 1..Len(jobs') : jobs'[i] = jobs[i + 1]
    BY DEF LinkType
  <2>2. answer \in Answers
    BY <2>1 DEF Jobs, Answers
  <2> QED
    BY <2>1, <2>2
<1>2. /\ input' \in Seq(Answers) /\ Len(input') = Len(input) + 1 /\ Len(input) \in Nat
      /\ input'[Len(input) + 1] = answer /\ \A i \in 1..Len(input) : input'[i] = input[i]
  BY <1>1 DEF LinkType
<1>3. \A u \in Users : Idle(u)' <=> Idle(u)
  BY DEF Idle
<1>4. LinkType'
  <2>1. \A i \in 1..Len(input') : input'[i].to.op = "sweep" => input'[i].content \in {Usage} \cup Readings
    <3>1. \A i \in 1..Len(input') : i \in 1..Len(input) \/ input'[i] = answer
      BY <1>2
    <3> QED
      BY <1>2, <3>1 DEF LinkType
  <2> QED
    BY <1>1, <1>2, <1>3, <2>1 DEF LinkType
<1>5. ASSUME NEW u \in Users, ~Idle(u), ~doubt[u]
      PROVE  /\ Len(jobs') = 0 /\ Len(input') = 1
             /\ input'[1].by = u /\ input'[1].to = asked[u]
  <2>1. Len(jobs) + Len(input) = 1 /\ Own(u, jobs[1].by, jobs[1].command)
    BY <1>1, <1>5 DEF AloneInv, OwnAnswers
  <2> QED
    BY <1>1, <1>2, <2>1 DEF Own
<1>6. AloneInv'
  <2>1. \A u, w \in Users : ~Idle(u)' /\ ~doubt'[u] /\ w # u => Idle(w)'
    BY <1>3 DEF AloneInv
  <2>2. DOMAIN jobs' = 1..Len(jobs') /\ DOMAIN input' = 1..Len(input')
    BY <1>1, <1>2
  <2>3. ASSUME NEW u \in Users, ~Idle(u)', ~doubt'[u]
        PROVE  /\ \A i \in DOMAIN jobs' : FALSE
               /\ \A i \in DOMAIN input' : i = 1
               /\ Len(jobs') + Len(input') = 1
    <3>1. doubt' = doubt
      OBVIOUS
    <3>2. Len(jobs') = 0 /\ Len(input') = 1
      BY <1>3, <1>5, <2>3, <3>1, Zenon
    <3>3. (\A i \in 1..0 : FALSE) /\ (\A i \in 1..1 : i = 1) /\ 0 + 1 = 1
      OBVIOUS
    <3>4. DOMAIN jobs' = 1..0 /\ DOMAIN input' = 1..1
      BY <2>2, <3>2, Zenon
    <3> QED
      BY <3>2, <3>3, <3>4, Zenon
  <2>4. OwnAnswers'
    BY <1>3, <1>5, <2>3, Zenon DEF OwnAnswers, Own
  <2> QED
    BY <2>1, <2>4 DEF AloneInv
<1> QED
  BY <1>4, <1>6

\* Whatever is written, the LNA stays what it was to be; and a setter may be
\* written when the LNA is to be on.
LEMMA PowerWrite ==
    ASSUME LinkType, PowerInv, NEW x \in Jobs, jobs' = Append(jobs, x), lna' = lna,
           High(x.command) => OnAfter(jobs, Mode, Len(jobs))
    PROVE  /\ \A k \in 1..Len(jobs') : High(jobs'[k].command) => OnAfter(jobs', Mode', k - 1)
           /\ OnAfter(jobs, Mode, Len(jobs)) /\ ~Off(x.command) => OnAfter(jobs', Mode', Len(jobs'))
           /\ x.command.op = "lna_on" => OnAfter(jobs', Mode', Len(jobs'))
<1>1. /\ Mode' = Mode /\ jobs \in Seq(Jobs) /\ Len(jobs) \in Nat /\ Len(jobs') = Len(jobs) + 1
      /\ jobs'[Len(jobs) + 1] = x /\ \A k \in 1..Len(jobs) : jobs'[k] = jobs[k]
  BY DEF LinkType, Mode
<1>2. /\ \A k \in 0..Len(jobs) : OnAfter(jobs, Mode, k) => OnAfter(jobs', Mode, k)
      /\ OnAfter(jobs, Mode, Len(jobs)) /\ ~Off(x.command) => OnAfter(jobs', Mode, Len(jobs) + 1)
      /\ x.command.op = "lna_on" => OnAfter(jobs', Mode, Len(jobs) + 1)
  BY <1>1, OnAfterWrite
<1>3. ASSUME NEW k \in 1..Len(jobs'), High(jobs'[k].command) PROVE OnAfter(jobs', Mode', k - 1)
  <2>1. CASE k = Len(jobs) + 1
    BY <1>1, <1>2, <1>3, <2>1
  <2>2. CASE k \in 1..Len(jobs)
    <3>1. k - 1 \in 0..Len(jobs)
      BY <1>1, <2>2
    <3>2. OnAfter(jobs, Mode, k - 1)
      BY <1>1, <1>3, <2>2 DEF PowerInv
    <3> QED
      BY <1>1, <1>2, <3>1, <3>2
  <2> QED
    BY <1>1, <2>1, <2>2
<1> QED
  BY <1>1, <1>2, <1>3

----------------------------------------------------------------------------
(* What the serve thread and the push loop do. *)

LEMMA LnaReset == ASSUME LnaInv, ResetDevice PROVE LnaInv'
<1> USE DEF LnaInv, ResetDevice, WriteOnly, Write, device
<1> DEFINE x == [by |-> "serve", command |-> Plain("reset")]
<1>1. x \in Jobs /\ x.command.op = "reset" /\ ~High(x.command)
  BY UsersAssumption DEF Jobs, Commands, Ops, Plain, Device, High
<1>2. \A u \in Users : Idle(u)' <=> Idle(u)
  BY DEF Idle
<1>3. Idle("serve") /\ Idle("serve")' /\ todo = <<>>
  BY DEF Ready, Idle
<1>4. LinkType'
  BY <1>1, <1>2 DEF LinkType
<1>5. RequestType' /\ DeviceType'
  BY BoundsAssumption DEF Reports, RequestType, DeviceType, Ready
<1>6. AloneInv'
  <2>1. \A u \in Users : ~Idle(u)' => doubt'[u]
    BY <1>2
  <2> QED
    BY <2>1 DEF AloneInv, OwnAnswers
<1>7. PlanInv'
  BY <1>3 DEF PlanInv
<1>8. PowerInv'
  BY <1>1, <1>3, PowerWrite DEF PowerInv
<1>9. ReadInv'
  BY <1>3 DEF ReadInv, Nothing
<1> QED
  BY <1>4, <1>5, <1>6, <1>7, <1>8, <1>9

LEMMA LnaServeWrites == ASSUME LnaInv, ServeWrites PROVE LnaInv'
<1> USE DEF LnaInv, ServeWrites, device
<1> DEFINE c == Head(todo)
           x == [by |-> "serve", command |-> c]
<1>1. /\ c = todo[1] /\ c \in Commands /\ x \in Jobs /\ x.command = c
      /\ Len(todo) \in 1..3 /\ todo' \in Seq(Commands) /\ Len(todo') = Len(todo) - 1
      /\ \A k \in 1..Len(todo') : todo'[k] = todo[k + 1]
      /\ todo' # <<>> <=> Len(todo') > 0
  <2>1. c = todo[1] /\ c \in Commands
    BY DEF RequestType
  <2>2. /\ Len(todo) \in 1..3 /\ todo' \in Seq(Commands) /\ Len(todo') = Len(todo) - 1
        /\ \A k \in 1..Len(todo') : todo'[k] = todo[k + 1]
        /\ todo' # <<>> <=> Len(todo') > 0
    <3>1. todo \in Seq(Commands) /\ todo # <<>> /\ todo' = Tail(todo) /\ Len(todo) <= 3
      BY DEF RequestType
    <3>2. Len(todo) \in Nat /\ Len(todo) > 0
      BY <3>1
    <3>3. /\ todo' \in Seq(Commands) /\ Len(todo') = Len(todo) - 1
          /\ \A k \in 1..Len(todo') : todo'[k] = todo[k + 1]
      BY <3>1
    <3>4. todo' # <<>> <=> Len(todo') > 0
      BY <3>2, <3>3, EmptySeq
    <3> QED
      BY <3>1, <3>2, <3>3, <3>4
  <2> QED
    BY <2>1, <2>2, UsersAssumption DEF Jobs
<1>2. jobs' = Append(jobs, x) /\ input' = <<>> /\ asked' = [asked EXCEPT !["serve"] = c]
  BY DEF Begin, Write
<1>3. asked'["serve"] = c
  BY <1>2, UsersAssumption DEF LinkType
<1>4. LinkType' /\ AloneInv'
  BY <1>1, LinkBegin, UsersAssumption
<1>5. RequestType' /\ DeviceType'
  BY <1>1 DEF RequestType, DeviceType
<1>6. /\ c.op # "reset" /\ (Final(c) => Len(todo) = 1)
      /\ \A k \in 1..Len(todo') : /\ todo'[k].op # "reset" /\ (Final(todo'[k]) => k = Len(todo'))
                                  /\ High(todo'[k]) /\ k > 1 => todo'[k - 1].op = "lna_on"
                                  /\ High(todo'[k]) /\ k = 1 => c.op = "lna_on"
  <2>1. \A k \in 1..Len(todo) : /\ todo[k].op # "reset" /\ (Final(todo[k]) => k = Len(todo))
                                /\ High(todo[k]) /\ k > 1 => todo[k - 1].op = "lna_on"
    BY DEF PlanInv, Planned
  <2>2. \A k \in 1..Len(todo') : /\ k + 1 \in 1..Len(todo) /\ k + 1 > 1 /\ (k + 1) - 1 = k
                                 /\ k > 1 => k - 1 \in 1..Len(todo') /\ todo'[k - 1] = todo[k]
    BY <1>1
  <2>3. 1 \in 1..Len(todo) /\ Len(todo) \in Nat
    BY <1>1
  <2> HIDE DEF c, x
  <2>4. c.op # "reset" /\ (Final(c) => Len(todo) = 1)
    BY <1>1, <2>1, <2>3
  <2>5. ASSUME NEW k \in 1..Len(todo')
        PROVE  /\ todo'[k].op # "reset" /\ (Final(todo'[k]) => k = Len(todo'))
               /\ High(todo'[k]) /\ k > 1 => todo'[k - 1].op = "lna_on"
               /\ High(todo'[k]) /\ k = 1 => c.op = "lna_on"
    <3>1. k + 1 \in 1..Len(todo) /\ todo'[k] = todo[k + 1] /\ k \in Nat
      BY <1>1, <2>2
    <3>2. /\ todo'[k].op # "reset" /\ (Final(todo'[k]) => k + 1 = Len(todo))
          /\ High(todo'[k]) => todo[k].op = "lna_on"
      BY <2>1, <2>2, <3>1
    <3> QED
      BY <1>1, <2>2, <3>1, <3>2
  <2> QED
    BY <2>4, <2>5
<1>7. PlanInv'
  <2>1. Final(c) => todo' = <<>>
    <3>1. Len(todo') = Len(todo) - 1 /\ (todo' # <<>> <=> Len(todo') > 0)
      BY <1>1
    <3>2. Final(c) => Len(todo) = 1
      BY <1>6, Zenon
    <3>3. ASSUME NEW m, NEW n, m = n - 1, n = 1 PROVE ~(m > 0)
      BY <3>3
    <3> QED
      BY <3>1, <3>2, <3>3, Zenon
  <2> QED
    BY <1>3, <1>6, <2>1 DEF PlanInv, Planned
<1>8. PowerInv'
  <2>1. High(c) => OnAfter(jobs, Mode, Len(jobs)) /\ ~Off(c)
    BY <1>1 DEF PowerInv, High, Off
  <2>2. /\ \A k \in 1..Len(jobs') : High(jobs'[k].command) => OnAfter(jobs', Mode', k - 1)
        /\ OnAfter(jobs, Mode, Len(jobs)) /\ ~Off(c) => OnAfter(jobs', Mode', Len(jobs'))
        /\ c.op = "lna_on" => OnAfter(jobs', Mode', Len(jobs'))
    BY <1>1, <1>2, <2>1, PowerWrite
  <2>3. todo' # <<>> /\ High(todo'[1]) => c.op = "lna_on"
    <3>1. todo' # <<>> => 1 \in 1..Len(todo')
      BY <1>1
    <3> HIDE DEF c, x
    <3> QED
      BY <1>6, <3>1
  <2> QED
    BY <1>3, <2>1, <2>2, <2>3 DEF PowerInv
<1>9. ReadInv'
  BY <1>1, <1>2 DEF ReadInv
<1> QED
  BY <1>4, <1>5, <1>7, <1>8, <1>9

LEMMA ReadbackType ==
    ASSUME NEW answer \in Answers, answer.to.op = "sweep" => answer.content \in {Usage} \cup Readings,
           answer.content # Usage, NEW r \in Readback(answer)
    PROVE  /\ r \in Reports
           /\ r.kind = "range" =>
                  /\ answer.to.op = "sweep" /\ Whole /\ answer.content \in Readings
                  /\ r.range = answer.content.range
                  /\ ~r.warned => Applied(want, answer.content.range)
<1>1. CASE answer.to.op = "sweep" /\ Whole
  <2>1. answer.content \in Readings
    BY <1>1
  <2>2. answer.content.range \in Ranges
    BY <2>1 DEF Readings, Reading
  <2>3. r = Shown(answer.content.range, ~Applied(want, answer.content.range))
    BY <1>1 DEF Readback
  <2>4. (~Applied(want, answer.content.range)) \in BOOLEAN
    BY Zenon
  <2>5. r \in {Shown(q, w) : q \in Ranges, w \in BOOLEAN}
    <3>1. ASSUME NEW q \in Ranges, NEW w \in BOOLEAN
          PROVE  Shown(q, w) \in {Shown(p, v) : p \in Ranges, v \in BOOLEAN}
      OBVIOUS
    <3>2. PICK w \in BOOLEAN : w = ~Applied(want, answer.content.range)
      BY <2>4, Zenon
    <3>3. r = Shown(answer.content.range, w)
      BY <2>3, <3>2, Zenon
    <3> QED
      BY <2>2, <3>1, <3>3
  <2>6. r.range = answer.content.range /\ r.warned = (~Applied(want, answer.content.range))
    BY <2>3, Zenon DEF Shown
  <2>7. r \in Reports
    BY <2>5 DEF Reports
  <2>8. ~r.warned => Applied(want, answer.content.range)
    BY <2>6, Zenon
  <2>9. answer.to.op = "sweep" /\ Whole
    BY <1>1, Zenon
  <2> QED
    BY <2>1, <2>6, <2>7, <2>8, <2>9, Zenon
<1>2. CASE ~(answer.to.op = "sweep" /\ Whole)
  <2>1. r \in {Nothing, Failed, Misread}
    BY <1>2 DEF Readback
  <2>2. r.kind # "range"
    BY <2>1 DEF Nothing, Failed, Misread
  <2>3. r \in Reports
    BY <2>1 DEF Reports
  <2> QED
    BY <2>2, <2>3, Zenon
<1> QED
  BY <1>1, <1>2

LEMMA LnaServeAnswered == ASSUME LnaInv, ServeAnswered PROVE LnaInv'
<1> USE DEF LnaInv, ServeAnswered, device
<1> DEFINE answer == Head(input)
<1>1. "serve" \in Users
  BY UsersAssumption
<1>2. LinkType' /\ AloneInv' /\ Idle("serve")'
  BY <1>1, LinkFinish
<1>3. ~Idle("serve") /\ input # <<>> /\ jobs' = jobs /\ Mode' = Mode
  BY DEF TakeAnswer, Mode
<1>4. /\ answer = input[1] /\ answer \in Answers /\ 1 \in 1..Len(input)
      /\ answer.to.op = "sweep" => answer.content \in {Usage} \cup Readings
  <2>1. answer = input[1] /\ answer \in Answers /\ 1 \in 1..Len(input)
    BY <1>3 DEF LinkType
  <2> QED
    BY <2>1 DEF LinkType
<1>5. todo' \in {<<>>, todo}
  OBVIOUS
<1>6. \/ report' = Failed
      \/ report' = report
      \/ answer.content # Usage /\ asked["serve"].op = "sweep" /\ report' \in Readback(answer)
  OBVIOUS
<1> HIDE DEF answer
<1>7. RequestType' /\ DeviceType'
  <2>1. report' \in Reports
    BY <1>4, <1>6, ReadbackType DEF RequestType, Reports
  <2>2. todo' \in Seq(Commands) /\ Len(todo') <= 3
    <3>1. <<>> \in Seq(Commands) /\ Len(<<>>) <= 3
      OBVIOUS
    <3>2. todo \in Seq(Commands) /\ Len(todo) <= 3
      BY DEF RequestType
    <3> QED
      BY <1>5, <3>1, <3>2, Zenon
  <2>3. trusted' \in BOOLEAN
    BY Zenon
  <2> QED
    BY <2>1, <2>2, <2>3 DEF RequestType, DeviceType
<1>8. PlanInv'
  BY <1>2, <1>5 DEF PlanInv, Planned
<1>9. PowerInv'
  BY <1>2, <1>3, <1>5 DEF PowerInv
<1>10. ReadInv'
  <2>1. SUFFICES ASSUME report'.kind = "range", trusted'
                 PROVE  /\ todo' = <<>> /\ \A k \in 1..Len(jobs') : jobs'[k].command.op = "read"
                        /\ report'.range = range' /\ (~report'.warned => Applied(want', range'))
    BY <1>2 DEF ReadInv
  <2>2. trusted /\ ~doubt["serve"]
    BY <2>1
  <2>3. report.kind # "range"
    BY <1>3, <2>2 DEF ReadInv
  <2>4. /\ answer.content # Usage /\ asked["serve"].op = "sweep" /\ report' \in Readback(answer)
    BY <1>6, <2>1, <2>3 DEF Failed
  <2>5. /\ Whole /\ answer.content \in Readings /\ report'.range = answer.content.range
        /\ ~report'.warned => Applied(want, answer.content.range)
    BY <1>4, <2>1, <2>4, ReadbackType
  <2>6. answer.content.range = range
    BY <1>3, <1>4, <2>2, <2>5 DEF ReadInv
  <2>7. jobs' = <<>>
    BY <1>3, <2>5 DEF Whole
  <2>8. todo' = <<>>
    BY <1>3, <1>5, <2>4 DEF PlanInv, Final
  <2> QED
    BY <2>5, <2>6, <2>7, <2>8
<1> QED
  BY <1>2, <1>7, <1>8, <1>9, <1>10

LEMMA WaitType == ASSUME stirs \in 0..MaxStirs, Wait PROVE stirs' \in 0..MaxStirs
BY BoundsAssumption DEF Wait, Stir

LEMMA LnaServeRetries == ASSUME LnaInv, ServeRetries PROVE LnaInv'
<1> USE DEF LnaInv, ServeRetries, request, device
<1> DEFINE x == [by |-> "serve", command |-> asked["serve"]]
<1>1. "serve" \in Users
  BY UsersAssumption
<1>2. LinkType' /\ AloneInv' /\ asked["serve"] \in Commands
  BY <1>1, LinkRetry
<1>3. /\ x \in Jobs /\ x.command = asked["serve"] /\ jobs' = Append(jobs, x) /\ asked' = asked
      /\ ~Idle("serve") /\ ~Idle("serve")' /\ doubt'["serve"]
  BY <1>1, <1>2 DEF Jobs, Retry, Write, TimedOut, Idle
<1>4. RequestType' /\ DeviceType'
  BY WaitType DEF RequestType, DeviceType
<1>5. PlanInv'
  BY <1>3 DEF PlanInv, Planned
<1>6. PowerInv'
  <2>1. High(asked["serve"]) => OnAfter(jobs, Mode, Len(jobs)) /\ ~Off(asked["serve"])
    BY <1>3 DEF PowerInv, High, Off
  <2>2. todo # <<>> => ~Off(asked["serve"])
    BY <1>3 DEF PlanInv, Final
  <2> HIDE DEF x
  <2>3. /\ \A k \in 1..Len(jobs') : High(jobs'[k].command) => OnAfter(jobs', Mode', k - 1)
        /\ OnAfter(jobs, Mode, Len(jobs)) /\ ~Off(asked["serve"]) => OnAfter(jobs', Mode', Len(jobs'))
    BY <1>3, <2>1, PowerWrite
  <2> QED
    BY <1>3, <2>1, <2>2, <2>3 DEF PowerInv
<1>7. ReadInv'
  BY <1>3 DEF ReadInv
<1> QED
  BY <1>2, <1>4, <1>5, <1>6, <1>7

LEMMA LnaServeFails == ASSUME LnaInv, ServeFails PROVE LnaInv'
<1> USE DEF LnaInv, ServeFails, device
<1>1. LinkType' /\ AloneInv' /\ Idle("serve")'
  BY UsersAssumption, LinkFinish
<1>2. RequestType' /\ DeviceType'
  BY WaitType DEF RequestType, DeviceType, Reports
<1>3. jobs' = jobs /\ Mode' = Mode
  BY DEF GiveUp, Mode
<1>4. PlanInv' /\ PowerInv'
  BY <1>1, <1>3 DEF PlanInv, Planned, PowerInv
<1>5. ReadInv'
  BY <1>1 DEF ReadInv, Failed
<1> QED
  BY <1>1, <1>2, <1>4, <1>5

LEMMA LnaPushWrites == ASSUME LnaInv, PushWrites \/ PushRetries PROVE LnaInv'
<1> USE DEF LnaInv, PushWrites, PushRetries, request, device
<1> DEFINE c == Plain("read")
           x == [by |-> "push", command |-> c]
<1>1. "push" \in Users /\ "serve" \in Users /\ c \in Commands /\ x \in Jobs /\ x.command = c
  BY UsersAssumption DEF Jobs, Commands, Ops, Plain, Device
<1>2. LinkType' /\ AloneInv'
  BY <1>1, LinkBegin, LinkRetry
<1>3. /\ jobs' = Append(jobs, x) /\ input' = <<>> /\ asked'["serve"] = asked["serve"]
      /\ (Idle("serve")' <=> Idle("serve")) /\ (~Idle("serve") => doubt'["serve"])
  <2>1. CASE PushWrites
    BY <1>1, <2>1 DEF Begin, Write, Idle, LinkType
  <2>2. CASE PushRetries
    BY <1>1, <2>2 DEF Retry, Write, TimedOut, Idle, LinkType
  <2> QED
    BY <2>1, <2>2
<1>4. RequestType' /\ DeviceType'
  BY WaitType, BoundsAssumption DEF RequestType, DeviceType, Stir
<1>5. PlanInv'
  BY <1>3 DEF PlanInv, Planned
<1>6. PowerInv'
  <2>1. ~High(c) /\ ~Off(c)
    BY DEF High, Off, Plain, Device
  <2> HIDE DEF x, c
  <2>2. /\ \A k \in 1..Len(jobs') : High(jobs'[k].command) => OnAfter(jobs', Mode', k - 1)
        /\ OnAfter(jobs, Mode, Len(jobs)) => OnAfter(jobs', Mode', Len(jobs'))
    BY <1>1, <1>3, <2>1, PowerWrite
  <2> QED
    BY <1>3, <2>2 DEF PowerInv
<1>7. ReadInv'
  <2>1. c.op = "read"
    BY DEF Plain, Device
  <2>2. \A k \in 1..Len(jobs') : (k \in 1..Len(jobs) /\ jobs'[k] = jobs[k]) \/ jobs'[k] = x
    BY <1>1, <1>3 DEF LinkType
  <2> HIDE DEF x, c
  <2> QED
    BY <1>1, <1>3, <2>1, <2>2 DEF ReadInv
<1> QED
  BY <1>2, <1>4, <1>5, <1>6, <1>7

LEMMA LnaPushEnds == ASSUME LnaInv, PushEnds PROVE LnaInv'
<1> USE DEF LnaInv, PushEnds, request, device
<1>1. "push" \in Users /\ "serve" \in Users
  BY UsersAssumption
<1>2. LinkType' /\ AloneInv' /\ (Idle("serve")' <=> Idle("serve"))
  BY <1>1, LinkFinish
<1>3. jobs' = jobs /\ Mode' = Mode /\ doubt' = doubt /\ asked'["serve"] = asked["serve"] /\ ~Idle("push")
  BY <1>1 DEF TakeAnswer, GiveUp, TimedOut, Finish, Mode, LinkType
<1>4. RequestType' /\ DeviceType'
  BY WaitType DEF RequestType, DeviceType
<1>5. PlanInv' /\ PowerInv'
  BY <1>2, <1>3 DEF PlanInv, Planned, PowerInv
<1>6. ReadInv'
  <2>1. ~Idle("serve") => doubt["serve"]
    BY <1>1, <1>3 DEF AloneInv
  <2> QED
    BY <1>2, <1>3, <2>1 DEF ReadInv
<1> QED
  BY <1>2, <1>4, <1>5, <1>6

----------------------------------------------------------------------------
(* What the device does. *)

LEMMA LowEnd ==
    ASSUME NEW l \in Nat, NEW h \in Nat, h <= l, NEW w \in Nat
    PROVE  (l - h) \in Nat /\ (l - h) + w \in Nat /\ (l - h) <= (l - h) + w
OBVIOUS

LEMMA ResultingType ==
    ASSUME DeviceType, NEW c \in Commands
    PROVE  Resulting(c) \in Ranges /\ Resulting(c).start <= Resulting(c).stop
<1> DEFINE span == range.stop - range.start
           center == (range.start + range.stop) \div 2
<1>1. Top \in Nat /\ range.start \in Nat /\ range.stop \in Nat /\ range.start <= range.stop
      /\ range \in Ranges /\ c.a \in Nat /\ c.b \in Nat
  BY HzAssumption DEF DeviceType, Ranges, Commands
<1>2. ASSUME NEW x \in Nat, NEW y \in Nat, x <= y
      PROVE  Clamped(x, y) \in Ranges /\ Clamped(x, y).start <= Clamped(x, y).stop
  <2>1. Smaller(x, Top) \in 0..Top /\ Smaller(y, Top) \in 0..Top /\ Smaller(x, Top) <= Smaller(y, Top)
    BY <1>1, <1>2 DEF Smaller
  <2> QED
    BY <2>1 DEF Clamped, Ranges
<1>3. \A x, y \in Nat : /\ Larger(x, y) \in Nat /\ x <= Larger(x, y) /\ y <= Larger(x, y)
                        /\ Smaller(x, y) \in Nat /\ Smaller(x, y) <= x /\ Smaller(x, y) <= y
                        /\ Smaller(x, y) <= Larger(x, y)
  BY DEF Larger, Smaller
<1>4. span \in Nat /\ span \div 2 \in Nat /\ center \in Nat /\ c.a \div 2 \in Nat
  BY <1>1
<1>5. CASE c.op = "start"
  <2>1. Resulting(c) = Clamped(c.a, Larger(c.a, range.stop))
    BY <1>5 DEF Resulting
  <2> QED
    BY <1>1, <1>2, <1>3, <2>1
<1>6. CASE c.op = "stop"
  <2>1. Resulting(c) = Clamped(Smaller(c.a, range.start), c.a)
    BY <1>6 DEF Resulting
  <2>2. Smaller(c.a, range.start) \in Nat /\ Smaller(c.a, range.start) <= c.a
    BY <1>1, <1>3
  <2> QED
    BY <1>1, <1>2, <2>1, <2>2
<1>7. CASE c.op = "center"
  <2> DEFINE low == Larger(c.a, span \div 2) - span \div 2
  <2>1. Resulting(c) = Clamped(low, low + span)
    BY <1>7 DEF Resulting
  <2>2. low \in Nat /\ low + span \in Nat /\ low <= low + span
    BY <1>1, <1>3, <1>4, LowEnd, Zenon
  <2> QED
    BY <1>2, <2>1, <2>2
<1>8. CASE c.op = "span"
  <2> DEFINE low == Larger(center, c.a \div 2) - c.a \div 2
  <2>1. Resulting(c) = Clamped(low, low + c.a)
    BY <1>8 DEF Resulting
  <2>2. low \in Nat /\ low + c.a \in Nat /\ low <= low + c.a
    BY <1>1, <1>3, <1>4, LowEnd, Zenon
  <2> QED
    BY <1>2, <2>1, <2>2
<1>9. CASE c.op = "cw"
  <2>1. Resulting(c) = Clamped(c.a, c.a)
    BY <1>9 DEF Resulting
  <2> QED
    BY <1>1, <1>2, <2>1
<1>10. CASE c.op = "range"
  <2>1. Resulting(c) = Clamped(Smaller(c.a, c.b), Larger(c.a, c.b))
    BY <1>10 DEF Resulting
  <2>2. /\ Smaller(c.a, c.b) \in Nat /\ Larger(c.a, c.b) \in Nat
        /\ Smaller(c.a, c.b) <= Larger(c.a, c.b)
    BY <1>1, <1>3
  <2> QED
    BY <1>2, <2>1, <2>2
<1>11. CASE c.op = "load"
  <2>1. Resulting(c) = [start |-> 0, stop |-> Top]
    BY <1>11 DEF Resulting
  <2>2. 0 \in 0..Top /\ Top \in 0..Top /\ 0 <= Top
    BY <1>1
  <2>3. [start |-> 0, stop |-> Top] \in Ranges
    BY <2>2 DEF Ranges
  <2>4. Resulting(c).start = 0 /\ Resulting(c).stop = Top
    BY <2>1
  <2>5. Resulting(c) \in Ranges
    BY <2>1, <2>3, Zenon
  <2> QED
    BY <2>2, <2>4, <2>5
<1>12. CASE c.op \notin {"start", "stop", "center", "span", "cw", "range", "load"}
  <2>1. Resulting(c) = range
    BY <1>12 DEF Resulting
  <2> QED
    BY <1>1, <2>1
<1> QED
  BY <1>5, <1>6, <1>7, <1>8, <1>9, <1>10, <1>11, <1>12

\* A job that is done takes the next ones closer, with the LNA as it leaves it.
LEMMA PowerDone ==
    ASSUME LinkType, PowerInv, jobs # <<>>, jobs' = Tail(jobs), asked' = asked, todo' = todo,
           Head(jobs).command.op = "lna_on" => Mode' = "lna_on",
           Mode = "lna_on" /\ ~Off(Head(jobs).command) => Mode' = "lna_on"
    PROVE  PowerInv'
<1>1. /\ jobs \in Seq(Jobs) /\ Len(jobs) \in Nat \ {0} /\ Len(jobs') = Len(jobs) - 1
      /\ \A k \in 1..Len(jobs') : jobs'[k] = jobs[k + 1]
  BY DEF LinkType
<1>2. \A k \in 1..Len(jobs) : OnAfter(jobs, Mode, k) => OnAfter(jobs', Mode', k - 1)
  BY <1>1, OnAfterDone
<1>3. ASSUME NEW k \in 1..Len(jobs'), High(jobs'[k].command) PROVE OnAfter(jobs', Mode', k - 1)
  <2>1. k \in 1..Len(jobs) /\ k + 1 \in 1..Len(jobs) /\ (k + 1) - 1 = k
    BY <1>1
  <2>2. OnAfter(jobs, Mode, k)
    BY <1>1, <1>3, <2>1 DEF PowerInv
  <2> QED
    BY <1>2, <2>1, <2>2
<1>4. OnAfter(jobs, Mode, Len(jobs)) => OnAfter(jobs', Mode', Len(jobs'))
  <2>1. Len(jobs) \in 1..Len(jobs) /\ Len(jobs') = Len(jobs) - 1
    BY <1>1
  <2> QED
    BY <1>2, <2>1
<1>5. Idle("serve")' <=> Idle("serve")
  BY DEF Idle
<1> QED
  BY <1>3, <1>4, <1>5 DEF PowerInv

LEMMA LnaDeviceExecutes == ASSUME LnaInv, DeviceExecutes PROVE LnaInv'
<1> USE DEF LnaInv, request
<1> DEFINE c == Head(jobs).command
           content == IF c.op = "sweep" THEN Reading(range) ELSE Text
<1>1. /\ jobs # <<>> /\ c.op # "reset" /\ Execute(content) /\ range' = Resulting(c)
      /\ lna' = (IF c.op = "lna_on" THEN TRUE ELSE IF c.op \in {"lna_off", "load"} THEN FALSE ELSE lna)
      /\ UNCHANGED <<request, silent, stirs>>
  BY DEF DeviceExecutes
<1>2. Head(jobs) = jobs[1] /\ c \in Commands /\ 1 \in 1..Len(jobs)
  <2>1. jobs \in Seq(Jobs) /\ jobs # <<>>
    BY <1>1 DEF LinkType
  <2>2. Head(jobs) = jobs[1] /\ jobs[1] \in Jobs /\ 1 \in 1..Len(jobs)
    BY <2>1
  <2> QED
    BY <2>2 DEF Jobs
<1>3. content \in {Text, Usage} \cup Readings /\ (c.op = "sweep" => content = Reading(range) /\ content \in Readings)
  BY DEF Readings, DeviceType
<1> HIDE DEF content
<1>4. LinkType' /\ AloneInv'
  BY <1>1, <1>3, LinkExecute
<1>5. \A u \in Users : Idle(u)' <=> Idle(u)
  BY <1>1 DEF Execute, Idle
<1>6. RequestType' /\ DeviceType'
  BY <1>1, <1>2, ResultingType DEF RequestType, DeviceType
<1>7. PlanInv'
  BY <1>1, <1>5, UsersAssumption DEF PlanInv, Planned, Execute
<1>8. PowerInv'
  <2>1. c.op = "lna_on" => Mode' = "lna_on"
    BY <1>1 DEF Mode
  <2>2. Mode = "lna_on" /\ ~Off(c) => Mode' = "lna_on"
    BY <1>1 DEF Mode, Off
  <2> QED
    BY <1>1, <2>1, <2>2, PowerDone DEF Execute
<1>9. ReadInv'
  <2>1. ASSUME ~Idle("serve")', ~doubt'["serve"], NEW i \in 1..Len(input'), input'[i].content \in Readings
        PROVE  input'[i].content.range = range'
    <3>1. "serve" \in Users /\ ~Idle("serve") /\ ~doubt["serve"]
      BY <1>1, <1>5, <2>1, UsersAssumption DEF Execute
    <3>2. Len(jobs) + Len(input) = 1 /\ Len(jobs) > 0 /\ Len(jobs) \in Nat /\ Len(input) \in Nat
      BY <1>1, <3>1 DEF AloneInv, OwnAnswers, LinkType
    <3>3. input = <<>>
      BY <3>2, EmptySeq DEF LinkType
    <3>4. input'[i].content = content
      BY <1>1, <2>1, <3>3 DEF Execute
    <3>5. c.op = "sweep"
      <4>1. \A r \in Ranges : Reading(r) # Text
        BY DEF Reading, Text
      <4> QED
        BY <2>1, <3>4, <4>1 DEF content, Readings
    <3>6. range' = range
      BY <1>1, <3>5 DEF Resulting
    <3> QED
      BY <1>3, <3>4, <3>5, <3>6 DEF Reading
  <2>2. ASSUME report'.kind = "range", trusted'
        PROVE  /\ todo' = <<>> /\ Idle("serve")' /\ \A k \in 1..Len(jobs') : jobs'[k].command.op = "read"
               /\ report'.range = range' /\ (~report'.warned => Applied(want', range'))
    <3>1. /\ todo = <<>> /\ Idle("serve") /\ \A k \in 1..Len(jobs) : jobs[k].command.op = "read"
          /\ report.range = range /\ (~report.warned => Applied(want, range))
      BY <1>1, <2>2 DEF ReadInv
    <3>2. c.op = "read"
      BY <1>2, <3>1
    <3>3. range' = range
      BY <1>1, <3>2 DEF Resulting
    <3>4. \A k \in 1..Len(jobs') : k + 1 \in 1..Len(jobs) /\ jobs'[k] = jobs[k + 1]
      BY <1>1 DEF Execute, LinkType
    <3> QED
      BY <1>1, <1>5, <3>1, <3>3, <3>4, UsersAssumption
  <2> QED
    BY <2>1, <2>2 DEF ReadInv
<1> QED
  BY <1>4, <1>6, <1>7, <1>8, <1>9

LEMMA LnaDeviceRejects == ASSUME LnaInv, DeviceRejects PROVE LnaInv'
<1> USE DEF LnaInv, request, device
<1>1. /\ jobs # <<>> /\ Execute(Usage) /\ Head(jobs).command.op # "lna_on"
      /\ UNCHANGED <<request, device, stirs>>
  BY DEF DeviceRejects
<1>2. LinkType' /\ AloneInv'
  BY <1>1, LinkExecute
<1>3. \A u \in Users : Idle(u)' <=> Idle(u)
  BY <1>1 DEF Execute, Idle
<1>4. RequestType' /\ DeviceType'
  BY <1>1 DEF RequestType, DeviceType
<1>5. PlanInv'
  BY <1>1, <1>3, UsersAssumption DEF PlanInv, Planned, Execute
<1>6. PowerInv'
  <2>1. Mode' = Mode
    BY <1>1 DEF Mode
  <2> QED
    BY <1>1, <2>1, PowerDone DEF Execute
<1>7. ReadInv'
  <2>1. ~Idle("serve")' /\ ~doubt'["serve"] =>
           \A i \in 1..Len(input') : input'[i].content \in Readings => input'[i].content.range = range'
    <3>1. \A i \in 1..Len(input') : (i \in 1..Len(input) /\ input'[i] = input[i]) \/ input'[i].content = Usage
      BY <1>1 DEF Execute, LinkType
    <3>2. \A r \in Ranges : Reading(r) # Usage
      BY DEF Reading, Usage
    <3>3. Usage \notin Readings
      BY <3>2 DEF Readings
    <3>4. range' = range /\ doubt' = doubt /\ (Idle("serve")' <=> Idle("serve"))
      BY <1>1, <1>3, UsersAssumption DEF Execute
    <3> QED
      BY <3>1, <3>3, <3>4 DEF ReadInv
  <2>2. \A k \in 1..Len(jobs') : k + 1 \in 1..Len(jobs) /\ jobs'[k] = jobs[k + 1]
    BY <1>1 DEF Execute, LinkType
  <2> QED
    BY <1>1, <1>3, <2>1, <2>2, UsersAssumption DEF ReadInv
<1> QED
  BY <1>2, <1>4, <1>5, <1>6, <1>7

LEMMA LnaDeviceResets == ASSUME LnaInv, DeviceResets PROVE LnaInv'
<1> USE DEF LnaInv, request
<1>1. /\ jobs # <<>> /\ Head(jobs).command.op = "reset" /\ jobs' = Tail(jobs)
      /\ range' = [start |-> 0, stop |-> Threshold] /\ lna' = FALSE
      /\ UNCHANGED <<asked, tries, input, doubt, request, silent, stirs>>
  BY DEF DeviceResets
<1>2. /\ jobs[1].command.op = "reset" /\ Len(jobs) \in Nat \ {0} /\ 1 \in 1..Len(jobs)
      /\ jobs' \in Seq(Jobs) /\ \A k \in 1..Len(jobs') : k + 1 \in 1..Len(jobs) /\ jobs'[k] = jobs[k + 1]
  BY <1>1 DEF LinkType
<1>3. \A u \in Users : Idle(u)' <=> Idle(u)
  BY <1>1 DEF Idle
<1>4. LinkType'
  BY <1>1, <1>2, <1>3 DEF LinkType
<1>5. RequestType' /\ DeviceType'
  <2>1. [start |-> 0, stop |-> Threshold] \in Ranges /\ 0 <= Threshold
    BY HzAssumption DEF Ranges
  <2> QED
    BY <1>1, <2>1 DEF RequestType, DeviceType
\* Who waits without doubt has not asked for a reset.
<1>6. \A u \in Users : ~Idle(u) => doubt[u]
  <2>1. ASSUME NEW u \in Users, ~Idle(u), ~doubt[u] PROVE FALSE
    <3>1. asked[u].op = "reset"
      BY <1>2, <2>1 DEF AloneInv, OwnAnswers, Own, LinkType
    <3>2. asked[u].op # "reset"
      BY <2>1, UsersAssumption DEF LinkType, PlanInv, Plain, Device, Idle
    <3> QED
      BY <3>1, <3>2
  <2> QED
    BY <2>1
<1>7. AloneInv'
  BY <1>1, <1>3, <1>6 DEF AloneInv, OwnAnswers
<1>8. PlanInv'
  BY <1>1, <1>3, UsersAssumption DEF PlanInv, Planned
<1>9. PowerInv'
  BY <1>1, PowerDone DEF Off
<1>10. ReadInv'
  <2>1. report.kind = "range" /\ trusted => FALSE
    BY <1>2 DEF ReadInv
  <2> QED
    BY <1>1, <1>3, <1>6, <2>1, UsersAssumption DEF ReadInv
<1> QED
  BY <1>4, <1>5, <1>7, <1>8, <1>9, <1>10

LEMMA LnaDeviceFallsSilent == ASSUME LnaInv, DeviceFallsSilent \/ UNCHANGED vars PROVE LnaInv'
<1> USE DEF LnaInv, DeviceFallsSilent, vars, link, request, device
<1>1. UNCHANGED <<link, request, range, lna>> /\ silent' \in BOOLEAN /\ stirs' \in 0..MaxStirs
  <2>1. UNCHANGED <<link, request, range, lna>>
    OBVIOUS
  <2>2. silent' \in BOOLEAN
    BY Zenon DEF DeviceType
  <2>3. stirs' \in 0..MaxStirs
    BY BoundsAssumption DEF Stir, RequestType
  <2> QED
    BY <2>1, <2>2, <2>3
<1>2. \A u \in Users : Idle(u)' <=> Idle(u)
  BY <1>1 DEF Idle
<1>3. "serve" \in Users
  BY UsersAssumption
<1> QED
  BY <1>1, <1>2, <1>3
     DEF LinkType, RequestType, DeviceType, AloneInv, OwnAnswers, Own, PlanInv, Planned, PowerInv,
         Mode, ReadInv

----------------------------------------------------------------------------

LEMMA LnaStep == LnaInv /\ [Next]_vars => LnaInv'
<1> SUFFICES ASSUME LnaInv, [Next]_vars PROVE LnaInv'
  OBVIOUS
<1>1. CASE Request
  BY <1>1, LnaRequest
<1>2. CASE ResetDevice \/ ServeStep
  BY <1>2, LnaReset, LnaServeWrites, LnaServeAnswered, LnaServeRetries, LnaServeFails DEF ServeStep
<1>3. CASE PushWrites \/ PushRetries \/ PushEnds
  BY <1>3, LnaPushWrites, LnaPushEnds
<1>4. CASE DeviceStep
  BY <1>4, LnaDeviceExecutes, LnaDeviceRejects, LnaDeviceResets DEF DeviceStep
<1>5. CASE DeviceFallsSilent \/ UNCHANGED vars
  BY <1>5, LnaDeviceFallsSilent
<1>6. Next => Request \/ ResetDevice \/ ServeStep \/ PushWrites \/ PushRetries \/ PushEnds
              \/ DeviceStep \/ DeviceFallsSilent
  BY Zenon DEF Next, Request
<1> QED
  BY <1>1, <1>2, <1>3, <1>4, <1>5, <1>6, Zenon

LEMMA LnaInvariant == Spec => []LnaInv
BY LnaInit, LnaStep, PTL DEF Spec

\* The plans, exchanges, answers and readbacks of the hub's two threads are
\* well formed, and the sweep of the device is always a range.
THEOREM SweepTypeCorrect == Spec => []TypeOK
<1>1. LnaInv => TypeOK
  <2> SUFFICES ASSUME LnaInv PROVE TypeOK
    OBVIOUS
  <2>1. {lna, trusted, silent} \subseteq BOOLEAN
    BY Zenon DEF LnaInv, RequestType, DeviceType
  <2> QED
    BY <2>1 DEF LnaInv, LinkType, RequestType, DeviceType, Reports, TypeOK
<1> QED
  BY <1>1, LnaInvariant, PTL

\* TinySA._exchange without a lock: who has begun on a quiet link, alone and
\* without a timeout, finds its own answer and no other, whatever was late.
THEOREM AnswersAreOwn == Spec => []OwnAnswers
<1>1. LnaInv => OwnAnswers
  BY DEF LnaInv, AloneInv
<1> QED
  BY <1>1, LnaInvariant, PTL

\* _sweep_state and _warn_if_mismatch: what a readback shows without doubt is
\* the sweep of the device, and what the user asked for unless it warns.
THEOREM ReadbackIsTrue == Spec => []ReadbackTrue
<1>1. LnaInv => ReadbackTrue
  BY DEF LnaInv, ReadInv, ReadbackTrue
<1> QED
  BY <1>1, LnaInvariant, PTL

\* _ensure_lna_for_hz: the device carries out no setter above the threshold
\* with its LNA off, however the commands are repeated, late or given up.
THEOREM LnaIsOn == Spec => LnaBeforeSweep
<1> DEFINE done == Head(jobs).command
           A == (DeviceExecutes /\ done.op \in {"start", "stop", "center", "cw", "range"}
                     /\ Larger(done.a, done.b) > Threshold) => lna
<1>1. LnaInv => A
  <2> SUFFICES ASSUME LnaInv, DeviceExecutes, done.op \in {"start", "stop", "center", "cw", "range"},
                      Larger(done.a, done.b) > Threshold
               PROVE  lna
    OBVIOUS
  <2>1. jobs # <<>> /\ Head(jobs) = jobs[1] /\ 1 \in 1..Len(jobs) /\ 1 - 1 = 0
    BY DEF DeviceExecutes, LnaInv, LinkType
  <2>2. OnAfter(jobs, Mode, 0)
    BY <2>1 DEF LnaInv, PowerInv, High
  <2>3. Mode = "lna_on"
    BY <2>2 DEF OnAfter
  <2> QED
    BY <2>3 DEF Mode
<1>2. LnaInv /\ [Next]_vars => [A]_vars
  BY <1>1, Zenon
<1>3. LnaBeforeSweep <=> [][A]_vars
  BY DEF LnaBeforeSweep
<1> HIDE DEF A
<1> QED
  BY <1>2, <1>3, LnaInvariant, PTL DEF Spec

-----------------------------------------------------------------------------
(* Induction, folds and sums. *)

\* Induction, for a set in place of a predicate.
LEMMA Induction ==
    ASSUME NEW S, 0 \in S, \A n \in Nat : n \in S => n + 1 \in S
    PROVE  Nat \subseteq S
<1> DEFINE Less == OpToRel(<, Nat)
           Rest == Nat \ S
<1>1. \A x, y \in Nat : <<y, x>> \in Less <=> y < x
  BY DEF OpToRel
<1>2. SUFFICES ASSUME Rest # {} PROVE FALSE
  OBVIOUS
<1>3. PICK x \in Rest : \A y \in Rest : ~(<<y, x>> \in Less)
  <2>1. IsWellFoundedOn(Less, Nat)
    BY NatLessThanWellFounded, Zenon
  <2>2. Rest \subseteq Nat
    OBVIOUS
  <2> HIDE DEF Less, Rest
  <2>3. QED
    BY <2>1, <2>2, <1>2, WFMin
<1> HIDE DEF Less
<1>4. x \in Nat /\ x # 0 /\ x - 1 \in Nat /\ x - 1 < x /\ (x - 1) + 1 = x
  OBVIOUS
<1>5. x - 1 \in S
  BY <1>1, <1>3, <1>4
<1>6. QED
  BY <1>3, <1>4, <1>5

\* The same up to some number.
LEMMA InductionTo ==
    ASSUME NEW n \in Nat, NEW S, 0 \in S, \A i \in 1 .. n : i - 1 \in S => i \in S
    PROVE  0 .. n \subseteq S
<1> DEFINE T == {i \in Nat : i \in 0 .. n => i \in S}
<1>1. 0 \in T
  OBVIOUS
<1>2. ASSUME NEW i \in Nat, i \in T PROVE i + 1 \in T
  <2>1. CASE i + 1 \in 1 .. n
    <3>1. i \in 0 .. n /\ (i + 1) - 1 = i
      BY <2>1
    <3>2. i + 1 \in S
      BY <1>2, <2>1, <3>1
    <3>3. QED
      BY <3>2
  <2>2. CASE i + 1 \notin 1 .. n
    BY <2>2
  <2>3. QED
    BY <2>1, <2>2
<1>3. Nat \subseteq T
  <2> HIDE DEF T
  <2>1. QED
    BY <1>1, <1>2, Induction
<1>4. QED
  BY <1>3

LEMMA MaxOfSegment ==
    ASSUME NEW n \in Nat, NEW s \in SUBSET (1 .. n + 1), n + 1 \in s
    PROVE  Max(s) = n + 1
<1>1. \A y \in s : n + 1 >= y
  OBVIOUS
<1>2. \A x \in s : (\A y \in s : x >= y) => x = n + 1
  OBVIOUS
<1>3. QED
  BY <1>1, <1>2, Zenon DEF Max

\* A step of a fold: from the next index and what has been made so far.
Steps(n, V) == [(1 .. n) \X V -> V]

\* What MapThenFoldSet makes of each set of indices, the largest last.
IsFold(f, n, b, g) ==
    \A s \in SUBSET (1 .. n) : f[s] = IF s = {} THEN b ELSE g[<<Max(s), f[s \ {Max(s)}]>>]

\* There is such a function.
LEMMA FoldExists ==
    ASSUME NEW n \in Nat, NEW V, NEW b \in V, NEW g \in Steps(n, V)
    PROVE  \E f \in [SUBSET (1 .. n) -> V] : IsFold(f, n, b, g)
<1> DEFINE S == {k \in 0 .. n : \E f \in [SUBSET (1 .. k) -> V] : IsFold(f, k, b, g)}
<1>1. 0 \in S
  <2> DEFINE f == [s \in SUBSET (1 .. 0) |-> b]
  <2>1. f \in [SUBSET (1 .. 0) -> V] /\ IsFold(f, 0, b, g)
    BY DEF IsFold
  <2>2. 0 \in 0 .. n
    OBVIOUS
  <2> HIDE DEF f
  <2>3. QED
    BY <2>1, <2>2, Zenon
<1>2. ASSUME NEW k \in 1 .. n, k - 1 \in S PROVE k \in S
  <2>1. PICK f \in [SUBSET (1 .. k - 1) -> V] : IsFold(f, k - 1, b, g)
    BY <1>2
  <2> DEFINE h == [s \in SUBSET (1 .. k) |-> IF k \in s THEN g[<<k, f[s \ {k}]>>] ELSE f[s]]
  <2>2. \A s \in SUBSET (1 .. k) : s \ {k} \in SUBSET (1 .. k - 1) /\ (k \notin s => s \in SUBSET (1 .. k - 1))
    OBVIOUS
  <2>3. h \in [SUBSET (1 .. k) -> V]
    BY <2>2 DEF Steps
  <2>4. ASSUME NEW s \in SUBSET (1 .. k), k \in s
        PROVE  h[s] = g[<<Max(s), h[s \ {Max(s)}]>>]
    <3>1. Max(s) = k
      <4>1. k - 1 \in Nat /\ (k - 1) + 1 = k
        OBVIOUS
      <4>2. QED
        BY <4>1, <2>4, MaxOfSegment
    <3>2. h[s \ {k}] = f[s \ {k}] /\ h[s] = g[<<k, f[s \ {k}]>>]
      BY <2>2, <2>4
    <3>3. QED
      BY <3>1, <3>2
  <2>5. ASSUME NEW s \in SUBSET (1 .. k), k \notin s
        PROVE  h[s] = IF s = {} THEN b ELSE g[<<Max(s), h[s \ {Max(s)}]>>]
    <3>1. s \in SUBSET (1 .. k - 1) /\ h[s] = f[s]
      BY <2>2, <2>5
    <3>2. h[s \ {Max(s)}] = f[s \ {Max(s)}]
      BY <2>5, <3>1
    <3>3. QED
      BY <2>1, <3>1, <3>2 DEF IsFold
  <2>6. IsFold(h, k, b, g)
    <3> HIDE DEF h
    <3>1. QED
      BY <2>4, <2>5 DEF IsFold
  <2>7. k \in 0 .. n
    OBVIOUS
  <2> HIDE DEF h
  <2>8. QED
    BY <2>3, <2>6, <2>7, Zenon
<1>3. n \in S
  <2> HIDE DEF S
  <2>1. 0 .. n \subseteq S
    BY <1>1, <1>2, InductionTo
  <2>2. QED
    BY <2>1
<1>4. QED
  BY <1>3

\* From the sets to the initial segments.
LEMMA Segments ==
    ASSUME NEW n \in Nat, NEW i \in 1 .. n
    PROVE  /\ 1 .. i \in SUBSET (1 .. n) /\ 1 .. i # {}
           /\ Max(1 .. i) = i /\ (1 .. i) \ {Max(1 .. i)} = 1 .. i - 1
<1>1. Max(1 .. i) = i
  <2>1. i - 1 \in Nat /\ (i - 1) + 1 = i /\ 1 .. i \in SUBSET (1 .. (i - 1) + 1) /\ i \in 1 .. i
    OBVIOUS
  <2>2. QED
    BY <2>1, MaxOfSegment
<1>2. QED
  BY <1>1

\* What a fold has made of the first i elements, for each i.
IsPrefixFold(F, n, b, g) == F[0] = b /\ \A i \in 1 .. n : F[i] = g[<<i, F[i - 1]>>]

Follows(it, n, V, b, g) ==
    /\ it[{}] = b
    /\ \A i \in 1 .. n : it[1 .. i - 1] \in V => it[1 .. i] = g[<<i, it[1 .. i - 1]>>]

LEMMA FoldSteps ==
    ASSUME NEW n \in Nat, NEW V, NEW b \in V, NEW g \in Steps(n, V),
           NEW it, Follows(it, n, V, b, g)
    PROVE  \E F \in [0 .. n -> V] : F[n] = it[1 .. n] /\ IsPrefixFold(F, n, b, g)
<1> DEFINE F == [i \in 0 .. n |-> it[1 .. i]]
           S == {i \in 0 .. n : it[1 .. i] \in V}
<1>1. 1 .. 0 = {}
  OBVIOUS
<1>2. 0 \in S
  BY <1>1 DEF Follows
<1>3. ASSUME NEW i \in 1 .. n, i - 1 \in S PROVE i \in S
  <2>1. it[1 .. i - 1] \in V /\ it[1 .. i] = g[<<i, it[1 .. i - 1]>>]
    BY <1>3 DEF Follows
  <2>2. it[1 .. i] \in V
    BY <2>1 DEF Steps
  <2>3. QED
    BY <2>2
<1>4. 0 .. n \subseteq S
  <2> HIDE DEF S
  <2>1. QED
    BY <1>2, <1>3, InductionTo
<1>5. F \in [0 .. n -> V] /\ F[0] = b /\ F[n] = it[1 .. n]
  BY <1>1, <1>4 DEF Follows
<1>6. \A i \in 1 .. n : F[i] = g[<<i, F[i - 1]>>]
  BY <1>4 DEF Follows
<1>7. QED
  <2> HIDE DEF F
  <2>1. QED
    BY <1>5, <1>6 DEF IsPrefixFold

\* The largest of some indices.
LEMMA MaxIn ==
    ASSUME NEW n \in Nat, NEW s \in SUBSET (1 .. n), s # {}
    PROVE  Max(s) \in s /\ \A y \in s : Max(s) >= y
<1> DEFINE S == {k \in 0 .. n : \A t \in SUBSET (1 .. k) : t # {} => \E x \in t : \A y \in t : x >= y}
<1>1. 0 \in S
  <2>1. 1 .. 0 = {} /\ 0 \in 0 .. n
    OBVIOUS
  <2>2. \A t \in SUBSET (1 .. 0) : t = {}
    BY <2>1
  <2>3. QED
    BY <2>1, <2>2, Zenon
<1>2. ASSUME NEW k \in 1 .. n, k - 1 \in S PROVE k \in S
  <2>1. ASSUME NEW t \in SUBSET (1 .. k), t # {} PROVE \E x \in t : \A y \in t : x >= y
    <3>1. CASE k \in t
      BY <3>1
    <3>2. CASE k \notin t
      <4>1. t \in SUBSET (1 .. k - 1)
        BY <3>2
      <4>2. QED
        BY <4>1, <2>1, <1>2
    <3>3. QED
      BY <3>1, <3>2
  <2>2. QED
    BY <2>1
<1>3. 0 .. n \subseteq S
  <2> HIDE DEF S
  <2>1. QED
    BY <1>1, <1>2, InductionTo
<1>4. \E x \in s : \A y \in s : x >= y
  <2>1. n \in S
    <3> HIDE DEF S
    <3>1. QED
      BY <1>3
  <2>2. QED
    BY <2>1, Zenon
<1>5. QED
  BY <1>4, Zenon DEF Max

LEMMA SumFold ==
    ASSUME NEW s \in Seq(Nat)
    PROVE  \E F \in [0 .. Len(s) -> Nat] :
             /\ F[0] = 0 /\ Sum(s) = F[Len(s)]
             /\ \A i \in 1 .. Len(s) : F[i] = F[i - 1] + s[i]
<1> DEFINE n == Len(s)
           g == [p \in (1 .. n) \X Nat |-> p[2] + s[p[1]]]
           D(f) == [t \in SUBSET (1 .. n) |-> IF t = {} THEN 0 ELSE f[t \ {Max(t)}] + s[Max(t)]]
           it == CHOOSE f : f = D(f)
<1>1. n \in Nat /\ DOMAIN s = 1 .. n /\ (\A i \in 1 .. n : s[i] \in Nat) /\ 0 \in Nat
  OBVIOUS
<1>2. Sum(s) = it[1 .. n]
  BY <1>1, Zenon DEF Sum, FoldLeft, MapThenFoldSet
<1> HIDE DEF n
<1>3. g \in Steps(n, Nat)
  BY <1>1 DEF Steps
<1>4. it = D(it)
  <2>1. PICK f \in [SUBSET (1 .. n) -> Nat] : IsFold(f, n, 0, g)
    <3> HIDE DEF g
    <3>1. QED
      BY <1>1, <1>3, FoldExists, Zenon
  <2>2. f = D(f)
    BY <1>1, <2>1, MaxIn DEF IsFold
  <2> HIDE DEF D
  <2>3. QED
    BY <2>2, Zenon
<1> HIDE DEF it
<1>5. it[{}] = 0
  BY <1>4, Zenon
<1>6. ASSUME NEW i \in 1 .. n PROVE it[1 .. i] = it[1 .. i - 1] + s[i]
  <2>1. it[1 .. i] = it[(1 .. i) \ {Max(1 .. i)}] + s[Max(1 .. i)]
    BY <1>4, <1>1, Segments, Zenon
  <2>2. QED
    BY <2>1, <1>1, Segments
<1>7. Follows(it, n, Nat, 0, g)
  BY <1>5, <1>6 DEF Follows
<1>8. PICK F \in [0 .. n -> Nat] : F[n] = it[1 .. n] /\ IsPrefixFold(F, n, 0, g)
  <2> HIDE DEF g
  <2>1. QED
    BY <1>1, <1>3, <1>7, FoldSteps
<1>9. \A i \in 1 .. n : F[i] = F[i - 1] + s[i]
  <2>1. \A i \in 1 .. n : i - 1 \in 0 .. n
    BY <1>1
  <2>2. \A i \in 1 .. n : <<i, F[i - 1]>> \in (1 .. n) \X Nat
    BY <1>8, <2>1
  <2>3. \A i \in 1 .. n : F[i] = g[<<i, F[i - 1]>>]
    <3> HIDE DEF g
    <3>1. QED
      BY <1>8 DEF IsPrefixFold
  <2>4. QED
    BY <2>2, <2>3
<1>10. F[0] = 0
  BY <1>8 DEF IsPrefixFold
<1>11. QED
  BY <1>2, <1>8, <1>9, <1>10 DEF n

\* The sums of the first numbers of s.
Sums(F, s) ==
    /\ F \in [0 .. Len(s) -> Nat] /\ F[0] = 0
    /\ \A i \in 1 .. Len(s) : F[i] = F[i - 1] + s[i]

LEMMA SumOf ==
    ASSUME NEW s \in Seq(Nat)
    PROVE  \E F : Sums(F, s) /\ Sum(s) = F[Len(s)]
BY SumFold DEF Sums

LEMMA SumType == ASSUME NEW s \in Seq(Nat) PROVE Sum(s) \in Nat
<1>1. PICK F : Sums(F, s) /\ Sum(s) = F[Len(s)]
  BY SumOf
<1>2. Len(s) \in 0 .. Len(s)
  OBVIOUS
<1>3. QED
  BY <1>1, <1>2 DEF Sums

LEMMA SumsStep ==
    ASSUME NEW s \in Seq(Nat), NEW F, Sums(F, s), NEW i \in 1 .. Len(s)
    PROVE  /\ i - 1 \in 0 .. Len(s) /\ i \in 0 .. Len(s) /\ s[i] \in Nat
           /\ F[i - 1] \in Nat /\ F[i] \in Nat /\ F[i] = F[i - 1] + s[i]
<1>1. i - 1 \in 0 .. Len(s) /\ i \in 0 .. Len(s) /\ s[i] \in Nat
  OBVIOUS
<1>2. QED
  BY <1>1 DEF Sums

\* The sum of a part is the difference of two sums.
LEMMA SumOfPart ==
    ASSUME NEW s \in Seq(Nat), NEW F, Sums(F, s),
           NEW m \in 0 .. Len(s), NEW b \in m .. Len(s)
    PROVE  F[m] + Sum(SubSeq(s, m + 1, b)) = F[b]
<1> DEFINE t == SubSeq(s, m + 1, b)
<1>0. Len(s) \in Nat /\ m \in Nat /\ b \in Nat /\ m <= b /\ b <= Len(s) /\ (m + 1 > b => m = b)
  OBVIOUS
<1>1. t \in Seq(Nat) /\ Len(t) = b - m /\ \A i \in 1 .. Len(t) : t[i] = s[m + i]
  <2>1. m + 1 \in Int /\ b \in Int
    BY <1>0
  <2>2. /\ t \in Seq(Nat) /\ Len(t) = IF m + 1 <= b THEN b - (m + 1) + 1 ELSE 0
        /\ \A i \in 1 .. b - (m + 1) + 1 : t[i] = s[(m + 1) + i - 1]
    <3>1. \A i \in m + 1 .. b : i \in 1 .. Len(s)
      BY <1>0
    <3>2. QED
      BY <1>0, <2>1, <3>1
  <2>3. QED
    BY <2>2, <1>0
<1> HIDE DEF t
<1>2. PICK G : Sums(G, t) /\ Sum(t) = G[Len(t)]
  BY <1>1, SumOf
<1> DEFINE S == {i \in 0 .. Len(t) : F[m] + G[i] = F[m + i]}
<1>3. /\ Len(t) \in Nat /\ Len(s) \in Nat /\ m \in Nat /\ m + Len(t) = b
      /\ \A i \in 1 .. Len(t) : m + i \in 1 .. Len(s) /\ (m + i) - 1 = m + (i - 1)
  BY <1>0, <1>1
<1> F[m] \in Nat
  BY DEF Sums
<1>4. 0 \in S
  BY <1>2, <1>3 DEF Sums
<1>5. ASSUME NEW i \in 1 .. Len(t), i - 1 \in S PROVE i \in S
  <2>1. G[i] = G[i - 1] + t[i] /\ t[i] = s[m + i] /\ t[i] \in Nat /\ G[i - 1] \in Nat
    BY <1>1, <1>2, SumsStep
  <2>2. F[m + i] = F[m + (i - 1)] + s[m + i] /\ F[m + (i - 1)] \in Nat
    <3>1. m + i \in 1 .. Len(s) /\ (m + i) - 1 = m + (i - 1)
      BY <1>3
    <3>2. F[m + i] = F[(m + i) - 1] + s[m + i] /\ F[(m + i) - 1] \in Nat
      BY <3>1, SumsStep
    <3>3. QED
      BY <3>1, <3>2, Zenon
  <2>3. F[m] + G[i - 1] = F[m + (i - 1)]
    BY <1>5
  <2>4. F[m] + G[i] = F[m + i]
    <3> HIDE DEF S
    <3> DEFINE x == F[m]
               y == G[i - 1]
               v == t[i]
    <3>1. /\ G[i] = y + v /\ F[m + i] = (x + y) + v
          /\ x \in Nat /\ y \in Nat /\ v \in Nat
      BY <2>1, <2>2, <2>3, Zenon
    <3>2. x + G[i] = x + (y + v) /\ F[m + i] = (x + y) + v
      BY <3>1, Zenon
    <3> HIDE DEF x, y, v
    <3>3. x + (y + v) = (x + y) + v
      BY <3>1
    <3>4. QED
      BY <3>2, <3>3, Zenon DEF x
  <2>5. QED
    BY <2>4
<1>6. Len(t) \in S
  <2> HIDE DEF S
  <2>1. 0 .. Len(t) \subseteq S
    BY <1>3, <1>4, <1>5, InductionTo
  <2>2. QED
    BY <2>1, <1>3
<1>7. QED
  BY <1>2, <1>3, <1>6 DEF t

\* Sums never decrease.
LEMMA SumsGrow ==
    ASSUME NEW s \in Seq(Nat), NEW F, Sums(F, s),
           NEW i \in 0 .. Len(s), NEW j \in 0 .. Len(s), i <= j
    PROVE  F[i] <= F[j]
<1> DEFINE S == {k \in 0 .. Len(s) : i <= k => F[i] <= F[k]}
<1>1. Len(s) \in Nat
  OBVIOUS
<1>2. 0 \in S
  BY DEF Sums
<1>3. ASSUME NEW k \in 1 .. Len(s), k - 1 \in S PROVE k \in S
  <2>1. F[k] = F[k - 1] + s[k] /\ s[k] \in Nat /\ F[k - 1] \in Nat /\ F[i] \in Nat
    BY SumsStep DEF Sums
  <2>2. CASE i <= k - 1
    BY <2>1, <2>2, <1>3
  <2>3. CASE i = k
    BY <2>1, <2>3
  <2>4. QED
    BY <2>2, <2>3
<1>4. j \in S
  <2> HIDE DEF S
  <2>1. 0 .. Len(s) \subseteq S
    BY <1>1, <1>2, <1>3, InductionTo
  <2>2. QED
    BY <2>1
<1>5. QED
  BY <1>4

-----------------------------------------------------------------------------
(* Digits: a frequency is read as it was printed. *)

LEMMA TenFold ==
    ASSUME NEW n \in Nat
    PROVE  \E F \in [0 .. n -> Nat] :
             /\ F[0] = 1 /\ Ten(n) = F[n]
             /\ \A i \in 1 .. n : F[i] = 10 * F[i - 1]
<1> DEFINE g == [p \in (1 .. n) \X Nat |-> 10 * p[2]]
           D(f) == [t \in SUBSET (1 .. n) |-> IF t = {} THEN 1 ELSE 10 * f[t \ {Max(t)}]]
           it == CHOOSE f : f = D(f)
           s == [i \in 1 .. n |-> i]
<1>1. DOMAIN s = 1 .. n /\ 1 \in Nat
  OBVIOUS
<1>2. Ten(n) = it[1 .. n]
  <2>1. Ten(n) = FoldLeft(LAMBDA t, i : 10 * t, 1, s)
    BY Zenon DEF Ten
  <2> HIDE DEF s
  <2>2. FoldLeft(LAMBDA t, i : 10 * t, 1, s) = it[1 .. n]
    BY <1>1, Zenon DEF FoldLeft, MapThenFoldSet
  <2>3. QED
    BY <2>1, <2>2, Zenon
<1>3. g \in Steps(n, Nat)
  BY DEF Steps
<1>4. it = D(it)
  <2>1. PICK f \in [SUBSET (1 .. n) -> Nat] : IsFold(f, n, 1, g)
    <3> HIDE DEF g
    <3>1. QED
      BY <1>1, <1>3, FoldExists, Zenon
  <2>2. f = D(f)
    <3>1. ASSUME NEW t \in SUBSET (1 .. n)
          PROVE  f[t] = IF t = {} THEN 1 ELSE 10 * f[t \ {Max(t)}]
      <4>1. CASE t = {}
        BY <2>1, <4>1, Zenon DEF IsFold
      <4>2. CASE t # {}
        <5>1. Max(t) \in 1 .. n /\ t \ {Max(t)} \in SUBSET (1 .. n)
          BY <1>1, <4>2, MaxIn
        <5>2. f[t] = g[<<Max(t), f[t \ {Max(t)}]>>] /\ f[t \ {Max(t)}] \in Nat
          <6> HIDE DEF g
          <6>1. QED
            BY <2>1, <4>2, <5>1, Zenon DEF IsFold
        <5>3. QED
          BY <4>2, <5>1, <5>2
      <4>3. QED
        BY <4>1, <4>2, Zenon
    <3>2. \A t \in SUBSET (1 .. n) : f[t] = D(f)[t]
      BY <3>1, Zenon
    <3>3. QED
      BY <2>1, <3>2
  <2> HIDE DEF D
  <2>3. QED
    BY <2>2, Zenon
<1> HIDE DEF it
<1>5. it[{}] = 1
  BY <1>4, Zenon
<1>6. ASSUME NEW i \in 1 .. n PROVE it[1 .. i] = 10 * it[1 .. i - 1]
  <2>1. it[1 .. i] = 10 * it[(1 .. i) \ {Max(1 .. i)}]
    BY <1>4, Segments, Zenon
  <2>2. QED
    BY <2>1, Segments
<1>7. Follows(it, n, Nat, 1, g)
  BY <1>5, <1>6 DEF Follows
<1>8. PICK F \in [0 .. n -> Nat] : F[n] = it[1 .. n] /\ IsPrefixFold(F, n, 1, g)
  <2> HIDE DEF g
  <2>1. QED
    BY <1>1, <1>3, <1>7, FoldSteps
<1>9. \A i \in 1 .. n : F[i] = 10 * F[i - 1]
  <2>1. \A i \in 1 .. n : i - 1 \in 0 .. n
    OBVIOUS
  <2>2. \A i \in 1 .. n : <<i, F[i - 1]>> \in (1 .. n) \X Nat
    BY <1>8, <2>1
  <2>3. \A i \in 1 .. n : F[i] = g[<<i, F[i - 1]>>]
    <3> HIDE DEF g
    <3>1. QED
      BY <1>8 DEF IsPrefixFold
  <2>4. QED
    BY <2>2, <2>3
<1>10. F[0] = 1
  BY <1>8 DEF IsPrefixFold
<1>11. QED
  BY <1>2, <1>8, <1>9, <1>10

\* Powers of ten.
LEMMA TenZero == Ten(0) = 1
BY TenFold

LEMMA TenStep ==
    ASSUME NEW n \in Nat
    PROVE  Ten(n) \in Nat /\ Ten(n + 1) = 10 * Ten(n)
<1>1. PICK F \in [0 .. n -> Nat] :
         F[0] = 1 /\ Ten(n) = F[n] /\ \A i \in 1 .. n : F[i] = 10 * F[i - 1]
  BY TenFold
<1>2. PICK G \in [0 .. n + 1 -> Nat] :
         G[0] = 1 /\ Ten(n + 1) = G[n + 1] /\ \A i \in 1 .. n + 1 : G[i] = 10 * G[i - 1]
  <2>1. n + 1 \in Nat
    OBVIOUS
  <2>2. QED
    BY <2>1, TenFold
<1> DEFINE S == {i \in 0 .. n : F[i] = G[i]}
<1>3. 0 \in S
  BY <1>1, <1>2
<1>4. ASSUME NEW i \in 1 .. n, i - 1 \in S PROVE i \in S
  BY <1>1, <1>2, <1>4
<1>5. n \in S
  <2> HIDE DEF S
  <2>1. 0 .. n \subseteq S
    BY <1>3, <1>4, InductionTo
  <2>2. QED
    BY <2>1
<1>6. G[n + 1] = 10 * G[n] /\ F[n] = G[n] /\ F[n] \in Nat
  <2>1. n + 1 \in 1 .. n + 1 /\ (n + 1) - 1 = n /\ n \in 0 .. n
    OBVIOUS
  <2>2. QED
    BY <2>1, <1>1, <1>2, <1>5
<1>7. QED
  BY <1>1, <1>2, <1>6

LEMMA TenPositive == \A n \in Nat : Ten(n) \in Nat /\ Ten(n) >= 1
<1> DEFINE S == {n \in Nat : Ten(n) >= 1}
<1>1. 0 \in S
  BY TenZero
<1>2. ASSUME NEW n \in Nat, n \in S PROVE n + 1 \in S
  BY <1>2, TenStep
<1>3. Nat \subseteq S
  <2> HIDE DEF S
  <2>1. QED
    BY <1>1, <1>2, Induction
<1>4. QED
  BY <1>3, TenStep

LEMMA TenGrows == ASSUME NEW m \in Nat PROVE \A n \in Nat : m <= n => Ten(m) <= Ten(n)
<1> DEFINE S == {n \in Nat : m <= n => Ten(m) <= Ten(n)}
<1>1. 0 \in S
  BY TenZero
<1>2. ASSUME NEW n \in Nat, n \in S PROVE n + 1 \in S
  <2>1. Ten(n + 1) = 10 * Ten(n) /\ Ten(n) \in Nat /\ Ten(m) \in Nat
    BY TenStep
  <2>2. CASE m <= n
    <3>1. Ten(m) <= Ten(n)
      BY <1>2, <2>2
    <3>2. Ten(m) <= Ten(n + 1)
      BY <2>1, <3>1
    <3>3. QED
      BY <3>2
  <2>3. CASE m = n + 1
    BY <2>1, <2>3
  <2>4. CASE m > n + 1
    BY <2>4
  <2>5. QED
    BY <2>2, <2>3, <2>4
<1>3. Nat \subseteq S
  <2> HIDE DEF S
  <2>1. QED
    BY <1>1, <1>2, Induction
<1>4. QED
  BY <1>3

LEMMA Division ==
    ASSUME NEW r \in Nat, NEW t \in Nat, t >= 1
    PROVE  /\ r \div t \in Nat /\ (r \div t) * t <= r /\ r < (r \div t) * t + t
OBVIOUS

LEMMA Multiples ==
    ASSUME NEW a \in Nat, NEW b \in Nat, NEW t \in Nat, a <= b
    PROVE  a * t <= b * t
OBVIOUS

LEMMA DivisionIs ==
    ASSUME NEW r \in Nat, NEW t \in Nat, t >= 1, NEW a \in Nat, a * t <= r, r < a * t + t
    PROVE  r \div t = a
<1> DEFINE b == r \div t
<1>1. b \in Nat /\ b * t <= r /\ r < b * t + t
  BY Division
<1> HIDE DEF b
<1>2. CASE b >= a + 1
  <2>1. (a + 1) * t <= b * t /\ (a + 1) * t = a * t + t
    BY <1>1, <1>2, Multiples
  <2>2. a * t \in Nat /\ b * t \in Nat
    BY <1>1
  <2>3. QED
    BY <2>1, <2>2, <1>1
<1>3. CASE a >= b + 1
  <2>1. (b + 1) * t <= a * t /\ (b + 1) * t = b * t + t
    BY <1>1, <1>3, Multiples
  <2>2. a * t \in Nat /\ b * t \in Nat
    BY <1>1
  <2>3. QED
    BY <2>1, <2>2, <1>1
<1>4. QED
  BY <1>1, <1>2, <1>3 DEF b

\* One digit more.
LEMMA DigitStep ==
    ASSUME NEW r \in Nat, NEW t \in Nat, t >= 1
    PROVE  (r \div t) * t = (r \div (10 * t)) * (10 * t) + ((r \div t) % 10) * t
<1> DEFINE q == r \div t
           a == q \div 10
           b == q % 10
<1>1. q \in Nat /\ q * t <= r /\ r < q * t + t
  BY Division
<1> HIDE DEF q
<1>2. a \in Nat /\ b \in 0 .. 9 /\ q = 10 * a + b
  BY <1>1
<1> HIDE DEF a, b
<1>3. q * t = a * (10 * t) + b * t
  BY <1>1, <1>2
<1>4. b * t <= 9 * t /\ b * t \in Nat /\ a * (10 * t) \in Nat /\ 10 * t \in Nat
  BY <1>2, Multiples
<1>5. a * (10 * t) <= r /\ r < a * (10 * t) + 10 * t
  BY <1>1, <1>3, <1>4
<1>6. r \div (10 * t) = a
  BY <1>2, <1>4, <1>5, DivisionIs
<1>7. QED
  BY <1>3, <1>6 DEF q, b

\* The largest of some digits' places, 0 among them.
LEMMA LastPlace ==
    ASSUME NEW w \in Nat, NEW s \in SUBSET (1 .. w)
    PROVE  Max({0} \cup s) \in 0 .. w /\ \A i \in s : i <= Max({0} \cup s)
<1>1. CASE s = {}
  <2>1. \A x \in {0} \cup s : x = 0
    BY <1>1
  <2>2. 0 \in {0} \cup s /\ \A y \in {0} \cup s : 0 >= y
    BY <1>1
  <2>3. Max({0} \cup s) = 0
    BY <2>1, <2>2, Zenon DEF Max
  <2>4. QED
    BY <2>3, <1>1
<1>2. CASE s # {}
  <2>1. Max(s) \in s /\ \A y \in s : Max(s) >= y
    BY <1>2, MaxIn
  <2>2. PICK m \in s : \A y \in s : m >= y
    BY <2>1
  <2>3. m \in {0} \cup s /\ \A y \in {0} \cup s : m >= y
    BY <2>2
  <2>4. Max({0} \cup s) \in {0} \cup s /\ \A y \in {0} \cup s : Max({0} \cup s) >= y
    BY <2>3, Zenon DEF Max
  <2> DEFINE x == Max({0} \cup s)
  <2> HIDE DEF x
  <2>5. x \in {0} \cup s /\ (\A y \in s : x >= y) => x \in 0 .. w /\ \A y \in s : y <= x
    OBVIOUS
  <2>6. QED
    BY <2>4, <2>5 DEF x
<1>3. QED
  BY <1>1, <1>2

LEMMA DigitOf ==
    ASSUME NEW r \in Nat, NEW j \in Nat
    PROVE  /\ (r \div Ten(j)) % 10 \in Nat
           /\ (r \div Ten(j)) * Ten(j)
                = (r \div Ten(j + 1)) * Ten(j + 1) + ((r \div Ten(j)) % 10) * Ten(j)
<1> DEFINE t == Ten(j)
<1>1. t \in Nat /\ t >= 1 /\ Ten(j + 1) = 10 * t
  BY TenPositive, TenStep
<1> HIDE DEF t
<1>2. (r \div t) * t = (r \div (10 * t)) * (10 * t) + ((r \div t) % 10) * t
  BY <1>1, DigitStep
<1>3. (r \div t) \in Nat
  BY <1>1, Division
<1>4. (r \div t) % 10 \in Nat
  BY <1>3
<1>5. QED
  BY <1>1, <1>2, <1>4 DEF t

\* A fraction without the zeros at its end still is the fraction.
LEMMA FractionRead ==
    ASSUME NEW w \in Nat, NEW r \in Nat, r < Ten(w)
    PROVE  LET digits == RightStripped(Padded(r, w))
           IN  Sum([i \in DOMAIN digits |-> digits[i] * Ten(w - i)]) = r
<1> DEFINE d == Padded(r, w)
           places == {i \in DOMAIN d : d[i] # 0}
           k == Max({0} \cup places)
           digits == RightStripped(d)
           s == [i \in DOMAIN digits |-> digits[i] * Ten(w - i)]
           V(j) == (r \div Ten(j)) * Ten(j)
<1>1. /\ DOMAIN d = 1 .. w /\ d \in Seq(Nat) /\ Len(d) = w
      /\ \A i \in 1 .. w : w - i \in Nat /\ d[i] = (r \div Ten(w - i)) % 10 /\ d[i] \in Nat
  <2>0. \A i \in 1 .. w : w - i \in Nat
    OBVIOUS
  <2>1. \A i \in 1 .. w : w - i \in Nat /\ (r \div Ten(w - i)) % 10 \in Nat
    BY <2>0, DigitOf
  <2>2. QED
    BY <2>1 DEF Padded
<1>2. k \in 0 .. w /\ \A i \in 1 .. w : i > k => d[i] = 0
  <2>1. places \in SUBSET (1 .. w)
    BY <1>1
  <2> HIDE DEF places
  <2>2. k \in 0 .. w /\ \A i \in places : i <= k
    BY <2>1, LastPlace
  <2> HIDE DEF k
  <2>3. ASSUME NEW i \in 1 .. w, i > k PROVE d[i] = 0
    <3>1. ~(i <= k)
      BY <2>2, <2>3
    <3>2. QED
      BY <1>1, <2>2, <3>1, Zenon DEF places
  <2>4. QED
    BY <2>2, <2>3, Zenon
<1>3. digits = SubSeq(d, 1, k)
  BY Zenon DEF RightStripped
<1> HIDE DEF digits, k, d
<1>4. DOMAIN digits = 1 .. k /\ \A i \in 1 .. k : digits[i] = d[i]
  BY <1>1, <1>2, <1>3
<1>5. \A i \in 1 .. k : w - i \in Nat /\ digits[i] \in Nat /\ digits[i] * Ten(w - i) \in Nat
  <2>1. ASSUME NEW i \in 1 .. k
        PROVE  w - i \in Nat /\ digits[i] \in Nat /\ Ten(w - i) \in Nat
    <3>1. i \in 1 .. w /\ digits[i] = d[i]
      BY <1>2, <1>4
    <3>2. w - i \in Nat /\ d[i] \in Nat
      BY <1>1, <3>1
    <3>3. QED
      BY <3>1, <3>2, TenPositive
  <2>2. QED
    BY <2>1
<1>6. s \in Seq(Nat) /\ Len(s) = k /\ \A i \in 1 .. k : s[i] = d[i] * Ten(w - i)
  BY <1>2, <1>4, <1>5
<1>7. \A j \in Nat : V(j) \in Nat
  BY TenPositive, Division
<1>8. \A i \in 1 .. w : V(w - i) = V((w - i) + 1) + d[i] * Ten(w - i)
  BY <1>1, DigitOf
<1>9. V(w) = 0
  <2>1. Ten(w) \in Nat /\ Ten(w) >= 1 /\ 0 * Ten(w) <= r /\ r < 0 * Ten(w) + Ten(w)
    BY TenPositive
  <2>2. r \div Ten(w) = 0
    BY <2>1, DivisionIs
  <2>3. QED
    BY <2>1, <2>2
<1>10. V(0) = r
  BY TenZero
<1> HIDE DEF s, V
<1>11. PICK F : Sums(F, s) /\ Sum(s) = F[Len(s)]
  BY <1>6, SumOf
<1>12. F[k] = V(w - k)
  <2> DEFINE S == {i \in 0 .. k : F[i] = V(w - i)}
  <2>1. 0 \in S
    BY <1>2, <1>9, <1>11 DEF Sums
  <2>2. ASSUME NEW i \in 1 .. k, i - 1 \in S PROVE i \in S
    <3>1. F[i] = F[i - 1] + d[i] * Ten(w - i)
      BY <1>6, <1>11, SumsStep
    <3>2. F[i - 1] = V((w - i) + 1)
      <4>1. w - (i - 1) = (w - i) + 1
        BY <1>2
      <4>2. QED
        BY <4>1, <2>2
    <3>3. F[i] = V(w - i)
      BY <3>1, <3>2, <1>8, <1>2
    <3>4. QED
      BY <3>3
  <2>3. k \in S
    <3> HIDE DEF S
    <3>1. 0 .. k \subseteq S
      BY <1>2, <2>1, <2>2, InductionTo
    <3>2. QED
      BY <3>1, <1>2
  <2>4. QED
    BY <2>3
<1>13. V(w - k) = r
  <2> DEFINE S == {j \in 0 .. w - k : V(j) = r}
  <2>1. 0 \in S
    BY <1>2, <1>10
  <2>2. ASSUME NEW j \in 1 .. w - k, j - 1 \in S PROVE j \in S
    <3> DEFINE i == w - (j - 1)
    <3>1. i \in 1 .. w /\ i > k /\ w - i = j - 1 /\ (w - i) + 1 = j
      BY <1>2
    <3>2. V(j - 1) = V(j) + d[i] * Ten(j - 1) /\ d[i] = 0
      BY <3>1, <1>8, <1>2
    <3>3. Ten(j - 1) \in Nat /\ V(j) \in Nat
      BY <1>7, TenPositive, <1>2
    <3>4. V(j - 1) = r
      BY <2>2
    <3>5. V(j) = r
      BY <3>2, <3>3, <3>4
    <3>6. QED
      BY <3>5
  <2>3. w - k \in S
    <3>1. w - k \in Nat
      BY <1>2
    <3> HIDE DEF S
    <3>2. 0 .. w - k \subseteq S
      BY <3>1, <2>1, <2>2, InductionTo
    <3>3. QED
      BY <3>1, <3>2
  <2>4. QED
    BY <2>3
<1>14. QED
  BY <1>6, <1>11, <1>12, <1>13 DEF s, digits, d

LEMMA SuffixOf ==
    ASSUME NEW hz \in Nat
    PROVE  \E s \in FreqSuffixes :
             /\ hz >= Ten(Zeros(s)) \/ s = "Hz"
             /\ \A t \in FreqSuffixes : hz >= Ten(Zeros(t)) => Zeros(t) <= Zeros(s)
<1>1. Zeros("GHz") = 9 /\ Zeros("MHz") = 6 /\ Zeros("kHz") = 3 /\ Zeros("Hz") = 0
  BY DEF Zeros
<1>2. CASE hz >= Ten(9)
  BY <1>1, <1>2 DEF FreqSuffixes
<1>3. CASE ~(hz >= Ten(9)) /\ hz >= Ten(6)
  BY <1>1, <1>3 DEF FreqSuffixes
<1>4. CASE ~(hz >= Ten(9)) /\ ~(hz >= Ten(6)) /\ hz >= Ten(3)
  BY <1>1, <1>4 DEF FreqSuffixes
<1>5. CASE ~(hz >= Ten(9)) /\ ~(hz >= Ten(6)) /\ ~(hz >= Ten(3))
  BY <1>1, <1>5 DEF FreqSuffixes
<1>6. QED
  BY <1>2, <1>3, <1>4, <1>5

LEMMA FormatInverts == ASSUME NEW hz \in Nat PROVE ParseFrequency(Format(hz)) = hz
<1> DEFINE suffix == CHOOSE s \in FreqSuffixes :
                       /\ hz >= Ten(Zeros(s)) \/ s = "Hz"
                       /\ \A t \in FreqSuffixes : hz >= Ten(Zeros(t)) => Zeros(t) <= Zeros(s)
           w == Zeros(suffix)
           u == Ten(w)
           digits == RightStripped(Padded(hz % u, w))
<1>1. suffix \in FreqSuffixes
  BY SuffixOf, Zenon
<1>2. Format(hz) = [whole |-> hz \div u, suffix |-> suffix, fraction |-> digits]
  BY Zenon DEF Format
<1> HIDE DEF suffix
<1>3. w \in Nat
  BY <1>1 DEF FreqSuffixes, Zeros
<1> HIDE DEF w
<1>4. u \in Nat /\ u >= 1
  BY <1>3, TenPositive
<1> HIDE DEF u
<1>5. hz % u \in Nat /\ hz % u < u /\ hz = (hz \div u) * u + (hz % u)
  BY <1>4
<1>6. Sum([i \in DOMAIN digits |-> digits[i] * Ten(w - i)]) = hz % u
  BY <1>3, <1>5, FractionRead DEF u
<1> HIDE DEF digits
<1>7. ParseFrequency(Format(hz))
        = (hz \div u) * u + Sum([i \in DOMAIN digits |-> digits[i] * Ten(w - i)])
  <2> DEFINE text == Format(hz)
             e == [i \in DOMAIN digits |-> digits[i] * Ten(w - i)]
             e2 == [i \in DOMAIN text.fraction |-> text.fraction[i] * Ten(Zeros(text.suffix) - i)]
  <2>1. text.whole = hz \div u /\ Zeros(text.suffix) = w /\ text.fraction = digits
    BY <1>2 DEF w
  <2>2. ParseFrequency(text) = text.whole * Ten(Zeros(text.suffix)) + Sum(e2)
    BY Zenon DEF ParseFrequency
  <2>3. e2 = e
    BY <2>1, Zenon
  <2> HIDE DEF text, e, e2
  <2>4. ParseFrequency(text) = (hz \div u) * u + Sum(e)
    BY <2>1, <2>2, <2>3 DEF u
  <2>5. QED
    BY <2>4 DEF text, e
<1>8. QED
  BY <1>5, <1>6, <1>7

\* _fmt_hz and parse_frequency: a frequency that a readback shows is read as
\* the same frequency, whatever its digits.
THEOREM FormatIsReadBack == Spec => []FormatReadsBack
<1>1. FormatsReadBack
  BY FormatInverts, FrequenciesAssumption DEF FormatsReadBack
<1>2. FormatReadsBack
  BY <1>1 DEF FormatReadsBack
<1>3. QED
  BY <1>2, PTL

-----------------------------------------------------------------------------
(* The lines and points that are kept. *)

Keeps(F, s, X, S) ==
    /\ F \in [0 .. Len(s) -> Seq(X)] /\ F[0] = <<>>
    /\ \A i \in 1 .. Len(s) : F[i] = IF s[i] \in S THEN Append(F[i - 1], s[i]) ELSE F[i - 1]

LEMMA KeepOf ==
    ASSUME NEW X, NEW s \in Seq(X), NEW S
    PROVE  \E F : Keeps(F, s, X, S) /\ Keep(s, S) = F[Len(s)]
<1> DEFINE n == Len(s)
           g == [p \in (1 .. n) \X Seq(X) |-> IF s[p[1]] \in S THEN Append(p[2], s[p[1]]) ELSE p[2]]
           D(f) == [t \in SUBSET (1 .. n) |->
                      IF t = {} THEN <<>>
                      ELSE IF s[Max(t)] \in S THEN Append(f[t \ {Max(t)}], s[Max(t)])
                      ELSE f[t \ {Max(t)}]]
           it == CHOOSE f : f = D(f)
<1>1. n \in Nat /\ DOMAIN s = 1 .. n /\ (\A i \in 1 .. n : s[i] \in X) /\ <<>> \in Seq(X)
  OBVIOUS
<1>2. Keep(s, S) = it[1 .. n]
  BY <1>1, Zenon DEF Keep, FoldLeft, MapThenFoldSet
<1> HIDE DEF n
<1>3. g \in Steps(n, Seq(X))
  BY <1>1, AppendProperties DEF Steps
<1>4. it = D(it)
  <2>1. PICK f \in [SUBSET (1 .. n) -> Seq(X)] : IsFold(f, n, <<>>, g)
    <3> HIDE DEF g
    <3>1. QED
      BY <1>1, <1>3, FoldExists, Zenon
  <2>2. \A t \in SUBSET (1 .. n) : t # {} => Max(t) \in 1 .. n /\ t \ {Max(t)} \in SUBSET (1 .. n)
    BY <1>1, MaxIn
  <2>3. \A t \in SUBSET (1 .. n) : t # {} => <<Max(t), f[t \ {Max(t)}]>> \in (1 .. n) \X Seq(X)
    BY <2>1, <2>2
  <2>4. \A i \in 1 .. n, q \in Seq(X) : g[<<i, q>>] = IF s[i] \in S THEN Append(q, s[i]) ELSE q
    OBVIOUS
  <2>5. ASSUME NEW t \in SUBSET (1 .. n)
        PROVE  f[t] = IF t = {} THEN <<>>
                      ELSE IF s[Max(t)] \in S THEN Append(f[t \ {Max(t)}], s[Max(t)])
                      ELSE f[t \ {Max(t)}]
    <3> HIDE DEF g
    <3>1. f[t] = IF t = {} THEN <<>> ELSE g[<<Max(t), f[t \ {Max(t)}]>>]
      BY <2>1, Zenon DEF IsFold
    <3>2. ASSUME t # {} PROVE Max(t) \in 1 .. n /\ f[t \ {Max(t)}] \in Seq(X)
      <4>1. Max(t) \in 1 .. n /\ t \ {Max(t)} \in SUBSET (1 .. n)
        BY <2>2, <3>2
      <4>2. QED
        BY <2>1, <4>1
    <3>3. t # {} => g[<<Max(t), f[t \ {Max(t)}]>>]
                    = IF s[Max(t)] \in S THEN Append(f[t \ {Max(t)}], s[Max(t)]) ELSE f[t \ {Max(t)}]
      BY <2>4, <3>2
    <3>4. QED
      BY <3>1, <3>3, Zenon
  <2>6. f = D(f)
    <3>1. \A t \in SUBSET (1 .. n) : f[t] = D(f)[t]
      BY <2>5, Zenon
    <3>2. QED
      BY <2>1, <3>1
  <2> HIDE DEF D
  <2>7. QED
    BY <2>6, Zenon
<1> HIDE DEF it
<1>5. it[{}] = <<>>
  BY <1>4, Zenon
<1>6. ASSUME NEW i \in 1 .. n
      PROVE  it[1 .. i] = IF s[i] \in S THEN Append(it[1 .. i - 1], s[i]) ELSE it[1 .. i - 1]
  <2> DEFINE t == 1 .. i
  <2>1. t \in SUBSET (1 .. n) /\ t # {} /\ Max(t) = i /\ t \ {Max(t)} = 1 .. i - 1
    BY <1>1, Segments
  <2> HIDE DEF t
  <2>2. it[t] = IF s[Max(t)] \in S THEN Append(it[t \ {Max(t)}], s[Max(t)]) ELSE it[t \ {Max(t)}]
    BY <1>4, <2>1, Zenon
  <2>3. QED
    BY <2>1, <2>2 DEF t
<1>7. Follows(it, n, Seq(X), <<>>, g)
  BY <1>5, <1>6 DEF Follows
<1>8. PICK F \in [0 .. n -> Seq(X)] : F[n] = it[1 .. n] /\ IsPrefixFold(F, n, <<>>, g)
  <2> HIDE DEF g
  <2>1. QED
    BY <1>1, <1>3, <1>7, FoldSteps
<1>9. \A i \in 1 .. n : F[i] = IF s[i] \in S THEN Append(F[i - 1], s[i]) ELSE F[i - 1]
  <2>1. \A i \in 1 .. n : i - 1 \in 0 .. n
    BY <1>1
  <2>2. \A i \in 1 .. n : <<i, F[i - 1]>> \in (1 .. n) \X Seq(X)
    BY <1>8, <2>1
  <2>3. \A i \in 1 .. n : F[i] = g[<<i, F[i - 1]>>]
    <3> HIDE DEF g
    <3>1. QED
      BY <1>8 DEF IsPrefixFold
  <2>4. QED
    BY <2>2, <2>3
<1>10. F[0] = <<>>
  BY <1>8 DEF IsPrefixFold
<1>11. QED
  BY <1>2, <1>8, <1>9, <1>10 DEF n, Keeps

LEMMA KeepsStep ==
    ASSUME NEW X, NEW s \in Seq(X), NEW S, NEW F, Keeps(F, s, X, S), NEW i \in 1 .. Len(s)
    PROVE  /\ i - 1 \in 0 .. Len(s) /\ i \in 0 .. Len(s) /\ s[i] \in X
           /\ F[i - 1] \in Seq(X) /\ F[i] \in Seq(X) /\ Len(F[i - 1]) \in Nat
           /\ s[i] \notin S => F[i] = F[i - 1]
           /\ s[i] \in S => /\ F[i] = Append(F[i - 1], s[i])
                            /\ Len(F[i]) = Len(F[i - 1]) + 1
                            /\ F[i][Len(F[i - 1]) + 1] = s[i]
                            /\ \A j \in 1 .. Len(F[i - 1]) : F[i][j] = F[i - 1][j]
<1>1. i - 1 \in 0 .. Len(s) /\ i \in 0 .. Len(s) /\ s[i] \in X
  OBVIOUS
<1>2. F[i - 1] \in Seq(X) /\ F[i] \in Seq(X)
  BY <1>1 DEF Keeps
<1>3. F[i] = IF s[i] \in S THEN Append(F[i - 1], s[i]) ELSE F[i - 1]
  BY DEF Keeps
<1>4. QED
  BY <1>1, <1>2, <1>3, AppendProperties

\* What keeps everything keeps the sequence, and what drops something shortens it.
LEMMA KeepLength ==
    ASSUME NEW X, NEW s \in Seq(X), NEW S
    PROVE  /\ Keep(s, S) \in Seq(X) /\ Len(Keep(s, S)) <= Len(s)
           /\ (\A i \in 1 .. Len(s) : s[i] \in S) => Keep(s, S) = s
           /\ (\E i \in 1 .. Len(s) : s[i] \notin S) => Len(Keep(s, S)) < Len(s)
<1>1. PICK F : Keeps(F, s, X, S) /\ Keep(s, S) = F[Len(s)]
  BY KeepOf
<1> DEFINE All(k) == \A i \in 1 .. k : s[i] \in S
           A == {k \in 0 .. Len(s) :
                   /\ Len(F[k]) <= k
                   /\ All(k) => Len(F[k]) = k /\ \A j \in 1 .. k : F[k][j] = s[j]
                   /\ ~All(k) => Len(F[k]) < k}
<1>2. Len(s) \in Nat /\ \A k \in 0 .. Len(s) : F[k] \in Seq(X) /\ Len(F[k]) \in Nat
  BY <1>1 DEF Keeps
<1>3. 0 \in A
  BY <1>1 DEF Keeps
<1>4. ASSUME NEW k \in 1 .. Len(s), k - 1 \in A PROVE k \in A
  <2>0. k \in Nat /\ k - 1 \in Nat /\ (k - 1) + 1 = k /\ 1 .. k = (1 .. k - 1) \cup {k}
    OBVIOUS
  <2>1. All(k) <=> All(k - 1) /\ s[k] \in S
    BY <2>0
  <2>2. Len(F[k - 1]) <= k - 1 /\ (~All(k - 1) => Len(F[k - 1]) < k - 1)
    BY <1>4
  <2>3. All(k - 1) => Len(F[k - 1]) = k - 1 /\ \A j \in 1 .. k - 1 : F[k - 1][j] = s[j]
    BY <1>4
  <2> HIDE DEF All, A
  <2>4. CASE s[k] \in S
    <3>1. /\ Len(F[k]) = Len(F[k - 1]) + 1 /\ F[k][Len(F[k - 1]) + 1] = s[k] /\ Len(F[k - 1]) \in Nat
          /\ \A j \in 1 .. Len(F[k - 1]) : F[k][j] = F[k - 1][j]
      BY <1>1, <2>4, KeepsStep
    <3>2. Len(F[k]) <= k /\ (~All(k) => Len(F[k]) < k)
      BY <3>1, <2>0, <2>1, <2>2, <2>4
    <3>3. All(k) => Len(F[k]) = k /\ \A j \in 1 .. k : F[k][j] = s[j]
      BY <3>1, <2>0, <2>1, <2>3, <2>4
    <3>4. QED
      BY <3>2, <3>3 DEF A
  <2>5. CASE s[k] \notin S
    <3>1. F[k] = F[k - 1] /\ Len(F[k - 1]) \in Nat /\ ~All(k)
      BY <1>1, <2>1, <2>5, KeepsStep
    <3>2. Len(F[k]) < k
      BY <3>1, <2>0, <2>2
    <3>3. Len(F[k]) <= k
      BY <3>1, <3>2, <2>0
    <3>4. QED
      BY <3>1, <3>2, <3>3 DEF A
  <2>6. QED
    BY <2>4, <2>5
<1>5. Len(s) \in A
  <2> HIDE DEF A
  <2>1. 0 .. Len(s) \subseteq A
    BY <1>2, <1>3, <1>4, InductionTo
  <2>2. QED
    BY <2>1, <1>2
<1>6. Keep(s, S) \in Seq(X)
  BY <1>1, <1>2
<1>7. All(Len(s)) => Keep(s, S) = s
  <2>1. All(Len(s)) => Len(Keep(s, S)) = Len(s) /\ \A j \in 1 .. Len(s) : Keep(s, S)[j] = s[j]
    BY <1>1, <1>5
  <2>2. QED
    BY <2>1, <1>6, SeqEqual
<1>8. QED
  BY <1>1, <1>5, <1>6, <1>7

\* A value, and a point of a trace.
Levels == {v \in Int : v >= Floor}
Points == [f : Nat, v : Levels]

\* Never downwards in frequency.
Upwards(s) == \A i, j \in 1 .. Len(s) : i < j => s[i].f <= s[j].f

\* Points that are kept keep their order.
LEMMA KeepUpwards ==
    ASSUME NEW s \in Seq(Points), Upwards(s), NEW S
    PROVE  Upwards(Keep(s, S))
<1>1. PICK F : Keeps(F, s, Points, S) /\ Keep(s, S) = F[Len(s)]
  BY KeepOf
<1> DEFINE A == {k \in 0 .. Len(s) :
                   /\ \A j \in 1 .. Len(F[k]) : \E i \in 1 .. k : F[k][j] = s[i]
                   /\ Upwards(F[k])}
<1>2. Len(s) \in Nat
  OBVIOUS
<1>3. 0 \in A
  BY <1>1, <1>2 DEF Keeps, Upwards
<1>4. ASSUME NEW k \in 1 .. Len(s), k - 1 \in A PROVE k \in A
  <2>1. /\ \A j \in 1 .. Len(F[k - 1]) : \E i \in 1 .. k - 1 : F[k - 1][j] = s[i]
        /\ \A i, j \in 1 .. Len(F[k - 1]) : i < j => F[k - 1][i].f <= F[k - 1][j].f
    BY <1>4 DEF Upwards
  <2>2. CASE s[k] \notin S
    <3>1. F[k] = F[k - 1]
      BY <1>1, <2>2, KeepsStep
    <3>2. Upwards(F[k])
      BY <3>1, <1>4, Zenon
    <3>3. \A j \in 1 .. Len(F[k]) : \E i \in 1 .. k : F[k][j] = s[i]
      BY <3>1, <2>1
    <3>4. QED
      BY <3>2, <3>3
  <2>3. CASE s[k] \in S
    <3> DEFINE m == Len(F[k - 1])
    <3>1. /\ Len(F[k]) = m + 1 /\ F[k][m + 1] = s[k] /\ m \in Nat
          /\ \A j \in 1 .. m : F[k][j] = F[k - 1][j]
      BY <1>1, <2>3, KeepsStep
    <3> HIDE DEF m
    <3>2. \A j \in 1 .. m : \E i \in 1 .. k - 1 : F[k - 1][j] = s[i]
      BY <2>1 DEF m
    <3>3. \A i, j \in 1 .. m : i < j => F[k - 1][i].f <= F[k - 1][j].f
      BY <2>1 DEF m
    <3>4. \A j \in 1 .. Len(F[k]) : \E i \in 1 .. k : F[k][j] = s[i]
      <4>1. ASSUME NEW j \in 1 .. m PROVE \E i \in 1 .. k : F[k][j] = s[i]
        BY <3>1, <3>2
      <4>2. QED
        BY <3>1, <4>1
    <3>5. ASSUME NEW i \in 1 .. m + 1, NEW j \in 1 .. m + 1, i < j PROVE F[k][i].f <= F[k][j].f
      <4>1. CASE j = m + 1
        <5>0. i \in 1 .. m
          BY <3>1, <3>5, <4>1
        <5>1. PICK l \in 1 .. k - 1 : F[k][i] = s[l]
          BY <3>1, <3>2, <5>0
        <5>2. s[l].f <= s[k].f
          BY DEF Upwards
        <5>3. QED
          BY <4>1, <5>1, <5>2, <3>1
      <4>2. CASE j # m + 1
        BY <3>1, <3>3, <3>5, <4>2
      <4>3. QED
        BY <4>1, <4>2
    <3>6. Upwards(F[k])
      BY <3>1, <3>5 DEF Upwards
    <3>7. QED
      BY <3>4, <3>6
  <2>4. QED
    BY <2>2, <2>3
<1>5. Len(s) \in A
  <2> HIDE DEF A
  <2>1. 0 .. Len(s) \subseteq A
    BY <1>2, <1>3, <1>4, InductionTo
  <2>2. QED
    BY <2>1, <1>2
<1>6. QED
  BY <1>1, <1>5

-----------------------------------------------------------------------------
(* The extremes, and the mean between them. *)

Extreme == [min : Points, max : Points]

LowerOf(p, q) == IF p.v < q.v THEN p ELSE q
HigherOf(p, q) == IF p.v > q.v THEN p ELSE q

LEMMA ExtremesFold ==
    ASSUME NEW s \in Seq(Points), s # <<>>
    PROVE  \E F : /\ F \in [0 .. Len(s) -> Extreme] /\ Extremes(s) = F[Len(s)]
                  /\ F[0] = [min |-> s[1], max |-> s[1]]
                  /\ \A i \in 1 .. Len(s) :
                       F[i] = [min |-> LowerOf(s[i], F[i - 1].min), max |-> HigherOf(s[i], F[i - 1].max)]
<1> DEFINE n == Len(s)
           b == [min |-> s[1], max |-> s[1]]
           Next1(i, e) == [min |-> LowerOf(s[i], e.min), max |-> HigherOf(s[i], e.max)]
           g == [p \in (1 .. n) \X Extreme |-> Next1(p[1], p[2])]
           D(f) == [t \in SUBSET (1 .. n) |-> IF t = {} THEN b ELSE Next1(Max(t), f[t \ {Max(t)}])]
           it == CHOOSE f : f = D(f)
<1>1. n \in Nat /\ DOMAIN s = 1 .. n /\ 1 \in 1 .. n /\ (\A i \in 1 .. n : s[i] \in Points)
  OBVIOUS
<1>2. Extremes(s) = it[1 .. n]
  BY <1>1, Zenon DEF Extremes, FoldLeft, MapThenFoldSet, LowerOf, HigherOf
<1> HIDE DEF n
<1>3. b \in Extreme /\ \A i \in 1 .. n, e \in Extreme : Next1(i, e) \in Extreme
  BY <1>1 DEF Extreme, LowerOf, HigherOf
<1> HIDE DEF Next1
<1>4. g \in Steps(n, Extreme) /\ \A i \in 1 .. n, e \in Extreme : g[<<i, e>>] = Next1(i, e)
  BY <1>3 DEF Steps
<1> HIDE DEF g, b
<1>5. it = D(it)
  <2>1. PICK f \in [SUBSET (1 .. n) -> Extreme] : IsFold(f, n, b, g)
    BY <1>1, <1>3, <1>4, FoldExists, Zenon
  <2>2. \A t \in SUBSET (1 .. n) : t # {} => Max(t) \in 1 .. n /\ t \ {Max(t)} \in SUBSET (1 .. n)
    BY <1>1, MaxIn
  <2>3. \A t \in SUBSET (1 .. n) : t # {} => f[t \ {Max(t)}] \in Extreme
    BY <2>1, <2>2
  <2>4. \A t \in SUBSET (1 .. n) : f[t] = D(f)[t]
    BY <2>1, <2>2, <2>3, <1>4 DEF IsFold
  <2>5. f = D(f)
    BY <2>1, <2>4
  <2> HIDE DEF D
  <2>6. QED
    BY <2>5, Zenon
<1> HIDE DEF it
<1>6. it[{}] = b
  BY <1>5, Zenon
<1>7. ASSUME NEW i \in 1 .. n PROVE it[1 .. i] = Next1(i, it[1 .. i - 1])
  <2> DEFINE t == 1 .. i
  <2>1. t \in SUBSET (1 .. n) /\ t # {} /\ Max(t) = i /\ t \ {Max(t)} = 1 .. i - 1
    BY <1>1, Segments
  <2> HIDE DEF t
  <2>2. it[t] = Next1(Max(t), it[t \ {Max(t)}])
    BY <1>5, <2>1, Zenon
  <2>3. QED
    BY <2>1, <2>2 DEF t
<1>8. Follows(it, n, Extreme, b, g)
  BY <1>4, <1>6, <1>7 DEF Follows
<1>9. PICK F \in [0 .. n -> Extreme] : F[n] = it[1 .. n] /\ IsPrefixFold(F, n, b, g)
  BY <1>1, <1>3, <1>4, <1>8, FoldSteps
<1>10. \A i \in 1 .. n : F[i] = Next1(i, F[i - 1])
  <2>1. \A i \in 1 .. n : i - 1 \in 0 .. n
    BY <1>1
  <2>2. \A i \in 1 .. n : F[i - 1] \in Extreme
    BY <1>9, <2>1
  <2>3. \A i \in 1 .. n : F[i] = g[<<i, F[i - 1]>>]
    BY <1>9 DEF IsPrefixFold
  <2>4. QED
    BY <2>2, <2>3, <1>4
<1>11. F[0] = b
  BY <1>9 DEF IsPrefixFold
<1>12. QED
  BY <1>2, <1>9, <1>10, <1>11 DEF n, b, Next1

\* The extremes are points, and the first of those with their values.
LEMMA ExtremesFirst ==
    ASSUME NEW s \in Seq(Points), s # <<>>, Upwards(s)
    PROVE  LET e == Extremes(s) IN
           /\ \E i \in 1 .. Len(s) : e.min = s[i]
           /\ \E i \in 1 .. Len(s) : e.max = s[i]
           /\ \A i \in 1 .. Len(s) :
                /\ e.min.v <= s[i].v /\ s[i].v <= e.max.v
                /\ s[i].v = e.min.v => e.min.f <= s[i].f
                /\ s[i].v = e.max.v => e.max.f <= s[i].f
<1>1. PICK F : /\ F \in [0 .. Len(s) -> Extreme] /\ Extremes(s) = F[Len(s)]
               /\ F[0] = [min |-> s[1], max |-> s[1]]
               /\ \A i \in 1 .. Len(s) :
                    F[i] = [min |-> LowerOf(s[i], F[i - 1].min), max |-> HigherOf(s[i], F[i - 1].max)]
  BY ExtremesFold, Zenon
<1> DEFINE Among(p, k) == \E i \in 1 .. Len(s) : (i <= k \/ i = 1) /\ p = s[i]
           Least(p, k) == \A i \in 1 .. k : p.v <= s[i].v /\ (s[i].v = p.v => p.f <= s[i].f)
           Greatest(p, k) == \A i \in 1 .. k : s[i].v <= p.v /\ (s[i].v = p.v => p.f <= s[i].f)
           A == {k \in 0 .. Len(s) : /\ Among(F[k].min, k) /\ Among(F[k].max, k)
                                     /\ Least(F[k].min, k) /\ Greatest(F[k].max, k)}
<1>2. Len(s) \in Nat /\ 1 \in 1 .. Len(s) /\ \A i \in 1 .. Len(s) : s[i] \in Points
  OBVIOUS
<1>3. 0 \in A
  BY <1>1, <1>2
<1>4. ASSUME NEW k \in 1 .. Len(s), k - 1 \in A PROVE k \in A
  <2> DEFINE a == F[k - 1].min
             z == F[k - 1].max
  <2>1. F[k].min = LowerOf(s[k], a) /\ F[k].max = HigherOf(s[k], z)
    <3>1. F[k] = [min |-> LowerOf(s[k], a), max |-> HigherOf(s[k], z)]
      BY <1>1, Zenon
    <3> HIDE DEF a, z
    <3>2. QED
      BY <3>1
  <2>2. Among(a, k - 1) /\ Among(z, k - 1) /\ Least(a, k - 1) /\ Greatest(z, k - 1)
    BY <1>4
  <2> HIDE DEF a, z
  <2>3. a \in Points /\ z \in Points /\ s[k] \in Points
    BY <2>2, <1>2
  <2>4. Among(a, k) /\ Among(z, k) /\ Among(s[k], k)
    BY <2>2
  <2>5. \A p \in Points : Among(p, k - 1) => p.f <= s[k].f
    BY <1>2 DEF Upwards, Points
  <2>6. \A i \in 1 .. k : i \in 1 .. k - 1 \/ i = k
    OBVIOUS
  <2>7. s[k].v \in Int /\ s[k].f \in Nat /\ a.v \in Int /\ a.f \in Nat /\ z.v \in Int /\ z.f \in Nat
        /\ \A i \in 1 .. k - 1 : s[i].v \in Int /\ s[i].f \in Nat
    <3>1. \A i \in 1 .. k - 1 : i \in 1 .. Len(s)
      OBVIOUS
    <3>2. \A p \in Points : p.v \in Int /\ p.f \in Nat
      BY DEF Points, Levels
    <3>3. QED
      BY <2>3, <1>2, <3>1, <3>2
  <2>9. Least(F[k].min, k)
    <3>1. CASE s[k].v < a.v
      <4>1. F[k].min = s[k]
        BY <2>1, <3>1, Zenon DEF LowerOf
      <4>2. ASSUME NEW i \in 1 .. k - 1 PROVE s[k].v <= s[i].v /\ s[i].v # s[k].v
        <5>1. a.v <= s[i].v /\ s[i].v \in Int
          BY <2>2, <2>7, Zenon
        <5> DEFINE u == s[i].v
                   v == s[k].v
                   w == a.v
        <5>2. w <= u /\ u \in Int /\ v \in Int /\ w \in Int /\ v < w
          BY <5>1, <2>7, <3>1, Zenon
        <5> HIDE DEF u, v, w
        <5>3. v <= u /\ u # v
          BY <5>2
        <5>4. QED
          BY <5>3, Zenon DEF u, v
      <4>3. ASSUME NEW i \in 1 .. k
            PROVE  s[k].v <= s[i].v /\ (s[i].v = s[k].v => s[k].f <= s[i].f)
        BY <2>6, <2>7, <4>2
      <4>4. QED
        BY <4>1, <4>3, Zenon
    <3>2. CASE ~(s[k].v < a.v)
      <4>1. F[k].min = a
        BY <2>1, <3>2, Zenon DEF LowerOf
      <4>2. a.v <= s[k].v /\ a.f <= s[k].f
        BY <2>2, <2>3, <2>5, <2>7, <3>2
      <4>3. ASSUME NEW i \in 1 .. k
            PROVE  a.v <= s[i].v /\ (s[i].v = a.v => a.f <= s[i].f)
        BY <2>2, <2>6, <4>2
      <4>4. QED
        BY <4>1, <4>3, Zenon
    <3>3. QED
      BY <3>1, <3>2
  <2>10. Greatest(F[k].max, k)
    <3>1. CASE s[k].v > z.v
      <4>1. F[k].max = s[k]
        BY <2>1, <3>1, Zenon DEF HigherOf
      <4>2. ASSUME NEW i \in 1 .. k - 1 PROVE s[i].v <= s[k].v /\ s[i].v # s[k].v
        <5>1. s[i].v <= z.v /\ s[i].v \in Int
          BY <2>2, <2>7, Zenon
        <5> DEFINE u == s[i].v
                   v == s[k].v
                   w == z.v
        <5>2. u <= w /\ u \in Int /\ v \in Int /\ w \in Int /\ v > w
          BY <5>1, <2>7, <3>1, Zenon
        <5> HIDE DEF u, v, w
        <5>3. u <= v /\ u # v
          BY <5>2
        <5>4. QED
          BY <5>3, Zenon DEF u, v
      <4>3. ASSUME NEW i \in 1 .. k
            PROVE  s[i].v <= s[k].v /\ (s[i].v = s[k].v => s[k].f <= s[i].f)
        BY <2>6, <2>7, <4>2
      <4>4. QED
        BY <4>1, <4>3, Zenon
    <3>2. CASE ~(s[k].v > z.v)
      <4>1. F[k].max = z
        BY <2>1, <3>2, Zenon DEF HigherOf
      <4>2. s[k].v <= z.v /\ z.f <= s[k].f
        BY <2>2, <2>3, <2>5, <2>7, <3>2
      <4>3. ASSUME NEW i \in 1 .. k
            PROVE  s[i].v <= z.v /\ (s[i].v = z.v => z.f <= s[i].f)
        BY <2>2, <2>6, <4>2
      <4>4. QED
        BY <4>1, <4>3, Zenon
    <3>3. QED
      BY <3>1, <3>2
  <2>11. Among(F[k].min, k) /\ Among(F[k].max, k)
    BY <2>1, <2>4 DEF LowerOf, HigherOf
  <2>12. QED
    BY <2>9, <2>10, <2>11
<1>5. Len(s) \in A
  <2> HIDE DEF A
  <2>1. 0 .. Len(s) \subseteq A
    BY <1>2, <1>3, <1>4, InductionTo
  <2>2. QED
    BY <2>1, <1>2
<1>6. QED
  BY <1>1, <1>5

\* The powers of the points are numbers that the sums below can be made of.
Powered(s, unit) == \A i \in 1 .. Len(s) : LinearPower(s[i].v, unit) \in Nat

\* The square of an integer is a natural number, and zero only for zero.
LEMMA Square ==
    ASSUME NEW v \in Int
    PROVE  v * v \in Nat /\ (v # 0 => v * v >= 1)
<1>1. CASE v >= 0
  <2>1. v \in Nat /\ v * v \in Nat
    BY <1>1
  <2>2. v >= 1 => v * v >= v
    <3>1. ASSUME v >= 1 PROVE v * 1 <= v * v
      BY <2>1, <3>1, Multiples
    <3>2. QED
      BY <2>1, <3>1
  <2>3. QED
    BY <2>1, <2>2
<1>2. CASE v < 0
  <2> DEFINE w == -v
  <2>1. w \in Nat /\ w >= 1 /\ w * w \in Nat
    BY <1>2
  <2>2. w * 1 <= w * w
    <3> HIDE DEF w
    <3>1. QED
      BY <2>1, Multiples
  <2>3. w * w = v * v /\ w * 1 = w
    OBVIOUS
  <2>4. QED
    BY <2>1, <2>2, <2>3
<1>3. QED
  BY <1>1, <1>2

\* A larger value is no smaller power, unless it is a voltage below zero.
LEMMA PowerGrows ==
    ASSUME NEW v \in Int, NEW w \in Int, v <= w, NEW unit,
           IF unit \in DbUnits THEN v >= Floor ELSE v >= 0
    PROVE  /\ LinearPower(v, unit) \in Nat /\ LinearPower(w, unit) \in Nat
           /\ LinearPower(v, unit) <= LinearPower(w, unit)
<1>1. CASE unit \in DbUnits
  <2> DEFINE x == v - Floor
             y == w - Floor
  <2>1. x \in Nat /\ y \in Nat /\ x <= y
    BY <1>1, FloorAssumption
  <2>2. LinearPower(v, unit) = Ten(x) /\ LinearPower(w, unit) = Ten(y)
    BY <1>1 DEF LinearPower
  <2> HIDE DEF x, y
  <2>3. QED
    BY <2>1, <2>2, TenPositive, TenGrows
<1>2. CASE unit \notin DbUnits
  <2>1. v \in Nat /\ w \in Nat
    BY <1>2
  <2>2. v * v \in Nat /\ w * w \in Nat /\ v * v <= w * w
    <3>1. v * v <= w * v
      BY <2>1, Multiples
    <3>2. v * w <= w * w
      BY <2>1, Multiples
    <3>3. v * w = w * v /\ v * v \in Nat /\ w * v \in Nat /\ w * w \in Nat
      BY <2>1
    <3>4. QED
      BY <3>1, <3>2, <3>3
  <2>3. QED
    BY <1>2, <2>1, <2>2 DEF LinearPower
<1>3. QED
  BY <1>1, <1>2

\* Where the least power is positive, every power is a number.
LEMMA PowerType ==
    ASSUME NEW v \in Levels, NEW w \in Levels, v <= w, NEW unit, LinearPower(v, unit) > 0
    PROVE  LinearPower(w, unit) \in Nat
<1>0. v \in Int /\ w \in Int /\ v >= Floor /\ w >= Floor
  BY DEF Levels
<1>1. CASE unit \in DbUnits
  BY <1>0, <1>1, PowerGrows
<1>2. CASE unit \in VoltUnits
  <2>1. LinearPower(w, unit) = w * w
    BY <1>2 DEF LinearPower, DbUnits, VoltUnits
  <2>2. QED
    BY <1>0, <2>1, Square
<1>3. CASE unit \notin DbUnits \cup VoltUnits
  BY <1>0, <1>3 DEF LinearPower
<1>4. QED
  BY <1>1, <1>2, <1>3

\* A mean is between the least and the greatest.
LEMMA MeanBetween ==
    ASSUME NEW s \in Seq(Nat), NEW lo \in Nat, NEW hi \in Nat,
           \A i \in 1 .. Len(s) : lo <= s[i] /\ s[i] <= hi
    PROVE  Sum(s) \in Nat /\ lo * Len(s) <= Sum(s) /\ Sum(s) <= hi * Len(s)
<1>1. PICK F : Sums(F, s) /\ Sum(s) = F[Len(s)]
  BY SumOf
<1> DEFINE A == {k \in 0 .. Len(s) : F[k] \in Nat /\ lo * k <= F[k] /\ F[k] <= hi * k}
<1>2. Len(s) \in Nat
  OBVIOUS
<1>3. 0 \in A
  BY <1>1, <1>2 DEF Sums
<1>4. ASSUME NEW k \in 1 .. Len(s), k - 1 \in A PROVE k \in A
  <2>1. F[k] = F[k - 1] + s[k] /\ s[k] \in Nat /\ F[k - 1] \in Nat
    BY <1>1, SumsStep
  <2>2. lo * (k - 1) <= F[k - 1] /\ F[k - 1] <= hi * (k - 1)
    BY <1>4
  <2>3. lo * k = lo * (k - 1) + lo /\ hi * k = hi * (k - 1) + hi
    OBVIOUS
  <2>4. lo * k \in Nat /\ hi * k \in Nat /\ lo * (k - 1) \in Nat /\ hi * (k - 1) \in Nat
    OBVIOUS
  <2> DEFINE x == lo * (k - 1)
             y == hi * (k - 1)
             x1 == lo * k
             y1 == hi * k
  <2>5. F[k] \in Nat /\ x1 <= F[k] /\ F[k] <= y1
    <3>1. lo <= s[k] /\ s[k] <= hi
      OBVIOUS
    <3>2. x <= F[k - 1] /\ F[k - 1] <= y /\ x1 = x + lo /\ y1 = y + hi
          /\ x \in Nat /\ y \in Nat /\ x1 \in Nat /\ y1 \in Nat
      BY <2>2, <2>3, <2>4, Zenon
    <3> HIDE DEF x, y, x1, y1
    <3> DEFINE last == F[k - 1]
               v == s[k]
    <3>3. /\ F[k] = last + v /\ last \in Nat /\ v \in Nat
          /\ lo <= v /\ v <= hi /\ x <= last /\ last <= y
      BY <2>1, <3>1, <3>2, Zenon
    <3> HIDE DEF last, v
    <3>4. QED
      BY <3>2, <3>3
  <2>6. QED
    BY <2>5
<1>5. Len(s) \in A
  <2> HIDE DEF A
  <2>1. 0 .. Len(s) \subseteq A
    BY <1>2, <1>3, <1>4, InductionTo
  <2>2. QED
    BY <2>1, <1>2
<1>6. QED
  BY <1>1, <1>5

LEMMA PowersAre ==
    ASSUME NEW s \in Seq(Points), NEW unit, Powered(s, unit)
    PROVE  /\ Powers(s, unit) \in Seq(Nat) /\ Len(Powers(s, unit)) = Len(s)
           /\ \A i \in 1 .. Len(s) : Powers(s, unit)[i] = LinearPower(s[i].v, unit)
BY DEF Powers, Powered

\* The total power is positive when the powers are.
LEMMA SumPositive ==
    ASSUME NEW s \in Seq(Nat), s # <<>>, \A i \in 1 .. Len(s) : s[i] >= 1
    PROVE  Sum(s) \in Nat /\ Sum(s) > 0
<1>1. PICK F : Sums(F, s) /\ Sum(s) = F[Len(s)]
  BY SumOf
<1>2. Len(s) \in Nat /\ Len(s) \in 1 .. Len(s) /\ Len(s) - 1 \in 0 .. Len(s)
  OBVIOUS
<1>3. QED
  BY <1>1, <1>2, SumsStep

-----------------------------------------------------------------------------
(* The occupied bandwidth. *)

\* What the loop of the occupied bandwidth has in hand.
Loop == [cumulative : Nat, found : BOOLEAN, lo : Nat, hi : Nat, done : BOOLEAN]

LoopStart(s) ==
    [cumulative |-> 0, found |-> FALSE, lo |-> s[1].f, hi |-> s[Len(s)].f, done |-> FALSE]

LEMMA LoopType ==
    ASSUME NEW e \in Loop, NEW p \in Points, NEW unit, NEW total \in Nat,
           LinearPower(p.v, unit) \in Nat
    PROVE  OccupiedStep(e, p, unit, total) \in Loop
<1>1. p.f \in Nat
  BY DEF Points
<1>2. QED
  BY <1>1 DEF OccupiedStep, Loop

LoopRuns(F, s, unit, total) ==
    /\ F \in [0 .. Len(s) -> Loop] /\ F[0] = LoopStart(s)
    /\ \A i \in 1 .. Len(s) : F[i] = OccupiedStep(F[i - 1], s[i], unit, total)

LEMMA OccupiedFold ==
    ASSUME NEW s \in Seq(Points), s # <<>>, NEW unit, Powered(s, unit), Sum(Powers(s, unit)) > 0
    PROVE  \E F : /\ LoopRuns(F, s, unit, Sum(Powers(s, unit)))
                  /\ OccupiedBandwidth(s, unit) = F[Len(s)].hi - F[Len(s)].lo
<1> DEFINE n == Len(s)
           total == Sum(Powers(s, unit))
           b == LoopStart(s)
           Next1(i, e) == OccupiedStep(e, s[i], unit, total)
           g == [p \in (1 .. n) \X Loop |-> Next1(p[1], p[2])]
           D(f) == [t \in SUBSET (1 .. n) |-> IF t = {} THEN b ELSE Next1(Max(t), f[t \ {Max(t)}])]
           it == CHOOSE f : f = D(f)
<1>1. n \in Nat /\ DOMAIN s = 1 .. n /\ 1 \in 1 .. n /\ n \in 1 .. n /\ (\A i \in 1 .. n : s[i] \in Points)
  OBVIOUS
<1>0. total \in Nat /\ total > 0
  BY PowersAre, SumType
<1>2. OccupiedBandwidth(s, unit) = it[1 .. n].hi - it[1 .. n].lo
  <2> DEFINE fold == FoldLeft(LAMBDA e, p : OccupiedStep(e, p, unit, total), b, s)
  <2>1. fold = it[1 .. n]
    <3> HIDE DEF total, b
    <3>1. QED
      BY <1>1, Zenon DEF FoldLeft, MapThenFoldSet
  <2>2. OccupiedBandwidth(s, unit) = IF total <= 0 THEN 0 ELSE fold.hi - fold.lo
    BY Zenon DEF OccupiedBandwidth, LoopStart
  <2> HIDE DEF fold, total
  <2>3. OccupiedBandwidth(s, unit) = fold.hi - fold.lo
    BY <2>2, <1>0
  <2>4. QED
    BY <2>1, <2>3, Zenon
<1> HIDE DEF n, total
<1>3. b \in Loop
  BY <1>1 DEF LoopStart, Loop, Points
<1>4. \A i \in 1 .. n, e \in Loop : Next1(i, e) \in Loop
  BY <1>0, <1>1, LoopType DEF n, Powered
<1> HIDE DEF Next1
<1>5. g \in Steps(n, Loop) /\ \A i \in 1 .. n, e \in Loop : g[<<i, e>>] = Next1(i, e)
  BY <1>4 DEF Steps
<1> HIDE DEF g, b
<1>6. it = D(it)
  <2>1. PICK f \in [SUBSET (1 .. n) -> Loop] : IsFold(f, n, b, g)
    BY <1>1, <1>3, <1>5, FoldExists, Zenon
  <2>2. \A t \in SUBSET (1 .. n) : t # {} => Max(t) \in 1 .. n /\ t \ {Max(t)} \in SUBSET (1 .. n)
    BY <1>1, MaxIn
  <2>3. \A t \in SUBSET (1 .. n) : t # {} => f[t \ {Max(t)}] \in Loop
    BY <2>1, <2>2
  <2>4. \A t \in SUBSET (1 .. n) : f[t] = D(f)[t]
    BY <2>1, <2>2, <2>3, <1>5 DEF IsFold
  <2>5. f = D(f)
    BY <2>1, <2>4
  <2> HIDE DEF D
  <2>6. QED
    BY <2>5, Zenon
<1> HIDE DEF it
<1>7. it[{}] = b
  BY <1>6, Zenon
<1>8. ASSUME NEW i \in 1 .. n PROVE it[1 .. i] = Next1(i, it[1 .. i - 1])
  <2> DEFINE t == 1 .. i
  <2>1. t \in SUBSET (1 .. n) /\ t # {} /\ Max(t) = i /\ t \ {Max(t)} = 1 .. i - 1
    BY <1>1, Segments
  <2> HIDE DEF t
  <2>2. it[t] = Next1(Max(t), it[t \ {Max(t)}])
    BY <1>6, <2>1, Zenon
  <2>3. QED
    BY <2>1, <2>2 DEF t
<1>9. Follows(it, n, Loop, b, g)
  BY <1>5, <1>7, <1>8 DEF Follows
<1>10. PICK F \in [0 .. n -> Loop] : F[n] = it[1 .. n] /\ IsPrefixFold(F, n, b, g)
  BY <1>1, <1>3, <1>5, <1>9, FoldSteps
<1>11. \A i \in 1 .. n : F[i] = Next1(i, F[i - 1])
  <2>1. \A i \in 1 .. n : i - 1 \in 0 .. n
    BY <1>1
  <2>2. \A i \in 1 .. n : F[i - 1] \in Loop
    BY <1>10, <2>1
  <2>3. \A i \in 1 .. n : F[i] = g[<<i, F[i - 1]>>]
    BY <1>10 DEF IsPrefixFold
  <2>4. QED
    BY <2>2, <2>3, <1>5
<1>12. F[0] = b
  BY <1>10 DEF IsPrefixFold
<1>13. QED
  BY <1>2, <1>10, <1>11, <1>12 DEF n, b, Next1, total, LoopRuns

\* There is a first place.
LEMMA FirstPlace ==
    ASSUME NEW n \in Nat, NEW T \in SUBSET (1 .. n), T # {}
    PROVE  \E m \in T : \A k \in T : m <= k
<1> SUFFICES ASSUME \A m \in T : \E k \in T : ~(m <= k) PROVE FALSE
  OBVIOUS
<1> DEFINE S == {k \in 0 .. n : \A x \in 1 .. k : x \notin T}
<1>1. 0 \in S
  OBVIOUS
<1>2. ASSUME NEW k \in 1 .. n, k - 1 \in S PROVE k \in S
  <2>1. \A x \in 1 .. k - 1 : x \notin T
    BY <1>2
  <2>2. k \notin T
    <3>1. \A x \in T : x \in 1 .. n /\ ~(x \in 1 .. k - 1)
      BY <2>1
    <3>2. \A x \in T : k <= x
      BY <3>1
    <3>3. QED
      BY <3>2
  <2>3. QED
    BY <2>1, <2>2
<1>3. n \in S
  <2> HIDE DEF S
  <2>1. 0 .. n \subseteq S
    BY <1>1, <1>2, InductionTo
  <2>2. QED
    BY <2>1
<1>4. QED
  BY <1>3

\* Where the sums first reach 1/200 of some power.
Edge(e, C, n, power) ==
    e \in 1 .. n /\ 200 * C[e] >= power /\ \A k \in 1 .. n : 200 * C[k] >= power => e <= k

\* Where the loop is when it has passed the edges i0 and j0 of the band.
LEMMA LoopFinds ==
    ASSUME NEW s \in Seq(Points), s # <<>>, NEW unit, Powered(s, unit), NEW total \in Nat, total > 0,
           NEW C, Sums(C, Powers(s, unit)), NEW F, LoopRuns(F, s, unit, total),
           NEW i0, Edge(i0, C, Len(s), total), NEW j0, Edge(j0, C, Len(s), 199 * total)
    PROVE  F[Len(s)].lo = s[i0].f /\ F[Len(s)].hi = s[j0].f
<1> DEFINE n == Len(s)
           A == {k \in 0 .. n :
                   /\ F[k].done <=> k >= j0
                   /\ F[k].found <=> k >= i0
                   /\ k <= j0 => F[k].cumulative = C[k]
                   /\ k >= i0 => F[k].lo = s[i0].f
                   /\ k >= j0 => F[k].hi = s[j0].f}
<1>1. n \in Nat /\ n \in 0 .. n /\ i0 \in 1 .. n /\ j0 \in 1 .. n
  BY DEF Edge
<1>2. /\ 200 * C[i0] >= total
      /\ \A k \in 1 .. Len(s) : 200 * C[k] >= total => i0 <= k
      /\ 200 * C[j0] >= 199 * total
      /\ \A k \in 1 .. Len(s) : 200 * C[k] >= 199 * total => j0 <= k
  BY Zenon DEF Edge
<1>3. /\ F \in [0 .. Len(s) -> Loop] /\ F[0] = LoopStart(s)
      /\ \A i \in 1 .. Len(s) : F[i] = OccupiedStep(F[i - 1], s[i], unit, total)
  BY Zenon DEF LoopRuns
<1>4. i0 <= j0
  <2>1. C[j0] \in Nat
    BY <1>1, PowersAre, SumsStep
  <2>2. 200 * C[j0] >= 199 * total
    BY <1>2, Zenon
  <2>3. 200 * C[j0] >= total
    BY <2>1, <2>2
  <2>4. QED
    BY <2>3, <1>1, <1>2
<1>5. 0 \in A
  BY <1>1, <1>2, <1>3 DEF Sums, LoopStart
<1>6. ASSUME NEW k \in 1 .. n, k - 1 \in A PROVE k \in A
  <2> DEFINE e == F[k - 1]
             c == e.cumulative + LinearPower(s[k].v, unit)
  <2>0. k - 1 \in 0 .. n /\ k \in 0 .. n /\ k \in 1 .. Len(s) /\ k \in Nat
    BY <1>1
  <2>1. /\ e.done <=> k - 1 >= j0
        /\ e.found <=> k - 1 >= i0
        /\ k - 1 <= j0 => e.cumulative = C[k - 1]
        /\ k - 1 >= i0 => e.lo = s[i0].f
        /\ k - 1 >= j0 => e.hi = s[j0].f
    BY <1>6
  <2>2. F[k] = OccupiedStep(e, s[k], unit, total)
    BY <2>0, <1>3
  <2> HIDE DEF e, n, A
  <2>3. CASE k - 1 >= j0
    <3>1. F[k] = e
      BY <2>1, <2>2, <2>3 DEF OccupiedStep
    <3>2. k >= j0 /\ k >= i0 /\ k - 1 >= i0 /\ (k <= j0 => FALSE)
      BY <2>3, <1>1, <1>4, <2>0
    <3>3. QED
      BY <3>1, <3>2, <2>0, <2>1, <2>3 DEF A
  <2>4. CASE k <= j0
    <3>1. c = C[k] /\ C[k] \in Nat
      <4>1. /\ C[k] = C[k - 1] + Powers(s, unit)[k] /\ Powers(s, unit)[k] = LinearPower(s[k].v, unit)
            /\ C[k] \in Nat
        BY <2>0, PowersAre, SumsStep
      <4>2. k - 1 <= j0
        BY <2>4, <2>0, <1>1
      <4>3. QED
        BY <4>1, <4>2, <2>1
    <3>2. F[k] = [cumulative |-> c,
                  found |-> e.found \/ 200 * c >= total,
                  lo |-> IF ~e.found /\ 200 * c >= total THEN s[k].f ELSE e.lo,
                  hi |-> IF 200 * c >= 199 * total THEN s[k].f ELSE e.hi,
                  done |-> 200 * c >= 199 * total]
      <4>1. ~e.done
        BY <2>1, <2>4, <2>0, <1>1
      <4>2. QED
        BY <4>1, <2>2 DEF OccupiedStep
    <3> HIDE DEF c
    <3>3. /\ F[k].done <=> 200 * C[k] >= 199 * total
          /\ F[k].found <=> e.found \/ 200 * C[k] >= total
          /\ F[k].cumulative = C[k]
          /\ F[k].lo = IF ~e.found /\ 200 * C[k] >= total THEN s[k].f ELSE e.lo
          /\ F[k].hi = IF 200 * C[k] >= 199 * total THEN s[k].f ELSE e.hi
      <4> DEFINE fnd == e.found \/ 200 * C[k] >= total
                 dn == 200 * C[k] >= 199 * total
                 lw == IF ~e.found /\ 200 * C[k] >= total THEN s[k].f ELSE e.lo
                 hg == IF 200 * C[k] >= 199 * total THEN s[k].f ELSE e.hi
      <4>1. F[k] = [cumulative |-> c, found |-> fnd, lo |-> lw, hi |-> hg, done |-> dn]
        BY <3>1, <3>2
      <4>2. fnd \in BOOLEAN /\ dn \in BOOLEAN
        OBVIOUS
      <4> HIDE DEF fnd, dn, lw, hg
      <4>3. F[k].done = dn /\ F[k].found = fnd /\ F[k].cumulative = c /\ F[k].lo = lw /\ F[k].hi = hg
        BY <4>1
      <4>4. QED
        BY <4>2, <4>3, <3>1, Zenon DEF fnd, dn, lw, hg
    <3>4. 200 * C[k] >= 199 * total <=> k >= j0
      <4>1. ASSUME k >= j0 PROVE 200 * C[k] >= 199 * total
        <5>1. k = j0
          BY <4>1, <2>4, <2>0, <1>1
        <5>2. QED
          BY <5>1, <1>2, Zenon
      <4>2. ASSUME 200 * C[k] >= 199 * total PROVE k >= j0
        <5>1. j0 <= k
          BY <4>2, <2>0, <1>2, Zenon
        <5>2. QED
          BY <5>1, <2>0, <1>1
      <4>3. QED
        BY <4>1, <4>2
    <3>5. e.found \/ 200 * C[k] >= total <=> k >= i0
      BY <2>0, <2>1, <1>1, <1>2
    <3>6. k >= i0 => F[k].lo = s[i0].f
      BY <3>3, <3>5, <2>0, <2>1, <1>1
    <3>7. k >= j0 => F[k].hi = s[j0].f
      BY <3>3, <3>4, <2>0, <2>4, <1>1
    <3>8. QED
      BY <3>3, <3>4, <3>5, <3>6, <3>7, <2>0 DEF A
  <2>5. QED
    BY <2>3, <2>4, <2>0, <1>1
<1>7. n \in A
  <2> HIDE DEF A, n
  <2>1. 0 .. n \subseteq A
    BY <1>1, <1>5, <1>6, InductionTo
  <2>2. QED
    BY <2>1, <1>1
<1>8. QED
  BY <1>1, <1>7

LEMMA MinIs ==
    ASSUME NEW T \in SUBSET Int, NEW d \in T, \A y \in T : d <= y
    PROVE  Min(T) = d
<1>1. Min(T) \in T /\ \A y \in T : Min(T) <= y
  BY Zenon DEF Min
<1> DEFINE m == Min(T)
<1> HIDE DEF m
<1>2. m \in T /\ (\A y \in T : m <= y) => m = d
  OBVIOUS
<1>3. QED
  BY <1>1, <1>2 DEF m

\* The loop finds the narrowest band.
LEMMA OccupiedIsNarrowest ==
    ASSUME NEW s \in Seq(Points), s # <<>>, Upwards(s), NEW unit, Powered(s, unit),
           Sum(Powers(s, unit)) > 0
    PROVE  OccupiedBandwidth(s, unit) = NarrowestBand(s, Powers(s, unit))
<1> DEFINE powers == Powers(s, unit)
           total == Sum(powers)
           n == Len(s)
<1>1. powers \in Seq(Nat) /\ Len(powers) = n /\ n \in Nat /\ n >= 1 /\ DOMAIN s = 1 .. n
  BY PowersAre
<1>2. PICK C : Sums(C, powers) /\ total = C[n]
  BY <1>1, SumOf
<1>3. /\ total \in Nat /\ total > 0 /\ C[0] = 0
      /\ \A k \in 0 .. n : C[k] \in Nat
  <2>1. total \in Nat
    BY <1>1, SumType
  <2>2. QED
    BY <1>1, <1>2, <2>1 DEF Sums
<1>4. \A k, l \in 0 .. n : k <= l => C[k] <= C[l]
  BY <1>1, <1>2, SumsGrow
<1> HIDE DEF powers, total
<1>5. PICK i0 \in 1 .. n : 200 * C[i0] >= total /\ \A k \in 1 .. n : 200 * C[k] >= total => i0 <= k
  <2> DEFINE T == {k \in 1 .. n : 200 * C[k] >= total}
  <2>1. n \in T
    BY <1>1, <1>2, <1>3
  <2>2. T \in SUBSET (1 .. n) /\ T # {}
    BY <2>1
  <2> HIDE DEF T
  <2>3. \E m \in T : \A k \in T : m <= k
    BY <1>1, <2>2, FirstPlace
  <2>4. QED
    BY <2>3 DEF T
<1>6. PICK j0 \in 1 .. n :
         200 * C[j0] >= 199 * total /\ \A k \in 1 .. n : 200 * C[k] >= 199 * total => j0 <= k
  <2> DEFINE T == {k \in 1 .. n : 200 * C[k] >= 199 * total}
  <2>1. n \in T
    BY <1>1, <1>2, <1>3
  <2>2. T \in SUBSET (1 .. n) /\ T # {}
    BY <2>1
  <2> HIDE DEF T
  <2>3. \E m \in T : \A k \in T : m <= k
    BY <1>1, <2>2, FirstPlace
  <2>4. QED
    BY <2>3 DEF T
<1>7. OccupiedBandwidth(s, unit) = s[j0].f - s[i0].f
  <2>1. PICK F : /\ LoopRuns(F, s, unit, total)
                 /\ OccupiedBandwidth(s, unit) = F[Len(s)].hi - F[Len(s)].lo
    BY OccupiedFold, Zenon DEF total, powers
  <2>2. F[Len(s)].lo = s[i0].f /\ F[Len(s)].hi = s[j0].f
    <3>1. Edge(i0, C, Len(s), total) /\ Edge(j0, C, Len(s), 199 * total)
      BY <1>5, <1>6, Zenon DEF Edge
    <3>2. Sums(C, Powers(s, unit))
      BY <1>2 DEF powers
    <3>3. QED
      BY <1>3, <2>1, <3>1, <3>2, LoopFinds
  <2>3. QED
    BY <2>1, <2>2
<1>8. \A i \in 1 .. n : Left(powers, i) = C[i - 1]
  <2>1. ASSUME NEW i \in 1 .. n PROVE Left(powers, i) = C[i - 1]
    <3>1. 0 \in 0 .. Len(powers) /\ i - 1 \in 0 .. Len(powers) /\ 0 + 1 = 1
      BY <1>1
    <3>2. C[0] + Sum(SubSeq(powers, 0 + 1, i - 1)) = C[i - 1]
      BY <1>1, <1>2, <3>1, SumOfPart
    <3>3. SubSeq(powers, 1, i - 1) \in Seq(Nat)
      BY <1>1, <3>1
    <3>4. Sum(SubSeq(powers, 1, i - 1)) \in Nat
      BY <3>3, SumType
    <3>5. Sum(SubSeq(powers, 1, i - 1)) = C[i - 1]
      BY <1>3, <3>1, <3>2, <3>4
    <3>6. QED
      BY <3>5 DEF Left
  <2>2. QED
    BY <2>1
<1>9. \A i \in 1 .. n : Right(powers, i) = total - C[i]
  <2>1. ASSUME NEW i \in 1 .. n PROVE Right(powers, i) = total - C[i]
    <3>1. i \in 0 .. Len(powers) /\ Len(powers) \in i .. Len(powers)
      BY <1>1
    <3>2. C[i] + Sum(SubSeq(powers, i + 1, Len(powers))) = C[Len(powers)]
      BY <1>1, <1>2, <3>1, SumOfPart
    <3>3. SubSeq(powers, i + 1, Len(powers)) \in Seq(Nat)
      BY <1>1, <3>1
    <3>4. Sum(SubSeq(powers, i + 1, Len(powers))) \in Nat
      BY <3>3, SumType
    <3>5. C[i] \in Nat /\ C[Len(powers)] = total
      BY <1>1, <1>2, <1>3, <3>1
    <3>6. Sum(SubSeq(powers, i + 1, Len(powers))) = total - C[i]
      BY <1>3, <3>2, <3>4, <3>5
    <3>7. QED
      BY <3>6 DEF Right
  <2>2. QED
    BY <2>1
<1> DEFINE Pairs == {p \in (DOMAIN s) \X (DOMAIN s) :
                       /\ p[1] <= p[2] /\ 200 * Left(powers, p[1]) < total
                       /\ 200 * Right(powers, p[2]) <= total}
           Bands == {s[p[2]].f - s[p[1]].f : p \in Pairs}
<1>10. NarrowestBand(s, powers) = Min(Bands)
  BY Zenon DEF NarrowestBand, total
<1>11. ASSUME NEW i \in 1 .. n, NEW j \in 1 .. n
       PROVE  <<i, j>> \in Pairs <=> i <= j /\ 200 * C[i - 1] < total /\ 200 * C[j] >= 199 * total
  <2>1. Left(powers, i) = C[i - 1] /\ Right(powers, j) = total - C[j] /\ C[j] \in Nat
    BY <1>1, <1>3, <1>8, <1>9
  <2>2. 200 * (total - C[j]) <= total <=> 200 * C[j] >= 199 * total
    BY <1>3, <2>1
  <2>3. QED
    BY <1>1, <2>1, <2>2
<1> HIDE DEF Pairs, n
<1>12. <<i0, j0>> \in Pairs
  <2>1. i0 <= j0
    BY <1>1, <1>3, <1>5, <1>6
  <2>2. 200 * C[i0 - 1] < total
    <3>1. CASE i0 = 1
      BY <3>1, <1>3
    <3>2. CASE i0 # 1
      <4>1. i0 - 1 \in 1 .. n /\ ~(i0 <= i0 - 1) /\ C[i0 - 1] \in Nat
        BY <1>1, <1>3, <3>2
      <4>2. QED
        BY <4>1, <1>3, <1>5
    <3>3. QED
      BY <3>1, <3>2
  <2>3. QED
    BY <1>6, <1>11, <2>1, <2>2
<1>13. \A p \in Pairs : p[1] \in 1 .. n /\ p[2] \in 1 .. n /\ p = <<p[1], p[2]>>
  BY <1>1 DEF Pairs
<1>14. \A i \in 1 .. n : s[i].f \in Nat
  <2>1. \A i \in 1 .. n : s[i] \in Points
    BY DEF n
  <2>2. QED
    BY <2>1 DEF Points
<1>15. \A i, j \in 1 .. n : i <= j => s[i].f <= s[j].f
  <2>1. \A i, j \in 1 .. n : i < j => s[i].f <= s[j].f
    BY Zenon DEF Upwards, n
  <2>2. \A i, j \in 1 .. n : i <= j => i < j \/ i = j
    BY <1>1
  <2>3. \A i \in 1 .. n : s[i].f <= s[i].f
    BY <1>14
  <2>4. QED
    BY <2>1, <2>2, <2>3
<1>16. \A p \in Pairs : s[j0].f - s[i0].f <= s[p[2]].f - s[p[1]].f
  <2>1. ASSUME NEW i \in 1 .. n, NEW j \in 1 .. n, <<i, j>> \in Pairs
        PROVE  s[j0].f - s[i0].f <= s[j].f - s[i].f
    <3>1. 200 * C[i - 1] < total /\ 200 * C[j] >= 199 * total
      BY <1>11, <2>1
    <3>2. j0 <= j
      BY <1>6, <3>1
    <3>3. i <= i0
      <4>1. SUFFICES ASSUME i0 <= i - 1 PROVE FALSE
        BY <1>1
      <4>2. i - 1 \in 0 .. n /\ i0 \in 0 .. n
        BY <1>1
      <4>3. C[i0] <= C[i - 1] /\ C[i0] \in Nat /\ C[i - 1] \in Nat
        BY <1>3, <1>4, <4>1, <4>2
      <4>4. QED
        BY <4>3, <3>1, <1>3, <1>5
    <3>4. s[j0].f <= s[j].f /\ s[i].f <= s[i0].f
      BY <1>15, <3>2, <3>3
    <3>5. QED
      BY <1>14, <3>4
  <2>2. QED
    BY <1>13, <2>1
<1>17. Bands \in SUBSET Int /\ s[j0].f - s[i0].f \in Bands /\ \A y \in Bands : s[j0].f - s[i0].f <= y
  <2>1. Bands \in SUBSET Int
    BY <1>13, <1>14
  <2>2. s[j0].f - s[i0].f \in Bands
    BY <1>12
  <2>3. QED
    BY <2>1, <2>2, <1>16
<1> HIDE DEF Bands
<1>18. Min(Bands) = s[j0].f - s[i0].f
  BY <1>17, MinIs
<1>19. QED
  BY <1>7, <1>10, <1>18 DEF powers

-----------------------------------------------------------------------------
(* The median. *)

\* One of some values is the largest.
LEMMA Largest ==
    ASSUME NEW k \in Nat, k >= 1, NEW vals \in [1 .. k -> Int]
    PROVE  \E m \in 1 .. k : \A i \in 1 .. k : vals[i] <= vals[m]
<1> DEFINE S == {j \in 0 .. k : j >= 1 => \E m \in 1 .. j : \A i \in 1 .. j : vals[i] <= vals[m]}
<1>1. 0 \in S
  OBVIOUS
<1>2. ASSUME NEW j \in 1 .. k, j - 1 \in S PROVE j \in S
  <2>1. CASE j = 1
    BY <2>1
  <2>2. CASE j # 1
    <3>1. PICK m \in 1 .. j - 1 : \A i \in 1 .. j - 1 : vals[i] <= vals[m]
      BY <1>2, <2>2
    <3>2. vals[m] \in Int /\ vals[j] \in Int /\ \A i \in 1 .. j : i \in 1 .. j - 1 \/ i = j
      OBVIOUS
    <3>3. \A i \in 1 .. j - 1 : vals[i] \in Int
      OBVIOUS
    <3>4. CASE vals[j] <= vals[m]
      <4>1. \A i \in 1 .. j : vals[i] <= vals[m]
        BY <3>1, <3>2, <3>4
      <4>2. QED
        BY <4>1
    <3>5. CASE ~(vals[j] <= vals[m])
      <4>1. \A i \in 1 .. j : vals[i] <= vals[j]
        BY <3>1, <3>2, <3>3, <3>5
      <4>2. QED
        BY <4>1
    <3>6. QED
      BY <3>4, <3>5
  <2>3. QED
    BY <2>1, <2>2
<1>3. k \in S
  <2> HIDE DEF S
  <2>1. 0 .. k \subseteq S
    BY <1>1, <1>2, InductionTo
  <2>2. QED
    BY <2>1
<1>4. QED
  BY <1>3

\* An order in which values do not fall.
Rising(p, k, vals) ==
    /\ p \in [1 .. k -> 1 .. k] /\ \A i, j \in 1 .. k : p[i] = p[j] => i = j
    /\ \A i, j \in 1 .. k : i < j => vals[p[i]] <= vals[p[j]]

LEMMA RisingExists ==
    ASSUME NEW n \in Nat
    PROVE  \A vals \in [1 .. n -> Int] : \E p : Rising(p, n, vals)
<1> DEFINE S == {k \in 0 .. n : \A vals \in [1 .. k -> Int] : \E p : Rising(p, k, vals)}
<1>1. 0 \in S
  <2>1. ASSUME NEW vals \in [1 .. 0 -> Int] PROVE \E p : Rising(p, 0, vals)
    <3>1. Rising([i \in 1 .. 0 |-> i], 0, vals)
      BY DEF Rising
    <3>2. QED
      BY <3>1
  <2>2. QED
    BY <2>1
<1>2. ASSUME NEW k \in 1 .. n, k - 1 \in S PROVE k \in S
  <2>1. ASSUME NEW vals \in [1 .. k -> Int] PROVE \E p : Rising(p, k, vals)
    <3>1. PICK m \in 1 .. k : \A i \in 1 .. k : vals[i] <= vals[m]
      <4>1. k \in Nat /\ k >= 1
        OBVIOUS
      <4>2. QED
        BY <4>1, Largest
    <3> DEFINE Other(i) == IF i = m THEN k ELSE i
               rest == [i \in 1 .. k - 1 |-> vals[Other(i)]]
    <3>2. /\ \A i \in 1 .. k - 1 : Other(i) \in 1 .. k /\ Other(i) # m
          /\ \A i, j \in 1 .. k - 1 : Other(i) = Other(j) => i = j
      OBVIOUS
    <3>3. rest \in [1 .. k - 1 -> Int] /\ \A i \in 1 .. k - 1 : rest[i] = vals[Other(i)]
      BY <3>2
    <3> HIDE DEF Other, rest
    <3>4. PICK q : Rising(q, k - 1, rest)
      <4>1. \A v \in [1 .. k - 1 -> Int] : \E q : Rising(q, k - 1, v)
        BY <1>2, Zenon
      <4>2. QED
        BY <3>3, <4>1, Zenon
    <3>5. /\ q \in [1 .. k - 1 -> 1 .. k - 1] /\ \A i, j \in 1 .. k - 1 : q[i] = q[j] => i = j
          /\ \A i, j \in 1 .. k - 1 : i < j => rest[q[i]] <= rest[q[j]]
      BY <3>4 DEF Rising
    <3> DEFINE p == [i \in 1 .. k |-> IF i = k THEN m ELSE Other(q[i])]
    <3>6. \A i \in 1 .. k : i = k \/ i \in 1 .. k - 1
      OBVIOUS
    <3>7. /\ p[k] = m /\ k \in 1 .. k
          /\ \A i \in 1 .. k - 1 : p[i] = Other(q[i]) /\ q[i] \in 1 .. k - 1 /\ i \in 1 .. k
      <4>1. k \in 1 .. k /\ p[k] = m
        OBVIOUS
      <4>2. ASSUME NEW i \in 1 .. k - 1
            PROVE  i \in 1 .. k /\ i # k /\ q[i] \in 1 .. k - 1
        <5>1. i \in 1 .. k /\ i # k
          BY <4>2, <1>2
        <5>2. q[i] \in 1 .. k - 1
          BY <3>5, <4>2, Zenon
        <5>3. QED
          BY <5>1, <5>2, Zenon
      <4>3. ASSUME NEW i \in 1 .. k - 1 PROVE p[i] = Other(q[i])
        BY <4>2, Zenon
      <4>4. QED
        BY <4>1, <4>2, <4>3, Zenon
    <3>8. p \in [1 .. k -> 1 .. k]
      BY <3>2, <3>5, <3>6
    <3> HIDE DEF p
    <3>9. \A i, j \in 1 .. k : p[i] = p[j] => i = j
      <4>1. ASSUME NEW i \in 1 .. k, NEW j \in 1 .. k, p[i] = p[j] PROVE i = j
        <5>1. CASE i = k /\ j = k
          BY <5>1
        <5>2. CASE i = k /\ j \in 1 .. k - 1
          BY <5>2, <4>1, <3>2, <3>7
        <5>3. CASE i \in 1 .. k - 1 /\ j = k
          BY <5>3, <4>1, <3>2, <3>7
        <5>4. CASE i \in 1 .. k - 1 /\ j \in 1 .. k - 1
          <6>1. q[i] \in 1 .. k - 1 /\ q[j] \in 1 .. k - 1 /\ Other(q[i]) = Other(q[j])
            BY <5>4, <4>1, <3>7
          <6>2. q[i] = q[j]
            BY <6>1, <3>2
          <6>3. QED
            BY <6>2, <5>4, <3>5
        <5>5. QED
          BY <5>1, <5>2, <5>3, <5>4, <3>6
      <4>2. QED
        BY <4>1
    <3>10. \A i, j \in 1 .. k : i < j => vals[p[i]] <= vals[p[j]]
      <4>1. ASSUME NEW i \in 1 .. k, NEW j \in 1 .. k, i < j PROVE vals[p[i]] <= vals[p[j]]
        <5>1. i \in 1 .. k - 1
          BY <4>1
        <5>2. CASE j = k
          BY <5>2, <3>1, <3>7, <3>8
        <5>3. CASE j \in 1 .. k - 1
          <6>1. vals[p[i]] = rest[q[i]] /\ vals[p[j]] = rest[q[j]]
            BY <5>1, <5>3, <3>3, <3>7
          <6>2. QED
            BY <6>1, <5>1, <5>3, <4>1, <3>5
        <5>4. QED
          BY <5>2, <5>3, <3>6
      <4>2. QED
        BY <4>1
    <3>11. Rising(p, k, vals)
      BY <3>8, <3>9, <3>10 DEF Rising
    <3>12. QED
      BY <3>11
  <2>2. QED
    BY <2>1
<1>3. n \in S
  <2> HIDE DEF S
  <2>1. 0 .. n \subseteq S
    BY <1>1, <1>2, InductionTo
  <2>2. QED
    BY <2>1
<1>4. QED
  BY <1>3

LEMMA SortedIs ==
    ASSUME NEW vals \in Seq(Int)
    PROVE  \E p : Rising(p, Len(vals), vals) /\ Sorted(vals) = [i \in 1 .. Len(vals) |-> vals[p[i]]]
<1> DEFINE n == Len(vals)
           Sorts(p) == \A i, j \in DOMAIN vals : i < j => vals[p[i]] <= vals[p[j]]
           p == CHOOSE p \in Bijection(DOMAIN vals, DOMAIN vals) : Sorts(p)
<1>1. n \in Nat /\ DOMAIN vals = 1 .. n /\ vals \in [1 .. n -> Int]
  OBVIOUS
<1>2. PICK q : Rising(q, n, vals)
  BY <1>1, RisingExists
<1> HIDE DEF n
<1>3. q \in Bijection(DOMAIN vals, DOMAIN vals) /\ Sorts(q)
  <2>1. q \in Injection(1 .. n, 1 .. n)
    BY <1>2 DEF Rising, Injection, IsInjective
  <2>2. IsFiniteSet(1 .. n)
    BY <1>1, FS_Interval
  <2>3. q \in Surjection(1 .. n, 1 .. n)
    BY <2>1, <2>2, FS_Injection
  <2>4. QED
    BY <1>1, <1>2, <2>1, <2>3 DEF Bijection, Rising
<1>4. p \in Bijection(DOMAIN vals, DOMAIN vals) /\ Sorts(p)
  <2> HIDE DEF Sorts
  <2>1. QED
    BY <1>3, Zenon
<1>5. Sorted(vals) = [i \in DOMAIN vals |-> vals[p[i]]]
  BY Zenon DEF Sorted
<1> HIDE DEF p
<1>6. Rising(p, n, vals)
  BY <1>1, <1>4 DEF Rising, Bijection, Injection, IsInjective
<1>7. QED
  BY <1>1, <1>5, <1>6 DEF n

\* As many places as an order has for them.
LEMMA PlacesCount ==
    ASSUME NEW n \in Nat, NEW vals, NEW p, Rising(p, n, vals),
           NEW a \in 1 .. n, NEW b \in a .. n, NEW T \in SUBSET (1 .. n),
           \A j \in a .. b : p[j] \in T
    PROVE  Cardinality(T) \in Nat /\ Cardinality(T) >= b - a + 1
<1> DEFINE f == [j \in a .. b |-> p[j]]
<1>1. IsFiniteSet(T) /\ Cardinality(T) \in Nat
  <2>1. IsFiniteSet(1 .. n)
    BY FS_Interval
  <2>2. IsFiniteSet(T)
    BY <2>1, FS_Subset
  <2>3. QED
    BY <2>2, FS_CardinalityType
<1>2. f \in Injection(a .. b, T)
  <2>1. f \in [a .. b -> T] /\ DOMAIN f = a .. b
    OBVIOUS
  <2>2. \A i, j \in a .. b : f[i] = f[j] => i = j
    <3>1. \A i \in a .. b : i \in 1 .. n
      OBVIOUS
    <3>2. QED
      BY <3>1 DEF Rising
  <2> HIDE DEF f
  <2>3. QED
    BY <2>1, <2>2 DEF Injection, IsInjective
<1>3. Cardinality(a .. b) <= Cardinality(T)
  <2> HIDE DEF f
  <2>1. QED
    BY <1>1, <1>2, FS_Injection
<1>4. Cardinality(a .. b) = b - a + 1
  <2>1. a \in Int /\ b \in Int /\ ~(a > b)
    OBVIOUS
  <2>2. QED
    BY <2>1, FS_Interval
<1>5. QED
  BY <1>1, <1>3, <1>4

LEMMA MedianIs ==
    ASSUME NEW vals \in Seq(Int), vals # <<>>
    PROVE  IsMedian(Median(vals), vals)
<1> DEFINE n == Len(vals)
           h == n \div 2
           s == Sorted(vals)
           m == Median(vals)
           Lower == {i \in DOMAIN vals : 2 * vals[i] <= m}
           Upper == {i \in DOMAIN vals : 2 * vals[i] >= m}
<1>1. n \in Nat /\ n >= 1 /\ DOMAIN vals = 1 .. n /\ \A i \in 1 .. n : vals[i] \in Int
  OBVIOUS
<1>2. PICK p : Rising(p, n, vals) /\ s = [i \in 1 .. n |-> vals[p[i]]]
  BY SortedIs
<1>3. m = IF n % 2 = 1 THEN 2 * s[h + 1] ELSE s[h] + s[h + 1]
  BY Zenon DEF Median
<1> HIDE DEF n, s, m
<1>4. /\ \A i \in 1 .. n : p[i] \in 1 .. n /\ s[i] = vals[p[i]] /\ s[i] \in Int
      /\ \A i, j \in 1 .. n : i <= j => s[i] <= s[j]
  <2>1. \A i \in 1 .. n : p[i] \in 1 .. n /\ s[i] = vals[p[i]] /\ s[i] \in Int
    BY <1>1, <1>2 DEF Rising
  <2>2. \A i, j \in 1 .. n : i < j => s[i] <= s[j]
    BY <1>1, <1>2, <2>1 DEF Rising
  <2>3. \A i, j \in 1 .. n : i <= j => i < j \/ i = j
    OBVIOUS
  <2>4. QED
    BY <2>1, <2>2, <2>3
<1>5. Lower \in SUBSET (1 .. n) /\ Upper \in SUBSET (1 .. n)
  BY <1>1
<1>6. \A i \in 1 .. n : (2 * s[i] <= m => p[i] \in Lower) /\ (2 * s[i] >= m => p[i] \in Upper)
  BY <1>1, <1>4
<1> HIDE DEF Lower, Upper
<1>7. CASE n % 2 = 1
  <2>1. h \in Nat /\ n = 2 * h + 1 /\ h + 1 \in 1 .. n /\ 1 \in 1 .. n /\ n \in 1 .. n
    BY <1>1, <1>7
  <2> HIDE DEF h
  <2>2. m = 2 * s[h + 1]
    BY <1>3, <1>7
  <2>3. \A i \in 1 .. h + 1 : p[i] \in Lower
    <3>1. \A i \in 1 .. h + 1 : i \in 1 .. n /\ s[i] <= s[h + 1] /\ s[i] \in Int
      BY <2>1, <1>4
    <3>2. \A i \in 1 .. h + 1 : 2 * s[i] <= m
      BY <3>1, <2>1, <2>2, <1>4
    <3>3. QED
      BY <3>1, <3>2, <1>6
  <2>4. \A i \in h + 1 .. n : p[i] \in Upper
    <3>1. \A i \in h + 1 .. n : i \in 1 .. n /\ s[i] >= s[h + 1] /\ s[i] \in Int
      BY <2>1, <1>4
    <3>2. \A i \in h + 1 .. n : 2 * s[i] >= m
      BY <3>1, <2>1, <2>2, <1>4
    <3>3. QED
      BY <3>1, <3>2, <1>6
  <2>5. Cardinality(Lower) \in Nat /\ Cardinality(Lower) >= (h + 1) - 1 + 1
    BY <2>1, <2>3, <1>1, <1>2, <1>5, PlacesCount
  <2>6. Cardinality(Upper) \in Nat /\ Cardinality(Upper) >= n - (h + 1) + 1
    <3>1. n \in h + 1 .. n
      BY <2>1
    <3>2. QED
      BY <2>1, <2>4, <3>1, <1>1, <1>2, <1>5, PlacesCount
  <2>7. 2 * Cardinality(Lower) >= n /\ 2 * Cardinality(Upper) >= n
    BY <2>1, <2>5, <2>6
  <2>8. QED
    BY <2>7 DEF IsMedian, Lower, Upper, n, m
<1>8. CASE n % 2 # 1
  <2>1. h \in Nat /\ n = 2 * h /\ h \in 1 .. n /\ h + 1 \in 1 .. n /\ 1 \in 1 .. n /\ n \in 1 .. n
    BY <1>1, <1>8
  <2> HIDE DEF h
  <2>2. m = s[h] + s[h + 1] /\ s[h] <= s[h + 1] /\ s[h] \in Int /\ s[h + 1] \in Int
    BY <1>3, <1>4, <1>8, <2>1
  <2>3. \A i \in 1 .. h : p[i] \in Lower
    <3>1. \A i \in 1 .. h : i \in 1 .. n /\ s[i] <= s[h] /\ s[i] \in Int
      BY <2>1, <1>4
    <3>2. \A i \in 1 .. h : 2 * s[i] <= m
      BY <3>1, <2>2
    <3>3. QED
      BY <3>1, <3>2, <1>6
  <2>4. \A i \in h + 1 .. n : p[i] \in Upper
    <3>1. \A i \in h + 1 .. n : i \in 1 .. n /\ s[i] >= s[h + 1] /\ s[i] \in Int
      BY <2>1, <1>4
    <3>2. \A i \in h + 1 .. n : 2 * s[i] >= m
      BY <3>1, <2>2
    <3>3. QED
      BY <3>1, <3>2, <1>6
  <2>5. Cardinality(Lower) \in Nat /\ Cardinality(Lower) >= h - 1 + 1
    BY <2>1, <2>3, <1>1, <1>2, <1>5, PlacesCount
  <2>6. Cardinality(Upper) \in Nat /\ Cardinality(Upper) >= n - (h + 1) + 1
    <3>1. n \in h + 1 .. n
      BY <2>1
    <3>2. QED
      BY <2>1, <2>4, <3>1, <1>1, <1>2, <1>5, PlacesCount
  <2>7. 2 * Cardinality(Lower) >= n /\ 2 * Cardinality(Upper) >= n
    BY <2>1, <2>5, <2>6
  <2>8. QED
    BY <2>7 DEF IsMedian, Lower, Upper, n, m
<1>9. QED
  BY <1>7, <1>8

-----------------------------------------------------------------------------
(* The statistics. *)

LEMMA MaxIs ==
    ASSUME NEW T \in SUBSET Int, NEW d \in T, \A y \in T : y <= d
    PROVE  Max(T) = d
<1>1. Max(T) \in T /\ \A y \in T : Max(T) >= y
  BY Zenon DEF Max
<1> DEFINE m == Max(T)
<1> HIDE DEF m
<1>2. m \in T /\ (\A y \in T : m >= y) => m = d
  OBVIOUS
<1>3. QED
  BY <1>1, <1>2 DEF m

\* The greatest of some numbers is one of them.
LEMMA PeakIs ==
    ASSUME NEW s \in Seq(Nat), s # <<>>
    PROVE  /\ Max(Range(s)) \in Range(s) /\ Max(Range(s)) \in Nat
           /\ \A i \in 1 .. Len(s) : s[i] <= Max(Range(s))
<1>1. Len(s) \in Nat /\ Len(s) >= 1 /\ s \in [1 .. Len(s) -> Int]
  OBVIOUS
<1>2. PICK m \in 1 .. Len(s) : \A i \in 1 .. Len(s) : s[i] <= s[m]
  BY <1>1, Largest
<1>3. Range(s) = {s[i] : i \in 1 .. Len(s)}
  BY DEF Range
<1>4. Max(Range(s)) = s[m]
  <2>1. Range(s) \in SUBSET Int /\ s[m] \in Range(s) /\ \A y \in Range(s) : y <= s[m]
    BY <1>2, <1>3
  <2>2. QED
    BY <2>1, MaxIs
<1>5. s[m] \in Range(s) /\ s[m] \in Nat
  BY <1>3
<1>6. QED
  BY <1>2, <1>4, <1>5

-----------------------------------------------------------------------------
(* The statistics. *)

\* The statistics of some points.
StatsOf(s, unit) ==
    [total |-> Sum(Powers(s, unit)), count |-> Len(Powers(s, unit)),
     median |-> Median([i \in DOMAIN s |-> s[i].v]),
     min |-> Extremes(s).min, max |-> Extremes(s).max,
     peak |-> Max(Range(Powers(s, unit))),
     lowest |-> LinearPower(Extremes(s).min.v, unit),
     highest |-> LinearPower(Extremes(s).max.v, unit),
     occupied |-> OccupiedBandwidth(s, unit)]

\* Where the power of the least value is positive, all powers are numbers.
LEMMA AllPowered ==
    ASSUME NEW s \in Seq(Points), s # <<>>, Upwards(s), NEW unit,
           LinearPower(Extremes(s).min.v, unit) > 0
    PROVE  Powered(s, unit)
<1> DEFINE e == Extremes(s)
<1>1. (\E i \in 1 .. Len(s) : e.min = s[i]) /\ \A i \in 1 .. Len(s) : e.min.v <= s[i].v
  BY ExtremesFirst
<1> HIDE DEF e
<1>2. \A i \in 1 .. Len(s) : s[i] \in Points
  OBVIOUS
<1>3. e.min.v \in Levels /\ \A i \in 1 .. Len(s) : s[i].v \in Levels
  BY <1>1, <1>2 DEF Points
<1>4. LinearPower(e.min.v, unit) > 0
  BY DEF e
<1>5. \A i \in 1 .. Len(s) : LinearPower(s[i].v, unit) \in Nat
  BY <1>1, <1>3, <1>4, PowerType
<1>6. QED
  BY <1>5 DEF Powered

\* The extremes of the powers are those of the values.
LEMMA FlatnessIs ==
    ASSUME NEW s \in Seq(Points), s # <<>>, Upwards(s), NEW unit, Powered(s, unit),
           LinearPower(Extremes(s).min.v, unit) > 0,
           unit \in VoltUnits => \A i \in 1 .. Len(s) : s[i].v >= 0
    PROVE  /\ LinearPower(Extremes(s).max.v, unit) = Max(Range(Powers(s, unit)))
           /\ \A i \in 1 .. Len(s) : LinearPower(Extremes(s).min.v, unit) <= Powers(s, unit)[i]
<1> DEFINE e == Extremes(s)
           powers == Powers(s, unit)
           n == Len(s)
           lowest == LinearPower(e.min.v, unit)
           highest == LinearPower(e.max.v, unit)
<1>1. /\ \E i \in 1 .. n : e.min = s[i]
      /\ \E i \in 1 .. n : e.max = s[i]
      /\ \A i \in 1 .. n : e.min.v <= s[i].v /\ s[i].v <= e.max.v
  BY ExtremesFirst
<1>2. /\ powers \in Seq(Nat) /\ Len(powers) = n
      /\ \A i \in 1 .. n : powers[i] = LinearPower(s[i].v, unit)
  BY PowersAre
<1>3. n \in Nat /\ n >= 1 /\ lowest > 0
  OBVIOUS
<1>4. \A i \in 1 .. n : s[i].v \in Int /\ s[i].v >= Floor
  <2>1. \A i \in 1 .. n : s[i] \in Points
    OBVIOUS
  <2>2. QED
    BY <2>1 DEF Points, Levels
<1> HIDE DEF e, powers, n
<1>5. e.min.v \in Int /\ e.min.v >= Floor /\ e.max.v \in Int
  BY <1>1, <1>4
<1>6. \A i \in 1 .. n : IF unit \in DbUnits THEN s[i].v >= Floor ELSE s[i].v >= 0
  <2>1. CASE unit \in DbUnits
    BY <2>1, <1>4
  <2>2. CASE unit \in VoltUnits
    BY <2>2 DEF DbUnits, VoltUnits, n
  <2>3. CASE unit \notin DbUnits \cup VoltUnits
    <3>1. e.min.v > 0
      BY <1>3, <2>3 DEF LinearPower
    <3>2. QED
      BY <2>3, <3>1, <1>1, <1>4, <1>5
  <2>4. QED
    BY <2>1, <2>2, <2>3
<1>7. IF unit \in DbUnits THEN e.min.v >= Floor ELSE e.min.v >= 0
  BY <1>1, <1>6
<1>8. ASSUME NEW i \in 1 .. n
      PROVE  lowest <= powers[i] /\ powers[i] <= highest /\ powers[i] \in Nat
  <2>1. powers[i] = LinearPower(s[i].v, unit) /\ s[i].v \in Int
    BY <1>2, <1>4
  <2>2. lowest <= powers[i] /\ powers[i] \in Nat
    BY <2>1, <1>1, <1>5, <1>7, PowerGrows
  <2>3. powers[i] <= highest
    BY <2>1, <1>1, <1>5, <1>6, PowerGrows
  <2>4. QED
    BY <2>2, <2>3
<1>9. highest = Max(Range(powers))
  <2>1. Range(powers) = {powers[i] : i \in 1 .. n}
    BY <1>2 DEF Range
  <2>2. highest \in Range(powers)
    BY <2>1, <1>1, <1>2
  <2> HIDE DEF highest
  <2>3. Range(powers) \in SUBSET Int /\ \A y \in Range(powers) : y <= highest
    BY <2>1, <1>8
  <2>4. QED
    BY <2>2, <2>3, MaxIs
<1>10. \A i \in 1 .. n : lowest <= powers[i]
  BY <1>8
<1>11. QED
  BY <1>9, <1>10 DEF e, powers, n

LEMMA StatsDescribe ==
    ASSUME NEW s \in Seq(Points), s # <<>>, Upwards(s), NEW unit,
           LinearPower(Extremes(s).min.v, unit) > 0, ~(Sum(Powers(s, unit)) <= 0)
    PROVE  Describes(StatsOf(s, unit), s, unit)
<1> DEFINE powers == Powers(s, unit)
           vals == [i \in DOMAIN s |-> s[i].v]
           e == Extremes(s)
           r == StatsOf(s, unit)
           n == Len(s)
           lowest == LinearPower(e.min.v, unit)
           highest == LinearPower(e.max.v, unit)
           peak == Max(Range(powers))
<1>0. Powered(s, unit)
  BY AllPowered
<1>1. /\ r.total = Sum(powers) /\ r.count = Len(powers) /\ r.median = Median(vals)
      /\ r.min = e.min /\ r.max = e.max /\ r.peak = peak
      /\ r.lowest = lowest /\ r.highest = highest
      /\ r.occupied = OccupiedBandwidth(s, unit)
  BY DEF StatsOf
<1>2. /\ n \in Nat /\ n >= 1 /\ DOMAIN s = 1 .. n
      /\ \A i \in 1 .. n : s[i] \in Points /\ s[i].v \in Int /\ s[i].f \in Nat
  <2>1. n \in Nat /\ n >= 1 /\ DOMAIN s = 1 .. n /\ \A i \in 1 .. n : s[i] \in Points
    OBVIOUS
  <2>2. QED
    BY <2>1 DEF Points, Levels
<1>3. /\ powers \in Seq(Nat) /\ Len(powers) = n /\ Sum(powers) \in Nat /\ Sum(powers) > 0
      /\ \A i \in 1 .. n : powers[i] = LinearPower(s[i].v, unit)
  <2>1. /\ powers \in Seq(Nat) /\ Len(powers) = n
        /\ \A i \in 1 .. n : powers[i] = LinearPower(s[i].v, unit)
    BY <1>0, PowersAre
  <2>2. Sum(powers) \in Nat
    BY <2>1, SumType
  <2>3. QED
    BY <2>1, <2>2
<1>4. /\ \E i \in 1 .. n : e.min = s[i]
      /\ \E i \in 1 .. n : e.max = s[i]
      /\ \A i \in 1 .. n : /\ e.min.v <= s[i].v /\ s[i].v <= e.max.v
                           /\ s[i].v = e.min.v => e.min.f <= s[i].f
                           /\ s[i].v = e.max.v => e.max.f <= s[i].f
  BY ExtremesFirst
<1>5. IsMedian(Median(vals), vals)
  <2>1. vals \in Seq(Int) /\ vals # <<>>
    BY <1>2
  <2> HIDE DEF vals
  <2>2. QED
    BY <2>1, MedianIs
<1>6. OccupiedBandwidth(s, unit) = NarrowestBand(s, powers)
  BY <1>0, <1>3, OccupiedIsNarrowest
<1>7. /\ peak \in Range(powers) /\ peak \in Nat
      /\ \A i \in 1 .. n : powers[i] <= peak
  <2>1. powers # <<>>
    BY <1>2, <1>3
  <2> HIDE DEF powers
  <2>2. QED
    BY <1>3, <2>1, PeakIs
<1>8. (unit \in VoltUnits => \A i \in 1 .. n : vals[i] >= 0) =>
         highest = peak /\ \A i \in 1 .. n : lowest <= powers[i]
  <2>1. \A i \in 1 .. n : vals[i] = s[i].v
    BY <1>2
  <2> HIDE DEF vals
  <2>2. QED
    BY <1>0, <2>1, FlatnessIs
<1> HIDE DEF r, e, powers, n, peak, lowest, highest
<1>9. Sum(powers) <= peak * Len(powers)
  <2>1. 0 \in Nat /\ \A i \in 1 .. Len(powers) : 0 <= powers[i] /\ powers[i] <= peak
    BY <1>3, <1>7
  <2>2. QED
    BY <2>1, <1>3, <1>7, MeanBetween
<1> DEFINE set == {s[i] : i \in DOMAIN s}
<1>10. {r.min, r.max} \subseteq set
  BY <1>1, <1>2, <1>4
<1>11. \A p \in set : /\ r.min.v <= p.v /\ p.v <= r.max.v
                      /\ p.v = r.min.v => r.min.f <= p.f
                      /\ p.v = r.max.v => r.max.f <= p.f
  BY <1>1, <1>2, <1>4
<1>12. /\ IsMedian(r.median, vals)
       /\ r.peak \in Range(powers) /\ \A i \in DOMAIN s : powers[i] <= r.peak
       /\ 0 < r.total /\ r.total <= r.peak * r.count
       /\ (unit \in VoltUnits => \A i \in DOMAIN s : vals[i] >= 0) =>
              /\ r.highest = r.peak
              /\ \A i \in DOMAIN s : r.lowest <= powers[i]
       /\ r.occupied = NarrowestBand(s, powers)
  <2> HIDE DEF vals
  <2>1. QED
    BY <1>1, <1>2, <1>3, <1>5, <1>6, <1>7, <1>8, <1>9
<1>13. Describes(r, s, unit) <=>
         /\ {r.min, r.max} \subseteq set
         /\ \A p \in set : r.min.v <= p.v /\ p.v <= r.max.v
         /\ \A p \in set : /\ p.v = r.min.v => r.min.f <= p.f
                           /\ p.v = r.max.v => r.max.f <= p.f
         /\ IsMedian(r.median, vals)
         /\ r.peak \in Range(powers) /\ \A i \in DOMAIN s : powers[i] <= r.peak
         /\ 0 < r.total /\ r.total <= r.peak * r.count
         /\ (unit \in VoltUnits => \A i \in DOMAIN s : vals[i] >= 0) =>
                /\ r.highest = r.peak
                /\ \A i \in DOMAIN s : r.lowest <= powers[i]
         /\ r.occupied = NarrowestBand(s, powers)
  BY Zenon DEF Describes, powers, Powers
<1>14. QED
  <2> HIDE DEF set, vals
  <2>1. QED
    BY <1>10, <1>11, <1>12, <1>13 DEF r

\* Lines without a number are dropped.
LEMMA ParseIs ==
    ASSUME NEW X, NEW lines \in Seq(X \cup {Garbled})
    PROVE  /\ Garbled \notin Range(lines) => Parse(lines) = lines /\ lines \in Seq(X)
           /\ Garbled \in Range(lines) => Len(Parse(lines)) < Len(lines)
<1> DEFINE S == Range(lines) \ {Garbled}
<1>1. Parse(lines) = Keep(lines, S)
  BY Zenon DEF Parse
<1>2. Range(lines) = {lines[i] : i \in 1 .. Len(lines)}
  BY DEF Range
<1>3. CASE Garbled \notin Range(lines)
  <2>1. \A i \in 1 .. Len(lines) : lines[i] \in S /\ lines[i] \in X
    BY <1>2, <1>3
  <2>2. lines \in Seq(X)
    BY <2>1
  <2> HIDE DEF S
  <2>3. Keep(lines, S) = lines
    BY <2>1, KeepLength
  <2>4. QED
    BY <1>1, <1>3, <2>2, <2>3
<1>4. CASE Garbled \in Range(lines)
  <2>1. \E i \in 1 .. Len(lines) : lines[i] \notin S
    BY <1>2, <1>4
  <2> HIDE DEF S
  <2>2. Len(Keep(lines, S)) < Len(lines)
    BY <2>1, KeepLength
  <2>3. QED
    BY <1>1, <1>4, <2>2
<1>5. QED
  BY <1>3, <1>4

\* What the points of a range are.
LEMMA FilterIs ==
    ASSUME NEW s \in Seq(Points), Upwards(s), NEW start, NEW stop
    PROVE  /\ Filter(s, start, stop) \in Seq(Points) /\ Upwards(Filter(s, start, stop))
           /\ s = <<>> => Filter(s, start, stop) = <<>>
<1> DEFINE S == {p \in Range(s) : start <= p.f /\ p.f <= stop}
<1>1. Filter(s, start, stop) = Keep(s, S)
  BY Zenon DEF Filter
<1> HIDE DEF S
<1>2. Keep(s, S) \in Seq(Points) /\ Len(Keep(s, S)) <= Len(s)
  BY KeepLength
<1>3. Upwards(Keep(s, S))
  BY KeepUpwards
<1>4. s = <<>> => Keep(s, S) = <<>>
  BY <1>2
<1>5. QED
  BY <1>1, <1>2, <1>3, <1>4

LEMMA SentIs ==
    ASSUME NEW freqs \in Seq(Nat), NEW values \in Seq(Levels), Len(freqs) = Len(values),
           \A i, j \in DOMAIN freqs : i < j => freqs[i] <= freqs[j]
    PROVE  /\ Sent(freqs, values) \in Seq(Points) /\ Upwards(Sent(freqs, values))
           /\ freqs = <<>> => Sent(freqs, values) = <<>>
<1> DEFINE s == Sent(freqs, values)
<1>1. DOMAIN freqs = 1 .. Len(freqs) /\ Len(freqs) \in Nat
  OBVIOUS
<1>2. \A i \in 1 .. Len(freqs) : [f |-> freqs[i], v |-> values[i]] \in Points
  BY DEF Points
<1>3. s \in Seq(Points) /\ Len(s) = Len(freqs)
  BY <1>1, <1>2 DEF Sent
<1>4. \A i \in 1 .. Len(freqs) : s[i].f = freqs[i]
  BY <1>1 DEF Sent
<1> HIDE DEF s
<1>5. Upwards(s)
  BY <1>1, <1>3, <1>4 DEF Upwards
<1>6. freqs = <<>> => s = <<>>
  <2>1. freqs = <<>> => Len(s) = 0
    BY <1>3
  <2>2. QED
    BY <1>3, <2>1, EmptySeq
<1>7. QED
  BY <1>3, <1>5, <1>6 DEF s

\* A trace in decibels has positive powers.
LEMMA DecibelsArePositive ==
    ASSUME NEW s \in Seq(Points), s # <<>>, Upwards(s), NEW unit \in DbUnits
    PROVE  /\ LinearPower(Extremes(s).min.v, unit) >= 1 /\ LinearPower(Extremes(s).max.v, unit) >= 1
           /\ LinearPower(Extremes(s).min.v, unit) \in Nat /\ LinearPower(Extremes(s).max.v, unit) \in Nat
           /\ Sum(Powers(s, unit)) \in Nat /\ Sum(Powers(s, unit)) > 0
<1>1. \A v \in Levels : LinearPower(v, unit) \in Nat /\ LinearPower(v, unit) >= 1
  <2>1. \A v \in Levels : v - Floor \in Nat /\ LinearPower(v, unit) = Ten(v - Floor)
    BY FloorAssumption DEF Levels, LinearPower
  <2>2. QED
    BY <2>1, TenPositive
<1>2. \A i \in 1 .. Len(s) : s[i] \in Points /\ s[i].v \in Levels
  <2>1. \A i \in 1 .. Len(s) : s[i] \in Points
    OBVIOUS
  <2>2. QED
    BY <2>1 DEF Points
<1>3. Extremes(s).min.v \in Levels /\ Extremes(s).max.v \in Levels
  <2> DEFINE e == Extremes(s)
  <2>1. (\E i \in 1 .. Len(s) : e.min = s[i]) /\ \E i \in 1 .. Len(s) : e.max = s[i]
    BY ExtremesFirst
  <2> HIDE DEF e
  <2>2. QED
    BY <1>2, <2>1 DEF e
<1>4. Powered(s, unit)
  BY <1>1, <1>2 DEF Powered
<1> DEFINE powers == Powers(s, unit)
<1>5. /\ powers \in Seq(Nat) /\ Len(powers) = Len(s)
      /\ \A i \in 1 .. Len(s) : powers[i] = LinearPower(s[i].v, unit)
  BY <1>4, PowersAre
<1> HIDE DEF powers
<1>6. powers # <<>> /\ \A i \in 1 .. Len(powers) : powers[i] >= 1
  <2>1. Len(s) \in Nat \ {0}
    BY EmptySeq
  <2>2. \A i \in 1 .. Len(powers) : powers[i] >= 1
    BY <1>1, <1>2, <1>5
  <2>3. QED
    BY <1>5, <2>1, <2>2, EmptySeq
<1>7. Sum(powers) \in Nat /\ Sum(powers) > 0
  BY <1>5, <1>6, SumPositive
<1>8. QED
  BY <1>1, <1>3, <1>7 DEF powers

\* The statistics of a trace without garbled lines.
LEMMA CleanStats ==
    ASSUME NEW freqs \in Seq(Nat), NEW values \in Seq(Levels), Len(freqs) = Len(values),
           \A i, j \in DOMAIN freqs : i < j => freqs[i] <= freqs[j],
           NEW unit, NEW start, NEW stop, NEW antenna \in BOOLEAN
    PROVE  LET r == ComputeStats(freqs, values, unit, start, stop, antenna)
               points == Filter(Sent(freqs, values), start, stop)
           IN  /\ r # Error => Describes(r, points, unit)
               /\ points # <<>> /\ unit \in DbUnits => r # Error
<1> DEFINE points == Filter(Sent(freqs, values), start, stop)
           r == ComputeStats(freqs, values, unit, start, stop, antenna)
           powers == Powers(points, unit)
           lowest == LinearPower(Extremes(points).min.v, unit)
           highest == LinearPower(Extremes(points).max.v, unit)
           refused == \/ Sum(powers) <= 0 \/ lowest <= 0 \/ highest <= 0
                      \/ antenna /\ NoFieldStrength(Sum(powers), unit)
<1>1. points \in Seq(Points) /\ Upwards(points) /\ (freqs = <<>> => points = <<>>)
  <2>1. /\ Sent(freqs, values) \in Seq(Points) /\ Upwards(Sent(freqs, values))
        /\ freqs = <<>> => Sent(freqs, values) = <<>>
    BY SentIs
  <2>2. QED
    BY <2>1, FilterIs
<1>2. r = IF freqs = <<>> \/ Len(freqs) # Len(values) THEN Error
          ELSE IF points = <<>> THEN Error
          ELSE IF refused THEN Error ELSE StatsOf(points, unit)
  BY Zenon DEF ComputeStats, StatsOf
<1> HIDE DEF points, r, refused
<1>3. ASSUME r # Error PROVE Describes(r, points, unit)
  <2>1. points # <<>> /\ ~refused /\ r = StatsOf(points, unit)
    BY <1>2, <1>3
  <2>2. ~(Sum(powers) <= 0) /\ ~(lowest <= 0)
    BY <2>1 DEF refused
  <2>3. lowest > 0
    <3>1. lowest \in Int
      <4> DEFINE e == Extremes(points)
      <4>1. \E i \in 1 .. Len(points) : e.min = points[i]
        BY <1>1, <2>1, ExtremesFirst
      <4> HIDE DEF e
      <4>2. e.min.v \in Levels
        <5>1. \A i \in 1 .. Len(points) : points[i] \in Points
          BY <1>1
        <5>2. QED
          BY <4>1, <5>1 DEF Points
      <4>3. e.min.v \in Int /\ e.min.v >= Floor
        BY <4>2 DEF Levels
      <4>4. LinearPower(e.min.v, unit) \in Int
        <5>1. unit \in DbUnits => LinearPower(e.min.v, unit) \in Nat
          <6>1. e.min.v <= e.min.v
            BY <4>3
          <6>2. QED
            BY <4>3, <6>1, PowerGrows
        <5>2. QED
          BY <4>3, <5>1 DEF LinearPower
      <4>5. QED
        BY <4>4 DEF e
    <3> HIDE DEF lowest
    <3>2. QED
      BY <2>2, <3>1
  <2>4. QED
    BY <1>1, <2>1, <2>2, <2>3, StatsDescribe
<1>4. ASSUME points # <<>>, unit \in DbUnits PROVE r # Error
  <2>1. freqs # <<>>
    BY <1>1, <1>4
  <2>2. /\ lowest \in Nat /\ lowest >= 1 /\ highest \in Nat /\ highest >= 1
        /\ Sum(powers) \in Nat /\ Sum(powers) > 0
    BY <1>1, <1>4, DecibelsArePositive
  <2>3. ~NoFieldStrength(Sum(powers), unit)
    BY <1>4 DEF NoFieldStrength, DbUnits, VoltUnits
  <2>4. ~refused
    <3> HIDE DEF lowest, highest, powers
    <3>1. QED
      BY <2>2, <2>3 DEF refused
  <2>5. r = StatsOf(points, unit)
    BY <1>2, <1>4, <2>1, <2>4
  <2>6. "total" \in DOMAIN StatsOf(points, unit) /\ "total" \notin DOMAIN Error
    BY DEF StatsOf, Error
  <2>7. QED
    BY <2>5, <2>6
<1>5. QED
  BY <1>3, <1>4 DEF points, r

\* What is shown of two texts of the device is true.
LEMMA ResultAgrees ==
    ASSUME NEW freqs \in FrequencyTexts, NEW values \in ValueTexts, NEW unit, NEW w,
           NEW a \in BOOLEAN
    PROVE  Agrees(Result(freqs, values, unit, w, a))
<1> DEFINE r == ComputeStats(Parse(freqs), Parse(values), unit, w[1], w[2], a)
           clean == Garbled \notin Range(freqs) \cup Range(values)
           points == Filter(Sent(freqs, values), w[1], w[2])
           d == Result(freqs, values, unit, w, a)
<1>1. /\ d.freqs = freqs /\ d.values = values /\ d.unit = unit /\ d.window = w
      /\ d.stats = r
  BY DEF Result
<1>2. /\ freqs \in Seq(Nat \cup {Garbled}) /\ values \in Seq(Levels \cup {Garbled})
      /\ Len(freqs) = Len(values)
      /\ \A i, j \in DOMAIN freqs :
           i < j /\ Garbled \notin {freqs[i], freqs[j]} => freqs[i] <= freqs[j]
  <2>1. /\ freqs \in Seq(Nat \cup {Garbled}) /\ values \in Seq(Int \cup {Garbled})
        /\ Len(freqs) = Len(values)
        /\ \A i \in DOMAIN values : values[i] # Garbled => values[i] >= Floor
        /\ \A i, j \in DOMAIN freqs :
             i < j /\ Garbled \notin {freqs[i], freqs[j]} => freqs[i] <= freqs[j]
    BY TextsAssumption
  <2>2. \A i \in 1 .. Len(values) : values[i] \in Levels \cup {Garbled}
    BY <2>1 DEF Levels
  <2>3. values \in Seq(Levels \cup {Garbled})
    BY <2>1, <2>2
  <2>4. QED
    BY <2>1, <2>3
<1>3. ASSUME clean
      PROVE  /\ r # Error => Describes(r, points, unit)
             /\ points # <<>> /\ unit \in DbUnits => r # Error
  <2>1. Parse(freqs) = freqs /\ Parse(values) = values /\ freqs \in Seq(Nat) /\ values \in Seq(Levels)
    BY <1>2, <1>3, ParseIs
  <2>2. \A i, j \in DOMAIN freqs : i < j => freqs[i] <= freqs[j]
    BY <1>2, <1>3 DEF Range
  <2>3. QED
    BY <1>2, <2>1, <2>2, CleanStats
<1>4. ASSUME ~clean, Garbled \notin Range(freqs) \/ Garbled \notin Range(values)
      PROVE  r = Error
  <2>1. Len(Parse(freqs)) # Len(Parse(values))
    <3>1. CASE Garbled \notin Range(freqs)
      <4>1. Garbled \in Range(values)
        BY <1>4, <3>1
      <4>2. Parse(freqs) = freqs /\ Len(Parse(values)) < Len(values)
        BY <1>2, <3>1, <4>1, ParseIs
      <4>3. Len(freqs) \in Nat
        BY <1>2
      <4>4. QED
        BY <4>2, <4>3, <1>2
    <3>2. CASE Garbled \notin Range(values)
      <4>1. Garbled \in Range(freqs)
        BY <1>4, <3>2
      <4>2. Parse(values) = values /\ Len(Parse(freqs)) < Len(freqs)
        BY <1>2, <3>2, <4>1, ParseIs
      <4>3. Len(values) \in Nat
        BY <1>2
      <4>4. QED
        BY <4>2, <4>3, <1>2
    <3>3. QED
      BY <1>4, <3>1, <3>2
  <2>2. QED
    BY <2>1, Zenon DEF ComputeStats
<1> HIDE DEF r, clean, points, d
<1>5. Agrees(d) <=>
        (Garbled \notin Range(freqs) \/ Garbled \notin Range(values) =>
           /\ r # Error => clean /\ Describes(r, points, unit)
           /\ clean /\ points # <<>> /\ unit \in DbUnits => r # Error)
  BY <1>1, Zenon DEF Agrees, clean, points
<1>6. QED
  BY <1>3, <1>4, <1>5 DEF d

LEMMA ParseNothing == Parse(<<>>) = <<>>
<1> DEFINE S == Range(<<>>) \ {Garbled}
<1>1. Parse(<<>>) = Keep(<<>>, S)
  BY Zenon DEF Parse
<1> HIDE DEF S
<1>2. <<>> \in Seq(Int) /\ Len(<<>>) = 0
  OBVIOUS
<1>3. Keep(<<>>, S) \in Seq(Int) /\ Len(Keep(<<>>, S)) <= 0
  BY <1>2, KeepLength
<1>4. Keep(<<>>, S) = <<>>
  BY <1>3, EmptySeq
<1>5. QED
  BY <1>1, <1>4

\* What has been fetched, what the panel keeps, and what is shown.
TextsInv ==
    /\ call = NoCall \/ call.antenna \in BOOLEAN
    /\ \/ texts = <<>>
       \/ call # NoCall /\ \E freqs \in FrequencyTexts : texts = <<freqs>>
       \/ /\ call # NoCall
          /\ \E freqs \in FrequencyTexts, values \in ValueTexts : texts = <<freqs, values>>
    /\ axis \in FrequencyTexts \cup {<<>>}

StatsInv == TextsInv /\ (shown = Blank \/ Agrees(shown))

LEMMA StatsInvHolds == StatsSpec => []StatsInv
<1>1. StatsInit => StatsInv
  BY DEF StatsInit, StatsInv, TextsInv
<1>2. StatsInv /\ [StatsNext]_statsVars => StatsInv'
  <2> SUFFICES ASSUME StatsInv, [StatsNext]_statsVars PROVE StatsInv'
    OBVIOUS
  <2> USE DEF StatsInv
  <2>1. ASSUME NEW unit \in Units, NEW window \in Windows, NEW antenna \in BOOLEAN,
               Ask(unit, window, antenna)
        PROVE  StatsInv'
    <3>1. call' = [unit |-> unit, window |-> window, antenna |-> antenna] /\ call = NoCall
          /\ shown' = Blank /\ texts' = texts /\ axis' = axis
      BY <2>1 DEF Ask
    <3>2. call'.antenna = antenna
      BY <3>1
    <3>3. texts = <<>>
      BY <3>1 DEF TextsInv
    <3>4. QED
      BY <3>1, <3>2, <3>3 DEF TextsInv
  <2>2. ASSUME NEW freqs \in FrequencyTexts, FetchFrequencies(freqs) PROVE StatsInv'
    BY <2>2 DEF FetchFrequencies, TextsInv, Agrees
  <2>3. ASSUME NEW values \in ValueTexts, FetchValues(values) PROVE StatsInv'
    <3>1. Len(texts) = 1 /\ texts' = <<texts[1], values>> /\ UNCHANGED <<call, axis, shown>>
      BY <2>3 DEF FetchValues
    <3>2. PICK freqs \in FrequencyTexts : texts = <<freqs>> /\ call # NoCall
      BY <3>1 DEF TextsInv
    <3>3. texts' = <<freqs, values>>
      BY <3>1, <3>2
    <3>4. QED
      BY <3>1, <3>2, <3>3 DEF TextsInv, Agrees
  <2>4. CASE FetchFails
    BY <2>4 DEF FetchFails, TextsInv, Agrees
  <2>5. CASE ShowFetched
    <3>1. /\ Len(texts) = 2 /\ call' = NoCall /\ texts' = <<>> /\ axis' = axis
          /\ shown' = Result(texts[1], texts[2], call.unit, call.window, call.antenna)
      BY <2>5 DEF ShowFetched
    <3>2. /\ texts[1] \in FrequencyTexts /\ texts[2] \in ValueTexts
          /\ call.antenna \in BOOLEAN
      BY <3>1 DEF TextsInv
    <3>3. Agrees(shown')
      BY <3>1, <3>2, ResultAgrees
    <3>4. QED
      BY <3>1, <3>3 DEF TextsInv, Agrees
  <2>6. ASSUME NEW freqs \in FrequencyTexts \cup {<<>>}, NEW values \in ValueTexts,
               OnSubscriptionData(freqs, values)
        PROVE  StatsInv'
    <3> DEFINE last == IF Parse(freqs) = <<>> THEN axis ELSE freqs
               hz == Parse(last)
    <3>1. /\ axis' = last /\ call' = call /\ texts' = texts
          /\ shown' = IF hz = <<>> \/ Len(hz) # Len(Parse(values)) THEN shown
                      ELSE Result(last, values, "dBm", <<hz[1], hz[Len(hz)]>>, FALSE)
      BY <2>6, Zenon DEF OnSubscriptionData
    <3>2. last \in FrequencyTexts \cup {<<>>}
      BY DEF TextsInv
    <3> HIDE DEF last
    <3>3. hz # <<>> => last \in FrequencyTexts
      BY <3>2, ParseNothing
    <3> DEFINE window == <<hz[1], hz[Len(hz)]>>
    <3>4. shown' = shown \/ (last \in FrequencyTexts /\ shown' = Result(last, values, "dBm", window, FALSE))
      BY <3>1, <3>3, Zenon
    <3> HIDE DEF hz, window
    <3>5. shown' = Blank \/ Agrees(shown')
      BY <3>4, ResultAgrees
    <3>6. QED
      BY <3>1, <3>2, <3>5 DEF TextsInv, Agrees
  <2>7. CASE UNCHANGED statsVars
    BY <2>7 DEF statsVars, TextsInv, Agrees
  <2>8. QED
    BY <2>1, <2>2, <2>3, <2>4, <2>5, <2>6, <2>7 DEF StatsNext
<1>3. QED
  BY <1>1, <1>2, PTL DEF StatsSpec

\* compute_stats and its callers: of a trace of any length, in any unit and range,
\* with values of any sign, what is shown is a refusal, or the statistics of the
\* points the device has sent.
THEOREM StatisticsAreTrue == StatsSpec => []StatsAgree
<1>1. StatsInv => StatsAgree
  BY Zenon DEF StatsInv, StatsAgree
<1>2. QED
  BY <1>1, StatsInvHolds, PTL
=============================================================================
