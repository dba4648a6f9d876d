----------------------------- MODULE SerialLink -----------------------------
(***************************************************************************)
(* The serial link between the hub and a device: TinySA of                 *)
(* device/_legacy.py, whose contract device/adapter.py keeps, and the      *)
(* shell of the device at the other end.                                   *)
(*                                                                         *)
(* A command is written after the input buffer has been cleared, and the   *)
(* answer is whatever comes up to the next prompt; when none comes in time *)
(* the command is written again.  Nothing on the wire says to which        *)
(* command an answer belongs, and no lock keeps two users apart.  The      *)
(* module has no behaviour of its own: SweepControl lets two threads of    *)
(* the hub use the link, and says what the device does.                    *)
(***************************************************************************)
EXTENDS Naturals, Sequences

CONSTANTS
    Users,          \* threads of the hub that use the link
    NoCommand,
    Attempts        \* _attempts

ASSUME AttemptsAssumption == Attempts \in Nat \ {0}

VARIABLES
    asked,      \* the command each user waits for the answer of
    tries,      \* how often it has written it
    jobs,       \* commands on their way to the device
    input,      \* answers that have arrived, with their prompts
    doubt       \* the answer a user gets may be to another command

link == <<asked, tries, jobs, input, doubt>>

LinkInit ==
    /\ asked = [u \in Users |-> NoCommand] /\ tries = [u \in Users |-> 0]
    /\ jobs = <<>> /\ input = <<>>
    /\ doubt = [u \in Users |-> FALSE]

Idle(u) == asked[u] = NoCommand

\* The device has nothing left to do, and nobody waits for it.
Quiet == jobs = <<>> /\ \A u \in Users : Idle(u)

\* reset_input_buffer, then write, by a user and before it reads.
Write(u, command) ==
    /\ jobs' = Append(jobs, [by |-> u, command |-> command])
    /\ input' = <<>>

\* A bug: the input buffer is not cleared before the write (mutated).
BeginUncleared(u, command) ==
    /\ Idle(u)
    /\ asked' = [asked EXCEPT ![u] = command] /\ tries' = [tries EXCEPT ![u] = 1]
    /\ jobs' = Append(jobs, [by |-> u, command |-> command])
    /\ doubt' = [w \in Users |-> IF w = u THEN ~Quiet ELSE doubt[w] \/ ~Idle(w)]
    /\ UNCHANGED input

\* The first attempt of _exchange.  On a quiet link there is no doubt about
\* the answer; others who wait may from now on miss theirs.
Begin(u, command) ==
    /\ Idle(u)
    /\ asked' = [asked EXCEPT ![u] = command] /\ tries' = [tries EXCEPT ![u] = 1]
    /\ Write(u, command)
    /\ doubt' = [w \in Users |-> IF w = u THEN ~Quiet ELSE doubt[w] \/ ~Idle(w)]

\* A bug: the port is opened without a timeout (mutated).
TimedOutNever(u) == FALSE

\* write_only: nobody waits for an answer.
WriteOnly(u, command) ==
    /\ Idle(u) /\ Write(u, command)
    /\ doubt' = [w \in Users |-> doubt[w] \/ ~Idle(w)]
    /\ UNCHANGED <<asked, tries>>

\* No prompt came in time.
TimedOut(u) == ~Idle(u) /\ input = <<>>

Retry(u) ==
    /\ TimedOut(u) /\ tries[u] < Attempts
    /\ tries' = [tries EXCEPT ![u] = @ + 1]
    /\ Write(u, asked[u]) /\ doubt' = [w \in Users |-> TRUE]
    /\ UNCHANGED asked

Finish(u) == asked' = [asked EXCEPT ![u] = NoCommand] /\ tries' = [tries EXCEPT ![u] = 0]

\* The last error is raised.
GiveUp(u) ==
    /\ TimedOut(u) /\ tries[u] = Attempts /\ Finish(u)
    /\ UNCHANGED <<jobs, input, doubt>>

\* read_until returns what comes up to the first prompt.
TakeAnswer(u) ==
    /\ ~Idle(u) /\ input # <<>> /\ Finish(u) /\ input' = Tail(input)
    /\ UNCHANGED <<jobs, doubt>>

\* The device carries out one command after the other, and answers.
Execute(content) ==
    /\ jobs # <<>> /\ jobs' = Tail(jobs)
    /\ input' = Append(input, [by |-> Head(jobs).by, to |-> Head(jobs).command, content |-> content])
    /\ UNCHANGED <<asked, tries, doubt>>

\* The first answer is to the last write: no reset has cut off its start.
Whole == jobs = <<>> /\ Len(input) = 1

----------------------------------------------------------------------------

\* A job or an answer that belongs to what u has asked.
Own(u, by, command) == by = u /\ command = asked[u]

\* A user who began on a quiet link and has not timed out, and whom no other
\* user has joined, gets the answer to its own command, whole; late answers
\* do harm only until the device has caught up.
OwnAnswers ==
    \A u \in Users : ~Idle(u) /\ ~doubt[u] =>
        /\ \A i \in DOMAIN jobs : Own(u, jobs[i].by, jobs[i].command)
        /\ \A i \in DOMAIN input : Own(u, input[i].by, input[i].to)
        /\ Len(jobs) + Len(input) = 1
=============================================================================
