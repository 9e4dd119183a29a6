------------------------------- MODULE Shell -------------------------------
(***************************************************************************)
(* A session at a terminal: the keys and who reads them, the command that    *)
(* runs and what interrupts it, where reports go meanwhile, and the join     *)
(* window a command opens.                                                  *)
(*                                                                         *)
(* What is typed is Ctrl-C, or a line with the Enter that ends it: "enter"   *)
(* for an empty one.  What a line means is module Prompt; here a line of one *)
(* command is carried out.  The NCP carries out commands in the order they   *)
(* were sent, also one whose sender no longer waits.                        *)
(***************************************************************************)
EXTENDS Integers, Sequences

CONSTANTS
    Typeable,       \* what may be typed
    Targets,        \* interview --all asks this many devices
    KeySlots, SinkSlots,                \* sizes of the channels
    MaxKeys, MaxReports                 \* bounds

VARIABLES
    input, keys,    \* typed but not yet read; read by the pump: [key, during]
    eof,            \* the input has ended
    line,           \* the line that was read last: [key, during]
    phase, cmd,     \* prompt, running, stopping (the watch), over; and the command
    step, left,     \* where the command is, and the devices it has yet to ask
    stopped, ended, \* its context is cancelled; the session's is
    watching,       \* the watch takes keys
    ncp, window,    \* commands sent and not carried out, and what they made of it
    outcome,        \* of the last join: none, refused, shut, unanswered
    sink, lock,     \* reports for a command that prints them; who holds sinkMu
    reports, typed  \* reports yet to come; keys typed

shellVars == <<input, keys, eof, line, phase, cmd, step, left, stopped, ended, watching, ncp,
               window, outcome, sink, lock, reports, typed>>

termVars == <<input, keys, eof, line, typed>>
ncpVars == <<ncp, window, outcome>>
sinkVars == <<sink, lock, reports>>

None == "none"
noSink == [set |-> FALSE, queue |-> <<>>]

\* The commands that print reports, and those that Enter stops.
Printing == {"monitor", "join"}
stopsOnEnter == {"monitor", "join"}
Commands == {"read", "interview", "monitor", "join", "quit"}

-----------------------------------------------------------------------------
(***************************************************************************)
(* Keys.                                                                   *)
(***************************************************************************)
\* A person types; during is 0 at the prompt.
Type ==
    /\ phase # "over" /\ ~eof /\ typed < MaxKeys
    /\ \E k \in Typeable :
          input' = Append(input, [key |-> k, during |-> phase = "running"])
    /\ typed' = typed + 1
    /\ UNCHANGED <<keys, eof, line, phase, cmd, step, left, stopped, ended, watching, ncpVars, sinkVars>>

\* newKeyPump: waits while the channel is full; the end of the input comes after the keys.
Pump ==
    /\ input # <<>> /\ Len(keys) < KeySlots
    /\ keys' = Append(keys, Head(input)) /\ input' = Tail(input)
    /\ UNCHANGED <<eof, line, typed, phase, cmd, step, left, stopped, ended, watching, ncpVars, sinkVars>>

InputEnds ==
    /\ input = <<>> /\ ~eof /\ eof' = TRUE
    /\ UNCHANGED <<input, keys, line, typed, phase, cmd, step, left, stopped, ended, watching, ncpVars, sinkVars>>

\* The command is started, with a context of its own and a watch on the keys.
Start(c) ==
    /\ cmd' = c /\ phase' = "running"
    /\ step' = IF c \in Printing THEN "sink" ELSE "ask"
    /\ left' = IF c = "interview" THEN Targets ELSE 1
    /\ stopped' = ended /\ watching' = TRUE

\* ReadLine: Ctrl-C, as the end of the input, is the end of the session.  After a line the
\* context is looked at.
ReadLine ==
    /\ phase = "prompt" /\ keys # <<>>
    /\ line' = Head(keys) /\ keys' = Tail(keys)
    /\ IF line'.key \in Commands \ {"quit"} THEN Start(line'.key)
       ELSE /\ phase' = IF ended \/ line'.key \in {"interrupt", "quit"} THEN "over" ELSE "prompt"
            /\ UNCHANGED <<cmd, step, left, stopped, watching>>
    /\ UNCHANGED <<input, eof, typed, ended, ncpVars, sinkVars>>

ReadEnd ==
    /\ phase = "prompt" /\ keys = <<>> /\ eof
    /\ phase' = "over"
    /\ UNCHANGED <<termVars, cmd, step, left, stopped, ended, watching, ncpVars, sinkVars>>

\* What a running command makes of a key.
Hears(k) == k = "interrupt" \/ cmd \in stopsOnEnter

\* watch: takes each key, and discards it.
Watch ==
    /\ watching /\ keys # <<>>
    /\ stopped' = (stopped \/ Hears(Head(keys).key))
    /\ keys' = Tail(keys)
    /\ UNCHANGED <<input, eof, line, typed, phase, cmd, step, left, ended, watching, ncpVars, sinkVars>>

\* ... until the input has ended, or stop is called, even if there are keys: select picks
\* among what is ready.
WatchEnds ==
    /\ (watching /\ eof) \/ phase = "stopping"
    /\ watching' = FALSE
    /\ phase' = IF phase # "stopping" THEN phase ELSE IF ended THEN "over" ELSE "prompt"
    /\ UNCHANGED <<termVars, cmd, step, left, stopped, ended, ncpVars, sinkVars>>

\* SIGTERM cancels the session's context, and with it the command's.
Terminate ==
    /\ ~ended /\ phase # "over"
    /\ ended' = TRUE /\ stopped' = TRUE
    /\ UNCHANGED <<termVars, phase, cmd, step, left, watching, ncpVars, sinkVars>>

-----------------------------------------------------------------------------
(***************************************************************************)
(* Commands.                                                               *)
(***************************************************************************)
Running(c, s) == phase = "running" /\ cmd \in c /\ step = s

Goto(s) == step' = s /\ UNCHANGED <<phase, cmd, left, stopped, ended, watching>>

\* The deferred calls run, and stop is called.
Return == /\ phase' = "stopping" /\ step' = "done"
          /\ UNCHANGED <<cmd, left, stopped, ended, watching>>

\* runRead, or runInterview's next device: an answer, or a failure, which the timeout or the
\* cancelled context makes sure of.  Once cancelled, no further device is asked.
Ask ==
    /\ Running({"read", "interview"}, "ask")
    /\ IF left > 1 /\ ~stopped
       THEN left' = left - 1 /\ UNCHANGED <<phase, cmd, step, stopped, ended, watching>>
       ELSE Return
    /\ UNCHANGED <<termVars, ncpVars, sinkVars>>

\* setSinks, on the way in.
SetSink ==
    /\ Running(Printing, "sink") /\ lock = None
    /\ sink' = [set |-> TRUE, queue |-> <<>>]
    /\ Goto(IF cmd = "join" THEN "permit" ELSE "print")
    /\ UNCHANGED <<termVars, ncpVars, lock, reports>>

\* What monitor and join do with a report.
ShowReport ==
    /\ Running(Printing, "print") /\ sink.queue # <<>>
    /\ sink' = [sink EXCEPT !.queue = Tail(@)]
    /\ UNCHANGED <<termVars, phase, cmd, step, left, stopped, ended, watching, ncpVars, lock, reports>>

\* The context, or monitor's -for and join's deadline, if they come to that.
Cancelled ==
    /\ Running(Printing, "print") /\ stopped
    /\ Goto(IF cmd = "join" THEN "close" ELSE "unsink")
    /\ UNCHANGED <<termVars, ncpVars, sinkVars>>

Elapse ==
    /\ Running(Printing, "print")
    /\ Goto(IF cmd = "join" THEN "close" ELSE "unsink")
    /\ UNCHANGED <<termVars, ncpVars, sinkVars>>

UnsetSink ==
    /\ Running(Printing, "unsink") /\ lock = None
    /\ sink' = noSink /\ Return
    /\ UNCHANGED <<termVars, ncpVars, lock, reports>>

\* PermitJoin: it looks at the network and sets the policy first, and may fail in either, or
\* because the context was cancelled before anything was sent.
PermitJoin ==
    /\ Running({"join"}, "permit")
    /\ \/ ~stopped /\ ncp' = Append(ncp, "open") /\ Goto("permitting") /\ UNCHANGED outcome
       \/ Goto("unsink") /\ outcome' = "refused" /\ UNCHANGED ncp
    /\ UNCHANGED <<termVars, window, sinkVars>>

\* It returns with the NCP's answer, or without it once the context is cancelled.
Permitted ==
    /\ Running({"join"}, "permitting")
    /\ \/ ncp = <<>> /\ Goto("print") /\ UNCHANGED outcome
       \/ stopped /\ Goto("unsink") /\ outcome' = "refused"
    /\ UNCHANGED <<termVars, ncp, window, sinkVars>>

\* Mutant of CanClose: with the context of the command.
CanCloseInTime == ~stopped

\* closeJoinWindow's context is its own.
CanClose == TRUE

closeJoinWindow ==
    /\ Running({"join"}, "close")
    /\ IF CanClose THEN ncp' = Append(ncp, "shut") /\ Goto("closing") /\ UNCHANGED outcome
       ELSE Goto("unsink") /\ outcome' = "shut" /\ UNCHANGED ncp
    /\ UNCHANGED <<termVars, window, sinkVars>>

\* The answer, or three seconds without one and a warning.
Closed ==
    /\ Running({"join"}, "closing")
    /\ outcome' = IF ncp = <<>> THEN "shut" ELSE "unanswered"
    /\ Goto("unsink")
    /\ UNCHANGED <<termVars, ncp, window, sinkVars>>

\* The NCP (external) carries out a command, and shuts the window when its time is over.
Ncp ==
    /\ ncp # <<>> /\ ncp' = Tail(ncp)
    /\ window' = IF Head(ncp) = "open" THEN "open" ELSE "closed"
    /\ UNCHANGED <<termVars, phase, cmd, step, left, stopped, ended, watching, outcome, sinkVars>>

WindowElapses ==
    /\ window = "open" /\ window' = "closed"
    /\ UNCHANGED <<termVars, phase, cmd, step, left, stopped, ended, watching, ncp, outcome, sinkVars>>

-----------------------------------------------------------------------------
(***************************************************************************)
(* The loop that listens takes sinkMu, and offers a report without waiting.  *)
(***************************************************************************)
Listen ==
    /\ reports > 0 /\ lock = None /\ phase # "over"
    /\ lock' = "listen" /\ reports' = reports - 1
    /\ UNCHANGED <<termVars, phase, cmd, step, left, stopped, ended, watching, ncpVars, sink>>

\* Mutant of Offer: it waits for room.
OfferWaiting(q) == IF Len(q) < SinkSlots THEN {Append(q, "report")} ELSE {}

\* A report for which there is no room is not printed.
Offer(q) == IF Len(q) < SinkSlots THEN {Append(q, "report")} ELSE {q}

Deliver ==
    /\ lock = "listen"
    /\ IF sink.set THEN \E q \in Offer(sink.queue) : sink' = [sink EXCEPT !.queue = q]
       ELSE UNCHANGED sink
    /\ lock' = None
    /\ UNCHANGED <<termVars, phase, cmd, step, left, stopped, ended, watching, ncpVars, reports>>

ShellInit ==
    /\ input = <<>> /\ keys = <<>> /\ eof = FALSE /\ line = [key |-> None, during |-> FALSE] /\ typed = 0
    /\ phase = "prompt" /\ cmd = None /\ step = "done" /\ left = 0
    /\ stopped = FALSE /\ ended = FALSE /\ watching = FALSE
    /\ ncp = <<>> /\ window = "closed" /\ outcome = None
    /\ sink = noSink /\ lock = None /\ reports = MaxReports

\* What goes on by itself, once it is possible: goroutines, timeouts and the NCP.
Command == Ask \/ SetSink \/ Cancelled \/ UnsetSink \/ PermitJoin \/ Permitted \/ closeJoinWindow \/ Closed
Goes == Pump \/ Watch \/ WatchEnds \/ Command \/ Ncp \/ Deliver

ShellNext == Goes \/ Type \/ InputEnds \/ ReadLine \/ ReadEnd \/ Terminate \/ ShowReport \/ Elapse \/ WindowElapses \/ Listen

-----------------------------------------------------------------------------
(***************************************************************************)
(* Properties                                                              *)
(***************************************************************************)
\* A join that opened the window and was told that it is shut has left nothing that opens it
\* again, an earlier join's request that nobody waits for any more included, however it was
\* interrupted (closeJoinWindow and its comment).
WindowShut ==
    outcome = "shut" /\ ~(cmd = "join" /\ phase = "running" /\ step \in {"permitting", "print", "close", "closing"})
        => window = "closed" /\ ncp = <<>>

\* Ctrl-C, and Enter where it stops a command, brings the prompt back while the input lasts,
\* whatever the command waits for and however many reports arrive (run, watch, setSinks).
Stop == \E i \in DOMAIN input : input[i].during /\ Hears(input[i].key)
PromptReturns == (phase = "running" /\ Stop) ~> (phase \in {"prompt", "over"} \/ eof)

\* However runJoin exits, the window is not left open, unless the NCP did not answer the
\* closing of it (the comment in runJoin).
WindowNotLeft ==
    phase # "running" /\ outcome # "unanswered" => window = "closed" /\ ncp = <<>>

\* What is typed while a command runs is not queued for the next prompt (the comment on watch).
KeysDiscarded == ~line.during
=============================================================================
