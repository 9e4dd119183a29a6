---------------------------- MODULE Coordinator -----------------------------
(***************************************************************************)
(* The life of a zigbee.Coordinator: Readings, Joins and Close, which run   *)
(* on goroutines of their own and meet in c.mu, in the subscriptions of the *)
(* ezsp.Conn below, and in the channels they hand to the application.       *)
(*                                                                         *)
(* Of the connection below this uses what EzspConn shows: route never       *)
(* blocks and drops what a full channel cannot take, Close returns and      *)
(* closes the channel of every subscription there is, commands on a closed  *)
(* connection return, and a subscription made after Close is registered and *)
(* never closed.  Messages are counted: what they say is Registry's part.   *)
(***************************************************************************)
EXTENDS Naturals, FiniteSets

CONSTANTS
    Loops,          \* calls of Readings
    Watchers,       \* calls of Joins
    Closers,        \* calls of Close
    Mixes,          \* the calls made in one behaviour: a set of sets
    Cap,            \* capacity of a channel: 128, 32, or Joins' buffer
    MaxMessages,    \* bound: callbacks delivered to each subscription
    MaxReadings,    \* bound: readings in one message
    None

ASSUME CoordinatorAssumption ==
    /\ Cap \in Nat \ {0} /\ MaxMessages \in Nat /\ MaxReadings \in Nat \ {0}
    /\ None \notin Loops /\ Mixes \subseteq SUBSET (Loops \cup Watchers \cup Closers)

VARIABLES
    closed,         \* c.closed
    connOpen,       \* the ezsp.Conn below
    readingsActive, readingsDone,
    loop,           \* the Readings goroutines
    watch,          \* the Joins goroutines, with WatchJoins' below them
    closer,         \* the Close calls
    unsaved         \* whether the registry holds readings its file lacks

vars == <<closed, connOpen, readingsActive, readingsDone, loop, watch, closer, unsaved>>

(***************************************************************************)
(* A loop is a Readings call: pc, its subscription (msgs, closed), its      *)
(* readings still to hand over, its out channel and the application         *)
(* reading it.  done is the channel Close waits for.                        *)
(***************************************************************************)
IdleLoop == [pc |-> "idle", msgs |-> 0, sub |-> "none", left |-> MaxMessages,
             pending |-> 0, out |-> 0, outClosed |-> FALSE, done |-> FALSE,
             ctxDone |-> FALSE, reading |-> TRUE]

(***************************************************************************)
(* A watch is a Joins call: its two subscriptions (sub, and stack for the   *)
(* window events), WatchJoins' channel (mid), the public channel (holding   *)
(* out arrivals and windows window events); owed counts, as history, the    *)
(* arrivals passed on and not yet recorded.                                 *)
(***************************************************************************)
IdleWatch == [pc |-> "idle", msgs |-> 0, sub |-> "none", stack |-> "none", left |-> MaxMessages,
              mid |-> 0, midClosed |-> FALSE, owed |-> 0, out |-> 0, outClosed |-> FALSE,
              windowMsgs |-> 0, windows |-> 0]

Init ==
    /\ closed = FALSE
    /\ connOpen = TRUE
    /\ readingsActive = FALSE
    /\ readingsDone = None
    /\ \E mix \in Mixes :
          /\ loop = [l \in Loops |->
                       [IdleLoop EXCEPT !.pc = IF l \in mix THEN "idle" ELSE "unused"]]
          /\ watch = [w \in Watchers |->
                       [IdleWatch EXCEPT !.pc = IF w \in mix THEN "idle" ELSE "unused"]]
          /\ closer = [k \in Closers |->
                         [pc |-> IF k \in mix THEN "idle" ELSE "unused", waitFor |-> None]]
    /\ unsaved = FALSE

coordinator == <<closed, connOpen, readingsActive, readingsDone, closer>>

(***************************************************************************)
(* Readings                                                                *)
(***************************************************************************)
\* Mutant of MayStart: a second call is not refused.
MayStartAlways == ~closed

\* Whether Readings starts a loop.
MayStart == ~closed /\ ~readingsActive

\* Readings: under c.mu, refused, or subscribed before the goroutine starts.
Readings(l) ==
    /\ loop[l].pc = "idle"
    /\ IF MayStart
       THEN /\ readingsActive' = TRUE
            /\ readingsDone' = l
            /\ loop' = [loop EXCEPT ![l].pc = "starting", ![l].sub = "open"]
       ELSE /\ loop' = [loop EXCEPT ![l].pc = "refused", ![l].outClosed = TRUE]
            /\ UNCHANGED <<readingsActive, readingsDone>>
    /\ UNCHANGED <<closed, connOpen, closer, watch, unsaved>>

\* The network state is read: joined, or an error that ends the loop.
LoopStart(l) ==
    /\ loop[l].pc = "starting"
    /\ \/ connOpen /\ ~loop[l].ctxDone /\ loop' = [loop EXCEPT ![l].pc = "select"]
       \/ loop' = [loop EXCEPT ![l].pc = "ending"]
    /\ UNCHANGED <<coordinator, watch, unsaved>>

\* A message is handled: malformed, nothing to record, or readings, which the
\* registry has before the application sees them.
LoopTake(l) ==
    /\ loop[l].pc = "select"
    /\ loop[l].msgs > 0
    /\ \E n \in 0..MaxReadings :
          /\ loop' = [loop EXCEPT ![l].msgs = @ - 1, ![l].pending = n,
                                  ![l].pc = IF n = 0 THEN "select" ELSE "sending"]
          /\ unsaved' = (unsaved \/ n > 0)
    /\ UNCHANGED <<coordinator, watch>>

\* out <- reading, which waits for room.
LoopSend(l) ==
    /\ loop[l].pc = "sending"
    /\ loop[l].out < Cap
    /\ loop' = [loop EXCEPT ![l].out = @ + 1, ![l].pending = @ - 1,
                            ![l].pc = IF loop[l].pending = 1 THEN "select" ELSE "sending"]
    /\ UNCHANGED <<coordinator, watch, unsaved>>

\* ctx.Done, while waiting for a message or for room.
LoopCancelled(l) ==
    /\ loop[l].pc \in {"select", "sending"}
    /\ loop[l].ctxDone
    /\ loop' = [loop EXCEPT ![l].pc = "saving"]
    /\ UNCHANGED <<coordinator, watch, unsaved>>

LoopSave(l) ==
    /\ loop[l].pc = "saving"
    /\ loop' = [loop EXCEPT ![l].pc = "ending"]
    /\ unsaved' \in {FALSE, unsaved}      \* saved, or an error on errs
    /\ UNCHANGED <<coordinator, watch>>

\* The subscription's channel is closed and empty.
LoopClosed(l) ==
    /\ loop[l].pc = "select"
    /\ loop[l].msgs = 0
    /\ loop[l].sub = "closed"
    /\ loop' = [loop EXCEPT ![l].pc = "ending"]
    /\ UNCHANGED <<coordinator, watch, unsaved>>

\* Mutant of LoopEnd: the next call may start, but done is not closed.
LoopEndSilent(l) ==
    /\ loop[l].pc = "ending"
    /\ loop' = [loop EXCEPT ![l].pc = "unsubscribing"]
    /\ readingsActive' = FALSE
    /\ readingsDone' = None
    /\ UNCHANGED <<closed, connOpen, closer, watch, unsaved>>

\* The deferred calls, last first: c.mu's state and done ...
LoopEnd(l) ==
    /\ loop[l].pc = "ending"
    /\ loop' = [loop EXCEPT ![l].pc = "unsubscribing", ![l].done = TRUE]
    /\ readingsActive' = FALSE
    /\ readingsDone' = None
    /\ UNCHANGED <<closed, connOpen, closer, watch, unsaved>>

\* ... then the subscription, and the channels.
LoopUnsubscribe(l) ==
    /\ loop[l].pc = "unsubscribing"
    /\ loop' = [loop EXCEPT ![l].pc = "ended", ![l].sub = "closed", ![l].outClosed = TRUE]
    /\ UNCHANGED <<coordinator, watch, unsaved>>

\* The connection delivers a callback, or drops it.
DeliverReport(l) ==
    /\ connOpen
    /\ loop[l].sub = "open"
    /\ loop[l].left > 0
    /\ loop' = [loop EXCEPT ![l].left = @ - 1,
                            ![l].msgs = IF loop[l].msgs < Cap THEN @ + 1 ELSE @]
    /\ UNCHANGED <<coordinator, watch, unsaved>>

\* The application: it reads, gives up reading, cancels its context.
ConsumeReading(l) ==
    /\ loop[l].reading
    /\ loop[l].out > 0
    /\ loop' = [loop EXCEPT ![l].out = @ - 1]
    /\ UNCHANGED <<coordinator, watch, unsaved>>

StopReading(l) ==
    /\ loop[l].reading
    /\ loop' = [loop EXCEPT ![l].reading = FALSE]
    /\ UNCHANGED <<coordinator, watch, unsaved>>

CancelContext(l) ==
    /\ loop[l].pc \notin {"idle", "unused", "refused"}
    /\ ~loop[l].ctxDone
    /\ loop' = [loop EXCEPT ![l].ctxDone = TRUE]
    /\ UNCHANGED <<coordinator, watch, unsaved>>

(***************************************************************************)
(* Joins                                                                   *)
(***************************************************************************)
\* checkOpen, and only then the two subscriptions, without c.mu.
JoinsCheck(w) ==
    /\ watch[w].pc = "idle"
    /\ watch' = [watch EXCEPT ![w].pc = IF closed THEN "refused" ELSE "checked",
                              ![w].outClosed = closed]
    /\ UNCHANGED <<coordinator, loop, unsaved>>

JoinsWatch(w) ==
    /\ watch[w].pc = "checked"
    /\ watch' = [watch EXCEPT ![w].pc = "watching", ![w].sub = "open"]
    /\ UNCHANGED <<coordinator, loop, unsaved>>

JoinsSubscribe(w) ==
    /\ watch[w].pc = "watching"
    /\ watch' = [watch EXCEPT ![w].pc = "select", ![w].stack = "open"]
    /\ UNCHANGED <<coordinator, loop, unsaved>>

\* The connection delivers a join callback, or drops it: the registry never
\* hears of a dropped one.
DeliverJoin(w) ==
    /\ connOpen
    /\ watch[w].sub = "open"
    /\ watch[w].left > 0
    /\ watch' = [watch EXCEPT ![w].left = @ - 1,
                              ![w].msgs = IF watch[w].msgs < Cap THEN @ + 1 ELSE @]
    /\ UNCHANGED <<coordinator, loop, unsaved>>

\* The connection delivers a stack status: the window opened or closed.
DeliverWindow(w) ==
    /\ connOpen
    /\ watch[w].stack = "open"
    /\ watch[w].left > 0
    /\ watch' = [watch EXCEPT ![w].left = @ - 1,
                              ![w].windowMsgs = IF watch[w].windowMsgs < Cap THEN @ + 1 ELSE @]
    /\ UNCHANGED <<coordinator, loop, unsaved>>

\* WatchJoins' goroutine: decode, and pass on or drop.
WatchTake(w) ==
    /\ watch[w].msgs > 0
    /\ \/ watch' = [watch EXCEPT ![w].msgs = @ - 1]   \* malformed, no arrival, or no room
       \/ /\ watch[w].mid < Cap
          /\ watch' = [watch EXCEPT ![w].msgs = @ - 1, ![w].mid = @ + 1, ![w].owed = @ + 1]
    /\ UNCHANGED <<coordinator, loop, unsaved>>

WatchEnds(w) ==
    /\ watch[w].msgs = 0
    /\ watch[w].sub = "closed"
    /\ ~watch[w].midClosed
    /\ watch' = [watch EXCEPT ![w].midClosed = TRUE]
    /\ UNCHANGED <<coordinator, loop, unsaved>>

\* sendJoin: an event is dropped when the application is slow.
RoomInOut(w) == watch[w].out + watch[w].windows < Cap

\* Mutant of JoinsTake: an event the application has no room for is dropped at once.
JoinsTakeIfRoom(w) ==
    /\ watch[w].pc = "select"
    /\ watch[w].mid > 0
    /\ watch' = [watch EXCEPT ![w].mid = @ - 1, ![w].pc = IF RoomInOut(w) THEN "recording" ELSE "select"]
    /\ UNCHANGED <<coordinator, loop, unsaved>>

\* Joins' goroutine takes an event,
JoinsTake(w) ==
    /\ watch[w].pc = "select"
    /\ watch[w].mid > 0
    /\ watch' = [watch EXCEPT ![w].mid = @ - 1, ![w].pc = "recording"]
    /\ UNCHANGED <<coordinator, loop, unsaved>>

\* records it in the registry, which recordJoin saves at once (or reports),
JoinsRecord(w) ==
    /\ watch[w].pc = "recording"
    /\ watch' = [watch EXCEPT ![w].pc = "showing", ![w].owed = @ - 1]
    /\ unsaved' \in {FALSE, unsaved}
    /\ UNCHANGED <<coordinator, loop>>

\* and shows it, or drops it when the application is slow.
JoinsShow(w) ==
    /\ watch[w].pc = "showing"
    /\ watch' = [watch EXCEPT ![w].pc = "select",
                              ![w].out = IF RoomInOut(w) THEN @ + 1 ELSE @]
    /\ UNCHANGED <<coordinator, loop, unsaved>>

\* A window event is shown, or dropped.
JoinsWindow(w) ==
    /\ watch[w].pc = "select"
    /\ watch[w].windowMsgs > 0
    /\ watch' = [watch EXCEPT ![w].windowMsgs = @ - 1,
                              ![w].windows = IF RoomInOut(w) THEN @ + 1 ELSE @]
    /\ UNCHANGED <<coordinator, loop, unsaved>>

\* All three channels have been closed and drained.
JoinsEnds(w) ==
    /\ watch[w].pc = "select"
    /\ watch[w].midClosed /\ watch[w].mid = 0
    /\ watch[w].stack = "closed" /\ watch[w].windowMsgs = 0
    /\ watch' = [watch EXCEPT ![w].pc = "ended", ![w].outClosed = TRUE]
    /\ UNCHANGED <<coordinator, loop, unsaved>>

\* Both subscriptions' channels are closed.
Unsubscribed(w) == [watch EXCEPT ![w].sub = "closed", ![w].stack = "closed"]

\* The application cancels the watch, once Joins has returned it.
CancelJoins(w) ==
    /\ watch[w].pc \in {"select", "recording", "showing"}
    /\ watch[w].sub = "open" \/ watch[w].stack = "open"
    /\ watch' = Unsubscribed(w)
    /\ UNCHANGED <<coordinator, loop, unsaved>>

ConsumeJoin(w) ==
    /\ watch[w].out > 0
    /\ watch' = [watch EXCEPT ![w].out = @ - 1]
    /\ UNCHANGED <<coordinator, loop, unsaved>>

ConsumeWindow(w) ==
    /\ watch[w].windows > 0
    /\ watch' = [watch EXCEPT ![w].windows = @ - 1]
    /\ UNCHANGED <<coordinator, loop, unsaved>>

(***************************************************************************)
(* Close                                                                   *)
(***************************************************************************)
Close(k) ==
    /\ closer[k].pc = "idle"
    /\ closed' = TRUE
    /\ closer' = [closer EXCEPT ![k] = IF closed THEN [pc |-> "nothing", waitFor |-> None]
                                       ELSE [pc |-> "conn", waitFor |-> readingsDone]]
    /\ UNCHANGED <<connOpen, readingsActive, readingsDone, loop, watch, unsaved>>

\* ezsp.Conn.Close: every subscription there is ends.
CloseConn(k) ==
    /\ closer[k].pc = "conn"
    /\ connOpen' = FALSE
    /\ loop' = [l \in Loops |->
                  [loop[l] EXCEPT !.sub = IF @ = "open" THEN "closed" ELSE @]]
    /\ watch' = [w \in Watchers |->
                  [watch[w] EXCEPT !.sub = IF @ = "open" THEN "closed" ELSE @,
                                   !.stack = IF @ = "open" THEN "closed" ELSE @]]
    /\ closer' = [closer EXCEPT ![k].pc = "wait"]
    /\ UNCHANGED <<closed, readingsActive, readingsDone, unsaved>>

\* Mutant of CloseWait: Close does not wait for the loop.
CloseUnwaited(k) ==
    /\ closer[k].pc = "wait"
    /\ closer' = [closer EXCEPT ![k].pc = "save"]
    /\ UNCHANGED <<closed, connOpen, readingsActive, readingsDone, loop, watch, unsaved>>

\* <-readingsDone
CloseWait(k) ==
    /\ closer[k].pc = "wait"
    /\ closer[k].waitFor # None => loop[closer[k].waitFor].done
    /\ closer' = [closer EXCEPT ![k].pc = "save"]
    /\ UNCHANGED <<closed, connOpen, readingsActive, readingsDone, loop, watch, unsaved>>

CloseSave(k) ==
    /\ closer[k].pc = "save"
    /\ \/ closer' = [closer EXCEPT ![k].pc = "saved"] /\ unsaved' = FALSE
       \/ closer' = [closer EXCEPT ![k].pc = "failed"] /\ UNCHANGED unsaved
    /\ UNCHANGED <<closed, connOpen, readingsActive, readingsDone, loop, watch>>

(***************************************************************************)
(* The specification.  Goroutines keep running, and an application that     *)
(* has not stopped reading reads on.                                        *)
(***************************************************************************)
LoopStep(l) ==
    \/ LoopStart(l) \/ LoopTake(l) \/ LoopSend(l) \/ LoopCancelled(l) \/ LoopSave(l)
    \/ LoopClosed(l) \/ LoopEnd(l) \/ LoopUnsubscribe(l)

WatchStep(w) == WatchTake(w) \/ WatchEnds(w)

JoinsStep(w) ==
    \/ JoinsWatch(w) \/ JoinsSubscribe(w) \/ JoinsTake(w) \/ JoinsRecord(w) \/ JoinsShow(w)
    \/ JoinsWindow(w) \/ JoinsEnds(w)

CloseStep(k) == CloseConn(k) \/ CloseWait(k) \/ CloseSave(k)

Next ==
    \/ \E l \in Loops :
          \/ Readings(l) \/ LoopStep(l) \/ DeliverReport(l)
          \/ ConsumeReading(l) \/ StopReading(l) \/ CancelContext(l)
    \/ \E w \in Watchers :
          \/ JoinsCheck(w) \/ DeliverJoin(w) \/ DeliverWindow(w) \/ WatchStep(w) \/ JoinsStep(w)
          \/ CancelJoins(w) \/ ConsumeJoin(w) \/ ConsumeWindow(w)
    \/ \E k \in Closers : Close(k) \/ CloseStep(k)

Spec == Init /\ [][Next]_vars

(***************************************************************************)
(* Goroutines that can run do, an application that has not stopped reading  *)
(* reads on, and the connection below closes (EzspConn's CallsReturn).      *)
(***************************************************************************)
Fairness ==
    /\ \A l \in Loops : WF_vars(LoopStep(l)) /\ WF_vars(ConsumeReading(l))
    /\ \A w \in Watchers : WF_vars(WatchStep(w)) /\ WF_vars(JoinsStep(w))
    /\ \A k \in Closers : WF_vars(CloseStep(k))

LiveSpec == Spec /\ Fairness

(***************************************************************************)
(* Properties                                                              *)
(***************************************************************************)

\* Frames and service requests are handled once: no two Readings loops take
\* messages, however calls, cancellations and Close interleave.
OneLoop ==
    Cardinality({l \in Loops : loop[l].pc \in {"starting", "select", "sending", "saving"}}) <= 1

\* When the Close that found the session open has returned nil, every reading the
\* loop recorded is in the file, and stays so: it waited for the loop, and nothing
\* is recorded after the save.  Any other Close returns nil at once and promises
\* nothing.
SavedAtClose == (\E k \in Closers : closer[k].pc = "saved") => ~unsaved

\* An application has stopped reading the channel a loop is sending on, and has
\* not cancelled its context.
Stalled == \E l \in Loops : ~loop[l].reading /\ ~loop[l].ctxDone

\* An arrival WatchJoins passed on is recorded before the watch is over, although it may never
\* be shown: the application is slow, has cancelled, or the coordinator closes (Joins, sendJoin).
ArrivalsRecorded == \A w \in Watchers : watch[w].pc = "ended" => watch[w].owed = 0

\* Everybody is let go.  Unless an application has stopped reading, a condition that the
\* comment in readings.go does not make, Close returns, and the channels of Readings close
\* when the coordinator closes; those of Joins close when cancel is called, under none.
CallsReturn ==
    /\ \A k \in Closers :
          closer[k].pc = "conn" ~> closer[k].pc \in {"saved", "failed"} \/ Stalled
    /\ \A l \in Loops :
          (closed /\ loop[l].pc \notin {"idle", "unused"}) ~> loop[l].outClosed \/ Stalled
    /\ \A w \in Watchers : (connOpen /\ watch[w].sub = "closed") ~> watch[w].outClosed
=============================================================================
