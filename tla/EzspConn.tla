----------------------------- MODULE EzspConn -----------------------------
(***************************************************************************)
(* The command and event layer of internal/ezsp/conn.go, once the version  *)
(* is negotiated: one command at a time (cmdMu), the read pump that routes *)
(* replies to it and callbacks to subscribers, subscriptions, and Close.   *)
(*                                                                         *)
(* The ASH link below is StopAndWait, the specification AshLink is proved  *)
(* to implement: ash.Conn.Send offers a payload, the NCP may accept it, an *)
(* earlier abandoned one instead, or none, and Send returns nil or an      *)
(* error.  Towards the host the link hands payloads over in order and      *)
(* drops them when dataCh is full (AshLink's ReceivedInOrder).             *)
(*                                                                         *)
(* The n-th command is the number n; so is its reply.  The n-th callback   *)
(* is the number n.                                                        *)
(***************************************************************************)
EXTENDS Integers, Sequences, FiniteSets

CONSTANTS
    SeqMod,       \* commands are numbered modulo this (256: seq is a uint8)
    Ids,          \* the frame IDs commands use
    Kinds,        \* the frame IDs of callbacks
    Subs,         \* subscriptions
    Interest,     \* Interest[s]: the callbacks s's match function accepts
    DataCap,      \* capacity of ash's dataCh (64)
    SubCap,       \* capacity of a subscription's channel
    MaxCalls,     \* bound: how many commands are issued
    MaxFailures,  \* bound: how many commands in a row fail
    MaxCallbacks  \* bound: how many callbacks the NCP sends

ASSUME EzspAssumption ==
    /\ SeqMod \in Nat \ {0} /\ DataCap \in Nat \ {0} /\ SubCap \in Nat \ {0}
    /\ MaxCalls \in Nat /\ MaxCallbacks \in Nat
    /\ MaxFailures \in Nat /\ MaxFailures < SeqMod
    /\ IsFiniteSet(Subs) /\ Interest \in [Subs -> SUBSET Kinds]
    /\ "reply" \notin Kinds

VARIABLES
    \* the command that holds cmdMu
    cmd,        \* "free", "send" (in link.Send), "wait", "return"
    reply,      \* the one-slot channel c.pending points to while cmd # "free"
    ids,        \* ids[n]: frame ID of command n
    \* the link: commands offered to it, accepted by the NCP, reported as sent
    offered, accepted, confirmed,
    served,     \* how many accepted commands the NCP is done with
    data,       \* dataCh: what the link has handed over
    link,       \* "up", or "gone" once closed or lost
    \* the read pump
    pump, held,
    \* subscriptions
    used,       \* Subscribe has been called
    subs,       \* the ones in the map c.subs
    closes,     \* closes[s]: how often the channel of s was closed
    feed,       \* feed[s]: every callback ever put into the channel of s
    unread,     \* unread[s]: how many of them are still in the channel
    \* Close
    closed, closer,
    \* counters and history
    kinds,      \* kinds[n]: frame ID of callback n
    dropData,   \* messages dropped on a full dataCh
    dropSub,    \* droppedSubscription
    results,    \* <<n, m>>: command n returned the parameters of m's reply
    lastOk,     \* the last command that returned a result
    failed,     \* commands that returned an error
    lost        \* commands in flight whose reply was routed elsewhere

linkVars == <<offered, accepted, confirmed>>
cmdVars == <<cmd, ids, results, lastOk, failed>>
pumpVars == <<pump, held>>
subVars == <<used, subs, closes, feed, unread>>
ncpVars == <<served, kinds, dropData>>
vars == <<cmdVars, reply, linkVars, ncpVars, data, link, pumpVars, subVars, closed,
          closer, dropSub, lost>>

Link == INSTANCE StopAndWait

Message == [kind: Kinds \cup {"reply"}, n: Nat]
Reply(n) == [kind |-> "reply", n |-> n]
Callback(k, n) == [kind |-> k, n |-> n]

\* The sequence number command n was sent with.
Sequence(n) == (n - 1) % SeqMod

Init ==
    /\ cmd = "free" /\ reply = <<>> /\ ids = <<>>
    /\ Link!Init
    /\ served = 0 /\ data = <<>> /\ link = "up"
    /\ pump = "read" /\ held = Reply(0)
    /\ used = {} /\ subs = {}
    /\ closes = [s \in Subs |-> 0]
    /\ feed = [s \in Subs |-> <<>>] /\ unread = [s \in Subs |-> 0]
    /\ closed = FALSE /\ closer = "none"
    /\ kinds = <<>> /\ dropData = 0 /\ dropSub = 0
    /\ results = {} /\ lastOk = 0 /\ failed = {} /\ lost = {}

-----------------------------------------------------------------------------
(***************************************************************************)
(* command.  After Close it returns ErrClosed and changes nothing.         *)
(***************************************************************************)
CommandStart ==
    /\ cmd = "free" /\ ~closed
    /\ offered < MaxCalls /\ offered - lastOk <= MaxFailures
    /\ Link!Offer
    /\ \E id \in Ids : ids' = Append(ids, id)
    /\ reply' = <<>>
    /\ cmd' = "send"
    /\ UNCHANGED <<results, lastOk, failed, ncpVars, data, link, pumpVars, subVars, closed,
                   closer, dropSub, lost>>

SendOk ==
    /\ cmd = "send"
    /\ Link!Confirm
    /\ cmd' = "wait"
    /\ UNCHANGED <<reply, ids, results, lastOk, failed, ncpVars, data, link, pumpVars, subVars,
                   closed, closer, dropSub, lost>>

\* The command returns an error: link.Send failed, the wait timed out or was
\* cancelled, or the read pump has ended.
Fail ==
    /\ cmd' = "return"
    /\ failed' = failed \cup {offered}
    /\ UNCHANGED <<reply, ids, results, lastOk, linkVars, ncpVars, data, link, pumpVars,
                   subVars, closed, closer, dropSub, lost>>

SendFails == cmd = "send" /\ Fail

\* Mutant: the wait has no timer of its own.
WaitEndsUntimed == cmd = "wait" /\ pump = "done" /\ Fail

WaitEnds == cmd = "wait" /\ Fail

\* Mutant: a reply is recognised by its frame ID alone.
MatchesId(msg, n) == msg.kind = "reply" /\ ids[msg.n] = ids[n]

MatchesResponse(msg, n) ==
    msg.kind = "reply" /\ Sequence(msg.n) = Sequence(n) /\ ids[msg.n] = ids[n]

WaitReply ==
    /\ cmd = "wait"
    /\ reply # <<>>
    /\ reply' = <<>>
    /\ LET msg == Head(reply) IN
       \/ /\ MatchesResponse(msg, offered)
          /\ results' = results \cup {<<offered, msg.n>>}
          /\ lastOk' = offered
          /\ cmd' = "return"
       \/ /\ ~MatchesResponse(msg, offered)
          /\ UNCHANGED <<results, lastOk, cmd>>
    /\ UNCHANGED <<ids, failed, linkVars, ncpVars, data, link, pumpVars, subVars, closed,
                   closer, dropSub, lost>>

\* The deferred function: c.pending = nil, then cmdMu is released.
CommandReturn ==
    /\ cmd = "return"
    /\ cmd' = "free"
    /\ reply' = <<>>
    /\ UNCHANGED <<ids, results, lastOk, failed, linkVars, ncpVars, data, link, pumpVars,
                   subVars, closed, closer, dropSub, lost>>

-----------------------------------------------------------------------------
(***************************************************************************)
(* The NCP and the link (external).  The NCP answers the commands it       *)
(* accepted in order, late or not at all, and sends callbacks at any time. *)
(***************************************************************************)
HandOver(msg) ==
    IF Len(data) < DataCap
    THEN data' = Append(data, msg) /\ UNCHANGED dropData
    ELSE dropData' = dropData + 1 /\ UNCHANGED data

NcpAccept ==
    /\ link = "up"
    /\ Link!Accept
    /\ UNCHANGED <<cmdVars, reply, ncpVars, data, link, pumpVars, subVars, closed, closer,
                   dropSub, lost>>

NcpServe ==
    /\ link = "up"
    /\ served < Len(accepted)
    /\ served' = served + 1
    /\ \/ HandOver(Reply(accepted[served + 1]))
       \/ UNCHANGED <<data, dropData>>
    /\ UNCHANGED <<cmdVars, reply, linkVars, kinds, link, pumpVars, subVars, closed, closer,
                   dropSub, lost>>

NcpCallback ==
    /\ link = "up"
    /\ Len(kinds) < MaxCallbacks
    /\ \E k \in Kinds :
          /\ kinds' = Append(kinds, k)
          /\ HandOver(Callback(k, Len(kinds) + 1))
    /\ UNCHANGED <<cmdVars, reply, linkVars, served, link, pumpVars, subVars, closed, closer,
                   dropSub, lost>>

LinkLost ==
    /\ link = "up"
    /\ link' = "gone"
    /\ UNCHANGED <<cmdVars, reply, linkVars, ncpVars, data, pumpVars, subVars, closed, closer,
                   dropSub, lost>>

-----------------------------------------------------------------------------
(***************************************************************************)
(* readPump and route.  A closed dataCh still yields what it holds.        *)
(***************************************************************************)
PumpTake ==
    /\ pump = "read"
    /\ data # <<>>
    /\ held' = Head(data) /\ data' = Tail(data)
    /\ pump' = "route"
    /\ UNCHANGED <<cmdVars, reply, linkVars, ncpVars, link, subVars, closed, closer, dropSub,
                   lost>>

Pending == cmd # "free"

\* Mutant: callbacks are taken for replies.
ForCommandAny(msg) == Pending /\ reply = <<>>

ForCommand(msg) == msg.kind = "reply" /\ Pending /\ reply = <<>>

RouteReply ==
    /\ pump = "route"
    /\ ForCommand(held)
    /\ reply' = <<held>>
    /\ pump' = "read"
    /\ UNCHANGED <<cmdVars, linkVars, ncpVars, data, link, held, subVars, closed, closer,
                   dropSub, lost>>

\* Everything else goes to the subscriptions that match, without waiting for room.
Matching(msg) == {s \in subs : msg.kind \in Interest[s]}

HasRoom(s) == unread[s] < SubCap

RouteEvent ==
    /\ pump = "route"
    /\ ~ForCommand(held)
    /\ LET takers == {s \in Matching(held) : HasRoom(s)} IN
       /\ feed' = [s \in Subs |-> IF s \in takers THEN Append(feed[s], held.n) ELSE feed[s]]
       /\ unread' = [s \in Subs |-> IF s \in takers THEN unread[s] + 1 ELSE unread[s]]
       /\ dropSub' = dropSub + Cardinality(Matching(held) \ takers)
    /\ lost' = IF cmd \in {"send", "wait"} /\ held = Reply(offered)
               THEN lost \cup {offered} ELSE lost
    /\ pump' = "read"
    /\ UNCHANGED <<cmdVars, reply, linkVars, ncpVars, data, link, held, used, subs, closes,
                   closed, closer>>

PumpEnd ==
    /\ pump = "read"
    /\ link = "gone" /\ data = <<>>
    /\ pump' = "done"
    /\ UNCHANGED <<cmdVars, reply, linkVars, ncpVars, data, link, held, subVars, closed,
                   closer, dropSub, lost>>

-----------------------------------------------------------------------------
(***************************************************************************)
(* Subscribe, the function it returns, the subscriber, and Close.          *)
(***************************************************************************)
Subscribe(s) ==
    /\ s \notin used
    /\ used' = used \cup {s}
    /\ subs' = subs \cup {s}
    /\ UNCHANGED <<cmdVars, reply, linkVars, ncpVars, data, link, pumpVars, closes, feed,
                   unread, closed, closer, dropSub, lost>>

\* Mutant: the subscriptions stay in the map.
CloseAllKeeps(S) ==
    /\ subs' = subs
    /\ closes' = [s \in Subs |-> IF s \in S THEN closes[s] + 1 ELSE closes[s]]

\* Remove the subscriptions in S from the map and close their channels.
CloseAll(S) ==
    /\ subs' = subs \ S
    /\ closes' = [s \in Subs |-> IF s \in S THEN closes[s] + 1 ELSE closes[s]]

Unsubscribe(s) ==
    /\ s \in used
    /\ CloseAll({s} \cap subs)
    /\ UNCHANGED <<cmdVars, reply, linkVars, ncpVars, data, link, pumpVars, used, feed,
                   unread, closed, closer, dropSub, lost>>

\* The subscriber reads its channel (external).
Receive(s) ==
    /\ unread[s] > 0
    /\ unread' = [unread EXCEPT ![s] = @ - 1]
    /\ UNCHANGED <<cmdVars, reply, linkVars, ncpVars, data, link, pumpVars, used, subs, closes,
                   feed, closed, closer, dropSub, lost>>

Close ==
    /\ ~closed
    /\ closed' = TRUE
    /\ CloseAll(subs)
    /\ closer' = "link"
    /\ UNCHANGED <<cmdVars, reply, linkVars, ncpVars, data, link, pumpVars, used, feed,
                   unread, dropSub, lost>>

CloseLink ==
    /\ closer = "link"
    /\ link' = "gone"
    /\ closer' = "wait"
    /\ UNCHANGED <<cmdVars, reply, linkVars, ncpVars, data, pumpVars, subVars, closed, dropSub,
                   lost>>

CloseDone ==
    /\ closer = "wait"
    /\ pump = "done"
    /\ closer' = "done"
    /\ UNCHANGED <<cmdVars, reply, linkVars, ncpVars, data, link, pumpVars, subVars, closed,
                   dropSub, lost>>

-----------------------------------------------------------------------------
\* Nothing is left to do once Close has returned and no command is running.
Finished ==
    /\ closer = "done" /\ cmd = "free"
    /\ UNCHANGED vars

CommandStep == SendOk \/ SendFails \/ WaitReply \/ WaitEnds \/ CommandReturn
PumpStep == PumpTake \/ RouteReply \/ RouteEvent \/ PumpEnd
NcpStep == NcpAccept \/ NcpServe \/ NcpCallback
SubStep == \E s \in Subs : Subscribe(s) \/ Unsubscribe(s) \/ Receive(s)
CloseStep == CloseLink \/ CloseDone

Next ==
    \/ CommandStart \/ CommandStep
    \/ PumpStep
    \/ NcpStep \/ LinkLost
    \/ SubStep
    \/ Close \/ CloseStep
    \/ Finished

Spec == Init /\ [][Next]_vars

(***************************************************************************)
(* link.Send and link.Close return (AshLink's CallsReturn), the command's   *)
(* timer fires, goroutines that can run do.  Nothing is assumed of the NCP  *)
(* or of the subscribers.                                                  *)
(***************************************************************************)
Fairness ==
    /\ WF_vars(SendOk \/ SendFails) /\ WF_vars(WaitEnds) /\ WF_vars(CommandReturn)
    /\ WF_vars(PumpStep) /\ WF_vars(CloseStep)

FairSpec == Spec /\ Fairness

-----------------------------------------------------------------------------
\* A command never returns the answer to another one, although sequence numbers wrap
\* and replies outlive the commands they answer, as long as fewer than SeqMod
\* commands fail in a row; and its own reply is never routed past it unless an earlier
\* command has failed: only a reply nobody waited for can be in its way (command,
\* matchesResponse, route).
OwnReply ==
    /\ \A r \in results : r[1] = r[2]
    /\ \A n \in lost : \E m \in failed : m < n

\* What route's comment says of every command: a reply to the command in flight takes
\* precedence, so it is never routed past the command.
ReplyTakesPrecedence == lost = {}

\* Neither panic of Go's channels can happen: nothing is sent on a closed channel and
\* none is closed twice, however Unsubscribe, Close and route interleave.
ClosedOnce ==
    \A s \in Subs : closes[s] = IF s \in used \ subs THEN 1 ELSE 0

\* A subscriber that misses a callback can tell from Stats: the gaps in what it reads
\* are no larger than what the two counters admit (route, ash's handle).
NoSilentLoss ==
    \A s \in Subs : \A i \in 1..(Len(feed[s]) - 1) :
        LET between == {n \in (feed[s][i] + 1)..(feed[s][i + 1] - 1) :
                           kinds[n] \in Interest[s]}
        IN  /\ feed[s][i] < feed[s][i + 1]
            /\ Cardinality(between) <= dropSub + dropData

\* Every call returns: a command even if the NCP never answers and the link is gone, Close
\* although subscribers have stopped reading, for route never waits for one (command, Close).
CallsReturn ==
    /\ Pending ~> ~Pending
    /\ closed ~> closer = "done"
=============================================================================
