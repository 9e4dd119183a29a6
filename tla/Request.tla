------------------------------ MODULE Request -------------------------------
(***************************************************************************)
(* How a question reaches a device and its answer comes back: nextSequence, *)
(* zclRequest and zdoQuery in zigbee/, Request and awaitReply in            *)
(* internal/ezsp/send.go, and the callers that ask several questions in     *)
(* turn (Apply stops at the first failure, Interview goes on).              *)
(*                                                                         *)
(* The n-th call of nextSequence is request n.  It is repeated verbatim     *)
(* until it is answered, so there are copies <<n, k>> of it: queued in the  *)
(* NCP, carried out by the device, answered, lost or late in any order.     *)
(* Of the connection below this uses what EzspConn shows: a command         *)
(* returns, whatever it did to the NCP; route hands every incoming message  *)
(* to every subscription and drops what a full channel cannot take.         *)
(***************************************************************************)
EXTENDS Naturals, Sequences, FiniteSets, Functions

CONSTANTS
    Callers,      \* goroutines that ask
    Plan,         \* Plan[c]: the questions c asks, in order
    Stops,        \* the callers that give up at the first failure (Apply)
    SeqMod,       \* requests are numbered modulo this (256)
    SubCap,       \* capacity of the subscription's channel (32)
    MaxAttempts,  \* MaxAttempts[c], bound: how often c sends a request
    MaxReports    \* bound: unsolicited messages

(***************************************************************************)
(* A question names the device, the cluster its answer comes on, the        *)
(* command that answers it and what it asks.  A cluster command is answered *)
(* by a Default Response ("default"); a ZDO question by a response on a     *)
(* cluster of its own, never by a Default Response.                         *)
(***************************************************************************)
Questions == UNION {Range(Plan[c]) : c \in Callers}

ASSUME RequestAssumption ==
    /\ SeqMod \in Nat \ {0} /\ SubCap \in Nat \ {0}
    /\ MaxAttempts \in [Callers -> Nat \ {0}] /\ MaxReports \in Nat
    /\ Stops \subseteq Callers
    /\ \A c \in Callers : Plan[c] \in Seq(Range(Plan[c]))
    /\ \A q \in Questions : DOMAIN q = {"node", "cluster", "want", "what"}

VARIABLES
    asked,      \* asked[n]: the caller and the question of request n
    call,       \* call[c]: the state of c
    open,       \* the connection is open
    queued,     \* copies the NCP holds
    air,        \* answers on their way to the host
    reports,    \* unsolicited messages so far
    \* history
    applied,    \* copies devices have carried out
    arrived,    \* answers routed while their request was waiting
    dropped,    \* <<c, r>>: of those, r did not fit into the channel of c
    outcome     \* outcome[n]: what the caller was told, and the request answered

vars == <<asked, call, open, queued, air, reports, applied, arrived, dropped, outcome>>
devices == <<queued, air, applied>>
history == <<applied, arrived, dropped>>

\* Request n is n's place in asked; 0 is an unsolicited message.
Requests == 1 .. Len(asked)
Question(n) == asked[n].question
Sequence(n) == n % SeqMod

Answer == [n: Nat, k: Nat, cmd: {"want", "default"}, status: {"ok", "refused"}]
Report == [n |-> 0, k |-> 0, cmd |-> "want", status |-> "ok"]

\* The command byte of an answer.
Command(r) == IF r.cmd = "default" THEN "default" ELSE Question(r.n).want

Pending == [answer |-> 0, told |-> "nothing"]

\* A call: its place in the plan, its request, its subscription, the sends it
\* has made (failed ones too, for the bound) and how many of them reached the
\* NCP or were given up.
IdleCall == [pc |-> "idle", step |-> 0, n |-> 0, sub |-> "none", chan |-> <<>>,
             attempts |-> 0, sent |-> 0]

Init ==
    /\ asked = <<>>
    /\ call = [c \in Callers |-> IdleCall]
    /\ open = TRUE
    /\ queued = {} /\ air = {} /\ reports = 0
    /\ applied = {} /\ arrived = {} /\ dropped = {}
    /\ outcome = <<>>

-----------------------------------------------------------------------------
(***************************************************************************)
(* The caller                                                              *)
(***************************************************************************)
Waiting(c) == call[c].pc \in {"first", "wait", "resend"}

\* Assumed of the network: fewer than SeqMod requests are started during the
\* life of one, of its copies and of its answers.
SequenceFree(n) ==
    /\ \A m \in {cp[1] : cp \in queued} \cup {r.n : r \in air} : m + SeqMod > n
    /\ \A c \in Callers : Waiting(c) => call[c].n + SeqMod > n

Outcome(n, r, told) == outcome' = [outcome EXCEPT ![n] = [answer |-> r, told |-> told]]

\* Mutant of GoesOn: Apply carries on after a failure.
GoesOnAlways(c, told) == call[c].step < Len(Plan[c])

\* Whether c has another question after one that ended in told.
GoesOn(c, told) ==
    /\ call[c].step < Len(Plan[c])
    /\ c \in Stops => told = "ok"

\* c's request ends: cancel() removes the subscription.
Return(c, answer, told) ==
    /\ Outcome(call[c].n, answer, told)
    /\ call' = [call EXCEPT ![c] = [@ EXCEPT
          !.pc = IF GoesOn(c, told) THEN "idle" ELSE "done",
          !.sub = "none", !.chan = <<>>, !.attempts = 0, !.sent = 0]]
    /\ arrived' = {x \in arrived : x.n # call[c].n}
    /\ dropped' = {d \in dropped : d[1] # c}
    /\ UNCHANGED <<asked, open, devices, reports>>

\* nextSequence for the next question of c's plan; then Request subscribes,
\* before the first send.  On a closed connection the subscription is
\* registered too, and the send then fails.
Ask(c) ==
    /\ call[c].pc = "idle" /\ call[c].step < Len(Plan[c])
    /\ SequenceFree(Len(asked) + 1)
    /\ asked' = Append(asked, [caller |-> c, question |-> Plan[c][call[c].step + 1]])
    /\ outcome' = Append(outcome, Pending)
    /\ call' = [call EXCEPT ![c] = [call[c] EXCEPT !.pc = "first", !.step = @ + 1,
                                                  !.n = Len(asked) + 1, !.sub = "open"]]
    /\ UNCHANGED <<open, devices, reports, arrived, dropped>>

Sending(c) == call[c].pc \in {"first", "resend"}

\* SendUnicast, at the NCP: it queues another copy while the command is under
\* way, at most once.
Enqueue(c) ==
    /\ Sending(c) /\ open /\ call[c].sent = call[c].attempts
    /\ queued' = queued \cup {<<call[c].n, call[c].attempts + 1>>}
    /\ call' = [call EXCEPT ![c].sent = @ + 1]
    /\ UNCHANGED <<asked, open, air, reports, history, outcome>>

\* send returned nil.
Sent(c) ==
    /\ Sending(c) /\ call[c].sent = call[c].attempts + 1
    /\ call' = [call EXCEPT ![c] = [call[c] EXCEPT !.pc = "wait", !.attempts = @ + 1]]
    /\ UNCHANGED <<asked, open, devices, reports, arrived, dropped, outcome>>

\* The command failed, with or without a copy in the NCP: the first failure is
\* the caller's answer, a later one is ignored.  zclRequest's own checks (the
\* coordinator is open, the adapter has a network) fail the same way.
FirstSendFails(c) == call[c].pc = "first" /\ Return(c, 0, "error")

ResendFails(c) ==
    /\ call[c].pc = "resend"
    /\ call' = [call EXCEPT ![c] = [call[c] EXCEPT !.pc = "wait", !.attempts = @ + 1,
                                                  !.sent = call[c].attempts + 1]]
    /\ UNCHANGED <<asked, open, devices, reports, arrived, dropped, outcome>>

\* The resend ticker.
ResendTick(c) ==
    /\ call[c].pc = "wait" /\ call[c].attempts < MaxAttempts[c]
    /\ call' = [call EXCEPT ![c].pc = "resend"]
    /\ UNCHANGED <<asked, open, devices, reports, arrived, dropped, outcome>>

\* Mutant of Match: the sequence number is not compared.
MatchAnySequence(r, n) ==
    /\ r.n # 0
    /\ Question(r.n).node = Question(n).node
    /\ Question(r.n).cluster = Question(n).cluster
    /\ Command(r) \in {Question(n).want, "default"}

\* The match functions of zclRequest and zdoQuery.
Match(r, n) ==
    /\ r.n # 0
    /\ Question(r.n).node = Question(n).node
    /\ Question(r.n).cluster = Question(n).cluster
    /\ Sequence(r.n) = Sequence(n)
    /\ Command(r) \in {Question(n).want, "default"}

\* What zclRequest and SendCommand make of a matching answer: a Default
\* Response where a response was wanted is a refusal, whatever its status;
\* one that answers a command must name that command.
Told(r, n) ==
    IF /\ Command(r) = Question(n).want
       /\ r.status = "ok"
       /\ Question(n).want = "default" => Question(r.n).what = Question(n).what
    THEN "ok" ELSE "refused"

\* awaitReply takes a message from its subscription.
ReplyMatches(c) ==
    /\ call[c].pc = "wait" /\ call[c].chan # <<>>
    /\ LET r == Head(call[c].chan) IN
          /\ Match(r, call[c].n)
          /\ Return(c, r.n, Told(r, call[c].n))

ReplyIgnored(c) ==
    /\ call[c].pc = "wait" /\ call[c].chan # <<>>
    /\ ~ Match(Head(call[c].chan), call[c].n)
    /\ call' = [call EXCEPT ![c].chan = Tail(@)]
    /\ UNCHANGED <<asked, open, devices, reports, arrived, dropped, outcome>>

\* The connection closed the subscription and it is drained.
WaitClosed(c) ==
    /\ call[c].pc = "wait" /\ call[c].sub = "closed" /\ call[c].chan = <<>>
    /\ Return(c, 0, "error")

\* ctx.Done, at any time.
WaitExpires(c) == call[c].pc = "wait" /\ Return(c, 0, "timeout")

-----------------------------------------------------------------------------
(***************************************************************************)
(* The connection, the NCP and the devices                                 *)
(***************************************************************************)
\* ezsp.Conn.Close closes every subscription there is.
Close ==
    /\ open
    /\ open' = FALSE
    /\ call' = [c \in Callers |->
                 IF call[c].sub = "open" THEN [call[c] EXCEPT !.sub = "closed"] ELSE call[c]]
    /\ UNCHANGED <<asked, devices, reports, arrived, dropped, outcome>>

\* The answers a device gives to a question: a ZDO response carries its status
\* itself; a command is answered by a Default Response; any other ZCL request
\* by its response, a refusal, or an acknowledgement that says nothing more.
AnswersTo(q) ==
    {a \in [cmd: {"want", "default"}, status: {"ok", "refused"}] :
        /\ q.want = "zdo" => a.cmd = "want"
        /\ q.want = "default" => a.cmd = "default"
        /\ a.cmd = "want" /\ a.status = "refused" => q.want = "zdo"}

\* The device takes a copy, carries it out or refuses it, and answers.
Handle(cp) ==
    /\ queued' = queued \ {cp}
    /\ \E a \in AnswersTo(Question(cp[1])) :
          /\ applied' = IF a.status = "ok" THEN applied \cup {cp} ELSE applied
          /\ air' = air \cup {[n |-> cp[1], k |-> cp[2], cmd |-> a.cmd, status |-> a.status]}
    /\ UNCHANGED <<asked, call, open, reports, arrived, dropped, outcome>>

\* The indirect queue's patience runs out, or the message is lost.
Expire(cp) ==
    /\ queued' = queued \ {cp}
    /\ UNCHANGED <<asked, call, open, air, reports, history, outcome>>

LoseAnswer(r) ==
    /\ air' = air \ {r}
    /\ UNCHANGED <<asked, call, open, queued, reports, history, outcome>>

Room(c) == call[c].sub = "open" /\ Len(call[c].chan) < SubCap

\* route hands a message to every request's subscription.
Route(r) ==
    /\ call' = [c \in Callers |->
                 IF Room(c) THEN [call[c] EXCEPT !.chan = Append(@, r)] ELSE call[c]]
    /\ dropped' = dropped \cup
         {<<c, r>> : c \in {d \in Callers : Waiting(d) /\ call[d].n = r.n /\ ~Room(d)}}

Deliver(r) ==
    /\ open
    /\ air' = air \ {r}
    /\ Route(r)
    /\ arrived' = arrived \cup {x \in {r} : \E c \in Callers : Waiting(c) /\ call[c].n = r.n}
    /\ UNCHANGED <<asked, open, queued, reports, applied, outcome>>

\* A report or any other message nobody asked for.
DeliverReport ==
    /\ open /\ reports < MaxReports
    /\ reports' = reports + 1
    /\ Route(Report)
    /\ UNCHANGED <<asked, open, devices, arrived, outcome>>

Finished == (\A c \in Callers : call[c].pc = "done") /\ UNCHANGED vars

CallerStep(c) ==
    \/ Ask(c) \/ Enqueue(c) \/ Sent(c)
    \/ FirstSendFails(c) \/ ResendFails(c) \/ ResendTick(c)
    \/ ReplyMatches(c) \/ ReplyIgnored(c) \/ WaitClosed(c) \/ WaitExpires(c)

Next ==
    \/ \E c \in Callers : CallerStep(c)
    \/ Close \/ DeliverReport \/ Finished
    \/ \E cp \in queued : Handle(cp) \/ Expire(cp)
    \/ \E r \in air : Deliver(r) \/ LoseAnswer(r)

Spec == Init /\ [][Next]_vars

-----------------------------------------------------------------------------
\* While Request waits, an answer that reached the host is in its channel or
\* was dropped on a full one: none falls between the send and the wait, or
\* between two sends.
NoAnswerMissed ==
    \A c \in Callers, r \in arrived :
        Waiting(c) /\ r.n = call[c].n =>
            r \in Range(call[c].chan) \/ <<c, r>> \in dropped

\* A request returns the answer to the question it asked: not the late answer
\* to an earlier one, another caller's, or another device's; and hears it
\* whenever it arrives (awaitReply, SendUnicast).
OwnAnswer ==
    /\ \A n \in Requests : outcome[n].answer \in {0, n}
    /\ NoAnswerMissed

Applied(n) == \E cp \in applied : cp[1] = n

\* Apply carries a phrase out in the order it was said: a device acts on a
\* request only if it has acted on every earlier request of the phrase, however
\* late copies and answers are.
InOrder ==
    \A m, n \in Requests :
        /\ m < n /\ asked[m].caller = asked[n].caller /\ asked[n].caller \in Stops
        /\ Applied(n)
        => Applied(m)

\* What SendCommand reports as done was done once: Toggle inverts a light, two
\* steps of brightness compose.
DoneOnce ==
    \A n \in Requests :
        outcome[n].told = "ok" /\ Question(n).want = "default" =>
            Cardinality({cp \in applied : cp[1] = n}) = 1

=============================================================================
