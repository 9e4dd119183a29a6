------------------------------ MODULE AshLink ------------------------------
(***************************************************************************)
(* The ASH session of internal/ash/conn.go: sequence numbering,            *)
(* acknowledgement, retransmission and reset between the host and the NCP  *)
(* (the Zigbee radio's network co-processor) over a serial line that       *)
(* loses and corrupts frames but neither duplicates nor reorders them.     *)
(*                                                                         *)
(* Three goroutines touch a Conn: the caller that holds sendMu (Reset or   *)
(* Send), the read pump, and whoever calls Close.  The two Go channels     *)
(* between them, ackCh and resetCh, and the one to the consumer, dataCh,   *)
(* are bounded and written without blocking.  The NCP and the line are     *)
(* external: they are modelled from how conn.go uses them.                 *)
(*                                                                         *)
(* Payloads are numbers: the n-th Send carries n, the n-th DATA frame of   *)
(* the NCP's session carries n, and a frame left over from an earlier      *)
(* session carries Stale.                                                  *)
(***************************************************************************)
EXTENDS Integers, Sequences

CONSTANTS
    MaxRetries,   \* retransmissions before a Send gives up (3 in the code)
    AckCap,       \* capacity of ackCh (8)
    DataCap,      \* capacity of dataCh (64)
    ResetCap,     \* capacity of resetCh (4)
    WireCap,      \* frames the line holds in one direction
    MaxSends,     \* bound: how many times Send is called
    MaxNcpData,   \* bound: how many DATA frames the NCP originates
    NcpWindow,    \* how many DATA frames the NCP leaves unacknowledged
    OldFrames,    \* frames of an earlier session that may still be in flight
    NcpEager      \* may the NCP send DATA before it has accepted any?

SeqMod == 8
Succ(n) == (n + 1) % SeqMod
Pred(n) == (n + 7) % SeqMod

Stale == 0

FrameTypes == {"DATA", "ACK", "NAK", "RST", "RSTACK", "ERROR"}
Frame == [type: FrameTypes, frm: 0..7, ack: 0..7, data: Nat]
AckEvent == [num: 0..7, nak: BOOLEAN]

ASSUME ConstantsAssumption ==
    /\ MaxRetries \in Nat /\ MaxSends \in Nat /\ MaxNcpData \in Nat
    /\ AckCap \in Nat \ {0} /\ DataCap \in Nat \ {0} /\ ResetCap \in Nat \ {0}
    /\ WireCap \in Nat \ {0}
    /\ NcpWindow \in 1..7
    /\ NcpEager \in BOOLEAN

ASSUME OldFramesAssumption ==
    OldFrames \subseteq [type: {"DATA", "ACK"}, frm: 0..7, ack: 0..7, data: {Stale}]

VARIABLES
    \* the Conn, and the caller that holds sendMu
    pc,         \* where that caller is
    txSeq,      \* frame number of the next outgoing DATA frame
    rxSeq,      \* frame number expected next from the NCP
    attempt,    \* Send's loop counter
    frame,      \* the DATA frame Send transmits
    ackCh, dataCh, resetCh,
    closed,     \* Close has been called
    port,       \* the serial port: "open", or "gone" once closed or unplugged
    \* the read pump
    pump,       \* "read", "check" (inside handle, expect was read), "done"
    held,       \* the DATA frame being handled, and
    expect,     \* the rxSeq it is compared with
    \* the line
    toNcp, toHost,
    \* the NCP
    ncp,        \* "old": an earlier session, "down": ignores DATA, "up"
    nRx,        \* frame number the NCP expects next
    nAck, nNext, nMax,  \* DATA frames acknowledged, next to send, ever sent
    \* history
    calls,      \* Send calls so far; also the payload of the current one
    acked,      \* payloads whose Send returned nil
    abandoned,  \* payloads whose Send returned an error
    delivered,  \* payloads the NCP accepted
    got,        \* the payloads of the NCP's session the pump pushed into dataCh
    dropped     \* droppedData

sender == <<pc, txSeq, attempt, frame, calls, acked, abandoned>>
reader == <<pump, held, expect, got, dropped>>
ncpVars == <<ncp, nRx, nAck, nNext, nMax, delivered>>
vars == <<sender, reader, ncpVars, rxSeq, ackCh, dataCh, resetCh, closed, port,
          toNcp, toHost>>

Phases == {"new", "rst", "idle", "drain", "write", "await", "dead"}
Sending == {"drain", "write", "await"}

DataFrame(n, a, d) == [type |-> "DATA", frm |-> n, ack |-> a, data |-> d]
Control(t, a) == [type |-> t, frm |-> 0, ack |-> a, data |-> Stale]
NoFrame == Control("ACK", 0)

(***************************************************************************)
(* A line that is full loses what is written to it; a port that is gone    *)
(* takes nothing.  A Go channel that is full drops a non-blocking send.    *)
(***************************************************************************)
Put(q, cap, x) == IF Len(q) < cap THEN Append(q, x) ELSE q
HostWrite(f) == toNcp' = IF port = "open" THEN Put(toNcp, WireCap, f) ELSE toNcp
NcpWrite(f) == toHost' = IF port = "open" THEN Put(toHost, WireCap, f) ELSE toHost

(***************************************************************************)
(* The Conn is new; the NCP is either still in a session with an earlier   *)
(* process, one of whose frames may be on the line, or it has just         *)
(* restarted and announced that with a RSTACK.                             *)
(***************************************************************************)
OldWires == {<<>>} \cup {<<f>> : f \in OldFrames}

Init ==
    /\ pc = "new" /\ txSeq = 0 /\ rxSeq = 0 /\ attempt = 0 /\ frame = NoFrame
    /\ ackCh = <<>> /\ dataCh = <<>> /\ resetCh = <<>>
    /\ closed = FALSE /\ port = "open"
    /\ pump = "read" /\ held = NoFrame /\ expect = 0
    /\ toNcp = <<>>
    /\ \/ ncp = "old" /\ toHost \in OldWires /\ nRx \in {0, 1}
       \/ ncp = "down" /\ toHost \in {<<>>, <<Control("RSTACK", 0)>>} /\ nRx = 0
    /\ nAck = 0 /\ nNext = 0 /\ nMax = 0
    /\ calls = 0 /\ acked = <<>> /\ abandoned = {} /\ delivered = <<>>
    /\ got = <<>> /\ dropped = 0

-----------------------------------------------------------------------------
(***************************************************************************)
(* Reset.  Its only caller, ezsp.Open, calls it once and closes the Conn   *)
(* when it fails: "dead".                                                  *)
(***************************************************************************)
ResetStart ==
    /\ pc = "new"
    /\ resetCh' = <<>>
    /\ HostWrite(Control("RST", 0))
    /\ pc' = IF port = "open" THEN "rst" ELSE "dead"
    /\ UNCHANGED <<txSeq, attempt, frame, calls, acked, abandoned, reader, ncpVars,
                   rxSeq, ackCh, dataCh, closed, port, toHost>>

ResetAnswered ==
    /\ pc = "rst"
    /\ resetCh # <<>>
    /\ resetCh' = Tail(resetCh)
    /\ IF Head(resetCh).type = "ERROR"
       THEN pc' = "dead" /\ UNCHANGED <<txSeq, rxSeq>>
       ELSE pc' = "idle" /\ txSeq' = 0 /\ rxSeq' = 0
    /\ UNCHANGED <<attempt, frame, calls, acked, abandoned, reader, ncpVars,
                   ackCh, dataCh, closed, port, toNcp, toHost>>

\* ResetTimeout, a cancelled context, or the read pump is gone.
ResetFails ==
    /\ pc = "rst"
    /\ pc' = "dead"
    /\ UNCHANGED <<txSeq, attempt, frame, calls, acked, abandoned, reader, ncpVars,
                   rxSeq, ackCh, dataCh, resetCh, closed, port, toNcp, toHost>>

-----------------------------------------------------------------------------
(***************************************************************************)
(* Send: read both sequence numbers, drain ackCh, then write and wait.     *)
(***************************************************************************)
SendStart ==
    /\ pc = "idle"
    /\ ~closed
    /\ calls < MaxSends
    /\ calls' = calls + 1
    /\ frame' = DataFrame(txSeq, rxSeq, calls + 1)
    /\ attempt' = 0
    /\ pc' = "drain"
    /\ UNCHANGED <<txSeq, acked, abandoned, reader, ncpVars, rxSeq, ackCh, dataCh,
                   resetCh, closed, port, toNcp, toHost>>

\* Mutant: the drain is forgotten.
SendNoDrain ==
    /\ pc = "drain"
    /\ pc' = "write"
    /\ UNCHANGED <<txSeq, attempt, frame, calls, acked, abandoned, reader, ncpVars,
                   rxSeq, ackCh, dataCh, resetCh, closed, port, toNcp, toHost>>

SendDrain ==
    /\ pc = "drain"
    /\ ackCh' = <<>>
    /\ pc' = "write"
    /\ UNCHANGED <<txSeq, attempt, frame, calls, acked, abandoned, reader, ncpVars,
                   rxSeq, dataCh, resetCh, closed, port, toNcp, toHost>>

\* Send returns an error: txSeq stays where it was.
Abandon ==
    /\ pc' = "idle"
    /\ abandoned' = abandoned \cup {calls}
    /\ UNCHANGED <<txSeq, attempt, frame, calls, acked>>

SendWrite ==
    /\ pc = "write"
    /\ HostWrite(frame)
    /\ IF port = "open"
       THEN pc' = "await" /\ UNCHANGED <<txSeq, attempt, frame, calls, acked, abandoned>>
       ELSE Abandon
    /\ UNCHANGED <<reader, ncpVars, rxSeq, ackCh, dataCh, resetCh, closed, port, toHost>>

WantAck == Succ(frame.frm)

Answers(ev) == ev.num = WantAck

\* Mutant: every transmission takes a number of its own.
RetryRenumbered ==
    IF attempt < MaxRetries
    THEN /\ attempt' = attempt + 1
         /\ frame' = [frame EXCEPT !.frm = Succ(@), !.ack = rxSeq]
         /\ pc' = "write"
         /\ UNCHANGED <<txSeq, calls, acked, abandoned>>
    ELSE Abandon

\* Mutant: nobody counts the attempts.
RetryForever ==
    /\ frame' = [frame EXCEPT !.ack = rxSeq]
    /\ pc' = "write"
    /\ UNCHANGED <<txSeq, attempt, calls, acked, abandoned>>

\* The next turn of Send's loop, with the piggybacked acknowledgement refreshed,
\* or ErrLinkFailed after the last one.
Retry ==
    IF attempt < MaxRetries
    THEN /\ attempt' = attempt + 1
         /\ frame' = [frame EXCEPT !.ack = rxSeq]
         /\ pc' = "write"
         /\ UNCHANGED <<txSeq, calls, acked, abandoned>>
    ELSE Abandon

AwaitAck ==
    /\ pc = "await"
    /\ ackCh # <<>>
    /\ ackCh' = Tail(ackCh)
    /\ LET ev == Head(ackCh) IN
       \/ /\ ev.nak
          /\ Retry
       \/ /\ ~ev.nak /\ Answers(ev)
          /\ txSeq' = WantAck
          /\ acked' = Append(acked, calls)
          /\ pc' = "idle"
          /\ UNCHANGED <<attempt, frame, calls, abandoned>>
       \/ /\ ~ev.nak /\ ~Answers(ev)
          /\ UNCHANGED sender
    /\ UNCHANGED <<reader, ncpVars, rxSeq, dataCh, resetCh, closed, port, toNcp, toHost>>

AwaitReset ==
    /\ pc = "await"
    /\ resetCh # <<>>
    /\ resetCh' = Tail(resetCh)
    /\ Abandon
    /\ UNCHANGED <<reader, ncpVars, rxSeq, ackCh, dataCh, closed, port, toNcp, toHost>>

AwaitTimeout ==
    /\ pc = "await"
    /\ Retry
    /\ UNCHANGED <<reader, ncpVars, rxSeq, ackCh, dataCh, resetCh, closed, port, toNcp, toHost>>

\* The caller's context ends, or the read pump has ended.
AwaitAborted ==
    /\ pc = "await"
    /\ Abandon
    /\ UNCHANGED <<reader, ncpVars, rxSeq, ackCh, dataCh, resetCh, closed, port, toNcp, toHost>>

-----------------------------------------------------------------------------
(***************************************************************************)
(* The read pump.  A DATA frame takes two steps: rxSeq is read under one   *)
(* hold of c.mu and advanced under another.                                *)
(***************************************************************************)
\* Mutant: the push onto ackCh ignores its capacity.
SignalAckUnbounded(f) ==
    ackCh' = Append(ackCh, [num |-> f.ack, nak |-> f.type = "NAK"])

SignalAck(f) ==
    ackCh' = Put(ackCh, AckCap, [num |-> f.ack, nak |-> f.type = "NAK"])

PumpRecv ==
    /\ pump = "read" /\ port = "open"
    /\ toHost # <<>>
    /\ toHost' = Tail(toHost)
    /\ LET f == Head(toHost) IN
       \/ /\ f.type = "DATA"
          /\ SignalAck(f)
          /\ held' = f /\ expect' = rxSeq /\ pump' = "check"
          /\ UNCHANGED resetCh
       \/ /\ f.type \in {"ACK", "NAK"}
          /\ SignalAck(f)
          /\ UNCHANGED <<held, expect, pump, resetCh>>
       \/ /\ f.type \in {"RSTACK", "ERROR"}
          /\ resetCh' = Put(resetCh, ResetCap, f)
          /\ UNCHANGED <<held, expect, pump, ackCh>>
    /\ UNCHANGED <<sender, got, dropped, ncpVars, rxSeq, dataCh, closed, port, toNcp>>

\* What handle writes for a DATA frame that is not the one expected.
Repeat(f, e) ==
    IF f.frm = Pred(e) THEN Control("ACK", e) ELSE Control("NAK", e)

ExpectedNext == held.frm = Succ(expect)

Expected == held.frm = expect

\* Mutant: a payload dropped on a full dataCh is not counted as received.
RxAdvanceIfRoom == rxSeq' = IF Len(dataCh) < DataCap THEN Succ(rxSeq) ELSE rxSeq

RxAdvance == rxSeq' = Succ(rxSeq)

PumpCheck ==
    /\ pump = "check"
    /\ pump' = "read"
    /\ IF Expected
       THEN /\ RxAdvance
            /\ HostWrite(Control("ACK", Succ(rxSeq)))
            /\ dataCh' = Put(dataCh, DataCap, held.data)
            /\ IF Len(dataCh) < DataCap
               THEN /\ got' = IF held.data = Stale THEN got ELSE Append(got, held.data)
                    /\ UNCHANGED dropped
               ELSE dropped' = dropped + 1 /\ UNCHANGED got
       ELSE /\ HostWrite(Repeat(held, expect))
            /\ UNCHANGED <<rxSeq, dataCh, got, dropped>>
    /\ UNCHANGED <<sender, held, expect, ncpVars, ackCh, resetCh, closed, port, toHost>>

\* A frame that does not survive the line: the scanner discards it, or its CRC
\* is wrong and the pump answers with a NAK.
PumpCorrupt ==
    /\ pump = "read" /\ port = "open"
    /\ toHost # <<>>
    /\ toHost' = Tail(toHost)
    /\ \/ UNCHANGED toNcp
       \/ HostWrite(Control("NAK", rxSeq))
    /\ UNCHANGED <<sender, reader, ncpVars, rxSeq, ackCh, dataCh, resetCh, closed, port>>

\* The read fails: the pump closes dataCh and readDone.
PumpExit ==
    /\ pump = "read" /\ port = "gone"
    /\ pump' = "done"
    /\ UNCHANGED <<sender, held, expect, got, dropped, ncpVars, rxSeq, ackCh, dataCh,
                   resetCh, closed, port, toNcp, toHost>>

Consume ==
    /\ dataCh # <<>>
    /\ dataCh' = Tail(dataCh)
    /\ UNCHANGED <<sender, reader, ncpVars, rxSeq, ackCh, resetCh, closed, port, toNcp, toHost>>

Close ==
    /\ ~closed
    /\ closed' = TRUE /\ port' = "gone"
    /\ UNCHANGED <<sender, reader, ncpVars, rxSeq, ackCh, dataCh, resetCh, toNcp, toHost>>

\* The port fails under the Conn: the stick is unplugged.
PortLost ==
    /\ port = "open"
    /\ port' = "gone"
    /\ UNCHANGED <<sender, reader, ncpVars, rxSeq, ackCh, dataCh, resetCh, closed, toNcp, toHost>>

-----------------------------------------------------------------------------
(***************************************************************************)
(* The NCP (external): go-back-N towards the host with window NcpWindow,   *)
(* one expected frame from it.                                             *)
(***************************************************************************)
NcpListens == ncp \in {"old", "up"}

\* How far acknowledgement a moves nAck: not at all when it is out of range.
AckedBy(a) ==
    LET k == (a - nAck) % SeqMod IN IF k <= nMax - nAck THEN k ELSE 0

NcpTakeAck(f) ==
    /\ nAck' = nAck + AckedBy(f.ack)
    /\ nNext' = IF f.type = "NAK" \/ nNext < nAck' THEN nAck' ELSE nNext
    /\ UNCHANGED nMax

NcpRecv ==
    /\ toNcp # <<>>
    /\ toNcp' = Tail(toNcp)
    /\ LET f == Head(toNcp) IN
       \/ /\ f.type = "RST"
          /\ ncp' = "up" /\ nRx' = 0 /\ nAck' = 0 /\ nNext' = 0 /\ nMax' = 0
          /\ NcpWrite(Control("RSTACK", 0))
          /\ UNCHANGED delivered
       \/ /\ f.type # "RST" /\ ncp = "down"
          /\ UNCHANGED <<ncpVars, toHost>>
       \/ /\ f.type \in {"ACK", "NAK"} /\ NcpListens
          /\ NcpTakeAck(f)
          /\ UNCHANGED <<ncp, nRx, delivered, toHost>>
       \/ /\ f.type = "DATA" /\ NcpListens
          /\ NcpTakeAck(f)
          /\ IF f.frm = nRx
             THEN /\ nRx' = Succ(nRx)
                  /\ delivered' = Append(delivered, f.data)
                  /\ NcpWrite(Control("ACK", Succ(nRx)))
             ELSE /\ NcpWrite(Repeat(f, nRx))
                  /\ UNCHANGED <<nRx, delivered>>
          /\ UNCHANGED ncp
    /\ UNCHANGED <<sender, reader, rxSeq, ackCh, dataCh, resetCh, closed, port>>

NcpCorrupt ==
    /\ toNcp # <<>>
    /\ toNcp' = Tail(toNcp)
    /\ \/ UNCHANGED toHost
       \/ NcpListens /\ NcpWrite(Control("NAK", nRx))
    /\ UNCHANGED <<sender, reader, ncpVars, rxSeq, ackCh, dataCh, resetCh, closed, port>>

NcpSend ==
    /\ ncp = "up" /\ port = "open"
    /\ NcpEager \/ delivered # <<>>
    /\ nNext < nAck + NcpWindow /\ nNext < MaxNcpData
    /\ Len(toHost) < WireCap
    /\ NcpWrite(DataFrame(nNext % SeqMod, nRx, nNext + 1))
    /\ nNext' = nNext + 1
    /\ nMax' = IF nMax < nNext' THEN nNext' ELSE nMax
    /\ UNCHANGED <<ncp, nRx, nAck, delivered, sender, reader, rxSeq, ackCh, dataCh,
                   resetCh, closed, port, toNcp>>

\* The NCP's own acknowledgement timeout: go back to the oldest unacknowledged.
NcpTimeout ==
    /\ ncp = "up" /\ port = "open"
    /\ nAck < nNext
    /\ nNext' = nAck
    /\ UNCHANGED <<ncp, nRx, nAck, nMax, delivered, sender, reader, rxSeq, ackCh, dataCh,
                   resetCh, closed, port, toNcp, toHost>>

\* The NCP restarts (RSTACK) or declares the link failed (ERROR).
NcpReboot ==
    /\ NcpListens /\ port = "open"
    /\ ncp' = "down"
    /\ \E t \in {"RSTACK", "ERROR"} : NcpWrite(Control(t, 0))
    /\ UNCHANGED <<nRx, nAck, nNext, nMax, delivered, sender, reader, rxSeq, ackCh,
                   dataCh, resetCh, closed, port, toNcp>>

-----------------------------------------------------------------------------
\* Nothing is left to do once the Conn is closed and everyone has noticed.
Finished ==
    /\ closed /\ pump = "done" /\ pc \notin {"rst"} \cup Sending
    /\ UNCHANGED vars

SendStep == SendDrain \/ SendWrite \/ AwaitAck \/ AwaitReset \/ AwaitTimeout \/ AwaitAborted
ResetStep == ResetAnswered \/ ResetFails
PumpStep == PumpRecv \/ PumpCheck \/ PumpCorrupt \/ PumpExit
NcpStep == NcpRecv \/ NcpCorrupt \/ NcpSend \/ NcpTimeout \/ NcpReboot

Next ==
    \/ ResetStart \/ ResetStep
    \/ SendStart \/ SendStep
    \/ PumpStep \/ Consume
    \/ Close \/ PortLost
    \/ NcpStep
    \/ Finished

Spec == Init /\ [][Next]_vars

(***************************************************************************)
(* The Go scheduler runs every goroutine that can run, an expired timer    *)
(* stays readable until select picks it, and select picks at random.  The  *)
(* line loses frames, but not the same one for ever.                       *)
(***************************************************************************)
Fairness ==
    /\ WF_vars(ResetFails)
    /\ WF_vars(SendDrain) /\ WF_vars(SendWrite) /\ WF_vars(AwaitTimeout)
    /\ WF_vars(PumpCheck) /\ WF_vars(PumpExit)
    /\ \A d \in 0..MaxNcpData : SF_vars(PumpRecv /\ Head(toHost).data = d)
    /\ SF_vars(NcpRecv) /\ WF_vars(NcpSend) /\ WF_vars(NcpTimeout)

FairSpec == Spec /\ Fairness

-----------------------------------------------------------------------------
TypeOK ==
    /\ pc \in Phases /\ pump \in {"read", "check", "done"}
    /\ txSeq \in 0..7 /\ rxSeq \in 0..7 /\ nRx \in 0..7 /\ expect \in 0..7
    /\ attempt \in 0..MaxRetries
    /\ frame \in Frame /\ held \in Frame
    /\ ackCh \in Seq(AckEvent) /\ Len(ackCh) <= AckCap
    /\ dataCh \in Seq(Nat) /\ Len(dataCh) <= DataCap
    /\ resetCh \in Seq(Frame) /\ Len(resetCh) <= ResetCap
    /\ closed \in BOOLEAN /\ port \in {"open", "gone"}
    /\ toNcp \in Seq(Frame) /\ toHost \in Seq(Frame)
    /\ ncp \in {"old", "down", "up"}
    /\ nAck \in Nat /\ nNext \in Nat /\ nMax \in Nat
    /\ calls \in Nat /\ dropped \in Nat
    /\ acked \in Seq(Nat) /\ delivered \in Seq(Nat) /\ got \in Seq(Nat)
    /\ abandoned \subseteq Nat

(***************************************************************************)
(* Host to NCP.                                                            *)
(***************************************************************************)
\* The two sides never lose count of each other: the NCP has accepted as many
\* DATA frames as Sends returned nil, or one more, however many Sends were
\* abandoned, frames lost and acknowledgements dropped on the way (Send, handle).
WindowOfOne ==
    Len(delivered) \in {Len(acked), Len(acked) + 1}

\* Retransmission never delivers a payload twice and never out of order
\* (Send's frame number and the NCP's expected one).
AtMostOnceInOrder ==
    \A i, j \in 1..Len(delivered) : i < j => delivered[i] < delivered[j]

\* As long as no Send has been abandoned, a Send that returned nil delivered its
\* own payload: the NCP has exactly the acknowledged payloads, and perhaps the one
\* being sent (Send, awaitAck).
AckedIsDelivered ==
    abandoned = {} =>
        \/ delivered = acked
        \/ pc \in {"write", "await"} /\ delivered = Append(acked, calls)

\* The Conn implements the promise it makes to its callers: every step of the host,
\* the line and the NCP offers, accepts or confirms one payload, or none (Send).
SW == INSTANCE StopAndWait WITH
          offered <- calls, accepted <- delivered, confirmed <- acked
ImplementsStopAndWait == SW!Spec

(***************************************************************************)
(* NCP to host.                                                            *)
(***************************************************************************)
\* The payloads of its session the host has taken.
Taken == Len(got) + dropped

\* What the NCP is told was taken is what was handed over.  The consumer gets the NCP's
\* payloads once each and in order, and the only gaps are payloads dropped on a full dataCh
\* and counted in droppedData; the host never acknowledges what it has not taken, so the NCP
\* forgets nothing else; and in the session a Reset starts it expects the frame after the
\* last one it took (handle, Reset).
ReceivedInOrder ==
    /\ \A i \in 1..Len(got) :
          /\ \A j \in 1..(i - 1) : got[j] < got[i]
          /\ got[i] <= Taken
    /\ nAck <= Taken
    /\ (ncp = "up" /\ pc \notin {"new", "rst", "dead"}) => rxSeq = Taken % SeqMod

(***************************************************************************)
(* Liveness, under Fairness.                                               *)
(***************************************************************************)
\* Every call returns, whatever the NCP does.  Send's retries are bounded and each attempt is
\* timed; Close gets its readDone, for the read pump ends once the port is closed, wherever it
\* was (Send, awaitAck, Close, readPump).
CallsReturn ==
    /\ pc \in Sending ~> pc = "idle"
    /\ closed ~> pump = "done"

\* A payload the NCP sends is taken by the host in the end, through losses and bad
\* CRCs, unless the port goes or the NCP restarts (handle's re-ACK and NAK).
NcpDataArrives ==
    \A k \in 1..MaxNcpData :
        nMax >= k ~> (Taken >= k \/ port = "gone" \/ ncp = "down")
=============================================================================
