--------------------------- MODULE AshLinkProofs ---------------------------
(***************************************************************************)
(* Proofs about AshLink for every value of its constants.                  *)
(***************************************************************************)
EXTENDS AshLink, TLAPS

-----------------------------------------------------------------------------
(***************************************************************************)
(* What a bounded, lossy push and a pop do to a queue.                     *)
(***************************************************************************)
\* Put keeps the elements a queue has, in place, and adds at most x, at the end.
LEMMA PutLemma ==
    ASSUME NEW S, NEW q \in Seq(S), NEW cap \in Nat, NEW x \in S
    PROVE  /\ Put(q, cap, x) \in Seq(S)
           /\ Len(Put(q, cap, x)) \in {Len(q), Len(q) + 1}
           /\ Len(q) <= cap => Len(Put(q, cap, x)) <= cap
           /\ \A i \in 1..Len(q) : Put(q, cap, x)[i] = q[i]
           /\ \A i \in 1..Len(Put(q, cap, x)) : i > Len(q) => Put(q, cap, x)[i] = x
  BY DEF Put

\* Tail moves every element but the first one place forward.
LEMMA TailLemma ==
    ASSUME NEW S, NEW q \in Seq(S), q # <<>>
    PROVE  /\ Tail(q) \in Seq(S)
           /\ Len(q) \in Nat /\ Len(q) >= 1
           /\ Len(Tail(q)) = Len(q) - 1
           /\ Head(q) = q[1] /\ Head(q) \in S
           /\ \A i \in 1..Len(Tail(q)) : Tail(q)[i] = q[i + 1]
  OBVIOUS

\* Three-bit numbers: the successor, the predecessor and counting modulo eight.
LEMMA NumLemma ==
    /\ \A n \in 0..7 :
          /\ Succ(n) \in 0..7 /\ Pred(n) \in 0..7
          /\ Succ(n) # n /\ Pred(n) # n /\ Pred(Succ(n)) = n /\ Pred(n) # Succ(n)
    /\ \A n \in Int : n % SeqMod \in 0..7
    /\ \A n \in Nat : Succ(n % SeqMod) = (n + 1) % SeqMod
    /\ 0 % SeqMod = 0
  BY DEF SeqMod, Succ, Pred

\* Frames the model builds are frames.
LEMMA FrameTypes1 ==
    /\ \A n, a \in 0..7 : \A d \in Nat : DataFrame(n, a, d) \in Frame
    /\ \A t \in FrameTypes : \A a \in 0..7 : Control(t, a) \in Frame
    /\ NoFrame \in Frame
  BY DEF DataFrame, Control, NoFrame, Frame, FrameTypes, Stale

\* The fields of a frame.
LEMMA FrameFields ==
    \A f \in Frame : /\ f.type \in FrameTypes /\ f.frm \in 0..7
                     /\ f.ack \in 0..7 /\ f.data \in Nat
  BY DEF Frame

\* Either endpoint's answer to an unexpected DATA frame is a frame.
LEMMA RepeatType == \A f \in Frame : \A e \in 0..7 : Repeat(f, e) \in Frame
  BY FrameTypes1 DEF Repeat, FrameTypes

\* Writing to the line keeps it a sequence of frames.
LEMMA HostWriteType ==
    ASSUME TypeOK, NEW f \in Frame, HostWrite(f)
    PROVE  toNcp' \in Seq(Frame)
  BY PutLemma, ConstantsAssumption DEF TypeOK, HostWrite

\* The same of the NCP's side.
LEMMA NcpWriteType ==
    ASSUME TypeOK, NEW f \in Frame, NcpWrite(f)
    PROVE  toHost' \in Seq(Frame)
  BY PutLemma, ConstantsAssumption DEF TypeOK, NcpWrite
-----------------------------------------------------------------------------
(***************************************************************************)
(* Type correctness.                                                       *)
(***************************************************************************)
\* The next turn of Send's loop, or its end, keeps the caller's variables typed.
LEMMA RetryType ==
    ASSUME TypeOK, Retry \/ Abandon
    PROVE  /\ pc' \in Phases /\ txSeq' \in 0..7 /\ attempt' \in 0..MaxRetries
           /\ frame' \in Frame /\ calls' \in Nat /\ acked' \in Seq(Nat)
           /\ abandoned' \subseteq Nat
  <1>1. CASE Retry /\ attempt < MaxRetries
    <2>1. /\ frame' = [frame EXCEPT !.ack = rxSeq] /\ frame \in Frame /\ rxSeq \in 0..7
          /\ attempt' = attempt + 1 /\ pc' = "write"
          /\ UNCHANGED <<txSeq, calls, acked, abandoned>>
      BY <1>1 DEF Retry, TypeOK
    <2>2. frame' \in Frame
      BY <2>1 DEF Frame
    <2>3. attempt' \in 0..MaxRetries
      <3>1. attempt \in 0..MaxRetries /\ MaxRetries \in Nat
        BY ConstantsAssumption DEF TypeOK
      <3> QED
        BY <1>1, <2>1, <3>1
    <2> QED
      BY <2>1, <2>2, <2>3 DEF TypeOK, Phases
  <1>2. CASE Abandon
    BY <1>2 DEF TypeOK, Abandon, Phases
  <1> QED
    BY <1>1, <1>2 DEF Retry

\* The NCP's counters stay counts.
LEMMA TakeAckType ==
    ASSUME TypeOK, NEW f \in Frame, NcpTakeAck(f)
    PROVE  nAck' \in Nat /\ nNext' \in Nat /\ nMax' \in Nat
  <1>1. (f.ack - nAck) % SeqMod \in Nat
    <2>1. f.ack \in 0..7 /\ nAck \in Nat
      BY FrameFields DEF TypeOK
    <2> QED
      BY <2>1, NumLemma
  <1>2. AckedBy(f.ack) \in Nat
    BY <1>1 DEF AckedBy
  <1> QED
    BY <1>2 DEF TypeOK, NcpTakeAck

\* The empty and the one-element queue.
LEMMA ToSeq ==
    \A S : <<>> \in Seq(S) /\ Len(<<>>) = 0 /\ \A x \in S : <<x>> \in Seq(S)
  OBVIOUS

\* The initial states are well typed.
LEMMA InitType == Init => TypeOK
  <1> SUFFICES ASSUME Init PROVE TypeOK
    OBVIOUS
  <1>1. toHost \in Seq(Frame)
    <2>1. OldFrames \subseteq Frame
      BY OldFramesAssumption DEF Frame, FrameTypes, Stale
    <2>2. Control("RSTACK", 0) \in Frame
      BY FrameTypes1 DEF FrameTypes
    <2> QED
      BY <2>1, <2>2, ToSeq DEF Init, OldWires
  <1> QED
    <2>1. NoFrame \in Frame
      BY FrameTypes1
    <2>2. nRx \in 0..7 /\ ncp \in {"old", "down", "up"}
      BY DEF Init
    <2> QED
      <3>1. /\ ackCh = <<>> /\ dataCh = <<>> /\ resetCh = <<>> /\ toNcp = <<>>
            /\ acked = <<>> /\ delivered = <<>> /\ got = <<>> /\ abandoned = {}
            /\ attempt = 0
        BY DEF Init
      <3>2. /\ ackCh \in Seq(AckEvent) /\ Len(ackCh) <= AckCap
            /\ dataCh \in Seq(Nat) /\ Len(dataCh) <= DataCap
            /\ resetCh \in Seq(Frame) /\ Len(resetCh) <= ResetCap
            /\ toNcp \in Seq(Frame) /\ acked \in Seq(Nat) /\ delivered \in Seq(Nat)
            /\ got \in Seq(Nat) /\ abandoned \subseteq Nat /\ attempt \in 0..MaxRetries
        BY <3>1, ConstantsAssumption
      <3> QED
        <4>1. /\ pc = "new" /\ pump = "read" /\ txSeq = 0 /\ rxSeq = 0 /\ expect = 0
              /\ frame = NoFrame /\ held = NoFrame /\ closed = FALSE /\ port = "open"
              /\ nAck = 0 /\ nNext = 0 /\ nMax = 0 /\ calls = 0 /\ dropped = 0
          BY DEF Init
        <4>2. pc \in Phases
          BY <4>1 DEF Phases
        <4> QED
          <5>1. /\ 0 \in 0..7 /\ 0 \in Nat /\ FALSE \in BOOLEAN
                /\ pump \in {"read", "check", "done"} /\ port \in {"open", "gone"}
            BY <4>1
          <5> QED
            BY <1>1, <2>1, <2>2, <3>2, <4>1, <4>2, <5>1, Zenon DEF TypeOK

\* Every step of the caller that holds sendMu keeps the state well typed.
LEMMA CallerType ==
    ASSUME TypeOK, ResetStart \/ ResetStep \/ SendStart \/ SendStep
    PROVE  TypeOK'
  <1> USE ConstantsAssumption
  <1>1. CASE ResetStart
    <2>1. Control("RST", 0) \in Frame
      BY FrameTypes1 DEF FrameTypes
    <2> QED
      BY <1>1, <2>1, HostWriteType
         DEF TypeOK, ResetStart, Phases, reader, ncpVars
  <1>2. CASE ResetAnswered
    <2>1. resetCh' \in Seq(Frame) /\ Len(resetCh') <= ResetCap
      <3>1. resetCh \in Seq(Frame) /\ resetCh # <<>> /\ resetCh' = Tail(resetCh)
            /\ Len(resetCh) <= ResetCap
        BY <1>2 DEF TypeOK, ResetAnswered
      <3> QED
        BY <3>1, TailLemma
    <2> QED
      <3>1. pc' \in Phases /\ txSeq' \in 0..7 /\ rxSeq' \in 0..7
        <4>1. txSeq \in 0..7 /\ rxSeq \in 0..7
          BY DEF TypeOK
        <4> QED
          BY <1>2, <4>1 DEF ResetAnswered, Phases
      <3> QED
        BY <1>2, <2>1, <3>1 DEF TypeOK, ResetAnswered, reader, ncpVars
  <1>3. CASE ResetFails
    BY <1>3 DEF TypeOK, ResetFails, Phases, reader, ncpVars
  <1>4. CASE SendStart
    <2>1. txSeq \in 0..7 /\ rxSeq \in 0..7 /\ calls + 1 \in Nat
      BY DEF TypeOK
    <2>2. DataFrame(txSeq, rxSeq, calls + 1) \in Frame
      BY <2>1, FrameTypes1
    <2> QED
      BY <1>4, <2>1, <2>2 DEF TypeOK, SendStart, Phases, reader, ncpVars
  <1>5. CASE SendDrain
    BY <1>5 DEF TypeOK, SendDrain, Phases, reader, ncpVars
  <1>6. CASE SendWrite
    <2>1. toNcp' \in Seq(Frame)
      BY <1>6, HostWriteType DEF SendWrite, TypeOK
    <2>2. CASE port = "open"
      BY <1>6, <2>1, <2>2 DEF TypeOK, SendWrite, Phases, reader, ncpVars
    <2>3. CASE port # "open"
      BY <1>6, <2>1, <2>3, RetryType DEF TypeOK, SendWrite, reader, ncpVars
    <2> QED
      BY <2>2, <2>3
  <1>7. CASE AwaitAck
    <2>1. ackCh' \in Seq(AckEvent) /\ Len(ackCh') <= AckCap /\ Head(ackCh) \in AckEvent
      BY <1>7, TailLemma DEF TypeOK, AwaitAck
    <2>2. CASE Retry
      BY <1>7, <2>1, <2>2, RetryType DEF TypeOK, AwaitAck, reader, ncpVars
    <2>3. CASE ~Retry
      <3>1. WantAck \in 0..7
        <4>1. frame.frm \in 0..7
          BY FrameFields DEF TypeOK
        <4> QED
          BY <4>1, NumLemma DEF WantAck
      <3> QED
        <4>1. \/ UNCHANGED sender
              \/ /\ txSeq' = WantAck /\ acked' = Append(acked, calls) /\ pc' = "idle"
                 /\ UNCHANGED <<attempt, frame, calls, abandoned>>
          BY <1>7, <2>3 DEF AwaitAck
        <4>2. /\ pc' \in Phases /\ txSeq' \in 0..7 /\ attempt' \in 0..MaxRetries
              /\ frame' \in Frame /\ calls' \in Nat /\ acked' \in Seq(Nat)
              /\ abandoned' \subseteq Nat
          <5>1. /\ pc \in Phases /\ txSeq \in 0..7 /\ attempt \in 0..MaxRetries
                /\ frame \in Frame /\ calls \in Nat /\ acked \in Seq(Nat)
                /\ abandoned \subseteq Nat
            BY DEF TypeOK
          <5> QED
            <6>1. Append(acked, calls) \in Seq(Nat) /\ "idle" \in Phases
              BY <5>1 DEF Phases
            <6> QED
              BY <3>1, <4>1, <5>1, <6>1 DEF sender
        <4> QED
          BY <1>7, <2>1, <4>2 DEF TypeOK, AwaitAck, reader, ncpVars
    <2> QED
      BY <2>2, <2>3
  <1>8. CASE AwaitReset
    <2>1. resetCh' \in Seq(Frame) /\ Len(resetCh') <= ResetCap
      <3>1. resetCh \in Seq(Frame) /\ resetCh # <<>> /\ resetCh' = Tail(resetCh)
            /\ Len(resetCh) <= ResetCap
        BY <1>8 DEF TypeOK, AwaitReset
      <3> QED
        BY <3>1, TailLemma
    <2>2. /\ pc' \in Phases /\ txSeq' \in 0..7 /\ attempt' \in 0..MaxRetries
          /\ frame' \in Frame /\ calls' \in Nat /\ acked' \in Seq(Nat) /\ abandoned' \subseteq Nat
      BY <1>8, RetryType DEF AwaitReset
    <2>3. UNCHANGED <<reader, ncpVars, rxSeq, ackCh, dataCh, closed, port, toNcp, toHost>>
      BY <1>8 DEF AwaitReset
    <2> QED
      BY <2>1, <2>2, <2>3 DEF TypeOK, reader, ncpVars
  <1>9. CASE AwaitTimeout
    BY <1>9, RetryType DEF TypeOK, AwaitTimeout, reader, ncpVars
  <1>10. CASE AwaitAborted
    BY <1>10, RetryType DEF TypeOK, AwaitAborted, reader, ncpVars
  <1> QED
    BY <1>1, <1>2, <1>3, <1>4, <1>5, <1>6, <1>7, <1>8, <1>9, <1>10
       DEF ResetStep, SendStep

\* So does every step of the read pump, the consumer and Close.
LEMMA PumpType ==
    ASSUME TypeOK, PumpStep \/ Consume \/ Close \/ PortLost
    PROVE  TypeOK'
  <1> USE ConstantsAssumption
  <1>1. CASE PumpRecv
    <2>1. /\ toHost' \in Seq(Frame) /\ Head(toHost) \in Frame
      BY <1>1, TailLemma DEF TypeOK, PumpRecv
    <2>2. [num |-> Head(toHost).ack, nak |-> Head(toHost).type = "NAK"] \in AckEvent
      BY <2>1 DEF Frame, AckEvent
    <2>3. /\ SignalAck(Head(toHost)) =>
                ackCh' \in Seq(AckEvent) /\ Len(ackCh') <= AckCap
          /\ resetCh' = Put(resetCh, ResetCap, Head(toHost)) =>
                resetCh' \in Seq(Frame) /\ Len(resetCh') <= ResetCap
      <3>1. /\ ackCh \in Seq(AckEvent) /\ Len(ackCh) <= AckCap /\ AckCap \in Nat
            /\ resetCh \in Seq(Frame) /\ Len(resetCh) <= ResetCap /\ ResetCap \in Nat
        BY DEF TypeOK
      <3>2. SignalAck(Head(toHost)) =>
               ackCh' \in Seq(AckEvent) /\ Len(ackCh') <= AckCap
        BY <2>2, <3>1, PutLemma DEF SignalAck
      <3>3. resetCh' = Put(resetCh, ResetCap, Head(toHost)) =>
               resetCh' \in Seq(Frame) /\ Len(resetCh') <= ResetCap
        BY <2>1, <3>1, PutLemma
      <3> QED
        BY <3>2, <3>3
    <2> QED
      BY <1>1, <2>1, <2>3 DEF TypeOK, PumpRecv, sender, ncpVars
  <1>2. CASE PumpCheck
    <2>1. held.data \in Nat /\ rxSeq + 1 \in Int
      BY DEF TypeOK, Frame
    <2>2. Succ(rxSeq) \in 0..7
      BY <2>1, NumLemma DEF TypeOK
    <2>3. /\ Repeat(held, expect) \in Frame
          /\ Control("ACK", Succ(rxSeq)) \in Frame
      BY <2>2, RepeatType, FrameTypes1 DEF TypeOK, FrameTypes
    <2>4. toNcp' \in Seq(Frame)
      BY <1>2, <2>3, HostWriteType DEF PumpCheck
    <2>5. /\ Put(dataCh, DataCap, held.data) \in Seq(Nat)
          /\ Len(Put(dataCh, DataCap, held.data)) <= DataCap
      BY <2>1, PutLemma DEF TypeOK
    <2> QED
      <3>1. CASE ~Expected
        BY <1>2, <2>4, <3>1 DEF TypeOK, PumpCheck, sender, ncpVars
      <3>2. CASE Expected
        <4>1. got' \in Seq(Nat) /\ dropped' \in Nat
          <5>1. /\ got' \in {got, Append(got, held.data)}
                /\ dropped' \in {dropped, dropped + 1}
            BY <1>2, <3>2 DEF PumpCheck
          <5> QED
            <6>1. got \in Seq(Nat) /\ dropped \in Nat
              BY DEF TypeOK
            <6> QED
              <7>1. Append(got, held.data) \in Seq(Nat) /\ dropped + 1 \in Nat
                BY <2>1, <6>1
              <7> QED
                BY <5>1, <6>1, <7>1
        <4> QED
          BY <1>2, <2>2, <2>4, <2>5, <3>2, <4>1 DEF TypeOK, PumpCheck, RxAdvance, sender, ncpVars
      <3> QED
        BY <3>1, <3>2
  <1>3. CASE PumpCorrupt
    <2>1. Control("NAK", rxSeq) \in Frame
      BY FrameTypes1 DEF FrameTypes, TypeOK
    <2>2. toNcp' \in Seq(Frame)
      BY <1>3, <2>1, HostWriteType DEF PumpCorrupt, TypeOK
    <2>3. toHost' \in Seq(Frame)
      BY <1>3, TailLemma DEF PumpCorrupt, TypeOK
    <2> QED
      BY <1>3, <2>2, <2>3 DEF TypeOK, PumpCorrupt, sender, reader, ncpVars
  <1>4. CASE PumpExit
    BY <1>4 DEF TypeOK, PumpExit, sender, ncpVars
  <1>5. CASE Consume
    BY <1>5, TailLemma DEF TypeOK, Consume, sender, reader, ncpVars
  <1>6. CASE Close
    BY <1>6 DEF TypeOK, Close, sender, reader, ncpVars
  <1>7. CASE PortLost
    BY <1>7 DEF TypeOK, PortLost, sender, reader, ncpVars
  <1> QED
    BY <1>1, <1>2, <1>3, <1>4, <1>5, <1>6, <1>7 DEF PumpStep

\* So does every step of the NCP.
LEMMA NcpType ==
    ASSUME TypeOK, NcpStep
    PROVE  TypeOK'
  <1> USE ConstantsAssumption
  <1>0. Succ(nRx) \in 0..7
    BY NumLemma DEF TypeOK
  <1>1. CASE NcpRecv
    <2>1. toNcp' \in Seq(Frame) /\ Head(toNcp) \in Frame
      BY <1>1, TailLemma DEF TypeOK, NcpRecv
    <2>2. /\ Control("RSTACK", 0) \in Frame /\ Repeat(Head(toNcp), nRx) \in Frame
          /\ Control("ACK", Succ(nRx)) \in Frame
      <3>1. nRx \in 0..7 /\ "RSTACK" \in FrameTypes /\ "ACK" \in FrameTypes
        BY DEF TypeOK, FrameTypes
      <3> QED
        BY <1>0, <2>1, <3>1, RepeatType, FrameTypes1
    <2>3. toHost' \in Seq(Frame)
      BY <1>1, <2>2, NcpWriteType DEF NcpRecv, TypeOK, ncpVars
    <2>4. nAck' \in Nat /\ nNext' \in Nat /\ nMax' \in Nat
      <3>1. nAck \in Nat /\ nNext \in Nat /\ nMax \in Nat
        BY DEF TypeOK
      <3>2. NcpTakeAck(Head(toNcp)) => nAck' \in Nat /\ nNext' \in Nat /\ nMax' \in Nat
        BY <2>1, TakeAckType
      <3> QED
        BY <1>1, <3>1, <3>2 DEF NcpRecv, ncpVars
    <2>5. ncp' \in {"old", "down", "up"} /\ nRx' \in 0..7
      <3>1. nRx \in 0..7 /\ ncp \in {"old", "down", "up"}
        BY DEF TypeOK
      <3> QED
        BY <1>0, <1>1, <3>1 DEF NcpRecv, ncpVars
    <2>6. delivered' \in Seq(Nat)
      <3>1. delivered \in Seq(Nat) /\ Head(toNcp).data \in Nat
        BY <2>1, FrameFields DEF TypeOK
      <3> QED
        <4>1. delivered' \in {delivered, Append(delivered, Head(toNcp).data)}
          BY <1>1 DEF NcpRecv, ncpVars
        <4> QED
          BY <3>1, <4>1
    <2> QED
      BY <1>1, <2>1, <2>3, <2>4, <2>5, <2>6 DEF NcpRecv, TypeOK, sender, reader
  <1>2. CASE NcpCorrupt
    <2>1. Control("NAK", nRx) \in Frame
      BY FrameTypes1 DEF FrameTypes, TypeOK
    <2>2. toHost' \in Seq(Frame)
      BY <1>2, <2>1, NcpWriteType DEF NcpCorrupt, TypeOK
    <2>3. toNcp' \in Seq(Frame)
      BY <1>2, TailLemma DEF NcpCorrupt, TypeOK
    <2> QED
      BY <1>2, <2>2, <2>3 DEF TypeOK, NcpCorrupt, sender, reader, ncpVars
  <1>3. CASE NcpSend
    <2>1. DataFrame(nNext % SeqMod, nRx, nNext + 1) \in Frame
      <3>1. nNext % SeqMod \in 0..7 /\ nRx \in 0..7 /\ nNext + 1 \in Nat
        BY NumLemma DEF TypeOK
      <3> QED
        BY <3>1, FrameTypes1
    <2>2. toHost' \in Seq(Frame)
      BY <1>3, <2>1, NcpWriteType DEF NcpSend
    <2> QED
      BY <1>3, <2>2 DEF TypeOK, NcpSend, sender, reader
  <1>4. CASE NcpTimeout
    BY <1>4 DEF TypeOK, NcpTimeout, sender, reader
  <1>5. CASE NcpReboot
    <2>1. toHost' \in Seq(Frame)
      BY <1>5, NcpWriteType, FrameTypes1 DEF NcpReboot, FrameTypes
    <2> QED
      BY <1>5, <2>1 DEF TypeOK, NcpReboot, sender, reader
  <1> QED
    BY <1>1, <1>2, <1>3, <1>4, <1>5 DEF NcpStep

\* Typing is inductive.
LEMMA StepType == TypeOK /\ [Next]_vars => TypeOK'
  <1> SUFFICES ASSUME TypeOK, [Next]_vars PROVE TypeOK'
    OBVIOUS
  <1>1. CASE UNCHANGED vars
    BY <1>1 DEF TypeOK, vars, sender, reader, ncpVars
  <1>2. CASE Next
    BY <1>1, <1>2, CallerType, PumpType, NcpType DEF Next, Finished
  <1> QED
    BY <1>1, <1>2

\* Every reachable state of the session is well typed: in particular the three
\* channels respect their capacities and both sequence numbers stay in three bits.
THEOREM TypeCorrect == Spec => []TypeOK
  BY InitType, StepType, PTL DEF Spec

-----------------------------------------------------------------------------
(***************************************************************************)
(* The inductive invariant of the host-to-NCP direction.                   *)
(***************************************************************************)
CarriesAck(f) == f.type \in {"DATA", "ACK"}
Before(q, i, t) == \E k \in 1..(i - 1) : q[k].type = t
Holds(q, t) == \E k \in 1..Len(q) : q[k].type = t
InSession == pc \in {"idle"} \cup Sending
Ahead == Len(delivered) = Len(acked) + 1

\* Before the session nothing has been sent.  While the NCP is in an earlier
\* session the host cannot have seen a RSTACK, and a RST not yet read by the NCP
\* precedes every DATA frame.
PhaseInv ==
    /\ ~InSession =>
          /\ acked = <<>> /\ delivered = <<>> /\ abandoned = {}
          /\ calls = 0 /\ ~Holds(toNcp, "DATA")
    /\ ncp = "old" =>
          /\ ~InSession /\ ~Holds(toHost, "RSTACK") /\ ~Holds(resetCh, "RSTACK")
    /\ pc = "new" => ncp # "up" /\ ~Holds(toNcp, "RST")
    /\ Holds(toNcp, "RST") => ncp # "up" /\ delivered = <<>>
    /\ \A i, j \in 1..Len(toNcp) :
          toNcp[i].type = "RST" /\ toNcp[j].type \in {"RST", "DATA"} => i <= j
    /\ \A i \in 1..Len(resetCh) : resetCh[i].type \in {"RSTACK", "ERROR"}

\* Both sequence numbers are the counts they stand for.
CountInv ==
    /\ txSeq = Len(acked) % SeqMod
    /\ ncp = "up" => nRx = Len(delivered) % SeqMod
    /\ WindowOfOne

\* Acknowledgements in flight belong to the frame being sent or the one before it,
\* and the later ones never fall back.
AckWindow ==
    \A i \in 1..Len(toHost) :
       (InSession \/ Holds(resetCh, "RSTACK") \/ Before(toHost, i, "RSTACK"))
          /\ CarriesAck(toHost[i])
       => \/ toHost[i].ack = txSeq
          \/ Ahead /\ toHost[i].ack = Succ(txSeq)

AckOrder ==
    InSession =>
       \A i, j \in 1..Len(toHost) :
          i < j /\ CarriesAck(toHost[i]) /\ CarriesAck(toHost[j])
             /\ toHost[i].ack = Succ(txSeq)
          => toHost[j].ack = Succ(txSeq)

\* An acknowledgement the caller would take for its own is its own.
AckQueued ==
    pc \in {"write", "await"} =>
       \A i \in 1..Len(ackCh) :
          ~ackCh[i].nak /\ ackCh[i].num = Succ(txSeq)
          => /\ Ahead
             /\ \A j \in 1..Len(toHost) :
                   CarriesAck(toHost[j]) => toHost[j].ack = Succ(txSeq)

AckInv == AckWindow /\ AckOrder /\ AckQueued

\* DATA frames in flight carry the current number or the one before it, the older
\* ones first, and none is older once the NCP has accepted the current one.
DataInv ==
    /\ pc \in Sending =>
          /\ frame.type = "DATA" /\ frame.frm = txSeq /\ frame.data = calls
          /\ calls > 0
    /\ \A i \in 1..Len(toNcp) :
          toNcp[i].type = "DATA" =>
             /\ toNcp[i].frm \in {txSeq, Pred(txSeq)}
             /\ Ahead => toNcp[i].frm = txSeq
             /\ toNcp[i].data \in 1..calls
    /\ \A i, j \in 1..Len(toNcp) :
          i < j /\ toNcp[i].type = "DATA" /\ toNcp[j].type = "DATA"
             /\ toNcp[i].frm = txSeq
          => toNcp[j].frm = txSeq

LastAcked == IF acked = <<>> THEN 0 ELSE acked[Len(acked)]

\* A payload that can still be accepted is newer than every accepted one and every
\* acknowledged one, and it is the current one if no Send was abandoned.
PayloadInv ==
    /\ LastAcked <= calls
    /\ pc \in Sending => LastAcked < calls
    /\ \A i \in 1..Len(delivered) : delivered[i] \in 1..calls
    /\ pc \in Sending /\ ~Ahead => \A i \in 1..Len(delivered) : delivered[i] < calls
    /\ \A k \in 1..Len(toNcp) :
          toNcp[k].type = "DATA" /\ toNcp[k].frm = txSeq =>
             /\ LastAcked < toNcp[k].data
             /\ ~Ahead => \A i \in 1..Len(delivered) : delivered[i] < toNcp[k].data
             /\ abandoned = {} => pc \in {"write", "await"} /\ toNcp[k].data = calls
    /\ AtMostOnceInOrder
    /\ AckedIsDelivered

\* The caller, the NCP's receiving side and the queues between them.
IInv == PhaseInv /\ CountInv /\ AckInv /\ DataInv /\ PayloadInv

-----------------------------------------------------------------------------
(***************************************************************************)
(* Queues as the proof sees them: r is q without its head; r is q with x   *)
(* added at the end, or q itself when there was no room.                   *)
(***************************************************************************)
Popped(q, r) ==
    /\ Len(q) \in Nat /\ Len(q) >= 1 /\ Len(r) = Len(q) - 1
    /\ \A i \in 1..Len(r) : r[i] = q[i + 1]

Pushed(q, r, x) ==
    /\ Len(q) \in Nat /\ Len(r) \in {Len(q), Len(q) + 1}
    /\ \A i \in 1..Len(q) : r[i] = q[i]
    /\ \A i \in 1..Len(r) : i > Len(q) => r[i] = x

\* Tail pops.
LEMMA PoppedLemma ==
    ASSUME NEW S, NEW q \in Seq(S), q # <<>>
    PROVE  Popped(q, Tail(q)) /\ Head(q) = q[1]
  BY TailLemma DEF Popped

\* Put pushes, and so does a write that finds no room.
LEMMA PushedLemma ==
    ASSUME NEW S, NEW q \in Seq(S), NEW cap \in Nat, NEW x \in S
    PROVE  Pushed(q, Put(q, cap, x), x) /\ Pushed(q, q, x)
  <1>1. Len(q) \in Nat
    OBVIOUS
  <1>2. Pushed(q, Put(q, cap, x), x)
    BY <1>1 DEF Put, Pushed
  <1> QED
    BY <1>1, <1>2 DEF Pushed

\* Append pushes.
LEMMA AppendLemma ==
    ASSUME NEW S, NEW q \in Seq(S), NEW x \in S
    PROVE  /\ Pushed(q, Append(q, x), x) /\ Len(Append(q, x)) = Len(q) + 1
           /\ Append(q, x) # <<>>
  BY DEF Pushed

\* Either endpoint's write pushes onto its line.
LEMMA WritePushes ==
    ASSUME TypeOK, NEW f \in Frame
    PROVE  /\ HostWrite(f) => Pushed(toNcp, toNcp', f)
           /\ NcpWrite(f) => Pushed(toHost, toHost', f)
  BY PushedLemma, ConstantsAssumption DEF HostWrite, NcpWrite, TypeOK

\* The last acknowledged payload is a number.
LEMMA LastAckedType == TypeOK => LastAcked \in Nat
  <1> SUFFICES ASSUME TypeOK PROVE LastAcked \in Nat
    OBVIOUS
  <1>1. acked \in Seq(Nat)
    BY DEF TypeOK
  <1>2. acked # <<>> => acked[Len(acked)] \in Nat
    BY <1>1
  <1> QED
    BY <1>2 DEF LastAcked

\* The types the proof needs.
LEMMA Types ==
    ASSUME TypeOK
    PROVE  /\ txSeq \in 0..7 /\ nRx \in 0..7 /\ calls \in Nat
           /\ Len(acked) \in Nat /\ Len(delivered) \in Nat
           /\ acked \in Seq(Nat) /\ delivered \in Seq(Nat)
           /\ Len(toNcp) \in Nat /\ Len(toHost) \in Nat
           /\ Len(ackCh) \in Nat /\ Len(resetCh) \in Nat
           /\ \A i \in 1..Len(toNcp) : toNcp[i] \in Frame
           /\ \A i \in 1..Len(toHost) : toHost[i] \in Frame
  BY DEF TypeOK

-----------------------------------------------------------------------------
(***************************************************************************)
(* Most steps leave the caller and the NCP's count alone and only move     *)
(* frames: r holds the frames of q whose type is in T, in q's order, p     *)
(* places further on, and no others of those types.                        *)
(***************************************************************************)
Kept(q, r, p, T) ==
    /\ Len(q) \in Nat /\ Len(r) \in Nat
    /\ \A i \in 1..Len(r) : r[i].type \in T => i + p \in 1..Len(q) /\ r[i] = q[i + p]

\* Pops and pushes of other types keep frames.
LEMMA KeptLemma ==
    ASSUME NEW q, NEW r, NEW T
    PROVE  /\ Popped(q, r) => Kept(q, r, 1, T)
           /\ \A x : Pushed(q, r, x) /\ x.type \notin T => Kept(q, r, 0, T)
           /\ Len(q) \in Nat => Kept(q, q, 0, T)
  BY DEF Popped, Pushed, Kept

caller == <<pc, txSeq, frame, calls, acked, abandoned, delivered>>
OutTypes == {"DATA", "RST"}

\* What is said of the frames on their way to the NCP survives such a step.
LEMMA QuietData ==
    ASSUME DataInv, UNCHANGED caller,
           NEW p \in {0, 1}, Kept(toNcp, toNcp', p, OutTypes)
    PROVE  DataInv'
  <1>1. UNCHANGED <<pc, txSeq, frame, calls, acked, delivered>>
    BY DEF caller
  <1>2. Ahead' = Ahead
    BY <1>1 DEF Ahead
  <1>3. \A i \in 1..Len(toNcp)' :
           toNcp'[i].type = "DATA" => i + p \in 1..Len(toNcp) /\ toNcp'[i] = toNcp[i + p]
    BY DEF Kept, OutTypes
  <1>4. Len(toNcp)' \in Nat
    BY DEF Kept
  <1>5. ASSUME NEW i \in 1..Len(toNcp)', toNcp'[i].type = "DATA"
        PROVE  /\ toNcp'[i].frm \in {txSeq, Pred(txSeq)}
               /\ Ahead => toNcp'[i].frm = txSeq
               /\ toNcp'[i].data \in 1..calls
    BY <1>3, <1>5 DEF DataInv
  <1>6. ASSUME NEW i \in 1..Len(toNcp)', NEW j \in 1..Len(toNcp)', i < j,
               toNcp'[i].type = "DATA", toNcp'[j].type = "DATA", toNcp'[i].frm = txSeq
        PROVE  toNcp'[j].frm = txSeq
    <2>1. i + p \in 1..Len(toNcp) /\ j + p \in 1..Len(toNcp) /\ i + p < j + p
      BY <1>3, <1>4, <1>6
    <2> QED
      BY <1>3, <1>6, <2>1 DEF DataInv
  <1> QED
    BY <1>1, <1>2, <1>5, <1>6 DEF DataInv

\* So does what is said of their payloads.
LEMMA QuietPayload ==
    ASSUME PayloadInv, UNCHANGED caller,
           NEW p \in {0, 1}, Kept(toNcp, toNcp', p, OutTypes)
    PROVE  PayloadInv'
  <1>1. UNCHANGED <<pc, txSeq, calls, acked, abandoned, delivered>>
    BY DEF caller
  <1>2. Ahead' = Ahead /\ AtMostOnceInOrder' = AtMostOnceInOrder
        /\ AckedIsDelivered' = AckedIsDelivered /\ LastAcked' = LastAcked
    BY <1>1 DEF Ahead, AtMostOnceInOrder, AckedIsDelivered, LastAcked
  <1>3. \A i \in 1..Len(toNcp)' :
           toNcp'[i].type = "DATA" => i + p \in 1..Len(toNcp) /\ toNcp'[i] = toNcp[i + p]
    BY DEF Kept, OutTypes
  <1> QED
    BY <1>1, <1>2, <1>3 DEF PayloadInv

\* A frame leaves the line towards the host: what is said of the acknowledgements
\* behind it stays true.
LEMMA PopAcks ==
    ASSUME AckWindow, AckOrder, UNCHANGED caller, Popped(toHost, toHost'),
           Holds(resetCh, "RSTACK")' => \/ Holds(resetCh, "RSTACK")
                                        \/ toHost[1].type = "RSTACK"
    PROVE  AckWindow' /\ AckOrder'
  <1>1. UNCHANGED <<pc, txSeq, acked, delivered>>
    BY DEF caller
  <1>2. Ahead' = Ahead /\ InSession' = InSession
    BY <1>1 DEF Ahead, InSession
  <1>3. /\ Len(toHost) \in Nat /\ Len(toHost)' = Len(toHost) - 1
        /\ \A i \in 1..Len(toHost)' : i + 1 \in 1..Len(toHost) /\ toHost'[i] = toHost[i + 1]
    BY DEF Popped
  <1>4. ASSUME NEW i \in 1..Len(toHost)', CarriesAck(toHost'[i]),
               InSession \/ Holds(resetCh, "RSTACK")' \/ Before(toHost', i, "RSTACK")
        PROVE  \/ toHost'[i].ack = txSeq
               \/ Ahead /\ toHost'[i].ack = Succ(txSeq)
    <2>1. Before(toHost', i, "RSTACK") => Before(toHost, i + 1, "RSTACK")
      BY <1>3 DEF Before
    <2>2. toHost[1].type = "RSTACK" => Before(toHost, i + 1, "RSTACK")
      BY <1>3 DEF Before
    <2>3. InSession \/ Holds(resetCh, "RSTACK") \/ Before(toHost, i + 1, "RSTACK")
      BY <1>4, <2>1, <2>2
    <2> QED
      BY <1>3, <1>4, <2>3 DEF AckWindow
  <1>5. ASSUME InSession, NEW i \in 1..Len(toHost)', NEW j \in 1..Len(toHost)', i < j,
               CarriesAck(toHost'[i]), CarriesAck(toHost'[j]), toHost'[i].ack = Succ(txSeq)
        PROVE  toHost'[j].ack = Succ(txSeq)
    <2>1. i + 1 < j + 1 /\ i + 1 \in 1..Len(toHost) /\ j + 1 \in 1..Len(toHost)
      BY <1>3, <1>5
    <2> QED
      BY <1>3, <1>5, <2>1 DEF AckOrder
  <1>6. AckWindow'
    BY <1>1, <1>2, <1>4 DEF AckWindow
  <1>7. AckOrder'
    BY <1>1, <1>2, <1>5 DEF AckOrder
  <1> QED
    BY <1>6, <1>7

\* A frame joins the line towards the host, carrying the count the NCP has reached.
LEMMA PushAcks ==
    ASSUME AckInv, UNCHANGED caller, UNCHANGED <<ackCh, resetCh>>, txSeq \in 0..7,
           NEW y, Pushed(toHost, toHost', y),
           CarriesAck(y) => y.ack = IF Ahead THEN Succ(txSeq) ELSE txSeq
    PROVE  AckInv'
  <1>1. UNCHANGED <<pc, txSeq, acked, delivered>>
    BY DEF caller
  <1>2. Ahead' = Ahead /\ InSession' = InSession
        /\ Holds(resetCh, "RSTACK")' = Holds(resetCh, "RSTACK")
    BY <1>1 DEF Ahead, InSession, Holds
  <1>3. /\ Len(toHost) \in Nat /\ Len(toHost)' \in Nat
        /\ \A i \in 1..Len(toHost)' :
              \/ i \in 1..Len(toHost) /\ toHost'[i] = toHost[i]
              \/ i = Len(toHost) + 1 /\ toHost'[i] = y
    BY DEF Pushed
  <1>4. Succ(txSeq) # txSeq
    BY NumLemma
  <1>5. ASSUME NEW i \in 1..Len(toHost)', CarriesAck(toHost'[i]),
               InSession \/ Holds(resetCh, "RSTACK") \/ Before(toHost', i, "RSTACK")
        PROVE  \/ toHost'[i].ack = txSeq
               \/ Ahead /\ toHost'[i].ack = Succ(txSeq)
    <2>1. CASE i \in 1..Len(toHost) /\ toHost'[i] = toHost[i]
      <3>1. Before(toHost', i, "RSTACK") => Before(toHost, i, "RSTACK")
        <4>1. \A k \in 1..(i - 1) : toHost'[k] = toHost[k]
          BY <1>3, <2>1
        <4> QED
          BY <4>1 DEF Before
      <3> QED
        BY <1>5, <2>1, <3>1 DEF AckInv, AckWindow
    <2>2. CASE toHost'[i] = y
      BY <1>5, <2>2
    <2> QED
      BY <1>3, <2>1, <2>2
  <1>6. ASSUME InSession, NEW i \in 1..Len(toHost)', NEW j \in 1..Len(toHost)', i < j,
               CarriesAck(toHost'[i]), CarriesAck(toHost'[j]), toHost'[i].ack = Succ(txSeq)
        PROVE  toHost'[j].ack = Succ(txSeq)
    <2>1. i \in 1..Len(toHost) /\ toHost'[i] = toHost[i]
      BY <1>3, <1>6
    <2>2. Ahead
      BY <1>4, <1>6, <2>1 DEF AckInv, AckWindow
    <2>3. CASE j \in 1..Len(toHost) /\ toHost'[j] = toHost[j]
      BY <1>6, <2>1, <2>3 DEF AckInv, AckOrder
    <2>4. CASE toHost'[j] = y
      BY <1>6, <2>2, <2>4
    <2> QED
      BY <1>3, <2>3, <2>4
  <1>7. AckWindow'
    BY <1>1, <1>2, <1>5 DEF AckWindow
  <1>8. AckOrder'
    BY <1>1, <1>2, <1>6 DEF AckOrder
  <1>9. AckQueued'
    BY <1>1, <1>2, <1>3 DEF AckInv, AckQueued
  <1> QED
    BY <1>7, <1>8, <1>9 DEF AckInv

\* A step that only moves frames does not change the phase of the session.
LEMMA QuietPhase ==
    ASSUME PhaseInv, UNCHANGED caller, ncp' = ncp \/ ncp' = "down",
           NEW p \in {0, 1}, Kept(toNcp, toNcp', p, OutTypes),
           ncp' = "old" /\ Holds(toHost, "RSTACK")' => Holds(toHost, "RSTACK"),
           ncp' = "old" /\ Holds(resetCh, "RSTACK")' =>
              Holds(resetCh, "RSTACK") \/ Holds(toHost, "RSTACK"),
           \A i \in 1..Len(resetCh)' : resetCh'[i].type \in {"RSTACK", "ERROR"}
    PROVE  PhaseInv'
  <1>1. UNCHANGED <<pc, calls, acked, abandoned, delivered>>
    BY DEF caller
  <1>2. InSession' = InSession
    BY <1>1 DEF InSession
  <1>3. /\ Len(toNcp) \in Nat /\ Len(toNcp)' \in Nat
        /\ \A i \in 1..Len(toNcp)' :
           toNcp'[i].type \in {"DATA", "RST"} =>
              i + p \in 1..Len(toNcp) /\ toNcp'[i] = toNcp[i + p]
    BY DEF Kept, OutTypes
  <1>4. /\ Holds(toNcp, "DATA")' => Holds(toNcp, "DATA")
        /\ Holds(toNcp, "RST")' => Holds(toNcp, "RST")
    BY <1>3 DEF Holds
  <1>5. ASSUME NEW i \in 1..Len(toNcp)', NEW j \in 1..Len(toNcp)',
               toNcp'[i].type = "RST", toNcp'[j].type \in {"RST", "DATA"}
        PROVE  i <= j
    <2>1. i + p <= j + p
      BY <1>3, <1>5 DEF PhaseInv
    <2> QED
      BY <1>3, <2>1
  <1> QED
    BY <1>1, <1>2, <1>4, <1>5 DEF PhaseInv

-----------------------------------------------------------------------------
(***************************************************************************)
(* The quiet steps.                                                        *)
(***************************************************************************)
\* The NCP's expected number is the caller's, or the next one if the NCP is ahead.
LEMMA NcpCount ==
    ASSUME TypeOK, CountInv, ncp = "up"
    PROVE  nRx = IF Ahead THEN Succ(txSeq) ELSE txSeq
  <1>1. Len(acked) \in Nat /\ Len(delivered) \in Nat
    BY Types
  <1>2. Succ(Len(acked) % SeqMod) = (Len(acked) + 1) % SeqMod
    BY <1>1, NumLemma
  <1> QED
    BY <1>1, <1>2 DEF CountInv, WindowOfOne, Ahead

\* A step that changes neither the caller nor the NCP's count keeps IInv, if it
\* keeps the phase and what is said of acknowledgements.
LEMMA Quiet ==
    ASSUME IInv, UNCHANGED caller, ncp' = "up" => ncp = "up", nRx' = nRx,
           NEW p \in {0, 1}, Kept(toNcp, toNcp', p, OutTypes), PhaseInv', AckInv'
    PROVE  IInv'
  <1>1. CountInv'
    <2>1. UNCHANGED <<txSeq, acked, delivered>>
      BY DEF caller
    <2> QED
      BY <2>1 DEF IInv, CountInv, WindowOfOne
  <1>2. DataInv' /\ PayloadInv'
    BY QuietData, QuietPayload DEF IInv
  <1> QED
    BY <1>1, <1>2 DEF IInv

\* The pump takes a frame off the line: an acknowledgement moves to ackCh, a reset
\* or error report to resetCh.
LEMMA PumpRecvKeeps == TypeOK /\ IInv /\ PumpRecv => IInv'
  <1> SUFFICES ASSUME TypeOK, IInv, PumpRecv PROVE IInv'
    OBVIOUS
  <1> DEFINE f == toHost[1]
  <1>1. toHost \in Seq(Frame) /\ toHost # <<>> /\ toHost' = Tail(toHost)
    BY DEF PumpRecv, TypeOK
  <1>2. Popped(toHost, toHost') /\ Head(toHost) = f
    BY <1>1, PoppedLemma
  <1>3. f \in Frame /\ Len(toHost) \in Nat /\ Len(toHost) >= 1
    BY <1>1, TailLemma
  <1>4. UNCHANGED caller /\ UNCHANGED <<ncp, nRx, toNcp>>
    BY DEF PumpRecv, sender, ncpVars, caller
  <1>5. txSeq \in 0..7 /\ Len(toNcp) \in Nat /\ Len(ackCh) \in Nat /\ Len(resetCh) \in Nat
    BY Types
  <1>6. \/ /\ UNCHANGED resetCh /\ f.type \in {"DATA", "ACK", "NAK"}
           /\ SignalAck(f)
        \/ /\ f.type \in {"RSTACK", "ERROR"} /\ UNCHANGED ackCh
           /\ resetCh' = Put(resetCh, ResetCap, f)
    BY <1>2 DEF PumpRecv
  <1>7. Pushed(resetCh, resetCh', f)
    <2>1. resetCh \in Seq(Frame) /\ ResetCap \in Nat
      BY ConstantsAssumption DEF TypeOK
    <2> QED
      BY <1>3, <1>6, <2>1, PushedLemma
  <1>8. Holds(resetCh, "RSTACK")' => Holds(resetCh, "RSTACK") \/ f.type = "RSTACK"
    BY <1>7 DEF Pushed, Holds
  <1>9. Holds(toHost, "RSTACK")' => Holds(toHost, "RSTACK")
    BY <1>2 DEF Popped, Holds
  <1>10. f.type = "RSTACK" => Holds(toHost, "RSTACK")
    BY <1>3 DEF Holds
  <1>11. \A i \in 1..Len(resetCh)' : resetCh'[i].type \in {"RSTACK", "ERROR"}
    <2>1. \A i \in 1..Len(resetCh) : resetCh[i].type \in {"RSTACK", "ERROR"}
      BY DEF IInv, PhaseInv
    <2>2. CASE UNCHANGED resetCh
      BY <2>1, <2>2
    <2>3. CASE f.type \in {"RSTACK", "ERROR"}
      <3>1. \A i \in 1..Len(resetCh)' : \/ i \in 1..Len(resetCh) /\ resetCh'[i] = resetCh[i]
                                        \/ resetCh'[i] = f
        BY <1>7 DEF Pushed
      <3> QED
        BY <2>1, <2>3, <3>1
    <2> QED
      BY <1>6, <2>2, <2>3
  <1>12. Kept(toNcp, toNcp', 0, OutTypes)
    BY <1>4, <1>5 DEF Kept
  <1>13. PhaseInv'
    BY <1>4, <1>8, <1>9, <1>10, <1>11, <1>12, QuietPhase DEF IInv
  <1>14. AckWindow' /\ AckOrder'
    BY <1>2, <1>4, <1>8, PopAcks DEF IInv, AckInv
  <1>15. AckQueued'
    <2>1. UNCHANGED <<pc, txSeq, acked, delivered>>
      BY <1>4 DEF caller
    <2>2. Ahead' = Ahead
      BY <2>1 DEF Ahead
    <2> SUFFICES ASSUME pc \in {"write", "await"}, NEW i \in 1..Len(ackCh)',
                        ~ackCh'[i].nak, ackCh'[i].num = Succ(txSeq)
                 PROVE  /\ Ahead
                        /\ \A j \in 1..Len(toHost)' :
                              CarriesAck(toHost'[j]) => toHost'[j].ack = Succ(txSeq)
      BY <2>1, <2>2 DEF AckQueued
    <2>3. \A j \in 1..Len(toHost)' :
             /\ j + 1 \in 1..Len(toHost) /\ 1 < j + 1 /\ 1 \in 1..Len(toHost)
             /\ toHost'[j] = toHost[j + 1]
      BY <1>2 DEF Popped
    <2>4. CASE i \in 1..Len(ackCh) /\ ackCh'[i] = ackCh[i]
      BY <2>3, <2>4 DEF IInv, AckInv, AckQueued
    <2>5. CASE SignalAck(f) /\ ~(i \in 1..Len(ackCh) /\ ackCh'[i] = ackCh[i])
      <3> DEFINE ev == [num |-> f.ack, nak |-> f.type = "NAK"]
      <3>1. ackCh \in Seq(AckEvent) /\ AckCap \in Nat
        BY ConstantsAssumption DEF TypeOK
      <3>2. ev \in AckEvent
        BY <1>3, FrameFields DEF AckEvent
      <3>3. Pushed(ackCh, ackCh', ev)
        BY <2>5, <3>1, <3>2, PushedLemma DEF SignalAck
      <3>4. ackCh'[i] = ev
        BY <2>5, <3>3 DEF Pushed
      <3>5. f.ack = Succ(txSeq) /\ f.type # "NAK"
        <4>1. ev.num = f.ack /\ ev.nak = (f.type = "NAK")
          OBVIOUS
        <4>2. ~ev.nak /\ ev.num = Succ(txSeq)
          BY <3>4, Zenon
        <4> HIDE DEF ev
        <4> QED
          BY <4>1, <4>2, Zenon
      <3>6. CASE f.type \in {"DATA", "ACK"}
        <4>1. InSession /\ CarriesAck(f)
          BY <3>6 DEF InSession, CarriesAck, Sending
        <4>2. Succ(txSeq) # txSeq
          BY <1>5, NumLemma
        <4>3. Ahead
          <5>1. 1 \in 1..Len(toHost)
            BY <1>3
          <5> QED
            BY <3>5, <4>1, <4>2, <5>1 DEF IInv, AckInv, AckWindow
        <4> QED
          BY <2>3, <3>5, <4>1, <4>3 DEF IInv, AckInv, AckOrder
      <3>7. CASE f.type \in {"RSTACK", "ERROR"}
        BY <1>6, <2>5, <3>7
      <3> QED
        BY <1>6, <3>5, <3>6, <3>7
    <2>6. CASE UNCHANGED ackCh
      BY <2>4, <2>6
    <2> QED
      BY <1>6, <2>4, <2>5, <2>6
  <1> QED
    BY <1>4, <1>12, <1>13, <1>14, <1>15, Quiet DEF AckInv

\* The other quiet steps move frames and leave both channels alone: a frame leaves
\* the line to the host, or one joins it that carries the NCP's count.
LEMMA Moves ==
    ASSUME TypeOK, IInv, UNCHANGED caller, UNCHANGED <<nRx, ackCh, resetCh>>,
           ncp' = ncp \/ ncp' = "down",
           NEW p \in {0, 1}, Kept(toNcp, toNcp', p, OutTypes),
           NEW y, \/ UNCHANGED toHost
                  \/ Popped(toHost, toHost')
                  \/ /\ Pushed(toHost, toHost', y)
                     /\ CarriesAck(y) => ncp = "up" /\ y.ack = nRx
                     /\ y.type = "RSTACK" => ncp' # "old"
    PROVE  IInv'
  <1>1. txSeq \in 0..7 /\ Len(toHost) \in Nat
    BY Types
  <1>2. Holds(resetCh, "RSTACK")' = Holds(resetCh, "RSTACK")
    BY DEF Holds
  <1>3. ncp' = "old" /\ Holds(toHost, "RSTACK")' => Holds(toHost, "RSTACK")
    <2>1. CASE UNCHANGED toHost
      BY <2>1 DEF Holds
    <2>2. CASE Popped(toHost, toHost')
      BY <2>2 DEF Popped, Holds
    <2>3. CASE Pushed(toHost, toHost', y) /\ (y.type = "RSTACK" => ncp' # "old")
      BY <2>3 DEF Pushed, Holds
    <2> QED
      BY <2>1, <2>2, <2>3
  <1>4. \A i \in 1..Len(resetCh)' : resetCh'[i].type \in {"RSTACK", "ERROR"}
    BY DEF IInv, PhaseInv
  <1>5. PhaseInv'
    BY <1>2, <1>3, <1>4, QuietPhase DEF IInv
  <1>6. AckInv'
    <2>1. UNCHANGED <<pc, txSeq, acked, delivered>>
      BY DEF caller
    <2>2. Ahead' = Ahead /\ InSession' = InSession
      BY <2>1 DEF Ahead, InSession
    <2>3. CASE UNCHANGED toHost
      <3>1. AckWindow' /\ AckOrder'
        BY <1>2, <2>1, <2>2, <2>3 DEF IInv, AckInv, AckWindow, AckOrder, Before
      <3>2. AckQueued'
        BY <2>1, <2>2, <2>3 DEF IInv, AckInv, AckQueued
      <3> QED
        BY <3>1, <3>2 DEF AckInv
    <2>4. CASE Popped(toHost, toHost')
      <3>1. AckWindow' /\ AckOrder'
        BY <1>2, <2>4, PopAcks DEF IInv, AckInv
      <3>2. \A j \in 1..Len(toHost)' : j + 1 \in 1..Len(toHost) /\ toHost'[j] = toHost[j + 1]
        BY <2>4 DEF Popped
      <3>3. AckQueued'
        BY <2>1, <2>2, <3>2 DEF IInv, AckInv, AckQueued
      <3> QED
        BY <3>1, <3>3 DEF AckInv
    <2>5. CASE Pushed(toHost, toHost', y) /\ (CarriesAck(y) => ncp = "up" /\ y.ack = nRx)
      <3>1. CarriesAck(y) => y.ack = IF Ahead THEN Succ(txSeq) ELSE txSeq
        BY <2>5, NcpCount DEF IInv
      <3> QED
        BY <1>1, <2>5, <3>1, PushAcks DEF IInv
    <2> QED
      BY <2>3, <2>4, <2>5
  <1> QED
    BY <1>5, <1>6, Quiet

\* The pump's answer to a DATA frame carries no payload and no reset.
LEMMA PumpCheckKeeps == TypeOK /\ IInv /\ (PumpCheck \/ PumpCorrupt) => IInv'
  <1> SUFFICES ASSUME TypeOK, IInv, PumpCheck \/ PumpCorrupt PROVE IInv'
    OBVIOUS
  <1>1. UNCHANGED caller /\ UNCHANGED <<ncp, nRx, ackCh, resetCh>>
    BY DEF PumpCheck, PumpCorrupt, sender, ncpVars, caller
  <1>2. UNCHANGED toHost \/ Popped(toHost, toHost')
    <2>1. toHost \in Seq(Frame)
      BY DEF TypeOK
    <2> QED
      BY <2>1, PoppedLemma DEF PumpCheck, PumpCorrupt
  <1>3. \/ UNCHANGED toNcp
        \/ \E t \in {"ACK", "NAK"} : \E a \in 0..7 : HostWrite(Control(t, a))
    <2>1. rxSeq \in 0..7 /\ expect \in 0..7
      BY DEF TypeOK
    <2>2. Succ(rxSeq) \in 0..7
      BY <2>1, NumLemma
    <2> QED
      BY <2>1, <2>2 DEF PumpCheck, PumpCorrupt, Repeat
  <1>4. Kept(toNcp, toNcp', 0, OutTypes)
    <2>1. CASE UNCHANGED toNcp
      <3>1. Len(toNcp) \in Nat
        BY Types
      <3> QED
        BY <2>1, <3>1 DEF Kept
    <2>2. ASSUME NEW t \in {"ACK", "NAK"}, NEW a \in 0..7, HostWrite(Control(t, a))
          PROVE  Kept(toNcp, toNcp', 0, OutTypes)
      <3>1. Control(t, a) \in Frame
        BY FrameTypes1 DEF FrameTypes
      <3>2. Pushed(toNcp, toNcp', Control(t, a))
        BY <2>2, <3>1, WritePushes
      <3>3. Control(t, a).type \notin OutTypes
        BY DEF Control, OutTypes
      <3> QED
        BY <3>2, <3>3, KeptLemma
    <2> QED
      BY <1>3, <2>1, <2>2
  <1> QED
    BY <1>1, <1>2, <1>4, Moves

\* So do the NCP's steps that neither start a session nor accept a payload.
LEMMA NcpQuiet ==
    TypeOK /\ IInv /\ (NcpCorrupt \/ NcpSend \/ NcpReboot \/ NcpTimeout) => IInv'
  <1> SUFFICES ASSUME TypeOK, IInv, NcpCorrupt \/ NcpSend \/ NcpReboot \/ NcpTimeout
               PROVE  IInv'
    OBVIOUS
  <1>1. UNCHANGED caller /\ UNCHANGED <<nRx, ackCh, resetCh>> /\ (ncp' = ncp \/ ncp' = "down")
    BY DEF NcpCorrupt, NcpSend, NcpReboot, NcpTimeout, sender, ncpVars, caller
  <1>2. /\ toNcp \in Seq(Frame) /\ Len(toNcp) \in Nat /\ nRx \in 0..7
        /\ nNext \in Nat
    BY DEF TypeOK
  <1>3. \E p \in {0, 1} : Kept(toNcp, toNcp', p, OutTypes)
    <2>1. CASE UNCHANGED toNcp
      BY <1>2, <2>1 DEF Kept
    <2>2. CASE NcpCorrupt
      BY <1>2, <2>2, PoppedLemma, KeptLemma DEF NcpCorrupt
    <2> QED
      BY <2>1, <2>2 DEF NcpSend, NcpReboot, NcpTimeout
  <1>4. \E y : \/ UNCHANGED toHost
               \/ /\ Pushed(toHost, toHost', y)
                  /\ CarriesAck(y) => ncp = "up" /\ y.ack = nRx
                  /\ y.type = "RSTACK" => ncp' # "old"
    <2>1. CASE UNCHANGED toHost
      BY <2>1
    <2>2. CASE NcpCorrupt /\ NcpWrite(Control("NAK", nRx))
      <3>1. Control("NAK", nRx) \in Frame
        BY <1>2, FrameTypes1 DEF FrameTypes
      <3>2. Pushed(toHost, toHost', Control("NAK", nRx))
        BY <2>2, <3>1, WritePushes
      <3>3. Control("NAK", nRx).type = "NAK"
        BY DEF Control
      <3> QED
        BY <3>2, <3>3 DEF CarriesAck
    <2>3. CASE NcpSend
      <3> DEFINE y == DataFrame(nNext % SeqMod, nRx, nNext + 1)
      <3>1. y \in Frame
        <4>1. nNext % SeqMod \in 0..7
          BY <1>2, NumLemma
        <4> QED
          BY <1>2, <4>1, FrameTypes1
      <3>2. Pushed(toHost, toHost', y)
        BY <2>3, <3>1, WritePushes DEF NcpSend
      <3>3. y.type = "DATA" /\ y.ack = nRx
        BY DEF DataFrame
      <3> QED
        BY <2>3, <3>2, <3>3 DEF CarriesAck, NcpSend
    <2>4. ASSUME NcpReboot, NEW t \in {"RSTACK", "ERROR"}, NcpWrite(Control(t, 0))
          PROVE  \E y : /\ Pushed(toHost, toHost', y)
                        /\ CarriesAck(y) => ncp = "up" /\ y.ack = nRx
                        /\ y.type = "RSTACK" => ncp' # "old"
      <3>1. Control(t, 0) \in Frame
        BY FrameTypes1 DEF FrameTypes
      <3>2. Pushed(toHost, toHost', Control(t, 0))
        BY <2>4, <3>1, WritePushes
      <3>3. Control(t, 0).type = t
        BY DEF Control
      <3> QED
        BY <2>4, <3>2, <3>3 DEF CarriesAck, NcpReboot
    <2> QED
      BY <2>1, <2>2, <2>3, <2>4 DEF NcpCorrupt, NcpReboot, NcpTimeout
  <1>5. PICK p \in {0, 1} : Kept(toNcp, toNcp', p, OutTypes)
    BY <1>3
  <1>6. PICK y : \/ UNCHANGED toHost
                 \/ /\ Pushed(toHost, toHost', y)
                    /\ CarriesAck(y) => ncp = "up" /\ y.ack = nRx
                    /\ y.type = "RSTACK" => ncp' # "old"
    BY <1>4
  <1> QED
    BY <1>1, <1>5, <1>6, Moves

\* Steps that touch nothing IInv speaks of.
LEMMA IdleKeeps ==
    TypeOK /\ IInv /\ (PumpExit \/ Consume \/ Close \/ PortLost \/ UNCHANGED vars) => IInv'
  <1> SUFFICES ASSUME TypeOK, IInv,
                      PumpExit \/ Consume \/ Close \/ PortLost \/ UNCHANGED vars
               PROVE  IInv'
    OBVIOUS
  <1>1. UNCHANGED caller /\ UNCHANGED <<ncp, nRx, ackCh, resetCh, toNcp, toHost>>
    BY DEF PumpExit, Consume, Close, PortLost, vars, sender, ncpVars, caller
  <1>2. Kept(toNcp, toNcp', 0, OutTypes)
    <2>1. Len(toNcp) \in Nat
      BY Types
    <2> QED
      BY <1>1, <2>1 DEF Kept
  <1> QED
    BY <1>1, <1>2, Moves

-----------------------------------------------------------------------------
(***************************************************************************)
(* The NCP starts a session, answers a DATA frame, or accepts one.         *)
(***************************************************************************)
\* The RST the host sent is the only one, it is read before any payload, and the
\* two counts agree when the NCP answers it.
LEMMA NcpRstKeeps ==
    ASSUME TypeOK, IInv, NcpRecv, Head(toNcp).type = "RST"
    PROVE  IInv'
  <1>1. /\ toNcp \in Seq(Frame) /\ toNcp # <<>> /\ toNcp' = Tail(toNcp)
        /\ ncp' = "up" /\ nRx' = 0 /\ NcpWrite(Control("RSTACK", 0))
        /\ UNCHANGED caller /\ UNCHANGED <<ackCh, resetCh>>
    BY DEF NcpRecv, TypeOK, sender, caller
  <1>2. Popped(toNcp, toNcp') /\ toNcp[1].type = "RST"
    BY <1>1, PoppedLemma
  <1>3. /\ Len(toNcp) \in Nat /\ Len(toNcp) >= 1 /\ 1 \in 1..Len(toNcp)
        /\ \A i \in 1..Len(toNcp)' :
              i + 1 \in 1..Len(toNcp) /\ ~(i + 1 <= 1) /\ toNcp'[i] = toNcp[i + 1]
    BY <1>2 DEF Popped
  <1>4. Holds(toNcp, "RST")
    BY <1>2, <1>3 DEF Holds
  <1>5. pc # "new" /\ ncp # "up" /\ delivered = <<>>
    BY <1>4 DEF IInv, PhaseInv
  <1>6. UNCHANGED <<pc, txSeq, calls, acked, abandoned, delivered>>
    BY <1>1 DEF caller
  <1>7. Kept(toNcp, toNcp', 1, OutTypes)
    BY <1>2, KeptLemma
  <1>8. CountInv'
    <2>1. Len(delivered) = 0
      BY <1>5
    <2> QED
      BY <1>1, <1>6, <2>1, NumLemma DEF IInv, CountInv, WindowOfOne
  <1>9. DataInv' /\ PayloadInv'
    BY <1>1, <1>7, QuietData, QuietPayload DEF IInv
  <1>10. AckInv'
    <2>1. Control("RSTACK", 0) \in Frame
      BY FrameTypes1 DEF FrameTypes
    <2>2. Pushed(toHost, toHost', Control("RSTACK", 0))
      BY <1>1, <2>1, WritePushes
    <2>3. ~CarriesAck(Control("RSTACK", 0))
      BY DEF CarriesAck, Control
    <2>4. txSeq \in 0..7
      BY Types
    <2> QED
      BY <1>1, <2>2, <2>3, <2>4, PushAcks DEF IInv
  <1>11. PhaseInv'
    <2>1. InSession' = InSession
      BY <1>6 DEF InSession
    <2>2. Holds(toNcp, "DATA")' => Holds(toNcp, "DATA")
      BY <1>3 DEF Holds
    <2>3. \A i \in 1..Len(toNcp)' : toNcp'[i].type # "RST"
      BY <1>2, <1>3 DEF IInv, PhaseInv
    <2>4. ~Holds(toNcp, "RST")'
      BY <2>3 DEF Holds
    <2>5. \A i \in 1..Len(resetCh)' : resetCh'[i].type \in {"RSTACK", "ERROR"}
      BY <1>1 DEF IInv, PhaseInv
    <2> QED
      BY <1>1, <1>5, <1>6, <2>1, <2>2, <2>3, <2>4, <2>5 DEF IInv, PhaseInv
  <1> QED
    BY <1>8, <1>9, <1>10, <1>11 DEF IInv

\* Where the NCP is when a DATA frame of the host reaches it: the session has
\* begun on both sides.
LEMMA DataMeansUp ==
    ASSUME IInv, NEW k \in 1..Len(toNcp), toNcp[k].type = "DATA", NcpListens
    PROVE  InSession /\ ncp = "up"
  <1>1. Holds(toNcp, "DATA")
    BY DEF Holds
  <1> QED
    BY <1>1 DEF IInv, PhaseInv, NcpListens

\* Everything else the NCP reads without accepting a payload.
LEMMA NcpRecvQuiet ==
    ASSUME TypeOK, IInv, NcpRecv, Head(toNcp).type # "RST", delivered' = delivered
    PROVE  IInv'
  <1> DEFINE f == Head(toNcp)
  <1>1. toNcp \in Seq(Frame) /\ toNcp # <<>> /\ toNcp' = Tail(toNcp)
    BY DEF NcpRecv, TypeOK
  <1>2. Popped(toNcp, toNcp') /\ f = toNcp[1] /\ f \in Frame /\ 1 \in 1..Len(toNcp)
    BY <1>1, PoppedLemma, TailLemma
  <1>3. Kept(toNcp, toNcp', 1, OutTypes)
    BY <1>2, KeptLemma
  <1>4. delivered \in Seq(Nat) /\ nRx \in 0..7 /\ f.data \in Nat
    BY <1>2, FrameFields DEF TypeOK
  <1>5. UNCHANGED <<ncp, ackCh, resetCh>> /\ UNCHANGED caller
    BY DEF NcpRecv, sender, ncpVars, caller
  <1>6. Append(delivered, f.data) # delivered
    <2>1. Len(Append(delivered, f.data)) = Len(delivered) + 1 /\ Len(delivered) \in Nat
      BY <1>4
    <2> QED
      BY <2>1
  <1>7. \/ UNCHANGED <<nRx, toHost>>
        \/ /\ UNCHANGED nRx /\ f.type = "DATA" /\ NcpListens
           /\ NcpWrite(Repeat(f, nRx))
    BY <1>6 DEF NcpRecv, ncpVars
  <1>8. CASE UNCHANGED <<nRx, toHost>>
    BY <1>3, <1>5, <1>8, Moves
  <1>9. CASE /\ UNCHANGED nRx /\ f.type = "DATA" /\ NcpListens
             /\ NcpWrite(Repeat(f, nRx))
    <2> DEFINE y == Repeat(f, nRx)
    <2>1. Pushed(toHost, toHost', y)
      BY <1>2, <1>4, <1>9, RepeatType, WritePushes
    <2>2. y.ack = nRx /\ y.type \in {"ACK", "NAK"}
      BY DEF Repeat, Control
    <2>3. ncp = "up"
      BY <1>2, <1>9, DataMeansUp
    <2> HIDE DEF y
    <2> QED
      BY <1>3, <1>5, <1>9, <2>1, <2>2, <2>3, Moves
  <1> QED
    BY <1>7, <1>8, <1>9

\* The NCP accepts a payload: it is the number the caller is at, and nothing the NCP
\* accepted or acknowledged so far is as new.
LEMMA AcceptFacts ==
    ASSUME TypeOK, IInv, NcpRecv, delivered' # delivered
    PROVE  /\ InSession /\ ncp = "up" /\ ~Ahead /\ Len(delivered) = Len(acked)
           /\ nRx = txSeq /\ nRx' = Succ(txSeq)
           /\ Popped(toNcp, toNcp') /\ 1 \in 1..Len(toNcp)
           /\ toNcp[1] \in Frame /\ toNcp[1].type = "DATA" /\ toNcp[1].frm = txSeq
           /\ delivered' = Append(delivered, toNcp[1].data)
           /\ Pushed(toHost, toHost', Control("ACK", Succ(txSeq)))
           /\ UNCHANGED <<pc, txSeq, frame, calls, acked, abandoned, ackCh, resetCh, ncp>>
  <1> DEFINE f == toNcp[1]
  <1>1. toNcp \in Seq(Frame) /\ toNcp # <<>> /\ toNcp' = Tail(toNcp)
    BY DEF NcpRecv, TypeOK
  <1>2. Popped(toNcp, toNcp') /\ Head(toNcp) = f /\ f \in Frame /\ 1 \in 1..Len(toNcp)
    BY <1>1, PoppedLemma, TailLemma
  <1>3. /\ f.type = "DATA" /\ NcpListens /\ f.frm = nRx /\ nRx' = Succ(nRx)
        /\ delivered' = Append(delivered, f.data)
        /\ NcpWrite(Control("ACK", Succ(nRx)))
        /\ UNCHANGED <<pc, txSeq, frame, calls, acked, abandoned, ackCh, resetCh, ncp>>
    BY <1>2 DEF NcpRecv, ncpVars, sender
  <1>4. InSession /\ ncp = "up"
    BY <1>2, <1>3, DataMeansUp
  <1>5. txSeq \in 0..7 /\ nRx \in 0..7
    BY Types
  <1>6. Succ(txSeq) # txSeq /\ Succ(nRx) \in 0..7
    BY <1>5, NumLemma
  <1>7. nRx = IF Ahead THEN Succ(txSeq) ELSE txSeq
    BY <1>4, NcpCount DEF IInv
  <1>8. Ahead => f.frm = txSeq
    BY <1>2, <1>3 DEF IInv, DataInv
  <1>9. ~Ahead /\ nRx = txSeq
    BY <1>3, <1>6, <1>7, <1>8
  <1>10. Len(delivered) = Len(acked)
    BY <1>9 DEF IInv, CountInv, WindowOfOne, Ahead
  <1>11. Control("ACK", Succ(nRx)) \in Frame
    BY <1>6, FrameTypes1 DEF FrameTypes
  <1>12. Pushed(toHost, toHost', Control("ACK", Succ(nRx)))
    BY <1>3, <1>11, WritePushes
  <1> QED
    BY <1>2, <1>3, <1>4, <1>9, <1>10, <1>12

\* So the payload is new, and the acknowledgement the NCP writes is the only one on
\* its way that answers it.
LEMMA AcceptKeeps ==
    ASSUME TypeOK, IInv, NcpRecv, delivered' # delivered
    PROVE  IInv'
  <1> DEFINE f == toNcp[1]
             y == Control("ACK", Succ(txSeq))
  <1>1. /\ InSession /\ ncp = "up" /\ ~Ahead /\ Len(delivered) = Len(acked)
        /\ nRx = txSeq /\ nRx' = Succ(txSeq)
        /\ Popped(toNcp, toNcp') /\ 1 \in 1..Len(toNcp)
        /\ f \in Frame /\ f.type = "DATA" /\ f.frm = txSeq
        /\ delivered' = Append(delivered, f.data)
        /\ Pushed(toHost, toHost', y)
        /\ UNCHANGED <<pc, txSeq, frame, calls, acked, abandoned, ackCh, resetCh, ncp>>
    BY AcceptFacts
  <1>2. /\ txSeq \in 0..7 /\ Len(acked) \in Nat /\ delivered \in Seq(Nat)
        /\ calls \in Nat
    BY Types
  <1>3. Succ(txSeq) # txSeq /\ Succ(txSeq) = (Len(acked) + 1) % SeqMod
    BY <1>2, NumLemma DEF IInv, CountInv
  <1>4. f.data \in Nat
    BY <1>1, FrameFields
  <1>5. /\ Len(delivered)' = Len(acked) + 1 /\ delivered' # <<>>
        /\ \A i \in 1..Len(delivered)' :
              \/ i \in 1..Len(delivered) /\ delivered'[i] = delivered[i]
              \/ i = Len(delivered) + 1 /\ delivered'[i] = f.data
    <2>1. Pushed(delivered, delivered', f.data) /\ Len(delivered)' = Len(delivered) + 1
          /\ delivered' # <<>>
      BY <1>1, <1>2, <1>4, AppendLemma
    <2> QED
      BY <1>1, <1>2, <2>1 DEF Pushed
  <1>6. Ahead' /\ InSession' = InSession
    BY <1>1, <1>5 DEF Ahead, InSession
  <1>7. CountInv'
    BY <1>1, <1>2, <1>3, <1>5 DEF IInv, CountInv, WindowOfOne
  <1>8. /\ Len(toNcp) \in Nat
        /\ \A i \in 1..Len(toNcp)' :
              i + 1 \in 1..Len(toNcp) /\ 1 < i + 1 /\ toNcp'[i] = toNcp[i + 1]
    BY <1>1 DEF Popped
  <1>9. PhaseInv'
    <2>1. ~Holds(toNcp, "RST")'
      <3>1. ~Holds(toNcp, "RST")
        BY <1>1 DEF IInv, PhaseInv
      <3> QED
        BY <1>8, <3>1 DEF Holds
    <2>2. \A i \in 1..Len(toNcp)' : toNcp'[i].type # "RST"
      BY <2>1 DEF Holds
    <2>3. pc # "new" /\ InSession'
      BY <1>1, <1>6 DEF InSession, Sending
    <2>4. \A i \in 1..Len(resetCh)' : resetCh'[i].type \in {"RSTACK", "ERROR"}
      BY <1>1 DEF IInv, PhaseInv
    <2> QED
      BY <1>1, <2>1, <2>2, <2>3, <2>4 DEF PhaseInv
  <1>10. \A i \in 1..Len(toHost)' :
            \/ i \in 1..Len(toHost) /\ toHost'[i] = toHost[i]
            \/ i = Len(toHost) + 1 /\ toHost'[i] = y
    BY <1>1 DEF Pushed
  <1>11. \A i \in 1..Len(toHost) : CarriesAck(toHost[i]) => toHost[i].ack = txSeq
    BY <1>1 DEF IInv, AckInv, AckWindow
  <1>12. y.ack = Succ(txSeq)
    BY DEF Control
  <1> HIDE DEF y
  <1>13. AckInv'
    <2>1. AckWindow'
      BY <1>1, <1>6, <1>10, <1>11, <1>12 DEF AckWindow
    <2>2. ASSUME NEW i \in 1..Len(toHost)', NEW j \in 1..Len(toHost)', i < j,
                 CarriesAck(toHost'[i]), toHost'[i].ack = Succ(txSeq)
          PROVE  FALSE
      <3>1. Len(toHost) \in Nat /\ Len(toHost)' \in {Len(toHost), Len(toHost) + 1}
        BY <1>1 DEF Pushed
      <3>2. i \in 1..Len(toHost) /\ toHost'[i] = toHost[i]
        BY <1>10, <2>2, <3>1
      <3> QED
        BY <1>3, <1>11, <2>2, <3>2
    <2>3. AckOrder'
      BY <1>1, <2>2 DEF AckOrder
    <2>4. AckQueued'
      BY <1>1 DEF IInv, AckInv, AckQueued
    <2> QED
      BY <2>1, <2>3, <2>4 DEF AckInv
  <1>14. \A i \in 1..Len(toNcp)' : toNcp'[i].type = "DATA" => toNcp'[i].frm = txSeq
    BY <1>1, <1>8 DEF IInv, DataInv
  <1>15. DataInv'
    <2>1. \A i \in 1..Len(toNcp)' : toNcp'[i].type = "DATA" => toNcp'[i].data \in 1..calls
      BY <1>8 DEF IInv, DataInv
    <2>2. pc \in Sending => /\ frame.type = "DATA" /\ frame.frm = txSeq
                            /\ frame.data = calls /\ calls > 0
      BY DEF IInv, DataInv
    <2> QED
      BY <1>1, <1>14, <2>1, <2>2 DEF DataInv
  <1>16. f.data \in 1..calls
    BY <1>1 DEF IInv, DataInv
  <1>17. /\ \A i \in 1..Len(delivered) : delivered[i] < f.data
         /\ abandoned = {} => pc \in {"write", "await"} /\ f.data = calls
    BY <1>1 DEF IInv, PayloadInv
  <1>18. PayloadInv'
    <2>1. \A i \in 1..Len(delivered)' : delivered'[i] \in 1..calls
      BY <1>5, <1>16 DEF IInv, PayloadInv
    <2>2. AtMostOnceInOrder'
      <3>1. ASSUME NEW i \in 1..Len(delivered)', NEW j \in 1..Len(delivered)', i < j
            PROVE  delivered'[i] < delivered'[j]
        <4>1. i \in 1..Len(delivered) /\ delivered'[i] = delivered[i]
          BY <1>1, <1>2, <1>5, <3>1
        <4>2. CASE j \in 1..Len(delivered) /\ delivered'[j] = delivered[j]
          BY <3>1, <4>1, <4>2 DEF IInv, PayloadInv, AtMostOnceInOrder
        <4>3. CASE delivered'[j] = f.data
          BY <1>17, <4>1, <4>3
        <4> QED
          BY <1>5, <4>2, <4>3
      <3> QED
        BY <3>1 DEF AtMostOnceInOrder
    <2>3. AckedIsDelivered'
      <3>1. CASE abandoned = {}
        <4>1. delivered = acked
          <5>1. delivered = Append(acked, calls) => Len(delivered) = Len(acked) + 1
            <6>1. acked \in Seq(Nat)
              BY Types
            <6> QED
              BY <1>2, <6>1
          <5> QED
            BY <1>1, <1>2, <3>1, <5>1 DEF IInv, PayloadInv, AckedIsDelivered
        <4> QED
          BY <1>1, <1>17, <3>1, <4>1 DEF AckedIsDelivered
      <3>2. CASE abandoned # {}
        BY <1>1, <3>2 DEF AckedIsDelivered
      <3> QED
        BY <3>1, <3>2
    <2>4. \A k \in 1..Len(toNcp)' :
             toNcp'[k].type = "DATA" /\ toNcp'[k].frm = txSeq =>
                /\ LastAcked < toNcp'[k].data
                /\ abandoned = {} => pc \in {"write", "await"} /\ toNcp'[k].data = calls
      BY <1>8 DEF IInv, PayloadInv
    <2>5. LastAcked' = LastAcked
      BY <1>1 DEF LastAcked
    <2>6. LastAcked <= calls /\ (pc \in Sending => LastAcked < calls)
      BY DEF IInv, PayloadInv
    <2> QED
      BY <1>1, <1>6, <2>1, <2>2, <2>3, <2>4, <2>5, <2>6 DEF PayloadInv
  <1> QED
    BY <1>7, <1>9, <1>13, <1>15, <1>18 DEF IInv

-----------------------------------------------------------------------------
(***************************************************************************)
(* The caller: Reset.                                                      *)
(***************************************************************************)
\* With nothing sent and nothing accepted, what is said of payloads holds.
LEMMA NothingSent ==
    ASSUME pc' \notin Sending, calls' = 0, acked' = <<>>, delivered' = <<>>,
           ~Holds(toNcp, "DATA")'
    PROVE  DataInv' /\ PayloadInv'
  <1>1. Len(acked)' = 0 /\ Len(delivered)' = 0
    OBVIOUS
  <1>2. \A i \in 1..Len(toNcp)' : toNcp'[i].type # "DATA"
    BY DEF Holds
  <1>3. DataInv'
    BY <1>2 DEF DataInv
  <1>4. AtMostOnceInOrder' /\ AckedIsDelivered'
    BY <1>1 DEF AtMostOnceInOrder, AckedIsDelivered
  <1>5. LastAcked' = 0
    BY DEF LastAcked
  <1> QED
    BY <1>1, <1>2, <1>3, <1>4, <1>5 DEF PayloadInv

\* Reset writes the only RST there is.
LEMMA ResetStartKeeps == TypeOK /\ IInv /\ ResetStart => IInv'
  <1> SUFFICES ASSUME TypeOK, IInv, ResetStart PROVE IInv'
    OBVIOUS
  <1> DEFINE y == Control("RST", 0)
  <1>1. /\ pc = "new" /\ pc' \in {"rst", "dead"} /\ resetCh' = <<>> /\ HostWrite(y)
        /\ UNCHANGED <<txSeq, calls, acked, abandoned, delivered, ncp, nRx, ackCh, toHost>>
    BY DEF ResetStart, ncpVars
  <1>2. ~InSession /\ ~InSession' /\ pc' \notin Sending /\ pc' \notin {"write", "await"}
    BY <1>1 DEF InSession, Sending
  <1>3. /\ acked = <<>> /\ delivered = <<>> /\ abandoned = {} /\ calls = 0
        /\ ncp # "up" /\ ~Holds(toNcp, "RST") /\ ~Holds(toNcp, "DATA")
    BY <1>1, <1>2 DEF IInv, PhaseInv
  <1>4. Pushed(toNcp, toNcp', y) /\ y.type = "RST"
    <2>1. y \in Frame
      BY FrameTypes1 DEF FrameTypes
    <2> QED
      BY <1>1, <2>1, WritePushes DEF Control
  <1> HIDE DEF y
  <1>5. /\ Len(toNcp) \in Nat
        /\ \A i \in 1..Len(toNcp)' :
              \/ i \in 1..Len(toNcp) /\ toNcp'[i].type \notin {"RST", "DATA"}
              \/ i = Len(toNcp) + 1 /\ toNcp'[i] = y
    BY <1>3, <1>4 DEF Pushed, Holds
  <1>6. ~Holds(toNcp, "DATA")'
    BY <1>4, <1>5 DEF Holds
  <1>7. ~Holds(resetCh, "RSTACK")' /\ Len(resetCh)' = 0
    BY <1>1 DEF Holds
  <1>8. PhaseInv'
    <2>1. \A i, j \in 1..Len(toNcp)' :
             toNcp'[i].type = "RST" /\ toNcp'[j].type \in {"RST", "DATA"} => i <= j
      BY <1>5
    <2>2. ncp = "old" => ~Holds(toHost, "RSTACK")'
      BY <1>1 DEF IInv, PhaseInv, Holds
    <2> QED
      BY <1>1, <1>2, <1>3, <1>6, <1>7, <2>1, <2>2 DEF PhaseInv
  <1>9. CountInv'
    BY <1>1 DEF IInv, CountInv, WindowOfOne
  <1>10. AckInv'
    <2>1. Ahead' = Ahead
      BY <1>1 DEF Ahead
    <2>2. AckWindow'
      BY <1>1, <1>2, <1>7, <2>1 DEF IInv, AckInv, AckWindow, Before
    <2> QED
      BY <1>2, <2>2 DEF AckInv, AckOrder, AckQueued
  <1>11. DataInv' /\ PayloadInv'
    BY <1>1, <1>2, <1>3, <1>6, NothingSent
  <1> QED
    BY <1>8, <1>9, <1>10, <1>11 DEF IInv

\* Reset's answer: both counts are zero when the session begins, and every
\* acknowledgement behind the RSTACK is from this session.
LEMMA ResetEndKeeps == TypeOK /\ IInv /\ (ResetAnswered \/ ResetFails) => IInv'
  <1> SUFFICES ASSUME TypeOK, IInv, ResetAnswered \/ ResetFails PROVE IInv'
    OBVIOUS
  <1>1. /\ pc = "rst" /\ pc' \in {"idle", "dead"}
        /\ UNCHANGED <<calls, acked, abandoned, delivered, ncp, nRx, ackCh, toNcp, toHost>>
    BY DEF ResetAnswered, ResetFails, ncpVars
  <1>2. ~InSession /\ pc' \notin Sending /\ pc' \notin {"write", "await"}
    BY <1>1 DEF InSession, Sending
  <1>3. /\ acked = <<>> /\ delivered = <<>> /\ abandoned = {} /\ calls = 0
        /\ ~Holds(toNcp, "DATA")
    BY <1>2 DEF IInv, PhaseInv
  <1>4. Len(acked) = 0 /\ Len(delivered) = 0 /\ ~Ahead /\ ~Ahead'
    BY <1>1, <1>3 DEF Ahead
  <1>5. txSeq = 0
    BY <1>4, NumLemma DEF IInv, CountInv
  <1>6. txSeq' = txSeq
    BY <1>5 DEF ResetAnswered, ResetFails
  <1>7. \/ UNCHANGED resetCh /\ pc' = "dead"
        \/ /\ Popped(resetCh, resetCh')
           /\ pc' = "idle" => resetCh[1].type # "ERROR"
    <2>1. resetCh \in Seq(Frame)
      BY DEF TypeOK
    <2> QED
      BY <2>1, PoppedLemma DEF ResetAnswered, ResetFails
  <1>8. \A i \in 1..Len(resetCh) : resetCh[i].type \in {"RSTACK", "ERROR"}
    BY DEF IInv, PhaseInv
  <1>9. /\ \A i \in 1..Len(resetCh)' : resetCh'[i].type \in {"RSTACK", "ERROR"}
        /\ Holds(resetCh, "RSTACK")' => Holds(resetCh, "RSTACK")
        /\ pc' = "idle" => Holds(resetCh, "RSTACK")
    <2>1. CASE UNCHANGED resetCh /\ pc' = "dead"
      BY <1>8, <2>1 DEF Holds
    <2>2. CASE /\ Popped(resetCh, resetCh')
               /\ pc' = "idle" => resetCh[1].type # "ERROR"
      <3>1. /\ 1 \in 1..Len(resetCh)
            /\ \A i \in 1..Len(resetCh)' :
                  i + 1 \in 1..Len(resetCh) /\ resetCh'[i] = resetCh[i + 1]
        BY <2>2 DEF Popped
      <3> QED
        BY <1>8, <2>2, <3>1 DEF Holds
    <2> QED
      BY <1>7, <2>1, <2>2
  <1>10. InSession' => Holds(resetCh, "RSTACK")
    BY <1>1, <1>9 DEF InSession, Sending
  <1>11. PhaseInv'
    <2>1. ncp = "old" => ~InSession' /\ ~Holds(resetCh, "RSTACK")'
      BY <1>9, <1>10 DEF IInv, PhaseInv
    <2>2. /\ Holds(toNcp, "DATA")' = Holds(toNcp, "DATA")
          /\ Holds(toNcp, "RST")' = Holds(toNcp, "RST")
          /\ Holds(toHost, "RSTACK")' = Holds(toHost, "RSTACK")
      BY <1>1 DEF Holds
    <2> QED
      BY <1>1, <1>3, <1>9, <2>1, <2>2 DEF IInv, PhaseInv
  <1>12. CountInv'
    BY <1>1, <1>6 DEF IInv, CountInv, WindowOfOne
  <1>13. AckInv'
    <2>1. txSeq # Succ(txSeq)
      BY <1>5, NumLemma
    <2>2. ASSUME NEW i \in 1..Len(toHost), CarriesAck(toHost[i]),
                 \/ InSession' \/ Holds(resetCh, "RSTACK")'
                 \/ Before(toHost, i, "RSTACK")
          PROVE  toHost[i].ack = txSeq
      BY <1>4, <1>9, <1>10, <2>2 DEF IInv, AckInv, AckWindow
    <2>3. AckWindow'
      BY <1>1, <1>6, <2>2 DEF AckWindow
    <2>4. AckOrder'
      BY <1>1, <1>6, <2>1, <2>2 DEF AckOrder
    <2>5. AckQueued'
      BY <1>2 DEF AckQueued
    <2> QED
      BY <2>3, <2>4, <2>5 DEF AckInv
  <1>14. DataInv' /\ PayloadInv'
    <2>1. ~Holds(toNcp, "DATA")'
      BY <1>1, <1>3 DEF Holds
    <2> QED
      BY <1>1, <1>2, <1>3, <2>1, NothingSent
  <1> QED
    BY <1>11, <1>12, <1>13, <1>14 DEF IInv

-----------------------------------------------------------------------------
(***************************************************************************)
(* The caller: Send.                                                       *)
(***************************************************************************)
\* A step of Send keeps what is said of the phase: the only frame it writes is a
\* DATA frame, behind whatever is on the line.
LEMMA SessionPhase ==
    ASSUME PhaseInv, InSession, InSession', UNCHANGED <<ncp, delivered>>,
           \/ UNCHANGED toNcp /\ Len(toNcp) \in Nat
           \/ Pushed(toNcp, toNcp', frame) /\ frame.type = "DATA",
           UNCHANGED resetCh \/ Popped(resetCh, resetCh')
    PROVE  PhaseInv'
  <1>1. pc' # "new"
    BY DEF InSession, Sending
  <1>2. /\ Len(toNcp) \in Nat
        /\ \A i \in 1..Len(toNcp)' :
              \/ i \in 1..Len(toNcp) /\ toNcp'[i] = toNcp[i]
              \/ i = Len(toNcp) + 1 /\ toNcp'[i].type = "DATA"
    BY DEF Pushed
  <1>3. Holds(toNcp, "RST")' => Holds(toNcp, "RST")
    BY <1>2 DEF Holds
  <1>4. ASSUME NEW i \in 1..Len(toNcp)', NEW j \in 1..Len(toNcp)',
               toNcp'[i].type = "RST", toNcp'[j].type \in {"RST", "DATA"}
        PROVE  i <= j
    <2>1. i \in 1..Len(toNcp) /\ toNcp[i].type = "RST"
      BY <1>2, <1>4
    <2>2. CASE j \in 1..Len(toNcp) /\ toNcp'[j] = toNcp[j]
      BY <1>4, <2>1, <2>2 DEF PhaseInv
    <2>3. CASE j = Len(toNcp) + 1
      BY <1>2, <2>1, <2>3
    <2> QED
      BY <1>2, <2>2, <2>3
  <1>5. \A i \in 1..Len(resetCh)' : resetCh'[i].type \in {"RSTACK", "ERROR"}
    <2>1. \A i \in 1..Len(resetCh) : resetCh[i].type \in {"RSTACK", "ERROR"}
      BY DEF PhaseInv
    <2>2. CASE UNCHANGED resetCh
      BY <2>1, <2>2
    <2>3. CASE Popped(resetCh, resetCh')
      <3>1. \A i \in 1..Len(resetCh)' :
               i + 1 \in 1..Len(resetCh) /\ resetCh'[i] = resetCh[i + 1]
        BY <2>3 DEF Popped
      <3> QED
        BY <2>1, <3>1
    <2> QED
      BY <2>2, <2>3
  <1> QED
    BY <1>1, <1>3, <1>4, <1>5 DEF PhaseInv

\* As long as neither count moves, a step of Send keeps what is said of counts and
\* of the acknowledgements on the line.
LEMMA SessionAcks ==
    ASSUME CountInv, AckInv, InSession, AckQueued',
           UNCHANGED <<txSeq, acked, delivered, ncp, nRx, toHost>>
    PROVE  CountInv' /\ AckInv'
  <1>1. Ahead' = Ahead
    BY DEF Ahead
  <1>2. CountInv'
    BY DEF CountInv, WindowOfOne
  <1>3. AckWindow' /\ AckOrder'
    BY <1>1 DEF AckInv, AckWindow, AckOrder
  <1> QED
    BY <1>2, <1>3 DEF AckInv

\* Send takes the next payload: it is newer than all the NCP has.
LEMMA SendStartKeeps == TypeOK /\ IInv /\ SendStart => IInv'
  <1> SUFFICES ASSUME TypeOK, IInv, SendStart PROVE IInv'
    OBVIOUS
  <1>1. /\ pc = "idle" /\ pc' = "drain" /\ calls' = calls + 1
        /\ frame' = DataFrame(txSeq, rxSeq, calls + 1)
        /\ UNCHANGED <<txSeq, acked, abandoned, delivered, ncp, nRx, ackCh, resetCh,
                       toNcp, toHost>>
    BY DEF SendStart, ncpVars
  <1>2. /\ calls \in Nat /\ Len(toNcp) \in Nat
        /\ frame'.type = "DATA" /\ frame'.frm = txSeq /\ frame'.data = calls + 1
    BY <1>1, Types DEF DataFrame
  <1>3. InSession /\ InSession'
    BY <1>1 DEF InSession, Sending
  <1>4. PhaseInv'
    BY <1>1, <1>2, <1>3, SessionPhase DEF IInv
  <1>5. CountInv' /\ AckInv'
    <2>1. AckQueued'
      BY <1>1 DEF AckQueued
    <2> QED
      BY <1>1, <1>3, <2>1, SessionAcks DEF IInv
  <1>6. Ahead' = Ahead
    BY <1>1 DEF Ahead
  <1>7. DataInv'
    <2>1. \A i \in 1..Len(toNcp) :
             toNcp[i].type = "DATA" => toNcp[i].data \in 1..(calls + 1)
      BY <1>2 DEF IInv, DataInv
    <2> QED
      BY <1>1, <1>2, <1>6, <2>1 DEF IInv, DataInv
  <1>8. PayloadInv'
    <2>1. \A i \in 1..Len(delivered) : delivered[i] \in 1..(calls + 1) /\ delivered[i] < calls + 1
      BY <1>2 DEF IInv, PayloadInv
    <2>2. AtMostOnceInOrder' /\ AckedIsDelivered'
      <3>1. AtMostOnceInOrder /\ AckedIsDelivered
        BY DEF IInv, PayloadInv
      <3> QED
        BY <1>1, <3>1 DEF AtMostOnceInOrder, AckedIsDelivered
    <2>3. ASSUME NEW k \in 1..Len(toNcp), toNcp[k].type = "DATA", toNcp[k].frm = txSeq
          PROVE  /\ LastAcked < toNcp[k].data
                 /\ ~Ahead => \A i \in 1..Len(delivered) : delivered[i] < toNcp[k].data
                 /\ abandoned # {}
      BY <1>1, <2>3 DEF IInv, PayloadInv
    <2>4. LastAcked' = LastAcked /\ LastAcked <= calls + 1 /\ LastAcked < calls + 1
      <3>1. LastAcked \in Nat /\ LastAcked <= calls
        BY LastAckedType DEF IInv, PayloadInv
      <3>2. LastAcked' = LastAcked
        BY <1>1 DEF LastAcked
      <3> QED
        BY <1>2, <3>1, <3>2
    <2> QED
      BY <1>1, <1>6, <2>1, <2>2, <2>3, <2>4 DEF PayloadInv
  <1> QED
    BY <1>4, <1>5, <1>7, <1>8 DEF IInv

\* Draining ackCh removes the events an earlier, abandoned Send left behind.
LEMMA SendDrainKeeps == TypeOK /\ IInv /\ SendDrain => IInv'
  <1> SUFFICES ASSUME TypeOK, IInv, SendDrain PROVE IInv'
    OBVIOUS
  <1>1. /\ pc = "drain" /\ pc' = "write" /\ ackCh' = <<>>
        /\ UNCHANGED <<txSeq, frame, calls, acked, abandoned, delivered, ncp, nRx, resetCh,
                       toNcp, toHost>>
    BY DEF SendDrain, ncpVars
  <1>2. InSession /\ InSession' /\ pc \in Sending
    BY <1>1 DEF InSession, Sending
  <1>3. PhaseInv'
    <2>1. Len(toNcp) \in Nat
      BY Types
    <2> QED
      BY <1>1, <1>2, <2>1, SessionPhase DEF IInv
  <1>4. CountInv' /\ AckInv'
    <2>1. AckQueued'
      <3>1. Len(ackCh)' = 0
        BY <1>1
      <3> QED
        BY <3>1 DEF AckQueued
    <2> QED
      BY <1>1, <1>2, <2>1, SessionAcks DEF IInv
  <1>5. Ahead' = Ahead
    BY <1>1 DEF Ahead
  <1>6. DataInv'
    BY <1>1, <1>2, <1>5 DEF IInv, DataInv
  <1>7. AtMostOnceInOrder' /\ AckedIsDelivered'
    <2>1. AtMostOnceInOrder /\ AckedIsDelivered
      BY DEF IInv, PayloadInv
    <2> QED
      BY <1>1, <2>1 DEF AtMostOnceInOrder, AckedIsDelivered
  <1>8. PayloadInv'
    <2>1. LastAcked' = LastAcked
      BY <1>1 DEF LastAcked
    <2> QED
      BY <1>1, <1>2, <1>5, <1>7, <2>1 DEF IInv, PayloadInv
  <1> QED
    BY <1>3, <1>4, <1>6, <1>8 DEF IInv

\* Writing the frame puts the current payload behind any older one.
LEMMA SendWriteKeeps ==
    ASSUME TypeOK, IInv, SendWrite, port = "open"
    PROVE  IInv'
  <1>1. /\ pc = "write" /\ pc' = "await" /\ HostWrite(frame) /\ frame \in Frame
        /\ UNCHANGED <<txSeq, frame, calls, acked, abandoned, delivered, ncp, nRx, ackCh,
                       resetCh, toHost>>
    BY DEF SendWrite, ncpVars, TypeOK
  <1>2. InSession /\ InSession' /\ pc \in Sending
    BY <1>1 DEF InSession, Sending
  <1>3. frame.type = "DATA" /\ frame.frm = txSeq /\ frame.data = calls /\ calls > 0
    BY <1>2 DEF IInv, DataInv
  <1>4. Pushed(toNcp, toNcp', frame)
    BY <1>1, WritePushes
  <1>5. PhaseInv'
    BY <1>1, <1>2, <1>3, <1>4, SessionPhase DEF IInv
  <1>6. Ahead' = Ahead
    BY <1>1 DEF Ahead
  <1>7. CountInv' /\ AckInv'
    <2>1. AckQueued'
      BY <1>1, <1>6 DEF IInv, AckInv, AckQueued
    <2> QED
      BY <1>1, <1>2, <2>1, SessionAcks DEF IInv
  <1>8. /\ Len(toNcp) \in Nat /\ calls \in Nat
        /\ \A i \in 1..Len(toNcp)' :
              \/ i \in 1..Len(toNcp) /\ toNcp'[i] = toNcp[i]
              \/ i = Len(toNcp) + 1 /\ toNcp'[i] = frame
    BY <1>4, Types DEF Pushed
  <1>9. DataInv'
    <2>1. \A i \in 1..Len(toNcp)' :
          toNcp'[i].type = "DATA" =>
             /\ toNcp'[i].frm \in {txSeq, Pred(txSeq)}
             /\ Ahead => toNcp'[i].frm = txSeq
             /\ toNcp'[i].data \in 1..calls
      BY <1>3, <1>8 DEF IInv, DataInv
    <2>2. ASSUME NEW i \in 1..Len(toNcp)', NEW j \in 1..Len(toNcp)', i < j,
                 toNcp'[i].type = "DATA", toNcp'[j].type = "DATA", toNcp'[i].frm = txSeq
          PROVE  toNcp'[j].frm = txSeq
      <3>1. CASE j \in 1..Len(toNcp) /\ toNcp'[j] = toNcp[j]
        <4>1. i \in 1..Len(toNcp) /\ toNcp'[i] = toNcp[i]
          BY <1>8, <2>2, <3>1
        <4> QED
          BY <2>2, <3>1, <4>1 DEF IInv, DataInv
      <3>2. CASE toNcp'[j] = frame
        BY <1>3, <3>2
      <3> QED
        BY <1>8, <3>1, <3>2
    <2> QED
      BY <1>1, <1>3, <1>6, <2>1, <2>2 DEF DataInv
  <1>10. PayloadInv'
    <2>1. /\ \A i \in 1..Len(delivered) : delivered[i] \in 1..calls
          /\ ~Ahead => \A i \in 1..Len(delivered) : delivered[i] < calls
          /\ LastAcked <= calls /\ LastAcked < calls
      BY <1>2 DEF IInv, PayloadInv
    <2>2. AtMostOnceInOrder' /\ AckedIsDelivered'
      <3>1. AtMostOnceInOrder /\ AckedIsDelivered
        BY DEF IInv, PayloadInv
      <3> QED
        BY <1>1, <3>1 DEF AtMostOnceInOrder, AckedIsDelivered
    <2>3. ASSUME NEW k \in 1..Len(toNcp)', toNcp'[k].type = "DATA", toNcp'[k].frm = txSeq
          PROVE  /\ LastAcked < toNcp'[k].data
                 /\ ~Ahead => \A i \in 1..Len(delivered) : delivered[i] < toNcp'[k].data
                 /\ abandoned = {} => toNcp'[k].data = calls
      <3>1. CASE k \in 1..Len(toNcp) /\ toNcp'[k] = toNcp[k]
        BY <2>3, <3>1 DEF IInv, PayloadInv
      <3>2. CASE toNcp'[k] = frame
        BY <1>3, <2>1, <3>2
      <3> QED
        BY <1>8, <3>1, <3>2
    <2>4. LastAcked' = LastAcked
      BY <1>1 DEF LastAcked
    <2> QED
      BY <1>1, <1>6, <2>1, <2>2, <2>3, <2>4 DEF PayloadInv
  <1> QED
    BY <1>5, <1>7, <1>9, <1>10 DEF IInv

\* Another attempt, or giving up, whatever ended the wait.
LEMMA RetryKeeps ==
    ASSUME TypeOK, IInv, pc \in {"write", "await"}, Retry \/ Abandon,
           UNCHANGED <<ncp, nRx, toNcp, toHost, delivered>>,
           UNCHANGED ackCh \/ Popped(ackCh, ackCh'),
           UNCHANGED resetCh \/ Popped(resetCh, resetCh')
    PROVE  IInv'
  <1>1. /\ UNCHANGED <<txSeq, calls, acked>>
        /\ \/ /\ pc' = "write" /\ UNCHANGED abandoned
              /\ frame' = [frame EXCEPT !.ack = rxSeq]
           \/ pc' = "idle" /\ abandoned' # {}
    BY DEF Retry, Abandon
  <1>2. InSession /\ InSession' /\ pc \in Sending
    BY <1>1 DEF InSession, Sending
  <1>3. PhaseInv'
    <2>1. Len(toNcp) \in Nat
      BY Types
    <2> QED
      BY <1>2, <2>1, SessionPhase DEF IInv
  <1>4. Ahead' = Ahead
    BY <1>1 DEF Ahead
  <1>5. CountInv' /\ AckInv'
    <2>1. AckQueued'
      <3>1. \A i \in 1..Len(ackCh)' : \E k \in 1..Len(ackCh) : ackCh'[i] = ackCh[k]
        BY DEF Popped
      <3> QED
        BY <1>1, <1>4, <3>1 DEF IInv, AckInv, AckQueued
    <2> QED
      BY <1>1, <1>2, <2>1, SessionAcks DEF IInv
  <1>6. pc' \in Sending => /\ frame'.type = "DATA" /\ frame'.frm = txSeq
                           /\ frame'.data = calls /\ calls > 0
    <2>1. CASE pc' = "write" /\ frame' = [frame EXCEPT !.ack = rxSeq]
      <3>1. frame \in Frame /\ rxSeq \in 0..7
        BY DEF TypeOK
      <3>2. frame'.type = frame.type /\ frame'.frm = frame.frm /\ frame'.data = frame.data
        BY <2>1, <3>1 DEF Frame
      <3> QED
        BY <1>2, <3>2 DEF IInv, DataInv
    <2> QED
      BY <1>1, <2>1 DEF Sending
  <1>7. DataInv'
    BY <1>1, <1>4, <1>6 DEF IInv, DataInv
  <1>8. AtMostOnceInOrder' /\ AckedIsDelivered'
    <2>1. AtMostOnceInOrder /\ AckedIsDelivered
      BY DEF IInv, PayloadInv
    <2> QED
      BY <1>1, <2>1 DEF AtMostOnceInOrder, AckedIsDelivered
  <1>9. PayloadInv'
    <2>1. LastAcked' = LastAcked
      BY <1>1 DEF LastAcked
    <2> QED
      BY <1>1, <1>2, <1>4, <1>8, <2>1 DEF IInv, PayloadInv
  <1> QED
    BY <1>3, <1>5, <1>7, <1>9 DEF IInv

\* What the caller knows when it takes an event for its own acknowledgement: the
\* NCP is one payload ahead, and every acknowledgement behind it says the same.
LEMMA ConfirmFacts ==
    ASSUME TypeOK, IInv, pc = "await", ackCh # <<>>,
           ~Head(ackCh).nak, Head(ackCh).num = WantAck
    PROVE  /\ WantAck = Succ(txSeq) /\ Ahead
           /\ \A j \in 1..Len(toHost) : CarriesAck(toHost[j]) => toHost[j].ack = Succ(txSeq)
  <1>1. frame.frm = txSeq
    BY DEF IInv, DataInv, Sending
  <1>2. ackCh \in Seq(AckEvent)
    BY DEF TypeOK
  <1>3. Head(ackCh) = ackCh[1] /\ 1 \in 1..Len(ackCh)
    BY <1>2, TailLemma
  <1> QED
    BY <1>1, <1>3 DEF IInv, AckInv, AckQueued, WantAck

\* Send returns nil: the NCP has one payload more than was confirmed before, and
\* the counts agree again.
LEMMA ConfirmKeeps ==
    ASSUME TypeOK, IInv, pc = "await", ackCh # <<>>,
           ~Head(ackCh).nak, Head(ackCh).num = WantAck,
           pc' = "idle", txSeq' = WantAck, acked' = Append(acked, calls),
           UNCHANGED <<frame, calls, abandoned, delivered, ncp, nRx, resetCh, toNcp, toHost>>
    PROVE  IInv'
  <1>1. /\ txSeq' = Succ(txSeq) /\ Ahead
        /\ \A j \in 1..Len(toHost) : CarriesAck(toHost[j]) => toHost[j].ack = Succ(txSeq)
    BY ConfirmFacts
  <1>2. /\ txSeq \in 0..7 /\ calls \in Nat /\ acked \in Seq(Nat) /\ Len(acked) \in Nat
        /\ Len(delivered) \in Nat /\ Len(toNcp) \in Nat
    BY Types
  <1>3. Len(acked)' = Len(acked) + 1
    BY <1>2
  <1>4. Len(delivered) = Len(acked)' /\ ~Ahead'
    BY <1>1, <1>2, <1>3 DEF Ahead
  <1>5. /\ txSeq' \in 0..7 /\ Pred(txSeq') = txSeq /\ txSeq # txSeq'
        /\ Succ(txSeq') # txSeq'
    BY <1>1, <1>2, NumLemma
  <1>6. InSession /\ InSession'
    BY DEF InSession, Sending
  <1>7. PhaseInv'
    BY <1>2, <1>6, SessionPhase DEF IInv
  <1>8. CountInv'
    <2>1. txSeq = Len(acked) % SeqMod /\ (ncp = "up" => nRx = Len(delivered) % SeqMod)
      BY DEF IInv, CountInv
    <2>2. Succ(Len(acked) % SeqMod) = (Len(acked) + 1) % SeqMod
      BY <1>2, NumLemma
    <2> QED
      BY <1>1, <1>3, <1>4, <2>1, <2>2 DEF CountInv, WindowOfOne
  <1>9. AckInv'
    <2>1. AckWindow'
      BY <1>1 DEF AckWindow
    <2>2. AckOrder'
      BY <1>1, <1>5 DEF AckOrder
    <2>3. AckQueued'
      BY DEF AckQueued
    <2> QED
      BY <2>1, <2>2, <2>3 DEF AckInv
  <1>10. \A i \in 1..Len(toNcp) :
            toNcp[i].type = "DATA" => toNcp[i].frm = txSeq /\ toNcp[i].data \in 1..calls
    BY <1>1 DEF IInv, DataInv
  <1>11. DataInv'
    BY <1>4, <1>5, <1>10 DEF DataInv, Sending
  <1>12. PayloadInv'
    <2>1. \A i \in 1..Len(delivered) : delivered[i] \in 1..calls
      BY DEF IInv, PayloadInv
    <2>2. AtMostOnceInOrder'
      BY DEF IInv, PayloadInv, AtMostOnceInOrder
    <2>3. AckedIsDelivered'
      <3>1. delivered = acked => FALSE
        BY <1>1, <1>2 DEF Ahead
      <3> QED
        BY <3>1 DEF IInv, PayloadInv, AckedIsDelivered
    <2>4. LastAcked' = calls
      <3>1. acked' # <<>> /\ acked'[Len(acked) + 1] = calls
        BY <1>2
      <3> QED
        BY <1>3, <3>1 DEF LastAcked
    <2>5. LastAcked' <= calls
      BY <1>2, <2>4
    <2> QED
      BY <1>5, <1>10, <2>1, <2>2, <2>3, <2>5 DEF PayloadInv, Sending
  <1> QED
    BY <1>7, <1>8, <1>9, <1>11, <1>12 DEF IInv

\* An event that is not the one waited for only leaves ackCh.
LEMMA OtherAckKeeps ==
    ASSUME TypeOK, IInv, Popped(ackCh, ackCh'), UNCHANGED caller,
           UNCHANGED <<ncp, nRx, resetCh, toNcp, toHost>>
    PROVE  IInv'
  <1>1. Len(toNcp) \in Nat
    BY Types
  <1>2. Kept(toNcp, toNcp', 0, OutTypes)
    BY <1>1 DEF Kept
  <1>3. PhaseInv'
    <2>1. /\ Holds(toHost, "RSTACK")' = Holds(toHost, "RSTACK")
          /\ Holds(resetCh, "RSTACK")' = Holds(resetCh, "RSTACK")
      BY DEF Holds
    <2>2. \A i \in 1..Len(resetCh)' : resetCh'[i].type \in {"RSTACK", "ERROR"}
      BY DEF IInv, PhaseInv
    <2> QED
      BY <1>2, <2>1, <2>2, QuietPhase DEF IInv
  <1>4. AckInv'
    <2>1. UNCHANGED <<pc, txSeq, acked, delivered>>
      BY DEF caller
    <2>2. Ahead' = Ahead /\ InSession' = InSession
          /\ Holds(resetCh, "RSTACK")' = Holds(resetCh, "RSTACK")
      BY <2>1 DEF Ahead, InSession, Holds
    <2>3. AckWindow' /\ AckOrder'
      BY <2>1, <2>2 DEF IInv, AckInv, AckWindow, AckOrder, Before
    <2>4. \A i \in 1..Len(ackCh)' : \E k \in 1..Len(ackCh) : ackCh'[i] = ackCh[k]
      BY DEF Popped
    <2>5. AckQueued'
      BY <2>1, <2>2, <2>4 DEF IInv, AckInv, AckQueued
    <2> QED
      BY <2>3, <2>5 DEF AckInv
  <1> QED
    BY <1>2, <1>3, <1>4, Quiet

\* Every way out of awaitAck.
LEMMA AwaitKeeps ==
    TypeOK /\ IInv /\ (AwaitAck \/ AwaitReset \/ AwaitTimeout \/ AwaitAborted) => IInv'
  <1> SUFFICES ASSUME TypeOK, IInv PROVE
         AwaitAck \/ AwaitReset \/ AwaitTimeout \/ AwaitAborted => IInv'
    OBVIOUS
  <1>1. ackCh \in Seq(AckEvent) /\ resetCh \in Seq(Frame)
    BY DEF TypeOK
  <1>2. CASE AwaitAck
    <2>1. /\ pc = "await" /\ ackCh # <<>> /\ Popped(ackCh, ackCh')
          /\ UNCHANGED <<ncp, nRx, resetCh, toNcp, toHost, delivered>>
      BY <1>1, <1>2, PoppedLemma DEF AwaitAck, ncpVars
    <2>2. CASE Retry
      BY <2>1, <2>2, RetryKeeps
    <2>3. CASE /\ ~Head(ackCh).nak /\ Head(ackCh).num = WantAck
               /\ txSeq' = WantAck /\ acked' = Append(acked, calls) /\ pc' = "idle"
               /\ UNCHANGED <<frame, calls, abandoned>>
      BY <2>1, <2>3, ConfirmKeeps
    <2>4. CASE UNCHANGED sender
      <3>1. UNCHANGED caller
        BY <2>1, <2>4 DEF sender, caller
      <3> QED
        BY <2>1, <3>1, OtherAckKeeps
    <2> QED
      BY <1>2, <2>2, <2>3, <2>4 DEF AwaitAck, Answers
  <1>3. CASE AwaitReset
    <2>1. /\ pc = "await" /\ Popped(resetCh, resetCh') /\ Abandon
          /\ UNCHANGED <<ncp, nRx, ackCh, toNcp, toHost, delivered>>
      BY <1>1, <1>3, PoppedLemma DEF AwaitReset, ncpVars
    <2> QED
      BY <2>1, RetryKeeps
  <1>4. CASE AwaitTimeout \/ AwaitAborted
    <2>1. /\ pc = "await" /\ (Retry \/ Abandon)
          /\ UNCHANGED <<ncp, nRx, ackCh, resetCh, toNcp, toHost, delivered>>
      BY <1>4 DEF AwaitTimeout, AwaitAborted, ncpVars
    <2> QED
      BY <2>1, RetryKeeps
  <1> QED
    BY <1>2, <1>3, <1>4

-----------------------------------------------------------------------------
(***************************************************************************)
(* The invariant holds, and what follows from it.                          *)
(***************************************************************************)
\* At the start nothing has been sent, and a RSTACK on the line is from an NCP that
\* has restarted.
LEMMA InitIInv == Init => IInv
  <1> SUFFICES ASSUME Init PROVE IInv
    OBVIOUS
  <1>1. /\ pc = "new" /\ txSeq = 0 /\ toNcp = <<>> /\ ackCh = <<>> /\ resetCh = <<>>
        /\ calls = 0 /\ acked = <<>> /\ abandoned = {} /\ delivered = <<>>
        /\ ncp \in {"old", "down"}
    BY DEF Init
  <1>2. /\ Len(toNcp) = 0 /\ Len(ackCh) = 0 /\ Len(resetCh) = 0 /\ Len(acked) = 0
        /\ Len(delivered) = 0 /\ ~InSession /\ pc \notin Sending
    BY <1>1 DEF InSession, Sending
  <1>3. /\ ~Holds(toNcp, "DATA") /\ ~Holds(toNcp, "RST") /\ ~Holds(resetCh, "RSTACK")
    BY <1>2 DEF Holds
  <1>4. Len(toHost) \in {0, 1} /\ (ncp = "old" => ~Holds(toHost, "RSTACK"))
    <2>1. ASSUME NEW f, toHost = <<f>>
          PROVE  Len(toHost) = 1 /\ toHost[1] = f
      BY <2>1
    <2>2. CASE toHost = <<>>
      BY <2>2 DEF Holds
    <2>3. ASSUME NEW f \in OldFrames, toHost = <<f>>
          PROVE  Len(toHost) = 1 /\ ~Holds(toHost, "RSTACK")
      <3>1. f.type \in {"DATA", "ACK"}
        BY OldFramesAssumption
      <3> QED
        BY <2>1, <2>3, <3>1 DEF Holds
    <2> QED
      BY <2>1, <2>2, <2>3 DEF Init, OldWires
  <1>5. PhaseInv
    BY <1>1, <1>2, <1>3, <1>4 DEF PhaseInv
  <1>6. CountInv
    BY <1>1, <1>2, NumLemma DEF CountInv, WindowOfOne
  <1>7. AckInv
    <2>1. ASSUME NEW i \in 1..Len(toHost) PROVE ~Before(toHost, i, "RSTACK")
      <3> DEFINE n == Len(toHost)
      <3>1. i = 1
        <4>1. n \in {0, 1} /\ i \in 1..n
          BY <1>4
        <4> HIDE DEF n
        <4> QED
          BY <4>1
      <3>2. \A k \in 1..(i - 1) : FALSE
        BY <3>1
      <3> QED
        BY <3>2 DEF Before
    <2>2. AckWindow
      BY <1>2, <1>3, <2>1 DEF AckWindow
    <2> QED
      BY <1>1, <1>2, <2>2 DEF AckInv, AckOrder, AckQueued
  <1>8. DataInv /\ PayloadInv
    <2>1. AtMostOnceInOrder /\ AckedIsDelivered
      BY <1>1, <1>2 DEF AtMostOnceInOrder, AckedIsDelivered
    <2>2. LastAcked = 0
      BY <1>1 DEF LastAcked
    <2> QED
      BY <1>1, <1>2, <2>1, <2>2 DEF DataInv, PayloadInv
  <1> QED
    BY <1>5, <1>6, <1>7, <1>8 DEF IInv

\* IInv is inductive relative to typing: one case per action of Next.
LEMMA StepIInv == TypeOK /\ IInv /\ [Next]_vars => IInv'
  <1> SUFFICES ASSUME TypeOK, IInv, [Next]_vars PROVE IInv'
    OBVIOUS
  <1>1. CASE ResetStart \/ ResetStep
    BY <1>1, ResetStartKeeps, ResetEndKeeps DEF ResetStep
  <1>2. CASE SendStart
    BY <1>2, SendStartKeeps
  <1>3. CASE SendStep
    <2>1. CASE SendWrite
      <3>1. CASE port = "open"
        BY <2>1, <3>1, SendWriteKeeps
      <3>2. CASE port # "open"
        <4>1. /\ pc = "write" /\ Abandon
              /\ UNCHANGED <<ncp, nRx, ackCh, resetCh, toNcp, toHost, delivered>>
          BY <2>1, <3>2 DEF SendWrite, HostWrite, ncpVars
        <4> QED
          BY <4>1, RetryKeeps
      <3> QED
        BY <3>1, <3>2
    <2> QED
      BY <1>3, <2>1, SendDrainKeeps, AwaitKeeps DEF SendStep
  <1>4. CASE PumpStep
    BY <1>4, PumpRecvKeeps, PumpCheckKeeps, IdleKeeps DEF PumpStep
  <1>5. CASE NcpStep
    <2>1. CASE NcpRecv
      <3>1. CASE delivered' # delivered
        BY <2>1, <3>1, AcceptKeeps
      <3>2. CASE delivered' = delivered
        BY <2>1, <3>2, NcpRstKeeps, NcpRecvQuiet
      <3> QED
        BY <3>1, <3>2
    <2> QED
      BY <1>5, <2>1, NcpQuiet DEF NcpStep
  <1>6. CASE Consume \/ Close \/ PortLost \/ Finished \/ UNCHANGED vars
    BY <1>6, IdleKeeps DEF Finished
  <1> QED
    BY <1>1, <1>2, <1>3, <1>4, <1>5, <1>6 DEF Next

\* The invariant the safety of the host-to-NCP direction rests on.
THEOREM Inductive == Spec => [](TypeOK /\ IInv)
  <1>1. Init => TypeOK /\ IInv
    BY InitType, InitIInv
  <1>2. TypeOK /\ IInv /\ [Next]_vars => (TypeOK /\ IInv)'
    BY StepType, StepIInv
  <1> QED
    BY <1>1, <1>2, PTL DEF Spec

\* The NCP never gets more than one payload ahead of what Send has reported, nor
\* behind it, for every number of retries, every channel capacity and every line.
THEOREM WindowOfOneHolds == Spec => []WindowOfOne
  <1>1. IInv => WindowOfOne
    BY DEF IInv, CountInv
  <1> QED
    BY <1>1, Inductive, PTL

\* No payload is delivered twice or out of order, however often it is resent.
THEOREM AtMostOnceHolds == Spec => []AtMostOnceInOrder
  <1>1. IInv => AtMostOnceInOrder
    BY DEF IInv, PayloadInv
  <1> QED
    BY <1>1, Inductive, PTL

\* Until a Send is abandoned, a nil result means that this payload was delivered.
THEOREM AckedHolds == Spec => []AckedIsDelivered
  <1>1. IInv => AckedIsDelivered
    BY DEF IInv, PayloadInv
  <1> QED
    BY <1>1, Inductive, PTL

-----------------------------------------------------------------------------
(***************************************************************************)
(* Refinement: the session implements StopAndWait.                         *)
(***************************************************************************)
\* Each step offers, accepts or confirms one payload, or none.
LEMMA StepRefines == TypeOK /\ IInv /\ [Next]_vars => [SW!Next]_(SW!vars)
  <1> SUFFICES ASSUME TypeOK, IInv, [Next]_vars PROVE [SW!Next]_(SW!vars)
    OBVIOUS
  <1>1. calls \in Nat /\ Len(acked) \in Nat /\ acked \in Seq(Nat) /\ Len(delivered) \in Nat
    BY Types
  <1>2. ASSUME UNCHANGED <<calls, delivered, acked>> PROVE UNCHANGED SW!vars
    BY <1>2 DEF SW!vars
  <1>3. CASE SendStart
    <2>1. calls' = calls + 1 /\ UNCHANGED <<delivered, acked>>
      BY <1>3 DEF SendStart, ncpVars
    <2> QED
      BY <2>1 DEF SW!Next, SW!Offer
  <1>4. CASE NcpRecv
    <2>1. CASE delivered' = delivered
      <3>1. UNCHANGED <<calls, delivered, acked>>
        BY <1>4, <2>1 DEF NcpRecv, sender
      <3> QED
        BY <1>2, <3>1
    <2>2. CASE delivered' # delivered
      <3>1. /\ Len(delivered) = Len(acked) /\ ~Ahead /\ 1 \in 1..Len(toNcp)
            /\ toNcp[1].type = "DATA" /\ toNcp[1].frm = txSeq
            /\ delivered' = Append(delivered, toNcp[1].data)
            /\ UNCHANGED <<calls, acked>>
        BY <1>4, <2>2, AcceptFacts
      <3>2. toNcp[1].data \in 1..calls
        BY <3>1 DEF IInv, DataInv
      <3>3. /\ \A i \in 1..Len(delivered) : delivered[i] < toNcp[1].data
            /\ SW!LastConfirmed < toNcp[1].data
        BY <3>1 DEF IInv, PayloadInv, LastAcked, SW!LastConfirmed
      <3>4. SW!Accept
        BY <3>1, <3>2, <3>3 DEF SW!Accept
      <3> QED
        BY <3>4 DEF SW!Next
    <2> QED
      BY <2>1, <2>2
  <1>5. CASE AwaitAck
    <2>1. UNCHANGED <<calls, delivered>> /\ pc = "await" /\ ackCh # <<>>
      BY <1>5 DEF AwaitAck, Retry, Abandon, sender, ncpVars
    <2>2. CASE UNCHANGED acked
      BY <1>2, <2>1, <2>2
    <2>3. CASE /\ ~Head(ackCh).nak /\ Head(ackCh).num = WantAck
               /\ acked' = Append(acked, calls)
      <3>1. Len(delivered) = Len(acked) + 1
        BY <2>1, <2>3, ConfirmFacts DEF Ahead
      <3>2. SW!Confirm
        BY <2>1, <2>3, <3>1 DEF SW!Confirm
      <3> QED
        BY <3>2 DEF SW!Next
    <2> QED
      BY <1>5, <2>2, <2>3 DEF AwaitAck, Answers, Retry, Abandon, sender
  <1>6. CASE /\ ~SendStart /\ ~NcpRecv /\ ~AwaitAck
    <2>1. ResetStart \/ ResetStep => UNCHANGED <<calls, delivered, acked>>
      BY DEF ResetStart, ResetStep, ResetAnswered, ResetFails, ncpVars
    <2>2. SendStep => UNCHANGED <<calls, delivered, acked>>
      BY <1>6 DEF SendStep, SendDrain, SendWrite, AwaitReset, AwaitTimeout, AwaitAborted,
                  Retry, Abandon, ncpVars
    <2>3. PumpStep \/ Consume \/ Close \/ PortLost \/ Finished \/ UNCHANGED vars
             => UNCHANGED <<calls, delivered, acked>>
      BY DEF PumpStep, PumpRecv, PumpCheck, PumpCorrupt, PumpExit, Consume, Close,
             PortLost, Finished, vars, sender, ncpVars
    <2>4. NcpStep => UNCHANGED <<calls, delivered, acked>>
      BY <1>6 DEF NcpStep, NcpCorrupt, NcpSend, NcpTimeout, NcpReboot, sender, ncpVars
    <2> QED
      BY <1>2, <1>6, <2>1, <2>2, <2>3, <2>4 DEF Next
  <1> QED
    BY <1>3, <1>4, <1>5, <1>6

\* The session keeps the promise of the abstract specification: payloads are taken
\* at most once, in order, and at most one ahead of what Send reported.
THEOREM Refinement == Spec => ImplementsStopAndWait
  <1>1. Init => SW!Init
    BY DEF Init, SW!Init
  <1>2. TypeOK /\ IInv /\ [Next]_vars => [SW!Next]_(SW!vars)
    BY StepRefines
  <1> QED
    BY <1>1, <1>2, Inductive, PTL DEF Spec, ImplementsStopAndWait, SW!Spec

-----------------------------------------------------------------------------
(***************************************************************************)
(* The NCP-to-host direction.                                              *)
(***************************************************************************)
\* A Send reads rxSeq and writes its frame later.  It is prompt if the pump has not taken
\* so many DATA frames in between that the number, three bits wide, passes for a later one.
Prompt == pc \in {"drain", "write"} => (rxSeq - frame.ack) % SeqMod <= 7 - NcpWindow

IsStale(f) == f.type = "DATA" /\ f.data = Stale
IsFresh(f) == f.type = "DATA" /\ f.data # Stale

\* A frame of an earlier session is the first the host handles, before any RSTACK.
StaleInv ==
    /\ \A i \in 1..Len(toHost) : IsStale(toHost[i]) =>
          /\ i = 1 /\ ~InSession /\ ~Holds(resetCh, "RSTACK")
          /\ pump # "check" /\ dataCh = <<>>
    /\ pump = "check" =>
          /\ held.type = "DATA"
          /\ IsStale(held) => ~InSession /\ ~Holds(resetCh, "RSTACK") /\ dataCh = <<>>

\* The NCP sends nothing before it has accepted something.
SilentInv == delivered = <<>> => nMax = 0 /\ Taken = 0

\* The sequence numbers and the window are counts of what was taken.
WindowInv ==
    /\ nAck <= Taken /\ Taken <= nMax /\ nMax <= nAck + NcpWindow
    /\ nAck <= nNext /\ nNext <= nMax
    /\ InSession => rxSeq = Taken % SeqMod
    /\ InSession /\ pump = "check" => expect = rxSeq

\* A DATA frame's number is that of its payload, and what was taken, or is ahead of it in
\* the line, is less than a round of numbers ahead of it.
Numbered(f) == f.data <= nMax /\ f.frm = (f.data - 1) % SeqMod /\ Taken <= f.data + 6

FreshInv ==
    /\ \A i \in 1..Len(toHost) : IsFresh(toHost[i]) => Numbered(toHost[i])
    /\ \A i, j \in 1..Len(toHost) :
          i < j /\ IsFresh(toHost[i]) /\ IsFresh(toHost[j])
             => toHost[i].data <= toHost[j].data + 6
    /\ pump = "check" /\ IsFresh(held) =>
          /\ Numbered(held)
          /\ \A j \in 1..Len(toHost) : IsFresh(toHost[j]) => held.data <= toHost[j].data + 6

\* An acknowledgement was read from rxSeq when Behind fewer payloads had been taken.
Behind(a) == (Taken - a) % SeqMod
Count(a) == Taken - Behind(a)

\* A frame that the NCP reads in the session, once it may have sent something.
Late(j) == InSession /\ (delivered # <<>> \/ \E k \in 1..j : toNcp[k].type = "DATA")

\* Acknowledgements fall back by less than would make the NCP take one for a later one.
RoundInv ==
    /\ \A j \in 1..Len(toNcp) : Late(j) => nAck - Count(toNcp[j].ack) <= 7 - NcpWindow
    /\ \A i, j \in 1..Len(toNcp) : i < j /\ Late(i) =>
          Count(toNcp[i].ack) - Count(toNcp[j].ack) <= 7 - NcpWindow

\* What was handed over is in order.
GotInv ==
    \A i \in 1..Len(got) : got[i] <= Taken /\ \A j \in 1..(i - 1) : got[j] < got[i]

\* The pump, the NCP's sending side and the frames between them.
RInv == StaleInv /\ SilentInv /\ WindowInv /\ FreshInv /\ RoundInv /\ GotInv

-----------------------------------------------------------------------------
(***************************************************************************)
(* Three-bit numbers and the counts they stand for.                        *)
(***************************************************************************)
\* Counting back from t finds the last count whose number is a.
LEMMA BackLemma ==
    ASSUME NEW t \in Int, NEW a \in 0..7
    PROVE  /\ (t - a) % SeqMod \in 0..7
           /\ (t - ((t - a) % SeqMod)) % SeqMod = a
           /\ (t - a) % SeqMod <= 6 => (t + 1 - a) % SeqMod = ((t - a) % SeqMod) + 1
           /\ a = t % SeqMod => (t - a) % SeqMod = 0
  BY DEF SeqMod

\* How far a count is ahead of n, from its number.
LEMMA AheadLemma ==
    ASSUME NEW c \in Int, NEW n \in Int, NEW a \in 0..7, c % SeqMod = a
    PROVE  /\ c - n \in 0..7 => (a - n) % SeqMod = c - n
           /\ n - c \in 1..7 => (a - n) % SeqMod = 8 - (n - c)
  BY DEF SeqMod

\* Numbers less than a round apart that look the same are the same.
LEMMA SameNumber ==
    ASSUME NEW x \in Int, NEW y \in Int, x % SeqMod = y % SeqMod, x - y <= 7, y - x <= 7
    PROVE  x = y
  BY DEF SeqMod

\* The types the proof needs.
LEMMA RTypes ==
    ASSUME TypeOK
    PROVE  /\ Taken \in Nat /\ Len(got) \in Nat /\ dropped \in Nat
           /\ nAck \in Nat /\ nNext \in Nat /\ nMax \in Nat
           /\ rxSeq \in 0..7 /\ expect \in 0..7 /\ held \in Frame /\ frame \in Frame
           /\ NcpWindow \in 1..7 /\ held.data \in Nat /\ held.frm \in 0..7
           /\ \A a \in 0..7 : Behind(a) \in 0..7 /\ Count(a) \in Int
           /\ \A i \in 1..Len(toHost) : toHost[i].data \in Nat /\ toHost[i].frm \in 0..7
           /\ \A i \in 1..Len(toNcp) : toNcp[i].ack \in 0..7 /\ Count(toNcp[i].ack) \in Int
  <1>1. /\ Len(got) \in Nat /\ dropped \in Nat /\ nAck \in Nat /\ nNext \in Nat /\ nMax \in Nat
        /\ rxSeq \in 0..7 /\ expect \in 0..7 /\ held \in Frame /\ frame \in Frame
        /\ NcpWindow \in 1..7
    BY ConstantsAssumption DEF TypeOK
  <1>2. Taken \in Nat
    BY <1>1 DEF Taken
  <1>3. \A a \in 0..7 : Behind(a) \in 0..7 /\ Count(a) \in Int
    BY <1>2, BackLemma DEF Behind, Count
  <1> QED
    BY <1>1, <1>2, <1>3, Types, FrameFields

-----------------------------------------------------------------------------
(***************************************************************************)
(* Steps that only move frames.                                            *)
(***************************************************************************)
\* The DATA frames in r are frames of q, p places further on.
Moved(q, r, p) ==
    /\ Len(q) \in Nat /\ Len(r) \in Nat
    /\ \A i \in 1..Len(r) : r[i].type = "DATA" => i + p \in 1..Len(q) /\ r[i] = q[i + p]

\* Pops and pushes of other types move DATA frames.
LEMMA MovedLemma ==
    ASSUME NEW q, NEW r
    PROVE  /\ Popped(q, r) => Moved(q, r, 1)
           /\ \A x : Pushed(q, r, x) /\ x.type # "DATA" => Moved(q, r, 0)
           /\ Len(q) \in Nat => Moved(q, q, 0)
  BY DEF Popped, Pushed, Moved

\* A frame left over from an earlier session stays where it is or goes.
LEMMA StaleKept ==
    ASSUME StaleInv, NEW p \in {0, 1}, Moved(toHost, toHost', p),
           InSession' => InSession,
           Holds(resetCh, "RSTACK")' => Holds(resetCh, "RSTACK"),
           UNCHANGED <<pump, held>> \/ pump' # "check",
           dataCh = <<>> => dataCh' = <<>>
    PROVE  StaleInv'
  <1>1. ASSUME NEW i \in 1..Len(toHost'), IsStale(toHost'[i])
        PROVE  /\ i = 1 /\ ~InSession' /\ ~Holds(resetCh, "RSTACK")'
               /\ pump' # "check" /\ dataCh' = <<>>
    <2>1. i + p \in 1..Len(toHost) /\ IsStale(toHost[i + p]) /\ i \in Nat /\ i >= 1
      BY <1>1 DEF Moved, IsStale
    <2>2. i + p = 1 /\ ~InSession /\ ~Holds(resetCh, "RSTACK") /\ pump # "check" /\ dataCh = <<>>
      BY <2>1 DEF StaleInv
    <2>3. i = 1
      BY <2>1, <2>2
    <2> QED
      BY <2>2, <2>3
  <1>2. ASSUME pump' = "check"
        PROVE  /\ held'.type = "DATA"
               /\ IsStale(held') => ~InSession' /\ ~Holds(resetCh, "RSTACK")' /\ dataCh' = <<>>
    BY <1>2 DEF StaleInv
  <1> QED
    BY <1>1, <1>2 DEF StaleInv

\* Fresh frames keep their distances.
LEMMA FreshKept ==
    ASSUME FreshInv, NEW p \in {0, 1}, Moved(toHost, toHost', p),
           nMax' = nMax, Taken' = Taken,
           UNCHANGED <<pump, held>> \/ pump' # "check"
    PROVE  FreshInv'
  <1>1. ASSUME NEW i \in 1..Len(toHost'), IsFresh(toHost'[i])
        PROVE  /\ i + p \in 1..Len(toHost) /\ toHost'[i] = toHost[i + p]
               /\ IsFresh(toHost[i + p]) /\ i \in Nat
    BY <1>1 DEF Moved, IsFresh
  <1>2. \A f : Numbered(f) => Numbered(f)'
    BY DEF Numbered
  <1>3. \A i \in 1..Len(toHost') : IsFresh(toHost'[i]) => Numbered(toHost[i])'
    BY <1>1, <1>2 DEF FreshInv
  <1>4. ASSUME NEW i \in 1..Len(toHost'), NEW j \in 1..Len(toHost'), i < j,
               IsFresh(toHost'[i]), IsFresh(toHost'[j])
        PROVE  toHost'[i].data <= toHost'[j].data + 6
    <2>1. /\ i + p \in 1..Len(toHost) /\ toHost'[i] = toHost[i + p] /\ IsFresh(toHost[i + p])
          /\ j + p \in 1..Len(toHost) /\ toHost'[j] = toHost[j + p] /\ IsFresh(toHost[j + p])
          /\ i + p < j + p
      BY <1>1, <1>4
    <2> QED
      BY <2>1 DEF FreshInv
  <1>5. ASSUME pump' = "check", IsFresh(held')
        PROVE  /\ Numbered(held)'
               /\ \A j \in 1..Len(toHost') : IsFresh(toHost'[j])
                     => held'.data <= toHost'[j].data + 6
    <2>1. pump = "check" /\ held' = held /\ Numbered(held)
      BY <1>5 DEF FreshInv
    <2> QED
      BY <1>1, <1>2, <1>5, <2>1 DEF FreshInv
  <1> QED
    BY <1>3, <1>4, <1>5 DEF FreshInv

\* The acknowledgements on their way to the NCP are read, or stay.
LEMMA RoundKept ==
    ASSUME TypeOK, RoundInv, NEW p \in {0, 1}, Kept(toNcp, toNcp', p, FrameTypes),
           \A i \in 1..Len(toNcp') : toNcp'[i].type \in FrameTypes,
           InSession' => InSession, UNCHANGED <<nAck, delivered>>, Taken' = Taken
    PROVE  RoundInv'
  <1>1. ASSUME NEW i \in 1..Len(toNcp')
        PROVE  /\ i \in Nat /\ i + p \in 1..Len(toNcp) /\ toNcp'[i] = toNcp[i + p]
               /\ Count(toNcp[i].ack)' = Count(toNcp[i + p].ack)
    BY DEF Kept, Count, Behind
  <1>2. ASSUME NEW i \in 1..Len(toNcp'), Late(i)'
        PROVE  Late(i + p)
    <2>1. CASE delivered # <<>>
      BY <1>2, <2>1 DEF Late
    <2>2. CASE delivered = <<>>
      <3>1. PICK k \in 1..i : toNcp'[k].type = "DATA"
        BY <1>2, <2>2 DEF Late
      <3>2. k \in 1..Len(toNcp') /\ i \in Nat
        BY <1>1
      <3>3. k + p \in 1..(i + p) /\ toNcp[k + p].type = "DATA"
        BY <1>1, <3>1, <3>2
      <3> QED
        BY <1>2, <3>3 DEF Late
    <2> QED
      BY <2>1, <2>2
  <1>3. ASSUME NEW i \in 1..Len(toNcp'), Late(i)'
        PROVE  nAck' - Count(toNcp[i].ack)' <= 7 - NcpWindow
    <2>1. Late(i + p) /\ i + p \in 1..Len(toNcp)
      BY <1>1, <1>2, <1>3
    <2> QED
      BY <1>1, <2>1 DEF RoundInv
  <1>4. ASSUME NEW i \in 1..Len(toNcp'), NEW j \in 1..Len(toNcp'), i < j, Late(i)'
        PROVE  Count(toNcp[i].ack)' - Count(toNcp[j].ack)' <= 7 - NcpWindow
    <2>1. Late(i + p) /\ i + p \in 1..Len(toNcp) /\ j + p \in 1..Len(toNcp) /\ i + p < j + p
      BY <1>1, <1>2, <1>4
    <2> QED
      BY <1>1, <2>1 DEF RoundInv
  <1> QED
    BY <1>3, <1>4 DEF RoundInv

\* The host writes a frame: what it acknowledges was taken at most 7 - NcpWindow ago.
LEMMA RoundPushed ==
    ASSUME TypeOK, WindowInv, RoundInv, NEW y, Pushed(toNcp, toNcp', y),
           InSession /\ Late(Len(toNcp))' =>
              y.ack \in 0..7 /\ Behind(y.ack) <= 7 - NcpWindow,
           InSession' => InSession, UNCHANGED <<nAck, delivered>>, Taken' = Taken
    PROVE  RoundInv'
  <1>1. \A a : Count(a)' = Count(a) /\ Count(a) = Taken - Behind(a)
    BY DEF Count, Behind
  <1>2. Len(toNcp) \in Nat /\ Len(toNcp') \in {Len(toNcp), Len(toNcp) + 1}
    BY DEF Pushed
  <1>3. ASSUME NEW i \in 1..Len(toNcp)
        PROVE  toNcp'[i] = toNcp[i] /\ (Late(i)' => Late(i))
    <2>1. \A k \in 1..i : toNcp'[k] = toNcp[k]
      BY <1>2 DEF Pushed
    <2>2. i \in 1..i
      BY <1>2
    <2> QED
      BY <2>1, <2>2 DEF Late
  <1>4. ASSUME NEW i \in 1..Len(toNcp'), NEW j \in 1..Len(toNcp'), i < j
        PROVE  i \in 1..Len(toNcp)
    BY <1>2, <1>4
  <1>5. ASSUME NEW j \in 1..Len(toNcp'), j \notin 1..Len(toNcp), Late(j)'
        PROVE  /\ toNcp'[j] = y /\ y.ack \in 0..7
               /\ Taken - Count(y.ack)' <= 7 - NcpWindow /\ Count(y.ack)' \in Int
    <2>1. j > Len(toNcp) /\ j = Len(toNcp')
      BY <1>2, <1>5
    <2>2. toNcp'[j] = y
      BY <2>1 DEF Pushed
    <2>3. y.ack \in 0..7 /\ Behind(y.ack) <= 7 - NcpWindow
      BY <1>5, <2>1 DEF Late
    <2>4. Taken \in Nat /\ Behind(y.ack) \in 0..7 /\ NcpWindow \in 1..7
      BY <2>3, RTypes
    <2> QED
      BY <1>1, <2>2, <2>3, <2>4
  <1>6. ASSUME NEW i \in 1..Len(toNcp'), Late(i)'
        PROVE  nAck' - Count(toNcp[i].ack)' <= 7 - NcpWindow
    <2>1. CASE i \in 1..Len(toNcp)
      BY <1>1, <1>3, <1>6, <2>1 DEF RoundInv
    <2>2. CASE i \notin 1..Len(toNcp)
      <3>1. nAck \in Nat /\ Taken \in Nat /\ nAck <= Taken /\ NcpWindow \in 1..7
        BY RTypes DEF WindowInv
      <3>2. toNcp'[i] = y /\ Taken - Count(y.ack)' <= 7 - NcpWindow /\ Count(y.ack)' \in Int
        BY <1>5, <1>6, <2>2
      <3> QED
        BY <3>1, <3>2
    <2> QED
      BY <2>1, <2>2
  <1>7. ASSUME NEW i \in 1..Len(toNcp'), NEW j \in 1..Len(toNcp'), i < j, Late(i)'
        PROVE  Count(toNcp[i].ack)' - Count(toNcp[j].ack)' <= 7 - NcpWindow
    <2>1. i \in 1..Len(toNcp) /\ Late(i) /\ toNcp'[i] = toNcp[i]
      BY <1>3, <1>4, <1>7
    <2>2. CASE j \in 1..Len(toNcp)
      BY <1>1, <1>3, <1>7, <2>1, <2>2 DEF RoundInv
    <2>3. CASE j \notin 1..Len(toNcp)
      <3>1. Late(j)'
        <4>1. \A k \in 1..i : k \in 1..j
          BY <1>7
        <4> QED
          BY <1>7, <4>1 DEF Late
      <3>2. toNcp'[j] = y /\ Taken - Count(y.ack)' <= 7 - NcpWindow /\ Count(y.ack)' \in Int
        BY <1>5, <2>3, <3>1
      <3>3. toNcp[i].ack \in 0..7 /\ Behind(toNcp[i].ack) \in 0..7 /\ Taken \in Nat
        BY <2>1, RTypes
      <3>4. Count(toNcp[i].ack)' \in Int /\ Count(toNcp[i].ack)' <= Taken
        <4>1. Count(toNcp[i].ack)' = Taken - Behind(toNcp[i].ack)
          BY <1>1, <2>1
        <4> QED
          BY <3>3, <4>1
      <3>5. NcpWindow \in 1..7 /\ Count(toNcp[j].ack)' = Count(y.ack)'
        BY <3>2, RTypes DEF Count, Behind
      <3>6. Count(toNcp[j].ack)' \in Int /\ Taken - Count(toNcp[j].ack)' <= 7 - NcpWindow
        BY <3>2, <3>5
      <3> QED
        BY <3>3, <3>4, <3>5, <3>6
    <2> QED
      BY <2>2, <2>3
  <1> QED
    BY <1>6, <1>7 DEF RoundInv

\* Steps that change neither counts nor numbers.
LEMMA Rests ==
    ASSUME RInv, RoundInv', NEW p \in {0, 1}, Moved(toHost, toHost', p),
           InSession' => InSession,
           Holds(resetCh, "RSTACK")' => Holds(resetCh, "RSTACK"),
           UNCHANGED <<pump, held, expect>> \/ pump' # "check",
           dataCh = <<>> => dataCh' = <<>>,
           UNCHANGED <<rxSeq, nAck, nNext, nMax, delivered, got, dropped>>
    PROVE  RInv'
  <1>1. Taken' = Taken
    BY DEF Taken
  <1>2. StaleInv'
    BY StaleKept DEF RInv
  <1>3. FreshInv'
    BY <1>1, FreshKept DEF RInv
  <1>4. SilentInv' /\ WindowInv' /\ GotInv'
    BY <1>1 DEF RInv, SilentInv, WindowInv, GotInv
  <1> QED
    BY <1>2, <1>3, <1>4 DEF RInv

\* What the two lines are made of, for RoundKept and Rests.
LEMMA Lines ==
    ASSUME TypeOK, TypeOK'
    PROVE  /\ Len(toHost) \in Nat /\ Len(toNcp) \in Nat
           /\ \A i \in 1..Len(toNcp) : toNcp[i].type \in FrameTypes
           /\ \A i \in 1..Len(toNcp') : toNcp'[i].type \in FrameTypes
           /\ UNCHANGED toHost => Moved(toHost, toHost', 0)
           /\ UNCHANGED toNcp => Kept(toNcp, toNcp', 0, FrameTypes)
           /\ toHost # <<>> /\ toHost' = Tail(toHost) => Moved(toHost, toHost', 1)
           /\ toNcp # <<>> /\ toNcp' = Tail(toNcp) => Kept(toNcp, toNcp', 1, FrameTypes)
           /\ \A f \in Frame : f.type # "DATA" /\ NcpWrite(f) => Moved(toHost, toHost', 0)
  <1>1. toHost \in Seq(Frame) /\ toNcp \in Seq(Frame) /\ toNcp' \in Seq(Frame)
    BY DEF TypeOK
  <1>2. /\ \A i \in 1..Len(toNcp) : toNcp[i].type \in FrameTypes
        /\ \A i \in 1..Len(toNcp') : toNcp'[i].type \in FrameTypes
    BY <1>1, FrameFields
  <1>3. \A f \in Frame : f.type # "DATA" /\ NcpWrite(f) => Moved(toHost, toHost', 0)
    BY WritePushes, MovedLemma
  <1>4. /\ UNCHANGED toHost => Moved(toHost, toHost', 0)
        /\ toHost # <<>> /\ toHost' = Tail(toHost) => Moved(toHost, toHost', 1)
    <2>1. Len(toHost) \in Nat
      BY <1>1
    <2>2. toHost # <<>> => Popped(toHost, Tail(toHost))
      BY <1>1, PoppedLemma
    <2> QED
      BY <2>1, <2>2, MovedLemma
  <1>5. /\ UNCHANGED toNcp => Kept(toNcp, toNcp', 0, FrameTypes)
        /\ toNcp # <<>> /\ toNcp' = Tail(toNcp) => Kept(toNcp, toNcp', 1, FrameTypes)
    <2>1. Len(toNcp) \in Nat
      BY <1>1
    <2>2. toNcp # <<>> => Popped(toNcp, Tail(toNcp))
      BY <1>1, PoppedLemma
    <2> QED
      BY <2>1, <2>2, KeptLemma
  <1> QED
    BY <1>1, <1>2, <1>3, <1>4, <1>5

\* A pop of resetCh brings no RSTACK in.
LEMMA ResetPopped ==
    ASSUME TypeOK,
           \/ resetCh' = resetCh \/ resetCh' = <<>>
           \/ resetCh # <<>> /\ resetCh' = Tail(resetCh)
    PROVE  Holds(resetCh, "RSTACK")' => Holds(resetCh, "RSTACK")
  <1>1. CASE resetCh' = resetCh
    BY <1>1 DEF Holds
  <1>2. CASE resetCh' = <<>>
    BY <1>2 DEF Holds
  <1>3. CASE resetCh # <<>> /\ resetCh' = Tail(resetCh)
    <2>1. Popped(resetCh, resetCh')
      BY <1>3, PoppedLemma DEF TypeOK
    <2>2. ASSUME NEW k \in 1..Len(resetCh')
          PROVE  k + 1 \in 1..Len(resetCh) /\ resetCh'[k] = resetCh[k + 1]
      BY <2>1 DEF Popped
    <2> QED
      BY <2>2 DEF Holds
  <1> QED
    BY <1>1, <1>2, <1>3

\* The caller's steps, but for the end of a Reset.
LEMMA CallerReceives ==
    ASSUME TypeOK, TypeOK', Prompt, RInv, ResetStart \/ ResetFails \/ SendStart \/ SendStep
    PROVE  RInv'
  <1>1. UNCHANGED <<reader, ncpVars, rxSeq, dataCh, toHost>>
    BY DEF ResetStart, ResetFails, SendStart, SendStep, SendDrain, SendWrite, AwaitAck,
           AwaitReset, AwaitTimeout, AwaitAborted
  <1>2. InSession' => InSession
    BY DEF ResetStart, ResetFails, SendStart, SendStep, SendDrain, SendWrite, AwaitAck,
           AwaitReset, AwaitTimeout, AwaitAborted, InSession, Sending
  <1>3. Holds(resetCh, "RSTACK")' => Holds(resetCh, "RSTACK")
    <2>1. \/ resetCh' = resetCh \/ resetCh' = <<>>
          \/ resetCh # <<>> /\ resetCh' = Tail(resetCh)
      BY DEF ResetStart, ResetFails, SendStart, SendStep, SendDrain, SendWrite, AwaitAck,
             AwaitReset, AwaitTimeout, AwaitAborted
    <2> QED
      BY <2>1, ResetPopped
  <1>4. Taken' = Taken /\ UNCHANGED <<nAck, delivered>>
    BY <1>1 DEF reader, ncpVars, Taken
  <1>5. RoundInv'
    <2>1. CASE UNCHANGED toNcp
      BY <1>2, <1>4, <2>1, Lines, RoundKept DEF RInv
    <2>2. CASE ResetStart
      <3>1. Control("RST", 0) \in Frame
        BY FrameTypes1 DEF FrameTypes
      <3>2. Pushed(toNcp, toNcp', Control("RST", 0))
        BY <2>2, <3>1, WritePushes DEF ResetStart
      <3>3. ~InSession
        BY <2>2 DEF ResetStart, InSession, Sending
      <3> QED
        BY <1>2, <1>4, <3>2, <3>3, RoundPushed DEF RInv
    <2>3. CASE SendWrite
      <3>1. frame \in Frame /\ frame.ack \in 0..7
        BY RTypes, FrameFields
      <3>2. Pushed(toNcp, toNcp', frame)
        BY <2>3, <3>1, WritePushes DEF SendWrite
      <3>3. InSession => Behind(frame.ack) <= 7 - NcpWindow
        <4>1. (rxSeq - frame.ack) % SeqMod <= 7 - NcpWindow
          BY <2>3 DEF SendWrite, Prompt
        <4>2. InSession => rxSeq = Taken % SeqMod
          BY DEF RInv, WindowInv
        <4>3. Taken \in Nat
          BY RTypes
        <4>4. ((Taken % SeqMod) - frame.ack) % SeqMod = (Taken - frame.ack) % SeqMod
          BY <3>1, <4>3 DEF SeqMod
        <4> QED
          BY <4>1, <4>2, <4>4 DEF Behind
      <3> QED
        BY <1>2, <1>4, <3>1, <3>2, <3>3, RoundPushed DEF RInv
    <2> QED
      BY <2>1, <2>2, <2>3
         DEF ResetFails, SendStart, SendStep, SendDrain, AwaitAck,
             AwaitReset, AwaitTimeout, AwaitAborted
  <1> QED
    BY <1>1, <1>2, <1>3, <1>5, Lines, Rests DEF reader, ncpVars

\* Reset ends: nothing of this session has been taken yet, and no frame of the one before
\* is left.
LEMMA ResetAnsweredReceives ==
    ASSUME TypeOK, TypeOK', IInv, RInv, ResetAnswered
    PROVE  RInv'
  <1>1. /\ pc = "rst" /\ resetCh # <<>> /\ resetCh' = Tail(resetCh)
        /\ UNCHANGED <<reader, ncpVars, dataCh, toNcp, toHost>>
    BY DEF ResetAnswered
  <1>2. UNCHANGED <<pump, held, expect, nAck, nNext, nMax, delivered, got, dropped>> /\ Taken' = Taken
    BY <1>1 DEF reader, ncpVars, Taken
  <1>3. Holds(resetCh, "RSTACK")' => Holds(resetCh, "RSTACK")
    BY <1>1, ResetPopped
  <1>4. delivered = <<>> /\ ~Holds(toNcp, "DATA") /\ ~InSession
    BY <1>1 DEF IInv, PhaseInv, InSession, Sending
  <1>5. RoundInv'
    BY <1>1, <1>2, <1>4 DEF RoundInv, Late, Holds
  <1>6. CASE ~InSession'
    BY <1>1, <1>2, <1>3, <1>4, <1>5, <1>6, Lines, StaleKept, FreshKept
       DEF RInv, SilentInv, WindowInv, GotInv
  <1>7. CASE InSession'
    <2>1. /\ Head(resetCh).type # "ERROR" /\ rxSeq' = 0 /\ Head(resetCh) = resetCh[1]
          /\ 1 \in 1..Len(resetCh)
      <3>1. resetCh \in Seq(Frame)
        BY DEF TypeOK
      <3> QED
        BY <1>1, <1>7, <3>1, TailLemma DEF ResetAnswered, InSession, Sending
    <2>2. Holds(resetCh, "RSTACK")
      BY <2>1 DEF IInv, PhaseInv, Holds
    <2>3. nMax = 0 /\ Taken = 0
      BY <1>4 DEF RInv, SilentInv
    <2>4. pump # "check"
      <3> SUFFICES ASSUME pump = "check" PROVE FALSE
        OBVIOUS
      <3>1. IsFresh(held)
        BY <2>2 DEF RInv, StaleInv, IsStale, IsFresh
      <3>2. held.data <= 0 /\ held.data # 0 /\ held.data \in Nat
        BY <2>3, <3>1, RTypes DEF RInv, FreshInv, Numbered, IsFresh, Stale
      <3> QED
        BY <3>2
    <2>5. StaleInv'
      BY <1>1, <1>2, <2>2, <2>4 DEF RInv, StaleInv
    <2>6. FreshInv'
      BY <1>1, <1>2, Lines, FreshKept DEF RInv
    <2>7. WindowInv'
      BY <1>2, <2>1, <2>3, <2>4, NumLemma DEF RInv, WindowInv
    <2> QED
      BY <1>2, <1>5, <2>5, <2>6, <2>7 DEF RInv, SilentInv, GotInv
  <1> QED
    BY <1>6, <1>7

\* The pump reads a frame.
LEMMA PumpRecvReceives ==
    ASSUME TypeOK, TypeOK', RInv, PumpRecv
    PROVE  RInv'
  <1> DEFINE f == toHost[1]
  <1>1. /\ pump = "read" /\ toHost # <<>> /\ toHost' = Tail(toHost)
        /\ UNCHANGED <<sender, got, dropped, ncpVars, rxSeq, dataCh, toNcp>>
    BY DEF PumpRecv
  <1>2. /\ Head(toHost) = f /\ 1 \in 1..Len(toHost) /\ f \in Frame
        /\ Popped(toHost, toHost') /\ Moved(toHost, toHost', 1)
    <2>1. toHost \in Seq(Frame)
      BY DEF TypeOK
    <2> QED
      BY <1>1, <2>1, TailLemma, PoppedLemma, Lines
  <1>3. /\ UNCHANGED <<pc, nAck, nNext, nMax, delivered, got, dropped>> /\ Taken' = Taken
        /\ InSession' = InSession
    BY <1>1 DEF sender, ncpVars, Taken, InSession
  <1>4. RoundInv'
    BY <1>1, <1>3, Lines, RoundKept DEF RInv
  <1>5. \A i \in 1..Len(toHost') : /\ i + 1 \in 1..Len(toHost) /\ 1 < i + 1
                                   /\ toHost'[i] = toHost[i + 1]
    BY <1>2 DEF Popped
  <1>6. CASE f.type = "DATA"
    <2>1. held' = f /\ expect' = rxSeq /\ pump' = "check" /\ UNCHANGED resetCh
      BY <1>2, <1>6 DEF PumpRecv
    <2>2. \A i \in 1..Len(toHost') : ~IsStale(toHost'[i])
      <3> SUFFICES ASSUME NEW i \in 1..Len(toHost'), IsStale(toHost'[i]) PROVE FALSE
        OBVIOUS
      <3> QED
        BY <1>5 DEF RInv, StaleInv
    <2>3. StaleInv'
      <3>1. IsStale(f) => ~InSession /\ ~Holds(resetCh, "RSTACK") /\ dataCh = <<>>
        BY <1>2 DEF RInv, StaleInv
      <3> QED
        BY <1>1, <1>3, <1>6, <2>1, <2>2, <3>1 DEF StaleInv, Holds
    <2>4. FreshInv'
      <3>1. FreshInv
        BY DEF RInv
      <3>2. \A x : Numbered(x) => Numbered(x)'
        BY <1>3 DEF Numbered
      <3>3. IsFresh(f) => Numbered(held)'
        BY <1>2, <2>1, <3>1, <3>2 DEF FreshInv
      <3>4. ASSUME NEW j \in 1..Len(toHost'), IsFresh(f), IsFresh(toHost'[j])
            PROVE  f.data <= toHost'[j].data + 6
        BY <1>2, <1>5, <3>1, <3>4 DEF FreshInv
      <3>5. ASSUME NEW i \in 1..Len(toHost'), IsFresh(toHost'[i])
            PROVE  Numbered(toHost[i])'
        BY <1>5, <3>1, <3>2, <3>5 DEF FreshInv
      <3>6. ASSUME NEW i \in 1..Len(toHost'), NEW j \in 1..Len(toHost'), i < j,
                   IsFresh(toHost'[i]), IsFresh(toHost'[j])
            PROVE  toHost'[i].data <= toHost'[j].data + 6
        <4>1. i + 1 < j + 1
          BY <3>6
        <4> QED
          BY <1>5, <3>1, <3>6, <4>1 DEF FreshInv
      <3> QED
        BY <2>1, <3>3, <3>4, <3>5, <3>6 DEF FreshInv
    <2> QED
      BY <1>1, <1>3, <1>4, <2>1, <2>3, <2>4 DEF RInv, SilentInv, WindowInv, GotInv
  <1>7. CASE f.type # "DATA"
    <2>1. UNCHANGED <<held, expect, pump>>
      BY <1>2, <1>7 DEF PumpRecv
    <2>2. StaleInv'
      <3>1. \A i \in 1..Len(toHost') : ~IsStale(toHost'[i])
        <4> SUFFICES ASSUME NEW i \in 1..Len(toHost'), IsStale(toHost'[i]) PROVE FALSE
          OBVIOUS
        <4> QED
          BY <1>5 DEF RInv, StaleInv
      <3> QED
        BY <1>1, <2>1, <3>1 DEF StaleInv
    <2>3. FreshInv'
      BY <1>2, <1>3, <2>1, FreshKept DEF RInv
    <2> QED
      BY <1>1, <1>3, <1>4, <2>1, <2>2, <2>3 DEF RInv, SilentInv, WindowInv, GotInv
  <1> QED
    BY <1>6, <1>7

\* A frame that is not the expected one, or that is damaged, makes the pump say what it
\* expects.
LEMMA PumpRepeats ==
    ASSUME TypeOK, TypeOK', RInv, \/ PumpCheck /\ ~Expected
                                  \/ PumpCorrupt
    PROVE  RInv'
  <1>1. /\ UNCHANGED <<sender, ncpVars, got, dropped, rxSeq, dataCh, resetCh, held, expect>>
        /\ \/ pump = "check" /\ pump' = "read" /\ UNCHANGED toHost
           \/ UNCHANGED pump /\ toHost # <<>> /\ toHost' = Tail(toHost)
    BY DEF PumpCheck, PumpCorrupt, reader
  <1>2. /\ UNCHANGED <<pc, nAck, nNext, nMax, delivered>> /\ Taken' = Taken
        /\ InSession' = InSession
    BY <1>1 DEF sender, ncpVars, Taken, InSession
  <1>3. \/ UNCHANGED toNcp
        \/ \E y \in Frame : /\ Pushed(toNcp, toNcp', y)
                            /\ InSession => y.ack = rxSeq
    <2>1. CASE PumpCheck /\ ~Expected
      <3>1. Repeat(held, expect) \in Frame /\ Repeat(held, expect).ack = expect
        BY RTypes, RepeatType DEF Repeat, Control
      <3>2. pump = "check" /\ Pushed(toNcp, toNcp', Repeat(held, expect))
        BY <2>1, <3>1, WritePushes DEF PumpCheck
      <3> QED
        BY <3>1, <3>2 DEF RInv, WindowInv
    <2>2. CASE PumpCorrupt
      <3>1. Control("NAK", rxSeq) \in Frame /\ Control("NAK", rxSeq).ack = rxSeq
        BY RTypes, FrameTypes1 DEF FrameTypes, Control
      <3>2. UNCHANGED toNcp \/ Pushed(toNcp, toNcp', Control("NAK", rxSeq))
        BY <2>2, <3>1, WritePushes DEF PumpCorrupt
      <3> QED
        BY <3>1, <3>2
    <2> QED
      BY <2>1, <2>2
  <1>4. RoundInv'
    <2>1. CASE UNCHANGED toNcp
      BY <1>2, <2>1, Lines, RoundKept DEF RInv
    <2>2. ASSUME NEW y \in Frame, Pushed(toNcp, toNcp', y), InSession => y.ack = rxSeq
          PROVE  RoundInv'
      <3>1. y.ack \in 0..7 /\ Taken \in Nat /\ NcpWindow \in 1..7
        BY FrameFields, RTypes
      <3>2. InSession => y.ack = Taken % SeqMod
        BY <2>2 DEF RInv, WindowInv
      <3>3. InSession => Behind(y.ack) = 0
        BY <3>1, <3>2, BackLemma DEF Behind
      <3> QED
        BY <1>2, <2>2, <3>1, <3>3, RoundPushed DEF RInv
    <2> QED
      BY <1>3, <2>1, <2>2
  <1>5. \E p \in {0, 1} : Moved(toHost, toHost', p)
    BY <1>1, Lines
  <1>6. Holds(resetCh, "RSTACK")' => Holds(resetCh, "RSTACK")
    BY <1>1 DEF Holds
  <1>7. UNCHANGED <<pump, held, expect>> \/ pump' # "check"
    BY <1>1
  <1> QED
    BY <1>1, <1>2, <1>4, <1>5, <1>6, <1>7, Rests

\* The frame the pump expects carries the next payload.
LEMMA ExpectedIsNext ==
    ASSUME TypeOK, IInv, RInv, pump = "check", Expected, IsFresh(held)
    PROVE  /\ InSession /\ delivered # <<>> /\ rxSeq = Taken % SeqMod
           /\ held.data = Taken + 1 /\ held.data <= nMax
  <1>1. /\ held.data <= nMax /\ held.frm = (held.data - 1) % SeqMod
        /\ Taken <= held.data + 6 /\ held.data # 0
    BY DEF RInv, FreshInv, Numbered, IsFresh, Stale
  <1>2. /\ held.data \in Nat /\ nMax \in Nat /\ Taken \in Nat /\ nAck \in Nat
        /\ NcpWindow \in 1..7
    BY RTypes
  <1>3. delivered # <<>>
    BY <1>1, <1>2 DEF RInv, SilentInv
  <1>4. InSession
    BY <1>3 DEF IInv, PhaseInv
  <1>5. rxSeq = Taken % SeqMod /\ held.frm = rxSeq
    BY <1>4 DEF RInv, WindowInv, Expected
  <1>6. nMax <= nAck + NcpWindow /\ nAck <= Taken
    BY DEF RInv, WindowInv
  <1>7. held.data - 1 = Taken
    <2>1. held.data - 1 - Taken <= 7 /\ Taken - (held.data - 1) <= 7
      BY <1>1, <1>2, <1>6
    <2>2. (held.data - 1) % SeqMod = Taken % SeqMod
      BY <1>1, <1>5
    <2> QED
      BY <1>2, <2>1, <2>2, SameNumber
  <1> QED
    BY <1>1, <1>2, <1>3, <1>4, <1>5, <1>7

\* When a payload is taken, an older acknowledgement stands for the same count, and a new
\* one for the new count.
LEMMA CountStays ==
    ASSUME TypeOK, Taken' = Taken + 1, NEW a \in 0..7
    PROVE  /\ Behind(a) <= 6 => Count(a)' = Count(a)
           /\ a = (Taken + 1) % SeqMod => Count(a)' = Taken + 1
  <1>1. Taken \in Int
    BY RTypes
  <1>2. Count(a)' = Taken + 1 - ((Taken + 1 - a) % SeqMod)
    BY <1>1 DEF Count, Behind, SeqMod
  <1>3. Count(a) = Taken - ((Taken - a) % SeqMod) /\ Behind(a) = (Taken - a) % SeqMod
    BY DEF Count, Behind
  <1>4. ASSUME NEW t \in Int
        PROVE  /\ (t - a) % SeqMod <= 6 => t + 1 - ((t + 1 - a) % SeqMod) = t - ((t - a) % SeqMod)
               /\ a = (t + 1) % SeqMod => t + 1 - ((t + 1 - a) % SeqMod) = t + 1
    BY DEF SeqMod
  <1> QED
    BY <1>1, <1>2, <1>3, <1>4

\* The pump takes the frame it expects.
LEMMA PumpTakes ==
    ASSUME TypeOK, TypeOK', IInv, RInv, PumpCheck, Expected
    PROVE  RInv'
  <1> DEFINE y == Control("ACK", Succ(rxSeq))
  <1>1. /\ pump = "check" /\ pump' = "read" /\ rxSeq' = Succ(rxSeq) /\ HostWrite(y)
        /\ dataCh' = Put(dataCh, DataCap, held.data)
        /\ UNCHANGED <<sender, ncpVars, held, expect, resetCh, toHost>>
        /\ IF Len(dataCh) < DataCap
           THEN got' = (IF held.data = Stale THEN got ELSE Append(got, held.data))
                /\ dropped' = dropped
           ELSE dropped' = dropped + 1 /\ got' = got
    BY DEF PumpCheck, RxAdvance
  <1>2. /\ UNCHANGED <<pc, nAck, nNext, nMax, delivered>> /\ InSession' = InSession
    BY <1>1 DEF sender, ncpVars, InSession
  <1>3. /\ y.ack = Succ(rxSeq) /\ Pushed(toNcp, toNcp', y) /\ held.type = "DATA"
        /\ Succ(rxSeq) \in 0..7
    <2>1. Succ(rxSeq) \in 0..7
      BY RTypes, NumLemma
    <2>2. y \in Frame
      BY <2>1, FrameTypes1 DEF FrameTypes
    <2> QED
      BY <1>1, <2>1, <2>2, WritePushes DEF Control, RInv, StaleInv
  <1>4. StaleInv'
    <2>1. \A i \in 1..Len(toHost) : ~IsStale(toHost[i])
      BY <1>1 DEF RInv, StaleInv
    <2> QED
      BY <1>1, <2>1 DEF StaleInv
  <1>5. CASE IsStale(held)
    <2>1. ~InSession /\ dataCh = <<>> /\ held.data = Stale
      BY <1>1, <1>5 DEF RInv, StaleInv, IsStale
    <2>2. got' = got /\ dropped' = dropped
      <3>1. Len(dataCh) < DataCap
        BY <2>1, ConstantsAssumption
      <3> QED
        BY <1>1, <2>1, <3>1
    <2>3. Taken' = Taken
      BY <2>2 DEF Taken
    <2>4. RoundInv'
      BY <1>2, <1>3, <2>1, <2>3, RoundPushed DEF RInv
    <2>5. FreshInv'
      BY <1>1, <1>2, <2>3, Lines, FreshKept DEF RInv
    <2>6. SilentInv' /\ WindowInv' /\ GotInv'
      BY <1>1, <1>2, <2>1, <2>2, <2>3 DEF RInv, SilentInv, WindowInv, GotInv
    <2> QED
      BY <1>4, <2>4, <2>5, <2>6 DEF RInv
  <1>6. CASE IsFresh(held)
    <2>1. /\ InSession /\ delivered # <<>> /\ rxSeq = Taken % SeqMod
          /\ held.data = Taken + 1 /\ held.data <= nMax
      BY <1>1, <1>6, ExpectedIsNext
    <2>2. /\ got \in Seq(Nat) /\ Len(got) \in Nat /\ dropped \in Nat /\ Taken \in Nat
          /\ held.data \in Nat /\ nAck \in Nat /\ nMax \in Nat /\ NcpWindow \in 1..7
      BY RTypes DEF TypeOK
    <2>3. /\ Taken' = Taken + 1
          /\ got' = got \/ got' = Append(got, held.data)
      BY <1>1, <1>6, <2>2 DEF Taken, IsFresh
    <2>4. GotInv'
      <3>1. \A i \in 1..Len(got) :
               got[i] \in Nat /\ got[i] <= Taken /\ \A j \in 1..(i - 1) : got[j] < got[i]
        BY <2>2 DEF RInv, GotInv
      <3>2. CASE got' = got
        BY <2>2, <2>3, <3>1, <3>2 DEF GotInv
      <3>3. CASE got' = Append(got, held.data)
        <4>1. /\ Len(got') = Len(got) + 1 /\ got'[Len(got) + 1] = held.data
              /\ \A i \in 1..Len(got) : got'[i] = got[i]
          BY <2>2, <3>3
        <4>2. ASSUME NEW i \in 1..Len(got')
              PROVE  got'[i] <= Taken' /\ \A j \in 1..(i - 1) : got'[j] < got'[i]
          <5>1. CASE i \in 1..Len(got)
            <6>1. \A j \in 1..(i - 1) : j \in 1..Len(got)
              BY <5>1, <2>2
            <6> QED
              BY <2>2, <2>3, <3>1, <4>1, <5>1, <6>1
          <5>2. CASE i \notin 1..Len(got)
            <6>1. i = Len(got) + 1
              BY <2>2, <4>1, <4>2, <5>2
            <6>2. \A j \in 1..(i - 1) : j \in 1..Len(got)
              BY <2>2, <6>1
            <6>3. got'[i] = held.data
              BY <4>1, <6>1
            <6>4. \A j \in 1..(i - 1) : got'[j] = got[j] /\ got[j] \in Nat /\ got[j] <= Taken
              BY <3>1, <4>1, <6>2
            <6>5. Taken \in Nat /\ held.data = Taken + 1
              BY <2>1, <2>2
            <6>6. got'[i] <= Taken'
              BY <2>3, <6>3, <6>5
            <6> QED
              BY <6>3, <6>4, <6>5, <6>6
          <5> QED
            BY <5>1, <5>2
        <4> QED
          BY <4>2 DEF GotInv
      <3> QED
        BY <2>3, <3>2, <3>3
    <2>5. SilentInv' /\ WindowInv'
      <3>1. Succ(rxSeq) = (Taken + 1) % SeqMod
        BY <2>1, <2>2, NumLemma
      <3>2. nAck <= Taken /\ nMax <= nAck + NcpWindow /\ nAck <= nNext /\ nNext <= nMax
        BY DEF RInv, WindowInv
      <3> QED
        BY <1>1, <1>2, <2>1, <2>2, <2>3, <3>1, <3>2 DEF SilentInv, WindowInv
    <2>6. FreshInv'
      <3>1. FreshInv /\ Len(toHost) \in Nat
        BY Types DEF RInv
      <3>2. ASSUME NEW i \in 1..Len(toHost), IsFresh(toHost[i])
            PROVE  Numbered(toHost[i])'
        <4>1. Numbered(toHost[i]) /\ held.data <= toHost[i].data + 6
          BY <1>1, <1>6, <3>1, <3>2 DEF FreshInv
        <4> QED
          BY <1>1, <1>2, <2>1, <2>3, <4>1 DEF Numbered
      <3> QED
        BY <1>1, <3>1, <3>2 DEF FreshInv
    <2>7. RoundInv'
      <3>1. /\ nMax <= nAck + NcpWindow /\ nAck <= Taken /\ Len(toNcp) \in Nat
            /\ Len(toNcp') \in {Len(toNcp), Len(toNcp) + 1}
        BY <1>3 DEF RInv, WindowInv, Pushed
      <3>2. ASSUME NEW i \in 1..Len(toNcp)
            PROVE  /\ toNcp'[i] = toNcp[i] /\ Late(i) /\ toNcp[i].ack \in 0..7
                   /\ nAck - Count(toNcp[i].ack) <= 7 - NcpWindow
                   /\ Count(toNcp[i].ack)' = Count(toNcp[i].ack)
                   /\ Count(toNcp[i].ack) \in Int /\ Count(toNcp[i].ack) <= Taken
        <4> DEFINE a == toNcp[i].ack
        <4>1. toNcp'[i] = toNcp[i] /\ Late(i) /\ a \in 0..7
          BY <1>3, <2>1, RTypes DEF Late, Pushed
        <4>2. nAck - Count(a) <= 7 - NcpWindow
          BY <4>1 DEF RInv, RoundInv
        <4>3. Behind(a) \in 0..7 /\ Count(a) = Taken - Behind(a)
          BY <4>1, RTypes DEF Count
        <4>4. Behind(a) <= 6
          BY <2>1, <2>2, <3>1, <4>2, <4>3
        <4>5. Count(a)' = Count(a)
          <5>1. \A x \in 0..7 : Behind(x) <= 6 => Count(x)' = Count(x)
            BY <2>3, CountStays
          <5> QED
            BY <4>1, <4>4, <5>1 DEF Count, Behind
        <4> QED
          BY <2>2, <4>1, <4>2, <4>3, <4>5
      <3>3. ASSUME NEW i \in 1..Len(toNcp'), i \notin 1..Len(toNcp)
            PROVE  toNcp'[i] = y /\ Count(toNcp[i].ack)' = Taken + 1
        <4>1. toNcp'[i] = y
          BY <1>3, <3>1, <3>3 DEF Pushed
        <4>2. y.ack = (Taken + 1) % SeqMod
          BY <1>3, <2>1, <2>2, NumLemma
        <4>3. \A x \in 0..7 : x = (Taken + 1) % SeqMod => Count(x)' = Taken + 1
          BY <2>3, CountStays
        <4> QED
          BY <1>3, <4>1, <4>2, <4>3 DEF Count, Behind
      <3>4. \A i \in 1..Len(toNcp') : nAck' - Count(toNcp[i].ack)' <= 7 - NcpWindow
        BY <1>2, <2>2, <3>1, <3>2, <3>3
      <3>5. ASSUME NEW i \in 1..Len(toNcp'), NEW j \in 1..Len(toNcp'), i < j
            PROVE  Count(toNcp[i].ack)' - Count(toNcp[j].ack)' <= 7 - NcpWindow
        <4>1. i \in 1..Len(toNcp)
          BY <3>1, <3>5
        <4>2. CASE j \in 1..Len(toNcp)
          <5>1. Count(toNcp[i].ack) - Count(toNcp[j].ack) <= 7 - NcpWindow
            BY <3>2, <3>5, <4>1, <4>2 DEF RInv, RoundInv
          <5> QED
            BY <3>2, <4>1, <4>2, <5>1
        <4>3. CASE j \notin 1..Len(toNcp)
          BY <2>2, <3>2, <3>3, <4>1, <4>3
        <4> QED
          BY <4>2, <4>3
      <3> QED
        BY <3>4, <3>5 DEF RoundInv
    <2> QED
      BY <1>4, <2>4, <2>5, <2>6, <2>7 DEF RInv
  <1> QED
    BY <1>3, <1>5, <1>6 DEF IsStale, IsFresh

\* The consumer, Close, the port and the end of the pump.
LEMMA IdleReceives ==
    ASSUME TypeOK, TypeOK', RInv,
           PumpExit \/ Consume \/ Close \/ PortLost \/ UNCHANGED vars
    PROVE  RInv'
  <1>1. /\ UNCHANGED <<sender, ncpVars, got, dropped, rxSeq, resetCh, held, expect,
                       toHost, toNcp>>
        /\ UNCHANGED pump \/ pump' # "check"
        /\ dataCh = <<>> => dataCh' = <<>>
    BY DEF PumpExit, Consume, Close, PortLost, vars, reader
  <1>2. /\ UNCHANGED <<pc, nAck, nNext, nMax, delivered>> /\ Taken' = Taken
        /\ InSession' = InSession
    BY <1>1 DEF sender, ncpVars, Taken, InSession
  <1>3. RoundInv'
    BY <1>1, <1>2, Lines, RoundKept DEF RInv
  <1>4. Holds(resetCh, "RSTACK")' => Holds(resetCh, "RSTACK")
    BY <1>1 DEF Holds
  <1> QED
    BY <1>1, <1>2, <1>3, <1>4, Lines, Rests

\* With a window of w and less than a round between the oldest unacknowledged frame and an
\* acknowledgement in flight, the number tells an older acknowledgement from a newer one.
LEMMA WindowLemma ==
    ASSUME NEW t \in Nat, NEW n \in Nat, NEW m \in Nat, NEW w \in 1..7, NEW a \in 0..7,
           n <= t, t <= m, m <= n + w,
           NEW c \in Int, c = t - ((t - a) % SeqMod), n - c <= 7 - w,
           NEW r \in Int,
           r = IF (a - n) % SeqMod <= m - n THEN (a - n) % SeqMod ELSE 0
    PROVE  n + r \in {n, c} /\ n <= n + r /\ n + r <= t
  <1>1. c % SeqMod = a /\ c <= t /\ t - c <= 7
    BY DEF SeqMod
  <1>2. CASE c >= n
    <2>1. c - n \in 0..7
      BY <1>1, <1>2
    <2>2. (a - n) % SeqMod = c - n
      BY <1>1, <2>1, AheadLemma
    <2> QED
      BY <1>1, <1>2, <2>2
  <1>3. CASE c < n
    <2>1. n - c \in 1..7
      BY <1>3
    <2>2. (a - n) % SeqMod = 8 - (n - c)
      BY <1>1, <2>1, AheadLemma
    <2> QED
      BY <2>2
  <1> QED
    BY <1>2, <1>3

\* The NCP takes an acknowledgement for what it is: the count it was read at, or an older
\* one, which changes nothing.
LEMMA AckIsCount ==
    ASSUME TypeOK, IInv, RInv, NEW f \in Frame, 1 \in 1..Len(toNcp), toNcp[1] = f,
           NcpTakeAck(f)
    PROVE  /\ nMax' = nMax /\ nAck' <= Taken /\ nMax <= nAck' + NcpWindow
           /\ nAck' <= nNext' /\ nNext' <= nMax
           /\ nAck' = nAck \/ (Late(1) /\ nAck' = Count(f.ack))
  <1> DEFINE a == f.ack
  <1>1. /\ nAck \in Nat /\ nNext \in Nat /\ nMax \in Nat /\ Taken \in Nat
        /\ NcpWindow \in 1..7 /\ a \in 0..7 /\ Count(a) \in Int
    <2>1. a \in 0..7
      BY FrameFields
    <2> QED
      BY <2>1, RTypes
  <1>2. /\ nAck <= Taken /\ Taken <= nMax /\ nMax <= nAck + NcpWindow
        /\ nAck <= nNext /\ nNext <= nMax
    BY DEF RInv, WindowInv
  <1>3. /\ nMax' = nMax /\ nAck' = nAck + AckedBy(a)
        /\ nNext' = nAck' \/ (nNext' = nNext /\ ~(nNext < nAck'))
    <2>1. /\ nMax' = nMax /\ nAck' = nAck + AckedBy(a)
          /\ nNext' = IF f.type = "NAK" \/ nNext < nAck' THEN nAck' ELSE nNext
      BY DEF NcpTakeAck
    <2> QED
      BY <2>1
  <1>4. AckedBy(a) = IF (a - nAck) % SeqMod <= nMax - nAck THEN (a - nAck) % SeqMod ELSE 0
    BY DEF AckedBy
  <1>5. CASE delivered = <<>> /\ f.type # "DATA"
    <2>1. nMax = 0 /\ nAck = 0 /\ Taken = 0
      BY <1>1, <1>2, <1>5 DEF RInv, SilentInv
    <2>2. AckedBy(a) = 0
      BY <1>1, <1>4, <2>1 DEF SeqMod
    <2>3. nAck' = nAck
      BY <1>1, <1>3, <2>2
    <2> QED
      BY <1>1, <1>2, <1>3, <2>1, <2>3
  <1>6. CASE delivered # <<>> \/ f.type = "DATA"
    <2>1. Late(1)
      <3>1. InSession
        BY <1>6 DEF IInv, PhaseInv, Holds
      <3>2. 1 \in 1..1
        OBVIOUS
      <3> QED
        BY <1>6, <3>1, <3>2 DEF Late
    <2>2. Count(a) = Taken - ((Taken - a) % SeqMod) /\ nAck - Count(a) <= 7 - NcpWindow
      BY <2>1 DEF RInv, RoundInv, Count, Behind
    <2>3. nAck' \in {nAck, Count(a)} /\ nAck <= nAck' /\ nAck' <= Taken
      <3>1. AckedBy(a) \in Int
        BY <1>1, <1>4 DEF SeqMod
      <3>2. /\ nAck + AckedBy(a) \in {nAck, Count(a)}
            /\ nAck <= nAck + AckedBy(a) /\ nAck + AckedBy(a) <= Taken
        BY <1>1, <1>2, <1>4, <2>2, <3>1, WindowLemma
      <3> QED
        BY <1>3, <3>2
    <2> QED
      BY <1>1, <1>2, <1>3, <2>1, <2>3
  <1> QED
    BY <1>5, <1>6

\* The acknowledgements behind one that was taken are at most a round older.
LEMMA RoundAcked ==
    ASSUME TypeOK, RInv, Popped(toNcp, toNcp'), Taken' = Taken, InSession' => InSession,
           nAck' = nAck \/ (Late(1) /\ nAck' = Count(toNcp[1].ack)),
           delivered' # <<>> => delivered # <<>> \/ toNcp[1].type = "DATA"
    PROVE  RoundInv'
  <1>1. ASSUME NEW i \in 1..Len(toNcp')
        PROVE  /\ i \in Nat /\ i + 1 \in 1..Len(toNcp) /\ 1 < i + 1 /\ 1 \in 1..Len(toNcp)
               /\ toNcp'[i] = toNcp[i + 1]
               /\ Count(toNcp[i].ack)' = Count(toNcp[i + 1].ack)
    BY DEF Popped, Count, Behind
  <1>2. ASSUME NEW i \in 1..Len(toNcp'), Late(i)'
        PROVE  Late(i + 1)
    <2>1. CASE delivered # <<>> \/ toNcp[1].type = "DATA"
      <3>1. 1 \in 1..(i + 1)
        BY <1>1
      <3> QED
        BY <1>2, <2>1, <3>1 DEF Late
    <2>2. CASE delivered' = <<>>
      <3>1. PICK k \in 1..i : toNcp'[k].type = "DATA"
        BY <1>2, <2>2 DEF Late
      <3>2. k \in 1..Len(toNcp') /\ i \in Nat
        BY <1>1
      <3>3. k + 1 \in 1..(i + 1) /\ toNcp[k + 1].type = "DATA"
        BY <1>1, <3>1, <3>2
      <3> QED
        BY <1>2, <3>3 DEF Late
    <2> QED
      BY <2>1, <2>2
  <1>3. ASSUME NEW i \in 1..Len(toNcp'), Late(i)'
        PROVE  nAck' - Count(toNcp[i].ack)' <= 7 - NcpWindow
    <2>1. Late(i + 1) /\ i + 1 \in 1..Len(toNcp)
      BY <1>1, <1>2, <1>3
    <2>2. CASE nAck' = nAck
      BY <1>1, <2>1, <2>2 DEF RInv, RoundInv
    <2>3. CASE Late(1) /\ nAck' = Count(toNcp[1].ack)
      BY <1>1, <2>1, <2>3 DEF RInv, RoundInv
    <2> QED
      BY <2>2, <2>3
  <1>4. ASSUME NEW i \in 1..Len(toNcp'), NEW j \in 1..Len(toNcp'), i < j, Late(i)'
        PROVE  Count(toNcp[i].ack)' - Count(toNcp[j].ack)' <= 7 - NcpWindow
    <2>1. Late(i + 1) /\ i + 1 \in 1..Len(toNcp) /\ j + 1 \in 1..Len(toNcp) /\ i + 1 < j + 1
      BY <1>1, <1>2, <1>4
    <2> QED
      BY <1>1, <2>1 DEF RInv, RoundInv
  <1> QED
    BY <1>3, <1>4 DEF RoundInv

\* The NCP reads a frame.
LEMMA NcpRecvReceives ==
    ASSUME TypeOK, TypeOK', IInv, RInv, NcpRecv
    PROVE  RInv'
  <1> DEFINE f == toNcp[1]
  <1>1. /\ toNcp # <<>> /\ toNcp' = Tail(toNcp) /\ Head(toNcp) = f /\ f \in Frame
        /\ 1 \in 1..Len(toNcp) /\ Popped(toNcp, toNcp')
        /\ UNCHANGED <<sender, reader, rxSeq, dataCh, resetCh>>
    <2>1. toNcp \in Seq(Frame)
      BY DEF TypeOK
    <2> QED
      BY <2>1, TailLemma, PoppedLemma DEF NcpRecv
  <1>2. /\ UNCHANGED <<pc, pump, held, expect, got, dropped>> /\ Taken' = Taken
        /\ InSession' = InSession
        /\ Holds(resetCh, "RSTACK")' => Holds(resetCh, "RSTACK")
    BY <1>1 DEF sender, reader, Taken, InSession, Holds
  <1>3. Moved(toHost, toHost', 0)
    <2>1. UNCHANGED toHost \/ \E y \in Frame : y.type # "DATA" /\ NcpWrite(y)
      <3>1. /\ Control("RSTACK", 0) \in Frame /\ Control("ACK", Succ(nRx)) \in Frame
            /\ Repeat(f, nRx) \in Frame
        <4>1. nRx \in 0..7 /\ Succ(nRx) \in 0..7 /\ "RSTACK" \in FrameTypes /\ "ACK" \in FrameTypes
          BY Types, NumLemma DEF FrameTypes
        <4> QED
          BY <1>1, <4>1, FrameTypes1, RepeatType
      <3>2. /\ Control("RSTACK", 0).type # "DATA" /\ Control("ACK", Succ(nRx)).type # "DATA"
            /\ Repeat(f, nRx).type # "DATA"
        BY DEF Control, Repeat
      <3> QED
        BY <1>1, <3>1, <3>2 DEF NcpRecv
    <2> QED
      BY <2>1, Lines
  <1>4. CASE f.type = "RST"
    <2>1. nAck' = 0 /\ nNext' = 0 /\ nMax' = 0 /\ delivered' = delivered
      BY <1>1, <1>4 DEF NcpRecv
    <2>2. delivered = <<>>
      BY <1>1, <1>4 DEF IInv, PhaseInv, Holds
    <2>3. UNCHANGED <<nAck, nNext, nMax>>
      <3>1. nMax = 0 /\ nNext <= 0 /\ nAck <= 0
        BY <2>2, RTypes DEF RInv, SilentInv, WindowInv
      <3>2. nMax \in Nat /\ nNext \in Nat /\ nAck \in Nat
        BY RTypes DEF RInv
      <3>3. nNext = 0 /\ nAck = 0
        BY <3>1, <3>2
      <3> QED
        BY <2>1, <3>1, <3>3
    <2>4. RoundInv'
      BY <1>1, <1>2, <2>1, <2>3, Lines, RoundKept DEF RInv
    <2> QED
      BY <1>1, <1>2, <1>3, <2>1, <2>3, <2>4, Rests
  <1>5. CASE f.type # "RST" /\ UNCHANGED ncpVars
    <2>1. UNCHANGED <<nAck, nNext, nMax, delivered>>
      BY <1>5 DEF ncpVars
    <2>2. RoundInv'
      BY <1>1, <1>2, <2>1, Lines, RoundKept DEF RInv
    <2> QED
      BY <1>1, <1>2, <1>3, <2>1, <2>2, Rests
  <1>6. CASE f.type # "RST" /\ NcpTakeAck(f)
    <2>1. /\ nMax' = nMax /\ nAck' <= Taken /\ nMax <= nAck' + NcpWindow
          /\ nAck' <= nNext' /\ nNext' <= nMax
          /\ nAck' = nAck \/ (Late(1) /\ nAck' = Count(f.ack))
      BY <1>1, <1>6, AckIsCount
    <2>2. /\ delivered' = delivered \/ f.type = "DATA"
          /\ delivered' = <<>> => delivered = <<>>
      <3>1. delivered \in Seq(Nat)
        BY DEF TypeOK
      <3>2. delivered' = delivered \/ (f.type = "DATA" /\ delivered' = Append(delivered, f.data))
        BY <1>1, <1>6 DEF NcpRecv, ncpVars
      <3>3. Append(delivered, f.data) # <<>>
        BY <1>1, <3>1, FrameFields, AppendLemma
      <3> QED
        BY <3>2, <3>3
    <2>3. RoundInv'
      BY <1>1, <1>2, <2>1, <2>2, RoundAcked
    <2>4. StaleInv'
      BY <1>1, <1>2, <1>3, StaleKept DEF RInv
    <2>5. FreshInv'
      BY <1>2, <1>3, <2>1, FreshKept DEF RInv
    <2>6. SilentInv' /\ WindowInv' /\ GotInv'
      BY <1>1, <1>2, <2>1, <2>2 DEF RInv, SilentInv, WindowInv, GotInv
    <2> QED
      BY <2>3, <2>4, <2>5, <2>6 DEF RInv
  <1> QED
    BY <1>1, <1>4, <1>5, <1>6 DEF NcpRecv

\* The NCP's other steps.
LEMMA NcpReceives ==
    ASSUME TypeOK, TypeOK', RInv, NcpCorrupt \/ NcpTimeout \/ NcpReboot
    PROVE  RInv'
  <1>1. /\ UNCHANGED <<sender, reader, rxSeq, dataCh, resetCh, nAck, nMax, delivered>>
        /\ UNCHANGED toNcp \/ (toNcp # <<>> /\ toNcp' = Tail(toNcp))
    BY DEF NcpCorrupt, NcpTimeout, NcpReboot, ncpVars
  <1>2. /\ UNCHANGED <<pc, pump, held, expect, got, dropped>> /\ Taken' = Taken
        /\ InSession' = InSession
        /\ Holds(resetCh, "RSTACK")' => Holds(resetCh, "RSTACK")
    BY <1>1 DEF sender, reader, Taken, InSession, Holds
  <1>3. Moved(toHost, toHost', 0)
    <2>1. UNCHANGED toHost \/ \E y \in Frame : y.type # "DATA" /\ NcpWrite(y)
      <3>1. /\ Control("RSTACK", 0) \in Frame /\ Control("ERROR", 0) \in Frame
            /\ Control("NAK", nRx) \in Frame
        BY Types, FrameTypes1 DEF FrameTypes
      <3>2. \A t, n : Control(t, n).type = t
        BY DEF Control
      <3> QED
        BY <3>1, <3>2 DEF NcpCorrupt, NcpTimeout, NcpReboot
    <2> QED
      BY <2>1, Lines
  <1>4. RoundInv'
    <2>1. \E p \in {0, 1} : Kept(toNcp, toNcp', p, FrameTypes)
      BY <1>1, Lines
    <2> QED
      BY <1>1, <1>2, <2>1, Lines, RoundKept DEF RInv
  <1>5. StaleInv' /\ FreshInv'
    BY <1>1, <1>2, <1>3, StaleKept, FreshKept DEF RInv
  <1>6. nNext' = nNext \/ nNext' = nAck
    BY DEF NcpCorrupt, NcpTimeout, NcpReboot, ncpVars
  <1>7. SilentInv' /\ GotInv'
    BY <1>1, <1>2 DEF RInv, SilentInv, GotInv
  <1>8. WindowInv'
    <2>1. /\ nAck <= Taken /\ Taken <= nMax /\ nMax <= nAck + NcpWindow
          /\ nAck <= nNext' /\ nNext' <= nMax
      <3>1. nAck \in Nat /\ nNext \in Nat /\ nMax \in Nat /\ Taken \in Nat
        BY RTypes
      <3>2. /\ nAck <= Taken /\ Taken <= nMax /\ nMax <= nAck + NcpWindow
            /\ nAck <= nNext /\ nNext <= nMax
        BY DEF RInv, WindowInv
      <3> QED
        BY <1>6, <3>1, <3>2
    <2> QED
      BY <1>1, <1>2, <2>1 DEF RInv, WindowInv
  <1> QED
    BY <1>4, <1>5, <1>7, <1>8 DEF RInv

\* The NCP sends a payload, new or again.
LEMMA NcpSendReceives ==
    ASSUME TypeOK, TypeOK', IInv, RInv, NcpSend, ~NcpEager
    PROVE  RInv'
  <1> DEFINE y == DataFrame(nNext % SeqMod, nRx, nNext + 1)
  <1>1. /\ nNext < nAck + NcpWindow /\ delivered # <<>> /\ NcpWrite(y)
        /\ nNext' = nNext + 1 /\ nMax' = (IF nMax < nNext + 1 THEN nNext + 1 ELSE nMax)
        /\ UNCHANGED <<nAck, delivered, sender, reader, rxSeq, dataCh, resetCh, toNcp>>
    BY DEF NcpSend
  <1>2. /\ UNCHANGED <<pc, pump, held, expect, got, dropped>> /\ Taken' = Taken
        /\ InSession' = InSession /\ InSession
    BY <1>1 DEF sender, reader, Taken, InSession, IInv, PhaseInv
  <1>3. /\ nAck \in Nat /\ nNext \in Nat /\ nMax \in Nat /\ Taken \in Nat
        /\ NcpWindow \in 1..7 /\ Len(toHost) \in Nat
        /\ nAck <= Taken /\ Taken <= nMax /\ nMax <= nAck + NcpWindow
        /\ nAck <= nNext /\ nNext <= nMax
    BY RTypes, Types DEF RInv, WindowInv
  <1>4. Pushed(toHost, toHost', y)
    <2>1. y \in Frame
      <3>1. nNext % SeqMod \in 0..7 /\ nRx \in 0..7 /\ nNext + 1 \in Nat
        BY <1>3, Types, NumLemma
      <3> QED
        BY <3>1, FrameTypes1
    <2> QED
      BY <1>1, <2>1, WritePushes
  <1>5. y.type = "DATA" /\ y.data = nNext + 1 /\ y.frm = nNext % SeqMod /\ ~IsStale(y)
    BY <1>3 DEF DataFrame, IsStale, Stale
  <1>6. \A i \in 1..Len(toHost') : \/ i \in 1..Len(toHost) /\ toHost'[i] = toHost[i]
                                   \/ i = Len(toHost) + 1 /\ toHost'[i] = y
    BY <1>4 DEF Pushed
  <1>7. StaleInv'
    <2>1. \A i \in 1..Len(toHost') : ~IsStale(toHost'[i])
      BY <1>2, <1>5, <1>6 DEF RInv, StaleInv
    <2> QED
      BY <1>1, <1>2, <2>1 DEF RInv, StaleInv
  <1>8. FreshInv'
    <2>1. FreshInv
      BY DEF RInv
    <2>2. \A x : x.data \in Nat /\ Numbered(x) => Numbered(x)'
      BY <1>1, <1>2, <1>3 DEF Numbered
    <2>3. \A x : x = y => Numbered(x)'
      <3>1. y.data - 1 = nNext /\ y.data <= nMax' /\ Taken' <= y.data + 6
        BY <1>1, <1>2, <1>3, <1>5
      <3> QED
        BY <1>5, <3>1 DEF Numbered
    <2>4. \A x : x.data \in Nat /\ Numbered(x) => x.data <= y.data + 6
      BY <1>3, <1>5 DEF Numbered
    <2>5. ASSUME NEW i \in 1..Len(toHost')
          PROVE  toHost'[i].data \in Nat
      <3>1. toHost' \in Seq(Frame)
        BY DEF TypeOK
      <3>2. toHost'[i] \in Frame
        BY <3>1
      <3> QED
        BY <3>2, FrameFields
    <2>6. ASSUME NEW i \in 1..Len(toHost), IsFresh(toHost[i])
          PROVE  Numbered(toHost[i]) /\ toHost[i].data \in Nat
      BY <2>1, <2>6, RTypes DEF FreshInv
    <2>7. ASSUME NEW i \in 1..Len(toHost'), IsFresh(toHost'[i])
          PROVE  Numbered(toHost[i])'
      <3>1. \A x : x = toHost'[i] /\ Numbered(x)' => Numbered(toHost[i])'
        BY DEF Numbered
      <3>2. Numbered(toHost[i])' <=> \A x : x = toHost'[i] => Numbered(x)'
        BY DEF Numbered
      <3>3. CASE i \in 1..Len(toHost) /\ toHost'[i] = toHost[i]
        BY <2>2, <2>6, <2>7, <3>2, <3>3
      <3>4. CASE toHost'[i] = y
        BY <2>3, <3>2, <3>4
      <3> QED
        BY <1>6, <3>3, <3>4
    <2>8. ASSUME NEW i \in 1..Len(toHost'), NEW j \in 1..Len(toHost'), i < j,
                 IsFresh(toHost'[i]), IsFresh(toHost'[j])
          PROVE  toHost'[i].data <= toHost'[j].data + 6
      <3>1. i \in 1..Len(toHost) /\ toHost'[i] = toHost[i]
        BY <1>3, <1>6, <2>8
      <3>2. CASE j \in 1..Len(toHost) /\ toHost'[j] = toHost[j]
        BY <2>1, <2>8, <3>1, <3>2 DEF FreshInv
      <3>3. CASE toHost'[j] = y
        BY <2>4, <2>6, <2>8, <3>1, <3>3
      <3> QED
        BY <1>6, <3>2, <3>3
    <2>9. ASSUME pump' = "check", IsFresh(held')
          PROVE  /\ Numbered(held)'
                 /\ \A j \in 1..Len(toHost') : IsFresh(toHost'[j])
                       => held'.data <= toHost'[j].data + 6
      <3>1. pump = "check" /\ held' = held /\ IsFresh(held) /\ held.data \in Nat
        BY <1>2, <2>9, RTypes
      <3>2. Numbered(held)
        BY <2>1, <3>1 DEF FreshInv
      <3>3. Numbered(held)'
        BY <1>1, <1>2, <1>3, <3>1, <3>2 DEF Numbered
      <3>4. ASSUME NEW j \in 1..Len(toHost'), IsFresh(toHost'[j])
            PROVE  held.data <= toHost'[j].data + 6
        BY <1>6, <2>1, <2>4, <3>1, <3>2, <3>4 DEF FreshInv
      <3> QED
        BY <3>1, <3>3, <3>4
    <2> QED
      BY <2>7, <2>8, <2>9 DEF FreshInv
  <1>9. RoundInv'
    BY <1>1, <1>2, Lines, RoundKept DEF RInv
  <1>10. SilentInv' /\ WindowInv' /\ GotInv'
    BY <1>1, <1>2, <1>3 DEF RInv, SilentInv, WindowInv, GotInv
  <1> QED
    BY <1>7, <1>8, <1>9, <1>10 DEF RInv

\* At first nothing was sent, and at most one frame is left over.
LEMMA InitReceives == Init => RInv
  <1> SUFFICES ASSUME Init PROVE RInv
    OBVIOUS
  <1>1. /\ pc = "new" /\ pump = "read" /\ resetCh = <<>> /\ dataCh = <<>> /\ toNcp = <<>>
        /\ nAck = 0 /\ nNext = 0 /\ nMax = 0 /\ delivered = <<>> /\ got = <<>> /\ dropped = 0
        /\ toHost = <<>> \/ \E f : f.data = Stale /\ toHost = <<f>>
    <2>1. Control("RSTACK", 0).data = Stale
      BY DEF Control
    <2>2. \A f \in OldFrames : f.data = Stale
      BY OldFramesAssumption
    <2> QED
      BY <2>1, <2>2 DEF Init, OldWires
  <1>2. Taken = 0 /\ ~InSession /\ ~Holds(resetCh, "RSTACK")
    BY <1>1 DEF Taken, InSession, Sending, Holds
  <1>3. \A i \in 1..Len(toHost) : i = 1 /\ toHost[i].data = Stale
    <2>1. CASE toHost = <<>>
      BY <2>1
    <2>2. ASSUME NEW f, f.data = Stale, toHost = <<f>>
          PROVE  \A i \in 1..Len(toHost) : i = 1 /\ toHost[i].data = Stale
      BY <2>2
    <2> QED
      BY <1>1, <2>1, <2>2
  <1>4. StaleInv
    BY <1>1, <1>2, <1>3 DEF StaleInv
  <1>5. FreshInv
    BY <1>1, <1>3 DEF FreshInv, IsFresh
  <1>6. RoundInv /\ SilentInv /\ WindowInv /\ GotInv
    BY <1>1, <1>2, ConstantsAssumption DEF RoundInv, SilentInv, WindowInv, GotInv
  <1> QED
    BY <1>4, <1>5, <1>6 DEF RInv

\* As long as Sends are prompt, the invariant is kept.
LEMMA StepReceives ==
    ASSUME TypeOK, IInv, Prompt, RInv, ~NcpEager, [Next]_vars
    PROVE  RInv'
  <1>1. TypeOK'
    BY StepType
  <1>2. CASE ResetStart \/ ResetStep \/ SendStart \/ SendStep
    BY <1>1, <1>2, CallerReceives, ResetAnsweredReceives DEF ResetStep
  <1>3. CASE PumpStep
    BY <1>1, <1>3, PumpRecvReceives, PumpRepeats, PumpTakes, IdleReceives DEF PumpStep
  <1>4. CASE NcpStep
    BY <1>1, <1>4, NcpRecvReceives, NcpReceives, NcpSendReceives DEF NcpStep
  <1>5. CASE Consume \/ Close \/ PortLost \/ Finished \/ UNCHANGED vars
    BY <1>1, <1>5, IdleReceives DEF Finished
  <1> QED
    BY <1>2, <1>3, <1>4, <1>5 DEF Next

\* What the invariant says of the payloads and the numbers.
LEMMA ReceivedLemma ==
    ASSUME TypeOK, RInv
    PROVE  ReceivedInOrder
  <1>1. pc \notin {"new", "rst", "dead"} => InSession
    BY DEF TypeOK, Phases, InSession, Sending
  <1> QED
    BY <1>1 DEF RInv, GotInv, WindowInv, ReceivedInOrder

\* From an NCP that waits for the host's first frame, the host takes every payload once and
\* in order, never acknowledges what it has not taken, and expects the frame after the last
\* one it took, for any window, any losses and any capacity, as long as Sends are prompt.
THEOREM ReceivedInOrderHolds == ~NcpEager => (Spec /\ []Prompt => []ReceivedInOrder)
  <1> SUFFICES ASSUME ~NcpEager PROVE Spec /\ []Prompt => []ReceivedInOrder
    OBVIOUS
  <1>1. Init => RInv
    BY InitReceives
  <1>2. TypeOK /\ IInv /\ Prompt /\ RInv /\ [Next]_vars => RInv'
    BY StepReceives
  <1>3. TypeOK /\ RInv => ReceivedInOrder
    BY ReceivedLemma
  <1> QED
    BY <1>1, <1>2, <1>3, Inductive, PTL DEF Spec

\* The number a Send piggybacks was rxSeq at some time of the session, and the NCP sends no
\* more than it has.
RecentInv ==
    /\ pc \in Sending => \E c \in 0..Taken : frame.ack = c % SeqMod
    /\ nMax <= MaxNcpData

\* In a session of so few payloads that the numbers do not come round, every Send is prompt.
LEMMA FewPrompt ==
    ASSUME TypeOK, RInv, RecentInv, MaxNcpData + NcpWindow <= 7
    PROVE  Prompt
  <1> SUFFICES ASSUME pc \in {"drain", "write"}
               PROVE  (rxSeq - frame.ack) % SeqMod <= 7 - NcpWindow
    BY DEF Prompt
  <1>1. PICK c \in 0..Taken : frame.ack = c % SeqMod
    BY DEF RecentInv, Sending
  <1>2. rxSeq = Taken % SeqMod /\ Taken <= nMax /\ nMax <= MaxNcpData
    BY DEF RInv, WindowInv, InSession, Sending, RecentInv
  <1>3. Taken \in Nat /\ nMax \in Nat /\ NcpWindow \in 1..7 /\ MaxNcpData \in Nat
    BY RTypes, ConstantsAssumption
  <1>4. ASSUME NEW t \in 0..7, NEW b \in 0..t
        PROVE  ((t % SeqMod) - (b % SeqMod)) % SeqMod = t - b
    BY DEF SeqMod
  <1>5. Taken \in 0..7 /\ c \in 0..Taken /\ Taken - c <= 7 - NcpWindow
    BY <1>2, <1>3
  <1> QED
    BY <1>1, <1>2, <1>4, <1>5

\* The pump only ever takes more.
LEMMA TakenGrows ==
    ASSUME TypeOK, [Next]_vars
    PROVE  Taken' \in Nat /\ Taken <= Taken'
  <1>1. got \in Seq(Nat) /\ dropped \in Nat /\ held.data \in Nat
    BY RTypes DEF TypeOK
  <1>2. CASE PumpCheck
    <2>1. /\ got' \in {got, Append(got, held.data)} /\ dropped' \in {dropped, dropped + 1}
      BY <1>2 DEF PumpCheck
    <2> QED
      BY <1>1, <2>1 DEF Taken
  <1>3. CASE ~PumpCheck
    <2>1. UNCHANGED <<got, dropped>>
      BY <1>3 DEF Next, ResetStart, ResetStep, ResetAnswered, ResetFails, SendStart, SendStep,
             SendDrain, SendWrite, AwaitAck, AwaitReset, AwaitTimeout, AwaitAborted, PumpStep,
             PumpRecv, PumpCorrupt, PumpExit, Consume, Close, PortLost, NcpStep, NcpRecv,
             NcpCorrupt, NcpSend, NcpTimeout, NcpReboot, Finished, vars, reader
    <2> QED
      BY <1>1, <2>1 DEF Taken
  <1> QED
    BY <1>2, <1>3

\* Every number a Send piggybacks is read from rxSeq.
LEMMA StepRecent ==
    ASSUME TypeOK, RInv, RecentInv, [Next]_vars
    PROVE  RecentInv'
  <1>1. Taken \in Nat /\ Taken' \in Nat /\ Taken <= Taken'
    BY RTypes, TakenGrows
  <1>2. pc' \in Sending =>
           \/ pc \in Sending /\ frame'.ack = frame.ack
           \/ InSession /\ frame'.ack = rxSeq
    <2>1. CASE SendStart
      BY <2>1 DEF SendStart, DataFrame, InSession, Sending
    <2>2. CASE SendStep
      <3>1. pc \in Sending
        BY <2>2 DEF SendStep, SendDrain, SendWrite, AwaitAck, AwaitReset, AwaitTimeout,
               AwaitAborted, Sending
      <3>2. Retry /\ pc' \in Sending => frame' = [frame EXCEPT !.ack = rxSeq]
        BY DEF Retry, Abandon, Sending
      <3>3. frame \in Frame
        BY RTypes
      <3>4. frame' = [frame EXCEPT !.ack = rxSeq] => frame'.ack = rxSeq
        BY <3>3 DEF Frame
      <3>5. Retry \/ UNCHANGED frame
        BY <2>2 DEF SendStep, SendDrain, SendWrite, AwaitAck, AwaitReset, AwaitTimeout,
               AwaitAborted, Abandon, sender
      <3> QED
        BY <3>1, <3>2, <3>4, <3>5 DEF InSession
    <2>3. CASE ResetStart \/ ResetStep
      BY <2>3 DEF ResetStart, ResetStep, ResetAnswered, ResetFails, Sending
    <2>4. CASE PumpStep \/ Consume \/ Close \/ PortLost \/ NcpStep \/ Finished
               \/ UNCHANGED vars
      BY <2>4 DEF PumpStep, PumpRecv, PumpCheck, PumpCorrupt, PumpExit, Consume, Close,
             PortLost, NcpStep, NcpRecv, NcpCorrupt, NcpSend, NcpTimeout, NcpReboot,
             Finished, vars, sender
    <2> QED
      BY <2>1, <2>2, <2>3, <2>4 DEF Next
  <1>3. ASSUME pc' \in Sending
        PROVE  \E c \in 0..Taken' : frame'.ack = c % SeqMod
    <2>1. CASE pc \in Sending /\ frame'.ack = frame.ack
      BY <1>1, <2>1 DEF RecentInv
    <2>2. CASE InSession /\ frame'.ack = rxSeq
      <3>1. frame'.ack = Taken % SeqMod /\ Taken \in 0..Taken'
        BY <1>1, <2>2 DEF RInv, WindowInv
      <3> QED
        BY <3>1
    <2> QED
      BY <1>2, <1>3, <2>1, <2>2
  <1>4. nMax' <= MaxNcpData
    <2>1. nMax \in Nat /\ nNext \in Nat /\ MaxNcpData \in Nat /\ nMax <= MaxNcpData
      BY RTypes, ConstantsAssumption DEF RecentInv
    <2>2. \/ nMax' = nMax \/ nMax' = 0
          \/ nNext < MaxNcpData /\ nMax' \in {nMax, nNext + 1}
      BY DEF Next, ResetStart, ResetStep, ResetAnswered, ResetFails, SendStart, SendStep,
             SendDrain, SendWrite, AwaitAck, AwaitReset, AwaitTimeout, AwaitAborted, PumpStep,
             PumpRecv, PumpCheck, PumpCorrupt, PumpExit, Consume, Close, PortLost, NcpStep,
             NcpRecv, NcpTakeAck, NcpCorrupt, NcpSend, NcpTimeout, NcpReboot, Finished, vars,
             ncpVars
    <2> QED
      BY <2>1, <2>2
  <1> QED
    BY <1>3, <1>4 DEF RecentInv

\* The same without a condition on the scheduler, for a session of so few payloads that the
\* numbers do not come round.
THEOREM FewReceivedInOrder ==
    ~NcpEager /\ MaxNcpData + NcpWindow <= 7 => (Spec => []ReceivedInOrder)
  <1> SUFFICES ASSUME ~NcpEager, MaxNcpData + NcpWindow <= 7
               PROVE  Spec => []ReceivedInOrder
    OBVIOUS
  <1>1. Init => RInv /\ RecentInv
    <2>1. Init => RecentInv
      BY ConstantsAssumption DEF Init, RecentInv, Sending
    <2> QED
      BY <2>1, InitReceives
  <1>2. TypeOK /\ IInv /\ (RInv /\ RecentInv) /\ [Next]_vars => (RInv /\ RecentInv)'
    BY FewPrompt, StepReceives, StepRecent
  <1>3. TypeOK /\ RInv => ReceivedInOrder
    BY ReceivedLemma
  <1> QED
    BY <1>1, <1>2, <1>3, Inductive, PTL DEF Spec

=============================================================================
