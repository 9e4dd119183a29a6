--------------------------- MODULE EzspConnProofs ---------------------------
(***************************************************************************)
(* A command returns its own answer, for every modulus of the sequence      *)
(* numbers, as long as fewer commands than that fail in a row; a            *)
(* subscription's channel is closed once; and no callback is lost unseen,   *)
(* for every capacity of the channels.                                      *)
(***************************************************************************)
EXTENDS EzspConn, FiniteSetTheorems, TLAPS

USE EzspAssumption DEF EzspAssumption

\* Numbers less than SeqMod apart have different sequence numbers.
LEMMA Apart ==
    ASSUME NEW a \in Nat \ {0}, NEW b \in Nat \ {0}, a <= b, b - a < SeqMod,
           Sequence(a) = Sequence(b)
    PROVE  a = b
<1> DEFINE x == a - 1
           y == b - 1
<1>1. /\ x \in Nat /\ y \in Nat /\ x % SeqMod = y % SeqMod /\ x <= y /\ y - x < SeqMod
  BY DEF Sequence
<1>2. /\ x = SeqMod * (x \div SeqMod) + (x % SeqMod) /\ x \div SeqMod \in Nat
      /\ y = SeqMod * (y \div SeqMod) + (y % SeqMod) /\ y \div SeqMod \in Nat
  BY <1>1
<1> DEFINE p == x \div SeqMod
           q == y \div SeqMod
           r == x % SeqMod
<1>3. /\ p \in Nat /\ q \in Nat /\ r \in Nat /\ x = SeqMod * p + r /\ y = SeqMod * q + r
  BY <1>1, <1>2
<1> HIDE DEF p, q, r, x, y
<1>4. ASSUME NEW m \in Nat, NEW n \in Nat, m < n PROVE SeqMod * m + SeqMod <= SeqMod * n
  <2>1. PICK d \in Nat : n = m + 1 + d
    <3>1. n - m - 1 \in Nat /\ n = m + 1 + (n - m - 1)
      BY <1>4
    <3> QED
      BY <3>1
  <2>2. SeqMod * n = SeqMod * m + SeqMod + SeqMod * d /\ SeqMod * d \in Nat /\ SeqMod * m \in Nat
    BY <2>1
  <2> QED
    BY <2>2
<1>5. SeqMod * p \in Nat /\ SeqMod * q \in Nat
  BY <1>3
<1>6. ~ p < q /\ ~ q < p
  BY <1>1, <1>3, <1>4, <1>5
<1>7. p = q
  BY <1>3, <1>6
<1>8. x = y
  BY <1>3, <1>7
<1> QED
  BY <1>8 DEF x, y

TypeOK ==
    /\ cmd \in {"free", "send", "wait", "return"}
    /\ pump \in {"read", "route", "done"}
    /\ offered \in Nat /\ lastOk \in Nat
    /\ accepted \in Seq(Nat) /\ served \in 0..Len(accepted)
    /\ data \in Seq(Message) /\ held \in Message
    /\ reply \in Seq(Message) /\ Len(reply) <= 1
    /\ kinds \in Seq(Kinds)

\* The NCP takes commands in the order they were offered (StopAndWait).
Increasing ==
    /\ \A i \in 1..Len(accepted) : accepted[i] \in 1..offered
    /\ \A i, j \in 1..Len(accepted) : i < j => accepted[i] < accepted[j]

\* The NCP is done with command n.
Served(n) == \E i \in 1..served : accepted[i] = n

\* The replies on their way: in dataCh, at the pump, with the command.
InData == {i \in 1..Len(data) : data[i].kind = "reply"}
AtPump == pump = "route" /\ held.kind = "reply"
WithCommand == reply # <<>>

\* Replies arrive in the order of their commands, all after the one that was returned last.
Ordered ==
    /\ lastOk = 0 \/ Served(lastOk)
    /\ \A i \in InData : Served(data[i].n) /\ lastOk < data[i].n
    /\ \A i, j \in InData : i < j => data[i].n < data[j].n
    /\ AtPump =>
          /\ Served(held.n) /\ lastOk < held.n
          /\ \A i \in InData : held.n < data[i].n
    /\ WithCommand =>
          /\ reply[1].kind = "reply" /\ Served(reply[1].n) /\ lastOk < reply[1].n
          /\ AtPump => reply[1].n < held.n
          /\ \A i \in InData : reply[1].n < data[i].n

\* Every command since then has failed, or is the one that is under way; there are fewer of
\* them than sequence numbers.
Settled ==
    /\ lastOk <= offered /\ offered <= lastOk + MaxFailures + 1
    /\ \A m \in (lastOk + 1)..offered : m \in failed \/ (m = offered /\ cmd \in {"send", "wait"})

IInv == TypeOK /\ Increasing /\ Ordered /\ Settled /\ OwnReply

\* A new session satisfies the invariant.
LEMMA InitIInv == Init => IInv
<1> SUFFICES ASSUME Init PROVE IInv
  OBVIOUS
<1>1. /\ offered = 0 /\ accepted = <<>> /\ cmd = "free" /\ reply = <<>> /\ served = 0 /\ data = <<>>
      /\ pump = "read" /\ held = [kind |-> "reply", n |-> 0]
      /\ results = {} /\ kinds = <<>> /\ lastOk = 0 /\ failed = {} /\ lost = {}
  BY DEF Init, Link!Init, Reply
<1>2. TypeOK /\ Increasing
  BY <1>1 DEF TypeOK, Increasing, Message
<1>3. Ordered /\ Settled /\ OwnReply
  BY <1>1 DEF Ordered, Settled, OwnReply, InData, AtPump, WithCommand
<1> QED
  BY <1>2, <1>3 DEF IInv

\* What IInv speaks of.
route == <<cmd, offered, accepted, served, data, pump, held, reply, lastOk, failed, results, lost, kinds>>

\* Subscriptions, callbacks' numbers, the link's end and Close are none of it.
LEMMA Elsewhere == IInv /\ UNCHANGED route => IInv'
<1> SUFFICES ASSUME IInv, UNCHANGED route PROVE IInv'
  OBVIOUS
<1> USE DEF IInv, route
<1>1. TypeOK' /\ Increasing'
  BY DEF TypeOK, Increasing
<1>2. Ordered'
  BY DEF Ordered, InData, AtPump, WithCommand, Served
<1>3. Settled' /\ OwnReply'
  BY DEF Settled, OwnReply
<1> QED
  BY <1>1, <1>2, <1>3

\* The caller's side.
LEMMA CommandSteps ==
    ASSUME IInv, CommandStart \/ CommandStep
    PROVE  IInv'
<1> USE DEF IInv
<1>1. CASE CommandStart
  <2>1. /\ cmd = "free" /\ cmd' = "send" /\ offered' = offered + 1 /\ offered - lastOk <= MaxFailures
        /\ reply' = <<>>
        /\ UNCHANGED <<accepted, served, data, pump, held, lastOk, failed, results, lost, kinds>>
    BY <1>1 DEF CommandStart, Link!Offer, ncpVars, pumpVars
  <2>2. TypeOK' /\ Increasing'
    BY <2>1 DEF TypeOK, Increasing
  <2>3. Ordered'
    BY <2>1 DEF Ordered, InData, AtPump, WithCommand, Served
  <2>4. Settled' /\ OwnReply'
    BY <2>1 DEF Settled, OwnReply, TypeOK
  <2> QED
    BY <2>2, <2>3, <2>4
<1>2. CASE SendOk
  <2>1. /\ cmd = "send" /\ cmd' = "wait"
        /\ UNCHANGED <<offered, accepted, served, data, pump, held, reply, lastOk, failed, results, lost, kinds>>
    BY <1>2 DEF SendOk, Link!Confirm, ncpVars, pumpVars
  <2>2. TypeOK' /\ Increasing'
    BY <2>1 DEF TypeOK, Increasing
  <2>3. Ordered'
    BY <2>1 DEF Ordered, InData, AtPump, WithCommand, Served
  <2>4. Settled' /\ OwnReply'
    BY <2>1 DEF Settled, OwnReply
  <2> QED
    BY <2>2, <2>3, <2>4
<1>3. CASE SendFails \/ WaitEnds
  <2>1. /\ cmd' = "return" /\ failed' = failed \cup {offered}
        /\ UNCHANGED <<offered, accepted, served, data, pump, held, reply, lastOk, results, lost, kinds>>
    BY <1>3 DEF SendFails, WaitEnds, Fail, linkVars, ncpVars, pumpVars
  <2>2. TypeOK' /\ Increasing'
    BY <2>1 DEF TypeOK, Increasing
  <2>3. Ordered'
    BY <2>1 DEF Ordered, InData, AtPump, WithCommand, Served
  <2>4. Settled' /\ OwnReply'
    BY <2>1 DEF Settled, OwnReply
  <2> QED
    BY <2>2, <2>3, <2>4
<1>4. CASE WaitReply
  <2> DEFINE msg == Head(reply)
  <2>1. /\ reply # <<>> /\ reply' = <<>> /\ cmd = "wait"
        /\ UNCHANGED <<offered, accepted, served, data, pump, held, failed, lost, kinds>>
    BY <1>4 DEF WaitReply, linkVars, ncpVars, pumpVars
  <2>2. msg = reply[1] /\ msg.n \in Nat /\ Served(msg.n) /\ lastOk < msg.n
    <3>1. msg = reply[1] /\ msg \in Message
      BY <2>1 DEF TypeOK
    <3>2. Served(reply[1].n) /\ lastOk < reply[1].n
      BY <2>1 DEF Ordered, WithCommand
    <3>3. msg.n \in Nat
      BY <3>1 DEF Message
    <3> QED
      BY <3>1, <3>2, <3>3
  <2>3. msg.n \in 1..offered
    <3>1. PICK i \in 1..served : accepted[i] = msg.n
      BY <2>2 DEF Served
    <3>2. i \in 1..Len(accepted)
      BY DEF TypeOK
    <3> QED
      BY <3>1, <3>2 DEF Increasing
  <2>4. CASE MatchesResponse(msg, offered)
    <3>1. /\ results' = results \cup {<<offered, msg.n>>} /\ lastOk' = offered /\ cmd' = "return"
      BY <1>4, <2>4 DEF WaitReply
    <3>2. msg.n = offered
      <4>1. offered - msg.n < SeqMod
        BY <2>2, <2>3 DEF Settled, TypeOK
      <4> QED
        BY <2>3, <2>4, <4>1, Apart DEF MatchesResponse, TypeOK
    <3>3. TypeOK' /\ Increasing'
      BY <2>1, <3>1 DEF TypeOK, Increasing
    <3>4. Ordered'
      BY <2>1, <2>2, <3>1, <3>2 DEF Ordered, InData, AtPump, WithCommand, Served
    <3>5. Settled' /\ OwnReply'
      BY <2>1, <3>1, <3>2 DEF Settled, OwnReply, TypeOK
    <3> QED
      BY <3>3, <3>4, <3>5
  <2>5. CASE ~MatchesResponse(msg, offered)
    <3>1. UNCHANGED <<results, lastOk, cmd>>
      BY <1>4, <2>5 DEF WaitReply
    <3>2. TypeOK' /\ Increasing'
      BY <2>1, <3>1 DEF TypeOK, Increasing
    <3>3. Ordered'
      BY <2>1, <3>1 DEF Ordered, InData, AtPump, WithCommand, Served
    <3>4. Settled' /\ OwnReply'
      BY <2>1, <3>1 DEF Settled, OwnReply
    <3> QED
      BY <3>2, <3>3, <3>4
  <2> QED
    BY <2>4, <2>5
<1>5. CASE CommandReturn
  <2>1. /\ cmd = "return" /\ cmd' = "free" /\ reply' = <<>>
        /\ UNCHANGED <<offered, accepted, served, data, pump, held, lastOk, failed, results, lost, kinds>>
    BY <1>5 DEF CommandReturn, linkVars, ncpVars, pumpVars
  <2>2. TypeOK' /\ Increasing'
    BY <2>1 DEF TypeOK, Increasing
  <2>3. Ordered'
    BY <2>1 DEF Ordered, InData, AtPump, WithCommand, Served
  <2>4. Settled' /\ OwnReply'
    BY <2>1 DEF Settled, OwnReply
  <2> QED
    BY <2>2, <2>3, <2>4
<1> QED
  BY <1>1, <1>2, <1>3, <1>4, <1>5 DEF CommandStep

\* A sequence stays one over the same set.
LEMMA Appended ==
    ASSUME NEW S, NEW s \in Seq(S), NEW e \in S
    PROVE  Append(s, e) \in Seq(S)
  OBVIOUS

\* The NCP's side.
LEMMA NcpSteps ==
    ASSUME IInv, NcpStep
    PROVE  IInv'
<1> USE DEF IInv
<1>1. CASE NcpAccept
  <2>1. PICK d \in 1..offered : /\ \A i \in 1..Len(accepted) : accepted[i] < d
                               /\ accepted' = Append(accepted, d)
    BY <1>1 DEF NcpAccept, Link!Accept
  <2>2. UNCHANGED <<cmd, offered, served, data, pump, held, reply, lastOk, failed, results, lost, kinds>>
    BY <1>1 DEF NcpAccept, Link!Accept, cmdVars, ncpVars, pumpVars
  <2>3. /\ d \in Nat /\ Len(accepted') = Len(accepted) + 1 /\ accepted'[Len(accepted) + 1] = d
        /\ \A i \in 1..Len(accepted) : accepted'[i] = accepted[i]
        /\ accepted' \in Seq(Nat)
    BY <2>1 DEF TypeOK
  <2>4. TypeOK' /\ Increasing'
    BY <2>1, <2>2, <2>3 DEF TypeOK, Increasing
  <2>5. \A i \in 1..served : accepted'[i] = accepted[i]
    BY <2>3 DEF TypeOK
  <2>6. Ordered'
    BY <2>2, <2>5 DEF Ordered, InData, AtPump, WithCommand, Served
  <2>7. Settled' /\ OwnReply'
    BY <2>2 DEF Settled, OwnReply
  <2> QED
    BY <2>4, <2>6, <2>7
<1>2. CASE NcpServe
  <2> DEFINE new == accepted[served + 1]
  <2>1. /\ served < Len(accepted) /\ served' = served + 1
        /\ HandOver(Reply(new)) \/ data' = data
        /\ UNCHANGED <<cmd, offered, accepted, pump, held, reply, lastOk, failed, results, lost, kinds>>
    BY <1>2 DEF NcpServe, cmdVars, linkVars, pumpVars
  <2> DEFINE ServedThen(n) == \E i \in 1..served' : accepted'[i] = n
  <2>2. served + 1 \in 1..Len(accepted) /\ new \in Nat /\ new \in 1..offered /\ ServedThen(new)
    <3>1. served + 1 \in 1..Len(accepted) /\ served + 1 \in 1..served'
      BY <2>1 DEF TypeOK
    <3> QED
      BY <2>1, <3>1 DEF TypeOK, Increasing
  <2>3. ASSUME NEW n, Served(n) PROVE n < new /\ ServedThen(n)
    <3>1. PICK i \in 1..served : accepted[i] = n
      BY <2>3 DEF Served
    <3>2. i \in 1..Len(accepted) /\ i < served + 1 /\ i \in 1..served'
      BY <2>1 DEF TypeOK
    <3> QED
      BY <2>1, <2>2, <3>1, <3>2 DEF Increasing
  <2>4. lastOk < new
    BY <2>2, <2>3 DEF Ordered
  <2>5. Reply(new) \in Message /\ Reply(new).kind = "reply" /\ Reply(new).n = new
    BY <2>2 DEF Reply, Message
  <2>6. data' = data \/ data' = Append(data, Reply(new))
    BY <2>1 DEF HandOver
  <2>7. TypeOK'
    <3> HIDE DEF new
    <3>1. data' \in Seq(Message)
      <4>1. data \in Seq(Message) /\ Append(data, Reply(new)) \in Seq(Message)
        BY <2>5, Appended DEF TypeOK
      <4> QED
        BY <2>6, <4>1
    <3> QED
      BY <2>1, <2>2, <3>1 DEF TypeOK
  <2>8. Increasing' /\ Settled' /\ OwnReply'
    BY <2>1 DEF Increasing, Settled, OwnReply
  <2>9. CASE data' = data
    <3>1. Ordered'
      BY <2>1, <2>3, <2>9 DEF Ordered, InData, AtPump, WithCommand, Served
    <3> QED
      BY <2>7, <2>8, <3>1
  <2>10. CASE data' = Append(data, Reply(new))
    <3> HIDE DEF new
    <3>1. /\ Len(data') = Len(data) + 1 /\ data'[Len(data) + 1].n = new
          /\ \A i \in 1..Len(data) : data'[i] = data[i]
      BY <2>5, <2>10 DEF TypeOK
    <3>2. ASSUME NEW i \in InData'
          PROVE  \/ i \in InData /\ data'[i] = data[i] /\ i < Len(data) + 1 /\ Served(data[i].n)
                 \/ i = Len(data) + 1 /\ data'[i].n = new
      BY <3>1 DEF InData, TypeOK, Ordered
    <3>3. \A i \in InData' : ServedThen(data'[i].n) /\ lastOk < data'[i].n
      BY <2>2, <2>3, <2>4, <3>2 DEF Ordered
    <3>4. ASSUME NEW i \in InData', NEW j \in InData', i < j
          PROVE  data'[i].n < data'[j].n
      <4>1. i \in InData /\ data'[i] = data[i] /\ Served(data[i].n)
        BY <3>1, <3>2, <3>4 DEF InData, TypeOK
      <4> QED
        BY <2>3, <3>2, <3>4, <4>1 DEF Ordered
    <3>5. AtPump => \A i \in InData' : held.n < data'[i].n
      BY <2>3, <3>2 DEF Ordered
    <3>6. WithCommand => \A i \in InData' : reply[1].n < data'[i].n
      BY <2>3, <3>2 DEF Ordered
    <3>7. Ordered'
      BY <2>1, <2>3, <3>3, <3>4, <3>5, <3>6 DEF Ordered, AtPump, WithCommand, Served
    <3> QED
      BY <2>7, <2>8, <3>7
  <2> QED
    BY <2>6, <2>9, <2>10
<1>3. CASE NcpCallback
  <2>1. UNCHANGED <<cmd, offered, accepted, served, pump, held, reply, lastOk, failed, results, lost>>
    BY <1>3 DEF NcpCallback, cmdVars, linkVars, pumpVars
  <2>2. PICK k \in Kinds : /\ kinds' = Append(kinds, k)
                           /\ HandOver(Callback(k, Len(kinds) + 1))
    BY <1>3 DEF NcpCallback
  <2> DEFINE msg == Callback(k, Len(kinds) + 1)
  <2>3. msg \in Message /\ msg.kind # "reply"
    BY DEF Callback, Message, TypeOK
  <2>4. data' = data \/ data' = Append(data, msg)
    BY <2>2 DEF HandOver
  <2> HIDE DEF msg
  <2>5. TypeOK'
    <3>0. data \in Seq(Message)
      BY DEF TypeOK
    <3>1. data' \in Seq(Message)
      BY <2>3, <2>4, <3>0, Appended
    <3>2. kinds' \in Seq(Kinds)
      BY <2>2 DEF TypeOK
    <3> QED
      BY <2>1, <3>1, <3>2 DEF TypeOK
  <2>6. \A i \in InData' : i \in InData /\ data'[i] = data[i]
    BY <2>3, <2>4 DEF InData, TypeOK
  <2>7. Ordered'
    BY <2>1, <2>6 DEF Ordered, AtPump, WithCommand, Served
  <2>8. Increasing' /\ Settled' /\ OwnReply'
    BY <2>1 DEF Increasing, Settled, OwnReply
  <2> QED
    BY <2>5, <2>7, <2>8
<1> QED
  BY <1>1, <1>2, <1>3 DEF NcpStep

\* The read pump.
LEMMA PumpSteps ==
    ASSUME IInv, PumpStep
    PROVE  IInv'
<1> USE DEF IInv
<1>1. CASE PumpTake
  <2>1. /\ pump = "read" /\ data # <<>> /\ held' = data[1] /\ data' = Tail(data) /\ pump' = "route"
        /\ UNCHANGED <<cmd, offered, accepted, served, reply, lastOk, failed, results, lost, kinds>>
    BY <1>1 DEF PumpTake, cmdVars, linkVars, ncpVars
  <2>2. /\ 1 \in 1..Len(data) /\ data[1] \in Message /\ data' \in Seq(Message)
        /\ Len(data') = Len(data) - 1 /\ \A i \in 1..Len(data') : data'[i] = data[i + 1]
    BY <2>1 DEF TypeOK
  <2>3. TypeOK' /\ Increasing' /\ Settled' /\ OwnReply'
    BY <2>1, <2>2 DEF TypeOK, Increasing, Settled, OwnReply
  <2>4. \A i \in InData' : i \in Nat /\ i + 1 \in InData /\ data'[i] = data[i + 1] /\ 1 < i + 1
    <3> SUFFICES ASSUME NEW i \in InData'
                 PROVE  i \in Nat /\ i + 1 \in InData /\ data'[i] = data[i + 1] /\ 1 < i + 1
      OBVIOUS
    <3>1. i \in 1..Len(data') /\ data'[i].kind = "reply"
      BY DEF InData
    <3>2. i \in Nat /\ i + 1 \in 1..Len(data) /\ data'[i] = data[i + 1] /\ 1 < i + 1
      BY <2>2, <3>1 DEF TypeOK
    <3> QED
      BY <3>1, <3>2 DEF InData
  <2>5. AtPump' => 1 \in InData
    BY <2>1, <2>2 DEF AtPump, InData
  <2>6. /\ lastOk = 0 \/ Served(lastOk)
        /\ \A i \in InData' : Served(data[i + 1].n) /\ lastOk < data'[i].n
        /\ \A i, j \in InData' : i < j => data'[i].n < data'[j].n
    BY <2>4 DEF Ordered
  <2>7. AtPump' => Served(data[1].n) /\ lastOk < data[1].n /\ \A i \in InData' : data[1].n < data'[i].n
    BY <2>4, <2>5 DEF Ordered
  <2>8. WithCommand =>
          /\ reply[1].kind = "reply" /\ Served(reply[1].n) /\ lastOk < reply[1].n
          /\ AtPump' => reply[1].n < data[1].n
          /\ \A i \in InData' : reply[1].n < data'[i].n
    BY <2>4, <2>5 DEF Ordered
  <2>9. Ordered'
    BY <2>1, <2>4, <2>6, <2>7, <2>8 DEF Ordered, WithCommand, Served
  <2> QED
    BY <2>3, <2>9
<1>2. CASE RouteReply
  <2>1. /\ pump = "route" /\ reply = <<>> /\ held.kind = "reply" /\ reply' = <<held>> /\ pump' = "read"
        /\ UNCHANGED <<cmd, offered, accepted, served, data, held, lastOk, failed, results, lost, kinds>>
    BY <1>2 DEF RouteReply, ForCommand, cmdVars, linkVars, ncpVars
  <2>2. TypeOK' /\ Increasing' /\ Settled' /\ OwnReply'
    BY <2>1 DEF TypeOK, Increasing, Settled, OwnReply
  <2>3. reply'[1] = held /\ ~AtPump' /\ AtPump /\ InData' = InData
    BY <2>1 DEF AtPump, InData
  <2>4. Ordered'
    BY <2>1, <2>3 DEF Ordered, WithCommand, Served
  <2> QED
    BY <2>2, <2>4
<1>3. CASE RouteEvent
  <2>1. /\ pump = "route" /\ ~ForCommand(held) /\ pump' = "read"
        /\ lost' = IF cmd \in {"send", "wait"} /\ held = Reply(offered)
                   THEN lost \cup {offered} ELSE lost
        /\ UNCHANGED <<cmd, offered, accepted, served, data, held, reply, lastOk, failed, results, kinds>>
    BY <1>3 DEF RouteEvent, cmdVars, linkVars, ncpVars
  <2>2. TypeOK' /\ Increasing' /\ Settled'
    BY <2>1 DEF TypeOK, Increasing, Settled
  <2>3. Ordered'
    BY <2>1 DEF Ordered, AtPump, InData, WithCommand, Served
  <2>4. CASE cmd \in {"send", "wait"} /\ held = Reply(offered)
    <3>1. AtPump /\ WithCommand /\ held.n = offered
      BY <2>1, <2>4 DEF AtPump, WithCommand, ForCommand, Pending, Reply
    <3>2. lastOk < reply[1].n /\ reply[1].n < offered
      BY <3>1 DEF Ordered
    <3>3. reply[1].n \in Nat
      <4>1. reply[1] \in Message
        BY <3>1 DEF TypeOK, WithCommand
      <4> QED
        BY <4>1 DEF Message
    <3>4. reply[1].n \in failed /\ reply[1].n < offered
      BY <3>2, <3>3 DEF Settled, TypeOK
    <3>5. OwnReply'
      BY <2>1, <2>4, <3>4 DEF OwnReply
    <3> QED
      BY <2>2, <2>3, <3>5
  <2>5. CASE ~(cmd \in {"send", "wait"} /\ held = Reply(offered))
    <3>1. OwnReply'
      BY <2>1, <2>5 DEF OwnReply
    <3> QED
      BY <2>2, <2>3, <3>1
  <2> QED
    BY <2>4, <2>5
<1>4. CASE PumpEnd
  <2>1. /\ pump = "read" /\ pump' = "done"
        /\ UNCHANGED <<cmd, offered, accepted, served, data, held, reply, lastOk, failed, results, lost, kinds>>
    BY <1>4 DEF PumpEnd, cmdVars, linkVars, ncpVars
  <2>2. TypeOK' /\ Increasing' /\ Settled' /\ OwnReply'
    BY <2>1 DEF TypeOK, Increasing, Settled, OwnReply
  <2>3. Ordered'
    BY <2>1 DEF Ordered, AtPump, InData, WithCommand, Served
  <2> QED
    BY <2>2, <2>3
<1> QED
  BY <1>1, <1>2, <1>3, <1>4 DEF PumpStep

\* Every step keeps the invariant.
LEMMA StepIInv == IInv /\ [Next]_vars => IInv'
<1> SUFFICES ASSUME IInv, [Next]_vars PROVE IInv'
  OBVIOUS
<1>1. CASE LinkLost \/ SubStep \/ Close \/ CloseStep \/ Finished \/ UNCHANGED vars
  <2>1. UNCHANGED route
    <3>1. CASE LinkLost \/ Close \/ CloseStep
      BY <3>1 DEF LinkLost, Close, CloseStep, CloseLink, CloseDone, route, cmdVars, linkVars, ncpVars, pumpVars
    <3>2. CASE SubStep
      BY <3>2 DEF SubStep, Subscribe, Unsubscribe, Receive, route, cmdVars, linkVars, ncpVars, pumpVars
    <3>3. CASE Finished \/ UNCHANGED vars
      BY <3>3 DEF Finished, vars, route, cmdVars, linkVars, ncpVars, pumpVars
    <3> QED
      BY <1>1, <3>1, <3>2, <3>3
  <2> QED
    BY <2>1, Elsewhere
<1> QED
  BY <1>1, CommandSteps, NcpSteps, PumpSteps DEF Next

\* A command returns the answer to itself and to no other, although sequence numbers wrap and
\* replies outlive their commands: fewer than SeqMod are unanswered at a time, and answers keep
\* the order of their commands (command, matchesResponse, route).
THEOREM OwnReplyHolds == Spec => []OwnReply
<1>1. IInv => OwnReply
  BY DEF IInv
<1> QED
  BY <1>1, InitIInv, StepIInv, PTL DEF Spec

(***************************************************************************)
(* What subscribers are owed: a channel is closed once, and what is missing *)
(* between two callbacks is in the counters of Stats.                       *)
(***************************************************************************)
HIDE EzspAssumption DEF EzspAssumption
\* The types of what subscriptions and counters add to TypeOK.
SubsOK ==
    /\ subs \subseteq used /\ used \subseteq Subs
    /\ closes \in [Subs -> Nat] /\ feed \in [Subs -> Seq(Nat)] /\ unread \in [Subs -> Nat]
    /\ dropSub \in Nat /\ dropData \in Nat
    /\ \A s \in Subs \ used : feed[s] = <<>>

\* Callback n has been handed over by the link and not been routed.
InFlight(n) ==
    \/ \E i \in 1..Len(data) : data[i].kind # "reply" /\ data[i].n = n
    \/ pump = "route" /\ held.kind # "reply" /\ held.n = n

\* Callbacks keep their order and their kind on the way to the subscriptions.
Carried ==
    /\ \A i \in 1..Len(data) : data[i].kind # "reply" =>
          data[i].n \in 1..Len(kinds) /\ kinds[data[i].n] = data[i].kind
    /\ \A i, j \in 1..Len(data) :
          i < j /\ data[i].kind # "reply" /\ data[j].kind # "reply" => data[i].n < data[j].n
    /\ pump = "route" /\ held.kind # "reply" =>
          /\ held.n \in 1..Len(kinds) /\ kinds[held.n] = held.kind
          /\ \A i \in 1..Len(data) : data[i].kind # "reply" => held.n < data[i].n
    /\ \A s \in Subs : \A i \in 1..Len(feed[s]) :
          feed[s][i] \in 1..Len(kinds) /\ \A n \in Nat : InFlight(n) => feed[s][i] < n

\* The callbacks after m that were lost before the pump had them.
LostAfter(m) == {n \in (m + 1)..Len(kinds) : ~InFlight(n)}

\* The callbacks for s after the last one it was given that it will not be given.
Missed(s) == {n \in LostAfter(feed[s][Len(feed[s])]) : kinds[n] \in Interest[s]}

\* Both are counted.
Counted ==
    /\ \A m \in Nat : InFlight(m) => Cardinality(LostAfter(m)) <= dropData
    /\ \A s \in subs : feed[s] # <<>> => Cardinality(Missed(s)) <= dropSub + dropData

LossInv == SubsOK /\ Carried /\ Counted /\ ClosedOnce /\ NoSilentLoss

\* Part of a set of at most k, and of one more.
LEMMA Fewer ==
    ASSUME NEW B, IsFiniteSet(B), NEW A \in SUBSET B, NEW k \in Nat, Cardinality(B) <= k
    PROVE  Cardinality(A) <= k
<1>1. /\ Cardinality(A) <= Cardinality(B)
      /\ Cardinality(A) \in Nat /\ Cardinality(B) \in Nat
  BY FS_Subset, FS_CardinalityType
<1> QED
  BY <1>1

\* A set that gains one element at most grows by one at most.
LEMMA OneMore ==
    ASSUME NEW B, IsFiniteSet(B), NEW x, NEW A \in SUBSET (B \cup {x}),
           NEW k \in Nat, Cardinality(B) <= k
    PROVE  Cardinality(A) <= k + 1
<1>1. IsFiniteSet(B \cup {x}) /\ Cardinality(B \cup {x}) \in {Cardinality(B), Cardinality(B) + 1}
  BY FS_AddElement
<1>2. Cardinality(B) \in Nat
  BY FS_CardinalityType
<1>3. Cardinality(B \cup {x}) <= k + 1
  BY <1>1, <1>2
<1> QED
  BY <1>1, <1>3, Fewer

\* Counters only grow.
LEMMA Within ==
    ASSUME NEW a \in Nat, NEW b \in Nat, NEW c \in Nat, a <= b, b <= c
    PROVE  a <= c
  OBVIOUS

\* Two counters add up to a number.
LEMMA Sums ==
    ASSUME NEW a \in Nat, NEW b \in Nat
    PROVE  a + b \in Nat
  OBVIOUS

\* A sum grows with both its parts.
LEMMA Grown ==
    ASSUME NEW a \in Nat, NEW b \in Nat, NEW c \in Nat, NEW d \in Nat, a <= c, b <= d
    PROVE  a + b <= c + d
  OBVIOUS

\* And strictly with one of them.
LEMMA GrownByOne ==
    ASSUME NEW a \in Nat, NEW b \in Nat, NEW c \in Nat, a + 1 <= c
    PROVE  a + b + 1 <= c + b
  OBVIOUS

\* There are finitely many callbacks.
LEMMA LostFinite ==
    ASSUME IInv, NEW m \in Nat
    PROVE  IsFiniteSet(LostAfter(m))
<1>1. Len(kinds) \in Int /\ m + 1 \in Int
  BY DEF IInv, TypeOK
<1>2. IsFiniteSet((m + 1)..Len(kinds))
  BY <1>1, FS_Interval
<1>3. LostAfter(m) \subseteq (m + 1)..Len(kinds)
  BY DEF LostAfter
<1> QED
  BY <1>2, <1>3, FS_Subset

\* What a subscription missed since its last callback is a finite set.
LEMMA MissedFinite ==
    ASSUME IInv, SubsOK, NEW s \in Subs, feed[s] # <<>>
    PROVE  /\ feed[s][Len(feed[s])] \in Nat /\ Len(feed[s]) \in 1..Len(feed[s])
           /\ IsFiniteSet(Missed(s)) /\ Missed(s) \subseteq LostAfter(feed[s][Len(feed[s])])
<1>1. feed[s][Len(feed[s])] \in Nat /\ Len(feed[s]) \in 1..Len(feed[s])
  <2>1. feed[s] \in Seq(Nat)
    BY DEF SubsOK
  <2> QED
    BY <2>1
<1>2. Missed(s) \subseteq LostAfter(feed[s][Len(feed[s])])
  BY DEF Missed
<1> QED
  BY <1>1, <1>2, LostFinite, FS_Subset

\* A new session satisfies the invariant.
LEMMA InitLossInv == Init => LossInv
<1> SUFFICES ASSUME Init PROVE LossInv
  OBVIOUS
<1>1. /\ used = {} /\ subs = {} /\ closes = [s \in Subs |-> 0] /\ feed = [s \in Subs |-> <<>>]
      /\ unread = [s \in Subs |-> 0] /\ dropSub = 0 /\ dropData = 0 /\ data = <<>> /\ pump = "read"
  BY DEF Init
<1>2. SubsOK /\ ClosedOnce
  BY <1>1 DEF SubsOK, ClosedOnce
<1>3. Carried /\ Counted
  BY <1>1 DEF Carried, Counted, InFlight
<1>4. NoSilentLoss
  BY <1>1 DEF NoSilentLoss
<1> QED
  BY <1>2, <1>3, <1>4 DEF LossInv

\* The gaps in what a subscription was given stay, and are accounted for as before.
LEMMA GapsKept ==
    ASSUME IInv, LossInv, UNCHANGED feed, \A n \in 1..Len(kinds) : kinds'[n] = kinds[n],
           dropSub' \in Nat, dropData' \in Nat, dropSub + dropData <= dropSub' + dropData'
    PROVE  NoSilentLoss'
<1> SUFFICES ASSUME NEW s \in Subs, NEW i \in 1..(Len(feed[s]) - 1)
             PROVE  LET between == {n \in (feed[s][i] + 1)..(feed[s][i + 1] - 1) :
                                       kinds'[n] \in Interest[s]}
                    IN  feed[s][i] < feed[s][i + 1] /\ Cardinality(between) <= dropSub' + dropData'
  BY DEF NoSilentLoss
<1> DEFINE between == {n \in (feed[s][i] + 1)..(feed[s][i + 1] - 1) : kinds[n] \in Interest[s]}
<1>1. feed[s][i] < feed[s][i + 1] /\ Cardinality(between) <= dropSub + dropData
  BY DEF LossInv, NoSilentLoss
<1>2. feed[s][i] \in 1..Len(kinds) /\ feed[s][i + 1] \in 1..Len(kinds)
  <2>1. i \in 1..Len(feed[s]) /\ i + 1 \in 1..Len(feed[s])
    <3>1. feed[s] \in Seq(Nat)
      BY DEF LossInv, SubsOK
    <3> QED
      BY <3>1
  <2> QED
    BY <2>1 DEF LossInv, Carried
<1>3. {n \in (feed[s][i] + 1)..(feed[s][i + 1] - 1) : kinds'[n] \in Interest[s]} = between
  <2>1. (feed[s][i] + 1)..(feed[s][i + 1] - 1) \subseteq 1..Len(kinds)
    <3>1. PICK a \in 1..Len(kinds), b \in 1..Len(kinds) : a = feed[s][i] /\ b = feed[s][i + 1]
      BY <1>2
    <3>2. Len(kinds) \in Nat
      BY DEF IInv, TypeOK
    <3>3. (a + 1)..(b - 1) \subseteq 1..Len(kinds)
      BY <3>2
    <3> QED
      BY <3>1, <3>3
  <2> QED
    BY <2>1
<1>4. Cardinality(between) \in Nat
  <2>0. feed[s][i] + 1 \in Int /\ feed[s][i + 1] - 1 \in Int
    <3>1. \A a : a \in 1..Len(kinds) => a \in Int
      OBVIOUS
    <3>2. PICK a \in Int, b \in Int : a = feed[s][i] /\ b = feed[s][i + 1]
      BY <1>2, <3>1
    <3>3. a + 1 \in Int /\ b - 1 \in Int
      OBVIOUS
    <3> QED
      BY <3>2, <3>3, Zenon
  <2>1. IsFiniteSet((feed[s][i] + 1)..(feed[s][i + 1] - 1))
    BY <2>0, FS_Interval
  <2> QED
    BY <2>1, FS_Subset, FS_CardinalityType
<1> HIDE DEF between
<1>5. dropSub \in Nat /\ dropData \in Nat
  BY DEF LossInv, SubsOK
<1>6. Cardinality(between) <= dropSub' + dropData'
  <2>1. dropSub + dropData \in Nat /\ dropSub' + dropData' \in Nat
    BY <1>5, Sums
  <2>2. Cardinality(between) <= dropSub + dropData
    BY <1>1
  <2> QED
    BY <1>4, <2>1, <2>2, Within
<1> QED
  BY <1>1, <1>3, <1>6

\* What is in flight stays so, no subscription is added that has been fed: nothing is missed.
LEMMA Undisturbed ==
    ASSUME IInv, LossInv, UNCHANGED <<kinds, feed, dropSub>>,
           dropData' \in Nat, dropData <= dropData',
           \A n \in Nat : (InFlight(n) <=> InFlight(n)'),
           \A s \in subs' : feed[s] # <<>> => s \in subs
    PROVE  Counted' /\ NoSilentLoss'
<1> USE DEF LossInv
<1>1. dropData \in Nat /\ dropSub \in Nat
  BY DEF SubsOK
<1>2. \A m \in Nat : LostAfter(m)' = LostAfter(m)
  BY DEF LostAfter, IInv, TypeOK
<1>3. \A m \in Nat : InFlight(m)' => Cardinality(LostAfter(m)') <= dropData'
  <2> SUFFICES ASSUME NEW m \in Nat, InFlight(m)' PROVE Cardinality(LostAfter(m)') <= dropData'
    OBVIOUS
  <2>1. Cardinality(LostAfter(m)) <= dropData
    BY DEF Counted
  <2>2. Cardinality(LostAfter(m)) \in Nat
    BY LostFinite, FS_CardinalityType
  <2> QED
    BY <1>1, <1>2, <2>1, <2>2
<1>4. ASSUME NEW s \in subs', feed[s] # <<>>
      PROVE  Cardinality(Missed(s)') <= dropSub' + dropData'
  <2>1. s \in subs /\ s \in Subs /\ feed[s][Len(feed[s])] \in Nat /\ IsFiniteSet(Missed(s))
    BY <1>4, MissedFinite DEF SubsOK
  <2>2. Missed(s)' = Missed(s)
    BY <1>2, <2>1 DEF Missed
  <2>3. Cardinality(Missed(s)) <= dropSub + dropData
    BY <1>4, <2>1 DEF Counted
  <2>4. Cardinality(Missed(s)) \in Nat
    BY <2>1, FS_CardinalityType
  <2> QED
    BY <1>1, <2>2, <2>3, <2>4
<1>5. NoSilentLoss'
  <2> HIDE DEF LossInv
  <2>1. dropSub' = dropSub /\ dropSub \in Nat /\ dropData \in Nat
    BY <1>1
  <2>2. dropSub + dropData <= dropSub + dropData'
    <3>1. dropSub <= dropSub
      BY <2>1
    <3> QED
      BY <2>1, <3>1, Grown, Zenon
  <2> QED
    BY <2>1, <2>2, GapsKept
<1> QED
  BY <1>3, <1>4, <1>5 DEF Counted

\* The link and the pump, as long as no callback begins or ends its way.
LEMMA WaySteps ==
    ASSUME IInv, LossInv, NcpServe \/ PumpTake \/ RouteReply \/ PumpEnd
    PROVE  LossInv'
<1> USE DEF LossInv
<1>1. UNCHANGED <<kinds, used, subs, closes, feed, unread, dropSub>>
  BY DEF NcpServe, PumpTake, RouteReply, PumpEnd, cmdVars, linkVars, ncpVars, pumpVars, subVars
<1>2. dropData' \in {dropData, dropData + 1} /\ dropData \in Nat
  BY DEF NcpServe, PumpTake, RouteReply, PumpEnd, cmdVars, linkVars, ncpVars, pumpVars, subVars,
         HandOver, SubsOK
<1>3. SubsOK' /\ ClosedOnce'
  BY <1>1, <1>2 DEF SubsOK, ClosedOnce
<1>4. (\A n \in Nat : (InFlight(n) <=> InFlight(n)')) /\ Carried'
  <2>1. CASE NcpServe
    <3> DEFINE msg == Reply(accepted[served + 1])
    <3>1. /\ data' = data \/ data' = Append(data, msg)
          /\ msg.kind = "reply" /\ UNCHANGED <<kinds, pump, held, feed>>
      BY <2>1 DEF NcpServe, HandOver, Reply, pumpVars, subVars
    <3> HIDE DEF msg
    <3>2. /\ \A i \in 1..Len(data) : i \in 1..Len(data') /\ data'[i] = data[i]
          /\ \A i \in 1..Len(data') : data'[i].kind # "reply" => i \in 1..Len(data) /\ data'[i] = data[i]
      BY <3>1 DEF IInv, TypeOK
    <3>3. \A n \in Nat : (InFlight(n) <=> InFlight(n)')
      BY <3>1, <3>2 DEF InFlight
    <3>4. Carried'
      BY <3>1, <3>2, <3>3 DEF Carried
    <3> QED
      BY <3>3, <3>4
  <2>2. CASE PumpTake
    <3>1. /\ pump = "read" /\ pump' = "route" /\ data # <<>> /\ held' = data[1] /\ data' = Tail(data)
          /\ UNCHANGED <<kinds, feed>>
      BY <2>2 DEF PumpTake, ncpVars, subVars
    <3>2. /\ 1 \in 1..Len(data)
          /\ \A i \in 1..Len(data') : i + 1 \in 1..Len(data) /\ 1 < i + 1 /\ data'[i] = data[i + 1]
          /\ \A i \in 1..Len(data) : i = 1 \/ (i - 1 \in 1..Len(data') /\ data'[i - 1] = data[i])
      BY <3>1 DEF IInv, TypeOK
    <3>3. \A n \in Nat : (InFlight(n) <=> InFlight(n)')
      BY <3>1, <3>2 DEF InFlight
    <3>4. Carried'
      <4>1. /\ \A i \in 1..Len(data') : data'[i].kind # "reply" =>
                  /\ data'[i].n \in 1..Len(kinds) /\ kinds[data'[i].n] = data'[i].kind
                  /\ data[1].kind # "reply" => data[1].n < data'[i].n
            /\ data[1].kind # "reply" => data[1].n \in 1..Len(kinds) /\ kinds[data[1].n] = data[1].kind
        <5>1. ASSUME NEW i \in 1..Len(data'), data'[i].kind # "reply"
              PROVE  /\ data'[i].n \in 1..Len(kinds) /\ kinds[data'[i].n] = data'[i].kind
                     /\ data[1].kind # "reply" => data[1].n < data'[i].n
          <6>1. i + 1 \in 1..Len(data) /\ 1 \in 1..Len(data) /\ 1 < i + 1 /\ data'[i] = data[i + 1]
            BY <3>2
          <6>2. data[i + 1].kind # "reply"
            BY <5>1, <6>1
          <6> QED
            BY <6>1, <6>2 DEF Carried
        <5>2. data[1].kind # "reply" => data[1].n \in 1..Len(kinds) /\ kinds[data[1].n] = data[1].kind
          BY <3>2 DEF Carried
        <5> QED
          BY <5>1, <5>2
      <4>2. \A i, j \in 1..Len(data') :
              i < j /\ data'[i].kind # "reply" /\ data'[j].kind # "reply" => data'[i].n < data'[j].n
        <5> SUFFICES ASSUME NEW i \in 1..Len(data'), NEW j \in 1..Len(data'), i < j,
                            data'[i].kind # "reply", data'[j].kind # "reply"
                     PROVE  data'[i].n < data'[j].n
          OBVIOUS
        <5>1. /\ i + 1 \in 1..Len(data) /\ j + 1 \in 1..Len(data) /\ i + 1 < j + 1
              /\ data'[i] = data[i + 1] /\ data'[j] = data[j + 1]
          BY <3>2
        <5> QED
          BY <5>1 DEF Carried
      <4>3. \A s \in Subs : \A i \in 1..Len(feed'[s]) :
              feed'[s][i] \in 1..Len(kinds') /\ \A n \in Nat : InFlight(n)' => feed'[s][i] < n
        BY <3>1, <3>3 DEF Carried
      <4> QED
        BY <3>1, <4>1, <4>2, <4>3 DEF Carried
    <3> QED
      BY <3>3, <3>4
  <2>3. CASE RouteReply \/ PumpEnd
    <3>1. /\ pump' # "route" /\ (pump = "route" => held.kind = "reply") /\ UNCHANGED <<data, held, kinds, feed>>
      BY <2>3 DEF RouteReply, ForCommand, PumpEnd, ncpVars, subVars
    <3>2. \A n \in Nat : (InFlight(n) <=> InFlight(n)')
      BY <3>1 DEF InFlight
    <3>3. Carried'
      BY <3>1, <3>2 DEF Carried
    <3> QED
      BY <3>2, <3>3
  <2> QED
    BY <2>1, <2>2, <2>3
<1>5. Counted' /\ NoSilentLoss'
  BY <1>1, <1>2, <1>4, Undisturbed
<1> QED
  BY <1>3, <1>4, <1>5

\* Subscriptions come and go.
LEMMA SubSteps ==
    ASSUME IInv, LossInv, SubStep \/ Close
    PROVE  LossInv'
<1> USE DEF LossInv
<1>1. /\ UNCHANGED <<kinds, feed, dropSub, dropData, data, pump, held>>
  BY DEF SubStep, Subscribe, Unsubscribe, Receive, Close, ncpVars, pumpVars
<1>2. \A n \in Nat : (InFlight(n) <=> InFlight(n)')
  BY <1>1 DEF InFlight
<1>3. Carried'
  BY <1>1, <1>2 DEF Carried
<1>4. /\ SubsOK' /\ ClosedOnce'
      /\ \A s \in subs' : feed[s] # <<>> => s \in subs
  <2>1. ASSUME NEW s \in Subs, Subscribe(s)
        PROVE  /\ SubsOK' /\ ClosedOnce'
               /\ \A t \in subs' : feed[t] # <<>> => t \in subs
    <3>1. /\ s \notin used /\ used' = used \cup {s} /\ subs' = subs \cup {s}
          /\ UNCHANGED <<closes, feed, unread, dropSub, dropData>>
      BY <1>1, <2>1 DEF Subscribe
    <3> QED
      BY <3>1 DEF SubsOK, ClosedOnce
  <2>2. ASSUME NEW S \in SUBSET subs, CloseAll(S), UNCHANGED <<used, unread>>
        PROVE  SubsOK' /\ ClosedOnce' /\ subs' \subseteq subs
    <3>1. /\ subs' = subs \ S
          /\ closes' = [t \in Subs |-> IF t \in S THEN closes[t] + 1 ELSE closes[t]]
      BY <2>2 DEF CloseAll
    <3>2. \A t \in Subs : closes[t] \in Nat /\ (t \in S => closes[t] = 0)
      BY DEF SubsOK, ClosedOnce
    <3> QED
      BY <1>1, <2>2, <3>1, <3>2 DEF SubsOK, ClosedOnce
  <2>3. ASSUME NEW s \in Subs, Receive(s)
        PROVE  SubsOK' /\ ClosedOnce' /\ subs' = subs
    <3>1. /\ unread[s] > 0 /\ unread' = [unread EXCEPT ![s] = @ - 1] /\ UNCHANGED <<used, subs, closes>>
      BY <2>3 DEF Receive
    <3>2. unread' \in [Subs -> Nat]
      BY <3>1 DEF SubsOK
    <3> QED
      BY <1>1, <3>1, <3>2 DEF SubsOK, ClosedOnce
  <2>4. CASE SubStep
    <3>1. PICK s \in Subs : Subscribe(s) \/ Unsubscribe(s) \/ Receive(s)
      BY <2>4 DEF SubStep
    <3>2. CASE Unsubscribe(s)
      <4>1. CloseAll({s} \cap subs) /\ UNCHANGED <<used, unread>> /\ {s} \cap subs \in SUBSET subs
        BY <3>2 DEF Unsubscribe
      <4> QED
        BY <4>1, <2>2
    <3> QED
      BY <3>1, <3>2, <2>1, <2>3
  <2>5. CASE Close
    <3>1. CloseAll(subs) /\ UNCHANGED <<used, unread>>
      BY <2>5 DEF Close
    <3> QED
      BY <3>1, <2>2
  <2> QED
    BY <2>4, <2>5
<1>5. dropData' \in Nat /\ dropData <= dropData'
  BY <1>1 DEF SubsOK
<1>6. Counted' /\ NoSilentLoss'
  BY <1>1, <1>2, <1>4, <1>5, Undisturbed
<1> QED
  BY <1>3, <1>4, <1>6

\* A callback begins its way, or is lost on a full dataCh and counted.
LEMMA CallbackSteps ==
    ASSUME IInv, LossInv, NcpCallback
    PROVE  LossInv'
<1> USE DEF LossInv
<1>0. PICK k \in Kinds : kinds' = Append(kinds, k) /\ HandOver(Callback(k, Len(kinds) + 1))
  BY DEF NcpCallback
<1> DEFINE last == Len(kinds) + 1
           msg == Callback(k, last)
<1>1. /\ UNCHANGED <<pump, held, used, subs, closes, feed, unread, dropSub>>
      /\ msg.kind = k /\ msg.kind # "reply" /\ msg.n = last
      /\ \/ data' = Append(data, msg) /\ dropData' = dropData
         \/ data' = data /\ dropData' = dropData + 1
  <2>1. msg.kind = k /\ msg.n = last
    BY DEF Callback
  <2>0. k # "reply"
    BY EzspAssumption DEF EzspAssumption
  <2>2. UNCHANGED <<pump, held, used, subs, closes, feed, unread, dropSub>>
    BY DEF NcpCallback, pumpVars, subVars
  <2>3. \/ data' = Append(data, msg) /\ dropData' = dropData
        \/ data' = data /\ dropData' = dropData + 1
    BY <1>0 DEF HandOver
  <2> QED
    BY <2>0, <2>1, <2>2, <2>3
<1>2. /\ last \in Nat /\ Len(kinds) \in Nat /\ Len(kinds') = last /\ kinds'[last] = k
      /\ \A n \in 1..Len(kinds) : kinds'[n] = kinds[n]
      /\ dropSub \in Nat /\ dropData \in Nat
  BY <1>0 DEF IInv, TypeOK, SubsOK
<1> HIDE DEF msg, last
<1>3. SubsOK' /\ ClosedOnce'
  BY <1>1, <1>2 DEF SubsOK, ClosedOnce
<1>4. /\ \A i \in 1..Len(data) : i \in 1..Len(data') /\ data'[i] = data[i]
      /\ dropData' = dropData => Len(data') \in 1..Len(data') /\ data'[Len(data')] = msg
      /\ \A i \in 1..Len(data') :
            \/ i \in 1..Len(data) /\ data'[i] = data[i]
            \/ dropData' = dropData /\ i = Len(data') /\ data'[i] = msg /\ \A j \in 1..Len(data) : j < i
  <2>1. data \in Seq(Message)
    BY DEF IInv, TypeOK
  <2>2. CASE data' = data /\ dropData' = dropData + 1
    BY <1>2, <2>1, <2>2
  <2>3. CASE data' = Append(data, msg) /\ dropData' = dropData
    BY <2>1, <2>3
  <2> QED
    BY <1>1, <2>2, <2>3
<1>5. \A n \in Nat : InFlight(n)' <=> InFlight(n) \/ (dropData' = dropData /\ n = last)
  BY <1>1, <1>4 DEF InFlight
<1>6. \A n : InFlight(n) => n \in 1..Len(kinds) /\ n < last
  BY <1>2 DEF InFlight, Carried, last
<1>7. \A s \in Subs : \A i \in 1..Len(feed[s]) : feed[s][i] \in 1..Len(kinds) /\ feed[s][i] < last
  BY <1>2 DEF Carried, last
<1>8. Carried'
  <2>1. \A i \in 1..Len(data') : data'[i].kind # "reply" =>
          data'[i].n \in 1..last /\ kinds'[data'[i].n] = data'[i].kind
    <3>1. ASSUME NEW i \in 1..Len(data'), data'[i].kind # "reply"
          PROVE  data'[i].n \in 1..last /\ kinds'[data'[i].n] = data'[i].kind
      <4>1. CASE i \in 1..Len(data) /\ data'[i] = data[i]
        <5>1. data[i].n \in 1..Len(kinds) /\ kinds[data[i].n] = data[i].kind
          BY <3>1, <4>1 DEF Carried
        <5>2. 1..Len(kinds) \subseteq 1..last
          BY <1>2 DEF last
        <5> QED
          BY <1>2, <4>1, <5>1, <5>2
      <4>2. CASE data'[i] = msg
        <5>1. msg.n = last /\ msg.kind = k
          BY <1>1
        <5>2. kinds'[last] = k
          BY <1>2
        <5>3. last \in 1..last
          BY <1>2 DEF last
        <5> QED
          BY <4>2, <5>1, <5>2, <5>3, Zenon
      <4> QED
        BY <1>4, <4>1, <4>2
    <3> QED
      BY <3>1
  <2>2. ASSUME NEW i \in 1..Len(data'), NEW j \in 1..Len(data'), i < j,
               data'[i].kind # "reply", data'[j].kind # "reply"
        PROVE  data'[i].n < data'[j].n
    <3>1. i \in 1..Len(data) /\ data'[i] = data[i]
      BY <1>4, <2>2
    <3>2. data[i].n < last
      BY <1>6, <2>2, <3>1 DEF InFlight
    <3> QED
      BY <1>1, <1>4, <2>2, <3>1, <3>2 DEF Carried
  <2>3. pump' = "route" /\ held'.kind # "reply" =>
          /\ held'.n \in 1..last /\ kinds'[held'.n] = held'.kind
          /\ \A i \in 1..Len(data') : data'[i].kind # "reply" => held'.n < data'[i].n
    <3>1. ASSUME pump = "route", held.kind # "reply"
          PROVE  /\ held.n \in 1..last /\ kinds'[held.n] = held.kind
                 /\ \A i \in 1..Len(data') : data'[i].kind # "reply" => held.n < data'[i].n
      <4>1. /\ held.n \in 1..Len(kinds) /\ kinds[held.n] = held.kind /\ held.n < last
            /\ \A i \in 1..Len(data) : data[i].kind # "reply" => held.n < data[i].n
        BY <1>6, <3>1 DEF Carried, InFlight
      <4>2. held.n \in 1..last /\ kinds'[held.n] = held.kind
        BY <1>2, <4>1 DEF last
      <4>3. ASSUME NEW i \in 1..Len(data'), data'[i].kind # "reply" PROVE held.n < data'[i].n
        <5>1. CASE data'[i] = msg
          BY <1>1, <4>1, <5>1
        <5> QED
          BY <1>4, <4>1, <4>3, <5>1
      <4> QED
        BY <4>2, <4>3
    <3> QED
      BY <1>1, <3>1
  <2>4. \A s \in Subs : \A i \in 1..Len(feed'[s]) :
          feed'[s][i] \in 1..last /\ \A n \in Nat : InFlight(n)' => feed'[s][i] < n
    <3>1. ASSUME NEW s \in Subs, NEW i \in 1..Len(feed[s])
          PROVE  feed[s][i] \in 1..last /\ \A n \in Nat : InFlight(n)' => feed[s][i] < n
      <4>1. feed[s][i] \in 1..Len(kinds) /\ feed[s][i] < last
        BY <1>7
      <4>2. feed[s][i] \in 1..last
        BY <1>2, <4>1 DEF last
      <4>3. \A n \in Nat : InFlight(n) => feed[s][i] < n
        BY DEF Carried
      <4> QED
        BY <1>5, <4>1, <4>2, <4>3
    <3> QED
      BY <1>1, <3>1
  <2> QED
    BY <1>2, <2>1, <2>2, <2>3, <2>4 DEF Carried
<1>9. ASSUME NEW m \in Nat
      PROVE  LostAfter(m)' \subseteq IF dropData' = dropData THEN LostAfter(m) ELSE LostAfter(m) \cup {last}
  BY <1>2, <1>5 DEF LostAfter, last
<1>10. ASSUME NEW m \in Nat, InFlight(m)'
       PROVE  Cardinality(LostAfter(m)') <= dropData'
  <2>1. CASE dropData' = dropData /\ m = last
    <3>1. LostAfter(m)' = {}
      BY <1>2, <2>1 DEF LostAfter
    <3> QED
      BY <1>1, <1>2, <3>1, FS_EmptySet
  <2>2. CASE InFlight(m)
    <3>1. Cardinality(LostAfter(m)) <= dropData /\ IsFiniteSet(LostAfter(m))
      BY <2>2, LostFinite DEF Counted
    <3> HIDE DEF LossInv
    <3>2. CASE dropData' # dropData
      <4>1. LostAfter(m)' \in SUBSET (LostAfter(m) \cup {last}) /\ dropData' = dropData + 1
        BY <1>1, <1>9, <3>2
      <4> QED
        BY <1>2, <3>1, <4>1, OneMore
    <3>3. CASE dropData' = dropData
      <4>1. LostAfter(m)' \in SUBSET LostAfter(m) /\ dropData' = dropData
        BY <1>1, <1>9, <3>3
      <4> QED
        BY <1>2, <3>1, <4>1, Fewer
    <3> QED
      BY <3>2, <3>3
  <2> QED
    BY <1>5, <1>10, <2>1, <2>2
<1>11. ASSUME NEW s \in subs, feed[s] # <<>>
       PROVE  Cardinality(Missed(s)') <= dropSub + dropData'
  <2>0. PICK m \in Nat : m = feed[s][Len(feed[s])]
    BY <1>11, MissedFinite DEF SubsOK
  <2>1. s \in Subs /\ IsFiniteSet(Missed(s)) /\ Cardinality(Missed(s)) <= dropSub + dropData
    BY <1>11, MissedFinite DEF SubsOK, Counted
  <2>2. Missed(s)' \subseteq IF dropData' = dropData THEN Missed(s) ELSE Missed(s) \cup {last}
    <3>1. LostAfter(m)' \subseteq IF dropData' = dropData THEN LostAfter(m) ELSE LostAfter(m) \cup {last}
      BY <1>9
    <3>2. \A n \in LostAfter(m) : kinds'[n] = kinds[n]
      BY <1>2 DEF LostAfter
    <3>3. Missed(s) = {n \in LostAfter(m) : kinds[n] \in Interest[s]}
      BY <2>0 DEF Missed
    <3>4. Missed(s)' = {n \in LostAfter(m)' : kinds'[n] \in Interest[s]}
      BY <1>1, <2>0 DEF Missed
    <3> QED
      BY <3>1, <3>2, <3>3, <3>4
  <2> HIDE DEF LossInv
  <2>3. CASE dropData' # dropData
    <3>1. Missed(s)' \in SUBSET (Missed(s) \cup {last}) /\ dropSub + dropData' = (dropSub + dropData) + 1
      BY <1>1, <1>2, <2>2, <2>3
    <3>2. dropSub + dropData \in Nat
      BY <1>2
    <3> QED
      BY <2>1, <3>1, <3>2, OneMore
  <2>4. CASE dropData' = dropData
    <3>1. Missed(s)' \in SUBSET Missed(s) /\ dropSub + dropData \in Nat
      BY <1>2, <2>2, <2>4
    <3> QED
      BY <2>1, <2>4, <3>1, Fewer
  <2> QED
    BY <2>3, <2>4
<1>12. Counted'
  BY <1>1, <1>10, <1>11 DEF Counted
<1>13. NoSilentLoss'
  BY <1>1, <1>2, GapsKept
<1> QED
  BY <1>3, <1>8, <1>12, <1>13

\* The gap between two callbacks a subscription was given is finite.
LEMMA GapFinite ==
    ASSUME IInv, LossInv, NEW s \in Subs, NEW i \in 1..(Len(feed[s]) - 1)
    PROVE  Cardinality({n \in (feed[s][i] + 1)..(feed[s][i + 1] - 1) : kinds[n] \in Interest[s]}) \in Nat
<1>1. i \in 1..Len(feed[s]) /\ i + 1 \in 1..Len(feed[s]) /\ feed[s] \in Seq(Nat)
  <2>1. feed[s] \in Seq(Nat)
    BY DEF LossInv, SubsOK
  <2> QED
    BY <2>1
<1>2. feed[s][i] + 1 \in Int /\ feed[s][i + 1] - 1 \in Int
  BY <1>1
<1>3. IsFiniteSet((feed[s][i] + 1)..(feed[s][i + 1] - 1))
  BY <1>2, FS_Interval
<1> QED
  BY <1>3, FS_Subset, FS_CardinalityType

\* A callback ends its way: it is given to, or counted for, all who wanted it.
LEMMA RouteSteps ==
    ASSUME IInv, LossInv, RouteEvent
    PROVE  LossInv'
<1> USE DEF LossInv
<1> DEFINE takers == {s \in Matching(held) : HasRoom(s)}
           left == Matching(held) \ takers
           callback == held.kind # "reply"
           last == held.n
<1>1. /\ pump = "route" /\ pump' = "read" /\ dropSub' = dropSub + Cardinality(left)
      /\ feed' = [s \in Subs |-> IF s \in takers THEN Append(feed[s], last) ELSE feed[s]]
      /\ unread' = [s \in Subs |-> IF s \in takers THEN unread[s] + 1 ELSE unread[s]]
      /\ UNCHANGED <<kinds, dropData, data, held, used, subs, closes>>
  BY DEF RouteEvent, ncpVars
<1>2. /\ takers \subseteq subs /\ left \subseteq subs /\ subs \subseteq Subs
      /\ \A s \in Subs : s \in takers \/ s \in left <=> s \in subs /\ held.kind \in Interest[s]
  BY DEF Matching, SubsOK
<1>3. callback => last \in 1..Len(kinds) /\ kinds[last] = held.kind /\ last \in Nat /\ InFlight(last)
  BY <1>1 DEF Carried, InFlight
<1>4. \A s \in takers \cup left : callback
  <2>1. \A s \in Subs : "reply" \notin Interest[s]
    BY EzspAssumption DEF EzspAssumption
  <2> QED
    BY <1>2, <2>1
<1>5. /\ IsFiniteSet(left) /\ Cardinality(left) \in Nat
      /\ dropSub \in Nat /\ dropData \in Nat /\ dropSub' \in Nat /\ dropSub <= dropSub'
  <2>1. IsFiniteSet(left)
    BY <1>2, EzspAssumption, FS_Subset DEF EzspAssumption
  <2>2. Cardinality(left) \in Nat
    BY <2>1, FS_CardinalityType
  <2>3. dropSub \in Nat /\ dropData \in Nat
    BY DEF SubsOK
  <2> HIDE DEF left
  <2> QED
    BY <1>1, <2>1, <2>2, <2>3
<1>sums. /\ dropSub + dropData \in Nat /\ dropSub' + dropData \in Nat
       /\ dropSub + dropData <= dropSub' + dropData
  <2>1. dropData <= dropData
    BY <1>5
  <2> QED
    BY <1>5, <2>1, Sums, Grown, Zenon
<1>6. \A s \in left : dropSub + 1 <= dropSub'
  <2> SUFFICES ASSUME NEW s \in left PROVE dropSub + 1 <= dropSub'
    OBVIOUS
  <2>1. Cardinality(left) # 0
    BY <1>5, FS_EmptySet
  <2> HIDE DEF left
  <2> QED
    BY <1>1, <1>5, <2>1
<1>7. /\ \A n \in Nat : InFlight(n)' => InFlight(n) /\ (callback => last < n)
      /\ \A n \in Nat : InFlight(n) => InFlight(n)' \/ (callback /\ n = last)
      /\ callback => ~InFlight(last)' /\ \A n \in Nat : InFlight(n) => last <= n
  BY <1>1, <1>3 DEF InFlight, Carried
<1> HIDE DEF takers, left, callback, last
<1>8. \A s \in takers : /\ feed[s] \in Seq(Nat) /\ last \in Nat /\ feed'[s] = Append(feed[s], last)
                        /\ Len(feed'[s]) = Len(feed[s]) + 1 /\ feed'[s][Len(feed[s]) + 1] = last
                        /\ \A i \in 1..Len(feed[s]) : feed'[s][i] = feed[s][i]
  <2> SUFFICES ASSUME NEW s \in takers
               PROVE  /\ feed[s] \in Seq(Nat) /\ last \in Nat /\ feed'[s] = Append(feed[s], last)
                      /\ Len(feed'[s]) = Len(feed[s]) + 1 /\ feed'[s][Len(feed[s]) + 1] = last
                      /\ \A i \in 1..Len(feed[s]) : feed'[s][i] = feed[s][i]
    OBVIOUS
  <2>1. feed[s] \in Seq(Nat) /\ last \in Nat /\ feed'[s] = Append(feed[s], last)
    BY <1>1, <1>2, <1>3, <1>4 DEF SubsOK
  <2> QED
    BY <2>1
<1>9. \A s \in Subs \ takers : feed'[s] = feed[s]
  BY <1>1
<1>10. SubsOK' /\ ClosedOnce'
  <2>1. feed' \in [Subs -> Seq(Nat)]
    <3>1. \A s \in Subs : feed'[s] \in Seq(Nat)
      <4> SUFFICES ASSUME NEW s \in Subs PROVE feed'[s] \in Seq(Nat)
        OBVIOUS
      <4>1. CASE s \in takers
        BY <1>8, <4>1, Appended
      <4>2. CASE s \notin takers
        BY <1>9, <4>2 DEF SubsOK
      <4> QED
        BY <4>1, <4>2
    <3> QED
      BY <1>1, <3>1
  <2>2. unread' \in [Subs -> Nat]
    BY <1>1 DEF SubsOK
  <2> QED
    BY <1>1, <1>2, <1>5, <1>9, <2>1, <2>2 DEF SubsOK, ClosedOnce
<1>11. Carried'
  <2>1. ASSUME NEW s \in Subs, NEW i \in 1..Len(feed'[s])
        PROVE  feed'[s][i] \in 1..Len(kinds) /\ \A n \in Nat : InFlight(n)' => feed'[s][i] < n
    <3>1. CASE s \in takers /\ i = Len(feed[s]) + 1
      BY <1>2, <1>3, <1>4, <1>7, <1>8, <3>1
    <3>2. CASE ~(s \in takers /\ i = Len(feed[s]) + 1)
      <4>1. i \in 1..Len(feed[s]) /\ feed'[s][i] = feed[s][i]
        BY <1>8, <1>9, <2>1, <3>2
      <4> QED
        BY <1>7, <4>1 DEF Carried
    <3> QED
      BY <3>1, <3>2
  <2> QED
    BY <1>1, <2>1 DEF Carried
<1>12. ASSUME NEW m \in Nat
       PROVE  /\ LostAfter(m) \subseteq LostAfter(m)'
              /\ \A n \in LostAfter(m)' : n \in LostAfter(m) \/ (callback /\ n = last /\ last > m)
  <2>1. \A n \in (m + 1)..Len(kinds) : n \in Nat /\ n > m
    OBVIOUS
  <2> QED
    BY <1>1, <1>7, <2>1 DEF LostAfter
<1>13. ASSUME NEW m \in Nat, InFlight(m)'
       PROVE  Cardinality(LostAfter(m)') <= dropData'
  <2>1. InFlight(m) /\ (callback => last < m)
    BY <1>7, <1>13
  <2>2. LostAfter(m)' = LostAfter(m)
    <3>1. ~(callback /\ last > m)
      BY <1>3, <2>1
    <3> QED
      BY <1>12, <3>1
  <2> QED
    BY <1>1, <2>1, <2>2 DEF Counted
<1>14. ASSUME NEW s \in subs, feed'[s] # <<>>
       PROVE  Cardinality(Missed(s)') <= dropSub' + dropData
  <2>0. s \in Subs /\ dropSub + dropData \in Nat /\ dropSub' + dropData \in Nat
    BY <1>2, <1>sums
  <2>1. CASE s \in takers
    <3>1. feed'[s][Len(feed'[s])] = last /\ callback /\ last \in Nat /\ InFlight(last)
      BY <1>3, <1>4, <1>8, <2>1
    <3>2. Missed(s)' \subseteq LostAfter(last)
      BY <1>12, <3>1 DEF Missed
    <3>3. Cardinality(LostAfter(last)) <= dropData /\ IsFiniteSet(LostAfter(last))
      BY <3>1, LostFinite DEF Counted
    <3>4. Cardinality(Missed(s)') <= dropData /\ Cardinality(Missed(s)') \in Nat
      BY <1>5, <3>2, <3>3, Fewer, FS_Subset, FS_CardinalityType
    <3> QED
      BY <1>5, <3>4
  <2>2. CASE s \notin takers
    <3>0. feed'[s] = feed[s] /\ feed[s] # <<>>
      BY <1>9, <1>14, <2>0, <2>2
    <3>1. PICK m \in Nat : m = feed[s][Len(feed[s])]
      BY <2>0, <3>0, MissedFinite
    <3>2. IsFiniteSet(Missed(s)) /\ Cardinality(Missed(s)) <= dropSub + dropData
      BY <2>0, <3>0, MissedFinite DEF Counted
    <3>3. /\ Missed(s)' \subseteq {n \in LostAfter(m)' : kinds[n] \in Interest[s]}
          /\ Missed(s) = {n \in LostAfter(m) : kinds[n] \in Interest[s]}
      BY <1>1, <3>0, <3>1 DEF Missed
    <3>4. CASE s \in left
      <4>1. Missed(s)' \in SUBSET (Missed(s) \cup {last})
        BY <1>12, <3>3
      <4>2. Cardinality(Missed(s)') <= dropSub + dropData + 1
        BY <2>0, <3>2, <4>1, OneMore
      <4>3. dropSub + dropData + 1 <= dropSub' + dropData
        BY <1>5, <1>6, <3>4, GrownByOne, Zenon
      <4>4. Cardinality(Missed(s)') \in Nat
        <5>1. IsFiniteSet(Missed(s) \cup {last})
          BY <3>2, FS_AddElement
        <5> QED
          BY <4>1, <5>1, FS_Subset, FS_CardinalityType
      <4> QED
        BY <2>0, <4>2, <4>3, <4>4
    <3>5. CASE s \notin left
      <4>1. Missed(s)' \in SUBSET Missed(s)
        <5>1. held.kind \notin Interest[s]
          BY <1>2, <2>0, <2>2, <3>5
        <5> QED
          BY <1>3, <1>12, <3>3, <5>1
      <4>2. Cardinality(Missed(s)') <= dropSub + dropData
        BY <2>0, <3>2, <4>1, Fewer
      <4>3. dropSub + dropData <= dropSub' + dropData
        BY <1>sums
      <4>4. Cardinality(Missed(s)') \in Nat
        BY <3>2, <4>1, FS_Subset, FS_CardinalityType
      <4> QED
        BY <2>0, <4>2, <4>3, <4>4
    <3> QED
      BY <3>4, <3>5
  <2> QED
    BY <2>1, <2>2
<1>15. NoSilentLoss'
  <2> SUFFICES ASSUME NEW s \in Subs, NEW i \in 1..(Len(feed'[s]) - 1)
               PROVE  LET between == {n \in (feed'[s][i] + 1)..(feed'[s][i + 1] - 1) :
                                         kinds'[n] \in Interest[s]}
                      IN  feed'[s][i] < feed'[s][i + 1] /\ Cardinality(between) <= dropSub' + dropData'
    BY DEF NoSilentLoss
  <2>0. dropSub + dropData \in Nat /\ dropSub' + dropData \in Nat /\ dropSub + dropData <= dropSub' + dropData
    BY <1>sums
  <2>1. CASE i \in 1..(Len(feed[s]) - 1)
    <3> DEFINE between == {n \in (feed[s][i] + 1)..(feed[s][i + 1] - 1) : kinds[n] \in Interest[s]}
    <3>1. feed'[s][i] = feed[s][i] /\ feed'[s][i + 1] = feed[s][i + 1]
      <4>1. feed[s] \in Seq(Nat)
        BY DEF SubsOK
      <4>2. i \in 1..Len(feed[s]) /\ i + 1 \in 1..Len(feed[s])
        BY <2>1, <4>1
      <4> QED
        BY <1>8, <1>9, <4>2
    <3>2. feed[s][i] < feed[s][i + 1] /\ Cardinality(between) <= dropSub + dropData
      BY <2>1 DEF NoSilentLoss
    <3>3. Cardinality(between) \in Nat
      BY <2>1, GapFinite
    <3> HIDE DEF between
    <3>4. Cardinality(between) <= dropSub' + dropData
      BY <2>0, <3>2, <3>3, Within
    <3> QED
      BY <1>1, <3>1, <3>2, <3>4 DEF between
  <2>2. CASE i \notin 1..(Len(feed[s]) - 1)
    <3>1. s \in takers /\ i = Len(feed[s]) /\ i \in 1..Len(feed[s]) /\ feed[s] # <<>>
      <4>1. feed[s] \in Seq(Nat)
        BY DEF SubsOK
      <4>2. s \in takers
        BY <1>9, <2>2
      <4> QED
        BY <1>8, <2>2, <4>1, <4>2
    <3>2. /\ feed'[s][i] = feed[s][Len(feed[s])] /\ feed'[s][i + 1] = last
          /\ callback /\ last \in 1..Len(kinds) /\ InFlight(last) /\ last \in Nat
      BY <1>3, <1>4, <1>8, <3>1
    <3>3. PICK m \in Nat : m = feed[s][Len(feed[s])]
      BY <3>1, MissedFinite
    <3>4. m < last
      BY <3>1, <3>2, <3>3 DEF Carried
    <3>5. {n \in (m + 1)..(last - 1) : kinds[n] \in Interest[s]} \subseteq Missed(s)
      <4> SUFFICES ASSUME NEW n \in (m + 1)..(last - 1), kinds[n] \in Interest[s]
                   PROVE  n \in Missed(s)
        OBVIOUS
      <4>1. n \in Nat /\ n < last /\ n \in (m + 1)..Len(kinds)
        BY <3>2
      <4>2. ~InFlight(n)
        BY <1>7, <3>2, <4>1
      <4> QED
        BY <3>3, <4>1, <4>2 DEF Missed, LostAfter
    <3>6. IsFiniteSet(Missed(s)) /\ Cardinality(Missed(s)) <= dropSub + dropData
      BY <1>2, <3>1, MissedFinite DEF Counted
    <3> DEFINE between == {n \in (m + 1)..(last - 1) : kinds[n] \in Interest[s]}
    <3>7. between \in SUBSET Missed(s)
      BY <3>5
    <3>8. Cardinality(between) \in Nat
      BY <3>6, <3>7, FS_Subset, FS_CardinalityType
    <3> HIDE DEF between
    <3>9. Cardinality(between) <= dropSub + dropData
      BY <2>0, <3>6, <3>7, Fewer
    <3>10. Cardinality(between) <= dropSub' + dropData
      BY <2>0, <3>8, <3>9, Within
    <3> QED
      BY <1>1, <3>2, <3>3, <3>4, <3>10 DEF between
  <2> QED
    BY <2>1, <2>2
<1> QED
  BY <1>1, <1>10, <1>11, <1>13, <1>14, <1>15 DEF Counted

\* Commands, the loss of the link and the rest of Close touch no callback.
LEMMA OtherSteps ==
    ASSUME IInv, LossInv,
           CommandStart \/ CommandStep \/ NcpAccept \/ LinkLost \/ CloseStep \/ Finished \/ UNCHANGED vars
    PROVE  LossInv'
<1>1. UNCHANGED <<kinds, feed, dropSub, dropData, data, pump, held, used, subs, closes, unread>>
  <2>1. CASE CommandStart \/ CommandStep
    BY <2>1 DEF CommandStart, CommandStep, SendOk, SendFails, WaitReply, WaitEnds, Fail, CommandReturn,
                ncpVars, pumpVars, subVars
  <2>2. CASE NcpAccept \/ LinkLost \/ CloseStep
    BY <2>2 DEF NcpAccept, LinkLost, CloseStep, CloseLink, CloseDone, ncpVars, pumpVars, subVars
  <2>3. CASE Finished \/ UNCHANGED vars
    BY <2>3 DEF Finished, vars, ncpVars, pumpVars, subVars
  <2> QED
    BY <2>1, <2>2, <2>3
<1>2. \A n \in Nat : (InFlight(n) <=> InFlight(n)')
  BY <1>1 DEF InFlight
<1>3. SubsOK' /\ ClosedOnce' /\ dropData' \in Nat /\ dropData <= dropData'
  BY <1>1 DEF LossInv, SubsOK, ClosedOnce
<1>4. Carried'
  BY <1>1, <1>2 DEF LossInv, Carried
<1>5. Counted' /\ NoSilentLoss'
  BY <1>1, <1>2, <1>3, Undisturbed
<1> QED
  BY <1>3, <1>4, <1>5 DEF LossInv

\* Every step keeps the invariant.
LEMMA StepLossInv == IInv /\ LossInv /\ [Next]_vars => LossInv'
<1> SUFFICES ASSUME IInv, LossInv, [Next]_vars PROVE LossInv'
  OBVIOUS
<1> QED
  BY WaySteps, SubSteps, CallbackSteps, RouteSteps, OtherSteps DEF Next, PumpStep, NcpStep

\* The accounts of the losses balance in every reachable state.
LEMMA LossInvHolds == Spec => []LossInv
  BY InitIInv, StepIInv, InitLossInv, StepLossInv, PTL DEF Spec

\* Neither panic of Go's channels can happen: nothing is sent on a closed channel and none is
\* closed twice, however Unsubscribe, Close and route interleave.
THEOREM ClosedOnceHolds == Spec => []ClosedOnce
<1>1. LossInv => ClosedOnce
  BY DEF LossInv
<1> QED
  BY <1>1, LossInvHolds, PTL

\* A subscriber that misses a callback can tell from Stats: the gaps in what it reads are no
\* larger than what droppedSubscription and the link's counter of dropped data admit (route,
\* ash's handle).
THEOREM NoSilentLossHolds == Spec => []NoSilentLoss
<1>1. LossInv => NoSilentLoss
  BY DEF LossInv
<1> QED
  BY <1>1, LossInvHolds, PTL

=============================================================================
