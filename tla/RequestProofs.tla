---------------------------- MODULE RequestProofs ---------------------------
(***************************************************************************)
(* Requests and their answers, for any callers, phrases, channels and       *)
(* modulus of the sequence numbers; and the clock of the resends, for every *)
(* interval, patience, length of a send and number of tolerated failures.   *)
(***************************************************************************)
EXTENDS Request, ResendTimer, TLAPS

(***************************************************************************)
(* Sequences and sequence numbers                                          *)
(***************************************************************************)
\* What an element at the end adds to a sequence.
LEMMA RangeAppend ==
    ASSUME NEW S, NEW s \in Seq(S), NEW x \in S
    PROVE  Append(s, x) \in Seq(S) /\ Range(Append(s, x)) = Range(s) \cup {x}
<1>1. /\ Append(s, x) \in Seq(S) /\ DOMAIN Append(s, x) = 1 .. Len(s) + 1 /\ Len(s) \in Nat
      /\ DOMAIN s = 1 .. Len(s)
      /\ \A i \in 1 .. Len(s) : Append(s, x)[i] = s[i]
      /\ Append(s, x)[Len(s) + 1] = x
  OBVIOUS
<1>2. \A i \in 1 .. Len(s) + 1 : i \in 1 .. Len(s) \/ i = Len(s) + 1
  BY <1>1
<1> QED
  BY <1>1, <1>2 DEF Range

\* What is left of a sequence without its head.
LEMMA RangeTail ==
    ASSUME NEW S, NEW s \in Seq(S), s # <<>>
    PROVE  /\ Tail(s) \in Seq(S) /\ Head(s) \in Range(s)
           /\ Range(Tail(s)) \subseteq Range(s) /\ Range(s) \subseteq Range(Tail(s)) \cup {Head(s)}
<1>1. /\ Tail(s) \in Seq(S) /\ DOMAIN s = 1 .. Len(s) /\ Len(s) \in Nat \ {0}
      /\ DOMAIN Tail(s) = 1 .. Len(s) - 1 /\ Head(s) = s[1]
      /\ \A i \in 1 .. Len(s) - 1 : Tail(s)[i] = s[i + 1] /\ i + 1 \in 1 .. Len(s)
  OBVIOUS
<1>2. \A i \in 1 .. Len(s) : i = 1 \/ (i - 1 \in 1 .. Len(s) - 1 /\ Tail(s)[i - 1] = s[i])
  BY <1>1
<1>3. Head(s) \in Range(s)
  <2>1. 1 \in DOMAIN s
    BY <1>1
  <2> QED
    BY <1>1, <2>1 DEF Range
<1>4. ASSUME NEW x \in Range(Tail(s)) PROVE x \in Range(s)
  <2>1. PICK i \in 1 .. Len(s) - 1 : x = Tail(s)[i]
    BY <1>1 DEF Range
  <2>2. i + 1 \in DOMAIN s /\ x = s[i + 1]
    BY <1>1, <2>1
  <2> QED
    BY <2>2 DEF Range
<1>5. ASSUME NEW x \in Range(s) PROVE x = Head(s) \/ x \in Range(Tail(s))
  <2>1. PICK i \in 1 .. Len(s) : x = s[i]
    BY <1>1 DEF Range
  <2>2. CASE i = 1
    BY <1>1, <2>1, <2>2
  <2>3. CASE i # 1
    <3>1. i - 1 \in DOMAIN Tail(s) /\ x = Tail(s)[i - 1]
      BY <1>1, <1>2, <2>1, <2>3
    <3> QED
      BY <3>1 DEF Range
  <2> QED
    BY <2>2, <2>3
<1> QED
  BY <1>1, <1>3, <1>4, <1>5

\* m and n are less than a round of the sequence numbers apart.
Near(m, n) == m < n + SeqMod /\ n < m + SeqMod

\* Two requests that close have one sequence number only if they are one.
LEMMA NearAndEqual ==
    ASSUME NEW m \in Nat, NEW n \in Nat, Near(m, n), Sequence(m) = Sequence(n)
    PROVE  m = n
<1>0. SeqMod \in Nat \ {0}
  BY RequestAssumption
<1>1. /\ m = SeqMod * (m \div SeqMod) + (m % SeqMod) /\ m \div SeqMod \in Nat /\ m % SeqMod \in Nat
      /\ n = SeqMod * (n \div SeqMod) + (n % SeqMod) /\ n \div SeqMod \in Nat
      /\ m % SeqMod = n % SeqMod
  BY <1>0 DEF Sequence
<1> DEFINE p == m \div SeqMod
           q == n \div SeqMod
           r == m % SeqMod
<1>2. p \in Nat /\ q \in Nat /\ r \in Nat /\ m = SeqMod * p + r /\ n = SeqMod * q + r
  BY <1>1
<1> HIDE DEF p, q, r
<1>3. ASSUME NEW i \in Nat, NEW j \in Nat, i < j PROVE SeqMod * i + SeqMod <= SeqMod * j
  <2>1. PICK d \in Nat : j = i + 1 + d
    <3>1. j - i - 1 \in Nat /\ j = i + 1 + (j - i - 1)
      BY <1>3
    <3> QED
      BY <3>1
  <2>2. SeqMod * j = SeqMod * i + SeqMod + SeqMod * d /\ SeqMod * d \in Nat /\ SeqMod * i \in Nat
    BY <1>0, <2>1
  <2> QED
    BY <1>0, <2>2
<1>4. SeqMod * p \in Nat /\ SeqMod * q \in Nat
  BY <1>0, <1>2
<1>5. ~ p < q /\ ~ q < p
  BY <1>0, <1>2, <1>3, <1>4 DEF Near
<1>6. p = q
  BY <1>2, <1>5
<1> QED
  BY <1>2, <1>6

(***************************************************************************)
(* The inductive invariant                                                 *)
(***************************************************************************)
Phases == {"idle", "first", "wait", "resend", "done"}
Call == [pc: Phases, step: Nat, n: Nat, sub: {"none", "open", "closed"}, chan: Seq(Answer),
         attempts: Nat, sent: Nat]

RequestTypeOK ==
    /\ asked \in Seq([caller: Callers, question: Questions])
    /\ outcome \in Seq([answer: Nat, told: {"nothing", "ok", "refused", "error", "timeout"}])
    /\ Len(outcome) = Len(asked)
    /\ call \in [Callers -> Call]
    /\ queued \subseteq Requests \X Nat
    /\ air \subseteq Answer /\ \A r \in air : r.n \in Requests
    /\ arrived \subseteq Answer /\ \A r \in arrived : r.n \in Requests

\* A call that waits has a request of its own; one that does not has no subscription.
CallInv ==
    \A c \in Callers :
        /\ Waiting(c) => call[c].n \in Requests /\ asked[call[c].n].caller = c
        /\ ~Waiting(c) => call[c].chan = <<>> /\ call[c].sub = "none"

\* While a request waits, everything that can still reach it is less than a round away.
NearInv ==
    \A c \in Callers : Waiting(c) =>
        /\ \A cp \in queued : Near(cp[1], call[c].n)
        /\ \A r \in air : Near(r.n, call[c].n)
        /\ \A d \in Callers : Waiting(d) => Near(call[d].n, call[c].n)
        /\ \A r \in Range(call[c].chan) : r.n # 0 => Near(r.n, call[c].n)

\* An answer that says it was done was sent by a device that did it.
DoneInv ==
    /\ \A r \in air : r.status = "ok" => Applied(r.n)
    /\ \A c \in Callers : \A r \in Range(call[c].chan) : r.n # 0 /\ r.status = "ok" => Applied(r.n)
    /\ \A n \in Requests : outcome[n].answer \in {0, n} /\ (outcome[n].told = "ok" => Applied(n))

\* A caller that stops at a failure has only its last request in doubt.
PhraseInv ==
    /\ \A m, n \in Requests :
          m < n /\ asked[m].caller = asked[n].caller /\ asked[n].caller \in Stops => outcome[m].told = "ok"
    /\ \A c \in Stops, n \in Requests : asked[n].caller = c =>
          /\ call[c].pc = "idle" => outcome[n].told = "ok"
          /\ Waiting(c) => n <= call[c].n

IInv == RequestTypeOK /\ CallInv /\ NearInv /\ DoneInv /\ PhraseInv /\ NoAnswerMissed

\* The invariant holds at first.
LEMMA InitIInv == Init => IInv
<1> SUFFICES ASSUME Init PROVE IInv
  OBVIOUS
<1>1. asked = <<>> /\ outcome = <<>> /\ Requests = {} /\ queued = {} /\ air = {} /\ arrived = {}
  BY DEF Init, Requests
<1>2. \A c \in Callers : call[c] = IdleCall /\ ~Waiting(c) /\ Range(call[c].chan) = {}
  BY DEF Init, IdleCall, Waiting, Range
<1>3. RequestTypeOK
  <2>1. IdleCall \in Call
    BY DEF IdleCall, Call, Phases
  <2> QED
    BY <1>1, <2>1 DEF Init, RequestTypeOK
<1>4. CallInv
  BY <1>2 DEF CallInv, IdleCall
<1>5. NearInv /\ NoAnswerMissed
  BY <1>1, <1>2 DEF NearInv, NoAnswerMissed
<1>6. DoneInv /\ PhraseInv
  BY <1>1, <1>2 DEF DoneInv, PhraseInv
<1> QED
  BY <1>3, <1>4, <1>5, <1>6 DEF IInv

(***************************************************************************)
(* The caller's steps                                                      *)
(***************************************************************************)
\* A send, and what passes between two of them.
LEMMA Moving ==
    ASSUME IInv, NEW c \in Callers, Waiting(c), NEW x \in Call, x.pc \in {"first", "wait", "resend"},
           x.n = call[c].n, x.sub = call[c].sub, x.chan = call[c].chan,
           call' = [call EXCEPT ![c] = x],
           NEW k \in Nat, queued' \in {queued, queued \cup {<<call[c].n, k>>}},
           UNCHANGED <<asked, air, arrived, dropped, applied, outcome>>
    PROVE  IInv'
<1>1. /\ call' \in [Callers -> Call] /\ Requests' = Requests
      /\ \A d \in Callers : /\ call'[d].n = call[d].n /\ call'[d].sub = call[d].sub
                            /\ call'[d].chan = call[d].chan
                            /\ Waiting(d)' = Waiting(d)
                            /\ call'[d].pc = "idle" => call[d].pc = "idle"
  BY DEF IInv, RequestTypeOK, Waiting, Requests
<1>2. RequestTypeOK'
  <2>1. queued' \subseteq Requests \X Nat
    BY DEF IInv, RequestTypeOK, CallInv
  <2> QED
    BY <1>1, <2>1 DEF IInv, RequestTypeOK
<1>3. CallInv'
  BY <1>1 DEF IInv, CallInv
<1>4. NearInv'
  <2>1. \A d \in Callers : Waiting(d) => \A cp \in queued' : Near(cp[1], call[d].n)
    BY DEF IInv, NearInv
  <2> QED
    BY <1>1, <2>1 DEF IInv, NearInv
<1>5. DoneInv'
  BY <1>1 DEF IInv, DoneInv, Applied
<1>6. PhraseInv'
  BY <1>1, RequestAssumption DEF IInv, PhraseInv
<1>7. NoAnswerMissed'
  BY <1>1 DEF IInv, NoAnswerMissed
<1> QED
  BY <1>2, <1>3, <1>4, <1>5, <1>6, <1>7 DEF IInv

\* A request's own answer is never passed over.
LEMMA OwnMatches ==
    ASSUME NEW r \in Answer, NEW n, r.n = n, n # 0
    PROVE  Match(r, n)
  BY DEF Match, Command, Answer

\* An answer that is passed over keeps the invariant.
LEMMA IgnoredKeeps ==
    ASSUME IInv, NEW c \in Callers, ReplyIgnored(c)
    PROVE  IInv'
<1> DEFINE h == Head(call[c].chan)
           x == [call[c] EXCEPT !.chan = Tail(@)]
<1>0. Waiting(c) /\ call[c] \in Call /\ call[c].chan \in Seq(Answer) /\ call[c].chan # <<>>
  BY DEF ReplyIgnored, Waiting, IInv, RequestTypeOK, Call
<1>1. /\ Tail(call[c].chan) \in Seq(Answer) /\ h \in Answer
      /\ Range(Tail(call[c].chan)) \subseteq Range(call[c].chan)
      /\ Range(call[c].chan) \subseteq Range(Tail(call[c].chan)) \cup {h}
  BY <1>0, RangeTail
<1>2. /\ call' = [call EXCEPT ![c] = x]
      /\ UNCHANGED <<asked, queued, air, arrived, dropped, applied, outcome>>
  BY <1>0 DEF ReplyIgnored, devices, IInv, RequestTypeOK
<1>3. /\ call' \in [Callers -> Call] /\ Requests' = Requests
      /\ \A d \in Callers : /\ call'[d].n = call[d].n /\ call'[d].sub = call[d].sub
                            /\ call'[d].pc = call[d].pc /\ Waiting(d)' = Waiting(d)
                            /\ Range(call'[d].chan) \subseteq Range(call[d].chan)
                            /\ d # c => call'[d].chan = call[d].chan
      /\ call'[c].chan = Tail(call[c].chan)
  <2>1. x \in Call /\ x.n = call[c].n /\ x.sub = call[c].sub /\ x.pc = call[c].pc /\ x.chan = Tail(call[c].chan)
    BY <1>0, <1>1 DEF Call
  <2>2. call \in [Callers -> Call]
    BY DEF IInv, RequestTypeOK
  <2> HIDE DEF x
  <2> QED
    BY <1>1, <1>2, <2>1, <2>2 DEF Waiting, Requests
<1>4. RequestTypeOK'
  BY <1>2, <1>3 DEF IInv, RequestTypeOK
<1>5. CallInv'
  BY <1>0, <1>2, <1>3 DEF IInv, CallInv
<1>6. NearInv'
  BY <1>2, <1>3 DEF IInv, NearInv
<1>7. DoneInv'
  BY <1>2, <1>3 DEF IInv, DoneInv, Applied
<1>8. PhraseInv'
  BY <1>2, <1>3, RequestAssumption DEF IInv, PhraseInv
<1>9. NoAnswerMissed'
  <2> SUFFICES ASSUME NEW d \in Callers, NEW r \in arrived, Waiting(d), r.n = call[d].n
               PROVE  r \in Range(call'[d].chan) \/ <<d, r>> \in dropped
    BY <1>2, <1>3 DEF NoAnswerMissed
  <2>1. r \in Range(call[d].chan) \/ <<d, r>> \in dropped
    BY DEF IInv, NoAnswerMissed
  <2>2. CASE d # c
    BY <1>3, <2>1, <2>2
  <2>3. CASE d = c
    <3>1. r \in Answer /\ r.n # 0
      BY DEF IInv, RequestTypeOK, Requests
    <3>2. r # h
      BY <2>3, <3>1, OwnMatches DEF ReplyIgnored
    <3> QED
      BY <1>1, <1>3, <2>1, <2>3, <3>2
  <2> QED
    BY <2>2, <2>3
<1> QED
  BY <1>4, <1>5, <1>6, <1>7, <1>8, <1>9 DEF IInv

\* A request returns.
LEMMA ReturnKeeps ==
    ASSUME IInv, NEW c \in Callers, Waiting(c), NEW r \in {0, call[c].n},
           NEW told \in {"ok", "refused", "error", "timeout"}, told = "ok" => Applied(call[c].n),
           Return(c, r, told)
    PROVE  IInv'
<1> DEFINE n == call[c].n
           x == [call[c] EXCEPT !.pc = IF GoesOn(c, told) THEN "idle" ELSE "done",
                                !.sub = "none", !.chan = <<>>, !.attempts = 0, !.sent = 0]
<1>0. /\ call \in [Callers -> Call] /\ n \in Requests /\ asked[n].caller = c /\ n \in Nat
      /\ outcome \in Seq([answer: Nat, told: {"nothing", "ok", "refused", "error", "timeout"}])
      /\ Len(outcome) = Len(asked)
  BY DEF IInv, RequestTypeOK, CallInv, Requests
<1>1. /\ call' = [call EXCEPT ![c] = x]
      /\ outcome' = [outcome EXCEPT ![n] = [answer |-> r, told |-> told]]
      /\ arrived' \subseteq arrived /\ \A d \in dropped : d[1] # c => d \in dropped'
      /\ \A a \in arrived' : a.n # n
      /\ UNCHANGED <<asked, open, queued, applied, air, reports>>
  BY <1>0 DEF Return, Outcome, devices
<1>2. /\ x \in Call /\ x.n = n /\ x.sub = "none" /\ x.chan = <<>>
      /\ x.pc = (IF GoesOn(c, told) THEN "idle" ELSE "done")
  <2>1. call[c] \in Call /\ <<>> \in Seq(Answer) /\ (IF GoesOn(c, told) THEN "idle" ELSE "done") \in Phases
    BY <1>0 DEF Phases
  <2>2. \A p \in Phases :
           LET y == [call[c] EXCEPT !.pc = p, !.sub = "none", !.chan = <<>>, !.attempts = 0, !.sent = 0]
           IN  y \in Call /\ y.n = n /\ y.sub = "none" /\ y.chan = <<>> /\ y.pc = p
    BY <2>1 DEF Call
  <2> QED
    BY <2>1, <2>2
<1> HIDE DEF x
<1>3. /\ call' \in [Callers -> Call] /\ Requests' = Requests
      /\ call'[c] = x /\ ~Waiting(c)'
      /\ \A d \in Callers \ {c} : call'[d] = call[d] /\ Waiting(d)' = Waiting(d)
  BY <1>0, <1>1, <1>2 DEF Waiting, Requests
<1>4. /\ outcome' \in Seq([answer: Nat, told: {"nothing", "ok", "refused", "error", "timeout"}])
      /\ Len(outcome') = Len(asked)
      /\ outcome'[n] = [answer |-> r, told |-> told]
      /\ \A m \in Requests \ {n} : outcome'[m] = outcome[m]
  <2>1. [answer |-> r, told |-> told] \in [answer: Nat, told: {"nothing", "ok", "refused", "error", "timeout"}]
    BY <1>0
  <2> QED
    BY <1>0, <1>1, <2>1 DEF Requests
<1>5. RequestTypeOK'
  BY <1>1, <1>3, <1>4 DEF IInv, RequestTypeOK
<1>6. CallInv'
  BY <1>1, <1>2, <1>3 DEF IInv, CallInv
<1>7. NearInv'
  BY <1>1, <1>3 DEF IInv, NearInv
<1>8. DoneInv'
  <2>1. \A d \in Callers : \A a \in Range(call'[d].chan) : a \in Range(call[d].chan)
    BY <1>2, <1>3 DEF Range
  <2>2. \A m \in Requests : outcome'[m].answer \in {0, m} /\ (outcome'[m].told = "ok" => Applied(m))
    BY <1>4 DEF IInv, DoneInv
  <2>3. \A a \in air : a.status = "ok" => Applied(a.n)
    BY DEF IInv, DoneInv
  <2>4. \A d \in Callers : \A a \in Range(call'[d].chan) : a.n # 0 /\ a.status = "ok" => Applied(a.n)
    BY <2>1 DEF IInv, DoneInv
  <2>5. \A m : Applied(m)' = Applied(m)
    BY <1>1 DEF Applied
  <2> QED
    BY <1>1, <1>3, <2>2, <2>3, <2>4, <2>5 DEF DoneInv
<1>9. PhraseInv'
  <2>1. ASSUME NEW i \in Requests, NEW j \in Requests, i < j, asked[i].caller = asked[j].caller,
               asked[j].caller \in Stops
        PROVE  outcome'[i].told = "ok"
    <3>1. outcome[i].told = "ok"
      BY <2>1 DEF IInv, PhraseInv
    <3>2. i # n
      BY <1>0, <2>1 DEF IInv, PhraseInv, Requests
    <3> QED
      BY <1>4, <3>1, <3>2
  <2>2. ASSUME NEW d \in Stops, NEW m \in Requests, asked[m].caller = d
        PROVE  /\ call'[d].pc = "idle" => outcome'[m].told = "ok"
               /\ Waiting(d)' => m <= call'[d].n
    <3>0. d \in Callers
      BY RequestAssumption
    <3>1. CASE d # c
      <4>1. m # n
        BY <1>0, <2>2, <3>1
      <4> QED
        BY <1>3, <1>4, <2>2, <3>0, <3>1, <4>1 DEF IInv, PhraseInv
    <3>2. CASE d = c
      <4>1. call'[d].pc = "idle" => told = "ok"
        BY <1>2, <1>3, <3>2 DEF GoesOn
      <4>2. m # n => outcome[m].told = "ok"
        <5>1. m <= n
          BY <2>2, <3>2 DEF IInv, PhraseInv
        <5> QED
          BY <1>0, <2>2, <3>2, <5>1 DEF IInv, PhraseInv, Requests
      <4> QED
        BY <1>3, <1>4, <3>2, <4>1, <4>2
    <3> QED
      BY <3>1, <3>2
  <2> QED
    BY <1>1, <1>3, <2>1, <2>2 DEF PhraseInv
<1>10. NoAnswerMissed'
  BY <1>1, <1>3 DEF IInv, NoAnswerMissed
<1> QED
  BY <1>5, <1>6, <1>7, <1>8, <1>9, <1>10 DEF IInv

\* A new request: SequenceFree puts what is under way less than a round behind it.
LEMMA AskKeeps ==
    ASSUME IInv, NEW c \in Callers, Ask(c)
    PROVE  IInv'
<1> DEFINE n == Len(asked) + 1
           q == [caller |-> c, question |-> Plan[c][call[c].step + 1]]
           x == [call[c] EXCEPT !.pc = "first", !.step = @ + 1, !.n = n, !.sub = "open"]
<1>0. /\ call \in [Callers -> Call] /\ call[c] \in Call /\ ~Waiting(c)
      /\ asked \in Seq([caller: Callers, question: Questions])
      /\ outcome \in Seq([answer: Nat, told: {"nothing", "ok", "refused", "error", "timeout"}])
      /\ Len(outcome) = Len(asked) /\ Len(asked) \in Nat
      /\ call[c].chan = <<>> /\ Range(call[c].chan) = {} /\ call[c].step < Len(Plan[c])
  <2>1. ~Waiting(c) /\ call[c].step < Len(Plan[c])
    BY DEF Ask, Waiting
  <2>2. call[c].chan = <<>>
    BY <2>1 DEF IInv, CallInv
  <2>3. Range(call[c].chan) = {}
    BY <2>2 DEF Range
  <2>4. /\ call \in [Callers -> Call]
        /\ asked \in Seq([caller: Callers, question: Questions])
        /\ outcome \in Seq([answer: Nat, told: {"nothing", "ok", "refused", "error", "timeout"}])
        /\ Len(outcome) = Len(asked)
    BY DEF IInv, RequestTypeOK
  <2> QED
    BY <2>1, <2>2, <2>3, <2>4
<1>1. q \in [caller: Callers, question: Questions]
  <2>1. Plan[c] \in Seq(Range(Plan[c]))
    BY RequestAssumption
  <2>2. Range(Plan[c]) \subseteq Questions
    BY DEF Questions
  <2>3. call[c].step \in Nat
    BY <1>0 DEF Call
  <2>4. Plan[c][call[c].step + 1] \in Range(Plan[c])
    BY <1>0, <2>1, <2>3
  <2> QED
    BY <2>2, <2>4
<1>2. /\ x \in Call /\ x.n = n /\ x.pc = "first" /\ x.sub = "open" /\ x.chan = call[c].chan
  <2>1. call[c].step + 1 \in Nat /\ n \in Nat
    BY <1>0 DEF Call
  <2> HIDE DEF n
  <2>2. \A s \in Nat :
           LET y == [call[c] EXCEPT !.pc = "first", !.step = s, !.n = n, !.sub = "open"]
           IN  y \in Call /\ y.n = n /\ y.pc = "first" /\ y.sub = "open" /\ y.chan = call[c].chan
    BY <1>0, <2>1 DEF Call, Phases
  <2> QED
    BY <2>1, <2>2
<1>3. /\ call' = [call EXCEPT ![c] = x] /\ asked' = Append(asked, q) /\ outcome' = Append(outcome, Pending)
      /\ UNCHANGED <<open, queued, air, applied, arrived, dropped>>
  <2>2. call' = [call EXCEPT ![c] = x]
    BY DEF Ask
  <2> QED
    BY <2>2 DEF Ask, devices
<1> HIDE DEF x, q
<1>4. /\ asked' \in Seq([caller: Callers, question: Questions]) /\ Len(asked') = n
      /\ asked'[n] = q /\ \A m \in Requests : asked'[m] = asked[m]
  BY <1>0, <1>1, <1>3 DEF Requests
<1>5. /\ outcome' \in Seq([answer: Nat, told: {"nothing", "ok", "refused", "error", "timeout"}])
      /\ Len(outcome') = n
      /\ outcome'[n] = Pending /\ \A m \in Requests : outcome'[m] = outcome[m]
  <2>1. Pending \in [answer: Nat, told: {"nothing", "ok", "refused", "error", "timeout"}]
    BY DEF Pending
  <2> QED
    BY <1>0, <1>3, <2>1 DEF Requests
<1>6. /\ Requests' = Requests \cup {n} /\ n \notin Requests /\ n \in Nat
      /\ \A m \in Requests : m < n /\ m \in Nat
  BY <1>0, <1>4 DEF Requests
<1>7. /\ call' \in [Callers -> Call] /\ call'[c] = x /\ Waiting(c)'
      /\ \A d \in Callers \ {c} : call'[d] = call[d] /\ Waiting(d)' = Waiting(d)
  BY <1>0, <1>2, <1>3 DEF Waiting
<1>8. RequestTypeOK'
  <2>1. queued \subseteq (Requests \cup {n}) \X Nat
    BY DEF IInv, RequestTypeOK
  <2> QED
    BY <1>3, <1>4, <1>5, <1>6, <1>7, <2>1 DEF IInv, RequestTypeOK
<1>9. CallInv'
  <2>1. asked'[n].caller = c
    BY <1>4 DEF q
  <2> QED
    BY <1>2, <1>4, <1>6, <1>7, <2>1 DEF IInv, CallInv
<1>10. NearInv'
  <2>0. SeqMod \in Nat \ {0}
    BY RequestAssumption
  <2>1. \A cp \in queued : Near(cp[1], n)
    <3> SUFFICES ASSUME NEW cp \in queued PROVE Near(cp[1], n)
      OBVIOUS
    <3>1. cp[1] \in Requests
      BY DEF IInv, RequestTypeOK
    <3>2. cp[1] + SeqMod > n
      BY DEF Ask, SequenceFree
    <3> QED
      BY <1>6, <2>0, <3>1, <3>2 DEF Near
  <2>2. \A r \in air : Near(r.n, n)
    <3> SUFFICES ASSUME NEW r \in air PROVE Near(r.n, n)
      OBVIOUS
    <3>1. r.n \in Requests
      BY DEF IInv, RequestTypeOK
    <3>2. r.n + SeqMod > n
      BY DEF Ask, SequenceFree
    <3> QED
      BY <1>6, <2>0, <3>1, <3>2 DEF Near
  <2>3. \A d \in Callers : Waiting(d) => Near(call[d].n, n) /\ Near(n, call[d].n)
    <3> SUFFICES ASSUME NEW d \in Callers, Waiting(d) PROVE Near(call[d].n, n) /\ Near(n, call[d].n)
      OBVIOUS
    <3>1. call[d].n \in Requests
      BY DEF IInv, CallInv
    <3>2. call[d].n + SeqMod > n
      BY DEF Ask, SequenceFree
    <3> QED
      BY <1>6, <2>0, <3>1, <3>2 DEF Near
  <2>4. Near(n, n)
    BY <1>6, <2>0 DEF Near
  <2>5. Range(call'[c].chan) = {} /\ call'[c].n = n
    BY <1>0, <1>2, <1>7
  <2> QED
    BY <1>3, <1>7, <2>1, <2>2, <2>3, <2>4, <2>5 DEF IInv, NearInv
<1>11. DoneInv'
  <2>1. \A d \in Callers : call'[d].chan = call[d].chan
    BY <1>2, <1>7
  <2>2. \A m \in Requests' : outcome'[m].answer \in {0, m} /\ (outcome'[m].told = "ok" => Applied(m))
    BY <1>5, <1>6 DEF IInv, DoneInv, Pending
  <2>3. \A m : Applied(m)' = Applied(m)
    BY <1>3 DEF Applied
  <2> QED
    BY <1>3, <2>1, <2>2, <2>3 DEF IInv, DoneInv
<1>12. PhraseInv'
  <2>1. ASSUME NEW i \in Requests', NEW j \in Requests', i < j, asked'[i].caller = asked'[j].caller,
               asked'[j].caller \in Stops
        PROVE  outcome'[i].told = "ok"
    <3>1. i \in Requests
      BY <1>6, <2>1
    <3>2. CASE j \in Requests
      BY <1>4, <1>5, <2>1, <3>1, <3>2 DEF IInv, PhraseInv
    <3>3. CASE j = n
      <4>1. asked[i].caller = c /\ c \in Stops
        BY <1>4, <2>1, <3>1, <3>3 DEF q
      <4>2. call[c].pc = "idle"
        BY DEF Ask
      <4> QED
        BY <1>5, <3>1, <4>1, <4>2 DEF IInv, PhraseInv
    <3> QED
      BY <1>6, <3>2, <3>3
  <2>2. ASSUME NEW d \in Stops, NEW m \in Requests', asked'[m].caller = d
        PROVE  /\ call'[d].pc = "idle" => outcome'[m].told = "ok"
               /\ Waiting(d)' => m <= call'[d].n
    <3>0. d \in Callers
      BY RequestAssumption
    <3>1. CASE d # c
      <4>1. m \in Requests /\ asked[m].caller = d
        BY <1>4, <1>6, <2>2, <3>1 DEF q
      <4> QED
        BY <1>5, <1>7, <3>0, <3>1, <4>1 DEF IInv, PhraseInv
    <3>2. CASE d = c
      BY <1>2, <1>6, <1>7, <3>2
    <3> QED
      BY <3>1, <3>2
  <2> QED
    BY <2>1, <2>2 DEF PhraseInv
<1>13. NoAnswerMissed'
  <2>1. \A r \in arrived : r.n # n
    BY <1>6 DEF IInv, RequestTypeOK
  <2> QED
    BY <1>2, <1>3, <1>7, <2>1 DEF IInv, NoAnswerMissed
<1> QED
  BY <1>8, <1>9, <1>10, <1>11, <1>12, <1>13 DEF IInv

(***************************************************************************)
(* The connection, the NCP and the devices                                 *)
(***************************************************************************)
\* Close only marks subscriptions.
LEMMA CloseKeeps == ASSUME IInv, Close PROVE IInv'
<1>0. call \in [Callers -> Call]
  BY DEF IInv, RequestTypeOK
<1>1. /\ call' \in [Callers -> Call] /\ Requests' = Requests
      /\ \A d \in Callers : /\ call'[d].pc = call[d].pc /\ call'[d].n = call[d].n
                            /\ call'[d].chan = call[d].chan /\ Waiting(d)' = Waiting(d)
                            /\ call[d].sub = "none" => call'[d].sub = "none"
  <2>1. \A y \in Call : LET z == [y EXCEPT !.sub = "closed"]
                        IN  z \in Call /\ z.pc = y.pc /\ z.n = y.n /\ z.chan = y.chan
    BY DEF Call
  <2> QED
    BY <1>0, <2>1 DEF Close, Waiting, Requests
<1>2. UNCHANGED <<asked, queued, air, applied, arrived, dropped, outcome>>
  BY DEF Close, devices
<1>3. RequestTypeOK' /\ CallInv'
  BY <1>1, <1>2 DEF IInv, RequestTypeOK, CallInv
<1>4. NearInv' /\ NoAnswerMissed'
  BY <1>1, <1>2 DEF IInv, NearInv, NoAnswerMissed
<1>5. DoneInv'
  BY <1>1, <1>2 DEF IInv, DoneInv, Applied
<1>6. PhraseInv'
  BY <1>1, <1>2, RequestAssumption DEF IInv, PhraseInv
<1> QED
  BY <1>3, <1>4, <1>5, <1>6 DEF IInv

\* A copy is carried out, or not; a copy or an answer is lost.
LEMMA DevicesKeep ==
    ASSUME IInv, \/ \E cp \in queued : Handle(cp) \/ Expire(cp)
                 \/ \E r \in air : LoseAnswer(r)
    PROVE  IInv'
<1>1. UNCHANGED <<asked, call, arrived, dropped, outcome>>
  BY DEF Handle, Expire, LoseAnswer, history
<1>2. queued' \subseteq queued /\ applied \subseteq applied'
  BY DEF Handle, Expire, LoseAnswer, history
<1>3. ASSUME NEW r \in air', r \notin air
      PROVE  /\ r \in Answer /\ (r.status = "ok" => Applied(r.n)')
             /\ \E cp \in queued : cp[1] = r.n
  <2>1. PICK cp \in queued : Handle(cp)
    BY <1>3 DEF Expire, LoseAnswer, history
  <2>2. PICK a \in AnswersTo(Question(cp[1])) :
           /\ applied' = IF a.status = "ok" THEN applied \cup {cp} ELSE applied
           /\ r = [n |-> cp[1], k |-> cp[2], cmd |-> a.cmd, status |-> a.status]
    BY <1>3, <2>1 DEF Handle
  <2>3. a \in [cmd: {"want", "default"}, status: {"ok", "refused"}] /\ cp[1] \in Nat /\ cp[2] \in Nat
    BY DEF AnswersTo, IInv, RequestTypeOK, Requests
  <2>4. r \in Answer /\ r.n = cp[1] /\ r.status = a.status
    BY <2>2, <2>3 DEF Answer
  <2> QED
    BY <2>2, <2>4 DEF Applied
<1>4. RequestTypeOK'
  <2>1. Requests' = Requests
    BY <1>1 DEF Requests
  <2>2. air' \subseteq Answer /\ \A r \in air' : r.n \in Requests
    BY <1>3 DEF IInv, RequestTypeOK
  <2> QED
    BY <1>1, <1>2, <2>1, <2>2 DEF IInv, RequestTypeOK
<1>5. CallInv' /\ NoAnswerMissed'
  BY <1>1 DEF IInv, CallInv, NoAnswerMissed, Waiting, Requests
<1>6. NearInv'
  <2>1. \A d \in Callers : Waiting(d) => \A r \in air' : Near(r.n, call[d].n)
    BY <1>3 DEF IInv, NearInv
  <2> QED
    BY <1>1, <1>2, <2>1 DEF IInv, NearInv, Waiting
<1>7. DoneInv'
  <2>1. \A m : Applied(m) => Applied(m)'
    BY <1>2 DEF Applied
  <2>2. \A r \in air' : r.status = "ok" => Applied(r.n)'
    BY <1>3, <2>1 DEF IInv, DoneInv
  <2>3. \A c \in Callers : \A r \in Range(call[c].chan) : r.n # 0 /\ r.status = "ok" => Applied(r.n)'
    BY <2>1 DEF IInv, DoneInv
  <2>4. \A n \in Requests : outcome[n].answer \in {0, n} /\ (outcome[n].told = "ok" => Applied(n)')
    BY <2>1 DEF IInv, DoneInv
  <2> QED
    BY <1>1, <2>2, <2>3, <2>4 DEF DoneInv, Requests
<1>8. PhraseInv'
  BY <1>1 DEF IInv, PhraseInv, Waiting, Requests
<1> QED
  BY <1>4, <1>5, <1>6, <1>7, <1>8 DEF IInv

\* A message goes to every subscription with room, and is counted as lost to the others.
LEMMA RouteKeeps ==
    ASSUME IInv, NEW r \in Answer, Route(r), r.n = 0 \/ r \in air, air' \subseteq air,
           arrived' \subseteq arrived \cup {r}, r \in arrived' => r.n \in Requests,
           UNCHANGED <<asked, queued, applied, outcome>>
    PROVE  IInv'
<1>0. call \in [Callers -> Call] /\ Requests' = Requests
  BY DEF IInv, RequestTypeOK, Requests
<1>1. /\ call' \in [Callers -> Call]
      /\ \A d \in Callers :
            /\ call'[d].pc = call[d].pc /\ call'[d].n = call[d].n /\ call'[d].sub = call[d].sub
            /\ Waiting(d)' = Waiting(d)
            /\ IF Room(d) THEN Range(call'[d].chan) = Range(call[d].chan) \cup {r}
                          ELSE call'[d].chan = call[d].chan
  <2>1. \A y \in Call : LET z == [y EXCEPT !.chan = Append(@, r)]
                        IN  /\ z \in Call /\ z.pc = y.pc /\ z.n = y.n /\ z.sub = y.sub
                            /\ Range(z.chan) = Range(y.chan) \cup {r}
    BY RangeAppend DEF Call
  <2>2. call' = [d \in Callers |-> IF Room(d) THEN [call[d] EXCEPT !.chan = Append(@, r)] ELSE call[d]]
    BY DEF Route
  <2>3. ASSUME NEW d \in Callers
        PROVE  /\ call'[d] \in Call
               /\ call'[d].pc = call[d].pc /\ call'[d].n = call[d].n /\ call'[d].sub = call[d].sub
               /\ IF Room(d) THEN Range(call'[d].chan) = Range(call[d].chan) \cup {r}
                             ELSE call'[d].chan = call[d].chan
    <3>1. call[d] \in Call
      BY <1>0
    <3>2. CASE Room(d)
      <4>1. call'[d] = [call[d] EXCEPT !.chan = Append(@, r)]
        BY <2>2, <3>2
      <4> QED
        BY <2>1, <3>1, <3>2, <4>1
    <3>3. CASE ~Room(d)
      BY <2>2, <3>1, <3>3
    <3> QED
      BY <3>2, <3>3
  <2>4. \A d \in Callers : Waiting(d)' = Waiting(d)
    BY <2>3 DEF Waiting
  <2>5. DOMAIN call' = Callers /\ call' = [d \in Callers |-> call'[d]]
    BY <2>2
  <2> QED
    BY <2>3, <2>4, <2>5
<1>2. \A d \in Callers : \A x \in Range(call'[d].chan) : x = r \/ x \in Range(call[d].chan)
  BY <1>1
<1>3. RequestTypeOK'
  BY <1>0, <1>1 DEF IInv, RequestTypeOK
<1>4. CallInv'
  BY <1>0, <1>1 DEF IInv, CallInv, Room
<1>5. NearInv'
  <2>1. \A d \in Callers : Waiting(d) /\ r.n # 0 => Near(r.n, call[d].n)
    BY DEF IInv, NearInv
  <2> QED
    BY <1>1, <1>2, <2>1 DEF IInv, NearInv
<1>6. DoneInv'
  <2>1. r.n # 0 /\ r.status = "ok" => Applied(r.n)
    BY DEF IInv, DoneInv
  <2>2. \A m : Applied(m)' = Applied(m)
    BY DEF Applied
  <2>3. \A d \in Callers : \A x \in Range(call'[d].chan) : x.n # 0 /\ x.status = "ok" => Applied(x.n)
    BY <1>2, <2>1 DEF IInv, DoneInv
  <2> QED
    BY <1>0, <2>2, <2>3 DEF IInv, DoneInv
<1>7. PhraseInv'
  BY <1>0, <1>1, RequestAssumption DEF IInv, PhraseInv
<1>8. NoAnswerMissed'
  <2> SUFFICES ASSUME NEW d \in Callers, NEW x \in arrived', Waiting(d), x.n = call[d].n
               PROVE  x \in Range(call'[d].chan) \/ <<d, x>> \in dropped'
    BY <1>1 DEF NoAnswerMissed
  <2>1. dropped \subseteq dropped' /\ (call[d].n = r.n /\ ~Room(d) => <<d, r>> \in dropped')
    BY DEF Route
  <2>2. CASE x \in arrived
    BY <1>1, <2>1, <2>2 DEF IInv, NoAnswerMissed
  <2>3. CASE x = r
    BY <1>1, <2>1, <2>3
  <2> QED
    BY <2>2, <2>3
<1> QED
  BY <1>3, <1>4, <1>5, <1>6, <1>7, <1>8 DEF IInv

\* The arrival of an answer keeps the invariant.
LEMMA DeliverKeeps == ASSUME IInv, NEW r \in air, Deliver(r) PROVE IInv'
<1>1. r \in Answer /\ r.n \in Requests
  BY DEF IInv, RequestTypeOK
<1> QED
  BY <1>1, RouteKeeps DEF Deliver

\* The arrival of a report keeps the invariant.
LEMMA ReportKeeps == ASSUME IInv, DeliverReport PROVE IInv'
<1>1. Report \in Answer /\ Report.n = 0 /\ Report \notin arrived
  BY DEF Report, Answer, IInv, RequestTypeOK, Requests
<1> QED
  BY <1>1, RouteKeeps DEF DeliverReport, devices

\* The counters of a call take any value and change nothing else.
LEMMA Counted ==
    ASSUME NEW y \in Call, NEW m \in Nat, NEW k \in Nat
    PROVE  /\ LET z == [y EXCEPT !.sent = k]
              IN  z \in Call /\ z.pc = y.pc /\ z.n = y.n /\ z.sub = y.sub /\ z.chan = y.chan
           /\ LET z == [y EXCEPT !.pc = "wait", !.attempts = m]
              IN  z \in Call /\ z.pc = "wait" /\ z.n = y.n /\ z.sub = y.sub /\ z.chan = y.chan
           /\ LET z == [y EXCEPT !.pc = "wait", !.attempts = m, !.sent = m]
              IN  z \in Call /\ z.pc = "wait" /\ z.n = y.n /\ z.sub = y.sub /\ z.chan = y.chan
  BY DEF Call, Phases

\* Every step of a caller keeps the invariant.
LEMMA CallerKeeps == ASSUME IInv, NEW c \in Callers, CallerStep(c) PROVE IInv'
<1>0. /\ call \in [Callers -> Call] /\ call[c] \in Call
      /\ call[c].attempts + 1 \in Nat /\ call[c].sent + 1 \in Nat
  BY DEF IInv, RequestTypeOK, Call
<1>1. ASSUME Enqueue(c) PROVE IInv'
  <2> DEFINE x == [call[c] EXCEPT !.sent = @ + 1]
  <2>1. /\ x \in Call /\ x.pc = call[c].pc /\ x.n = call[c].n /\ x.sub = call[c].sub /\ x.chan = call[c].chan
    <3>1. PICK y \in Call : y = call[c]
      BY <1>0
    <3>2. PICK k \in Nat : k = call[c].sent + 1
      BY <1>0
    <3>3. x = [y EXCEPT !.sent = k]
      BY <3>1, <3>2
    <3>4. LET z == [y EXCEPT !.sent = k]
          IN  z \in Call /\ z.pc = y.pc /\ z.n = y.n /\ z.sub = y.sub /\ z.chan = y.chan
      BY Counted
    <3> HIDE DEF x
    <3> QED
      BY <3>1, <3>3, <3>4
  <2>2. /\ call' = [call EXCEPT ![c] = x] /\ Waiting(c)
        /\ call[c].pc \in {"first", "resend"}
    BY <1>0, <1>1 DEF Enqueue, Sending, Waiting
  <2> HIDE DEF x
  <2>3. /\ queued' = queued \cup {<<call[c].n, call[c].attempts + 1>>}
        /\ UNCHANGED <<asked, air, arrived, dropped, applied, outcome>>
    BY <1>1 DEF Enqueue, history
  <2> QED
    BY <1>0, <2>1, <2>2, <2>3, Moving
<1>2. ASSUME NEW x \in Call, x.pc \in {"wait", "resend"}, x.n = call[c].n, x.sub = call[c].sub,
             x.chan = call[c].chan, Waiting(c), call' = [call EXCEPT ![c] = x],
             UNCHANGED <<asked, queued, air, arrived, dropped, applied, outcome>>
      PROVE  IInv'
  BY <1>2, Moving
<1>3. ASSUME Sent(c) PROVE IInv'
  <2> DEFINE x == [call[c] EXCEPT !.pc = "wait", !.attempts = @ + 1]
  <2>1. x \in Call /\ x.pc = "wait" /\ x.n = call[c].n /\ x.sub = call[c].sub /\ x.chan = call[c].chan
    BY <1>0, Counted
  <2>2. call' = [call EXCEPT ![c] = x]
    BY <1>3 DEF Sent
  <2> HIDE DEF x
  <2> QED
    BY <1>2, <1>3, <2>1, <2>2 DEF Sent, Sending, Waiting, devices
<1>4. ASSUME ResendFails(c) PROVE IInv'
  <2> DEFINE x == [call[c] EXCEPT !.pc = "wait", !.attempts = @ + 1, !.sent = call[c].attempts + 1]
  <2>1. x \in Call /\ x.pc = "wait" /\ x.n = call[c].n /\ x.sub = call[c].sub /\ x.chan = call[c].chan
    BY <1>0, Counted
  <2>2. call' = [call EXCEPT ![c] = x]
    BY <1>4 DEF ResendFails
  <2> HIDE DEF x
  <2> QED
    BY <1>2, <1>4, <2>1, <2>2 DEF ResendFails, Waiting, devices
<1>5. ASSUME ResendTick(c) PROVE IInv'
  <2> DEFINE x == [call[c] EXCEPT !.pc = "resend"]
  <2>1. x \in Call /\ x.pc = "resend" /\ x.n = call[c].n /\ x.sub = call[c].sub /\ x.chan = call[c].chan
    BY <1>0 DEF Call, Phases
  <2>2. call' = [call EXCEPT ![c] = x]
    BY <1>0, <1>5 DEF ResendTick
  <2> HIDE DEF x
  <2> QED
    BY <1>2, <1>5, <2>1, <2>2 DEF ResendTick, Waiting, devices
<1>6. ASSUME ReplyMatches(c) PROVE IInv'
  <2> DEFINE r == Head(call[c].chan)
             n == call[c].n
  <2>1. Waiting(c) /\ call[c].chan # <<>> /\ call[c].chan \in Seq(Answer) /\ Match(r, n) /\ Return(c, r.n, Told(r, n))
    BY <1>0, <1>6 DEF ReplyMatches, Waiting, Call
  <2>2. r \in Answer /\ r \in Range(call[c].chan)
    BY <2>1, RangeTail
  <2>3. n \in Requests /\ n \in Nat /\ r.n \in Nat
    BY <2>1, <2>2 DEF IInv, CallInv, Requests, Answer
  <2>4. Near(r.n, n)
    BY <2>1, <2>2 DEF IInv, NearInv, Match
  <2>5. r.n = n
    BY <2>1, <2>3, <2>4, NearAndEqual DEF Match
  <2>6. Told(r, n) \in {"ok", "refused"} /\ (Told(r, n) = "ok" => Applied(n))
    BY <2>1, <2>2, <2>5 DEF Told, IInv, DoneInv, Match
  <2> HIDE DEF r
  <2> QED
    BY <2>1, <2>5, <2>6, ReturnKeeps
<1>7. ASSUME Waiting(c), NEW told \in {"error", "timeout"}, Return(c, 0, told) PROVE IInv'
  BY <1>7, ReturnKeeps
<1>8. ASSUME FirstSendFails(c) \/ WaitClosed(c) \/ WaitExpires(c) PROVE IInv'
  BY <1>7, <1>8 DEF FirstSendFails, WaitClosed, WaitExpires, Waiting
<1> QED
  BY <1>1, <1>3, <1>4, <1>5, <1>6, <1>8, AskKeeps, IgnoredKeeps DEF CallerStep

\* Every step keeps the invariant.
LEMMA StepIInv == IInv /\ [Next]_vars => IInv'
<1> SUFFICES ASSUME IInv, [Next]_vars PROVE IInv'
  OBVIOUS
<1>1. CASE UNCHANGED vars
  BY <1>1 DEF vars, IInv, RequestTypeOK, CallInv, NearInv, DoneInv, PhraseInv, NoAnswerMissed,
              Requests, Waiting, Applied
<1>2. CASE \E c \in Callers : CallerStep(c)
  BY <1>2, CallerKeeps
<1>3. CASE \/ \E cp \in queued : Handle(cp) \/ Expire(cp)
           \/ \E r \in air : LoseAnswer(r)
  BY <1>3, DevicesKeep
<1>4. CASE \E r \in air : Deliver(r)
  BY <1>4, DeliverKeeps
<1> QED
  BY <1>1, <1>2, <1>3, <1>4, CloseKeeps, ReportKeeps DEF Next, Finished

\* The invariant holds in every reachable state.
LEMMA SpecIInv == Spec => []IInv
  BY InitIInv, StepIInv, PTL DEF Spec

\* A request returns the answer to the question it asked, or none, and hears it whenever it
\* arrives (Match, awaitReply, route): for any callers and phrases, any number of copies, and a
\* modulus no larger than the requests under way allow (SequenceFree).
THEOREM OwnAnswerHolds == Spec => []OwnAnswer
<1>1. IInv => OwnAnswer
  BY DEF IInv, DoneInv, OwnAnswer
<1> QED
  BY <1>1, SpecIInv, PTL

\* Apply carries a phrase out in the order it was said: no device acts on a request before
\* every earlier one of the phrase was acted on, however late copies and answers are.
THEOREM InOrderHolds == Spec => []InOrder
<1>1. IInv => InOrder
  BY DEF IInv, PhraseInv, DoneInv, InOrder
<1> QED
  BY <1>1, SpecIInv, PTL

(***************************************************************************)
(* The clock of the resends                                                *)
(***************************************************************************)
USE TimerAssumption DEF TimerAssumption

\* One more failure gives the resends one more interval.
LEMMA OneMore ==
    ASSUME NEW n \in Nat
    PROVE  /\ (n + 1) * Interval \in Nat /\ Interval <= (n + 1) * Interval
           /\ (n + 1 + 1) * Interval = (n + 1) * Interval + Interval
  <1> DEFINE m == n * Interval
  <1>1. m \in Nat
    OBVIOUS
  <1>2. (n + 1) * Interval = m + Interval /\ (n + 1 + 1) * Interval = m + Interval + Interval
    OBVIOUS
  <1> QED BY <1>1, <1>2

\* No more failures than are tolerated: no later than the last of them allows.
LEMMA Bounded ==
    ASSUME NEW n \in Nat, n <= Tolerated
    PROVE  (n + 1) * Interval <= (Tolerated + 1) * Interval
  <1>1. PICK d \in Nat : Tolerated = n + d
    <2>1. Tolerated - n \in Nat /\ Tolerated = n + (Tolerated - n)
      OBVIOUS
    <2> QED BY <2>1
  <1>2. d * Interval \in Nat
    OBVIOUS
  <1>3. (n + d + 1) * Interval = (n + 1) * Interval + d * Interval
    OBVIOUS
  <1>4. (n + 1) * Interval \in Nat
    BY OneMore
  <1> QED BY <1>1, <1>2, <1>3, <1>4

\* The clock starts in TimerInv.
LEMMA TimerStarts == TimerInit => TimerInv
  <1> SUFFICES ASSUME TimerInit PROVE TimerInv
    OBVIOUS
  <1>1. TimerTypeOK
    BY DEF TimerInit, TimerTypeOK
  <1>2. loop = "first" /\ ~tick /\ ~took /\ now = 0 /\ since = 0 /\ copied = 0
    BY DEF TimerInit
  <1> QED BY <1>1, <1>2 DEF TimerInv, Sends, Ticking

\* TimerInv says nothing of what is no variable of the clock.
LEMMA TimerStutters == TimerInv /\ UNCHANGED timerVars => TimerInv'
  BY DEF TimerInv, TimerTypeOK, Sends, Ticking, Due, timerVars

\* No step leaves TimerInv.
LEMMA TimerSteps == TimerInv /\ [TimerNext]_timerVars => TimerInv'
  <1> SUFFICES ASSUME TimerInv, [TimerNext]_timerVars PROVE TimerInv'
    OBVIOUS
  <1> USE DEF TimerInv, TimerTypeOK, Sends, Ticking
  <1> DEFINE lateness == (failed + 1) * Interval
  <1>0. lateness \in Nat /\ Interval <= lateness /\ (failed + 1 + 1) * Interval = lateness + Interval
    BY OneMore
  <1>1. CASE Advance
    BY <1>1 DEF Advance, Due
  <1>2. CASE Fires
    BY <1>2 DEF Fires, Following, Due
  <1>3. CASE Resend
    <2>1. loop = "wait" /\ tick /\ loop' = "send" /\ since' = now /\ tick' = FALSE /\ took' = FALSE
      BY <1>3 DEF Resend
    <2>2. UNCHANGED <<now, next, copied, failed, base>> /\ Due' = Due
      BY <1>3 DEF Resend, Due
    <2>3. TimerTypeOK'
      BY <2>1, <2>2
    <2>4. since' <= Due' /\ next' <= since' + Interval
      BY <2>1, <2>2
    <2> QED BY <2>1, <2>2, <2>3, <2>4
  <1>4. CASE CopyTaken
    BY <1>4 DEF CopyTaken, Due
  <1>5. CASE FirstSent
    <2>1. next' <= Due'
      BY <1>0, <1>5 DEF FirstSent, Following, Due
    <2> QED BY <1>5, <2>1 DEF FirstSent, Following
  <1>6. CASE SendReturns
    <2>1. Due' = since + Interval
      BY <1>6 DEF SendReturns, Due
    <2> QED BY <1>6, <2>1 DEF SendReturns
  <1>7. CASE FirstFails
    BY <1>7 DEF FirstFails
  <1>8. CASE SendFails
    <2>1. Due' = Due + Interval /\ Due \in Nat
      BY <1>0, <1>8 DEF SendFails, Due
    <2> QED BY <1>8, <2>1 DEF SendFails
  <1>9. CASE Ends
    BY <1>9 DEF Ends
  <1>10. CASE UNCHANGED timerVars
    BY <1>10, TimerStutters
  <1> QED BY <1>1, <1>2, <1>3, <1>4, <1>5, <1>6, <1>7, <1>8, <1>9, <1>10 DEF TimerNext

\* While TimerInv holds and no more resends failed than are tolerated, the last copy is fresh.
LEMMA TimerSafe == TimerInv => CopyAlive
  <1> SUFFICES ASSUME TimerInv, Ticking, failed <= Tolerated PROVE now <= copied + Patience
    BY DEF CopyAlive
  <1> USE DEF TimerInv, TimerTypeOK, Sends, Ticking
  <1>1. (failed + 1) * Interval <= (Tolerated + 1) * Interval
    BY Bounded
  <1>2. (failed + 1) * Interval \in Nat /\ (Tolerated + 1) * Interval \in Nat
    BY OneMore
  <1>3. Due <= copied + MaxSend + (Tolerated + 1) * Interval /\ Due \in Nat
    BY <1>1, <1>2 DEF Due
  <1>4. now <= Due + MaxSend
    BY <1>3
  <1> QED BY <1>2, <1>3, <1>4

\* Until a request is answered or given up the NCP holds a copy it has not thrown away,
\* whatever the lengths of its sends and with as many failures in a row as are tolerated
\* (awaitReply, ResendInterval).
THEOREM CopyStaysAlive == TimerSpec => []CopyAlive
  <1>1. TimerInv /\ [TimerNext]_timerVars => TimerInv'
    BY TimerSteps
  <1> QED BY TimerStarts, <1>1, TimerSafe, PTL DEF TimerSpec

=============================================================================
