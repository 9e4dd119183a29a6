------------------------- MODULE CoordinatorProofs --------------------------
(***************************************************************************)
(* One Readings loop at a time, and everything it recorded is in the file   *)
(* when the Close that does the work has returned nil: for any number of    *)
(* calls of Readings, Joins and Close, any capacity and any number of       *)
(* messages.                                                                *)
(***************************************************************************)
EXTENDS Coordinator, FiniteSetTheorems, TLAPS

USE CoordinatorAssumption DEF CoordinatorAssumption

Loop == [pc: {"idle", "unused", "refused", "starting", "select", "sending", "saving",
              "ending", "unsubscribing", "ended"},
         msgs: Nat, sub: {"none", "open", "closed"}, left: Nat, pending: Nat, out: Nat,
         outClosed: BOOLEAN, done: BOOLEAN, ctxDone: BOOLEAN, reading: BOOLEAN]

Closer == [pc: {"idle", "unused", "nothing", "conn", "wait", "save", "saved", "failed"},
           waitFor: Loops \cup {None}]

TypeOK ==
    /\ closed \in BOOLEAN /\ readingsActive \in BOOLEAN /\ unsaved \in BOOLEAN
    /\ readingsDone \in Loops \cup {None}
    /\ loop \in [Loops -> Loop]
    /\ closer \in [Closers -> Closer]

\* A loop from the call that started it to its deferred functions.
Busy(l) == loop[l].pc \in {"starting", "select", "sending", "saving", "ending"}

\* The fields under c.mu name the loop there is, whose done is open.
LoopInv ==
    /\ readingsActive <=> readingsDone # None
    /\ \A l \in Loops :
          /\ Busy(l) <=> readingsDone = l
          /\ Busy(l) \/ loop[l].pc = "idle" => ~loop[l].done
          /\ loop[l].pc = "sending" => loop[l].pending > 0

\* The Close that found c.closed unset, from then on.
Closes(k) == closer[k].pc \in {"conn", "wait", "save", "saved", "failed"}

\* One Close does the work; it waits for whatever loop there still is, and there is none
\* when it saves.
CloseInv ==
    /\ \A j, k \in Closers : Closes(j) /\ Closes(k) => j = k
    /\ \A k \in Closers : Closes(k) =>
          /\ closed
          /\ closer[k].pc \in {"conn", "wait"} =>
                \A l \in Loops : Busy(l) => closer[k].waitFor = l
          /\ closer[k].pc \in {"save", "saved", "failed"} => \A l \in Loops : ~Busy(l)

IInv == TypeOK /\ LoopInv /\ CloseInv /\ SavedAtClose

\* A new coordinator satisfies the invariant.
LEMMA InitIInv == Init => IInv
<1> SUFFICES ASSUME Init PROVE IInv
  OBVIOUS
<1>1. PICK mix \in Mixes :
        /\ loop = [l \in Loops |-> [IdleLoop EXCEPT !.pc = IF l \in mix THEN "idle" ELSE "unused"]]
        /\ closer = [k \in Closers |->
                       [pc |-> IF k \in mix THEN "idle" ELSE "unused", waitFor |-> None]]
  BY DEF Init
<1>2. \A l \in Loops : loop[l] \in Loop /\ loop[l].pc \in {"idle", "unused"} /\ ~loop[l].done
  BY <1>1 DEF IdleLoop, Loop
<1>3. \A k \in Closers : closer[k] \in Closer /\ closer[k].pc \in {"idle", "unused"}
  BY <1>1 DEF Closer
<1>4. TypeOK
  BY <1>1, <1>2, <1>3 DEF Init, TypeOK
<1>5. LoopInv
  BY <1>2 DEF Init, LoopInv, Busy
<1>6. CloseInv /\ SavedAtClose
  BY <1>3 DEF CloseInv, SavedAtClose, Closes
<1> QED
  BY <1>4, <1>5, <1>6 DEF IInv

\* A loop that moves on by itself, without starting, ending or recording, disturbs nothing.
LEMMA MovesOn ==
    ASSUME IInv, UNCHANGED coordinator, unsaved' \in {FALSE, unsaved}, loop' \in [Loops -> Loop],
           \A l \in Loops :
              /\ Busy(l)' <=> Busy(l)
              /\ loop'[l].pc = "idle" => loop[l].pc = "idle"
              /\ loop'[l].done = loop[l].done
              /\ loop'[l].pc = "sending" => loop'[l].pending > 0
    PROVE  IInv'
<1> USE DEF IInv, coordinator
<1>1. TypeOK'
  BY DEF TypeOK
<1>2. LoopInv'
  BY DEF LoopInv
<1>3. CloseInv'
  BY DEF CloseInv, Closes
<1>4. SavedAtClose'
  BY DEF SavedAtClose
<1> QED
  BY <1>1, <1>2, <1>3, <1>4

\* The steps of one Readings loop.
LEMMA LoopSteps ==
    ASSUME IInv, NEW l \in Loops,
           \/ Readings(l) \/ LoopStep(l) \/ DeliverReport(l)
           \/ ConsumeReading(l) \/ StopReading(l) \/ CancelContext(l)
    PROVE  IInv'
<1> USE DEF IInv
<1>0. loop \in [Loops -> Loop] /\ loop[l] \in Loop
  BY DEF TypeOK
<1>1. CASE Readings(l)
  <2>1. CASE MayStart
    <3>1. /\ ~closed /\ readingsDone = None /\ readingsDone' = l /\ readingsActive'
          /\ loop' = [loop EXCEPT ![l].pc = "starting", ![l].sub = "open"]
          /\ UNCHANGED <<closed, closer, unsaved>> /\ loop[l].pc = "idle"
      BY <1>1, <2>1 DEF Readings, MayStart, LoopInv
    <3>2. /\ loop' \in [Loops -> Loop] /\ loop'[l].pc = "starting" /\ loop'[l].done = loop[l].done
          /\ \A m \in Loops \ {l} : loop'[m] = loop[m]
      BY <1>0, <3>1 DEF Loop
    <3>3. TypeOK'
      BY <3>1, <3>2 DEF TypeOK
    <3>4. LoopInv'
      BY <3>1, <3>2 DEF LoopInv, Busy
    <3>5. CloseInv' /\ SavedAtClose'
      BY <3>1 DEF CloseInv, SavedAtClose, Closes
    <3> QED
      BY <3>3, <3>4, <3>5
  <2>2. CASE ~MayStart
    <3>1. /\ loop' = [loop EXCEPT ![l].pc = "refused", ![l].outClosed = TRUE]
          /\ UNCHANGED <<coordinator, unsaved>> /\ loop[l].pc = "idle"
      BY <1>1, <2>2 DEF Readings, coordinator
    <3>2. /\ loop' \in [Loops -> Loop] /\ loop'[l].pc = "refused" /\ loop'[l].done = loop[l].done
          /\ \A m \in Loops \ {l} : loop'[m] = loop[m]
      BY <1>0, <3>1 DEF Loop
    <3> QED
      BY <3>1, <3>2, MovesOn DEF Busy, LoopInv
  <2> QED
    BY <2>1, <2>2
<1>2. CASE LoopTake(l)
  <2>1. PICK n \in 0..MaxReadings :
          /\ loop' = [loop EXCEPT ![l].msgs = @ - 1, ![l].pending = n,
                                  ![l].pc = IF n = 0 THEN "select" ELSE "sending"]
          /\ unsaved' = (unsaved \/ n > 0)
    BY <1>2 DEF LoopTake
  <2>2. /\ loop[l].pc = "select" /\ loop[l].msgs > 0 /\ UNCHANGED coordinator
    BY <1>2 DEF LoopTake
  <2>3. n \in Nat /\ unsaved' \in BOOLEAN
    BY <2>1
  <2>4. /\ loop' \in [Loops -> Loop] /\ loop'[l].done = loop[l].done
        /\ loop'[l].pc \in {"select", "sending"}
        /\ loop'[l].pc = "sending" => loop'[l].pending > 0
        /\ \A m \in Loops \ {l} : loop'[m] = loop[m]
    <3> DEFINE then == IF n = 0 THEN "select" ELSE "sending"
               rest == loop[l].msgs - 1
               taken == [loop[l] EXCEPT !.msgs = rest, !.pending = n, !.pc = then]
    <3>0. rest \in Nat /\ then \in {"select", "sending"} /\ (then = "sending" => n > 0)
      BY <1>0, <2>2, <2>3 DEF Loop
    <3>2. loop' = [loop EXCEPT ![l] = taken]
      BY <1>0, <2>1 DEF Loop
    <3> HIDE DEF then, rest
    <3>1. taken \in Loop /\ taken.done = loop[l].done /\ taken.pending = n /\ taken.pc = then
      BY <1>0, <2>3, <3>0 DEF Loop
    <3> HIDE DEF taken
    <3>3. loop'[l] = taken /\ \A m \in Loops \ {l} : loop'[m] = loop[m]
      BY <1>0, <3>2
    <3> QED
      BY <1>0, <2>3, <3>0, <3>1, <3>2, <3>3
  <2>5. TypeOK'
    BY <2>2, <2>3, <2>4 DEF TypeOK, coordinator
  <2>6. LoopInv'
    BY <2>2, <2>4 DEF LoopInv, Busy, coordinator
  <2>7. CloseInv'
    BY <2>2, <2>4 DEF CloseInv, Closes, Busy, coordinator
  <2>8. \A k \in Closers : closer[k].pc # "saved"
    BY <2>2 DEF CloseInv, Closes, Busy
  <2>9. SavedAtClose'
    BY <2>2, <2>8 DEF SavedAtClose, coordinator
  <2> QED
    BY <2>5, <2>6, <2>7, <2>9
<1>3. CASE LoopEnd(l)
  <2>1. /\ loop[l].pc = "ending" /\ readingsDone = l /\ readingsDone' = None /\ readingsActive' = FALSE
        /\ loop' = [loop EXCEPT ![l].pc = "unsubscribing", ![l].done = TRUE]
        /\ UNCHANGED <<closed, closer, unsaved>>
    BY <1>3 DEF LoopEnd, LoopInv, Busy
  <2>2. /\ loop' \in [Loops -> Loop] /\ loop'[l].pc = "unsubscribing"
        /\ \A m \in Loops \ {l} : loop'[m] = loop[m]
    BY <1>0, <2>1 DEF Loop
  <2>3. TypeOK'
    BY <2>1, <2>2 DEF TypeOK
  <2>4. \A m \in Loops : ~Busy(m)'
    BY <2>1, <2>2 DEF LoopInv, Busy
  <2>5. LoopInv'
    BY <2>1, <2>2, <2>4 DEF LoopInv, Busy
  <2>6. CloseInv' /\ SavedAtClose'
    BY <2>1, <2>4 DEF CloseInv, SavedAtClose, Closes
  <2> QED
    BY <2>3, <2>5, <2>6
<1>4. CASE LoopSend(l)
  <2>1. /\ loop[l].pc = "sending" /\ loop[l].pending > 0 /\ UNCHANGED <<coordinator, unsaved>>
        /\ loop' = [loop EXCEPT ![l].out = @ + 1, ![l].pending = @ - 1,
                                ![l].pc = IF loop[l].pending = 1 THEN "select" ELSE "sending"]
    BY <1>4 DEF LoopSend, LoopInv
  <2>2. /\ loop' \in [Loops -> Loop] /\ loop'[l].done = loop[l].done
        /\ loop'[l].pc \in {"select", "sending"}
        /\ loop'[l].pc = "sending" => loop'[l].pending > 0
        /\ \A m \in Loops \ {l} : loop'[m] = loop[m]
    BY <1>0, <2>1 DEF Loop
  <2> QED
    BY <2>1, <2>2, MovesOn DEF Busy, LoopInv
<1>5. CASE LoopStart(l) \/ LoopCancelled(l) \/ LoopSave(l) \/ LoopClosed(l) \/ LoopUnsubscribe(l)
  <2>1. /\ UNCHANGED coordinator /\ unsaved' \in {FALSE, unsaved}
        /\ loop' \in [Loops -> Loop] /\ loop'[l].done = loop[l].done
        /\ \/ loop[l].pc \in {"starting", "select", "sending", "saving"}
                /\ loop'[l].pc \in {"select", "saving", "ending"}
           \/ loop[l].pc = "unsubscribing" /\ loop'[l].pc = "ended"
        /\ \A m \in Loops \ {l} : loop'[m] = loop[m]
    <3>1. CASE LoopStart(l)
      BY <1>0, <3>1 DEF LoopStart, Loop
    <3>2. CASE LoopCancelled(l)
      BY <1>0, <3>2 DEF LoopCancelled, Loop
    <3>3. CASE LoopSave(l)
      BY <1>0, <3>3 DEF LoopSave, Loop
    <3>4. CASE LoopClosed(l)
      BY <1>0, <3>4 DEF LoopClosed, Loop
    <3>5. CASE LoopUnsubscribe(l)
      BY <1>0, <3>5 DEF LoopUnsubscribe, Loop
    <3> QED
      BY <1>5, <3>1, <3>2, <3>3, <3>4, <3>5
  <2> QED
    BY <2>1, MovesOn DEF Busy, LoopInv
<1>6. CASE DeliverReport(l) \/ ConsumeReading(l) \/ StopReading(l) \/ CancelContext(l)
  <2>1. /\ UNCHANGED <<coordinator, unsaved>> /\ loop' \in [Loops -> Loop]
        /\ loop'[l].pc = loop[l].pc /\ loop'[l].done = loop[l].done
        /\ loop'[l].pending = loop[l].pending
        /\ \A m \in Loops \ {l} : loop'[m] = loop[m]
    <3>1. CASE DeliverReport(l)
      <4> DEFINE held == IF loop[l].msgs < Cap THEN loop[l].msgs + 1 ELSE loop[l].msgs
                 rest == loop[l].left - 1
                 told == [loop[l] EXCEPT !.left = rest, !.msgs = held]
      <4>0. held \in Nat
        BY <1>0 DEF Loop
      <4>1. loop' = [loop EXCEPT ![l] = told]
        BY <1>0, <3>1 DEF DeliverReport, Loop
      <4>2. loop[l].left > 0 /\ UNCHANGED <<coordinator, unsaved>>
        BY <3>1 DEF DeliverReport
      <4>4. rest \in Nat
        BY <1>0, <4>2 DEF Loop
      <4> HIDE DEF held, rest
      <4>3. /\ told \in Loop /\ told.pc = loop[l].pc /\ told.done = loop[l].done
            /\ told.pending = loop[l].pending
        BY <1>0, <4>0, <4>4 DEF Loop
      <4> HIDE DEF told
      <4> QED
        BY <1>0, <4>1, <4>2, <4>3
    <3>2. CASE ConsumeReading(l)
      BY <1>0, <3>2 DEF ConsumeReading, Loop
    <3>3. CASE StopReading(l)
      BY <1>0, <3>3 DEF StopReading, Loop
    <3>4. CASE CancelContext(l)
      BY <1>0, <3>4 DEF CancelContext, Loop
    <3> QED
      BY <1>6, <3>1, <3>2, <3>3, <3>4
  <2> QED
    BY <2>1, MovesOn DEF Busy, LoopInv
<1> QED
  BY <1>1, <1>2, <1>3, <1>4, <1>5, <1>6 DEF LoopStep

\* The steps of a watch leave loops and closers alone, and record nothing that is not saved.
LEMMA WatchSteps ==
    ASSUME IInv, NEW w \in Watchers,
           \/ JoinsCheck(w) \/ DeliverJoin(w) \/ DeliverWindow(w) \/ WatchStep(w) \/ JoinsStep(w)
           \/ CancelJoins(w) \/ ConsumeJoin(w) \/ ConsumeWindow(w)
    PROVE  IInv'
<1>1. UNCHANGED <<coordinator, loop>> /\ unsaved' \in {FALSE, unsaved}
  <2>1. CASE JoinsCheck(w) \/ DeliverJoin(w) \/ DeliverWindow(w) \/ WatchStep(w)
    BY <2>1 DEF JoinsCheck, DeliverJoin, DeliverWindow, WatchStep, WatchTake, WatchEnds
  <2>2. CASE JoinsStep(w)
    BY <2>2 DEF JoinsStep, JoinsWatch, JoinsSubscribe, JoinsTake, JoinsRecord, JoinsShow,
                JoinsWindow, JoinsEnds
  <2>3. CASE CancelJoins(w) \/ ConsumeJoin(w) \/ ConsumeWindow(w)
    BY <2>3 DEF CancelJoins, ConsumeJoin, ConsumeWindow
  <2> QED
    BY <2>1, <2>2, <2>3
<1>2. loop' \in [Loops -> Loop]
  BY <1>1 DEF IInv, TypeOK
<1> QED
  BY <1>1, <1>2, MovesOn DEF IInv, LoopInv, Busy

\* The steps of a call of Close.
LEMMA CloseSteps ==
    ASSUME IInv, NEW k \in Closers, Close(k) \/ CloseStep(k)
    PROVE  IInv'
<1> USE DEF IInv
<1>0. closer \in [Closers -> Closer] /\ closer[k] \in Closer
  BY DEF TypeOK
<1>1. CASE Close(k) /\ closed
  <2>1. /\ closer' = [closer EXCEPT ![k] = [pc |-> "nothing", waitFor |-> None]]
        /\ UNCHANGED <<closed, readingsActive, readingsDone, loop, unsaved>>
    BY <1>1 DEF Close
  <2>2. TypeOK' /\ LoopInv'
    BY <1>0, <2>1 DEF TypeOK, LoopInv, Busy, Closer
  <2>3. CloseInv' /\ SavedAtClose'
    BY <1>0, <2>1 DEF CloseInv, SavedAtClose, Closes, Busy
  <2> QED
    BY <2>2, <2>3
<1>2. CASE Close(k) /\ ~closed
  <2>1. /\ closed' = TRUE
        /\ closer' = [closer EXCEPT ![k] = [pc |-> "conn", waitFor |-> readingsDone]]
        /\ UNCHANGED <<readingsActive, readingsDone, loop, unsaved>>
    BY <1>2 DEF Close
  <2>2. TypeOK' /\ LoopInv'
    BY <1>0, <2>1 DEF TypeOK, LoopInv, Busy, Closer
  <2>3. \A j \in Closers : ~Closes(j)
    BY <1>2 DEF CloseInv
  <2>4. \A j \in Closers : Closes(j)' => j = k
    BY <1>0, <2>1, <2>3 DEF Closes
  <2>5. CloseInv'
    BY <1>0, <2>1, <2>4 DEF CloseInv, LoopInv, Busy
  <2>6. SavedAtClose'
    BY <1>0, <2>1, <2>3 DEF SavedAtClose, Closes
  <2> QED
    BY <2>2, <2>5, <2>6
<1>3. CASE CloseConn(k)
  <2>1. /\ closer[k].pc = "conn" /\ closer' = [closer EXCEPT ![k].pc = "wait"]
        /\ loop' = [l \in Loops |-> [loop[l] EXCEPT !.sub = IF @ = "open" THEN "closed" ELSE @]]
        /\ UNCHANGED <<closed, readingsActive, readingsDone, unsaved>>
    BY <1>3 DEF CloseConn
  <2>2. /\ loop' \in [Loops -> Loop]
        /\ \A l \in Loops : /\ loop'[l].pc = loop[l].pc /\ loop'[l].done = loop[l].done
                            /\ loop'[l].pending = loop[l].pending
    BY <2>1 DEF TypeOK, Loop
  <2>3. /\ closer' \in [Closers -> Closer]
        /\ closer'[k].pc = "wait" /\ closer'[k].waitFor = closer[k].waitFor
        /\ \A j \in Closers \ {k} : closer'[j] = closer[j]
    BY <1>0, <2>1 DEF Closer
  <2>4. TypeOK' /\ LoopInv'
    BY <2>1, <2>2, <2>3 DEF TypeOK, LoopInv, Busy
  <2>5. CloseInv'
    <3>1. \A j \in Closers : Closes(j)' <=> Closes(j)
      BY <2>1, <2>3 DEF Closes
    <3>2. \A l \in Loops : Busy(l)' <=> Busy(l)
      BY <2>2 DEF Busy
    <3>3. \A j \in Closers : j # k => closer'[j] = closer[j]
      BY <2>3
    <3>4. ASSUME NEW j \in Closers, Closes(j)'
          PROVE  /\ closer'[j].pc \in {"conn", "wait"} =>
                       \A l \in Loops : Busy(l) => closer'[j].waitFor = l
                 /\ closer'[j].pc \in {"save", "saved", "failed"} => \A l \in Loops : ~Busy(l)
      <4>1. CASE j = k
        BY <2>1, <2>3, <3>1, <3>4, <4>1 DEF CloseInv
      <4>2. CASE j # k
        BY <3>1, <3>3, <3>4, <4>2 DEF CloseInv
      <4> QED
        BY <4>1, <4>2
    <3>5. \A j \in Closers : Closes(j)' => closed'
      BY <2>1, <3>1 DEF CloseInv
    <3>6. \A i, j \in Closers : Closes(i)' /\ Closes(j)' => i = j
      BY <3>1 DEF CloseInv
    <3> QED
      BY <3>2, <3>4, <3>5, <3>6 DEF CloseInv
  <2>6. SavedAtClose'
    BY <2>1, <2>3 DEF SavedAtClose
  <2> QED
    BY <2>4, <2>5, <2>6
<1>4. CASE CloseWait(k)
  <2>1. /\ closer[k].pc = "wait" /\ closer' = [closer EXCEPT ![k].pc = "save"]
        /\ closer[k].waitFor # None => loop[closer[k].waitFor].done
        /\ UNCHANGED <<closed, readingsActive, readingsDone, loop, unsaved>>
    BY <1>4 DEF CloseWait
  <2>2. \A l \in Loops : ~Busy(l)
    BY <1>0, <2>1 DEF CloseInv, Closes, LoopInv
  <2>3. /\ closer' \in [Closers -> Closer] /\ closer'[k].pc = "save"
        /\ \A j \in Closers \ {k} : closer'[j] = closer[j]
    BY <1>0, <2>1 DEF Closer
  <2>4. TypeOK' /\ LoopInv'
    BY <2>1, <2>3 DEF TypeOK, LoopInv, Busy
  <2>5. CloseInv' /\ SavedAtClose'
    BY <2>1, <2>2, <2>3 DEF CloseInv, SavedAtClose, Closes, Busy
  <2> QED
    BY <2>4, <2>5
<1>5. CASE CloseSave(k)
  <2>1. /\ closer[k].pc = "save"
        /\ \/ closer' = [closer EXCEPT ![k].pc = "saved"] /\ unsaved' = FALSE
           \/ closer' = [closer EXCEPT ![k].pc = "failed"] /\ unsaved' = unsaved
        /\ UNCHANGED <<closed, readingsActive, readingsDone, loop>>
    BY <1>5 DEF CloseSave
  <2>2. /\ closer' \in [Closers -> Closer] /\ closer'[k].pc \in {"saved", "failed"}
        /\ \A j \in Closers \ {k} : closer'[j] = closer[j]
        /\ closer'[k].pc = "saved" => unsaved' = FALSE
    BY <1>0, <2>1 DEF Closer
  <2>3. TypeOK' /\ LoopInv'
    BY <2>1, <2>2 DEF TypeOK, LoopInv, Busy
  <2>4. CloseInv'
    BY <2>1, <2>2 DEF CloseInv, Closes, Busy
  <2>5. SavedAtClose'
    BY <2>1, <2>2 DEF SavedAtClose
  <2> QED
    BY <2>3, <2>4, <2>5
<1> QED
  BY <1>1, <1>2, <1>3, <1>4, <1>5 DEF CloseStep

\* Every step keeps the invariant.
LEMMA StepIInv == IInv /\ [Next]_vars => IInv'
<1> SUFFICES ASSUME IInv, [Next]_vars PROVE IInv'
  OBVIOUS
<1>1. CASE UNCHANGED vars
  BY <1>1 DEF vars, IInv, TypeOK, LoopInv, CloseInv, SavedAtClose, Busy, Closes
<1>2. CASE Next
  BY <1>2, LoopSteps, WatchSteps, CloseSteps DEF Next
<1> QED
  BY <1>1, <1>2

\* One of many at most: the fields under c.mu name it.
LEMMA OneAtMost == IInv => OneLoop
<1> SUFFICES ASSUME IInv PROVE OneLoop
  OBVIOUS
<1> DEFINE running == {l \in Loops : loop[l].pc \in {"starting", "select", "sending", "saving"}}
<1>1. running \subseteq {readingsDone}
  BY DEF IInv, LoopInv, Busy
<1>2. running = {} \/ running = {readingsDone}
  BY <1>1
<1>3. Cardinality({}) = 0 /\ Cardinality({readingsDone}) = 1
  BY FS_EmptySet, FS_Singleton
<1> HIDE DEF running
<1>4. Cardinality(running) = 0 \/ Cardinality(running) = 1
  BY <1>2, <1>3, Zenon
<1>5. Cardinality(running) <= 1
  BY <1>4
<1> QED
  BY <1>5 DEF OneLoop, running

\* IInv holds of every reachable state.
LEMMA IInvHolds == Spec => []IInv
<1> QED
  BY InitIInv, StepIInv, PTL DEF Spec

\* Frames and service requests are handled once, for any number of calls (Readings): the
\* fields Readings and its deferred functions write under c.mu are the one running loop.
THEOREM OneLoopHolds == Spec => []OneLoop
<1> QED
  BY IInvHolds, OneAtMost, PTL

\* However many callers there are, one Close finds the session open: it waits for the loop
\* there is and saves after it, and when it returns nil nothing recorded is unsaved.  The
\* others return at once, and nothing is said of them (Close).
THEOREM SavedAtCloseHolds == Spec => []SavedAtClose
<1>1. IInv => SavedAtClose
  BY DEF IInv
<1> QED
  BY <1>1, IInvHolds, PTL

(***************************************************************************)
(* Joins: what a watch owes is what lies between WatchJoins and the registry *)
(***************************************************************************)
Watch == [pc: {"idle", "unused", "refused", "checked", "watching", "select", "recording",
               "showing", "ended"},
          msgs: Nat, sub: {"none", "open", "closed"}, stack: {"none", "open", "closed"}, left: Nat,
          mid: Nat, midClosed: BOOLEAN, owed: Nat, out: Nat, outClosed: BOOLEAN,
          windowMsgs: Nat, windows: Nat]

\* A watch r: nothing comes after WatchJoins' channel is closed, and an arrival that is owed
\* is in that channel or being recorded.
WatchOK(r) ==
    /\ r.owed = r.mid + IF r.pc = "recording" THEN 1 ELSE 0
    /\ r.midClosed => r.msgs = 0 /\ r.sub = "closed"
    /\ r.pc = "ended" => r.midClosed /\ r.mid = 0
    /\ r.pc \in {"idle", "unused", "refused", "checked"} => r.sub = "none"

WatchInv == watch \in [Watchers -> Watch] /\ \A w \in Watchers : WatchOK(watch[w])

\* A step of one watch that leaves it sound leaves all sound.
LEMMA WatchMoves ==
    ASSUME WatchInv, NEW w \in Watchers, NEW r \in Watch, WatchOK(r),
           watch' = [watch EXCEPT ![w] = r]
    PROVE  WatchInv'
<1>1. watch' \in [Watchers -> Watch]
  BY DEF WatchInv
<1>2. \A v \in Watchers : watch'[v] = IF v = w THEN r ELSE watch[v]
  BY DEF WatchInv
<1> QED
  BY <1>1, <1>2 DEF WatchInv, WatchOK

\* The steps of one watch, its subscriptions and its reader.
LEMMA WatchKept ==
    ASSUME WatchInv, NEW w \in Watchers,
           \/ JoinsCheck(w) \/ DeliverJoin(w) \/ DeliverWindow(w) \/ WatchStep(w) \/ JoinsStep(w)
           \/ CancelJoins(w) \/ ConsumeJoin(w) \/ ConsumeWindow(w),
           closed \in BOOLEAN
    PROVE  WatchInv'
<1> DEFINE old == watch[w]
<1>0. watch \in [Watchers -> Watch] /\ old \in Watch /\ WatchOK(old)
  BY DEF WatchInv
<1> DEFINE Kept(r) == r \in Watch /\ WatchOK(r) /\ watch' = [watch EXCEPT ![w] = r]
<1>k. ASSUME NEW r, Kept(r) PROVE WatchInv'
  BY <1>k, WatchMoves
<1>1. CASE JoinsCheck(w)
  <2>1. CASE closed
    <3> DEFINE r == [old EXCEPT !.pc = "refused", !.outClosed = TRUE]
    <3>1. Kept(r)
      BY <1>0, <1>1, <2>1 DEF JoinsCheck, Watch, WatchOK
    <3> QED
      BY <3>1, <1>k
  <2>2. CASE ~closed
    <3> DEFINE r == [old EXCEPT !.pc = "checked", !.outClosed = FALSE]
    <3>1. Kept(r)
      BY <1>0, <1>1, <2>2 DEF JoinsCheck, Watch, WatchOK
    <3> QED
      BY <3>1, <1>k
  <2> QED
    BY <2>1, <2>2
<1>2. CASE DeliverJoin(w)
  <2> DEFINE room == IF old.msgs < Cap THEN old.msgs + 1 ELSE old.msgs
             rest == old.left - 1
             r == [old EXCEPT !.left = rest, !.msgs = room]
  <2>1. room \in Nat /\ rest \in Nat /\ old.sub = "open"
    BY <1>0, <1>2 DEF DeliverJoin, Watch
  <2>2. watch' = [watch EXCEPT ![w] = r]
    BY <1>0, <1>2 DEF DeliverJoin, Watch
  <2> HIDE DEF room, rest
  <2>3. r \in Watch /\ WatchOK(r)
    BY <1>0, <2>1 DEF Watch, WatchOK
  <2> QED
    BY <2>2, <2>3, <1>k
<1>3. CASE DeliverWindow(w)
  <2> DEFINE room == IF old.windowMsgs < Cap THEN old.windowMsgs + 1 ELSE old.windowMsgs
             rest == old.left - 1
             r == [old EXCEPT !.left = rest, !.windowMsgs = room]
  <2>1. room \in Nat /\ rest \in Nat
    BY <1>0, <1>3 DEF DeliverWindow, Watch
  <2>2. watch' = [watch EXCEPT ![w] = r]
    BY <1>0, <1>3 DEF DeliverWindow, Watch
  <2> HIDE DEF room, rest
  <2>3. r \in Watch /\ WatchOK(r)
    BY <1>0, <2>1 DEF Watch, WatchOK
  <2> QED
    BY <2>2, <2>3, <1>k
<1>4. CASE WatchTake(w)
  <2> DEFINE rest == old.msgs - 1
             lost == [old EXCEPT !.msgs = rest]
             mid == old.mid + 1
             owed == old.owed + 1
             passed == [old EXCEPT !.msgs = rest, !.mid = mid, !.owed = owed]
  <2>1. /\ rest \in Nat /\ mid \in Nat /\ owed \in Nat /\ ~old.midClosed /\ old.pc # "ended"
        /\ owed = mid + IF old.pc = "recording" THEN 1 ELSE 0
    BY <1>0, <1>4 DEF WatchTake, Watch, WatchOK
  <2>2. watch' = [watch EXCEPT ![w] = lost] \/ watch' = [watch EXCEPT ![w] = passed]
    BY <1>0, <1>4 DEF WatchTake, Watch
  <2> HIDE DEF rest, mid, owed
  <2>3. lost \in Watch /\ WatchOK(lost)
    BY <1>0, <2>1 DEF Watch, WatchOK
  <2>4. passed \in Watch /\ WatchOK(passed)
    BY <1>0, <2>1 DEF Watch, WatchOK
  <2> QED
    BY <2>2, <2>3, <2>4, <1>k
<1>5. CASE WatchEnds(w)
  <2> DEFINE r == [old EXCEPT !.midClosed = TRUE]
  <2>1. Kept(r)
    BY <1>0, <1>5 DEF WatchEnds, Watch, WatchOK
  <2> QED
    BY <2>1, <1>k
<1>6. CASE JoinsWatch(w) \/ JoinsSubscribe(w) \/ JoinsEnds(w)
  <2> DEFINE watching == [old EXCEPT !.pc = "watching", !.sub = "open"]
             subscribed == [old EXCEPT !.pc = "select", !.stack = "open"]
             ended == [old EXCEPT !.pc = "ended", !.outClosed = TRUE]
  <2>1. ASSUME JoinsWatch(w) PROVE Kept(watching)
    BY <1>0, <2>1 DEF JoinsWatch, Watch, WatchOK
  <2>2. ASSUME JoinsSubscribe(w) PROVE Kept(subscribed)
    BY <1>0, <2>2 DEF JoinsSubscribe, Watch, WatchOK
  <2>3. ASSUME JoinsEnds(w) PROVE Kept(ended)
    BY <1>0, <2>3 DEF JoinsEnds, Watch, WatchOK
  <2> QED
    BY <1>6, <2>1, <2>2, <2>3, <1>k
<1>7. CASE JoinsTake(w)
  <2> DEFINE rest == old.mid - 1
             r == [old EXCEPT !.mid = rest, !.pc = "recording"]
  <2>1. rest \in Nat /\ old.owed = rest + 1
    BY <1>0, <1>7 DEF JoinsTake, Watch, WatchOK
  <2>2. watch' = [watch EXCEPT ![w] = r] /\ old.pc = "select"
    BY <1>0, <1>7 DEF JoinsTake, Watch
  <2> HIDE DEF rest
  <2>3. r \in Watch /\ WatchOK(r)
    BY <1>0, <2>1, <2>2 DEF Watch, WatchOK
  <2> QED
    BY <2>2, <2>3, <1>k
<1>8. CASE JoinsRecord(w)
  <2> DEFINE rest == old.owed - 1
             r == [old EXCEPT !.pc = "showing", !.owed = rest]
  <2>1. rest = old.mid /\ rest \in Nat
    BY <1>0, <1>8 DEF JoinsRecord, Watch, WatchOK
  <2>2. watch' = [watch EXCEPT ![w] = r] /\ old.pc = "recording"
    BY <1>0, <1>8 DEF JoinsRecord, Watch
  <2> HIDE DEF rest
  <2>3. /\ r \in Watch /\ r.pc = "showing" /\ r.owed = rest /\ r.mid = old.mid
        /\ r.midClosed = old.midClosed /\ r.msgs = old.msgs /\ r.sub = old.sub
    BY <1>0, <2>1 DEF Watch
  <2> HIDE DEF r
  <2>4. WatchOK(r)
    BY <1>0, <2>1, <2>2, <2>3 DEF WatchOK, Watch
  <2> QED
    BY <2>2, <2>3, <2>4, <1>k
<1>9. CASE JoinsShow(w)
  <2> DEFINE shown == IF RoomInOut(w) THEN old.out + 1 ELSE old.out
             r == [old EXCEPT !.pc = "select", !.out = shown]
  <2>1. shown \in Nat /\ old.pc = "showing"
    BY <1>0, <1>9 DEF JoinsShow, Watch
  <2>2. watch' = [watch EXCEPT ![w] = r]
    BY <1>0, <1>9 DEF JoinsShow, Watch
  <2> HIDE DEF shown
  <2>3. r \in Watch /\ WatchOK(r)
    BY <1>0, <2>1 DEF Watch, WatchOK
  <2> QED
    BY <2>2, <2>3, <1>k
<1>10. CASE JoinsWindow(w)
  <2> DEFINE shown == IF RoomInOut(w) THEN old.windows + 1 ELSE old.windows
             rest == old.windowMsgs - 1
             r == [old EXCEPT !.windowMsgs = rest, !.windows = shown]
  <2>1. shown \in Nat /\ rest \in Nat
    BY <1>0, <1>10 DEF JoinsWindow, Watch
  <2>2. watch' = [watch EXCEPT ![w] = r]
    BY <1>0, <1>10 DEF JoinsWindow, Watch
  <2> HIDE DEF shown, rest
  <2>3. r \in Watch /\ WatchOK(r)
    BY <1>0, <2>1 DEF Watch, WatchOK
  <2> QED
    BY <2>2, <2>3, <1>k
<1>11. CASE CancelJoins(w)
  <2> DEFINE r == [old EXCEPT !.sub = "closed", !.stack = "closed"]
  <2>1. Kept(r)
    BY <1>0, <1>11 DEF CancelJoins, Unsubscribed, Watch, WatchOK
  <2> QED
    BY <2>1, <1>k
<1>12. CASE ConsumeJoin(w) \/ ConsumeWindow(w)
  <2> DEFINE join == [old EXCEPT !.out = old.out - 1]
             window == [old EXCEPT !.windows = old.windows - 1]
  <2>1. ASSUME ConsumeJoin(w) PROVE Kept(join)
    BY <1>0, <2>1 DEF ConsumeJoin, Watch, WatchOK
  <2>2. ASSUME ConsumeWindow(w) PROVE Kept(window)
    BY <1>0, <2>2 DEF ConsumeWindow, Watch, WatchOK
  <2> QED
    BY <1>12, <2>1, <2>2, <1>k
<1> QED
  BY <1>1, <1>2, <1>3, <1>4, <1>5, <1>6, <1>7, <1>8, <1>9, <1>10, <1>11, <1>12 DEF WatchStep, JoinsStep

\* WatchInv holds of every reachable state.
LEMMA WatchInvHolds == Spec => [](IInv /\ WatchInv)
<1>1. Init => WatchInv
  <2> SUFFICES ASSUME Init PROVE WatchInv
    OBVIOUS
  <2>1. PICK mix \in Mixes :
          watch = [w \in Watchers |-> [IdleWatch EXCEPT !.pc = IF w \in mix THEN "idle" ELSE "unused"]]
    BY DEF Init
  <2>2. \A w \in Watchers :
          /\ watch[w] \in Watch /\ watch[w].pc \in {"idle", "unused"}
          /\ watch[w].owed = 0 /\ watch[w].mid = 0 /\ watch[w].sub = "none" /\ ~watch[w].midClosed
    BY <2>1 DEF IdleWatch, Watch
  <2> QED
    BY <2>1, <2>2 DEF WatchInv, WatchOK
<1>2. IInv /\ WatchInv /\ [Next]_vars => WatchInv'
  <2> SUFFICES ASSUME IInv, WatchInv, [Next]_vars PROVE WatchInv'
    OBVIOUS
  <2>1. CASE UNCHANGED watch
    BY <2>1 DEF WatchInv, WatchOK
  <2>2. ASSUME NEW l \in Loops,
               \/ Readings(l) \/ LoopStep(l) \/ DeliverReport(l)
               \/ ConsumeReading(l) \/ StopReading(l) \/ CancelContext(l)
        PROVE  UNCHANGED watch
    BY <2>2 DEF Readings, LoopStep, LoopStart, LoopTake, LoopSend, LoopCancelled, LoopSave, LoopClosed,
                LoopEnd, LoopUnsubscribe, DeliverReport, ConsumeReading, StopReading, CancelContext
  <2>3. ASSUME NEW w \in Watchers,
               \/ JoinsCheck(w) \/ DeliverJoin(w) \/ DeliverWindow(w) \/ WatchStep(w) \/ JoinsStep(w)
               \/ CancelJoins(w) \/ ConsumeJoin(w) \/ ConsumeWindow(w)
        PROVE  WatchInv'
    BY <2>3, WatchKept DEF IInv, TypeOK
  <2>4. ASSUME NEW k \in Closers, CloseConn(k) PROVE WatchInv'
    <3> DEFINE Closed(sub) == IF sub = "open" THEN "closed" ELSE sub
    <3>1. watch' = [w \in Watchers |-> [watch[w] EXCEPT !.sub = Closed(watch[w].sub),
                                                       !.stack = Closed(watch[w].stack)]]
      BY <2>4 DEF CloseConn, WatchInv, Watch
    <3>2. \A sub \in {"none", "open", "closed"} :
            Closed(sub) \in {"none", "open", "closed"} /\ (sub # "open" => Closed(sub) = sub)
      OBVIOUS
    <3> HIDE DEF Closed
    <3>3. ASSUME NEW w \in Watchers PROVE watch'[w] \in Watch /\ WatchOK(watch'[w])
      <4> DEFINE old == watch[w]
                 sub == Closed(old.sub)
                 stack == Closed(old.stack)
                 r == [old EXCEPT !.sub = sub, !.stack = stack]
      <4>1. old \in Watch /\ WatchOK(old) /\ watch'[w] = r
        BY <3>1 DEF WatchInv
      <4>2. /\ sub \in {"none", "open", "closed"} /\ stack \in {"none", "open", "closed"}
            /\ old.sub # "open" => sub = old.sub
        BY <3>2, <4>1 DEF Watch
      <4> HIDE DEF old, sub, stack
      <4>3. /\ r \in Watch /\ r.pc = old.pc /\ r.owed = old.owed /\ r.mid = old.mid
            /\ r.midClosed = old.midClosed /\ r.msgs = old.msgs /\ r.sub = sub
        BY <4>1, <4>2 DEF Watch
      <4> HIDE DEF r
      <4> QED
        BY <4>1, <4>2, <4>3 DEF WatchOK
    <3> QED
      BY <3>1, <3>3 DEF WatchInv
  <2>5. ASSUME NEW k \in Closers, Close(k) \/ CloseWait(k) \/ CloseSave(k) PROVE UNCHANGED watch
    BY <2>5 DEF Close, CloseWait, CloseSave
  <2>6. CASE UNCHANGED vars
    BY <2>1, <2>6 DEF vars
  <2> QED
    BY <2>1, <2>2, <2>3, <2>4, <2>5, <2>6 DEF Next, CloseStep
<1> QED
  BY <1>1, <1>2, InitIInv, StepIInv, PTL DEF Spec

\* Every arrival WatchJoins passes on is in the registry before Joins' goroutine ends, whatever
\* is cancelled, closed or not read (Joins, WatchJoins).
THEOREM ArrivalsRecordedHolds == Spec => []ArrivalsRecorded
<1>1. WatchInv => ArrivalsRecorded
  BY DEF WatchInv, WatchOK, ArrivalsRecorded
<1> QED
  BY <1>1, WatchInvHolds, PTL
=============================================================================
