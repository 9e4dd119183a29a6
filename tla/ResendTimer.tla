---------------------------- MODULE ResendTimer -----------------------------
(***************************************************************************)
(* The clock of awaitReply (internal/ezsp/send.go): a ticker repeats the     *)
(* request, and the NCP throws a copy away when it has waited too long.      *)
(*                                                                         *)
(* Time is whole units.  What takes no time happens at once: a tick is       *)
(* taken from its channel of one when the loop waits, and messages that do   *)
(* not match are passed over.  A send takes up to MaxSend: the mutex of the  *)
(* commands, the acknowledgement, CommandTimeout.  What the answers are is   *)
(* module Request.                                                          *)
(***************************************************************************)
EXTENDS Integers

CONSTANTS
    Interval,       \* ResendInterval
    Patience,       \* how long the NCP keeps a copy (indirectTxTimeout)
    MaxSend,        \* the longest a send takes
    Tolerated,      \* resends in a row that may fail
    MaxTime         \* bound

ASSUME TimerAssumption ==
    /\ Interval \in Nat /\ Patience \in Nat /\ MaxSend \in Nat /\ Tolerated \in Nat /\ MaxTime \in Nat
    /\ 0 < Interval /\ MaxSend <= Interval
    /\ (Tolerated + 1) * Interval + 2 * MaxSend <= Patience

VARIABLES
    now,
    loop,           \* first, wait, send, over
    since, took,    \* when the send under way began, and whether the NCP has its copy
    next, tick,     \* when the ticker fires next; its channel of one
    copied,         \* when the NCP was given the last copy
    failed,         \* resends that failed since one that did not
    base            \* history: since when the ticker has run for the last copy sent

timerVars == <<now, loop, since, took, next, tick, copied, failed, base>>

Sends == loop \in {"first", "send"}
Ticking == loop \in {"wait", "send"}

\* Mutant of Following: the request is repeated less and less often.
FollowingSlower(t) == t + (failed + 2) * Interval

\* The ticker keeps its period, whatever the loop does.
Following(t) == t + Interval

TimerInit ==
    /\ now = 0 /\ loop = "first" /\ since = 0 /\ took = FALSE
    /\ next = 0 /\ tick = FALSE /\ copied = 0 /\ failed = 0 /\ base = 0

\* Nothing that is due may be left behind.
Advance ==
    /\ now < MaxTime
    /\ Sends => now < since + MaxSend
    /\ Ticking => now < next
    /\ ~(loop = "wait" /\ tick)
    /\ now' = now + 1
    /\ UNCHANGED <<loop, since, took, next, tick, copied, failed, base>>

\* A tick that was not taken yet is not doubled.
Fires ==
    /\ Ticking /\ now = next
    /\ tick' = TRUE /\ next' = Following(next)
    /\ UNCHANGED <<now, loop, since, took, copied, failed, base>>

Resend ==
    /\ loop = "wait" /\ tick
    /\ tick' = FALSE /\ loop' = "send" /\ since' = now /\ took' = FALSE
    /\ UNCHANGED <<now, next, copied, failed, base>>

\* The NCP queues the copy, at some time while the command is under way.
CopyTaken ==
    /\ Sends /\ ~took
    /\ took' = TRUE /\ copied' = now
    /\ UNCHANGED <<now, loop, since, next, tick, failed, base>>

\* The ticker starts when the first send has returned.
FirstSent ==
    /\ loop = "first" /\ took
    /\ loop' = "wait" /\ next' = Following(now) /\ base' = now
    /\ UNCHANGED <<now, since, took, tick, copied, failed>>

SendReturns ==
    /\ loop = "send" /\ took
    /\ loop' = "wait" /\ failed' = 0 /\ base' = since
    /\ UNCHANGED <<now, since, took, next, tick, copied>>

\* A failure ends the first attempt, and is passed over later; the NCP may have its copy.
FirstFails ==
    /\ loop = "first" /\ loop' = "over"
    /\ UNCHANGED <<now, since, took, next, tick, copied, failed, base>>

SendFails ==
    /\ loop = "send"
    /\ loop' = "wait" /\ failed' = failed + 1
    /\ UNCHANGED <<now, since, took, next, tick, copied, base>>

\* The answer, the end of the context or of the connection.
Ends ==
    /\ loop = "wait" /\ loop' = "over"
    /\ UNCHANGED <<now, since, took, next, tick, copied, failed, base>>

TimerNext ==
    \/ Advance \/ Fires \/ Resend \/ CopyTaken \/ FirstSent \/ SendReturns \/ FirstFails \/ SendFails \/ Ends

TimerSpec == TimerInit /\ [][TimerNext]_timerVars

-----------------------------------------------------------------------------
(***************************************************************************)
(* Properties                                                              *)
(***************************************************************************)
\* Until the request is answered or given up the NCP holds a copy of it that it has not
\* thrown away, though sends take time, ticks are lost while one is under way, and as many
\* resends in a row as are tolerated fail (ResendInterval's comment).
CopyAlive == Ticking /\ failed <= Tolerated => now <= copied + Patience

TimerTypeOK ==
    /\ now \in Nat /\ since \in Nat /\ next \in Nat /\ copied \in Nat /\ failed \in Nat /\ base \in Nat
    /\ loop \in {"first", "wait", "send", "over"} /\ took \in BOOLEAN /\ tick \in BOOLEAN

\* When the next resend begins at the latest.
Due == base + (failed + 1) * Interval

\* The inductive invariant: a resend begins within one interval of the one before, failed
\* or not, for no send takes longer than an interval.
TimerInv ==
    /\ TimerTypeOK
    /\ copied <= now
    /\ Sends => since <= now /\ now <= since + MaxSend
    /\ took /\ Sends => since <= copied
    /\ loop = "first" => ~tick
    /\ Ticking => now <= next /\ next <= now + Interval /\ base <= copied + MaxSend
    /\ loop = "send" => since <= Due
    /\ loop = "send" /\ ~tick => next <= since + Interval
    /\ loop = "wait" /\ tick => now <= Due
    /\ loop = "wait" /\ ~tick => next <= Due
=============================================================================
