----------------------------- MODULE MCAshLink -----------------------------
(* Small instances of AshLink for TLC. *)
EXTENDS AshLink

\* One frame of an earlier session: the DATA frame the new Conn will take for the
\* first of its own session, whose piggybacked acknowledgement answers a first Send.
MCOldFrames == {DataFrame(0, 1, Stale)}

\* No frame of an earlier session.
MCNoFrames == {}
=============================================================================
