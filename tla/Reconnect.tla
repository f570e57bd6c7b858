------------------------------ MODULE Reconnect ------------------------------
(***************************************************************************)
(* The snapshot/delta merge state machine of one symbol                    *)
(* (aggregator/internal/reconnect) and the sequence-gap test               *)
(* (aggregator/internal/gapdetector), as operators on a value.             *)
(*                                                                         *)
(* A machine only keeps the sequence numbers of the deltas that arrive     *)
(* while it waits for a snapshot; their payloads are not kept anywhere, so *)
(* a merge can tell which deltas are newer than the snapshot but nobody    *)
(* can replay them.                                                        *)
(***************************************************************************)
EXTENDS Naturals, Sequences

States == {"Initial", "Buffering", "Live"}

Machines == [state : States, buffer : Seq(Nat)]

NewMachine == [state |-> "Initial", buffer |-> <<>>]

\* The buffer survives: deltas that came during a first wait stay for the
\* merge with the next snapshot.
NeedsSnapshotNow(m) == [m EXCEPT !.state = "Buffering"]

Feed(m, seq) ==
    IF m.state = "Buffering" THEN [m EXCEPT !.buffer = Append(@, seq)] ELSE m

\* The snapshot ends before the oldest buffered delta starts.  (The code
\* skips the test at MaxUint64, where its snapshotSeq + 1 would wrap to 0;
\* over the natural numbers the test is then false by itself.)
IsStale(m, snapshotSeq) ==
    /\ m.buffer # <<>>
    /\ Head(m.buffer) > snapshotSeq + 1

\* A successful merge, and GoLive: nothing of the buffer remains.
GoLive(m) == [state |-> "Live", buffer |-> <<>>]

\* A faulty Detect that only looks for missing numbers.
IsGapForwardOnly(prev, next) == next > prev + 1

\* gapdetector.Detect returns an event unless next directly follows prev.
\* It does not ask which way the numbers jumped.
IsGap(prev, next) == next # prev + 1
=============================================================================
