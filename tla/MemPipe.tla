------------------------------ MODULE MemPipe ------------------------------
(***************************************************************************)
(* One direction of a stream of the in-memory network (struct Pipe of      *)
(* crates/transport/src/mem.rs): a bounded buffer of units (a unit stands  *)
(* for a run of bytes), the two flags, and the wakers of a reader and a    *)
(* writer task that went to sleep in poll_read and poll_write.  Everything *)
(* done under the pipe's lock, and the wake that follows it, is one step.  *)
(***************************************************************************)
EXTENDS Naturals, Sequences

CONSTANT PipeLimit  \* PIPE_LIMIT

VARIABLES
    buf,        \* units written and not read
    ended,      \* `closed`: the writer finished
    canceled,   \* the reader cancelled
    asleep      \* the tasks ("reader", "writer") that wait for their waker

pipeVars == <<buf, ended, canceled, asleep>>

PipeInit == buf = <<>> /\ ended = FALSE /\ canceled = FALSE /\ asleep = {}

Smaller(m, n) == IF m < n THEN m ELSE n

\* poll_write of the units b, of which it takes what fits.
WriteBlocks == Len(buf) >= PipeLimit /\ ~canceled /\ ~ended

PollWritePending ==
    /\ "writer" \notin asleep /\ WriteBlocks
    /\ asleep' = asleep \cup {"writer"}
    /\ UNCHANGED <<buf, ended, canceled>>

Taken(b) == Smaller(PipeLimit - Len(buf), Len(b))

PollWrite(b) ==
    /\ "writer" \notin asleep
    /\ ~WriteBlocks /\ ~canceled /\ ~ended
    /\ buf' = buf \o SubSeq(b, 1, Taken(b))
    /\ asleep' = asleep \ {"reader"}
    /\ UNCHANGED <<ended, canceled>>

WriteRefused == "writer" \notin asleep /\ (canceled \/ ended)

\* poll_read of at most n units.
PollReadPending ==
    /\ "reader" \notin asleep
    /\ buf = <<>> /\ ~ended /\ ~canceled
    /\ asleep' = asleep \cup {"reader"}
    /\ UNCHANGED <<buf, ended, canceled>>

ReadTakes(n) == Smaller(n, Len(buf))

\* Mutant: a reader that made room leaves the writer's waker in its slot.
PollReadNoWake(n) ==
    /\ "reader" \notin asleep
    /\ ~canceled /\ buf # <<>>
    /\ buf' = SubSeq(buf, ReadTakes(n) + 1, Len(buf))
    /\ UNCHANGED <<ended, canceled, asleep>>

PollRead(n) ==
    /\ "reader" \notin asleep
    /\ ~canceled /\ buf # <<>>
    /\ buf' = SubSeq(buf, ReadTakes(n) + 1, Len(buf))
    /\ asleep' = asleep \ {"writer"}
    /\ UNCHANGED <<ended, canceled>>

ReadsEof == "reader" \notin asleep /\ ~canceled /\ ended /\ buf = <<>>

CloseWrite == ended' = TRUE /\ asleep' = {} /\ UNCHANGED <<buf, canceled>>

CancelRead == canceled' = TRUE /\ buf' = <<>> /\ asleep' = {} /\ UNCHANGED ended

\* The receive half is dropped.
CancelUnlessAtEof ==
    IF canceled \/ (ended /\ buf = <<>>) THEN UNCHANGED pipeVars ELSE CancelRead
=============================================================================
