----------------------------- MODULE PackStream -----------------------------
(***************************************************************************)
(* A pack of records on a stream: PackSender, PackReader and PackRecords   *)
(* of crates/wire/src/pack.rs, over the pipe of MemPipe.                   *)
(*                                                                         *)
(* Bytes are units.  A frame header is two units, the second of which      *)
(* knows the frame's type and length; the magic, the end marker and a      *)
(* record's header are one unit each, followed by the record's payload.    *)
(***************************************************************************)
EXTENDS MemPipe, FiniteSets

CONSTANTS
    ChunkSize,  \* CHUNK_SIZE
    BufioSize,  \* BUFIO_SIZE
    Packs       \* the packs sent: sequences of payload lengths

VARIABLES
    pack,       \* the payload lengths of the records to send
    sent,       \* records handed to add_record
    bw,         \* PackSender.bw
    chunk,      \* PackSender.buf
    writes,     \* the write_all calls the sender has still to make
    sender,     \* "open", "finishing", "failing", "closed" or "reset"
    frame,      \* units of the frame being read
    cur,        \* PackReader.cur from pos on
    done,       \* PackReader.done
    rerr,       \* PackReader.err: "none", "eof", "cut" or "remote"
    state,      \* PackRecords.state; "end" and "error" are Done
    need,       \* payload units missing of the record being read
    got,        \* records returned by next()
    reader      \* "records", "drain", "dropped" or "abandoned"

senderVars == <<sent, bw, chunk, writes, sender>>
readerVars == <<frame, cur, done, rerr, state, need, got, reader>>
vars == <<pipeVars, pack, senderVars, readerVars>>

\* Units: of the pack, the index is the record's; of a frame header, n is the
\* length of what follows.
Unit(kind, i) == [kind |-> kind, n |-> i]
Magic == Unit("magic", 0)
EndTag == Unit("end", 0)
Record(i) == <<Unit("rec", i)>> \o [j \in 1..pack[i] |-> Unit("pay", i)]
Header(type, n) == <<Unit("header", 0), Unit(type, n)>>

InitWith(p) ==
    /\ pack = p
    /\ PipeInit
    /\ sent = 0 /\ bw = <<>> /\ chunk = <<>> /\ writes = <<>> /\ sender = "open"
    /\ frame = <<>> /\ cur = <<>> /\ done = FALSE /\ rerr = "none"
    /\ state = "magic" /\ need = 0 /\ got = <<>> /\ reader = "records"

Init == \E p \in Packs : InitWith(p)

\* A stream both ends of which are gone.
Over ==
    /\ pack = <<>> /\ buf = <<>> /\ ended = TRUE /\ canceled = FALSE /\ asleep = {}
    /\ sent = 0 /\ bw = <<>> /\ chunk = <<>> /\ writes = <<>> /\ sender = "closed"
    /\ frame = <<>> /\ cur = <<>> /\ done = TRUE /\ rerr = "none"
    /\ state = "end" /\ need = 0 /\ got = <<>> /\ reader = "dropped"

-----------------------------------------------------------------------------
(***************************************************************************)
(* The sender's two buffers.  Each operator gives what leaves a buffer and *)
(* what stays in it.                                                       *)
(***************************************************************************)
\* buffered_write: a write too large for an empty buffer bypasses it.
\* Mutant: it also does when there are bytes in the buffer.
BufferedWriteBypasses(b, p) ==
    IF Len(p) > BufioSize
    THEN [out |-> p, stays |-> b]
    ELSE IF Len(b \o p) <= BufioSize
         THEN [out |-> <<>>, stays |-> b \o p]
         ELSE [out |-> SubSeq(b \o p, 1, BufioSize), stays |-> SubSeq(b \o p, BufioSize + 1, Len(b \o p))]

BufferedWrite(b, p) ==
    LET all == b \o p IN
    IF Len(all) <= BufioSize
    THEN [out |-> <<>>, stays |-> all]
    ELSE IF b = <<>> \/ Len(all) > 2 * BufioSize
         THEN [out |-> all, stays |-> <<>>]
         ELSE [out |-> SubSeq(all, 1, BufioSize), stays |-> SubSeq(all, BufioSize + 1, Len(all))]

\* write_tdata: the prefix, then the data.
TData(d) == <<Header("data", Len(d)), d>>

\* chunk_write: a frame whenever exactly ChunkSize units are there.
ChunkWrite(c, p) ==
    LET all == c \o p
        n == Len(all) \div ChunkSize
        Frame(i) == TData(SubSeq(all, i * ChunkSize + 1, (i + 1) * ChunkSize))
    IN [out |-> [w \in 1..(2 * n) |-> Frame((w - 1) \div 2)[1 + ((w - 1) % 2)]],
        stays |-> SubSeq(all, n * ChunkSize + 1, Len(all))]

\* chunk_flush.
ChunkFlush(c) == IF c = <<>> THEN <<>> ELSE TData(c)

\* ensure_magic: the magic always fits in the empty buffer.
WithMagic == IF sent = 0 THEN <<Magic>> ELSE bw

AddRecord ==
    /\ sender = "open" /\ writes = <<>>
    /\ sent < Len(pack)
    /\ LET b == BufferedWrite(WithMagic, Record(sent + 1))
           c == ChunkWrite(chunk, b.out)
       IN bw' = b.stays /\ chunk' = c.stays /\ writes' = c.out
    /\ sent' = sent + 1
    /\ UNCHANGED <<pipeVars, pack, sender, readerVars>>

Finish ==
    /\ sender = "open" /\ writes = <<>>
    /\ sent = Len(pack)
    /\ LET c == ChunkWrite(chunk, Append(WithMagic, EndTag))
       IN writes' = c.out \o ChunkFlush(c.stays) \o <<Header("dataend", 0)>>
    /\ bw' = <<>> /\ chunk' = <<>>
    /\ sender' = "finishing"
    /\ UNCHANGED <<pipeVars, pack, sent, readerVars>>

\* The source of the records failed: the sender is given up and an error frame
\* written in place of the rest.
SendErr ==
    /\ sender = "open" /\ writes = <<>>
    /\ writes' = <<Header("err", 0)>>
    /\ sender' = "failing"
    /\ UNCHANGED <<pipeVars, pack, sent, bw, chunk, readerVars>>

\* One poll of the write_all at the head.
WriteSleeps == writes # <<>> /\ PollWritePending /\ UNCHANGED <<pack, senderVars, readerVars>>

Write ==
    /\ writes # <<>>
    /\ PollWrite(Head(writes))
    /\ LET rest == SubSeq(Head(writes), Taken(Head(writes)) + 1, Len(Head(writes)))
       IN writes' = IF rest = <<>> THEN Tail(writes) ELSE <<rest>> \o Tail(writes)
    /\ UNCHANGED <<pack, sent, bw, chunk, sender, readerVars>>

\* The reader cancelled: the error sticks, the stream is dropped.
WriteFails ==
    /\ writes # <<>> /\ WriteRefused
    /\ sender' = "reset" /\ writes' = <<>>
    /\ CloseWrite
    /\ UNCHANGED <<pack, sent, bw, chunk, readerVars>>

\* Everything is written: the send half is finished.
CloseSend ==
    /\ sender \in {"finishing", "failing"} /\ writes = <<>>
    /\ sender' = "closed"
    /\ CloseWrite
    /\ UNCHANGED <<pack, sent, bw, chunk, writes, readerVars>>

\* The send half is dropped: between two records, or in the middle of a frame
\* when the exchange's ctx ends.
DropSend ==
    /\ sender \in {"open", "finishing", "failing"}
    /\ sender' = "closed" /\ writes' = <<>>
    /\ CloseWrite
    /\ UNCHANGED <<pack, sent, bw, chunk, readerVars>>

Sender == AddRecord \/ Finish \/ WriteSleeps \/ Write \/ WriteFails \/ CloseSend

-----------------------------------------------------------------------------
(***************************************************************************)
(* PackReader::fill, one poll at a time.                                   *)
(***************************************************************************)
Parsing == reader = "records" /\ state \in {"magic", "records", "payload"}

Filling == (Parsing \/ reader = "drain") /\ cur = <<>> /\ rerr = "none" /\ ~done

\* Units read_full has still to read of the header or of the payload.
Missing(f) == IF Len(f) < 2 THEN 2 - Len(f) ELSE 2 + f[2].n - Len(f)

ReadSleeps == Filling /\ PollReadPending /\ UNCHANGED <<pack, senderVars, readerVars>>

ReadFrame ==
    /\ Filling
    /\ PollRead(Missing(frame))
    /\ LET f == frame \o SubSeq(buf, 1, ReadTakes(Missing(frame))) IN
       IF Missing(f) > 0
       THEN frame' = f /\ UNCHANGED <<cur, done, rerr>>
       ELSE /\ frame' = <<>>
            /\ cur' = SubSeq(f, 3, Len(f))
            /\ done' = (f[2].kind = "dataend")
            /\ rerr' = IF f[2].kind = "err" THEN "remote" ELSE "none"
    /\ UNCHANGED <<pack, senderVars, state, need, got, reader>>

\* The end of the stream: clean between frames, else a cut frame.
ReadEof ==
    /\ Filling /\ ReadsEof
    /\ rerr' = IF frame = <<>> THEN "eof" ELSE "cut"
    /\ UNCHANGED <<pipeVars, pack, senderVars, frame, cur, done, state, need, got, reader>>

(***************************************************************************)
(* PackRecords::next.                                                      *)
(***************************************************************************)
\* One more unit of the current chunk.
ParseUnit ==
    /\ Parsing /\ cur # <<>>
    /\ cur' = Tail(cur)
    /\ CASE state = "magic" ->
              /\ state' = IF Head(cur) = Magic THEN "records" ELSE "error"
              /\ UNCHANGED <<need, got>>
         [] state = "records" /\ Head(cur) = EndTag ->
              state' = "end" /\ UNCHANGED <<need, got>>
         [] state = "records" /\ Head(cur).kind = "rec" ->
              /\ need' = pack[Head(cur).n]
              /\ state' = IF need' = 0 THEN "records" ELSE "payload"
              /\ got' = Append(got, <<Head(cur)>>)
         [] state = "payload" ->
              /\ need' = need - 1
              /\ state' = IF need' = 0 THEN "records" ELSE "payload"
              /\ got' = [got EXCEPT ![Len(got)] = Append(@, Head(cur))]
         [] OTHER -> state' = "error" /\ UNCHANGED <<need, got>>
    /\ UNCHANGED <<pipeVars, pack, senderVars, frame, done, rerr, reader>>

\* No more units: TDataEnd, the end of the stream, a cut frame and the
\* sender's error are all a truncated pack.
Truncated ==
    /\ Parsing /\ cur = <<>>
    /\ done \/ rerr # "none"
    /\ state' = "error"
    /\ UNCHANGED <<pipeVars, pack, senderVars, frame, cur, done, rerr, need, got, reader>>

\* get_exchange: after the end marker the rest of the pack is drained ...
\* Mutant: it is not.
DrainSkipped ==
    /\ reader = "records" /\ state = "end"
    /\ reader' = "dropped"
    /\ CancelUnlessAtEof
    /\ UNCHANGED <<pack, senderVars, frame, cur, done, rerr, state, need, got>>

Drain ==
    /\ reader = "records" /\ state = "end"
    /\ reader' = "drain"
    /\ cur' = <<>>
    /\ UNCHANGED <<pipeVars, pack, senderVars, frame, done, rerr, state, need, got>>

\* ... chunk by chunk ...
DrainChunk ==
    /\ reader = "drain" /\ cur # <<>>
    /\ cur' = <<>>
    /\ UNCHANGED <<pipeVars, pack, senderVars, frame, done, rerr, state, need, got, reader>>

\* ... to its end; after an error the receive half is dropped at once.
DropRecv ==
    /\ \/ reader = "drain" /\ cur = <<>> /\ (done \/ rerr # "none")
       \/ reader = "records" /\ state = "error"
    /\ reader' = "dropped"
    /\ CancelUnlessAtEof
    /\ UNCHANGED <<pack, senderVars, frame, cur, done, rerr, state, need, got>>

\* The exchange's ctx ends, or the caller takes no more records.
Abandon ==
    /\ reader \in {"records", "drain"}
    /\ reader' = "abandoned"
    /\ CancelUnlessAtEof
    /\ UNCHANGED <<pack, senderVars, frame, cur, done, rerr, state, need, got>>

Reader == ReadSleeps \/ ReadFrame \/ ReadEof \/ ParseUnit \/ Truncated \/ Drain \/ DrainChunk \/ DropRecv

-----------------------------------------------------------------------------
Gone == sender \in {"closed", "reset"} /\ reader \in {"dropped", "abandoned"}

Finished == Gone /\ UNCHANGED vars

Next == Sender \/ SendErr \/ DropSend \/ Reader \/ Abandon \/ Finished

\* Both tasks are run whenever they are awake.
Fairness == WF_vars(Sender) /\ WF_vars(Reader)

Spec == Init /\ [][Next]_vars /\ Fairness

-----------------------------------------------------------------------------
TypeOK ==
    /\ Len(buf) <= PipeLimit
    /\ asleep \subseteq {"reader", "writer"}
    /\ Len(bw) <= BufioSize /\ Len(chunk) < ChunkSize
    /\ sent \in 0..Len(pack)
    /\ sender \in {"open", "finishing", "failing", "closed", "reset"}
    /\ reader \in {"records", "drain", "dropped", "abandoned"}
    /\ state \in {"magic", "records", "payload", "end", "error"}
    /\ rerr \in {"none", "eof", "cut", "remote"}

Received == IF need > 0 THEN Len(got) - 1 ELSE Len(got)

\* What next() returned are the records that were added, whole and in order,
\* however they were buffered, cut into chunks and frames and written piece by
\* piece; and a clean end comes only after every one of them: a sender that
\* was dropped, failed or was cut off is never taken for one that finished.
CleanEndMeansAll ==
    /\ TypeOK
    /\ \A i \in 1..Received : i <= sent /\ got[i] = Record(i)
    /\ state = "end" => Received = Len(pack)

\* A reader that takes the whole pack and drains it never resets the sender:
\* a sender fails only when the reader gave up or the pack was cut short.
NoReset == sender = "reset" => state = "error" \/ reader = "abandoned"

\* Neither task sleeps for ever: the pipe wakes the writer when there is room
\* and the reader when there is something to read, also when the other half is
\* dropped in the middle of a frame.
StreamEnds == <>Gone
=============================================================================
