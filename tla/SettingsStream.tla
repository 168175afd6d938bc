------------------------------ MODULE SettingsStream ------------------------------
(* SettingsStreamReceiver: the frames of the settings link are cut out of a    *)
(* stream of bytes in which anything may precede, interrupt or follow them.    *)
(* The loop that owns it reads the bytes that have arrived, then polls, once a *)
(* tick (main.cpp, serviceUsbSettings).                                        *)
(*                                                                             *)
(*   buffer   the first bufferedSize_ bytes of buffer_                         *)
(*   expected expectedSize_                                                    *)
(*   since    ticks since the last byte: nowMs - lastByteTimeMs_               *)
(*   event    what consume() or poll() returned last                           *)
(*   polled   the loop has polled since the last tick                          *)
(*   sending, intact  the frame a peer has left to send, and whether it began  *)
(*            out of any other frame and without a silence inside (history)    *)
(*   tail     the last bytes heard without a silence, from one that may begin  *)
(*            a frame on (history)                                             *)
EXTENDS Naturals, Sequences, SequencesExt

CONSTANTS Timeout,      \* interByteTimeoutMs in ticks
          ClockPeriod   \* ticks in 2^32 ms

\* The timeout is 250 ms on the device: the loop polls after it long before the
\* clock comes back to the same value.
ASSUME ClockOutlastsTimeout ==
    Timeout \in Nat /\ ClockPeriod \in Nat /\ Timeout + 1 < ClockPeriod

\* The letters of the magic, shortened: its first letter does not come back in it.
Magic == <<"B", "M">>
Version == "version"
Sizes == {"empty", "full"}
Checksum == "checksum"
AllBytes == Range(Magic) \cup Sizes \cup {Version, Checksum}
PayloadSize(byte) == CASE byte = "empty" -> 0 [] byte = "full" -> 1 [] OTHER -> 2
MaximumPayload == 1
HeaderSize == Len(Magic) + 2
MaximumFrameSize == HeaderSize + MaximumPayload + 1

VARIABLES buffer, expected, since, event, polled, sending, intact, tail
receiverVars == <<buffer, expected>>
streamVars == <<buffer, expected, since, event, polled, sending, intact, tail>>
-----------------------------------------------------------------------------
None == [type |-> "none"]
TimedOut == [type |-> "timed_out"]
Rejected(status) == [type |-> "rejected", status |-> status]
FrameReady(frame) == [type |-> "ready", frame |-> frame]

\* decode(), on a buffer that holds the magic and as many bytes as its size says.
\* The letter Version stands for the version and the reserved byte after it, and its
\* refusal for both of theirs (unsupported version, reserved field set).
DecodeStatus(frame) ==
    IF frame[Len(Magic) + 1] # Version THEN "unsupported_version"
    ELSE IF Last(frame) # Checksum THEN "checksum_mismatch"
    ELSE "ok"

\* expired(), on a clock that wraps.
Expired == buffer # <<>> /\ since % ClockPeriod > Timeout

\* consumeSynchronized(): the bytes kept, the size expected and the event.
\* Mutant: a byte that breaks the magic is never the first one of another.
SearchWithoutRestart(held, byte) ==
    IF byte = Magic[Len(held) + 1] THEN Append(held, byte) ELSE <<>>
Search(held, byte) ==
    IF byte = Magic[Len(held) + 1] THEN Append(held, byte)
    ELSE IF byte = Magic[1] THEN <<byte>>
    ELSE <<>>

Keep(held, size) == [buffer |-> held, expected |-> size, event |-> None]
Drop(e) == [buffer |-> <<>>, expected |-> 0, event |-> e]

\* Mutant: the size of the payload is not bounded.
CollectAnySize(held, size, byte) ==
    LET grown == Append(held, byte)
        known == IF Len(grown) = HeaderSize
                 THEN HeaderSize + PayloadSize(byte) + 1 ELSE size
    IN IF known = 0 \/ Len(grown) < known THEN Keep(grown, known)
       ELSE IF DecodeStatus(grown) = "ok" THEN Drop(FrameReady(grown))
       ELSE Drop(Rejected(DecodeStatus(grown)))
Collect(held, size, byte) ==
    LET grown == Append(held, byte)
        known == IF Len(grown) = HeaderSize
                 THEN HeaderSize + PayloadSize(byte) + 1 ELSE size
    IN IF Len(grown) = HeaderSize /\ PayloadSize(byte) > MaximumPayload
       THEN Drop(Rejected("payload_too_large"))
       ELSE IF known = 0 \/ Len(grown) < known THEN Keep(grown, known)
       ELSE IF DecodeStatus(grown) = "ok" THEN Drop(FrameReady(grown))
       ELSE Drop(Rejected(DecodeStatus(grown)))

ConsumeSynchronized(held, size, byte) ==
    IF Len(held) < Len(Magic) THEN Keep(Search(held, byte), 0)
    ELSE IF Len(held) >= MaximumFrameSize THEN Drop(Rejected("too_long"))
    ELSE Collect(held, size, byte)

\* consume(): what was left of a frame before a silence is dropped first.
\* Mutant: the silence before a byte is not looked at.
ConsumedWithoutTimeout(byte) ==
    LET r == ConsumeSynchronized(buffer, expected, byte)
    IN /\ buffer' = r.buffer /\ expected' = r.expected /\ event' = r.event
Consumed(byte) ==
    LET r == IF Expired THEN ConsumeSynchronized(<<>>, 0, byte)
             ELSE ConsumeSynchronized(buffer, expected, byte)
    IN /\ buffer' = r.buffer /\ expected' = r.expected
       /\ event' = IF r.event = None /\ Expired THEN TimedOut ELSE r.event

\* History: what precedes the first letter of the magic cannot be in a frame.
TailAfter(byte) ==
    LET heard == IF since > Timeout THEN <<byte>> ELSE Append(tail, byte)
        starts == {n \in DOMAIN heard : /\ heard[n] = Magic[1]
                                        /\ Len(heard) - n < MaximumFrameSize}
    IN IF starts = {} THEN <<>> ELSE SubSeq(heard, Min(starts), Len(heard))

Hear(byte) ==
    /\ polled = FALSE
    /\ Consumed(byte)
    /\ since' = 0
    /\ tail' = TailAfter(byte)
    /\ UNCHANGED polled
-----------------------------------------------------------------------------
\* The line: noise, and frames a peer sends byte by byte.  A peer that stops in
\* the middle of a frame is noise too.
WellFormed(frame) ==
    /\ Len(frame) > HeaderSize
    /\ SubSeq(frame, 1, Len(Magic)) = Magic
    /\ frame[Len(Magic) + 1] = Version
    /\ Len(frame) = HeaderSize + PayloadSize(frame[HeaderSize]) + 1
    /\ Len(frame) <= MaximumFrameSize
    /\ Last(frame) = Checksum
Frames == {Magic \o <<Version, "empty", Checksum>>}
              \cup {Magic \o <<Version, "full", b, Checksum>> : b \in {"B", Checksum}}

Noise(byte) ==
    /\ sending = <<>>
    /\ Hear(byte)
    /\ intact' = FALSE
    /\ UNCHANGED sending

\* A frame begins while the receiver is not inside another one.
Searching == Len(buffer) < Len(Magic) \/ Expired
StartFrame(frame) ==
    /\ sending = <<>>
    /\ Hear(Head(frame))
    /\ intact' = Searching
    /\ sending' = Tail(frame)
ContinueFrame ==
    /\ sending # <<>>
    /\ Hear(Head(sending))
    /\ intact' = (intact /\ since <= Timeout)
    /\ sending' = Tail(sending)

\* poll().
Poll ==
    /\ polled = FALSE
    /\ polled' = TRUE
    /\ IF Expired
       THEN buffer' = <<>> /\ expected' = 0 /\ event' = TimedOut
       ELSE event' = None /\ UNCHANGED receiverVars
    /\ UNCHANGED <<since, sending, intact, tail>>

\* Bound: a silence of more than a clock period is not measured further.
Tick ==
    /\ polled
    /\ polled' = FALSE
    /\ since' = IF since > ClockPeriod THEN since ELSE since + 1
    /\ UNCHANGED <<buffer, expected, event, sending, intact, tail>>

StreamInit ==
    /\ buffer = <<>> /\ expected = 0 /\ since = 0
    /\ event = None /\ polled = FALSE
    /\ sending = <<>> /\ intact = FALSE /\ tail = <<>>

StreamNext ==
    \/ \E byte \in AllBytes : Noise(byte)
    \/ \E frame \in Frames : StartFrame(frame)
    \/ ContinueFrame \/ Poll \/ Tick

StreamSpec == StreamInit /\ [][StreamNext]_streamVars
-----------------------------------------------------------------------------
\* Type invariant.  The receiver never waits for more bytes than its buffer has
\* room for, nor with a complete frame in it (settings_stream.cpp,
\* consumeSynchronized).
StreamTypeOK ==
    /\ buffer \in Seq(AllBytes)
    /\ since \in 0..(ClockPeriod + 1)
    /\ event.type \in {"none", "timed_out", "rejected", "ready"}
    /\ expected # 0 => Len(buffer) < expected /\ expected <= MaximumFrameSize
    /\ expected = 0 => Len(buffer) < HeaderSize

\* A frame that is delivered was heard as such, in one piece and without a
\* silence inside, for a fragment does not outlive the silence that ends it,
\* although the clock wraps: fragments of two frames are never spliced
\* (settings_stream.cpp, consume, poll).
FramesAreGenuine ==
    /\ event.type = "ready" =>
          WellFormed(event.frame) /\ IsSuffix(event.frame, tail)
    /\ buffer # <<>> => since <= Timeout + 1

\* A frame sent in one piece is delivered with its last byte, whatever noise came
\* before it, provided it did not begin inside another frame
\* (settings_stream.cpp, consumeSynchronized).
IntactFrameIsDelivered ==
    [][ContinueFrame /\ sending' = <<>> /\ intact' => event'.type = "ready"]_streamVars
=============================================================================
