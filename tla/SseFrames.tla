----------------------------- MODULE SseFrames -----------------------------
(***************************************************************************)
(* SSE bodies as the client sees them: what the handler writes for a frame *)
(* (axp-transport/src/attach.rs), and SseFrameDecoder, which turns chunks  *)
(* of bytes into frames (axp-client/src/rpc.rs).                           *)
(*                                                                         *)
(* A body is a sequence of tokens, and may be cut between any two of them: *)
(* an id field, the field name "data:", the two halves of a frame's JSON,  *)
(* a comment, CR and LF.  The halves meet at a comma, where JSON allows a  *)
(* line break.                                                             *)
(***************************************************************************)
EXTENDS Naturals, Sequences, SequencesExt

CONSTANT FrameCount     \* how many frames a job writes at most

Frame == 1..FrameCount

Token == [t : {"id", "data", "comment", "cr", "lf"}, k : {0}] \cup [t : {"head", "tail"}, k : Frame]

Mark(t) == [t |-> t, k |-> 0]
Half(t, k) == [t |-> t, k |-> k]
CR == Mark("cr")
LF == Mark("lf")

-----------------------------------------------------------------------------
(* What a server writes *)

\* How lines end, whether the data is on one line or two, and whether the body
\* ends with a blank line: this server writes plain LF, one line, a blank line;
\* others may not.
Style == [crlf : BOOLEAN, split : BOOLEAN, unfinished : BOOLEAN]

OwnStyle == [crlf |-> FALSE, split |-> FALSE, unfinished |-> FALSE]

Newline(style) == IF style.crlf THEN <<CR, LF>> ELSE <<LF>>

\* The event of frame k: id, data, and the blank line that ends it.
EventOf(style, k) ==
    LET nl == Newline(style)
    IN <<Mark("id")>> \o nl \o <<Mark("data"), Half("head", k)>>
       \o (IF style.split THEN nl \o <<Mark("data")>> ELSE <<>>)
       \o <<Half("tail", k)>> \o nl
       \o (IF style.unfinished /\ k = FrameCount THEN <<>> ELSE nl)

\* KeepAlive: a comment.
KeepAliveOf(style) == <<Mark("comment")>> \o Newline(style) \o Newline(style)

-----------------------------------------------------------------------------
(* The decoder *)

\* SseFrameDecoder: the bytes of an unfinished line; and of an unfinished event
\* what decode_sse_event makes of its lines, whether there are data lines and what
\* they hold together.  The LF between two of them is white space to JSON.
EmptyDecoder == [pending |-> <<>>, sawData |-> FALSE, data |-> <<>>]

StripCR(line) == IF line # <<>> /\ Last(line) = CR THEN Front(line) ELSE line

IsData(line) == line # <<>> /\ Head(line) = Mark("data")

\* decode_sse_event: one line of the event; only the data lines count.
AddLine(s, whole) ==
    LET line == StripCR(whole)
    IN IF IsData(line) THEN [s EXCEPT !.sawData = TRUE, !.data = @ \o Tail(line)] ELSE s

FrameJson(k) == <<Half("head", k), Half("tail", k)>>

\* decode_sse_event: no data is no frame, and data that is no frame is an error.
EndEvent(s) ==
    LET next == [s EXCEPT !.sawData = FALSE, !.data = <<>>]
        parsed == {k \in Frame : s.data = FrameJson(k)}
    IN IF ~s.sawData THEN next
       ELSE IF parsed = {} THEN [next EXCEPT !.failed = TRUE]
       ELSE [next EXCEPT !.frames = Append(@, CHOOSE k \in parsed : TRUE)]

\* The line is complete; a blank one ends an event.
EndLine(s) ==
    LET line == StripCR(s.line)
        next == [s EXCEPT !.line = <<>>]
    IN IF line = <<>> THEN EndEvent(next) ELSE AddLine(next, line)

\* push: one more byte, until there is an error, after which no caller goes on.
Feed(s, token) ==
    IF s.failed THEN s
    ELSE IF token = LF THEN EndLine(s)
    ELSE [s EXCEPT !.line = Append(@, token)]

\* The states after the tokens of a text, one after the other.
Scan(start, text) ==
    LET read[n \in 0..Len(text)] == IF n = 0 THEN start ELSE Feed(read[n - 1], text[n])
    IN read

\* Where the scan of a text starts: behind the lines that are complete.
StartOf(decoder) ==
    [line |-> <<>>, sawData |-> decoder.sawData, data |-> decoder.data,
     frames |-> <<>>, failed |-> FALSE]

DecoderOf(s) == [pending |-> s.line, sawData |-> s.sawData, data |-> s.data]

Consume(decoder, text) ==
    LET s == Scan(StartOf(decoder), text)[Len(text)]
    IN [decoder |-> DecoderOf(s), failed |-> s.failed, frames |-> s.frames]

\* Mutant of Push: each chunk is scanned on its own.
PushForgetful(decoder, chunk) == Consume(decoder, chunk)

\* push: the lines that are complete are consumed, the rest stays.
Push(decoder, chunk) == Consume(decoder, decoder.pending \o chunk)

\* finish: what is left is an event too.
Finish(decoder) == EndEvent(AddLine(StartOf(decoder), decoder.pending))

\* parse_sse_frames: push of the whole body, then finish.
ParseFrames(body) ==
    LET pushed == Push(EmptyDecoder, body)
        rest == Finish(pushed.decoder)
    IN [failed |-> pushed.failed \/ rest.failed, frames |-> pushed.frames \o rest.frames]

=============================================================================
