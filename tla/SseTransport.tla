---------------------------- MODULE SseTransport -----------------------------
(***************************************************************************)
(* Reading server-sent events, src/mcp/sse.go.  A stream is a sequence of   *)
(* lines: [field |-> "event", value |-> e], [field |-> "data", value |-> d],*)
(* a comment or unknown field, or a blank line; after it the body ends.     *)
(***************************************************************************)
EXTENDS Naturals, Sequences, FiniteSetsExt

SseLine(f, v) == [field |-> f, value |-> v]
Content(line) == line.field \in {"event", "data"}

\* readSSEEvent: an event ends at the first blank line after some content, or
\* at the end of the body; there is no event when no content is left.
EventEnds(lines, i) ==
    {k \in i .. Len(lines) : /\ lines[k].field = "blank"
                             /\ \E j \in i .. k : Content(lines[j])}
HasEvent(lines, i) == \E j \in i .. Len(lines) : Content(lines[j])
EventEnd(lines, i) == IF EventEnds(lines, i) = {} THEN Len(lines) + 1
                      ELSE Min(EventEnds(lines, i))
ReadEvent(lines, i) ==
    LET part == SubSeq(lines, i, EventEnd(lines, i) - 1)
        named == {k \in DOMAIN part : part[k].field = "event"}
        isData(l) == l.field = "data"
        data == SelectSeq(part, isData)
    IN  [event |-> IF named = {} THEN "" ELSE part[Max(named)].value,
         data |-> [k \in DOMAIN data |-> data[k].value]]

\* readEndpoint skips events until the endpoint event: the index of the line
\* after it, 0 when the body ends first.
ReadEndpoint(lines) ==
    LET from[i \in 1 .. Len(lines) + 2] ==
            IF i > Len(lines) \/ ~HasEvent(lines, i) THEN 0
            ELSE IF ReadEvent(lines, i).event = "endpoint" THEN EventEnd(lines, i) + 1
            ELSE from[EventEnd(lines, i) + 1]
    IN  from[1]

\* pump: the lines fed to the JSON-RPC codec by the events from line i on.
Pumped(lines, i) ==
    LET from[n \in 1 .. Len(lines) + 2] ==
            IF n > Len(lines) \/ ~HasEvent(lines, n) THEN <<>>
            ELSE LET e == ReadEvent(lines, n)
                     rest == from[EventEnd(lines, n) + 1]
                 IN  IF e.event \in {"", "message"} THEN e.data \o rest ELSE rest
    IN  from[i]
=============================================================================
