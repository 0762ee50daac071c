------------------------ MODULE ResponseStream_proofs ------------------------
(***************************************************************************)
(* Proof that an Anthropic client sees well-formed blocks, whatever the     *)
(* tool parsers surface.  The parsers are constants of ResponseStream; all  *)
(* that is asked of them is what Go's types say: the calls of a delta are a *)
(* slice.                                                                  *)
(***************************************************************************)
EXTENDS ResponseStream, InductionLemmas, SequenceTheorems

\* A tool parser as its caller knows it.  Reached[p] holds the states of parser p
\* with the text and the length it was fed: a new parser's, and with a state the
\* one after the next delta, which surfaces a sequence of entries.
IsSequence(s) == \E X : s \in Seq(X)
ToolParserInterface(Reached) ==
    \A p \in DOMAIN Outputs : \A text \in Outputs[p] :
        /\ <<NewParser(p), text, 0>> \in Reached[p]
        /\ \A s : \A i \in 0 .. Len(text) :
             <<s, text, i>> \in Reached[p] =>
                \A j \in i + 1 .. Len(text) :
                    LET cur == SubSeq(text, 1, j)
                        out == ExtractToolCallsStreaming(p, s, SubSeq(text, 1, i), cur, From(cur, i + 1))
                    IN  <<out.s, text, j>> \in Reached[p] /\ IsSequence(out.delta.calls)

-----------------------------------------------------------------------------
(* Logs of events.                                                          *)

IsEvent(e) == e = Event(e.name, e.index, e.type, e.text) /\ e.index \in Int
Linked(log, i) == OpensBlock(log, i) \/ GoesOn(log, i) \/ EndsMessage(log, i)

\* A log whose events follow one another as they should.
IsLog(log) == IsSequence(log) /\ \A i \in 1 .. Len(log) : IsEvent(log[i]) /\ Linked(log, i)

\* Every block of the log is closed and the next one has this index; or the last
\* block is still open.
AllClosed(log, index) ==
    IF Len(log) = 0 THEN index = 0
    ELSE log[Len(log)].name = "stop" /\ index = log[Len(log)].index + 1
StillOpen(log, index, type) ==
    /\ Len(log) > 0 /\ log[Len(log)].name = "delta"
    /\ log[Len(log)].index = index /\ log[Len(log)].type = type

\* No block is a tool call, and the message goes on.
Plain(log) == \A i \in 1 .. Len(log) : log[i].type # "tool_use" /\ log[i].name # "message_stop"

\* What may be appended to a log.
Fits(log, e) ==
    \/ /\ e.name = "start" /\ AllClosed(log, e.index)
       /\ Len(log) > 0 => (e.type = log[Len(log)].type <=> log[Len(log)].type = "tool_use")
    \/ /\ Len(log) > 0 /\ e.index = log[Len(log)].index /\ e.type = log[Len(log)].type
       /\ \/ e.name = "delta" /\ log[Len(log)].name = "start"
          \/ e.name = "stop" /\ log[Len(log)].name = "delta"
    \/ e.name = "message_stop" /\ (Len(log) > 0 => log[Len(log)].name = "stop")

\* What appending an event does to a log.
Extends(new, log, e) ==
    /\ Len(log) \in Nat /\ Len(new) = Len(log) + 1 /\ new[Len(log) + 1] = e
    /\ \A i \in 1 .. Len(log) : new[i] = log[i]

\* Appending to any sequence.
LEMMA AppendAny ==
    ASSUME NEW log, IsSequence(log), NEW e
    PROVE  IsSequence(Append(log, e)) /\ Extends(Append(log, e), log, e) /\ Append(log, e) = log \o <<e>>
<1>1. PICK X : log \in Seq(X)
  BY DEF IsSequence
<1>2. PICK Y : Y = X \cup {e}
  OBVIOUS
<1>3. log \in Seq(Y) /\ e \in Y
  BY <1>1, <1>2, SeqMonotonic
<1>4. /\ Append(log, e) \in Seq(Y) /\ Len(Append(log, e)) = Len(log) + 1
      /\ Append(log, e)[Len(log) + 1] = e /\ Len(log) \in Nat
  BY <1>3, AppendProperties, LenProperties, Zenon
<1>5. \A i \in 1 .. Len(log) : Append(log, e)[i] = log[i]
  BY <1>3
<1>6. Append(log, e) = log \o <<e>>
  BY <1>3, AppendIsConcat, Zenon
<1> QED BY <1>4, <1>5, <1>6 DEF Extends, IsSequence

\* Appending an event that fits keeps a log a log.
LEMMA AppendFits ==
    ASSUME NEW log, IsLog(log), NEW e, IsEvent(e), Fits(log, e)
    PROVE  /\ IsLog(Append(log, e)) /\ Extends(Append(log, e), log, e)
           /\ Append(log, e) = log \o <<e>>
<1>1. PICK new : new = Append(log, e)
  OBVIOUS
<1>2. IsSequence(new) /\ Extends(new, log, e) /\ new = log \o <<e>>
  BY <1>1, AppendAny DEF IsLog
<1>3. PICK n \in Nat : /\ n = Len(log) /\ Len(new) = n + 1 /\ new[n + 1] = e
                       /\ \A i \in 1 .. n : new[i] = log[i]
  BY <1>2 DEF Extends
<1>4. ASSUME NEW i \in 1 .. n
      PROVE  IsEvent(new[i]) /\ Linked(new, i)
  <2>1. IsEvent(log[i]) /\ Linked(log, i) /\ new[i] = log[i]
    BY <1>3 DEF IsLog
  <2>2. i > 1 => i - 1 \in 1 .. n
    OBVIOUS
  <2>3. i > 1 => new[i - 1] = log[i - 1]
    BY <1>3, <2>2
  <2>4. OpensBlock(log, i) => OpensBlock(new, i)
    BY <2>1, <2>3 DEF OpensBlock
  <2>5. GoesOn(log, i) => GoesOn(new, i)
    BY <2>1, <2>3 DEF GoesOn
  <2>6. EndsMessage(log, i) => EndsMessage(new, i)
    BY <2>1, <2>3 DEF EndsMessage
  <2> QED BY <2>1, <2>4, <2>5, <2>6 DEF Linked
<1>5. Linked(new, n + 1)
  <2>1. PICK k \in Nat : k = n + 1 /\ k - 1 = n /\ new[k] = e
    BY <1>3
  <2>2. n > 0 => new[k - 1] = log[n]
    BY <1>3, <2>1
  <2>3. (n = 0 <=> k = 1) /\ (n > 0 <=> k > 1)
    BY <2>1
  <2>4. Linked(new, k)
    BY <1>3, <2>1, <2>2, <2>3 DEF Linked, Fits, AllClosed, OpensBlock, GoesOn, EndsMessage
  <2> QED BY <2>1, <2>4
<1>6. IsLog(new)
  <2>1. ASSUME NEW i \in 1 .. n + 1
        PROVE  IsEvent(new[i]) /\ Linked(new, i)
    <3>1. i \in 1 .. n \/ i = n + 1
      OBVIOUS
    <3> QED BY <1>3, <1>4, <1>5, <3>1
  <2> QED BY <1>2, <1>3, <2>1 DEF IsLog
<1> QED BY <1>1, <1>2, <1>6

-----------------------------------------------------------------------------
(* The block streamer.                                                      *)

\* The streamer and what it has written agree.
StreamOf(b, log) ==
    /\ IsLog(log) /\ Plain(log) /\ b.index \in Nat /\ b.opened \in BOOLEAN
    /\ b.opened => b.current \in {"text", "thinking"} /\ StillOpen(log, b.index, b.current)
    /\ ~b.opened => b.current = "" /\ b.index = 0 /\ Len(log) = 0

\* A record of an event.
LEMMA EventFacts ==
    ASSUME NEW name, NEW index \in Int, NEW type, NEW text
    PROVE  /\ IsEvent(Event(name, index, type, text))
           /\ Event(name, index, type, text).name = name /\ Event(name, index, type, text).index = index
           /\ Event(name, index, type, text).type = type /\ Event(name, index, type, text).text = text
BY DEF IsEvent, Event

\* A plain log stays plain when a text or thinking event follows.
LEMMA PlainAppend ==
    ASSUME NEW log, NEW new, NEW e, Extends(new, log, e), Plain(log),
           e.type # "tool_use", e.name # "message_stop"
    PROVE  Plain(new)
<1>1. PICK n \in Nat : n = Len(log) /\ Len(new) = n + 1 /\ new[n + 1] = e /\ \A i \in 1 .. n : new[i] = log[i]
  BY DEF Extends
<1>2. \A i \in 1 .. n + 1 : i \in 1 .. n \/ i = n + 1
  OBVIOUS
<1> QED BY <1>1, <1>2 DEF Plain

\* A delta joined to the last one.
LEMMA JoinKeeps ==
    ASSUME NEW log, IsLog(log), Plain(log), NEW index, NEW type, StillOpen(log, index, type),
           NEW e, e.name = "delta", e.index = index, e.type = type
    PROVE  /\ IsLog(Written(log, e)) /\ Plain(Written(log, e)) /\ StillOpen(Written(log, e), index, type)
<1>0. PICK X : log \in Seq(X)
  BY DEF IsLog, IsSequence
<1>1. PICK n \in Nat \ {0} : n = Len(log) /\ log \in Seq(X)
  BY <1>0 DEF StillOpen
<1>2. PICK old : /\ old = log[n] /\ old = Event(old.name, old.index, old.type, old.text)
                 /\ old.name = "delta" /\ old.index = index /\ old.type = type /\ index \in Int
  BY <1>1 DEF IsLog, IsEvent, StillOpen
<1>3. PICK joined : joined = Event("delta", index, type, old.text \o e.text)
  OBVIOUS
<1>4. PICK new : new = [log EXCEPT ![n] = joined]
  OBVIOUS
<1>5. Written(log, e) = new
  <2>2. log # <<>> /\ Last(log) = old
    BY <1>1, <1>2 DEF Last
  <2>3. Written(log, e) = [log EXCEPT ![n] = Event(e.name, e.index, e.type, log[n].text \o e.text)]
    BY <1>1, <1>2, <2>2 DEF Written
  <2> QED BY <1>2, <1>3, <1>4, <2>3
<1>6. new \in Seq(X \cup {joined}) /\ Len(new) = n /\ \A i \in 1 .. n : new[i] = IF i = n THEN joined ELSE log[i]
  BY <1>1, <1>4
<1>7. ASSUME NEW i \in 1 .. n
      PROVE  /\ new[i].name = log[i].name /\ new[i].index = log[i].index /\ new[i].type = log[i].type
             /\ IsEvent(new[i])
  <2>1. CASE i = n
    <3>1. new[i] = joined
      BY <1>6, <2>1
    <3> QED BY <1>2, <1>3, <2>1, <3>1 DEF Event, IsEvent
  <2>2. CASE i # n
    BY <1>1, <1>6, <2>2 DEF IsLog
  <2> QED BY <2>1, <2>2
<1>8. ASSUME NEW i \in 1 .. n
      PROVE  Linked(new, i)
  <2>1. Linked(log, i)
    BY <1>1 DEF IsLog
  <2>2. i > 1 => i - 1 \in 1 .. n
    OBVIOUS
  <2>3. i > 1 => /\ new[i - 1].name = log[i - 1].name /\ new[i - 1].index = log[i - 1].index
                 /\ new[i - 1].type = log[i - 1].type
    BY <1>7, <2>2
  <2>4. /\ new[i].name = log[i].name /\ new[i].index = log[i].index /\ new[i].type = log[i].type
    BY <1>7
  <2>5. OpensBlock(log, i) => OpensBlock(new, i)
    BY <2>3, <2>4 DEF OpensBlock
  <2>6. GoesOn(log, i) => GoesOn(new, i)
    BY <2>3, <2>4 DEF GoesOn
  <2>7. EndsMessage(log, i) => EndsMessage(new, i)
    BY <2>3, <2>4 DEF EndsMessage
  <2> QED BY <2>1, <2>5, <2>6, <2>7 DEF Linked
<1>9. IsLog(new)
  BY <1>6, <1>7, <1>8 DEF IsLog, IsSequence
<1>10. Plain(new)
  BY <1>1, <1>6, <1>7 DEF Plain
<1>11. StillOpen(new, index, type)
  <2>1. Len(new) = n /\ new[n] = joined
    BY <1>6
  <2>2. joined.name = "delta" /\ joined.index = index /\ joined.type = type
    BY <1>3 DEF Event
  <2> QED BY <2>1, <2>2 DEF StillOpen
<1> QED BY <1>5, <1>9, <1>10, <1>11

\* Closing the last block of a log.
Stopped(log, index, type) == Append(log, Event("stop", index, type, <<>>))
ClosedBy(new, log, index, type) ==
    /\ IsLog(new) /\ Plain(new) /\ AllClosed(new, index + 1)
    /\ Len(new) > 0 /\ new[Len(new)].type = type
    /\ new = log \o <<Event("stop", index, type, <<>>)>>
LEMMA StopKeeps ==
    ASSUME NEW log, IsLog(log), Plain(log), NEW index \in Nat, NEW type \in {"text", "thinking"},
           StillOpen(log, index, type)
    PROVE  ClosedBy(Stopped(log, index, type), log, index, type)
<1>0. PICK new : new = Stopped(log, index, type)
  OBVIOUS
<1>1. PICK e : e = Event("stop", index, type, <<>>)
  OBVIOUS
<1>2. IsEvent(e) /\ e.name = "stop" /\ e.index = index /\ e.type = type
  BY <1>1, EventFacts
<1>3. Fits(log, e)
  BY <1>2 DEF Fits, StillOpen
<1>4. IsLog(new) /\ Extends(new, log, e) /\ new = log \o <<e>>
  <2>1. new = Append(log, e)
    BY <1>0, <1>1 DEF Stopped
  <2> QED BY <1>2, <1>3, <2>1, AppendFits
<1>5. Plain(new)
  BY <1>2, <1>4, PlainAppend
<1>6. Len(new) > 0 /\ new[Len(new)] = e
  BY <1>4 DEF Extends
<1>7. AllClosed(new, index + 1)
  BY <1>2, <1>6 DEF AllClosed
<1> QED BY <1>0, <1>1, <1>2, <1>4, <1>5, <1>6, <1>7 DEF ClosedBy

\* A new block with its first text.
OpensWith(log, start, e) ==
    LET new == Written(Append(log, start), e)
    IN  /\ IsLog(new) /\ Plain(new) /\ StillOpen(new, e.index, e.type)
        /\ Append(log, start) = log \o <<start>>
LEMMA OpenKeeps ==
    ASSUME NEW log, IsLog(log), Plain(log), NEW index \in Nat, AllClosed(log, index),
           NEW type \in {"text", "thinking"}, Len(log) > 0 => log[Len(log)].type # type, NEW text
    PROVE  OpensWith(log, Event("start", index, type, <<>>), Event("delta", index, type, text))
<1>0. PICK start, e : start = Event("start", index, type, <<>>) /\ e = Event("delta", index, type, text)
  OBVIOUS
<1>1. /\ IsEvent(start) /\ start.name = "start" /\ start.index = index /\ start.type = type
      /\ IsEvent(e) /\ e.name = "delta" /\ e.index = index /\ e.type = type
  BY <1>0, EventFacts
<1>2. Fits(log, start)
  <2>1. Len(log) > 0 => (start.type = log[Len(log)].type <=> log[Len(log)].type = "tool_use")
    <3>1. ASSUME Len(log) > 0
          PROVE  log[Len(log)].type # "tool_use"
      <4>1. Len(log) \in 1 .. Len(log)
        BY <3>1, LenProperties DEF IsLog, IsSequence
      <4> QED BY <4>1 DEF Plain
    <3> QED BY <1>1, <3>1
  <2> QED BY <1>1, <2>1 DEF Fits
<1>3. PICK mid : mid = Append(log, start)
  OBVIOUS
<1>4. IsLog(mid) /\ Extends(mid, log, start) /\ mid = log \o <<start>>
  BY <1>1, <1>2, <1>3, AppendFits
<1>5. Plain(mid)
  BY <1>1, <1>4, PlainAppend
<1>6. Len(mid) > 0 /\ mid[Len(mid)] = start
  BY <1>4 DEF Extends
<1>7. PICK new : new = Append(mid, e)
  OBVIOUS
<1>8. Fits(mid, e)
  BY <1>1, <1>6 DEF Fits
<1>9. IsLog(new) /\ Extends(new, mid, e)
  BY <1>1, <1>4, <1>7, <1>8, AppendFits
<1>10. Plain(new)
  BY <1>1, <1>5, <1>9, PlainAppend
<1>11. StillOpen(new, index, type)
  <2>1. Len(new) > 0 /\ new[Len(new)] = e
    BY <1>9 DEF Extends
  <2> QED BY <1>1, <2>1 DEF StillOpen
<1>12. Written(mid, e) = new
  BY <1>1, <1>6, <1>7 DEF Written, Last
<1>13. OpensWith(log, start, e)
  BY <1>1, <1>3, <1>4, <1>9, <1>10, <1>11, <1>12 DEF OpensWith
<1> QED BY <1>0, <1>13, Zenon

\* What blockStreamer.delta writes keeps the streamer and the log in step.
LEMMA DeltaKeeps ==
    ASSUME NEW b, NEW log, StreamOf(b, log), NEW type \in {"text", "thinking"}, NEW text,
           NEW d, d = BlockDelta(b, type, text)
    PROVE  StreamOf(d.block, Written(log \o d.switch, d.delta))
<1>0. PICK X : log \in Seq(X)
  BY DEF StreamOf, IsLog, IsSequence
<1>1. PICK index \in Nat : index = IF b.opened /\ b.current # type THEN b.index + 1 ELSE b.index
  <2>1. b.index \in Nat
    BY Zenon DEF StreamOf
  <2>2. b.index + 1 \in Nat
    BY <2>1
  <2> QED BY <2>1, <2>2, Zenon
<1>2. PICK start, e : start = Event("start", index, type, <<>>) /\ e = Event("delta", index, type, text)
  OBVIOUS
<1>3. /\ d.block = [current |-> type, index |-> index, opened |-> TRUE] /\ d.delta = e
      /\ d.switch = IF b.current = type THEN <<>> ELSE Append(Stops(b), start)
  BY <1>1, <1>2 DEF BlockDelta
<1>4. PICK new : new = Written(log \o d.switch, d.delta)
  OBVIOUS
<1>5. IsLog(log) /\ Plain(log)
  BY DEF StreamOf
<1>6. IsLog(new) /\ Plain(new) /\ StillOpen(new, index, type)
  <2>1. CASE b.current = type
    <3>1. b.opened /\ StillOpen(log, index, type)
      BY <1>1, <2>1 DEF StreamOf
    <3>2. log \o d.switch = log
      BY <1>0, <1>3, <2>1, ConcatEmptySeq
    <3>3. e.name = "delta" /\ e.index = index /\ e.type = type
      BY <1>2, EventFacts
    <3> QED BY <1>3, <1>4, <1>5, <3>1, <3>2, <3>3, JoinKeeps
  <2>2. CASE b.current # type /\ ~b.opened
    <3>1. AllClosed(log, index) /\ Len(log) = 0
      BY <1>1, <2>2 DEF StreamOf, AllClosed
    <3>2. log \o d.switch = log \o <<start>>
      BY <1>3, <2>2 DEF Stops
    <3>3. Len(log) > 0 => log[Len(log)].type # type
      BY <3>1
    <3>4. OpensWith(log, Event("start", index, type, <<>>), Event("delta", index, type, text))
      BY <1>5, <3>1, <3>3, OpenKeeps
    <3>5. OpensWith(log, start, e) /\ e.index = index /\ e.type = type
      BY <1>2, <3>4, EventFacts
    <3>6. /\ IsLog(Written(Append(log, start), e)) /\ Plain(Written(Append(log, start), e))
          /\ StillOpen(Written(Append(log, start), e), index, type) /\ Append(log, start) = log \o <<start>>
      BY <3>5, Zenon DEF OpensWith
    <3> QED BY <1>3, <1>4, <3>2, <3>6
  <2>3. CASE b.current # type /\ b.opened
    <3>1. PICK was \in {"text", "thinking"}, at \in Nat :
              was = b.current /\ at = b.index /\ index = at + 1 /\ StillOpen(log, at, was)
      BY <1>1, <2>3 DEF StreamOf
    <3>2. PICK stop, closed : stop = Event("stop", at, was, <<>>) /\ closed = Append(log, stop)
      OBVIOUS
    <3>3. /\ IsLog(closed) /\ Plain(closed) /\ AllClosed(closed, index)
          /\ Len(closed) > 0 /\ closed[Len(closed)].type = was /\ closed = log \o <<stop>>
      <4>1. ClosedBy(Stopped(log, at, was), log, at, was)
        BY <1>5, <3>1, StopKeeps
      <4>2. closed = Stopped(log, at, was)
        BY <3>2 DEF Stopped
      <4>3. ClosedBy(closed, log, at, was)
        BY <4>1, <4>2
      <4> QED BY <3>1, <3>2, <4>3 DEF ClosedBy
    <3>4. /\ IsLog(Written(Append(closed, start), e)) /\ Plain(Written(Append(closed, start), e))
          /\ StillOpen(Written(Append(closed, start), e), index, type)
          /\ Append(closed, start) = closed \o <<start>>
      <4>1. Len(closed) > 0 => closed[Len(closed)].type # type
        BY <2>3, <3>1, <3>3
      <4>2. OpensWith(closed, Event("start", index, type, <<>>), Event("delta", index, type, text))
        BY <3>3, <4>1, OpenKeeps
      <4>3. OpensWith(closed, start, e) /\ e.index = index /\ e.type = type
        BY <1>2, <4>2, EventFacts
      <4> QED BY <4>3, Zenon DEF OpensWith
    <3>5. log \o d.switch = Append(closed, start)
      <4>1. PICK Y : Y = X \cup {stop, start}
        OBVIOUS
      <4>2. log \in Seq(Y) /\ <<stop>> \in Seq(Y) /\ <<start>> \in Seq(Y)
        BY <1>0, <4>1, SeqMonotonic
      <4>3. (log \o <<stop>>) \o <<start>> = log \o (<<stop>> \o <<start>>)
        BY <4>2, ConcatAssociative
      <4>4. d.switch = Append(<<stop>>, start)
        BY <1>3, <2>3, <3>1, <3>2 DEF Stops
      <4>5. Append(<<stop>>, start) = <<stop>> \o <<start>>
        OBVIOUS
      <4> QED BY <3>3, <3>4, <4>3, <4>4, <4>5
    <3> QED BY <1>3, <1>4, <3>4, <3>5
  <2> QED BY <2>1, <2>2, <2>3 DEF StreamOf
<1>7. StreamOf(d.block, new)
  <2>1. d.block.opened = TRUE /\ d.block.current = type /\ d.block.index = index
    BY <1>3
  <2> QED BY <1>6, <2>1 DEF StreamOf
<1> QED BY <1>4, <1>7

\* The end of the last block.
LEMMA CloseKeeps ==
    ASSUME NEW b, NEW log, StreamOf(b, log), NEW closed, closed = BlockClose(b)
    PROVE  /\ IsLog(log \o closed.events) /\ Plain(log \o closed.events)
           /\ closed.block.index \in Nat /\ AllClosed(log \o closed.events, closed.block.index)
<1>0. PICK X : log \in Seq(X)
  BY DEF StreamOf, IsLog, IsSequence
<1>1. PICK at \in Nat : at = b.index
  BY DEF StreamOf
<1>2. IsLog(log) /\ Plain(log)
  BY DEF StreamOf
<1>3. CASE b.opened
  <2>1. PICK type \in {"text", "thinking"} : type = b.current /\ StillOpen(log, at, type)
    BY <1>1, <1>3 DEF StreamOf
  <2>2. PICK new : new = Stopped(log, at, type)
    OBVIOUS
  <2>3. ClosedBy(new, log, at, type)
    BY <1>2, <2>1, <2>2, StopKeeps
  <2>4. closed.events = <<Event("stop", at, type, <<>>)>> /\ closed.block.index = at + 1
    BY <1>1, <1>3, <2>1 DEF BlockClose, Stops
  <2>5. log \o closed.events = new
    BY <2>3, <2>4 DEF ClosedBy
  <2> QED BY <2>3, <2>4, <2>5 DEF ClosedBy
<1>4. CASE ~b.opened
  <2>1. closed.events = <<>> /\ closed.block.index = at
    BY <1>1, <1>4 DEF BlockClose, Stops
  <2>2. log \o closed.events = log
    BY <1>0, <2>1, ConcatEmptySeq
  <2>3. AllClosed(log, at)
    BY <1>1, <1>4 DEF StreamOf, AllClosed
  <2> QED BY <1>2, <2>1, <2>2, <2>3
<1>5. b.opened \in BOOLEAN
  BY DEF StreamOf
<1> QED BY <1>3, <1>4, <1>5

-----------------------------------------------------------------------------
(* The blocks of the calls.                                                 *)

\* A log between two blocks, which has a call's block or does not.
HasCall(log) == \E i \in 1 .. Len(log) : log[i].name = "start" /\ log[i].type = "tool_use"
BetweenBlocks(log, index, called) ==
    /\ IsLog(log) /\ index \in Nat /\ AllClosed(log, index)
    /\ IF called THEN HasCall(log) ELSE Plain(log)

\* Three singletons in a row.
LEMMA Together ==
    ASSUME NEW Y, NEW a \in Y, NEW b \in Y, NEW c \in Y
    PROVE  (<<a>> \o <<b>>) \o <<c>> = <<a, b, c>>
<1>1. PICK s, t, u : t = <<a>> \o <<b>> /\ u = <<a, b, c>> /\ s = t \o <<c>>
  OBVIOUS
<1>2. t \in Seq(Y) /\ Len(t) = 2 /\ t[1] = a /\ t[2] = b
  BY <1>1
<1>3. s \in Seq(Y) /\ Len(s) = 3 /\ s[1] = a /\ s[2] = b /\ s[3] = c
  BY <1>1, <1>2
<1>4. u \in Seq(Y) /\ Len(u) = 3 /\ u[1] = a /\ u[2] = b /\ u[3] = c
  BY <1>1
<1>5. \A i \in 1 .. 3 : s[i] = u[i]
  BY <1>3, <1>4
<1>6. s = u
  BY <1>3, <1>4, <1>5, SeqEqual
<1> QED BY <1>1, <1>6

\* One block of a call.
LEMMA ToolBlockKeeps ==
    ASSUME NEW log, NEW index, NEW called \in BOOLEAN, BetweenBlocks(log, index, called), NEW call
    PROVE  BetweenBlocks(log \o ToolBlock(call, index), index + 1, TRUE)
<1>1. PICK start, delta, stop : /\ start = Event("start", index, "tool_use", call.name)
                                /\ delta = Event("delta", index, "tool_use", call.args)
                                /\ stop = Event("stop", index, "tool_use", <<>>)
  OBVIOUS
<1>i. index \in Nat /\ index \in Int /\ IsLog(log) /\ AllClosed(log, index)
  BY DEF BetweenBlocks
<1>2. /\ IsEvent(start) /\ start.name = "start" /\ start.index = index /\ start.type = "tool_use"
      /\ IsEvent(delta) /\ delta.name = "delta" /\ delta.index = index /\ delta.type = "tool_use"
      /\ IsEvent(stop) /\ stop.name = "stop" /\ stop.index = index /\ stop.type = "tool_use"
  BY <1>1, <1>i, EventFacts
<1>3. PICK one : one = Append(log, start)
  OBVIOUS
<1>4. IsLog(one) /\ Extends(one, log, start) /\ one = log \o <<start>>
  <2>1. Fits(log, start)
    BY <1>2, <1>i DEF Fits
  <2> QED BY <1>2, <1>3, <1>i, <2>1, AppendFits
<1>5. PICK two : two = Append(one, delta)
  OBVIOUS
<1>6. IsLog(two) /\ Extends(two, one, delta) /\ two = one \o <<delta>>
  <2>1. Len(one) > 0 /\ one[Len(one)] = start
    BY <1>4 DEF Extends
  <2>2. Fits(one, delta)
    BY <1>2, <2>1 DEF Fits
  <2> QED BY <1>2, <1>4, <1>5, <2>2, AppendFits
<1>7. PICK three : three = Append(two, stop)
  OBVIOUS
<1>8. IsLog(three) /\ Extends(three, two, stop) /\ three = two \o <<stop>>
  <2>1. Len(two) > 0 /\ two[Len(two)] = delta
    BY <1>6 DEF Extends
  <2>2. Fits(two, stop)
    BY <1>2, <2>1 DEF Fits
  <2> QED BY <1>2, <1>6, <1>7, <2>2, AppendFits
<1>9. AllClosed(three, index + 1)
  <2>1. Len(three) > 0 /\ three[Len(three)] = stop
    BY <1>8 DEF Extends
  <2> QED BY <1>2, <2>1 DEF AllClosed
<1>10. HasCall(three)
  <2>1. PICK n \in Nat : n = Len(log) /\ Len(one) = n + 1 /\ one[n + 1] = start
    BY <1>4 DEF Extends
  <2>2. Len(two) = n + 2 /\ two[n + 1] = start
    BY <1>6, <2>1 DEF Extends
  <2>3. Len(three) = n + 3 /\ three[n + 1] = start /\ n + 1 \in 1 .. n + 3
    BY <1>8, <2>2 DEF Extends
  <2> QED BY <1>2, <2>3 DEF HasCall
<1>11. three = log \o ToolBlock(call, index)
  <2>0. PICK X : log \in Seq(X)
    BY <1>i DEF IsLog, IsSequence
  <2>1. PICK Y : Y = X \cup {start, delta, stop}
    OBVIOUS
  <2>2. log \in Seq(Y) /\ <<start>> \in Seq(Y) /\ <<delta>> \in Seq(Y) /\ <<stop>> \in Seq(Y)
    BY <2>0, <2>1, SeqMonotonic
  <2>3. <<start>> \o <<delta>> \in Seq(Y)
    BY <2>2, ConcatProperties
  <2>4. two = log \o (<<start>> \o <<delta>>)
    BY <1>4, <1>6, <2>2, ConcatAssociative
  <2>5. three = log \o ((<<start>> \o <<delta>>) \o <<stop>>)
    BY <1>8, <2>2, <2>3, <2>4, ConcatAssociative
  <2>6. (<<start>> \o <<delta>>) \o <<stop>> = <<start, delta, stop>>
    BY <2>1, Together
  <2>7. ToolBlock(call, index) = <<start, delta, stop>>
    BY <1>1 DEF ToolBlock
  <2> QED BY <2>5, <2>6, <2>7
<1>12. index + 1 \in Nat
  BY <1>i
<1> QED BY <1>8, <1>9, <1>10, <1>11, <1>12 DEF BetweenBlocks

\* The logs between the blocks of n calls.
Unrolled(acc, log, calls, n, from) ==
    /\ acc[0] = log
    /\ \A i \in 1 .. n : acc[i] = acc[i - 1] \o ToolBlock(calls[i], from + i - 1)

\* The blocks of the calls, one after the other.
LEMMA ToolBlocksFold ==
    ASSUME NEW log, NEW calls, NEW n \in Nat, n = Len(calls), NEW from
    PROVE  \E acc : Unrolled(acc, log, calls, n, from) /\ ToolBlocks(log, calls, from) = acc[n]
<1> DEFINE places == [j \in 1 .. Len(calls) |-> j]
           More(acc, j) == acc \o ToolBlock(calls[j], from + j - 1)
           Is(k, f) == f = [s \in SUBSET (1 .. k) |->
                                IF s = {} THEN log ELSE More(f[s \ {Max(s)}], places[Max(s)])]
           Depths == {k \in Nat : \E f : Is(k, f)}
<1> HIDE DEF places, More
<1>1. 0 \in Depths
  <2>1. \A s \in SUBSET (1 .. 0) : s = {}
    OBVIOUS
  <2>2. Is(0, [s \in SUBSET (1 .. 0) |-> log])
    BY <2>1
  <2> QED BY <2>2
<1>2. ASSUME NEW k \in Depths
      PROVE  k + 1 \in Depths
  <2>1. PICK f : Is(k, f)
    OBVIOUS
  <2>2. PICK g : g = [s \in SUBSET (1 .. k + 1) |->
                          IF s = {} THEN log ELSE More(f[s \ {Max(s)}], places[Max(s)])]
    OBVIOUS
  <2>3. ASSUME NEW s \in SUBSET (1 .. k)
        PROVE  g[s] = f[s]
    <3>1. s \in SUBSET (1 .. k + 1)
      OBVIOUS
    <3>2. g[s] = IF s = {} THEN log ELSE More(f[s \ {Max(s)}], places[Max(s)])
      BY <2>2, <3>1
    <3>3. f[s] = IF s = {} THEN log ELSE More(f[s \ {Max(s)}], places[Max(s)])
      BY <2>1
    <3> QED BY <3>2, <3>3
  <2>4. ASSUME NEW s \in SUBSET (1 .. k + 1), s # {}
        PROVE  g[s \ {Max(s)}] = f[s \ {Max(s)}]
    <3>1. s \ {Max(s)} \in SUBSET (1 .. k)
      BY <2>4, MaxDropped
    <3> QED BY <2>3, <3>1
  <2>5. Is(k + 1, g)
    <3>1. ASSUME NEW s \in SUBSET (1 .. k + 1)
          PROVE  (IF s = {} THEN log ELSE More(f[s \ {Max(s)}], places[Max(s)]))
                     = (IF s = {} THEN log ELSE More(g[s \ {Max(s)}], places[Max(s)]))
      <4>1. CASE s = {}
        BY <4>1
      <4>2. CASE s # {}
        <5>1. g[s \ {Max(s)}] = f[s \ {Max(s)}]
          BY <2>4, <4>2
        <5> QED BY <5>1, Zenon
      <4> QED BY <4>1, <4>2
    <3>2. g = [s \in SUBSET (1 .. k + 1) |-> IF s = {} THEN log ELSE More(g[s \ {Max(s)}], places[Max(s)])]
      BY <2>2, <3>1, Zenon
    <3> QED BY <3>2
  <2>6. k + 1 \in Nat
    OBVIOUS
  <2> QED BY <2>5, <2>6, Zenon
<1>3. Depths = Nat
  <2>1. Depths \in SUBSET Nat
    OBVIOUS
  <2> HIDE DEF Depths
  <2> QED BY <1>1, <1>2, <2>1, SetInduction
<1>4. \E f : Is(n, f)
  BY <1>3
<1> DEFINE it == CHOOSE g : g = [s \in SUBSET (1 .. n) |->
                    IF s = {} THEN log ELSE More(g[s \ {Max(s)}], places[Max(s)])]
<1>5. it = [s \in SUBSET (1 .. n) |-> IF s = {} THEN log ELSE More(it[s \ {Max(s)}], places[Max(s)])]
  BY <1>4, Zenon
<1>6. ToolBlocks(log, calls, from) = it[1 .. n]
  <2>1. DOMAIN places = 1 .. n
    BY DEF places
  <2> QED BY <2>1, Zenon DEF ToolBlocks, FoldLeft, MapThenFoldSet, places, More
<1> HIDE DEF it
<1>7. PICK acc : acc = [i \in 0 .. n |-> it[1 .. i]]
  OBVIOUS
<1>8. acc[0] = log
  <2>1. 1 .. 0 = {} /\ 0 \in 0 .. n
    OBVIOUS
  <2> QED BY <1>5, <1>7, <2>1
<1>9. ASSUME NEW i \in 1 .. n
      PROVE  acc[i] = acc[i - 1] \o ToolBlock(calls[i], from + i - 1)
  <2>1. (1 .. i) \ {Max(1 .. i)} = 1 .. i - 1 /\ Max(1 .. i) = i
    BY MaxOfInterval
  <2>2. 1 .. i \in SUBSET (1 .. n) /\ 1 .. i # {} /\ i \in 0 .. n /\ i - 1 \in 0 .. n
    <3>1. PICK m \in Nat : m = n
      OBVIOUS
    <3>2. i \in 1 .. m
      BY <3>1
    <3>3. 1 .. i \in SUBSET (1 .. m)
      BY <3>2
    <3>4. i \in 1 .. i /\ i \in 0 .. m /\ i - 1 \in 0 .. m
      BY <3>2
    <3> QED BY <3>1, <3>3, <3>4
  <2>3. places[i] = i
    BY DEF places
  <2>4. it[1 .. i] = More(it[1 .. i - 1], i)
    BY <1>5, <2>3, <2>1, <2>2, Zenon
  <2>5. acc[i] = it[1 .. i] /\ acc[i - 1] = it[1 .. i - 1]
    BY <1>7, <2>2
  <2> QED BY <2>4, <2>5, Zenon DEF More
<1>10. acc[n] = it[1 .. n]
  BY <1>7
<1>11. Unrolled(acc, log, calls, n, from)
  BY <1>8, <1>9, Zenon DEF Unrolled
<1> QED BY <1>6, <1>10, <1>11, Zenon

\* After the blocks of the calls the log is between two blocks again.
LEMMA ToolBlocksKeep ==
    ASSUME NEW log, NEW calls, NEW n \in Nat, n = Len(calls), NEW from, BetweenBlocks(log, from, FALSE)
    PROVE  BetweenBlocks(ToolBlocks(log, calls, from), from + n, n > 0)
<1>0. PICK acc : Unrolled(acc, log, calls, n, from) /\ ToolBlocks(log, calls, from) = acc[n]
  BY ToolBlocksFold
<1>1. /\ acc[0] = log
      /\ \A i \in 1 .. n : acc[i] = acc[i - 1] \o ToolBlock(calls[i], from + i - 1)
      /\ ToolBlocks(log, calls, from) = acc[n]
  BY <1>0 DEF Unrolled
<1>2. PICK at \in Nat : at = from
  BY DEF BetweenBlocks
<1> DEFINE Good(k) == k <= n => BetweenBlocks(acc[k], at + k, k > 0)
           S == {k \in Nat : Good(k)}
<1>3. 0 \in S
  <2>1. at + 0 = from /\ (0 > 0) = FALSE
    BY <1>2
  <2> QED BY <1>1, <2>1
<1>4. ASSUME NEW k \in S
      PROVE  k + 1 \in S
  <2>1. SUFFICES ASSUME k + 1 <= n
                 PROVE  BetweenBlocks(acc[k + 1], at + (k + 1), k + 1 > 0)
    OBVIOUS
  <2>2. BetweenBlocks(acc[k], at + k, k > 0)
    BY <2>1
  <2>3. PICK called \in BOOLEAN : BetweenBlocks(acc[k], at + k, called)
    <3>1. (k > 0) = TRUE \/ (k > 0) = FALSE
      OBVIOUS
    <3> QED BY <2>2, <3>1, Zenon
  <2>4. acc[k + 1] = acc[k] \o ToolBlock(calls[k + 1], at + k)
    <3>1. k + 1 \in 1 .. n /\ (k + 1) - 1 = k /\ at + (k + 1) - 1 = at + k
      BY <2>1
    <3> QED BY <1>1, <1>2, <3>1
  <2>5. BetweenBlocks(acc[k + 1], (at + k) + 1, TRUE)
    BY <2>3, <2>4, ToolBlockKeeps
  <2>6. (at + k) + 1 = at + (k + 1) /\ (k + 1 > 0) = TRUE
    OBVIOUS
  <2> QED BY <2>5, <2>6
<1>5. S = Nat
  <2>1. S \in SUBSET Nat
    OBVIOUS
  <2> HIDE DEF S
  <2> QED BY <1>3, <1>4, <2>1, SetInduction
<1>6. Good(n)
  BY <1>5
<1> QED BY <1>1, <1>2, <1>6

\* The calls are finitely many.
LEMMA FinalizedIsFinite ==
    ASSUME NEW es, IsSequence(es)
    PROVE  \E n \in Nat : Len(Finalized(es)) = n /\ (Finalized(es) = <<>> <=> n = 0)
<1>1. PICK X : es \in Seq(X)
  BY DEF IsSequence
<1>2. PICK m \in Nat : m = Len(es)
  BY <1>1, LenProperties
<1>3. IsFiniteSet(Indexes(es))
  <2>1. IsFiniteSet(1 .. m)
    <3>1. m \in Int /\ 1 \in Int
      OBVIOUS
    <3> QED BY <3>1, FS_Interval
  <2> DEFINE f == [j \in 1 .. m |-> es[j].index]
  <2>2. Indexes(es) = {f[j] : j \in 1 .. m}
    BY <1>2 DEF Indexes
  <2>3. f \in Surjection(1 .. m, Indexes(es))
    BY <2>2 DEF Surjection
  <2> QED BY <2>1, <2>3, FS_Surjection
<1> DEFINE named == {i \in Indexes(es) : Accumulated(es, i).name # <<>>}
           nth(j) == CHOOSE i \in named : Cardinality({x \in named : x < i}) = j - 1
<1>4. IsFiniteSet(named)
  <2>1. named \subseteq Indexes(es)
    OBVIOUS
  <2> QED BY <1>3, <2>1, FS_Subset
<1>5. PICK n \in Nat : n = Cardinality(named)
  BY <1>4, FS_CardinalityType
<1>6. PICK Y : Y = {Accumulated(es, nth(j)) : j \in 1 .. n}
  OBVIOUS
<1>7. Finalized(es) = [j \in 1 .. n |-> Accumulated(es, nth(j))]
  BY <1>5, Zenon DEF Finalized
<1> HIDE DEF named, nth
<1>8. Finalized(es) \in Seq(Y) /\ Len(Finalized(es)) = n
  BY <1>6, <1>7
<1>9. Finalized(es) = <<>> <=> n = 0
  BY <1>8, EmptySeq
<1> QED BY <1>8, <1>9

\* The end of the message.
Ended(log, stop) == Append(log, Event("message_stop", 0, stop, <<>>))
EndedWith(new, stop, called) ==
    /\ IsLog(new) /\ Len(new) \in Nat /\ Len(new) > 0
    /\ new[Len(new)].name = "message_stop" /\ new[Len(new)].type = stop
    /\ HasCall(new) <=> called
LEMMA MessageEnds ==
    ASSUME NEW log, NEW index, NEW called \in BOOLEAN, BetweenBlocks(log, index, called), NEW stop
    PROVE  EndedWith(Ended(log, stop), stop, called)
<1>0. PICK e, new : e = Event("message_stop", 0, stop, <<>>) /\ new = Append(log, e)
  OBVIOUS
<1>1. IsEvent(e) /\ e.name = "message_stop" /\ e.type = stop
  BY <1>0, EventFacts
<1>2. IsLog(log) /\ AllClosed(log, index)
  BY DEF BetweenBlocks
<1>3. Fits(log, e)
  <2>1. PICK n \in Nat : n = Len(log)
    BY <1>2, LenProperties DEF IsLog, IsSequence
  <2> QED BY <1>1, <1>2, <2>1 DEF AllClosed, Fits
<1>4. IsLog(new) /\ Extends(new, log, e)
  BY <1>0, <1>1, <1>2, <1>3, AppendFits
<1>5. PICK n \in Nat : n = Len(log) /\ Len(new) = n + 1 /\ new[n + 1] = e /\ \A i \in 1 .. n : new[i] = log[i]
  BY <1>4 DEF Extends
<1>6. HasCall(new) <=> HasCall(log)
  <2>1. ASSUME NEW i \in 1 .. n + 1, new[i].name = "start"
        PROVE  i \in 1 .. n
    <3>1. i # n + 1
      BY <1>1, <1>5, <2>1
    <3> QED BY <3>1
  <2>2. \A i \in 1 .. n : i \in 1 .. n + 1
    OBVIOUS
  <2> QED BY <1>5, <2>1, <2>2 DEF HasCall
<1>7. HasCall(log) <=> called
  <2>1. CASE called = TRUE
    BY <2>1 DEF BetweenBlocks
  <2>2. CASE called = FALSE
    BY <2>2 DEF BetweenBlocks, Plain, HasCall
  <2> QED BY <2>1, <2>2
<1>8. EndedWith(new, stop, called)
  BY <1>1, <1>4, <1>5, <1>6, <1>7 DEF EndedWith
<1>9. new = Ended(log, stop)
  BY <1>0 DEF Ended
<1> QED BY <1>8, <1>9, Zenon

-----------------------------------------------------------------------------
(* The invariant.                                                           *)

MessageOpen == finish \in {"", "gone"}
\* The handler's parser and its entries are in order; the streamer and what it
\* wrote agree until the message ends, and its blocks are well formed then.
IInv(Reached) ==
    /\ job \in Jobs
    /\ job.api # "reasoning" =>
         /\ pos \in 0 .. Len(job.text) /\ <<ps, job.text, pos>> \in Reached[job.parser] /\ IsSequence(entries)
    /\ job.api = "anthropic" /\ MessageOpen => StreamOf(block, events)
    /\ job.api = "anthropic" /\ ~MessageOpen => IsLog(events) /\ BlocksWellFormed
    /\ job.api # "anthropic" => events = <<>>

\* A job of a handler with its parser's text.
LEMMA JobFacts ==
    ASSUME job \in Jobs
    PROVE  /\ job.api \in {"openai", "anthropic", "reasoning"}
           /\ job.api # "reasoning" => job.parser \in DOMAIN Outputs /\ job.text \in Outputs[job.parser]
                                       /\ job.text \in Seq(STRING) /\ Len(job.text) \in Nat
                                       /\ job.pace \in Nat \ {0}
<1>1. job \in ToolJobs \/ job \in ReasoningJobs
  BY DEF Jobs
<1>2. ASSUME job \in ToolJobs
      PROVE  /\ job.api \in {"openai", "anthropic"} /\ job.parser \in DOMAIN Outputs
             /\ job.text \in Outputs[job.parser] /\ job.pace \in Paces(job.parser)
  BY <1>2 DEF ToolJobs, JobsOf
<1>3. ASSUME job \in ReasoningJobs
      PROVE  job.api = "reasoning"
  BY <1>3 DEF ReasoningJobs, JobsOf
<1>4. ASSUME job \in ToolJobs
      PROVE  job.text \in Seq(STRING) /\ job.pace \in Nat \ {0}
  BY <1>2, <1>4, ResponseAssumption
<1>5. ASSUME job \in ToolJobs
      PROVE  Len(job.text) \in Nat
  BY <1>4, <1>5, LenProperties
<1> QED BY <1>1, <1>2, <1>3, <1>4, <1>5

\* It holds at the start.
LEMMA InitIInv ==
    ASSUME NEW Reached, ToolParserInterface(Reached), Init
    PROVE  IInv(Reached)
<1>1. job \in Jobs /\ finish = "" /\ events = <<>> /\ entries = <<>> /\ block = NoBlock /\ pos = 0
      /\ ps = NewParser(job.parser)
  BY DEF Init
<1>2. job.api # "reasoning" =>
        /\ pos \in 0 .. Len(job.text) /\ <<ps, job.text, pos>> \in Reached[job.parser] /\ IsSequence(entries)
  <2>1. <<>> \in Seq(STRING)
    OBVIOUS
  <2>2. IsSequence(entries)
    BY <1>1, <2>1 DEF IsSequence
  <2>3. job.api # "reasoning" => pos \in 0 .. Len(job.text) /\ <<ps, job.text, pos>> \in Reached[job.parser]
    <3>1. ASSUME job.api # "reasoning"
          PROVE  job.parser \in DOMAIN Outputs /\ job.text \in Outputs[job.parser] /\ Len(job.text) \in Nat
      BY <1>1, <3>1, JobFacts
    <3>2. \A p \in DOMAIN Outputs : \A text \in Outputs[p] : <<NewParser(p), text, 0>> \in Reached[p]
      BY Zenon DEF ToolParserInterface
    <3>3. \A k \in Nat : 0 \in 0 .. k
      OBVIOUS
    <3> QED BY <1>1, <3>1, <3>2, <3>3, Zenon
  <2> QED BY <2>2, <2>3
<1>3. StreamOf(block, events)
  <2>1. Len(events) = 0 /\ events \in Seq(STRING)
    <3>1. Len(<<>>) = 0 /\ <<>> \in Seq(STRING)
      OBVIOUS
    <3> QED BY <1>1, <3>1, Zenon
  <2>2. IsLog(events) /\ Plain(events)
    BY <2>1 DEF IsLog, IsSequence, Plain
  <2>3. block.current = "" /\ block.index = 0 /\ block.opened = FALSE
    BY <1>1 DEF NoBlock
  <2>4. block.index \in Nat /\ block.opened \in BOOLEAN /\ ~block.opened
    <3>1. 0 \in Nat
      OBVIOUS
    <3> QED BY <2>3, <3>1, Zenon
  <2> QED BY <2>1, <2>2, <2>3, <2>4, Zenon DEF StreamOf
<1> QED BY <1>1, <1>2, <1>3 DEF IInv, MessageOpen

\* A request keeps its job.
LEMMA JobKept ==
    ASSUME [Next]_vars
    PROVE  job' = job
<1>1. CASE \E n \in 1 .. job.pace : Deliver(n) \/ SplitDelta(n)
  BY <1>1 DEF Deliver, SplitDelta
<1>2. CASE Aside \/ Disconnect \/ Correct
  BY <1>2 DEF Aside, Disconnect, Correct
<1>3. CASE \E reason \in {"stop", "length"} : End(reason)
  BY <1>3 DEF End
<1>4. CASE UNCHANGED vars
  BY <1>4 DEF vars
<1> QED BY <1>1, <1>2, <1>3, <1>4 DEF Next

\* What Shown writes keeps the streamer and the log in step.
LEMMA ShownKeeps ==
    ASSUME NEW type \in {"text", "thinking"}, NEW text, Shown(type, text)
    PROVE  /\ job.api = "anthropic" /\ StreamOf(block, events) => StreamOf(block', events')
           /\ job.api # "anthropic" => events' = events
<1>1. CASE job.api = "anthropic" /\ text # <<>>
  <2>1. PICK d : d = BlockDelta(block, type, text)
    OBVIOUS
  <2>2. block' = d.block /\ events' = Written(events \o d.switch, d.delta)
    BY <1>1, <2>1, Zenon DEF Shown
  <2>3. ASSUME StreamOf(block, events)
        PROVE  StreamOf(d.block, Written(events \o d.switch, d.delta))
    BY <2>1, <2>3, DeltaKeeps
  <2> QED BY <1>1, <2>2, <2>3, Zenon
<1>2. CASE ~(job.api = "anthropic" /\ text # <<>>)
  <2>1. block' = block /\ events' = events
    BY <1>2, Zenon DEF Shown
  <2> QED BY <2>1, Zenon
<1> QED BY <1>1, <1>2

\* A delta through the tool parser.
LEMMA DeliverKeeps ==
    ASSUME NEW Reached, ToolParserInterface(Reached), IInv(Reached), NEW n \in 1 .. job.pace, Deliver(n),
           job' = job
    PROVE  IInv(Reached)'
<1>1. /\ finish = "" /\ job \in Jobs /\ job.api # "reasoning" /\ pos' = pos + n /\ pos + n <= Len(job.text)
      /\ pos \in 0 .. Len(job.text) /\ <<ps, job.text, pos>> \in Reached[job.parser] /\ IsSequence(entries)
  BY Zenon DEF Deliver, IInv
<1>2. /\ job.parser \in DOMAIN Outputs /\ job.text \in Outputs[job.parser] /\ Len(job.text) \in Nat
      /\ job.api \in {"openai", "anthropic", "reasoning"} /\ job.pace \in Nat
  BY <1>1, JobFacts, ResponseAssumption
<1>3. PICK i \in Nat, j \in Nat : /\ i = pos /\ j = pos + n /\ i \in 0 .. Len(job.text)
                                 /\ j \in i + 1 .. Len(job.text)
  <2>1. PICK len \in Nat, pace \in Nat, i \in Nat, k \in Nat :
            len = Len(job.text) /\ pace = job.pace /\ i = pos /\ k = n
    <3>1. Len(job.text) \in Nat
      BY <1>2
    <3>2. \A len \in Nat : \A x \in 0 .. len : x \in Nat
      OBVIOUS
    <3>3. pos \in Nat
      BY <1>1, <3>1, <3>2, Zenon
    <3>4. \A pace \in Nat : \A x \in 1 .. pace : x \in Nat
      OBVIOUS
    <3>5. n \in Nat
      BY <1>2, <3>4, Zenon
    <3> QED BY <1>2, <3>1, <3>3, <3>5, Zenon
  <2>2. i + k <= len
    BY <1>1, <2>1
  <2>3. k \in 1 .. pace
    BY <2>1
  <2>4. PICK j \in Nat : j = i + k /\ i \in 0 .. len /\ j \in i + 1 .. len
    BY <2>1, <2>2, <2>3
  <2> QED BY <2>1, <2>4
<1>4. PICK cur : cur = SubSeq(job.text, 1, j)
  OBVIOUS
<1>5. PICK step : /\ step = ExtractToolCallsStreaming(job.parser, ps, SubSeq(job.text, 1, i), cur, From(cur, i + 1))
                  /\ ps' = step.s /\ finish' = IF step.panic THEN "gone" ELSE ""
                  /\ entries' = entries \o step.delta.calls /\ Shown("text", step.delta.content)
  BY <1>3, <1>4, Zenon DEF Deliver, Delivered
<1>6. <<step.s, job.text, j>> \in Reached[job.parser] /\ IsSequence(step.delta.calls)
  BY <1>1, <1>2, <1>3, <1>4, <1>5, Zenon DEF ToolParserInterface
<1>7. IsSequence(entries')
  <2>1. PICK X, Y : entries \in Seq(X) /\ step.delta.calls \in Seq(Y)
    BY <1>1, <1>6 DEF IsSequence
  <2>2. PICK Z : Z = X \cup Y
    OBVIOUS
  <2>3. entries \in Seq(Z) /\ step.delta.calls \in Seq(Z)
    BY <2>1, <2>2, SeqMonotonic
  <2>4. entries \o step.delta.calls \in Seq(Z)
    BY <2>3, ConcatProperties
  <2> QED BY <1>5, <2>4 DEF IsSequence
<1>8. job' \in Jobs /\ pos' \in 0 .. Len(job'.text) /\ <<ps', job'.text, pos'>> \in Reached[job'.parser]
  <2>1. pos' \in 0 .. Len(job.text)
    <3>1. \A len \in Nat : \A x \in Nat : \A y \in x + 1 .. len : y \in 0 .. len
      OBVIOUS
    <3> QED BY <1>1, <1>2, <1>3, <3>1, Zenon
  <2> QED BY <1>1, <1>3, <1>5, <1>6, <2>1, Zenon
<1>9. finish \in {"", "gone"} /\ finish' \in {"", "gone"}
  BY <1>1, <1>5
<1>10. /\ job.api = "anthropic" => StreamOf(block', events')
       /\ job.api # "anthropic" => events' = <<>>
  <2>1. /\ job.api = "anthropic" => StreamOf(block, events)
        /\ job.api # "anthropic" => events = <<>>
    BY <1>9 DEF IInv, MessageOpen
  <2>2. /\ job.api = "anthropic" /\ StreamOf(block, events) => StreamOf(block', events')
        /\ job.api # "anthropic" => events' = events
    BY <1>5, ShownKeeps
  <2> QED BY <2>1, <2>2
<1>11. StreamOf(block, events)' <=> StreamOf(block', events')
  BY Zenon DEF StreamOf
<1> QED BY <1>7, <1>8, <1>9, <1>10, <1>11, Zenon DEF IInv, MessageOpen

\* The end of an Anthropic message.
LEMMA EndKeeps ==
    ASSUME NEW Reached, IInv(Reached), NEW reason \in {"stop", "length"}, End(reason), job.api = "anthropic",
           job' = job
    PROVE  finish' \notin {"", "gone"} /\ IsLog(events') /\ BlocksWellFormed'
<1>1. PICK calls, closed, stop, from :
          /\ calls = Finalized(entries) /\ closed = BlockClose(block) /\ from = closed.block.index
          /\ stop = IF calls # <<>> THEN "tool_use" ELSE anthropicStopReason(reason)
  OBVIOUS
<1>2. PICK log, ending : /\ log = ToolBlocks(events \o closed.events, calls, from)
                         /\ ending = Event("message_stop", 0, stop, <<>>)
  OBVIOUS
<1>3. finish = "" /\ finish' = stop /\ events' = Append(log, ending)
  BY <1>1, <1>2, Zenon DEF End
<1>4. PICK n \in Nat : Len(calls) = n /\ (calls = <<>> <=> n = 0)
  <2>1. IsSequence(entries)
    BY DEF IInv
  <2> QED BY <1>1, <2>1, FinalizedIsFinite
<1>5. StreamOf(block, events)
  BY <1>3 DEF IInv, MessageOpen
<1>6. BetweenBlocks(events \o closed.events, from, FALSE)
  BY <1>1, <1>5, CloseKeeps DEF BetweenBlocks
<1>7. BetweenBlocks(log, from + n, n > 0)
  BY <1>2, <1>4, <1>6, ToolBlocksKeep
<1>8. PICK called \in BOOLEAN : (called <=> calls # <<>>) /\ BetweenBlocks(log, from + n, called)
  <2>1. CASE n = 0
    <3>1. (n > 0) = FALSE
      BY <2>1
    <3> QED BY <1>4, <1>7, <2>1, <3>1, Zenon
  <2>2. CASE n # 0
    <3>1. (n > 0) = TRUE
      BY <2>2
    <3> QED BY <1>4, <1>7, <2>2, <3>1, Zenon
  <2> QED BY <2>1, <2>2
<1>9. /\ stop \notin {"", "gone"} /\ (stop = "tool_use" <=> called)
  BY <1>1, <1>8 DEF anthropicStopReason
<1>10. /\ IsLog(events') /\ Len(events') \in Nat /\ Len(events') > 0
       /\ events'[Len(events')].name = "message_stop" /\ events'[Len(events')].type = stop
       /\ HasCall(events') <=> called
  <2>1. EndedWith(Ended(log, stop), stop, called)
    BY <1>8, MessageEnds
  <2>2. events' = Ended(log, stop)
    BY <1>2, <1>3, Zenon DEF Ended
  <2> QED BY <2>1, <2>2, Zenon DEF EndedWith
<1>11. \A i \in 1 .. Len(events') : Linked(events', i)
  BY <1>10, Zenon DEF IsLog
<1>12. BlocksWellFormed'
  BY <1>3, <1>9, <1>10, <1>11, Zenon DEF BlocksWellFormed, HasCall, Linked, OpensBlock, GoesOn, EndsMessage
<1> QED BY <1>3, <1>9, <1>10, <1>12

\* Every step keeps the invariant.
LEMMA NextIInv ==
    ASSUME NEW Reached, ToolParserInterface(Reached), IInv(Reached), [Next]_vars
    PROVE  IInv(Reached)'
<1>0. job' = job
  BY JobKept
<1>j. job \in Jobs /\ job' \in Jobs
  BY <1>0 DEF IInv
<1>s. /\ StreamOf(block, events)' <=> StreamOf(block', events')
      /\ IsSequence(entries)' <=> IsSequence(entries')
  BY Zenon DEF StreamOf, IsSequence
<1>1. CASE \E n \in 1 .. job.pace : Deliver(n)
  BY <1>0, <1>1, DeliverKeeps
<1>2. CASE \E n \in 1 .. job.pace : SplitDelta(n)
  <2>1. job.api = "reasoning" /\ events' = events
    BY <1>2 DEF SplitDelta
  <2>2. job.api # "anthropic" /\ job'.api = job.api /\ events = <<>>
    BY <1>0, <2>1 DEF IInv
  <2> QED BY <1>j, <2>1, <2>2, Zenon DEF IInv
<1>3. CASE Aside
  <2>1. /\ finish = "" /\ finish' = finish /\ pos' = pos /\ ps' = ps /\ entries' = entries
        /\ Shown("thinking", <<"a">>)
    BY <1>3, Zenon DEF Aside
  <2>2. /\ job.api = "anthropic" => StreamOf(block, events)
        /\ job.api # "anthropic" => events = <<>>
    BY <2>1 DEF IInv, MessageOpen
  <2>3. /\ job.api = "anthropic" => StreamOf(block', events')
        /\ job.api # "anthropic" => events' = <<>>
    BY <2>1, <2>2, ShownKeeps
  <2>4. finish \in {"", "gone"} /\ finish' \in {"", "gone"}
    BY <2>1
  <2> QED BY <1>0, <1>j, <1>s, <2>1, <2>3, <2>4, Zenon DEF IInv, MessageOpen
<1>4. CASE Disconnect
  <2>1. finish = "" /\ finish' = "gone" /\ UNCHANGED <<job, pos, ps, entries, block, events>>
    BY <1>4 DEF Disconnect
  <2>2. finish \in {"", "gone"} /\ finish' \in {"", "gone"}
    BY <2>1
  <2>3. StreamOf(block, events)' <=> StreamOf(block, events)
    BY <2>1, Zenon DEF StreamOf
  <2> QED BY <1>j, <1>s, <2>1, <2>2, <2>3, Zenon DEF IInv, MessageOpen
<1>5. CASE Correct
  <2>1. job.api = "reasoning" /\ events' = events
    BY <1>5 DEF Correct
  <2>2. job.api # "anthropic" /\ job'.api = job.api /\ events = <<>>
    BY <1>0, <2>1 DEF IInv
  <2> QED BY <1>j, <2>1, <2>2, Zenon DEF IInv
<1>6. CASE \E reason \in {"stop", "length"} : End(reason)
  <2>1. PICK reason \in {"stop", "length"} : End(reason)
    BY <1>6
  <2>2. pos' = pos /\ ps' = ps /\ entries' = entries
    BY <2>1 DEF End
  <2>3. CASE job.api = "anthropic"
    <3>1. finish' \notin {"", "gone"} /\ IsLog(events') /\ BlocksWellFormed'
      BY <1>0, <2>1, <2>3, EndKeeps
    <3>2. IsLog(events)' <=> IsLog(events')
      BY Zenon DEF IsLog
    <3> QED BY <1>0, <1>j, <1>s, <2>2, <2>3, <3>1, <3>2, Zenon DEF IInv, MessageOpen
  <2>4. CASE job.api # "anthropic"
    <3>1. events' = events /\ events = <<>>
      BY <2>1, <2>4 DEF End, IInv
    <3> QED BY <1>0, <1>j, <1>s, <2>2, <2>4, <3>1, Zenon DEF IInv
  <2> QED BY <2>3, <2>4
<1>7. CASE UNCHANGED vars
  <2>1. UNCHANGED <<job, pos, ps, entries, block, events, finish>>
    BY <1>7 DEF vars
  <2>2. StreamOf(block, events)' <=> StreamOf(block, events)
    BY <2>1, Zenon DEF StreamOf
  <2>3. BlocksWellFormed' <=> BlocksWellFormed
    BY <2>1 DEF BlocksWellFormed, OpensBlock, GoesOn, EndsMessage
  <2>4. IsLog(events)' <=> IsLog(events)
    BY <2>1, Zenon DEF IsLog
  <2> QED BY <1>s, <2>1, <2>2, <2>3, <2>4, Zenon DEF IInv, MessageOpen
<1> QED BY <1>1, <1>2, <1>3, <1>4, <1>5, <1>6, <1>7 DEF Next

\* The blocks are well formed while the invariant holds.
LEMMA WellFormed ==
    ASSUME NEW Reached, IInv(Reached)
    PROVE  BlocksWellFormed
<1>1. CASE job.api = "anthropic" /\ ~MessageOpen
  BY <1>1 DEF IInv
<1>2. CASE job.api = "anthropic" /\ MessageOpen
  <2>1. IsLog(events) /\ Plain(events) /\ finish \in {"", "gone"}
    BY <1>2 DEF IInv, MessageOpen, StreamOf
  <2>2. PICK n \in Nat : n = Len(events)
    BY <2>1, LenProperties DEF IsLog, IsSequence
  <2>3. ~ (n > 0 /\ events[n].name = "message_stop")
    <3>1. n > 0 => n \in 1 .. n
      OBVIOUS
    <3> QED BY <2>1, <2>2, <3>1 DEF Plain
  <2>4. \A i \in 1 .. n : OpensBlock(events, i) \/ GoesOn(events, i) \/ EndsMessage(events, i)
    BY <2>1, <2>2, Zenon DEF IsLog, Linked
  <2> QED BY <2>1, <2>2, <2>3, <2>4, Zenon DEF BlocksWellFormed
<1>3. CASE job.api # "anthropic"
  <2>1. events = <<>>
    BY <1>3 DEF IInv
  <2>2. Len(<<>>) = 0 /\ 1 .. 0 = {} /\ ~(0 > 0)
    OBVIOUS
  <2> QED BY <1>3, <2>1, <2>2, Zenon DEF BlocksWellFormed
<1> QED BY <1>1, <1>2, <1>3

\* Whatever tool parsers the handlers use, the Anthropic client sees well-formed
\* blocks and the stop reason that goes with them.
THEOREM BlocksAreWellFormed ==
    ASSUME NEW Reached, ToolParserInterface(Reached)
    PROVE  Spec => []BlocksWellFormed
<1>1. Init => IInv(Reached)
  BY InitIInv
<1>2. IInv(Reached) /\ [Next]_vars => IInv(Reached)'
  BY NextIInv
<1>3. IInv(Reached) => BlocksWellFormed
  BY WellFormed
<1> QED BY <1>1, <1>2, <1>3, PTL DEF Spec
=============================================================================
