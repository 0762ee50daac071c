--------------------------- MODULE McpConn_proofs ----------------------------
(***************************************************************************)
(* Proofs about McpConn, for every set of calls and of closers, every set  *)
(* of reply kinds and every bound on the transport.                        *)
(***************************************************************************)
EXTENDS McpConn, TLAPS

-----------------------------------------------------------------------------
(* The inductive invariant. *)

\* Ids are handed out once, and pending files a call under its own id.
IdsInv ==
    /\ \A c \in Calls : id[c] < nextID
    /\ \A c \in Calls : pc[c] = "new" => id[c] = NoId
    /\ \A c \in Calls : pc[c] \in {"write", "wait", "discard"} => id[c] # NoId
    /\ \A c, d \in Calls : id[c] = id[d] /\ id[c] # NoId => c = d
    /\ \A i \in DOMAIN pending : id[pending[i]] = i
    /\ \A i \in requests : i < nextID
    /\ \A m \in replies : m.of < nextID
    /\ nextID = 0 \/ \E c \in Calls : id[c] = 0

\* How far the read loop and each Close have come.
StopInv ==
    /\ closed => closeErr # "nil"
    /\ rpc # "read" => closed
    /\ done => rpc = "stopped"
    /\ rpc \in {"exit", "stopped"} => DOMAIN pending = {}
    /\ rpc \in {"failEOF", "failErr", "stopped"} => taken[Reader] = {}
    /\ \A k \in Closers : cpc[k] \in {"closer", "fail", "drain"} => closed
    /\ \A k \in Closers : cpc[k] # "drain" => taken[k] = {}

\* A result bound for c is an error or an answer to the request that had c's id.
BoundFor(c, m) == m.kind \in ReplyKinds => Decoded(m.of) = id[c] /\ m \in replies

AnswersInv ==
    /\ \A j \in 1 .. Len(inbox) : inbox[j].kind \in ReplyKinds => inbox[j] \in replies
    /\ \A t \in Threads : \A w \in taken[t] : id[w.call] # NoId /\ BoundFor(w.call, w.res)
    /\ \A c \in Calls : \A j \in 1 .. Len(ch[c]) : BoundFor(c, ch[c][j])
    /\ \A c \in Calls : ch[c] # <<>> => id[c] # NoId
    /\ \A c \in Calls : BoundFor(c, outcome[c])
    /\ \A c \in Calls : pc[c] = "discard" => outcome[c] = Failure("abandoned")

\* A registered call that has no result yet can still be woken.
Wakeable(c) == \/ id[c] \in DOMAIN pending /\ pending[id[c]] = c
               \/ \E t \in Threads : InHand(t, c)
               \/ ch[c] # <<>>
               \/ done
WakeInv == \A c \in Calls : pc[c] \in {"write", "wait"} => Wakeable(c)

\* An entry of pending belongs to a call in flight.
FlightInv == \A i \in DOMAIN pending : pc[pending[i]] \in {"write", "wait", "discard"}

IInv == /\ TypeOK
        /\ IdsInv
        /\ StopInv
        /\ AnswersInv
        /\ AtMostOneResult
        /\ WakeInv
        /\ FlightInv

\* NewConn starts with no call, no result and no close.
LEMMA InitInv == Init => IInv
<1> SUFFICES ASSUME Init
             PROVE  IInv
  OBVIOUS
<1> USE DEF Init
<1>1. TypeOK
  <2>1. NoId \in Nat \cup {NoId} /\ Failure("none") \in Outcomes
    BY DEF Outcomes
  <2>2. pending \in [DOMAIN pending -> Calls] /\ DOMAIN pending \subseteq Nat
    OBVIOUS
  <2>3. ch \in [Calls -> Seq(Results)] /\ inbox \in Seq(Messages)
    OBVIOUS
  <2>4. taken \in [Threads -> SUBSET [call : Calls, res : Results]]
    OBVIOUS
  <2> QED BY <2>1, <2>2, <2>3, <2>4 DEF TypeOK
<1>2. IdsInv
  BY DEF IdsInv, NoId
<1>3. StopInv
  BY DEF StopInv, Threads
<1>4. AnswersInv
  BY KindAssumption DEF AnswersInv, BoundFor, Failure
<1>5. AtMostOneResult
  BY DEF AtMostOneResult, InHand
<1>6. WakeInv
  BY DEF WakeInv
<1>7. FlightInv
  BY DEF FlightInv
<1> QED BY <1>1, <1>2, <1>3, <1>4, <1>5, <1>6, <1>7 DEF IInv

-----------------------------------------------------------------------------
(* Each step preserves it. *)

\* What the reason for a close may be.
LEMMA CloseReasons ==
  ASSUME TypeOK
  PROVE  CloseReason \in Results
BY DEF TypeOK, CloseReason, Results, ConnFailures, Errors

\* Reading a line leaves a list of lines.
LEMMA ReadLine ==
  ASSUME NEW q \in Seq(Messages), q # <<>>
  PROVE  Head(q) \in Messages /\ Tail(q) \in Seq(Messages)
OBVIOUS

\* failPending turns every pending call into a result in hand.
LEMMA TakePendingType ==
  ASSUME TypeOK, NEW t \in Threads, NEW e \in Errors, TakePending(t, e)
  PROVE  /\ taken' \in [Threads -> SUBSET [call : Calls, res : Results]]
         /\ DOMAIN pending' = {}
         /\ DOMAIN pending' \subseteq Nat
         /\ pending' \in [DOMAIN pending' -> Calls]
<1>1. Failure(e) \in Results
  BY DEF Results, ConnFailures
<1>2. \A i \in DOMAIN pending :
        [call |-> pending[i], res |-> Failure(e)] \in [call : Calls, res : Results]
  BY <1>1 DEF TypeOK
<1>3. {[call |-> pending[i], res |-> Failure(e)] : i \in DOMAIN pending}
        \in SUBSET [call : Calls, res : Results]
  BY <1>2
<1>4. taken' \in [Threads -> SUBSET [call : Calls, res : Results]]
  BY <1>3 DEF TypeOK, TakePending
<1> QED BY <1>4 DEF TakePending

\* Every step of calls, read loop, closers and server keeps the types.
LEMMA TypeStep ==
  ASSUME TypeOK, IdsInv, StopInv, [Next]_vars
  PROVE  TypeOK'
<1> USE DEF TypeOK, connVars, callVars, threadVars, peerVars
<1>1. ASSUME NEW c \in Calls, Refuse(c)
      PROVE  TypeOK'
  BY <1>1, CloseReasons DEF Refuse, Return, Outcomes
<1>2. ASSUME NEW c \in Calls, Register(c)
      PROVE  TypeOK'
  <2>1. pending' \in [DOMAIN pending' -> Calls] /\ DOMAIN pending' \subseteq Nat
    BY <1>2 DEF Register, Enrol, With
  <2> QED BY <1>2, <2>1 DEF Register, Enrol
<1>3. ASSUME NEW c \in Calls, WriteOk(c) \/ WriteFail(c)
      PROVE  TypeOK'
  <2>1. id[c] \in Nat
    BY <1>3 DEF IdsInv, WriteOk, WriteFail
  <2>2. requests' \subseteq Nat
    BY <1>3, <2>1 DEF WriteOk, WriteFail
  <2>3. Failure("abandoned") \in Outcomes
    BY DEF Outcomes
  <2>4. CASE WriteOk(c)
    BY <2>2, <2>4, SMTT(30) DEF WriteOk
  <2>5. CASE WriteFail(c)
    BY <2>2, <2>3, <2>5, SMTT(30) DEF WriteFail
  <2> QED BY <1>3, <2>4, <2>5
<1>4. ASSUME NEW c \in Calls, SelectCtx(c)
      PROVE  TypeOK'
  BY <1>4 DEF SelectCtx, Outcomes
<1>5. ASSUME NEW c \in Calls, SelectDone(c)
      PROVE  TypeOK'
  BY <1>5, CloseReasons DEF SelectDone, Return, Outcomes
<1>6. ASSUME NEW c \in Calls, SelectResult(c)
      PROVE  TypeOK'
  BY <1>6 DEF SelectResult, Return, Outcomes
<1>7. ASSUME NEW c \in Calls, Discard(c)
      PROVE  TypeOK'
  BY <1>7 DEF Discard, DiscardLeaving, Without
<1>8. CASE Deliver
  <2> DEFINE m == Head(inbox)
  <2>1. m \in Replies /\ inbox' \in Seq(Messages)
    <3>1. m \in Messages /\ m.kind \in ReplyKinds /\ inbox' \in Seq(Messages)
      BY <1>8 DEF Deliver, DeliverLeaving, Decoded
    <3>2. ASSUME NEW k \in OtherLines, m = Line(k)
          PROVE  FALSE
      <4>1. m.kind = k
        BY <3>2 DEF Line
      <4> QED BY <3>1, <4>1, KindAssumption DEF OtherLines
    <3> QED BY <3>1, <3>2 DEF Messages
  <2>2. Decoded(m.of) \in DOMAIN pending =>
          [call |-> pending[Decoded(m.of)], res |-> m] \in [call : Calls, res : Results]
    BY <2>1 DEF Results
  <2>3. taken' \in [Threads -> SUBSET [call : Calls, res : Results]]
    BY <1>8, <2>2 DEF Deliver, DeliverLeaving, Decoded
  <2>4. pending' \in [DOMAIN pending' -> Calls] /\ DOMAIN pending' \subseteq Nat
    BY <1>8 DEF Deliver, DeliverLeaving, Decoded, Without
  <2> QED BY <1>8, <2>1, <2>3, <2>4 DEF Deliver, DeliverLeaving, Decoded
<1>9. CASE ReadIgnored
  BY <1>9 DEF ReadIgnored
<1>10. CASE ReadGarbage \/ ReadEOF \/ ReadAborted
  <2>1. \E e \in Errors : Stop(e)
    BY <1>10 DEF ReadGarbage, ReadEOF, ReadAborted, Errors
  <2>2. /\ closed' \in BOOLEAN /\ closeErr' \in Errors \cup {"nil"}
        /\ rpc' \in {"read", "failEOF", "failErr", "exit", "stopped"}
    BY <2>1 DEF Stop, StopWith
  <2>3. inbox' \in Seq(Messages)
    <3>1. inbox' = inbox \/ (inbox # <<>> /\ inbox' = Tail(inbox))
      BY <1>10 DEF ReadGarbage, ReadEOF, ReadAborted
    <3> QED BY <3>1, ReadLine
  <2> QED BY <1>10, <2>2, <2>3 DEF ReadGarbage, ReadEOF, ReadAborted
<1>11. CASE ReaderFailPending
  <2>1. \E e \in Errors : TakePending(Reader, e)
    BY <1>11 DEF ReaderFailPending, Errors
  <2>2. /\ taken' \in [Threads -> SUBSET [call : Calls, res : Results]]
        /\ pending' \in [DOMAIN pending' -> Calls] /\ DOMAIN pending' \subseteq Nat
    BY <2>1, TakePendingType DEF Threads
  <2> QED BY <1>11, <2>2 DEF ReaderFailPending
<1>12. CASE ReaderExit
  BY <1>12 DEF ReaderExit
<1>13. ASSUME NEW t \in Threads, Send(t)
       PROVE  TypeOK'
  BY <1>13 DEF Send
<1>14. ASSUME NEW k \in Closers, CloseAgain(k) \/ CloseFirst(k) \/ CloseTransport(k) \/ CloseReturn(k)
       PROVE  TypeOK'
  <2>1. CASE CloseAgain(k)
    BY <2>1, SMTT(30) DEF CloseAgain
  <2>2. CASE CloseFirst(k)
    <3>1. PICK reason \in Errors : closeErr' = reason /\ MarkClosed(k, reason, "closer")
      <4>1. (IF closeErr = "nil" THEN "closed" ELSE closeErr) \in Errors
        BY DEF Errors
      <4> QED BY <2>2, <4>1 DEF CloseFirst, MarkClosed
    <3>2. closed' \in BOOLEAN /\ cpc' \in [Closers -> {"new", "closer", "fail", "drain", "returned"}]
      BY <3>1 DEF MarkClosed
    <3>3. UNCHANGED <<nextID, pending, done, callVars, rpc, taken, peerVars>>
      BY <3>1 DEF MarkClosed
    <3> QED BY <3>1, <3>2, <3>3
  <2>3. CASE CloseTransport(k)
    <3>1. /\ cpc' \in [Closers -> {"new", "closer", "fail", "drain", "returned"}]
          /\ transportOpen' \in BOOLEAN /\ eof' \in BOOLEAN
      BY <2>3 DEF CloseTransport
    <3>2. UNCHANGED <<connVars, callVars, rpc, taken, inbox, requests, replies>>
      BY <2>3 DEF CloseTransport
    <3> QED BY <3>1, <3>2
  <2>4. CASE CloseReturn(k)
    BY <2>4, SMTT(30) DEF CloseReturn
  <2> QED BY <1>14, <2>1, <2>2, <2>3, <2>4
<1>15. ASSUME NEW k \in Closers, CloserFailPending(k)
       PROVE  TypeOK'
  <2>1. closeErr \in Errors /\ TakePending(k, closeErr)
    BY <1>15 DEF CloserFailPending, StopInv
  <2>2. /\ taken' \in [Threads -> SUBSET [call : Calls, res : Results]]
        /\ pending' \in [DOMAIN pending' -> Calls] /\ DOMAIN pending' \subseteq Nat
    BY <2>1, TakePendingType DEF Threads
  <2> QED BY <1>15, <2>2 DEF CloserFailPending
<1>16. CASE ServerReply
  <2>1. PICK i \in requests \cup {NullId}, k \in ReplyKinds :
          ServerSend(Reply(i, k)) /\ replies' = replies \cup {Reply(i, k)}
    BY <1>16 DEF ServerReply
  <2>2. Reply(i, k) \in Replies /\ Reply(i, k) \in Messages
    BY DEF Reply, Replies, Messages
  <2> QED BY <1>16, <2>1, <2>2 DEF ServerReply, ServerSend
<1>17. CASE ServerChatter
  <2>1. PICK k \in OtherLines : ServerSend(Line(k))
    BY <1>17 DEF ServerChatter
  <2>2. Line(k) \in Messages
    BY DEF Messages
  <2> QED BY <1>17, <2>1, <2>2 DEF ServerChatter, ServerSend
<1>18. CASE ServerExit
  BY <1>18 DEF ServerExit
<1>19. CASE UNCHANGED vars
  BY <1>19 DEF vars
<1> QED BY <1>1, <1>2, <1>3, <1>4, <1>5, <1>6, <1>7, <1>8, <1>9, <1>10, <1>11, <1>12, <1>13,
           <1>14, <1>15, <1>16, <1>17, <1>18, <1>19
        DEF Next, CallStart, CallEnd, ReaderStep, CloserStep

\* Every step keeps the request ids unique and below nextID, and the pending
\* map in step with them.
LEMMA IdsStep ==
  ASSUME TypeOK, IdsInv, Next
  PROVE  IdsInv'
<1> USE DEF TypeOK, connVars, callVars, threadVars, peerVars
<1>1. ASSUME NEW c \in Calls, Register(c)
      PROVE  IdsInv'
  <2>1. /\ pc[c] = "new" /\ id[c] = NoId /\ nextID' = nextID + 1
        /\ id' = [id EXCEPT ![c] = nextID] /\ pc' = [pc EXCEPT ![c] = "write"]
        /\ UNCHANGED <<requests, replies>>
    BY <1>1 DEF Register, Enrol, IdsInv
  <2>2. /\ DOMAIN pending' = DOMAIN pending \cup {nextID}
        /\ \A i \in DOMAIN pending' : pending'[i] = IF i = nextID THEN c ELSE pending[i]
    BY <1>1 DEF Register, Enrol, With
  <2>3. \A i \in DOMAIN pending : i < nextID /\ pending[i] # c
    BY <2>1 DEF IdsInv, NoId
  <2>4. \A i \in DOMAIN pending' : id'[pending'[i]] = i
    BY <2>1, <2>2, <2>3 DEF IdsInv
  <2>5. \A d \in Calls : id'[d] < nextID'
    BY <2>1 DEF IdsInv, NoId
  <2>6. \A d, e \in Calls : id'[d] = id'[e] /\ id'[d] # NoId => d = e
    BY <2>1 DEF IdsInv, NoId
  <2>7. /\ \A d \in Calls : pc'[d] = "new" => id'[d] = NoId
        /\ \A d \in Calls : pc'[d] \in {"write", "wait", "discard"} => id'[d] # NoId
    BY <2>1 DEF IdsInv, NoId
  <2>8. (\A i \in requests' : i < nextID') /\ (\A m \in replies' : m.of < nextID')
    <3>1. \A m \in replies : m.of \in Int
      BY DEF Replies, NullId
    <3> QED BY <2>1, <3>1 DEF IdsInv
  <2>9. \E d \in Calls : id'[d] = 0
    <3>1. CASE nextID = 0
      BY <2>1, <3>1
    <3>2. CASE nextID # 0
      <4>1. PICK d \in Calls : id[d] = 0
        BY <3>2 DEF IdsInv
      <4> QED BY <2>1, <4>1 DEF NoId
    <3> QED BY <3>1, <3>2
  <2> QED BY <2>4, <2>5, <2>6, <2>7, <2>8, <2>9 DEF IdsInv
<1>2. ASSUME NEW c \in Calls, Refuse(c) \/ SelectCtx(c) \/ SelectDone(c) \/ SelectResult(c)
      PROVE  IdsInv'
  BY <1>2 DEF IdsInv, Refuse, SelectCtx, SelectDone, SelectResult, Return
<1>3. ASSUME NEW c \in Calls, WriteOk(c) \/ WriteFail(c)
      PROVE  IdsInv'
  <2>1. /\ requests' \subseteq requests \cup {id[c]} /\ id[c] # NoId
        /\ \A d \in Calls : pc'[d] # pc[d] => d = c /\ pc'[d] \in {"wait", "discard"}
        /\ UNCHANGED <<nextID, id, pending, replies>>
    BY <1>3 DEF IdsInv, WriteOk, WriteFail
  <2> QED BY <2>1 DEF IdsInv
<1>4. ASSUME DOMAIN pending' \subseteq DOMAIN pending,
             \A i \in DOMAIN pending' : pending'[i] = pending[i],
             \A d \in Calls : pc'[d] # pc[d] => pc'[d] = "returned",
             UNCHANGED <<nextID, id, requests, replies>>
      PROVE  IdsInv'
  BY <1>4 DEF IdsInv
<1>5. ASSUME NEW c \in Calls, Discard(c)
      PROVE  IdsInv'
  BY <1>4, <1>5 DEF Discard, DiscardLeaving, Without
<1>6. CASE Deliver
  BY <1>4, <1>6 DEF Deliver, DeliverLeaving, Decoded, Without
<1>7. CASE ReaderFailPending
  BY <1>4, <1>7 DEF ReaderFailPending, TakePending
<1>8. ASSUME NEW k \in Closers, CloserFailPending(k)
      PROVE  IdsInv'
  BY <1>4, <1>8 DEF CloserFailPending, TakePending
<1>9. CASE ServerReply
  <2>1. PICK i \in requests \cup {NullId}, k \in ReplyKinds : replies' = replies \cup {Reply(i, k)}
    BY <1>9 DEF ServerReply
  <2>2. Reply(i, k).of < nextID
    BY DEF IdsInv, Reply, NullId
  <2> QED BY <1>9, <2>1, <2>2 DEF IdsInv, ServerReply
<1>10. ASSUME UNCHANGED <<nextID, pending, pc, id, requests, replies>>
       PROVE  IdsInv'
  BY <1>10 DEF IdsInv
<1>11. CASE ReadIgnored \/ ReadGarbage \/ ReadEOF \/ ReadAborted \/ ReaderExit
  BY <1>10, <1>11 DEF ReadIgnored, ReadGarbage, ReadEOF, ReadAborted, ReaderExit
<1>12. ASSUME NEW t \in Threads, Send(t)
       PROVE  IdsInv'
  BY <1>10, <1>12 DEF Send
<1>13. ASSUME NEW k \in Closers, CloseAgain(k) \/ CloseFirst(k) \/ CloseTransport(k) \/ CloseReturn(k)
       PROVE  IdsInv'
  BY <1>10, <1>13 DEF CloseAgain, CloseFirst, MarkClosed, CloseTransport, CloseReturn
<1>14. CASE ServerChatter \/ ServerExit
  BY <1>10, <1>14 DEF ServerChatter, ServerExit
<1> QED BY <1>1, <1>2, <1>3, <1>5, <1>6, <1>7, <1>8, <1>9, <1>11, <1>12, <1>13, <1>14
        DEF Next, CallStart, CallEnd, ReaderStep, CloserStep

\* Every step keeps the read loop's and the closers' positions in step with the
\* closed flag, the recorded reason and done.
LEMMA StopStep ==
  ASSUME TypeOK, StopInv, Next
  PROVE  StopInv'
<1> USE DEF TypeOK, connVars, callVars, threadVars, peerVars
<1>1. ASSUME NEW c \in Calls, Register(c)
      PROVE  StopInv'
  BY <1>1 DEF StopInv, Register, Enrol
<1>2. ASSUME UNCHANGED <<closed, closeErr, done, rpc, cpc, taken>>,
             DOMAIN pending' \subseteq DOMAIN pending
      PROVE  StopInv'
  BY <1>2 DEF StopInv
<1>3. ASSUME NEW c \in Calls,
             \/ Refuse(c) \/ WriteOk(c) \/ WriteFail(c) \/ SelectCtx(c) \/ SelectDone(c)
             \/ SelectResult(c) \/ Discard(c)
      PROVE  StopInv'
  BY <1>2, <1>3 DEF Refuse, WriteOk, WriteFail, SelectCtx, SelectDone, SelectResult, Discard, DiscardLeaving,
                    Return, Without
<1>4. CASE Deliver
  <2>1. /\ rpc = "read"
        /\ \A t \in Threads \ {Reader} : taken'[t] = taken[t]
        /\ UNCHANGED <<closed, closeErr, done, rpc, cpc>>
    BY <1>4 DEF Deliver, DeliverLeaving, Decoded, Reading
  <2> QED BY <2>1, ReaderAssumption DEF StopInv, Threads
<1>5. CASE ReadIgnored \/ ServerReply \/ ServerChatter \/ ServerExit
  BY <1>2, <1>5 DEF ReadIgnored, ServerReply, ServerChatter, ServerExit
<1>6. CASE ReadGarbage \/ ReadEOF \/ ReadAborted
  <2>1. PICK e \in Errors : Stop(e)
    BY <1>6 DEF ReadGarbage, ReadEOF, ReadAborted, Errors
  <2>2. UNCHANGED <<pending, done, cpc, taken>>
    BY <1>6 DEF ReadGarbage, ReadEOF, ReadAborted
  <2> QED BY <2>1, <2>2 DEF StopInv, Stop, StopWith, Reading, Errors
<1>7. CASE ReaderFailPending
  BY <1>7, ReaderAssumption DEF StopInv, ReaderFailPending, TakePending, Threads
<1>8. CASE ReaderExit
  BY <1>8 DEF StopInv, ReaderExit
<1>9. ASSUME NEW t \in Threads, Send(t)
      PROVE  StopInv'
  BY <1>9, ReaderAssumption DEF StopInv, Send, Threads
<1>10. ASSUME NEW k \in Closers, CloseAgain(k) \/ CloseFirst(k) \/ CloseTransport(k) \/ CloseReturn(k)
       PROVE  StopInv'
  BY SMTT(30), <1>10 DEF StopInv, CloseAgain, CloseFirst, MarkClosed, CloseTransport, CloseReturn
<1>11. ASSUME NEW k \in Closers, CloserFailPending(k)
       PROVE  StopInv'
  BY <1>11, ReaderAssumption DEF StopInv, CloserFailPending, TakePending, Threads
<1> QED BY <1>1, <1>3, <1>4, <1>5, <1>6, <1>7, <1>8, <1>9, <1>10, <1>11
        DEF Next, CallStart, CallEnd, ReaderStep, CloserStep

\* An error is no answer.
LEMMA ErrorsUnbound ==
  ASSUME NEW c, NEW e \in Errors \cup OtherLines \cup {"none", "abandoned"}, NEW i
  PROVE  /\ Failure(e).kind \notin ReplyKinds
         /\ Line(e).kind \notin ReplyKinds
         /\ BoundFor(c, Failure(e)) /\ BoundFor(c, Failure(e))'
BY KindAssumption DEF Errors, OtherLines, Failure, Line, BoundFor

\* Every step keeps what travels to a caller bound to that caller's id: an answer
\* in the inbox, in hand, in a channel or returned was given by the server.
LEMMA AnswersStep ==
  ASSUME TypeOK, IdsInv, StopInv, AnswersInv, Next
  PROVE  AnswersInv'
<1> USE DEF TypeOK, connVars, callVars, threadVars, peerVars
<1>1. ASSUME NEW c \in Calls, Register(c)
      PROVE  AnswersInv'
  <2>1. /\ id[c] = NoId /\ id' = [id EXCEPT ![c] = nextID] /\ nextID # NoId
        /\ \A d \in Calls : pc'[d] = "discard" => pc[d] = "discard"
        /\ UNCHANGED <<taken, ch, outcome, inbox, replies>>
    BY <1>1 DEF Register, Enrol, IdsInv, NoId
  <2>2. outcome[c].kind \notin ReplyKinds
    BY <2>1, KindAssumption DEF AnswersInv, BoundFor, Outcomes, Results, ConnFailures, Errors, Failure,
                                Replies, Decoded, NoId
  <2>3. ch[c] = <<>> /\ \A t \in Threads : \A w \in taken[t] : w.call # c
    BY <2>1 DEF AnswersInv
  <2>4. \A t \in Threads : \A w \in taken'[t] : id'[w.call] # NoId /\ BoundFor(w.call, w.res)'
    BY <2>1, <2>3 DEF AnswersInv, BoundFor
  <2>5. \A d \in Calls : \A j \in 1 .. Len(ch'[d]) : BoundFor(d, ch[d][j])'
    BY <2>1, <2>3 DEF AnswersInv, BoundFor
  <2>6. \A d \in Calls : ch'[d] # <<>> => id'[d] # NoId
    BY <2>1, <2>3 DEF AnswersInv
  <2>7. \A d \in Calls : BoundFor(d, outcome[d])'
    BY <2>1, <2>2 DEF AnswersInv, BoundFor
  <2>8. \A d \in Calls : pc'[d] = "discard" => outcome'[d] = Failure("abandoned")
    BY <2>1 DEF AnswersInv
  <2>9. \A j \in 1 .. Len(inbox') : inbox'[j].kind \in ReplyKinds => inbox'[j] \in replies'
    BY <2>1 DEF AnswersInv
  <2> QED BY <2>4, <2>5, <2>6, <2>7, <2>8, <2>9 DEF AnswersInv, BoundFor
<1>2. ASSUME NEW c \in Calls, NEW m, BoundFor(c, m),
             outcome' = [outcome EXCEPT ![c] = m],
             \A d \in Calls : pc'[d] = "discard" => pc[d] = "discard"
                                             \/ (d = c /\ m = Failure("abandoned")),
             pc'[c] # "discard" \/ m = Failure("abandoned"),
             UNCHANGED <<id, taken, ch, inbox, replies>>
      PROVE  AnswersInv'
  BY <1>2 DEF AnswersInv, BoundFor
<1>3. ASSUME NEW c \in Calls, Refuse(c) \/ SelectDone(c)
      PROVE  AnswersInv'
  <2>1. BoundFor(c, CloseReason)
    BY ErrorsUnbound DEF CloseReason, Errors
  <2> QED BY <1>2, <1>3, <2>1 DEF Refuse, SelectDone, Return
<1>4. ASSUME NEW c \in Calls, WriteFail(c) \/ SelectCtx(c)
      PROVE  AnswersInv'
  <2>1. BoundFor(c, Failure("abandoned"))
    BY ErrorsUnbound
  <2> QED BY <1>2, <1>4, <2>1 DEF WriteFail, SelectCtx
<1>5. ASSUME NEW c \in Calls, SelectResult(c)
      PROVE  AnswersInv'
  <2>1. /\ ch[c] # <<>> /\ ch' = [ch EXCEPT ![c] = Tail(@)]
        /\ outcome' = [outcome EXCEPT ![c] = Head(ch[c])]
        /\ pc' = [pc EXCEPT ![c] = "returned"]
        /\ UNCHANGED <<id, taken, inbox, replies>>
    BY <1>5 DEF SelectResult, Return
  <2>2. ch[c] \in Seq(Results) /\ Head(ch[c]) = ch[c][1] /\ 1 \in 1 .. Len(ch[c])
    BY <2>1
  <2>3. \A j \in 1 .. Len(Tail(ch[c])) : j + 1 \in 1 .. Len(ch[c]) /\ Tail(ch[c])[j] = ch[c][j + 1]
    BY <2>1, <2>2
  <2>4. \A d \in Calls : \A j \in 1 .. Len(ch'[d]) : BoundFor(d, ch'[d][j])
    BY <2>1, <2>3 DEF AnswersInv
  <2>5. \A d \in Calls : BoundFor(d, outcome'[d])
    BY <2>1, <2>2 DEF AnswersInv
  <2>6. \A d \in Calls : /\ pc'[d] = "discard" => outcome'[d] = Failure("abandoned")
                        /\ ch'[d] # <<>> => id[d] # NoId
    BY <2>1 DEF AnswersInv
  <2> QED BY <2>1, <2>4, <2>5, <2>6 DEF AnswersInv, BoundFor
<1>6. CASE Deliver
  <2> DEFINE m == Head(inbox)
  <2>1. /\ m.kind \in ReplyKinds /\ inbox # <<>> /\ inbox' = Tail(inbox)
        /\ taken' = [taken EXCEPT ![Reader] = IF Decoded(m.of) \in DOMAIN pending
                                              THEN {[call |-> pending[Decoded(m.of)], res |-> m]} ELSE {}]
        /\ UNCHANGED <<id, pc, ch, outcome, replies>>
    BY <1>6 DEF Deliver, DeliverLeaving, Decoded
  <2>2. m = inbox[1] /\ 1 \in 1 .. Len(inbox)
    BY <2>1
  <2>3. \A j \in 1 .. Len(inbox') : j + 1 \in 1 .. Len(inbox) /\ inbox'[j] = inbox[j + 1]
    BY <2>1
  <2> HIDE DEF m
  <2>4. m \in replies /\ (Decoded(m.of) \in DOMAIN pending =>
                            id[pending[Decoded(m.of)]] = Decoded(m.of) /\ Decoded(m.of) # NoId)
    <3>1. m \in replies
      BY <2>1, <2>2 DEF AnswersInv
    <3>2. \A i \in DOMAIN pending : id[pending[i]] = i /\ i # NoId
      BY DEF IdsInv, NoId
    <3> QED BY <3>1, <3>2
  <2>5. \A t \in Threads : \A w \in taken'[t] : id[w.call] # NoId /\ BoundFor(w.call, w.res)
    BY <2>1, <2>4 DEF AnswersInv, BoundFor
  <2>6. \A j \in 1 .. Len(inbox') : inbox'[j].kind \in ReplyKinds => inbox'[j] \in replies
    BY <2>3 DEF AnswersInv
  <2> QED BY <2>1, <2>5, <2>6 DEF AnswersInv, BoundFor
<1>7. ASSUME inbox' = inbox \/ (inbox # <<>> /\ inbox' = Tail(inbox)),
             UNCHANGED <<id, outcome, taken, ch, replies>>,
             \A d \in Calls : pc'[d] = "discard" => pc[d] = "discard"
      PROVE  AnswersInv'
  <2>1. \A j \in 1 .. Len(inbox') : \E l \in 1 .. Len(inbox) : inbox'[j] = inbox[l]
    <3>1. CASE inbox' = inbox
      BY <3>1
    <3>2. CASE inbox # <<>> /\ inbox' = Tail(inbox)
      <4>1. \A j \in 1 .. Len(inbox') : j + 1 \in 1 .. Len(inbox) /\ inbox'[j] = inbox[j + 1]
        BY <3>2
      <4> QED BY <4>1
    <3> QED BY <1>7, <3>1, <3>2
  <2> QED BY <1>7, <2>1 DEF AnswersInv, BoundFor
<1>8. CASE ReadIgnored \/ ReadGarbage \/ ReadEOF \/ ReadAborted \/ ReaderExit
  <2>1. /\ inbox' = inbox \/ (inbox # <<>> /\ inbox' = Tail(inbox))
        /\ UNCHANGED <<id, outcome, taken, ch, replies, pc>>
    BY <1>8 DEF ReadIgnored, ReadGarbage, ReadEOF, ReadAborted, ReaderExit
  <2> QED BY <1>7, <2>1
<1>9. ASSUME NEW c \in Calls, WriteOk(c) \/ Discard(c)
      PROVE  AnswersInv'
  <2>1. /\ inbox' = inbox /\ UNCHANGED <<id, outcome, taken, ch, replies>>
        /\ \E p \in {"wait", "returned"} : pc' = [pc EXCEPT ![c] = p]
    BY <1>9 DEF WriteOk, Discard, DiscardLeaving
  <2>2. \A d \in Calls : pc'[d] = "discard" => pc[d] = "discard"
    BY <2>1
  <2> QED BY <1>7, <2>1, <2>2
<1>10. ASSUME NEW k \in Closers, CloseAgain(k) \/ CloseFirst(k) \/ CloseTransport(k) \/ CloseReturn(k)
       PROVE  AnswersInv'
  <2>1. inbox' = inbox /\ UNCHANGED <<id, outcome, taken, ch, replies, pc>>
    BY <1>10 DEF CloseAgain, CloseFirst, MarkClosed, CloseTransport, CloseReturn
  <2> QED BY <1>7, <2>1
<1>11. CASE ServerExit
  <2>1. inbox' = inbox /\ UNCHANGED <<id, outcome, taken, ch, replies, pc>>
    BY <1>11 DEF ServerExit
  <2> QED BY <1>7, <2>1
<1>12. ASSUME NEW t \in Threads, NEW e \in Errors, TakePending(t, e),
              UNCHANGED <<id, pc, outcome, ch, inbox, replies>>
       PROVE  AnswersInv'
  <2>1. \A i \in DOMAIN pending : id[pending[i]] # NoId /\ BoundFor(pending[i], Failure(e))
    BY ErrorsUnbound DEF IdsInv, NoId
  <2>2. \A u \in Threads : \A w \in taken'[u] : id[w.call] # NoId /\ BoundFor(w.call, w.res)
    BY <1>12, <2>1 DEF AnswersInv, TakePending
  <2> QED BY <1>12, <2>2 DEF AnswersInv, BoundFor
<1>13. CASE ReaderFailPending
  BY <1>12, <1>13 DEF ReaderFailPending, Errors, Threads
<1>14. ASSUME NEW k \in Closers, CloserFailPending(k)
       PROVE  AnswersInv'
  BY <1>12, <1>14 DEF CloserFailPending, Errors, Threads, StopInv
<1>15. ASSUME NEW t \in Threads, Send(t)
       PROVE  AnswersInv'
  <2>1. PICK w \in taken[t] : /\ ch' = [ch EXCEPT ![w.call] = Append(@, w.res)]
                             /\ taken' = [taken EXCEPT ![t] = @ \ {w}]
    BY <1>15 DEF Send
  <2>2. w.call \in Calls /\ id[w.call] # NoId /\ BoundFor(w.call, w.res)
    BY DEF AnswersInv
  <2>3. \A j \in 1 .. Len(ch'[w.call]) : BoundFor(w.call, ch'[w.call][j])
    BY <2>1, <2>2 DEF AnswersInv
  <2>4. \A d \in Calls : \A j \in 1 .. Len(ch'[d]) : BoundFor(d, ch'[d][j])
    BY <2>1, <2>2, <2>3 DEF AnswersInv
  <2>5. \A d \in Calls : ch'[d] # <<>> => id[d] # NoId
    BY <2>1, <2>2 DEF AnswersInv
  <2>6. UNCHANGED <<id, pc, outcome, inbox, replies>> /\ \A u \in Threads : taken'[u] \subseteq taken[u]
    BY <1>15, <2>1 DEF Send
  <2> QED BY <2>4, <2>5, <2>6 DEF AnswersInv, BoundFor
<1>16. ASSUME NEW m \in Messages, inbox' = Append(inbox, m), replies \subseteq replies',
              m.kind \in ReplyKinds => m \in replies',
              UNCHANGED <<id, pc, outcome, taken, ch>>
       PROVE  AnswersInv'
  <2>1. \A j \in 1 .. Len(inbox') : inbox'[j] = m \/ (\E l \in 1 .. Len(inbox) : inbox'[j] = inbox[l])
    BY <1>16
  <2>2. \A j \in 1 .. Len(inbox') : inbox'[j].kind \in ReplyKinds => inbox'[j] \in replies'
    BY <1>16, <2>1 DEF AnswersInv
  <2> QED BY <1>16, <2>2 DEF AnswersInv, BoundFor
<1>17. CASE ServerReply
  <2>1. PICK i \in requests \cup {NullId}, k \in ReplyKinds :
          ServerSend(Reply(i, k)) /\ replies' = replies \cup {Reply(i, k)}
    BY <1>17 DEF ServerReply
  <2>2. Reply(i, k) \in Messages
    BY DEF Reply, Replies, Messages
  <2> QED BY <1>16, <1>17, <2>1, <2>2 DEF ServerReply, ServerSend
<1>18. CASE ServerChatter
  <2>1. PICK k \in OtherLines : ServerSend(Line(k))
    BY <1>18 DEF ServerChatter
  <2>2. Line(k) \in Messages /\ Line(k).kind \notin ReplyKinds
    BY ErrorsUnbound DEF Messages
  <2> QED BY <1>16, <1>18, <2>1, <2>2 DEF ServerChatter, ServerSend
<1> QED BY <1>1, <1>3, <1>4, <1>5, <1>6, <1>8, <1>9, <1>10, <1>11, <1>13, <1>14, <1>15, <1>17, <1>18
        DEF Next, CallStart, CallEnd, ReaderStep, CloserStep

\* Every step moves a call's one result on, from pending to hand to channel,
\* and never copies it.
LEMMA AtMostStep ==
  ASSUME TypeOK, IdsInv, StopInv, AnswersInv, AtMostOneResult, Next
  PROVE  AtMostOneResult'
<1> USE DEF TypeOK, connVars, callVars, threadVars, peerVars
<1>1. ASSUME NEW c \in Calls, Register(c)
      PROVE  AtMostOneResult'
  <2>1. /\ id[c] = NoId /\ UNCHANGED <<taken, ch>>
        /\ DOMAIN pending' = DOMAIN pending \cup {nextID}
        /\ \A i \in DOMAIN pending' : pending'[i] = IF i = nextID THEN c ELSE pending[i]
    BY <1>1 DEF Register, Enrol, With, IdsInv
  <2>2. ch[c] = <<>> /\ \A t \in Threads : ~InHand(t, c)
    BY <2>1 DEF AnswersInv, InHand
  <2>3. \A d \in Calls : IsPending(d)' => IsPending(d) \/ d = c
    BY <2>1 DEF IsPending
  <2> QED BY <2>1, <2>2, <2>3 DEF AtMostOneResult, InHand
<1>2. ASSUME \A d \in Calls : Len(ch'[d]) <= Len(ch[d]) /\ (ch'[d] # <<>> => ch[d] # <<>>),
             \A d \in Calls : IsPending(d)' => IsPending(d),
             taken' = taken
      PROVE  AtMostOneResult'
  BY <1>2 DEF AtMostOneResult, InHand
<1>3. ASSUME UNCHANGED <<ch, pending, taken>>
      PROVE  AtMostOneResult'
  BY <1>3 DEF AtMostOneResult, InHand, IsPending
<1>4. ASSUME NEW c \in Calls,
             Refuse(c) \/ WriteOk(c) \/ WriteFail(c) \/ SelectCtx(c) \/ SelectDone(c)
      PROVE  AtMostOneResult'
  BY <1>3, <1>4 DEF Refuse, WriteOk, WriteFail, SelectCtx, SelectDone, Return
<1>5. ASSUME NEW c \in Calls, SelectResult(c)
      PROVE  AtMostOneResult'
  <2>1. ch[c] # <<>> /\ ch' = [ch EXCEPT ![c] = Tail(@)] /\ UNCHANGED <<pending, taken>>
    BY <1>5 DEF SelectResult
  <2>2. ch[c] \in Seq(Results) /\ Len(Tail(ch[c])) <= Len(ch[c])
    BY <2>1
  <2>3. \A d \in Calls : Len(ch'[d]) <= Len(ch[d]) /\ (ch'[d] # <<>> => ch[d] # <<>>)
    BY <2>1, <2>2
  <2> QED BY <1>2, <2>1, <2>3 DEF IsPending
<1>6. ASSUME NEW c \in Calls, Discard(c)
      PROVE  AtMostOneResult'
  <2>1. ch' = ch /\ taken' = taken /\ \A d \in Calls : IsPending(d)' => IsPending(d)
    BY <1>6 DEF Discard, DiscardLeaving, Without, IsPending
  <2> QED BY <1>2, <2>1
<1>7. CASE Deliver
  <2>1. PICK m \in {Head(inbox)} :
          /\ taken[Reader] = {} /\ ch' = ch
          /\ taken' = [taken EXCEPT ![Reader] = IF Decoded(m.of) \in DOMAIN pending
                                                THEN {[call |-> pending[Decoded(m.of)], res |-> m]} ELSE {}]
          /\ DOMAIN pending' = DOMAIN pending \ {Decoded(m.of)}
          /\ \A i \in DOMAIN pending' : pending'[i] = pending[i]
    BY <1>7 DEF Deliver, DeliverLeaving, Decoded, Reading, Without
  <2>2. \A d \in Calls : IsPending(d)' => IsPending(d)
    BY <2>1 DEF IsPending
  <2>3. CASE Decoded(m.of) \notin DOMAIN pending
    <3>1. taken' = taken
      BY <2>1, <2>3 DEF Threads
    <3> QED BY <1>2, <2>1, <2>2, <3>1
  <2>4. ASSUME NEW c \in Calls, Decoded(m.of) \in DOMAIN pending, c = pending[Decoded(m.of)]
        PROVE  AtMostOneResult'
    <3>1. IsPending(c)
      BY <2>4 DEF IsPending
    <3>2. ch[c] = <<>> /\ \A t \in Threads : ~InHand(t, c)
      BY <3>1 DEF AtMostOneResult
    <3>3. ~IsPending(c)'
      <4>1. \A i \in DOMAIN pending : pending[i] = c => i = Decoded(m.of)
        BY <2>4 DEF IdsInv
      <4> QED BY <2>1, <4>1 DEF IsPending
    <3>4. taken'[Reader] = {[call |-> c, res |-> m]} /\ \A t \in Threads \ {Reader} : taken'[t] = taken[t]
      BY <2>1, <2>4 DEF Threads
    <3>5. \A d \in Calls : InHand(Reader, d)' => d = c
      BY <3>4 DEF InHand
    <3>6. \A t \in Threads \ {Reader}, d \in Calls : InHand(t, d)' => InHand(t, d)
      BY <3>4 DEF InHand
    <3>7. ASSUME NEW d \in Calls, NEW t \in Threads, InHand(t, d)'
          PROVE  /\ ch'[d] = <<>>
                 /\ ~IsPending(d)'
                 /\ \A u \in Threads \ {t} : ~InHand(u, d)'
                 /\ \A v, w \in taken'[t] : v.call = d /\ w.call = d => v = w
      <4>1. CASE t = Reader
        BY <2>1, <3>2, <3>3, <3>4, <3>5, <3>6, <3>7, <4>1
      <4>2. CASE t # Reader
        <5>1. InHand(t, d) /\ d # c /\ taken'[t] = taken[t]
          BY <3>2, <3>4, <3>6, <3>7, <4>2
        <5>2. ch[d] = <<>> /\ ~IsPending(d) /\ \A u \in Threads \ {t} : ~InHand(u, d)
          BY <5>1 DEF AtMostOneResult
        <5>3. \A u \in Threads \ {t} : ~InHand(u, d)'
          BY <3>5, <3>6, <5>1, <5>2
        <5>4. \A v, w \in taken[t] : v.call = d /\ w.call = d => v = w
          BY <5>1 DEF AtMostOneResult
        <5> QED BY <2>1, <2>2, <5>1, <5>2, <5>3, <5>4
      <4> QED BY <4>1, <4>2
    <3>8. \A d \in Calls : Len(ch'[d]) <= 1 /\ (ch'[d] # <<>> => d # c /\ ~IsPending(d)')
      BY <2>1, <2>2, <3>2 DEF AtMostOneResult
    <3> QED BY <3>7, <3>8 DEF AtMostOneResult
  <2> QED BY <2>3, <2>4
<1>8. ASSUME NEW t \in Threads, NEW e \in Errors, TakePending(t, e), ch' = ch
      PROVE  AtMostOneResult'
  <2>1. /\ taken'[t] = {[call |-> pending[i], res |-> Failure(e)] : i \in DOMAIN pending}
        /\ \A u \in Threads \ {t} : taken'[u] = taken[u]
        /\ DOMAIN pending' = {}
    BY <1>8 DEF TakePending
  <2>2. \A d \in Calls : ~IsPending(d)'
    BY <2>1 DEF IsPending
  <2>3. \A d \in Calls : InHand(t, d)' => IsPending(d)
    BY <2>1 DEF IsPending, InHand
  <2>4. \A u \in Threads \ {t}, d \in Calls : InHand(u, d)' => InHand(u, d)
    BY <2>1 DEF InHand
  <2>5. \A v, w \in taken'[t] : v.call = w.call => v = w
    <3> SUFFICES ASSUME NEW i \in DOMAIN pending, NEW j \in DOMAIN pending, pending[i] = pending[j]
                 PROVE  i = j
      BY <2>1
    <3> QED BY DEF IdsInv
  <2>6. ASSUME NEW d \in Calls, NEW u \in Threads, InHand(u, d)'
        PROVE  /\ ch'[d] = <<>>
               /\ \A r \in Threads \ {u} : ~InHand(r, d)'
               /\ \A v, w \in taken'[u] : v.call = d /\ w.call = d => v = w
    <3>1. CASE u = t
      <4>1. IsPending(d)
        BY <2>3, <2>6, <3>1
      <4>2. ch[d] = <<>> /\ \A r \in Threads : ~InHand(r, d)
        BY <4>1 DEF AtMostOneResult
      <4> QED BY <1>8, <2>4, <2>5, <3>1, <4>2
    <3>2. CASE u # t
      <4>1. InHand(u, d) /\ taken'[u] = taken[u]
        BY <2>1, <2>4, <2>6, <3>2
      <4>2. ch[d] = <<>> /\ ~IsPending(d) /\ \A r \in Threads \ {u} : ~InHand(r, d)
        BY <4>1 DEF AtMostOneResult
      <4>3. \A r \in Threads \ {u} : ~InHand(r, d)'
        BY <2>3, <2>4, <4>2
      <4>4. \A v, w \in taken[u] : v.call = d /\ w.call = d => v = w
        BY <4>1 DEF AtMostOneResult
      <4> QED BY <1>8, <4>1, <4>2, <4>3, <4>4
    <3> QED BY <3>1, <3>2
  <2>7. \A d \in Calls : Len(ch'[d]) <= 1
    BY <1>8 DEF AtMostOneResult
  <2> QED BY <2>2, <2>6, <2>7 DEF AtMostOneResult
<1>9. CASE ReaderFailPending
  BY <1>8, <1>9 DEF ReaderFailPending, Errors, Threads
<1>10. ASSUME NEW k \in Closers, CloserFailPending(k)
       PROVE  AtMostOneResult'
  BY <1>8, <1>10 DEF CloserFailPending, Errors, Threads, StopInv
<1>11. ASSUME NEW t \in Threads, Send(t)
       PROVE  AtMostOneResult'
  <2>1. PICK c \in Calls, w \in taken[t] :
          /\ w.call = c /\ w.res \in Results
          /\ ch' = [ch EXCEPT ![c] = Append(@, w.res)]
          /\ taken' = [taken EXCEPT ![t] = @ \ {w}]
    <3>1. PICK w \in taken[t] : /\ ch' = [ch EXCEPT ![w.call] = Append(@, w.res)]
                               /\ taken' = [taken EXCEPT ![t] = @ \ {w}]
      BY <1>11 DEF Send
    <3>2. w.call \in Calls /\ w.res \in Results
      OBVIOUS
    <3> QED BY <3>1, <3>2
  <2>2. InHand(t, c)
    BY <2>1 DEF InHand
  <2>3. /\ ch[c] = <<>> /\ ~IsPending(c)
        /\ \A u \in Threads \ {t} : ~InHand(u, c)
        /\ \A v \in taken[t] : v.call = c => v = w
    BY <2>1, <2>2 DEF AtMostOneResult
  <2>4. ch' = [ch EXCEPT ![c] = <<w.res>>]
    BY <2>1, <2>3
  <2>5. Len(ch'[c]) = 1 /\ \A d \in Calls \ {c} : ch'[d] = ch[d]
    BY <2>4
  <2>6. pending' = pending /\ taken'[t] = taken[t] \ {w} /\ \A u \in Threads \ {t} : taken'[u] = taken[u]
    BY <1>11, <2>1 DEF Send
  <2>7. \A u \in Threads : ~InHand(u, c)'
    BY <2>3, <2>6 DEF InHand
  <2>8. \A u \in Threads, d \in Calls : InHand(u, d)' => InHand(u, d)
    BY <2>6 DEF InHand
  <2>9. \A d \in Calls : IsPending(d)' <=> IsPending(d)
    BY <2>6 DEF IsPending
  <2>10. \A u \in Threads : taken'[u] \subseteq taken[u]
    BY <2>6
  <2>11. ASSUME NEW d \in Calls \ {c}
         PROVE  /\ Len(ch'[d]) <= 1
                /\ ch'[d] # <<>> => ~IsPending(d)' /\ \A u \in Threads : ~InHand(u, d)'
                /\ \A u \in Threads : InHand(u, d)' =>
                     /\ ~IsPending(d)'
                     /\ \A r \in Threads \ {u} : ~InHand(r, d)'
                     /\ \A v, x \in taken'[u] : v.call = d /\ x.call = d => v = x
    BY <2>5, <2>8, <2>9, <2>10 DEF AtMostOneResult
  <2>12. /\ Len(ch'[c]) <= 1 /\ ~IsPending(c)'
         /\ \A u \in Threads : ~InHand(u, c)'
    BY <2>3, <2>5, <2>7, <2>9
  <2>13. \A d \in Calls :
           /\ Len(ch'[d]) <= 1
           /\ ch'[d] # <<>> => ~IsPending(d)' /\ \A u \in Threads : ~InHand(u, d)'
           /\ \A u \in Threads : InHand(u, d)' =>
                /\ ~IsPending(d)'
                /\ \A r \in Threads \ {u} : ~InHand(r, d)'
                /\ \A v, x \in taken'[u] : v.call = d /\ x.call = d => v = x
    BY <2>11, <2>12
  <2> QED BY <2>13 DEF AtMostOneResult
<1>12. CASE ReadIgnored \/ ReadGarbage \/ ReadEOF \/ ReadAborted \/ ReaderExit
  BY <1>3, <1>12 DEF ReadIgnored, ReadGarbage, ReadEOF, ReadAborted, ReaderExit
<1>13. ASSUME NEW k \in Closers, CloseAgain(k) \/ CloseFirst(k) \/ CloseTransport(k) \/ CloseReturn(k)
       PROVE  AtMostOneResult'
  BY <1>3, <1>13 DEF CloseAgain, CloseFirst, MarkClosed, CloseTransport, CloseReturn
<1>14. CASE ServerReply \/ ServerChatter \/ ServerExit
  BY <1>3, <1>14 DEF ServerReply, ServerChatter, ServerExit
<1> QED BY <1>1, <1>4, <1>5, <1>6, <1>7, <1>9, <1>10, <1>11, <1>12, <1>13, <1>14
        DEF Next, CallStart, CallEnd, ReaderStep, CloserStep

\* Every step leaves a waiting call with a way to be woken.
LEMMA WakeStep ==
  ASSUME TypeOK, IdsInv, StopInv, AnswersInv, WakeInv, Next
  PROVE  WakeInv'
<1> USE DEF TypeOK, connVars, callVars, threadVars, peerVars
<1>1. ASSUME NEW c \in Calls, Register(c)
      PROVE  WakeInv'
  <2>1. /\ id' = [id EXCEPT ![c] = nextID] /\ pc' = [pc EXCEPT ![c] = "write"]
        /\ id[c] = NoId /\ UNCHANGED <<ch, taken, done>>
        /\ DOMAIN pending' = DOMAIN pending \cup {nextID}
        /\ \A i \in DOMAIN pending' : pending'[i] = IF i = nextID THEN c ELSE pending[i]
    BY <1>1 DEF Register, Enrol, With, IdsInv
  <2>2. Wakeable(c)'
    BY <2>1 DEF Wakeable
  <2>3. ASSUME NEW d \in Calls \ {c}, Wakeable(d)
        PROVE  Wakeable(d)'
    <3>1. id'[d] = id[d] /\ \A i \in DOMAIN pending : i # nextID /\ i \in DOMAIN pending'
      BY <2>1 DEF IdsInv
    <3>2. \A u \in Threads : InHand(u, d) => InHand(u, d)'
      BY <2>1 DEF InHand
    <3> QED BY <2>1, <2>3, <3>1, <3>2 DEF Wakeable
  <2> QED BY <2>1, <2>2, <2>3 DEF WakeInv
<1>2. ASSUME UNCHANGED <<id, pending, ch, taken>>, done => done',
             \A d \in Calls : pc'[d] \in {"write", "wait"} => pc[d] \in {"write", "wait"}
      PROVE  WakeInv'
  <2>1. \A d \in Calls : Wakeable(d) => Wakeable(d)'
    BY <1>2 DEF Wakeable, InHand
  <2> QED BY <1>2, <2>1 DEF WakeInv
<1>3. ASSUME NEW c \in Calls,
             Refuse(c) \/ WriteOk(c) \/ WriteFail(c) \/ SelectCtx(c) \/ SelectDone(c)
      PROVE  WakeInv'
  <2>1. UNCHANGED <<id, pending, ch, taken, done>>
    BY <1>3 DEF Refuse, WriteOk, WriteFail, SelectCtx, SelectDone, Return
  <2>2. \A d \in Calls : pc'[d] \in {"write", "wait"} => pc[d] \in {"write", "wait"}
    BY <1>3 DEF Refuse, WriteOk, WriteFail, SelectCtx, SelectDone, Return
  <2> QED BY <1>2, <2>1, <2>2
<1>4. ASSUME NEW c \in Calls, SelectResult(c)
      PROVE  WakeInv'
  <2>1. /\ pc' = [pc EXCEPT ![c] = "returned"] /\ \A d \in Calls \ {c} : ch'[d] = ch[d]
        /\ UNCHANGED <<id, pending, taken, done>>
    BY <1>4 DEF SelectResult, Return
  <2>2. \A d \in Calls \ {c} : Wakeable(d) => Wakeable(d)'
    BY <2>1 DEF Wakeable, InHand
  <2> QED BY <2>1, <2>2 DEF WakeInv
<1>5. ASSUME NEW c \in Calls, Discard(c)
      PROVE  WakeInv'
  <2>1. /\ pc' = [pc EXCEPT ![c] = "returned"] /\ id[c] # NoId
        /\ DOMAIN pending' = DOMAIN pending \ {id[c]}
        /\ \A i \in DOMAIN pending' : pending'[i] = pending[i]
        /\ UNCHANGED <<id, ch, taken, done>>
    BY <1>5 DEF Discard, DiscardLeaving, Without, IdsInv
  <2>2. \A d \in Calls \ {c} : id[d] # id[c]
    BY <2>1 DEF IdsInv
  <2>3. \A d \in Calls \ {c} : Wakeable(d) => Wakeable(d)'
    BY <2>1, <2>2 DEF Wakeable, InHand
  <2> QED BY <2>1, <2>3 DEF WakeInv
<1>6. ASSUME NEW t \in Threads, taken[t] = {}, \A u \in Threads \ {t} : taken'[u] = taken[u],
             UNCHANGED <<id, pc, ch, done>>,
             \A c \in Calls : \A i \in DOMAIN pending : c = pending[i] =>
               (i \in DOMAIN pending' /\ pending'[i] = c) \/ InHand(t, c)'
      PROVE  WakeInv'
  <2> SUFFICES ASSUME NEW d \in Calls, Wakeable(d)
               PROVE  Wakeable(d)'
    BY <1>6 DEF WakeInv
  <2>1. CASE id[d] \in DOMAIN pending /\ pending[id[d]] = d
    <3>1. (id[d] \in DOMAIN pending' /\ pending'[id[d]] = d) \/ InHand(t, d)'
      BY <1>6, <2>1
    <3> QED BY <1>6, <3>1 DEF Wakeable
  <2>2. ASSUME NEW u \in Threads, InHand(u, d)
        PROVE  Wakeable(d)'
    <3>1. InHand(u, d)'
      BY <1>6, <2>2 DEF InHand
    <3> QED BY <3>1 DEF Wakeable
  <2>3. CASE ch[d] # <<>> \/ done
    BY <1>6, <2>3 DEF Wakeable
  <2> QED BY <2>1, <2>2, <2>3 DEF Wakeable
<1>7. CASE Deliver
  <2>1. PICK m \in {Head(inbox)} :
          /\ taken[Reader] = {} /\ UNCHANGED <<id, pc, ch, done>>
          /\ taken' = [taken EXCEPT ![Reader] = IF Decoded(m.of) \in DOMAIN pending
                                                THEN {[call |-> pending[Decoded(m.of)], res |-> m]} ELSE {}]
          /\ DOMAIN pending' = DOMAIN pending \ {Decoded(m.of)}
          /\ \A i \in DOMAIN pending' : pending'[i] = pending[i]
    BY <1>7 DEF Deliver, DeliverLeaving, Decoded, Reading, Without
  <2>2. \A c \in Calls : Decoded(m.of) \in DOMAIN pending /\ c = pending[Decoded(m.of)] => InHand(Reader, c)'
    BY <2>1 DEF InHand, Threads
  <2>3. \A c \in Calls : \A i \in DOMAIN pending : c = pending[i] =>
          (i \in DOMAIN pending' /\ pending'[i] = c) \/ InHand(Reader, c)'
    BY <2>1, <2>2
  <2>4. \A u \in Threads \ {Reader} : taken'[u] = taken[u]
    BY <2>1
  <2> QED BY <1>6, <2>1, <2>3, <2>4 DEF Threads
<1>8. ASSUME NEW t \in Threads, NEW e \in Errors, TakePending(t, e), taken[t] = {},
             UNCHANGED <<id, pc, ch, done>>
      PROVE  WakeInv'
  <2>1. /\ taken'[t] = {[call |-> pending[i], res |-> Failure(e)] : i \in DOMAIN pending}
        /\ \A u \in Threads \ {t} : taken'[u] = taken[u]
    BY <1>8 DEF TakePending
  <2>2. ASSUME NEW c \in Calls, NEW i \in DOMAIN pending, c = pending[i]
        PROVE  InHand(t, c)'
    <3>1. [call |-> c, res |-> Failure(e)] \in taken'[t]
      BY <2>1, <2>2
    <3>2. [call |-> c, res |-> Failure(e)].call = c
      OBVIOUS
    <3> QED BY <3>1, <3>2 DEF InHand
  <2> QED BY <1>6, <1>8, <2>1, <2>2
<1>9. CASE ReaderFailPending
  <2>1. taken[Reader] = {} /\ Reader \in Threads /\ UNCHANGED <<id, pc, ch, done>>
    BY <1>9 DEF ReaderFailPending, StopInv, Threads
  <2>2. \E e \in Errors : TakePending(Reader, e)
    BY <1>9 DEF ReaderFailPending, Errors
  <2> QED BY <1>8, <2>1, <2>2
<1>10. ASSUME NEW k \in Closers, CloserFailPending(k)
       PROVE  WakeInv'
  <2>1. taken[k] = {} /\ k \in Threads /\ UNCHANGED <<id, pc, ch, done>>
    BY <1>10 DEF CloserFailPending, StopInv, Threads
  <2>2. closeErr \in Errors /\ TakePending(k, closeErr)
    BY <1>10 DEF CloserFailPending, StopInv
  <2> QED BY <1>8, <2>1, <2>2
<1>11. ASSUME NEW t \in Threads, Send(t)
       PROVE  WakeInv'
  <2>1. PICK w \in taken[t] : /\ ch' = [ch EXCEPT ![w.call] = Append(@, w.res)]
                             /\ taken' = [taken EXCEPT ![t] = @ \ {w}]
    BY <1>11 DEF Send
  <2>2. UNCHANGED <<id, pc, pending, done>>
    BY <1>11 DEF Send
  <2>3. \A u \in Threads \ {t} : taken'[u] = taken[u]
    BY <2>1
  <2>4. \A d \in Calls \ {w.call} : \A v \in taken[t] : v.call = d => v \in taken'[t]
    BY <2>1
  <2>5. \A d \in Calls \ {w.call} : Wakeable(d) => Wakeable(d)'
    BY <2>1, <2>2, <2>3, <2>4 DEF Wakeable, InHand
  <2>6. ch'[w.call] # <<>>
    <3>1. w.call \in Calls /\ w.res \in Results /\ ch[w.call] \in Seq(Results)
      OBVIOUS
    <3>2. ch'[w.call] = Append(ch[w.call], w.res)
      BY <2>1, <3>1
    <3>3. Len(ch'[w.call]) = Len(ch[w.call]) + 1
      BY <3>1, <3>2
    <3> QED BY <3>1, <3>3
  <2>7. \A d \in Calls : Wakeable(d) => Wakeable(d)'
    BY <2>5, <2>6 DEF Wakeable
  <2> QED BY <2>2, <2>7 DEF WakeInv
<1>12. CASE ReadIgnored \/ ReadGarbage \/ ReadEOF \/ ReadAborted \/ ReaderExit
  <2>1. UNCHANGED <<id, pending, ch, taken, pc>> /\ (done => done')
    BY <1>12 DEF ReadIgnored, ReadGarbage, ReadEOF, ReadAborted, ReaderExit
  <2> QED BY <1>2, <2>1
<1>13. ASSUME NEW k \in Closers, CloseAgain(k) \/ CloseFirst(k) \/ CloseTransport(k) \/ CloseReturn(k)
       PROVE  WakeInv'
  <2>1. UNCHANGED <<id, pending, ch, taken, pc, done>>
    BY <1>13 DEF CloseAgain, CloseFirst, MarkClosed, CloseTransport, CloseReturn
  <2> QED BY <1>2, <2>1
<1>14. CASE ServerReply \/ ServerChatter \/ ServerExit
  <2>1. UNCHANGED <<id, pending, ch, taken, pc, done>>
    BY <1>14 DEF ServerReply, ServerChatter, ServerExit
  <2> QED BY <1>2, <2>1
<1> QED BY <1>1, <1>3, <1>4, <1>5, <1>7, <1>9, <1>10, <1>11, <1>12, <1>13, <1>14
        DEF Next, CallStart, CallEnd, ReaderStep, CloserStep

\* Every step keeps the entries of pending those of calls in flight: a call that
\* returns has lost its entry to deliver, to failPending or to its own discard.
LEMMA FlightStep ==
  ASSUME TypeOK, IdsInv, StopInv, AtMostOneResult, FlightInv, Next
  PROVE  FlightInv'
<1> USE DEF TypeOK, connVars, callVars, threadVars, peerVars
<1>1. ASSUME NEW c \in Calls, Register(c)
      PROVE  FlightInv'
  <2>1. /\ DOMAIN pending' = DOMAIN pending \cup {nextID}
        /\ \A i \in DOMAIN pending' : pending'[i] = IF i = nextID THEN c ELSE pending[i]
        /\ pc' = [pc EXCEPT ![c] = "write"]
    BY <1>1 DEF Register, Enrol, With
  <2> QED BY <2>1 DEF FlightInv
<1>2. ASSUME DOMAIN pending' \subseteq DOMAIN pending,
             \A i \in DOMAIN pending' : pending'[i] = pending[i],
             \A i \in DOMAIN pending' : pc'[pending[i]] = pc[pending[i]]
      PROVE  FlightInv'
  BY <1>2 DEF FlightInv
<1>3. ASSUME NEW c \in Calls, pc[c] = "new" \/ ~IsPending(c),
             pending' = pending, \A d \in Calls \ {c} : pc'[d] = pc[d]
      PROVE  FlightInv'
  <2>1. \A i \in DOMAIN pending : pending[i] # c
    BY <1>3 DEF FlightInv, IsPending
  <2> QED BY <1>2, <1>3, <2>1
<1>4. ASSUME NEW c \in Calls, Refuse(c)
      PROVE  FlightInv'
  BY <1>3, <1>4 DEF Refuse, Return
<1>5. ASSUME NEW c \in Calls, WriteOk(c) \/ WriteFail(c) \/ SelectCtx(c)
      PROVE  FlightInv'
  <2>1. /\ pending' = pending
        /\ \E p \in {"wait", "discard"} : pc' = [pc EXCEPT ![c] = p]
    BY <1>5 DEF WriteOk, WriteFail, SelectCtx
  <2> QED BY <2>1 DEF FlightInv
<1>6. ASSUME NEW c \in Calls, SelectDone(c)
      PROVE  FlightInv'
  <2>1. ~IsPending(c)
    BY <1>6 DEF SelectDone, StopInv, IsPending
  <2> QED BY <1>3, <1>6, <2>1 DEF SelectDone, Return
<1>7. ASSUME NEW c \in Calls, SelectResult(c)
      PROVE  FlightInv'
  <2>1. ~IsPending(c)
    BY <1>7 DEF SelectResult, AtMostOneResult
  <2> QED BY <1>3, <1>7, <2>1 DEF SelectResult, Return
<1>8. ASSUME NEW c \in Calls, Discard(c)
      PROVE  FlightInv'
  <2>1. /\ DOMAIN pending' = DOMAIN pending \ {id[c]}
        /\ \A i \in DOMAIN pending' : pending'[i] = pending[i]
        /\ pc' = [pc EXCEPT ![c] = "returned"]
    BY <1>8 DEF Discard, DiscardLeaving, Without
  <2>2. \A i \in DOMAIN pending' : pending[i] # c
    BY <2>1 DEF IdsInv
  <2> QED BY <1>2, <2>1, <2>2
<1>9. CASE Deliver
  <2>1. /\ DOMAIN pending' \subseteq DOMAIN pending /\ pc' = pc
        /\ \A i \in DOMAIN pending' : pending'[i] = pending[i]
    BY <1>9 DEF Deliver, DeliverLeaving, Without
  <2> QED BY <1>2, <2>1
<1>10. CASE ReaderFailPending
  BY <1>2, <1>10 DEF ReaderFailPending, TakePending
<1>11. ASSUME NEW k \in Closers, CloserFailPending(k)
       PROVE  FlightInv'
  BY <1>2, <1>11 DEF CloserFailPending, TakePending
<1>12. ASSUME UNCHANGED <<pending, pc>>
       PROVE  FlightInv'
  BY <1>12 DEF FlightInv
<1>13. CASE ReadIgnored \/ ReadGarbage \/ ReadEOF \/ ReadAborted \/ ReaderExit
  BY <1>12, <1>13 DEF ReadIgnored, ReadGarbage, ReadEOF, ReadAborted, ReaderExit
<1>14. ASSUME NEW t \in Threads, Send(t)
       PROVE  FlightInv'
  BY <1>12, <1>14 DEF Send
<1>15. ASSUME NEW k \in Closers, CloseAgain(k) \/ CloseFirst(k) \/ CloseTransport(k) \/ CloseReturn(k)
       PROVE  FlightInv'
  BY <1>12, <1>15 DEF CloseAgain, CloseFirst, MarkClosed, CloseTransport, CloseReturn
<1>16. CASE ServerReply \/ ServerChatter \/ ServerExit
  BY <1>12, <1>16 DEF ServerReply, ServerChatter, ServerExit
<1> QED BY <1>1, <1>4, <1>5, <1>6, <1>7, <1>8, <1>9, <1>10, <1>11, <1>13, <1>14, <1>15, <1>16
        DEF Next, CallStart, CallEnd, ReaderStep, CloserStep

-----------------------------------------------------------------------------
(* The theorems. *)

\* Any interleaving of calls, the read loop, closers and the server's lines keeps
\* the whole inductive invariant (conn.go).
THEOREM Invariance == Spec => []IInv
<1>1. IInv /\ [Next]_vars => IInv'
  <2> SUFFICES ASSUME IInv, [Next]_vars
               PROVE  IInv'
    OBVIOUS
  <2>1. CASE Next
    BY <2>1, TypeStep, IdsStep, StopStep, AnswersStep, AtMostStep, WakeStep, FlightStep DEF IInv
  <2>2. CASE UNCHANGED vars
    <3>1. TypeOK'
      BY <2>2, TypeStep DEF IInv
    <3>2. IdsInv' /\ StopInv'
      BY <2>2 DEF IInv, IdsInv, StopInv, vars, connVars, callVars, threadVars, peerVars
    <3>3. AnswersInv'
      BY <2>2 DEF IInv, AnswersInv, BoundFor, vars, connVars, callVars, threadVars, peerVars
    <3>4. AtMostOneResult' /\ WakeInv' /\ FlightInv'
      BY <2>2 DEF IInv, AtMostOneResult, WakeInv, FlightInv, Wakeable, InHand, IsPending,
                  vars, connVars, callVars, threadVars, peerVars
    <3> QED BY <3>1, <3>2, <3>3, <3>4 DEF IInv
  <2> QED BY <2>1, <2>2
<1> QED BY <1>1, InitInv, PTL DEF Spec

\* Every variable keeps its type, whatever calls, closers and the server do.
THEOREM TypeCorrect == Spec => []TypeOK
BY Invariance, PTL DEF IInv

\* A call never has two results on their way, so no send on its channel of
\* capacity 1 blocks the read loop or a Close.
THEOREM OneResult == Spec => []AtMostOneResult
BY Invariance, PTL DEF IInv

\* An answer returned to a caller is one the server gave to that caller, or, for
\* the call with id 0, one it gave with a null id.
THEOREM AnswersRouted == Spec => []OwnAnswer
<1>1. IInv => OwnAnswer
  BY DEF IInv, IdsInv, AnswersInv, BoundFor, Decoded, OwnAnswer
<1> QED BY <1>1, Invariance, PTL

\* No call is forgotten by the hand-over between Call, the read loop and Close.
THEOREM CallsKept == Spec => []NoLostCall
<1>1. IInv => NoLostCall
  BY DEF IInv, WakeInv, Wakeable, NoLostCall
<1> QED BY <1>1, Invariance, PTL

\* No call that returned stays in the pending map, and nothing at all stays
\* behind in that of a connection that has stopped.
THEOREM NothingLeaks == Spec => []NoPendingLeak
<1>1. IInv => NoPendingLeak
  BY DEF IInv, FlightInv, StopInv, NoPendingLeak, Threads
<1> QED BY <1>1, Invariance, PTL

\* The reason for a close is written once.
THEOREM ReasonKept == Spec => CloseErrWrittenOnce
<1>1. [Next]_vars => [closed => closed' /\ closeErr' = closeErr]_vars
  <2> SUFFICES ASSUME Next, closed
               PROVE  closed' /\ closeErr' = closeErr
    BY DEF vars
  <2> USE DEF connVars, callVars, threadVars, peerVars
  <2>1. ASSUME NEW c \in Calls, CallStart(c) \/ CallEnd(c) \/ SelectCtx(c)
        PROVE  closed' /\ closeErr' = closeErr
    BY <2>1 DEF CallStart, CallEnd, Refuse, Register, WriteOk, WriteFail, SelectDone, SelectResult,
                Discard, DiscardLeaving, SelectCtx
  <2>2. CASE ReaderStep
    BY <2>2 DEF ReaderStep, Deliver, DeliverLeaving, Decoded, ReadIgnored, ReadGarbage, ReadEOF,
                ReadAborted, Stop, StopWith, ReaderFailPending, ReaderExit
  <2>3. ASSUME NEW t \in Threads, Send(t)
        PROVE  closed' /\ closeErr' = closeErr
    BY <2>3 DEF Send
  <2>4. ASSUME NEW k \in Closers, CloserStep(k)
        PROVE  closed' /\ closeErr' = closeErr
    BY <2>4 DEF CloserStep, CloseAgain, CloseFirst, MarkClosed, CloseTransport,
                CloserFailPending, CloseReturn
  <2>5. CASE ServerReply \/ ServerChatter \/ ServerExit
    BY <2>5 DEF ServerReply, ServerChatter, ServerExit
  <2> QED BY <2>1, <2>2, <2>3, <2>4, <2>5 DEF Next
<1> QED BY <1>1, PTL DEF Spec, CloseErrWrittenOnce

-----------------------------------------------------------------------------
(* The connection implements the abstract channel. *)

CallBar == [c \in Calls |-> CallState(c)]
AnswersBar == {a \in Calls \X ReplyKinds : Reply(id[a[1]], a[2]) \in replies}
FirstBar == {c \in Calls : id[c] = 0}
NobodyBar == {k \in ReplyKinds : Reply(NullId, k) \in replies}

\* The actions of the channel, under the refinement mapping.
LEMMA ChannelActions ==
  /\ CallBar' = CallBar /\ AnswersBar' = AnswersBar /\ FirstBar' = FirstBar
       /\ NobodyBar' = NobodyBar /\ closed' = closed
       => UNCHANGED Channel!chanVars
  /\ \A c \in Calls : NobodyBar' = NobodyBar /\ closed' = closed =>
       /\ ~closed /\ CallBar[c] = "new" /\ CallBar' = [CallBar EXCEPT ![c] = "open"]
            /\ AnswersBar' = AnswersBar /\ FirstBar' = (IF FirstBar = {} THEN {c} ELSE FirstBar)
            => Channel!Open(c)
       /\ FirstBar' = FirstBar =>
            /\ closed /\ CallBar[c] = "new" /\ CallBar' = [CallBar EXCEPT ![c] = "failed"]
                 /\ AnswersBar' = AnswersBar => Channel!Reject(c)
            /\ CallBar[c] = "open" /\ CallBar' = [CallBar EXCEPT ![c] = "failed"]
                 /\ AnswersBar' = AnswersBar => Channel!Fail(c)
            /\ \A k \in ReplyKinds :
                 /\ CallBar[c] # "new" /\ AnswersBar' = AnswersBar \cup {<<c, k>>}
                      /\ CallBar' = CallBar => Channel!Answer(c, k)
                 /\ CallBar[c] = "open" /\ CallBar' = [CallBar EXCEPT ![c] = k]
                      /\ (<<c, k>> \in AnswersBar \/ (c \in FirstBar /\ k \in NobodyBar))
                      /\ AnswersBar' = AnswersBar => Channel!Finish(c, k)
  /\ \A k \in ReplyKinds :
       /\ CallBar' = CallBar /\ AnswersBar' = AnswersBar /\ FirstBar' = FirstBar
            /\ NobodyBar' = NobodyBar \cup {k} /\ closed' = closed => Channel!AnswerNobody(k)
  /\ ~closed /\ closed' = TRUE /\ CallBar' = CallBar /\ AnswersBar' = AnswersBar
       /\ FirstBar' = FirstBar /\ NobodyBar' = NobodyBar
       => Channel!GoDown
BY DEF Channel!chanVars, Channel!Open, Channel!Reject, Channel!Fail, Channel!Answer,
       Channel!AnswerNobody, Channel!Finish, Channel!GoDown, CallBar, AnswersBar, FirstBar, NobodyBar

\* A step that moves one call, and one that moves none.
LEMMA CallMoves ==
  ASSUME NEW c \in Calls, NEW v, CallState(c)' = v,
         \A d \in Calls \ {c} : CallState(d)' = CallState(d)
  PROVE  CallBar' = [CallBar EXCEPT ![c] = v]
BY DEF CallBar

\* A step that touches neither pc nor outcome leaves the abstract calls alone.
LEMMA CallsStay ==
  ASSUME UNCHANGED <<pc, outcome>>
  PROVE  CallBar' = CallBar
BY DEF CallBar, CallState

\* A step that touches neither id nor replies leaves the abstract answers alone.
LEMMA AnswersStay ==
  ASSUME UNCHANGED <<id, replies>>
  PROVE  AnswersBar' = AnswersBar /\ FirstBar' = FirstBar /\ NobodyBar' = NobodyBar
BY DEF AnswersBar, FirstBar, NobodyBar

\* Every step of the connection is a step of the abstract channel or none.
LEMMA ChannelStep ==
  ASSUME IInv, Next
  PROVE  [Channel!Next]_(Channel!chanVars)
<1> USE DEF connVars, callVars, threadVars, peerVars
<1>1. ASSUME NEW c \in Calls, Refuse(c)
      PROVE  Channel!Reject(c)
  <2>1. CloseReason.kind \notin ReplyKinds
    BY ErrorsUnbound DEF CloseReason, Errors, IInv, TypeOK
  <2>2. CallState(c)' = "failed" /\ \A d \in Calls \ {c} : CallState(d)' = CallState(d)
    BY <1>1, <2>1 DEF Refuse, Return, CallState, IInv, TypeOK
  <2>3. CallBar[c] = "new" /\ closed /\ closed' = closed /\ UNCHANGED <<id, replies>>
    BY <1>1 DEF Refuse, CallBar, CallState
  <2> QED BY <2>2, <2>3, CallMoves, AnswersStay, ChannelActions
<1>2. ASSUME NEW c \in Calls, Register(c)
      PROVE  Channel!Open(c)
  <2>1. /\ pc[c] = "new" /\ id[c] = NoId /\ ~closed
        /\ id' = [id EXCEPT ![c] = nextID] /\ pc' = [pc EXCEPT ![c] = "write"]
        /\ UNCHANGED <<closed, outcome, replies>>
    BY <1>2 DEF Register, Enrol, IInv, IdsInv
  <2>2. CallState(c)' = "open" /\ \A d \in Calls \ {c} : CallState(d)' = CallState(d)
    BY <2>1 DEF CallState, IInv, TypeOK
  <2>3. CallBar[c] = "new"
    BY <2>1 DEF CallBar, CallState
  <2>4. \A k \in ReplyKinds : Reply(nextID, k) \notin replies /\ Reply(NoId, k) \notin replies
    <3>1. \A m \in replies : m.of < nextID /\ m.of # NoId
      <4>1. \A m \in replies : m.of \in Nat \cup {NullId}
        BY DEF IInv, TypeOK, Replies
      <4>2. \A m \in replies : m.of < nextID
        BY DEF IInv, IdsInv
      <4> QED BY <4>1, <4>2 DEF NoId, NullId
    <3>2. ~(nextID < nextID)
      BY DEF IInv, TypeOK
    <3> QED BY <3>1, <3>2 DEF Reply
  <2>5. AnswersBar' = AnswersBar
    BY <2>1, <2>4 DEF AnswersBar, IInv, TypeOK
  <2>6. FirstBar' = IF FirstBar = {} THEN {c} ELSE FirstBar
    <3>1. \A d \in Calls : id[d] = 0 => nextID # 0
      BY DEF IInv, IdsInv, TypeOK
    <3>2. nextID # 0 => FirstBar # {} /\ FirstBar' = FirstBar
      BY <2>1 DEF FirstBar, IInv, IdsInv, TypeOK, NoId
    <3>3. nextID = 0 => FirstBar = {} /\ FirstBar' = {c}
      BY <2>1, <3>1 DEF FirstBar, IInv, TypeOK
    <3> QED BY <3>2, <3>3
  <2>7. NobodyBar' = NobodyBar
    BY <2>1 DEF NobodyBar
  <2> QED BY <2>1, <2>2, <2>3, <2>5, <2>6, <2>7, CallMoves, ChannelActions
<1>3. ASSUME UNCHANGED <<closed, id, replies>>, CallBar' = CallBar
      PROVE  UNCHANGED Channel!chanVars
  BY <1>3, AnswersStay, ChannelActions
<1>4. ASSUME NEW c \in Calls, WriteOk(c) \/ WriteFail(c) \/ SelectCtx(c)
      PROVE  UNCHANGED Channel!chanVars
  <2>1. UNCHANGED <<closed, id, replies>>
    BY <1>4 DEF WriteOk, WriteFail, SelectCtx
  <2>2. CallState(c)' = "open" /\ CallState(c) = "open"
    BY <1>4 DEF WriteOk, WriteFail, SelectCtx, CallState, IInv, TypeOK
  <2>3. \A d \in Calls \ {c} : CallState(d)' = CallState(d)
    BY <1>4 DEF WriteOk, WriteFail, SelectCtx, CallState, IInv, TypeOK
  <2>4. CallBar' = CallBar
    BY <2>2, <2>3 DEF CallBar
  <2> QED BY <1>3, <2>1, <2>4
<1>5. ASSUME NEW c \in Calls, SelectDone(c) \/ Discard(c)
      PROVE  Channel!Fail(c)
  <2>1. outcome'[c].kind \notin ReplyKinds /\ pc'[c] = "returned"
    <3>1. CASE SelectDone(c)
      BY <3>1, ErrorsUnbound DEF SelectDone, Return, CloseReason, Errors, IInv, TypeOK
    <3>2. CASE Discard(c)
      BY <3>2, ErrorsUnbound DEF Discard, DiscardLeaving, IInv, TypeOK, AnswersInv
    <3> QED BY <1>5, <3>1, <3>2
  <2>2. CallState(c)' = "failed" /\ CallState(c) = "open"
    BY <1>5, <2>1 DEF SelectDone, Discard, DiscardLeaving, CallState
  <2>3. \A d \in Calls \ {c} : CallState(d)' = CallState(d)
    BY <1>5 DEF SelectDone, Discard, DiscardLeaving, Return, CallState, IInv, TypeOK
  <2>4. closed' = closed /\ UNCHANGED <<id, replies>>
    BY <1>5 DEF SelectDone, Discard, DiscardLeaving, Return
  <2>5. CallBar[c] = "open"
    BY <2>2 DEF CallBar
  <2> QED BY <2>2, <2>3, <2>4, <2>5, CallMoves, AnswersStay, ChannelActions
<1>6. ASSUME NEW c \in Calls, SelectResult(c)
      PROVE  Channel!Fail(c) \/ \E k \in ReplyKinds : Channel!Finish(c, k)
  <2>1. /\ pc[c] = "wait" /\ ch[c] # <<>> /\ pc' = [pc EXCEPT ![c] = "returned"]
        /\ outcome' = [outcome EXCEPT ![c] = Head(ch[c])]
        /\ UNCHANGED <<closed, id, replies>>
    BY <1>6 DEF SelectResult, Return
  <2>2. PICK m \in Results : m = Head(ch[c]) /\ BoundFor(c, m)
    <3>1. ch[c] \in Seq(Results) /\ Head(ch[c]) = ch[c][1] /\ 1 \in 1 .. Len(ch[c])
      BY <2>1 DEF IInv, TypeOK
    <3> QED BY <3>1 DEF IInv, AnswersInv
  <2>3. CallState(c) = "open" /\ \A d \in Calls \ {c} : CallState(d)' = CallState(d)
    BY <2>1 DEF CallState, IInv, TypeOK
  <2>4. CallBar[c] = "open"
    BY <2>3 DEF CallBar
  <2>5. pc'[c] = "returned" /\ outcome'[c] = m
    BY <2>1, <2>2 DEF IInv, TypeOK
  <2>6. CASE m.kind \notin ReplyKinds
    <3>1. CallState(c)' = "failed"
      BY <2>5, <2>6 DEF CallState
    <3> QED BY <2>1, <2>3, <2>4, <3>1, CallMoves, AnswersStay, ChannelActions
  <2>7. CASE m.kind \in ReplyKinds
    <3>1. CallState(c)' = m.kind
      BY <2>5, <2>7 DEF CallState
    <3>2. m = Reply(m.of, m.kind) /\ m \in replies /\ Decoded(m.of) = id[c]
      BY <2>2, <2>7 DEF BoundFor, Reply, Replies, IInv, TypeOK
    <3>3. <<c, m.kind>> \in AnswersBar \/ (c \in FirstBar /\ m.kind \in NobodyBar)
      BY <2>7, <3>2 DEF AnswersBar, FirstBar, NobodyBar, Decoded
    <3>4. Channel!Finish(c, m.kind)
      BY <2>1, <2>3, <2>4, <2>7, <3>1, <3>3, CallMoves, AnswersStay, ChannelActions
    <3> QED BY <2>7, <3>4
  <2> QED BY <2>6, <2>7
<1>7. ASSUME UNCHANGED <<pc, outcome, closed, id, replies>>
      PROVE  UNCHANGED Channel!chanVars
  BY <1>3, <1>7, CallsStay
<1>8. CASE Deliver \/ ReadIgnored \/ ReaderFailPending \/ ReaderExit
  BY <1>7, <1>8 DEF Deliver, DeliverLeaving, Decoded, ReadIgnored, ReaderFailPending, ReaderExit
<1>9. ASSUME UNCHANGED <<pc, outcome, id, replies>>, closed' = TRUE
      PROVE  UNCHANGED Channel!chanVars \/ Channel!GoDown
  <2>1. CASE closed
    BY <1>7, <1>9, <2>1 DEF IInv, TypeOK
  <2>2. CASE ~closed
    BY <1>9, <2>2, CallsStay, AnswersStay, ChannelActions
  <2> QED BY <2>1, <2>2
<1>10. CASE ReadGarbage \/ ReadEOF \/ ReadAborted
  <2>1. UNCHANGED <<pc, outcome, id, replies>> /\ closed' = TRUE
    BY <1>10 DEF ReadGarbage, ReadEOF, ReadAborted, Stop, StopWith
  <2>2. UNCHANGED Channel!chanVars \/ Channel!GoDown
    BY <1>9, <2>1
  <2> QED BY <2>2 DEF Channel!Next
<1>11. ASSUME NEW t \in Threads, Send(t)
       PROVE  UNCHANGED Channel!chanVars
  BY <1>7, <1>11 DEF Send
<1>12. ASSUME NEW k \in Closers, CloserStep(k)
       PROVE  UNCHANGED Channel!chanVars \/ Channel!GoDown
  <2>1. CASE CloseFirst(k)
    BY <1>9, <2>1 DEF CloseFirst, MarkClosed
  <2>2. CASE CloseAgain(k) \/ CloseTransport(k) \/ CloserFailPending(k) \/ CloseReturn(k)
    BY <1>7, <2>2 DEF CloseAgain, CloseTransport, CloserFailPending, CloseReturn
  <2> QED BY <1>12, <2>1, <2>2 DEF CloserStep
<1>13. CASE ServerReply
  <2>1. PICK i \in requests \cup {NullId}, k \in ReplyKinds : replies' = replies \cup {Reply(i, k)}
    BY <1>13 DEF ServerReply
  <2>2. UNCHANGED <<pc, outcome, closed, id>>
    BY <1>13 DEF ServerReply
  <2>3. FirstBar' = FirstBar
    BY <2>2 DEF FirstBar
  <2>4. i # NullId => NobodyBar' = NobodyBar
    BY <2>1 DEF NobodyBar, Reply
  <2>5. CASE \E c \in Calls : id[c] = i
    <3>1. PICK c \in Calls : id[c] = i
      BY <2>5
    <3>2. i # NullId /\ id[c] # NoId /\ \A d \in Calls : id[d] = i => d = c
      <4>1. i \in Nat \cup {NoId}
        BY <3>1 DEF IInv, TypeOK
      <4>2. i \in Nat
        BY <4>1 DEF NullId, NoId, IInv, TypeOK
      <4> QED BY <3>1, <4>2 DEF NullId, NoId, IInv, IdsInv
    <3>3. CallBar[c] # "new"
      BY <3>2, KindAssumption DEF CallBar, CallState, IInv, IdsInv
    <3>4. \A d \in Calls, l \in ReplyKinds :
            Reply(id[d], l) \in replies' <=> Reply(id[d], l) \in replies \/ (d = c /\ l = k)
      BY <2>1, <3>1, <3>2 DEF Reply
    <3>5. AnswersBar' = AnswersBar \cup {<<c, k>>}
      BY <2>2, <3>4 DEF AnswersBar
    <3>6. Channel!Answer(c, k)
      BY <2>2, <2>3, <2>4, <3>2, <3>3, <3>5, CallsStay, ChannelActions
    <3> QED BY <3>6 DEF Channel!Next
  <2>6. CASE \A c \in Calls : id[c] # i
    <3>1. \A d \in Calls, l \in ReplyKinds : Reply(id[d], l) \in replies' <=> Reply(id[d], l) \in replies
      BY <2>1, <2>6 DEF Reply
    <3>2. AnswersBar' = AnswersBar
      BY <2>2, <3>1 DEF AnswersBar
    <3>3. i = NullId => NobodyBar' = NobodyBar \cup {k}
      BY <2>1 DEF NobodyBar, Reply
    <3>4. CASE i = NullId
      <4>1. Channel!AnswerNobody(k)
        BY <2>2, <2>3, <3>2, <3>3, <3>4, CallsStay, ChannelActions
      <4> QED BY <4>1 DEF Channel!Next
    <3>5. CASE i # NullId
      BY <2>2, <2>3, <2>4, <3>2, <3>5, CallsStay, ChannelActions
    <3> QED BY <3>4, <3>5
  <2> QED BY <2>5, <2>6
<1>14. CASE ServerChatter \/ ServerExit
  BY <1>7, <1>14 DEF ServerChatter, ServerExit
<1> QED BY <1>1, <1>2, <1>4, <1>5, <1>6, <1>8, <1>10, <1>11, <1>12, <1>13, <1>14
        DEF Next, CallStart, CallEnd, ReaderStep, Channel!Next

\* Every behaviour of the connection is one of the abstract channel: a call is
\* opened once, while the channel is up, and ends with its own answer or fails.
THEOREM Refinement == Spec => ImplementsChannel
<1>1. Init => Channel!Init
  BY DEF Init, Channel!Init, CallState, NoId
<1>2. IInv /\ [Next]_vars => [Channel!Next]_(Channel!chanVars)
  <2>1. ASSUME IInv, Next
        PROVE  [Channel!Next]_(Channel!chanVars)
    BY <2>1, ChannelStep
  <2>2. ASSUME UNCHANGED vars
        PROVE  UNCHANGED Channel!chanVars
    BY <2>2, CallsStay, AnswersStay, ChannelActions
       DEF vars, connVars, callVars, threadVars, peerVars
  <2> QED BY <2>1, <2>2
<1> QED BY <1>1, <1>2, Invariance, PTL DEF Spec, ImplementsChannel, Channel!Spec

=============================================================================
