---------------------------- MODULE Serving_proofs ----------------------------
(***************************************************************************)
(* Proofs about Serving and the device loop it shares, for every finite    *)
(* set of requests, every batch size, queue capacity and token budget, and *)
(* every choice of pieces and stop strings.                                *)
(***************************************************************************)
EXTENDS Serving, InductionLemmas, SequenceTheorems

-----------------------------------------------------------------------------
(* The inductive invariant. *)

Elements(q) == {q[i] : i \in DOMAIN q}
Distinct(q) == \A i, j \in DOMAIN q : q[i] = q[j] => i = j
InJobs(r) == r \in Elements(jobs)

\* Where the job of each request is: nowhere before Enqueue, then in the queue
\* or in the batch, never in both, and answered when it has left them.
LedgerInv ==
    /\ Distinct(jobs) /\ Distinct(batch)
    /\ \A r \in Requests : InJobs(r) => r \notin Rows
    /\ \A r \in Requests : InJobs(r) \/ r \in Rows =>
         gpc[r] = "await" /\ result[r].kind = "none"
    /\ \A r \in Requests : gpc[r] \in {"final", "closed"} => result[r].kind # "none"
    /\ \A r \in Requests : hpc[r] = "new" => gpc[r] = "new" /\ r \notin streaming
    /\ \A r \in Requests : gpc[r] \in {"new", "enqueue"} => result[r].kind = "none"

\* A sequence is untouched until its batch steps.
Untouched(r) == seq[r] = NewSeq /\ emitted[r] = <<>> /\ received[r] = <<>>
FreshInv ==
    /\ \A r \in Requests : gpc[r] \in {"new", "enqueue"} \/ InJobs(r) => Untouched(r)
    /\ dpc = "drain" => \A r \in Rows : Untouched(r)

\* Where the device goroutine is.
DeviceInv ==
    /\ dpc = "collect" => batch = <<>>
    /\ dpc = "step" => row <= Len(batch) + 1
    /\ dpc = "emit" => row \in DOMAIN batch /\ Current \in streaming

\* Row i has had its token of the current step.
Stepped(i) == i < row \/ (i = row /\ dpc = "emit")

\* The sequences of a batch advance together, and the budget of each ends it.
BudgetInv ==
    /\ \A r \in Requests : seq[r].reason = "length" => seq[r].tokens = MaxTokens[r]
    /\ \A r \in Requests : ~Finished(r) => seq[r].tokens < MaxTokens[r]
    /\ dpc \in {"step", "emit"} =>
         \A i \in DOMAIN batch : ~Finished(batch[i]) =>
            seq[batch[i]].tokens = IF Stepped(i) THEN step + 1 ELSE step
    /\ dpc = "deliver" /\ ~devErr => \A r \in Rows : Finished(r)

\* A result says how its sequence ended.
ResultInv ==
    /\ \A r \in Requests : result[r].kind # "ok" => result[r].reason = ""
    /\ \A r \in Requests : result[r].kind = "err" => ~Finished(r)
    /\ \A r \in Requests : result[r].kind = "ok" =>
         Finished(r) /\ result[r].reason = seq[r].reason
    /\ \A r \in Requests : gpc[r] = "final" \/ final[r] # "" => result[r].kind = "ok"

\* OnToken has been passed the text of state s of r's sequence, but for what a
\* stop string trimmed.
Shown(text, s, r) ==
    /\ TextPrefix(text, s.text)
    /\ Len(text) >= Len(IF StopsAt(s.text, Stops[r]) = {} THEN s.text ELSE s.cut)
    /\ s.reason = "" => text = s.text /\ s.prev = Len(s.text)
EmittedInv == \A r \in streaming : Shown(emitted[r], seq[r], r)

\* The handler has taken what OnToken was passed, but for the delta on offer and
\* what was dropped when the context ended.
Offered(r) == dpc = "emit" /\ r = Current
ReceivedInv ==
    \A r \in streaming :
        /\ Offered(r) => received[r] \o offer = emitted[r]
        /\ ~Offered(r) => TextPrefix(received[r], emitted[r])
        /\ ~Offered(r) /\ r \notin ctx => received[r] = emitted[r]

RegistryInv ==
    /\ RegistryExact
    /\ \A r \in cancelOk : hpc[r] # "new"

IInv ==
    /\ TypeOK
    /\ LedgerInv
    /\ NoJobLost
    /\ FreshInv
    /\ DeviceInv
    /\ BudgetInv
    /\ ResultInv
    /\ EmittedInv
    /\ ReceivedInv
    /\ RegistryInv

-----------------------------------------------------------------------------
(* Texts. *)

\* A prefix of a prefix is a prefix.
LEMMA PrefixTransitive ==
    ASSUME NEW s \in Texts, NEW t \in Texts, NEW u \in Texts,
           TextPrefix(s, t), TextPrefix(t, u)
    PROVE  TextPrefix(s, u)
<1>1. \A i \in 1 .. Len(s) : s[i] = t[i]
  BY SubSeqProperties DEF TextPrefix, Texts
<1>2. \A i \in 1 .. Len(t) : t[i] = u[i]
  BY SubSeqProperties DEF TextPrefix, Texts
<1>3. Len(s) <= Len(u) /\ \A i \in 1 .. Len(s) : s[i] = u[i]
  BY <1>1, <1>2 DEF TextPrefix, Texts
<1>4. SubSeq(u, 1, Len(s)) \in Seq(Symbols) /\ Len(SubSeq(u, 1, Len(s))) = Len(s)
  BY <1>3, LenProperties DEF Texts
<1> QED BY <1>3, <1>4, SeqEqual DEF TextPrefix, Texts

\* A text is a prefix of itself with more after it.
LEMMA PrefixOfConcat ==
    ASSUME NEW s \in Texts, NEW t \in Texts
    PROVE  TextPrefix(s, s \o t)
<1>1. SubSeq(s \o t, 1, Len(s)) = s
  <2>1. SubSeq(s \o t, 1, Len(s)) \in Seq(Symbols) /\ Len(SubSeq(s \o t, 1, Len(s))) = Len(s)
    BY DEF Texts
  <2> QED BY <2>1, SeqEqual DEF Texts
<1> QED BY <1>1 DEF TextPrefix, Texts

\* What CutAt leaves is a prefix, and shorter.
LEMMA CutIsPrefix ==
    ASSUME NEW t \in Texts, NEW stops, StopsAt(t, stops) # {}
    PROVE  CutAt(t, stops) \in Texts /\ TextPrefix(CutAt(t, stops), t)
<1> DEFINE m == Min(StopsAt(t, stops))
<1>1. StopsAt(t, stops) \subseteq 1 .. Len(t) /\ Len(t) \in Nat
  BY DEF StopsAt, Texts
<1>2. m \in 1 .. Len(t)
  BY <1>1, MinIsLeast
<1> HIDE DEF m
<1>3. SubSeq(t, 1, m - 1) \in Seq(Symbols) /\ Len(SubSeq(t, 1, m - 1)) = m - 1
  BY <1>2 DEF Texts
<1> QED BY <1>2, <1>3 DEF CutAt, m, TextPrefix, Texts

-----------------------------------------------------------------------------
(* Types. *)

\* One more token keeps a sequence well typed.
LEMMA ExtendType ==
    \A s \in SeqStates, r \in Requests : \A p \in Pieces[r] :
        /\ Extend(s, r, p) \in SeqStates
        /\ Delta(s, Extend(s, r, p)) \in Texts
<1> TAKE s \in SeqStates, r \in Requests
<1> TAKE p \in Pieces[r]
<1> PICK full : full = s.text \o p
  OBVIOUS
<1> PICK t : t = Extend(s, r, p)
  OBVIOUS
<1>1. p \in Texts
  BY PiecesAssumption
<1>2. full \in Texts /\ Len(full) \in Nat
  BY <1>1 DEF Texts, SeqStates
<1>3. StopsAt(full, Stops[r]) # {} => CutAt(full, Stops[r]) \in Texts
  BY <1>2, CutIsPrefix
<1>4. t \in SeqStates
  <2>1. "" \in Reasons /\ "stop" \in Reasons /\ "length" \in Reasons
    BY DEF Reasons
  <2>2. CASE StopsAt(full, Stops[r]) # {}
    <3>1. full \in Texts /\ CutAt(full, Stops[r]) \in Texts
      BY <1>2, <1>3, <2>2
    <3>2. t = [text |-> full, prev |-> s.prev, tokens |-> s.tokens + 1, reason |-> "stop",
               cut |-> CutAt(full, Stops[r])]
      BY <2>2 DEF Extend
    <3>3. "stop" \in Reasons
      BY <2>1
    <3> QED BY <3>1, <3>2, <3>3 DEF SeqStates
  <2>3. CASE StopsAt(full, Stops[r]) = {}
    <3>1. PICK why \in Reasons :
            t = [text |-> full, prev |-> Len(full), tokens |-> s.tokens + 1, reason |-> why,
                 cut |-> s.cut]
      BY <2>1, <2>3 DEF Extend
    <3> QED BY <1>2, <3>1 DEF SeqStates
  <2> QED BY <2>2, <2>3
<1>5. Delta(s, t) \in Texts
  <2> DEFINE v == IF t.reason = "stop" THEN t.cut ELSE t.text
  <2>1. v \in Seq(Symbols) /\ s.prev \in Nat
    BY <1>4 DEF Texts, SeqStates
  <2>2. \A i \in s.prev + 1 .. Len(v) : v[i] \in Symbols
    BY <2>1
  <2>3. SubSeq(v, s.prev + 1, Len(v)) \in Seq(Symbols)
    BY <2>1, <2>2, SubSeqProperties
  <2> QED BY <2>3 DEF Delta, Texts
<1> QED BY <1>4, <1>5

\* A token is sampled for the current row: what it does to the variables.
LEMMA SampleFacts ==
    ASSUME TypeOK, SampleRow
    PROVE  /\ Current \in Requests
           /\ \E p \in Pieces[Current] :
                LET t == Extend(seq[Current], Current, p)
                    d == Delta(seq[Current], t)
                IN  /\ t \in SeqStates
                    /\ d \in Texts
                    /\ seq' = [seq EXCEPT ![Current] = t]
                    /\ IF Current \in streaming /\ d # <<>>
                       THEN /\ offer' = d
                            /\ emitted' = [emitted EXCEPT ![Current] = @ \o d]
                            /\ dpc' = "emit"
                            /\ UNCHANGED row
                       ELSE row' = row + 1 /\ UNCHANGED <<offer, emitted, dpc>>
<1>1. Current \in Requests
  BY DEF SampleRow, AtRow, Current, TypeOK
<1>2. seq[Current] \in SeqStates
  BY <1>1 DEF TypeOK
<1> QED BY <1>1, <1>2, ExtendType DEF SampleRow

\* The first states are well typed, and every step keeps them so.
LEMMA InitType == Init => TypeOK
<1> SUFFICES ASSUME Init
             PROVE  TypeOK
  OBVIOUS
<1>1. <<>> \in Texts /\ "" \in Reasons
  BY EmptySeq DEF Texts, Reasons
<1>2. NewSeq \in SeqStates /\ NoResult \in Results
  BY <1>1 DEF NewSeq, NoResult, SeqStates, Results
<1>3. jobs \in Seq(Requests) /\ batch \in Seq(Requests)
  BY EmptySeq DEF Init, RunnerInit
<1>4. /\ seq \in [Requests -> SeqStates] /\ result \in [Requests -> Results]
      /\ emitted \in [Requests -> Texts] /\ received \in [Requests -> Texts]
      /\ offer \in Texts /\ final \in [Requests -> Reasons]
  BY <1>1, <1>2 DEF Init, RunnerInit
<1>5. devErr \in BOOLEAN
  BY Zenon DEF Init, RunnerInit
<1>6. /\ gpc \in [Requests -> {"new", "enqueue", "await", "final", "closed"}]
      /\ hpc \in [Requests -> {"new", "read", "write", "wait", "stop", "returned"}]
      /\ dpc \in {"collect", "drain", "step", "emit", "deliver"}
      /\ client \in [Requests -> {"reads", "stalled", "gone"}]
  BY DEF Init, RunnerInit
<1>8. row = 1 /\ step = 0
  BY DEF Init, RunnerInit
<1>7. ctx = {} /\ streaming = {} /\ cancels = {} /\ cancelOk = {}
  BY DEF Init, RunnerInit
<1> QED BY <1>3, <1>4, <1>5, <1>6, <1>7, <1>8 DEF TypeOK

\* No step of a handler, the scheduler or the device breaks a type.
LEMMA TypeStep == TypeOK /\ [Next]_vars => TypeOK'
<1> SUFFICES ASSUME TypeOK, [Next]_vars
             PROVE  TypeOK'
  OBVIOUS
<1> USE DEF deviceVars, runnerVars, serveVars
<1>1. ASSUME NEW r \in Requests,
             \/ StartStream(r) \/ StartPlain(r) \/ HandlerStep(r)
             \/ CancelRequest(r) \/ Stall(r) \/ Disconnect(r)
      PROVE  TypeOK'
  BY <1>1 DEF TypeOK, StartStream, StartPlain, HandlerStep, WriteChunk, WriteEnd,
     StopStream, Deregister, ReturnPlain, CancelRequest, CancelLeaving, Stall, Disconnect
<1>2. ASSUME NEW r \in Requests, EngineStep(r)
      PROVE  TypeOK'
  <2>1. CASE Enqueue(r) /\ UNCHANGED serveVars
    BY <2>1, AppendProperties DEF TypeOK, Enqueue
  <2>2. CASE GenerateReturns(r) \/ ReceiveFinal(r) \/ FinalAbandoned(r)
    <3>1. CASE GenerateReturns(r)
      BY <3>1 DEF TypeOK, GenerateReturns
    <3>2. CASE ReceiveFinal(r)
      <4>1. final' \in [Requests -> Reasons]
        BY <3>2 DEF TypeOK, ReceiveFinal, Results
      <4>2. gpc' \in [Requests -> {"new", "enqueue", "await", "final", "closed"}]
        BY <3>2 DEF TypeOK, ReceiveFinal
      <4>3. UNCHANGED <<jobs, ctx, streaming, deviceVars, hpc, cancels, cancelOk, received, client>>
        BY <3>2 DEF ReceiveFinal
      <4> QED BY <4>1, <4>2, <4>3 DEF TypeOK
    <3>3. CASE FinalAbandoned(r)
      BY <3>3 DEF TypeOK, FinalAbandoned
    <3> QED BY <2>2, <3>1, <3>2, <3>3
  <2> QED BY <1>2, <2>1, <2>2 DEF EngineStep
<1>3. ASSUME DeviceStep, UNCHANGED serveVars
      PROVE  TypeOK'
  <2>1. CASE CollectFirst
    BY <1>3, <2>1, HeadTailProperties DEF TypeOK, CollectFirst
  <2>2. CASE Drain
    BY <1>3, <2>2, HeadTailProperties, AppendProperties DEF TypeOK, Drain
  <2>10. CASE SkipRow \/ Decode
    BY <1>3, <2>10 DEF TypeOK, SkipRow, Decode
  <2>3. CASE Prefill
    <3>1. devErr' \in BOOLEAN
      BY <2>3, Zenon DEF Prefill, PrefillFrom
    <3> QED BY <1>3, <2>3, <3>1 DEF TypeOK, Prefill, PrefillFrom
  <2>9. CASE DecodeFail \/ BatchDone
    <3>1. devErr' \in BOOLEAN
      BY <2>9, Zenon DEF DecodeFail, BatchDone, EndSteps
    <3> QED BY <1>3, <2>9, <3>1 DEF TypeOK, DecodeFail, BatchDone, EndSteps
  <2>4. ErrResult \in Results
    BY EmptySeq DEF ErrResult, Results, Texts, Reasons
  <2>5. CASE PrefillFail
    BY <1>3, <2>4, <2>5, EmptySeq DEF TypeOK, PrefillFail, PrefillFailTelling
  <2>6. CASE SeeCancel \/ SampleEOS
    <3>1. PICK why \in Reasons : EndRow(why)
      BY <2>6 DEF SeeCancel, SampleEOS, Reasons
    <3>2. Current \in Requests /\ row + 1 \in Nat \ {0}
      BY <3>1 DEF EndRow, AtRow, Current, TypeOK
    <3>3. [seq[Current] EXCEPT !.reason = why] \in SeqStates
      BY <3>1, <3>2 DEF TypeOK, SeqStates
    <3>4. seq' = [seq EXCEPT ![Current] = [seq[Current] EXCEPT !.reason = why]]
      BY <3>1, <3>2 DEF EndRow, TypeOK
    <3> QED BY <1>3, <3>1, <3>2, <3>3, <3>4 DEF TypeOK, EndRow
  <2>7. CASE SampleToken
    <3>1. SampleRow
      BY <2>7 DEF SampleToken
    <3>2. Current \in Requests
      BY <3>1, SampleFacts
    <3>5. row + 1 \in Nat \ {0}
      BY DEF TypeOK
    <3>3. PICK d \in Texts, t \in SeqStates :
            /\ seq' = [seq EXCEPT ![Current] = t]
            /\ \/ /\ offer' = d
                  /\ emitted' = [emitted EXCEPT ![Current] = @ \o d]
                  /\ dpc' = "emit"
                  /\ UNCHANGED row
               \/ row' = row + 1 /\ UNCHANGED <<offer, emitted, dpc>>
      BY <3>1, SampleFacts
    <3>4. emitted[Current] \o d \in Texts
      BY <3>2, ConcatProperties DEF TypeOK, Texts
    <3>6. seq' \in [Requests -> SeqStates] /\ emitted' \in [Requests -> Texts]
      BY <3>2, <3>3, <3>4 DEF TypeOK
    <3>7. UNCHANGED <<jobs, gpc, ctx, streaming, batch, step, devErr, result>>
      BY <3>1 DEF SampleRow
    <3> QED BY <1>3, <3>3, <3>5, <3>6, <3>7 DEF TypeOK
  <2>8. CASE DeliverAll
    <3>1. \A r \in Requests : Deliver(r) \in Results
      BY DEF TypeOK, Deliver, OkResult, Reasons, SeqStates, Results
    <3>2. result' \in [Requests -> Results]
      BY <2>4, <2>8, <3>1 DEF TypeOK, DeliverAll, DeliverFailing
    <3>3. /\ dpc' = "collect" /\ batch' = <<>> /\ row' = 1 /\ step' = 0 /\ devErr' = FALSE
          /\ UNCHANGED <<jobs, gpc, ctx, streaming, offer, seq, emitted>>
      BY <2>8 DEF DeliverAll, DeliverFailing
    <3>4. devErr' \in BOOLEAN
      BY <3>3, Zenon
    <3> QED BY <1>3, <3>2, <3>3, <3>4, EmptySeq DEF TypeOK
  <2> QED BY <1>3, <2>1, <2>2, <2>3, <2>5, <2>6, <2>7, <2>8, <2>9, <2>10 DEF DeviceStep
<1>4. ASSUME NEW r \in Requests, ReceiveDelta(r)
      PROVE  TypeOK'
  BY <1>4, ConcatProperties, EmptySeq DEF TypeOK, ReceiveDelta, EmitReturn, Texts
<1>5. CASE EmitAbandoned
  BY <1>5, EmptySeq DEF TypeOK, EmitAbandoned, EmitReturn, Texts
<1>6. CASE UNCHANGED vars
  BY <1>6 DEF TypeOK, vars
<1> QED BY <1>1, <1>2, <1>3, <1>4, <1>5, <1>6 DEF Next, Device

-----------------------------------------------------------------------------
(* Where each job is. *)

\* Append and Tail on a queue without duplicates.
LEMMA AppendElements ==
    ASSUME NEW S, NEW q \in Seq(S), NEW e \in S
    PROVE  /\ Elements(Append(q, e)) = Elements(q) \cup {e}
           /\ Distinct(q) /\ e \notin Elements(q) => Distinct(Append(q, e))
<1> DEFINE a == Append(q, e)
<1>1. /\ DOMAIN a = 1 .. Len(q) + 1 /\ DOMAIN q = 1 .. Len(q) /\ Len(q) \in Nat
      /\ \A i \in 1 .. Len(q) : a[i] = q[i]
      /\ a[Len(q) + 1] = e
  BY AppendProperties, LenProperties
<1> HIDE DEF a
<1>2. Elements(a) = Elements(q) \cup {e}
  <2>1. ASSUME NEW x \in Elements(a) PROVE x \in Elements(q) \cup {e}
    <3>1. PICK i \in 1 .. Len(q) + 1 : x = a[i]
      BY <1>1 DEF Elements
    <3>2. i \in 1 .. Len(q) \/ i = Len(q) + 1
      BY <1>1
    <3> QED BY <1>1, <3>1, <3>2 DEF Elements
  <2>2. ASSUME NEW x \in Elements(q) \cup {e} PROVE x \in Elements(a)
    <3>1. CASE x = e
      BY <1>1, <3>1 DEF Elements
    <3>2. CASE x \in Elements(q)
      <4>1. PICK i \in 1 .. Len(q) : x = q[i]
        BY <1>1, <3>2 DEF Elements
      <4> QED BY <1>1, <4>1 DEF Elements
    <3> QED BY <3>1, <3>2
  <2> QED BY <2>1, <2>2
<1>3. ASSUME Distinct(q), e \notin Elements(q), NEW i \in DOMAIN a, NEW j \in DOMAIN a, a[i] = a[j]
      PROVE  i = j
  <2>1. i \in 1 .. Len(q) \/ i = Len(q) + 1
    BY <1>1
  <2>2. j \in 1 .. Len(q) \/ j = Len(q) + 1
    BY <1>1
  <2> QED BY <1>1, <1>3, <2>1, <2>2 DEF Elements, Distinct
<1> QED BY <1>2, <1>3 DEF a, Distinct

\* Tail of a queue without duplicates drops one job.
LEMMA TailElements ==
    ASSUME NEW S, NEW q \in Seq(S), q # <<>>, Distinct(q)
    PROVE  /\ Head(q) \in S /\ Tail(q) \in Seq(S)
           /\ Elements(q) = {Head(q)} \cup Elements(Tail(q))
           /\ Head(q) \notin Elements(Tail(q))
           /\ Distinct(Tail(q))
<1> DEFINE t == Tail(q)
<1>1. /\ Head(q) = q[1] /\ Head(q) \in S /\ t \in Seq(S) /\ Len(q) \in Nat \ {0}
      /\ DOMAIN t = 1 .. Len(q) - 1 /\ DOMAIN q = 1 .. Len(q)
      /\ \A i \in 1 .. Len(q) - 1 : t[i] = q[i + 1]
  BY HeadTailProperties, LenProperties, EmptySeq
<1> HIDE DEF t
<1>2. ASSUME NEW i \in 2 .. Len(q) PROVE i - 1 \in 1 .. Len(q) - 1 /\ t[i - 1] = q[i]
  BY <1>1
<1>3. \A i \in 1 .. Len(q) - 1 : i + 1 \in DOMAIN q /\ t[i] = q[i + 1]
  BY <1>1
<1>4. Elements(q) \subseteq {Head(q)} \cup Elements(t)
  <2>1. SUFFICES ASSUME NEW i \in DOMAIN q, i # 1 PROVE q[i] \in Elements(t)
    BY <1>1 DEF Elements
  <2>2. i \in 2 .. Len(q)
    BY <1>1, <2>1
  <2> QED BY <1>1, <1>2, <2>2 DEF Elements
<1>5. {Head(q)} \cup Elements(t) \subseteq Elements(q)
  BY SMTT(30), <1>1, <1>3 DEF Elements
<1>6. Head(q) \notin Elements(t)
  BY <1>1, <1>3 DEF Elements, Distinct
<1>7. ASSUME NEW i \in DOMAIN t, NEW j \in DOMAIN t, t[i] = t[j]
      PROVE  i = j
  <2>1. i + 1 \in DOMAIN q /\ j + 1 \in DOMAIN q /\ q[i + 1] = q[j + 1]
    BY <1>1, <1>3, <1>7
  <2>2. i + 1 = j + 1 /\ i \in Nat /\ j \in Nat
    BY <1>1, <2>1 DEF Distinct
  <2> QED BY <2>2
<1> QED BY <1>1, <1>4, <1>5, <1>6, <1>7 DEF t, Distinct

\* An empty queue.
LEMMA NoElements == Elements(<<>>) = {} /\ Distinct(<<>>)
  BY DEF Elements, Distinct

\* No step loses a job or has it in two places.
LEMMA LedgerStep ==
    ASSUME TypeOK, LedgerInv, NoJobLost, DeviceInv, [Next]_vars
    PROVE  LedgerInv' /\ NoJobLost'
<1> DEFINE Waiting == Elements(jobs)
           Batched == Elements(batch)
           Ledger == /\ Distinct(jobs) /\ Distinct(batch)
                     /\ \A r \in Requests : r \in Waiting => r \notin Batched
                     /\ \A r \in Requests : r \in Waiting \/ r \in Batched =>
                          gpc[r] = "await" /\ result[r].kind = "none"
                     /\ \A r \in Requests : gpc[r] = "await" =>
                          r \in Waiting \/ r \in Batched \/ result[r].kind # "none"
           Callers == /\ \A r \in Requests : gpc[r] \in {"final", "closed"} =>
                           result[r].kind # "none"
                      /\ \A r \in Requests : hpc[r] = "new" => gpc[r] = "new" /\ r \notin streaming
                      /\ \A r \in Requests : gpc[r] \in {"new", "enqueue"} =>
                           result[r].kind = "none"
<1> USE DEF deviceVars, runnerVars, serveVars
<1>0. LedgerInv /\ NoJobLost <=> Ledger /\ Callers
  BY DEF LedgerInv, NoJobLost, InJobs, Rows, Elements
<1>a. (LedgerInv /\ NoJobLost)' <=> Ledger' /\ Callers'
  BY DEF LedgerInv, NoJobLost, InJobs, Rows, Elements
<1>b. Ledger /\ Callers
  BY <1>0
<1>1. ASSUME NEW r \in Requests,
             \/ StartStream(r) \/ StartPlain(r) \/ HandlerStep(r)
             \/ CancelRequest(r) \/ Stall(r) \/ Disconnect(r)
      PROVE  Ledger' /\ Callers'
  BY <1>1, <1>b DEF TypeOK, StartStream, StartPlain, HandlerStep, WriteChunk, WriteEnd,
     StopStream, Deregister, ReturnPlain, CancelRequest, CancelLeaving, Stall, Disconnect
<1>2. ASSUME NEW r \in Requests, EngineStep(r)
      PROVE  Ledger' /\ Callers'
  <2>1. CASE Enqueue(r) /\ UNCHANGED serveVars
    <3>1. r \notin Waiting /\ r \notin Batched
      BY <1>b, <2>1 DEF Enqueue
    <3>2. Waiting' = Waiting \cup {r} /\ Distinct(jobs') /\ Batched' = Batched
      BY <1>b, <2>1, <3>1, AppendElements DEF Enqueue, TypeOK
    <3> HIDE DEF Waiting, Batched
    <3> QED BY <1>b, <2>1, <3>1, <3>2 DEF TypeOK, Enqueue
  <2>2. CASE GenerateReturns(r) \/ ReceiveFinal(r) \/ FinalAbandoned(r)
    BY <1>b, <2>2 DEF TypeOK, GenerateReturns, ReceiveFinal, FinalAbandoned
  <2> QED BY <1>2, <2>1, <2>2 DEF EngineStep
<1>3. ASSUME DeviceStep, UNCHANGED serveVars
      PROVE  Ledger' /\ Callers'
  <2>1. CASE CollectFirst
    <3>1. Waiting = {Head(jobs)} \cup Waiting' /\ Head(jobs) \notin Waiting' /\ Distinct(jobs')
      BY <1>b, <2>1, TailElements DEF CollectFirst, TypeOK
    <3>2. Batched = {} /\ Batched' = {Head(jobs)} /\ Distinct(batch')
      BY <2>1 DEF CollectFirst, DeviceInv, Elements, Distinct
    <3> HIDE DEF Waiting, Batched
    <3> QED BY <1>b, <1>3, <2>1, <3>1, <3>2 DEF CollectFirst
  <2>2. CASE Drain
    <3>1. /\ Waiting = {Head(jobs)} \cup Waiting' /\ Head(jobs) \notin Waiting'
          /\ Distinct(jobs') /\ Head(jobs) \in Requests
      BY <1>b, <2>2, TailElements DEF Drain, TypeOK
    <3>2. Head(jobs) \notin Batched
      BY <1>b, <3>1
    <3>3. Batched' = Batched \cup {Head(jobs)} /\ Distinct(batch')
      BY <1>b, <2>2, <3>1, <3>2, AppendElements DEF Drain, TypeOK
    <3> HIDE DEF Waiting, Batched
    <3> QED BY <1>b, <1>3, <2>2, <3>1, <3>2, <3>3 DEF Drain
  <2>3. CASE PrefillFail \/ DeliverAll
    <3>1. Batched' = {} /\ Distinct(batch') /\ Waiting' = Waiting
      BY <2>3, NoElements DEF PrefillFail, PrefillFailTelling, DeliverAll, DeliverFailing
    <3>2. /\ \A r \in Requests : r \in Batched => result'[r].kind # "none"
          /\ \A r \in Requests : r \notin Batched => result'[r] = result[r]
      <4>1. Rows = Batched
        BY DEF Rows, Elements
      <4>2. CASE PrefillFail
        BY <4>1, <4>2 DEF PrefillFail, PrefillFailTelling, ErrResult, TypeOK
      <4>3. CASE DeliverAll
        BY <4>1, <4>3 DEF DeliverAll, DeliverFailing, Deliver, ErrResult, OkResult, TypeOK
      <4> QED BY <2>3, <4>2, <4>3
    <3>3. UNCHANGED <<jobs, gpc, streaming>>
      BY <2>3 DEF PrefillFail, PrefillFailTelling, DeliverAll, DeliverFailing
    <3> HIDE DEF Waiting, Batched
    <3> QED BY <1>b, <1>3, <3>1, <3>2, <3>3
  <2>4. CASE \/ Prefill \/ SkipRow \/ SeeCancel \/ SampleEOS \/ SampleToken
             \/ Decode \/ DecodeFail \/ BatchDone
    <3>1. UNCHANGED <<jobs, batch, gpc, streaming, result>>
      BY <2>4 DEF Prefill, PrefillFrom, SkipRow, SeeCancel, SampleEOS, EndRow, SampleToken,
         SampleRow, Decode, DecodeFail, BatchDone, EndSteps
    <3> QED BY <1>b, <1>3, <3>1
  <2> QED BY <1>3, <2>1, <2>2, <2>3, <2>4 DEF DeviceStep
<1>4. ASSUME NEW r \in Requests, ReceiveDelta(r)
      PROVE  Ledger' /\ Callers'
  BY <1>b, <1>4 DEF TypeOK, ReceiveDelta, EmitReturn
<1>5. ASSUME EmitAbandoned
      PROVE  Ledger' /\ Callers'
  BY <1>b, <1>5 DEF EmitAbandoned, EmitReturn
<1>6. ASSUME UNCHANGED vars
      PROVE  Ledger' /\ Callers'
  BY <1>b, <1>6 DEF vars
<1>7. Ledger' /\ Callers'
  <2> HIDE DEF Ledger, Callers
  <2> QED BY <1>1, <1>2, <1>3, <1>4, <1>5, <1>6 DEF Next, Device
<1> QED BY <1>a, <1>7

\* The steps of the handlers, of the clients and of the engine's goroutines.
ClientStep(r) ==
    \/ StartStream(r) \/ StartPlain(r) \/ HandlerStep(r) \/ EngineStep(r)
    \/ CancelRequest(r) \/ Stall(r) \/ Disconnect(r)

\* What they leave alone.
LEMMA ClientFrame ==
    ASSUME NEW r \in Requests, ClientStep(r)
    PROVE  UNCHANGED <<deviceVars, received>> /\ ctx \subseteq ctx' /\ streaming \subseteq streaming'
<1>1. CASE EngineStep(r)
  BY <1>1 DEF EngineStep, Enqueue, GenerateReturns, ReceiveFinal, FinalAbandoned, serveVars
<1>2. CASE StartStream(r) \/ StartPlain(r) \/ HandlerStep(r) \/ CancelRequest(r) \/ Stall(r) \/ Disconnect(r)
  BY <1>2 DEF StartStream, StartPlain, HandlerStep, WriteChunk, WriteEnd, StopStream,
     Deregister, ReturnPlain, CancelRequest, CancelLeaving, Stall, Disconnect, runnerVars, serveVars
<1> QED BY <1>1, <1>2 DEF ClientStep

\* A step is a client's or the device's.
LEMMA StepCases ==
    ASSUME [Next]_vars
    PROVE  \/ \E r \in Requests : ClientStep(r)
           \/ DeviceStep /\ UNCHANGED serveVars
           \/ \E r \in Requests : ReceiveDelta(r)
           \/ EmitAbandoned
           \/ UNCHANGED vars
  BY DEF Next, Device, ClientStep

\* The row the device goroutine is at is one of its batch.
LEMMA DeviceStepInv ==
    ASSUME TypeOK, DeviceInv, [Next]_vars
    PROVE  DeviceInv'
<1>0. Len(batch) \in Nat /\ DOMAIN batch = 1 .. Len(batch) /\ row \in Nat \ {0}
  BY LenProperties DEF TypeOK
<1>1. ASSUME NEW r \in Requests, ClientStep(r)
      PROVE  DeviceInv'
  BY <1>1, ClientFrame DEF DeviceInv, deviceVars, Current
<1>2. ASSUME DeviceStep, UNCHANGED serveVars
      PROVE  DeviceInv'
  <2>1. CASE CollectFirst \/ Drain \/ PrefillFail \/ DecodeFail \/ BatchDone \/ DeliverAll
    BY <2>1 DEF DeviceInv, CollectFirst, Drain, PrefillFail, PrefillFailTelling, DecodeFail,
       BatchDone, EndSteps, DeliverAll, DeliverFailing
  <2>2. CASE Prefill \/ Decode
    BY <1>0, <2>2 DEF DeviceInv, Prefill, PrefillFrom, Decode, StepDone
  <2>3. CASE SkipRow \/ SeeCancel \/ SampleEOS
    BY <1>0, <2>3 DEF DeviceInv, SkipRow, SeeCancel, SampleEOS, EndRow, AtRow
  <2>4. CASE SampleToken
    <3>1. SampleRow /\ AtRow
      BY <2>4 DEF SampleToken
    <3>2. \/ row' = row /\ dpc' = "emit" /\ Current \in streaming
          \/ row' = row + 1 /\ dpc' = dpc
      BY <3>1, SampleFacts
    <3>3. UNCHANGED <<batch, streaming>>
      BY <3>1 DEF SampleRow
    <3> QED BY <1>0, <3>1, <3>2, <3>3 DEF DeviceInv, AtRow, Current
  <2> QED BY <1>2, <2>1, <2>2, <2>3, <2>4 DEF DeviceStep
<1>3. ASSUME EmitReturn
      PROVE  DeviceInv'
  BY <1>0, <1>3 DEF DeviceInv, EmitReturn
<1>4. ASSUME UNCHANGED vars
      PROVE  DeviceInv'
  BY <1>4 DEF DeviceInv, vars, runnerVars, deviceVars, Current
<1> QED BY <1>1, <1>2, <1>3, <1>4, StepCases DEF ReceiveDelta, EmitAbandoned

\* Only the sequences of the batch that is stepped change, one at a time.
LEMMA FreshStep ==
    ASSUME TypeOK, LedgerInv, DeviceInv, FreshInv, [Next]_vars
    PROVE  FreshInv'
<1> USE DEF Untouched
<1>0. \A r \in Requests : r \in Rows => ~ (gpc[r] \in {"new", "enqueue"} \/ InJobs(r))
  BY DEF LedgerInv
<1>1. ASSUME NEW r \in Requests, ClientStep(r)
      PROVE  FreshInv'
  <2>1. /\ UNCHANGED <<dpc, seq, emitted, received, batch>>
        /\ \A q \in Requests : gpc'[q] \in {"new", "enqueue"} => gpc[q] \in {"new", "enqueue"}
        /\ \A q \in Requests : InJobs(q)' => InJobs(q) \/ gpc[q] \in {"new", "enqueue"}
    <3>1. CASE Enqueue(r)
      <4>1. Elements(jobs)' = Elements(jobs) \cup {r}
        BY <3>1, AppendElements DEF Enqueue, TypeOK
      <4> QED BY <1>1, <3>1, <4>1, ClientFrame DEF Enqueue, InJobs, TypeOK, deviceVars
    <3>2. CASE ~Enqueue(r)
      <4>1. CASE StartStream(r) \/ StartPlain(r)
        BY <1>1, <4>1, ClientFrame DEF StartStream, StartPlain, LedgerInv, InJobs, TypeOK,
           deviceVars
      <4>2. CASE HandlerStep(r) \/ CancelRequest(r) \/ Stall(r) \/ Disconnect(r)
        BY <1>1, <4>2, ClientFrame DEF HandlerStep, WriteChunk, WriteEnd, StopStream, Deregister,
           ReturnPlain, CancelRequest, CancelLeaving, Stall, Disconnect, runnerVars, InJobs, TypeOK,
           deviceVars
      <4>3. CASE GenerateReturns(r) \/ ReceiveFinal(r) \/ FinalAbandoned(r)
        BY <1>1, <4>3, ClientFrame DEF GenerateReturns, ReceiveFinal, FinalAbandoned, InJobs,
           TypeOK, deviceVars
      <4> QED BY <1>1, <3>2, <4>1, <4>2, <4>3 DEF ClientStep, EngineStep
    <3> QED BY <3>1, <3>2
  <2> QED BY <2>1 DEF FreshInv, Rows
<1>2. ASSUME DeviceStep, UNCHANGED serveVars
      PROVE  FreshInv'
  <2>1. CASE CollectFirst
    <3>1. /\ Elements(jobs) = {Head(jobs)} \cup Elements(jobs')
          /\ Rows' = {Head(jobs)} /\ Head(jobs) \in Requests
      BY <2>1, TailElements DEF CollectFirst, LedgerInv, TypeOK, Rows
    <3> QED BY <1>2, <2>1, <3>1 DEF FreshInv, CollectFirst, InJobs, serveVars
  <2>2. CASE Drain
    <3>1. Elements(jobs) = {Head(jobs)} \cup Elements(jobs') /\ Head(jobs) \in Requests
      BY <2>2, TailElements DEF Drain, LedgerInv, TypeOK
    <3>2. Rows' = Rows \cup {Head(jobs)}
      <4>1. Elements(batch') = Elements(batch) \cup {Head(jobs)}
        BY <2>2, <3>1, AppendElements DEF Drain, TypeOK
      <4> QED BY <4>1 DEF Rows, Elements
    <3> QED BY <1>2, <2>2, <3>1, <3>2 DEF FreshInv, Drain, InJobs, serveVars
  <2>3. CASE SeeCancel \/ SampleEOS \/ SampleToken
    <3>1. Current \in Rows /\ UNCHANGED <<jobs, gpc>> /\ dpc = "step"
      BY <2>3 DEF SeeCancel, SampleEOS, EndRow, SampleToken, SampleRow, AtRow, Current, Rows
    <3>2. \A q \in Requests : q # Current => seq'[q] = seq[q] /\ emitted'[q] = emitted[q]
      <4>1. CASE SampleToken
        BY <4>1, SampleFacts DEF SampleToken, TypeOK
      <4>2. CASE SeeCancel \/ SampleEOS
        BY <4>2 DEF SeeCancel, SampleEOS, EndRow, TypeOK
      <4> QED BY <2>3, <4>1, <4>2
    <3>3. dpc' # "drain"
      <4>1. CASE SampleToken
        BY <3>1, <4>1, SampleFacts DEF SampleToken
      <4>2. CASE SeeCancel \/ SampleEOS
        BY <3>1, <4>2 DEF SeeCancel, SampleEOS, EndRow
      <4> QED BY <2>3, <4>1, <4>2
    <3> QED BY <1>0, <1>2, <3>1, <3>2, <3>3 DEF FreshInv, InJobs, serveVars
  <2>4. CASE Prefill \/ PrefillFail \/ SkipRow \/ Decode \/ DecodeFail \/ BatchDone \/ DeliverAll
    <3>1. UNCHANGED <<jobs, gpc, seq, emitted>> /\ dpc' # "drain"
      BY <2>4 DEF Prefill, PrefillFrom, PrefillFail, PrefillFailTelling, SkipRow, AtRow, Decode,
         StepDone, DecodeFail, BatchDone, EndSteps, DeliverAll, DeliverFailing
    <3> QED BY <1>2, <3>1 DEF FreshInv, InJobs, serveVars
  <2> QED BY <1>2, <2>1, <2>2, <2>3, <2>4 DEF DeviceStep
<1>3. ASSUME NEW r \in Requests, ReceiveDelta(r)
      PROVE  FreshInv'
  <2>1. r \in Rows /\ dpc' = "step" /\ UNCHANGED <<jobs, gpc, seq, emitted>>
    BY <1>3 DEF ReceiveDelta, EmitReturn, DeviceInv, Current, Rows
  <2>2. \A q \in Requests : q # r => received'[q] = received[q]
    BY <1>3 DEF ReceiveDelta, TypeOK
  <2> QED BY <1>0, <2>1, <2>2 DEF FreshInv, InJobs
<1>4. ASSUME EmitAbandoned
      PROVE  FreshInv'
  BY <1>4 DEF FreshInv, InJobs, EmitAbandoned, EmitReturn, serveVars
<1>5. ASSUME UNCHANGED vars
      PROVE  FreshInv'
  BY <1>5 DEF FreshInv, InJobs, Rows, vars, runnerVars, deviceVars, serveVars
<1> QED BY <1>1, <1>2, <1>3, <1>4, <1>5, StepCases

-----------------------------------------------------------------------------
(* Budgets and results. *)

\* What a sampled token or an early end does to the budget of the current row.
LEMMA RowAdvance ==
    ASSUME TypeOK, LedgerInv, BudgetInv, SeeCancel \/ SampleEOS \/ SampleToken
    PROVE  /\ dpc = "step" /\ dpc' \in {"step", "emit"} /\ row \in DOMAIN batch
           /\ Current \in Requests /\ Current \in Rows
           /\ UNCHANGED <<jobs, gpc, ctx, streaming, batch, step, devErr, result>>
           /\ IF dpc' = "emit" THEN row' = row ELSE row' = row + 1
           /\ seq' \in [Requests -> SeqStates]
           /\ \A q \in Requests : q # Current => seq'[q] = seq[q]
           /\ ~Finished(Current)
           /\ seq'[Current].reason = "" => seq'[Current].tokens = seq[Current].tokens + 1
           /\ seq'[Current].reason = "" => seq'[Current].tokens < MaxTokens[Current]
           /\ seq'[Current].reason = "length" => seq'[Current].tokens = MaxTokens[Current]
<1>1. CASE SeeCancel \/ SampleEOS
  <2>1. PICK why \in {"cancel", "stop"} : EndRow(why)
    BY <1>1 DEF SeeCancel, SampleEOS
  <2>2. Current \in Requests /\ Current \in Rows
    BY <2>1 DEF EndRow, AtRow, Current, Rows, TypeOK
  <2>3. seq'[Current].reason = why /\ why # "" /\ why # "length"
    BY <2>1, <2>2 DEF EndRow, TypeOK, SeqStates
  <2>4. seq' \in [Requests -> SeqStates]
    <3>1. why \in Reasons
      BY DEF Reasons
    <3>2. [seq[Current] EXCEPT !.reason = why] \in SeqStates
      <4>1. seq[Current] \in SeqStates
        BY <2>2 DEF TypeOK
      <4> QED BY <3>1, <4>1 DEF SeqStates
    <3>3. seq' = [seq EXCEPT ![Current] = [seq[Current] EXCEPT !.reason = why]]
      BY <2>1, <2>2 DEF EndRow, TypeOK
    <3> QED BY <2>2, <3>2, <3>3 DEF TypeOK
  <2> QED BY <2>1, <2>2, <2>3, <2>4 DEF EndRow, AtRow, Finished, TypeOK
<1>2. CASE SampleToken
  <2>1. SampleRow /\ Current \in Requests
    BY <1>2, SampleFacts DEF SampleToken
  <2>2. PICK p \in Pieces[Current], e \in SeqStates :
          /\ e = Extend(seq[Current], Current, p)
          /\ seq' = [seq EXCEPT ![Current] = e]
          /\ \/ dpc' = "emit" /\ row' = row
             \/ row' = row + 1 /\ dpc' = dpc
    BY <2>1, SampleFacts
  <2>3. /\ seq[Current] \in SeqStates /\ ~Finished(Current)
        /\ seq[Current].tokens \in Nat /\ seq[Current].tokens < MaxTokens[Current]
        /\ MaxTokens[Current] \in Nat
    BY <2>1, RunnerAssumption DEF TypeOK, SampleRow, BudgetInv, SeqStates
  <2>4. /\ seq'[Current] = e
        /\ \A q \in Requests : q # Current => seq'[q] = seq[q]
        /\ seq' \in [Requests -> SeqStates]
    BY <2>1, <2>2 DEF TypeOK
  <2>5. /\ e.tokens = seq[Current].tokens + 1
        /\ e.reason = "" => ~ (seq[Current].tokens + 1 >= MaxTokens[Current])
        /\ e.reason = "length" => seq[Current].tokens + 1 >= MaxTokens[Current]
    BY <2>2 DEF Extend
  <2>6. dpc = "step" /\ row \in DOMAIN batch /\ Current \in Rows
    BY <2>1 DEF SampleRow, AtRow, Current, Rows
  <2>7. UNCHANGED <<jobs, gpc, ctx, streaming, batch, step, devErr, result>>
    BY <2>1 DEF SampleRow
  <2>8. dpc' \in {"step", "emit"} /\ IF dpc' = "emit" THEN row' = row ELSE row' = row + 1
    BY <2>2, <2>6
  <2>9. /\ e.reason = "" => e.tokens < MaxTokens[Current]
        /\ e.reason = "length" => e.tokens = MaxTokens[Current]
    <3> DEFINE n == seq[Current].tokens
               m == MaxTokens[Current]
    <3>1. n \in Nat /\ m \in Nat /\ n < m /\ e.tokens = n + 1
      BY <2>3, <2>5
    <3>2. /\ e.reason = "" => ~ (n + 1 >= m)
          /\ e.reason = "length" => n + 1 >= m
      BY <2>5
    <3> HIDE DEF n, m
    <3>3. ~ (n + 1 >= m) => n + 1 < m
      BY <3>1
    <3>4. n + 1 >= m => n + 1 = m
      BY <3>1
    <3> QED BY <3>1, <3>2, <3>3, <3>4 DEF m
  <2> QED BY <2>1, <2>3, <2>4, <2>5, <2>6, <2>7, <2>8, <2>9
<1> QED BY <1>1, <1>2

\* Every sequence of a batch has had one token per step while it is unfinished,
\* so the step limit, the largest budget, ends them all.
LEMMA BudgetStep ==
    ASSUME TypeOK, LedgerInv, FreshInv, DeviceInv, BudgetInv, [Next]_vars
    PROVE  BudgetInv'
<1>0. /\ Len(batch) \in Nat /\ DOMAIN batch = 1 .. Len(batch) /\ row \in Nat \ {0} /\ step \in Nat
      /\ \A i \in DOMAIN batch : batch[i] \in Requests /\ batch[i] \in Rows
      /\ \A r \in Requests : seq[r].tokens \in Nat /\ MaxTokens[r] \in Nat \ {0}
      /\ Rows \subseteq Requests
  BY LenProperties, RunnerAssumption DEF TypeOK, SeqStates, Rows
<1>1. ASSUME UNCHANGED deviceVars
      PROVE  BudgetInv'
  BY <1>1 DEF BudgetInv, deviceVars, Finished, Stepped, Rows
<1>2. ASSUME DeviceStep, UNCHANGED serveVars
      PROVE  BudgetInv'
  <2>1. CASE CollectFirst \/ Drain \/ PrefillFail \/ DeliverAll
    <3>1. UNCHANGED seq /\ dpc' \in {"drain", "collect"}
      BY <2>1 DEF CollectFirst, Drain, PrefillFail, PrefillFailTelling, DeliverAll, DeliverFailing
    <3> QED BY <3>1 DEF BudgetInv, Finished
  <2>2. CASE Prefill
    <3>1. \A i \in DOMAIN batch : seq[batch[i]].tokens = 0
      <4>1. \A i \in DOMAIN batch : seq[batch[i]] = NewSeq
        BY <1>0, <2>2 DEF Prefill, PrefillFrom, FreshInv, Untouched
      <4>2. NewSeq.tokens = 0
        BY DEF NewSeq
      <4> QED BY <4>1, <4>2
    <3>2. /\ UNCHANGED <<seq, batch>> /\ dpc' = "step" /\ row' = 1 /\ step' = 0
          /\ \A i \in DOMAIN batch : ~ (i < row')
      BY <1>0, <2>2 DEF Prefill, PrefillFrom
    <3> QED BY <3>1, <3>2 DEF BudgetInv, Finished, Stepped
  <2>3. CASE SkipRow
    <3>1. /\ UNCHANGED <<seq, batch, step>> /\ dpc = "step" /\ dpc' = "step" /\ row' = row + 1
          /\ Finished(batch[row])
      BY <2>3 DEF SkipRow, AtRow, Current
    <3>2. \A i \in DOMAIN batch : i < row + 1 => i < row \/ i = row
      BY <1>0
    <3>3. \A i \in DOMAIN batch : i # row => (Stepped(i)' <=> Stepped(i))
      BY <1>0, <3>1, <3>2 DEF Stepped
    <3> QED BY <3>1, <3>3 DEF BudgetInv, Finished
  <2>4. CASE SeeCancel \/ SampleEOS \/ SampleToken
    <3>1. \A i \in DOMAIN batch : i # row => batch[i] # Current
      BY <1>0, <2>4, RowAdvance DEF LedgerInv, Distinct, Current
    <3>2. \A i \in DOMAIN batch : Stepped(i)' <=> i < row \/ i = row
      <4>1. \/ dpc' = "emit" /\ row' = row
            \/ dpc' = "step" /\ row' = row + 1
        BY <2>4, RowAdvance
      <4>2. \A i \in DOMAIN batch : i < row + 1 <=> i < row \/ i = row
        BY <1>0
      <4> QED BY <4>1, <4>2 DEF Stepped
    <3>3. \A i \in DOMAIN batch : i # row => (Stepped(i) <=> i < row)
      BY <1>0, <2>4, RowAdvance DEF Stepped
    <3>4. ~ Stepped(row) /\ seq[Current].tokens = step
      <4>1. dpc = "step" /\ row \in DOMAIN batch /\ ~Finished(Current)
        BY <2>4, RowAdvance
      <4>2. ~ Stepped(row)
        BY <1>0, <4>1 DEF Stepped
      <4> QED BY <4>1, <4>2 DEF BudgetInv, Current
    <3>5. ASSUME NEW i \in DOMAIN batch, seq'[batch[i]].reason = ""
          PROVE  seq'[batch[i]].tokens = IF Stepped(i)' THEN step + 1 ELSE step
      <4>1. CASE i = row
        BY <2>4, <3>2, <3>4, <3>5, <4>1, RowAdvance DEF Current
      <4>2. CASE i # row
        <5>1. seq'[batch[i]] = seq[batch[i]]
          BY <1>0, <2>4, <3>1, <4>2, RowAdvance
        <5>2. dpc = "step"
          BY <2>4, RowAdvance
        <5> QED BY <3>2, <3>3, <3>5, <4>2, <5>1, <5>2 DEF BudgetInv, Finished
      <4> QED BY <4>1, <4>2
    <3>6. \A r \in Requests : seq'[r].reason = "length" => seq'[r].tokens = MaxTokens[r]
      BY <2>4, RowAdvance DEF BudgetInv
    <3>7. \A r \in Requests : seq'[r].reason = "" => seq'[r].tokens < MaxTokens[r]
      BY <2>4, RowAdvance DEF BudgetInv, Finished
    <3>8. UNCHANGED <<batch, step>> /\ dpc' # "deliver"
      BY <2>4, RowAdvance
    <3> QED BY <3>5, <3>6, <3>7, <3>8 DEF BudgetInv, Finished
  <2>5. CASE Decode
    <3>1. /\ UNCHANGED <<seq, batch>> /\ dpc = "step" /\ dpc' = "step" /\ step' = step + 1
          /\ row' = 1 /\ row > Len(batch)
      BY <2>5 DEF Decode, StepDone
    <3>2. \A i \in DOMAIN batch : Stepped(i) /\ ~ Stepped(i)'
      BY <1>0, <3>1 DEF Stepped
    <3> QED BY <3>1, <3>2 DEF BudgetInv, Finished
  <2>6. CASE DecodeFail
    <3>1. UNCHANGED seq /\ dpc' = "deliver" /\ devErr'
      BY <2>6 DEF DecodeFail, EndSteps
    <3> QED BY <3>1 DEF BudgetInv, Finished
  <2>7. CASE BatchDone
    <3>1. UNCHANGED <<seq, batch>> /\ dpc = "step" /\ dpc' = "deliver" /\ row > Len(batch)
      BY <2>7 DEF BatchDone, EndSteps, StepDone
    <3>2. SUFFICES ASSUME NEW i \in DOMAIN batch, ~Finished(batch[i])
                   PROVE  FALSE
      BY <3>1 DEF BudgetInv, Finished, Rows
    <3>3. step = StepLimit - 1
      BY <1>0, <2>7, <3>2 DEF BatchDone, MoreSteps
    <3>4. seq[batch[i]].tokens = step + 1 /\ seq[batch[i]].tokens < MaxTokens[batch[i]]
      BY <1>0, <3>1, <3>2 DEF BudgetInv, Stepped
    <3>5. MaxTokens[batch[i]] <= StepLimit /\ StepLimit \in Nat
      <4> DEFINE T == {MaxTokens[r] : r \in Rows}
      <4>1. T \in SUBSET Nat /\ MaxTokens[batch[i]] \in T
        BY <1>0
      <4>2. IsFiniteSet(T)
        <5> DEFINE f == [r \in Rows |-> MaxTokens[r]]
        <5>1. f \in Surjection(Rows, T)
          BY DEF Surjection
        <5>2. IsFiniteSet(Rows)
          BY <1>0, RunnerAssumption, FS_Subset
        <5> QED BY <5>1, <5>2, FS_Surjection
      <4> HIDE DEF T
      <4>3. Max(T) \in T /\ MaxTokens[batch[i]] <= Max(T)
        BY <4>1, <4>2, MaxIsGreatest
      <4> QED BY <4>1, <4>3 DEF T, StepLimit
    <3> QED BY <1>0, <3>3, <3>4, <3>5
  <2> QED BY <1>2, <2>1, <2>2, <2>3, <2>4, <2>5, <2>6, <2>7 DEF DeviceStep
<1>3. ASSUME EmitReturn
      PROVE  BudgetInv'
  <2>1. UNCHANGED <<seq, batch, step>> /\ dpc = "emit" /\ dpc' = "step" /\ row' = row + 1
    BY <1>3 DEF EmitReturn
  <2>2. \A i \in DOMAIN batch : Stepped(i)' <=> Stepped(i)
    BY <1>0, <2>1 DEF Stepped
  <2> QED BY <2>1, <2>2 DEF BudgetInv, Finished
<1> QED BY <1>1, <1>2, <1>3, StepCases, ClientFrame
        DEF ReceiveDelta, EmitAbandoned, vars, runnerVars

\* A result is set once, from what its sequence then is, and that stays.
LEMMA ResultStep ==
    ASSUME TypeOK, LedgerInv, FreshInv, BudgetInv, ResultInv, [Next]_vars
    PROVE  ResultInv'
<1>0. /\ \A r \in Rows : r \in Requests /\ gpc[r] = "await" /\ result[r].kind = "none"
      /\ \A r \in Requests : result[r].kind \in {"none", "err", "ok"}
  BY DEF TypeOK, LedgerInv, Rows, Results
<1>1. ASSUME NEW r \in Requests, ClientStep(r)
      PROVE  ResultInv'
  <2>1. UNCHANGED <<seq, result>>
    BY <1>1, ClientFrame DEF deviceVars
  <2>2. \A q \in Requests : gpc'[q] = "final" => result[q].kind = "ok"
    <3>1. CASE EngineStep(r)
      BY ZenonT(40), <1>0, <3>1 DEF EngineStep, Enqueue, GenerateReturns, ReceiveFinal, FinalAbandoned,
         ResultInv, TypeOK
    <3>2. CASE ~EngineStep(r)
      BY <1>1, <3>2 DEF ClientStep, StartStream, StartPlain, HandlerStep, WriteChunk, WriteEnd,
         StopStream, Deregister, ReturnPlain, CancelRequest, CancelLeaving, Stall, Disconnect,
         runnerVars, ResultInv, TypeOK
    <3> QED BY <3>1, <3>2
  <2>3. \A q \in Requests : final'[q] # "" => result[q].kind = "ok"
    <3>1. CASE ReceiveFinal(r)
      BY <3>1 DEF ReceiveFinal, ResultInv, TypeOK
    <3>2. CASE ~ReceiveFinal(r)
      BY <1>1, <3>2 DEF ClientStep, EngineStep, Enqueue, GenerateReturns, FinalAbandoned,
         StartStream, StartPlain, HandlerStep, WriteChunk, WriteEnd, StopStream, Deregister,
         ReturnPlain, CancelRequest, CancelLeaving, Stall, Disconnect, serveVars, ResultInv
    <3> QED BY <3>1, <3>2
  <2> QED BY <2>1, <2>2, <2>3 DEF ResultInv, Finished
<1>2. ASSUME DeviceStep, UNCHANGED serveVars
      PROVE  ResultInv'
  <2>1. CASE PrefillFail
    <3>1. /\ UNCHANGED <<seq, gpc, final>>
          /\ \A r \in Requests : result'[r] = IF r \in Rows THEN ErrResult ELSE result[r]
          /\ \A r \in Rows : seq[r] = NewSeq
      BY <1>2, <2>1 DEF PrefillFail, PrefillFailTelling, FreshInv, Untouched, serveVars
    <3>2. ErrResult.kind = "err" /\ ErrResult.reason = "" /\ NewSeq.reason = ""
      BY DEF ErrResult, NewSeq
    <3> QED BY ZenonT(40), <1>0, <3>1, <3>2 DEF ResultInv, Finished
  <2>2. CASE DeliverAll
    <3>1. /\ UNCHANGED <<seq, gpc, final>>
          /\ \A r \in Requests : r \notin Rows => result'[r] = result[r]
          /\ \A r \in Rows : \/ result'[r] = ErrResult /\ ~Finished(r)
                             \/ result'[r] = Deliver(r) /\ (Finished(r) \/ ~devErr)
      BY <1>0, <1>2, <2>2 DEF DeliverAll, DeliverFailing, serveVars
    <3>2. \A r \in Rows : result'[r] = Deliver(r) => Finished(r)
      <4>1. dpc = "deliver"
        BY <2>2 DEF DeliverAll, DeliverFailing
      <4>2. ErrResult.kind # "ok" /\ \A r \in Rows : Deliver(r).kind = "ok"
        BY DEF ErrResult, Deliver, OkResult
      <4> QED BY <3>1, <4>1, <4>2 DEF BudgetInv
    <3>3. ErrResult.kind = "err" /\ ErrResult.reason = ""
      BY DEF ErrResult
    <3>4. \A r \in Rows : /\ Deliver(r).kind = "ok"
                          /\ Finished(r) => Deliver(r).reason = seq[r].reason
      BY DEF Deliver, OkResult, Finished
    <3>5. ASSUME NEW r \in Rows
          PROVE  /\ result'[r].kind # "ok" => result'[r].reason = ""
                 /\ result'[r].kind = "err" => ~Finished(r)
                 /\ result'[r].kind = "ok" => Finished(r) /\ result'[r].reason = seq[r].reason
                 /\ ~ (gpc[r] = "final" \/ final[r] # "")
      <4>1. ~ (gpc[r] = "final" \/ final[r] # "")
        BY <1>0 DEF ResultInv
      <4>2. CASE result'[r] = ErrResult /\ ~Finished(r)
        BY <3>3, <4>1, <4>2
      <4>3. CASE result'[r] = Deliver(r)
        BY <3>2, <3>4, <4>1, <4>3
      <4> QED BY <3>1, <4>2, <4>3
    <3>6. ASSUME NEW r \in Requests, r \notin Rows
          PROVE  /\ result'[r].kind # "ok" => result'[r].reason = ""
                 /\ result'[r].kind = "err" => ~Finished(r)
                 /\ result'[r].kind = "ok" => Finished(r) /\ result'[r].reason = seq[r].reason
                 /\ gpc[r] = "final" \/ final[r] # "" => result'[r].kind = "ok"
      BY <3>1, <3>6 DEF ResultInv
    <3> QED BY <3>1, <3>5, <3>6 DEF ResultInv, Finished
  <2>3. CASE SeeCancel \/ SampleEOS \/ SampleToken
    <3>1. UNCHANGED <<gpc, final, result>> /\ \A q \in Requests : q # Current => seq'[q] = seq[q]
      BY <1>2, <2>3, RowAdvance DEF serveVars
    <3>2. result[Current].kind = "none"
      BY <1>0, <2>3, RowAdvance
    <3> QED BY <3>1, <3>2 DEF ResultInv, Finished
  <2>4. CASE CollectFirst \/ Drain \/ Prefill \/ SkipRow \/ Decode \/ DecodeFail \/ BatchDone
    <3>1. UNCHANGED <<gpc, final, result, seq>>
      BY <1>2, <2>4 DEF CollectFirst, Drain, Prefill, PrefillFrom, SkipRow, Decode, DecodeFail,
         BatchDone, EndSteps, serveVars
    <3> QED BY <3>1 DEF ResultInv, Finished
  <2> QED BY <1>2, <2>1, <2>2, <2>3, <2>4 DEF DeviceStep
<1>3. ASSUME UNCHANGED <<gpc, final, result, seq>>
      PROVE  ResultInv'
  BY <1>3 DEF ResultInv, Finished
<1> QED BY <1>1, <1>2, <1>3, StepCases
        DEF ReceiveDelta, EmitAbandoned, EmitReturn, vars, runnerVars, deviceVars, serveVars

-----------------------------------------------------------------------------
(* The registry. *)

\* A stream is registered and deregistered with its handler's place.
LEMMA RegistryStep ==
    ASSUME TypeOK, RegistryInv, [Next]_vars
    PROVE  RegistryInv'
<1>1. ASSUME NEW r \in Requests, ClientStep(r)
      PROVE  RegistryInv'
  <2>1. CASE EngineStep(r)
    BY <2>1 DEF EngineStep, Enqueue, GenerateReturns, ReceiveFinal, FinalAbandoned, serveVars,
       RegistryInv, RegistryExact
  <2>2. CASE StartStream(r) \/ StartPlain(r)
    BY ZenonT(40), <2>2 DEF StartStream, StartPlain, RegistryInv, RegistryExact, TypeOK
  <2>3. CASE HandlerStep(r)
    <3>1. CASE WriteChunk(r)
      BY SMTT(30), <3>1 DEF WriteChunk, runnerVars, RegistryInv, RegistryExact, TypeOK
    <3>2. CASE WriteEnd(r)
      BY SMTT(30), <3>2 DEF WriteEnd, runnerVars, RegistryInv, RegistryExact, TypeOK
    <3>3. CASE StopStream(r)
      BY SMTT(30), <3>3 DEF StopStream, Deregister, RegistryInv, RegistryExact, TypeOK
    <3>4. CASE ReturnPlain(r)
      BY SMTT(30), <3>4 DEF ReturnPlain, RegistryInv, RegistryExact, TypeOK
    <3> QED BY <2>3, <3>1, <3>2, <3>3, <3>4 DEF HandlerStep
  <2>4. CASE CancelRequest(r) \/ Stall(r) \/ Disconnect(r)
    <3>1. CASE CancelRequest(r)
      BY <3>1 DEF CancelRequest, CancelLeaving, RegistryInv, RegistryExact, TypeOK
    <3>2. CASE Stall(r)
      BY <3>2 DEF Stall, runnerVars, RegistryInv, RegistryExact
    <3>3. CASE Disconnect(r)
      BY <3>3 DEF Disconnect, RegistryInv, RegistryExact
    <3> QED BY <2>4, <3>1, <3>2, <3>3
  <2> QED BY <1>1, <2>1, <2>2, <2>3, <2>4 DEF ClientStep
<1>2. ASSUME NEW r \in Requests, ReceiveDelta(r)
      PROVE  RegistryInv'
  BY <1>2 DEF ReceiveDelta, EmitReturn, RegistryInv, RegistryExact, TypeOK
<1>3. ASSUME UNCHANGED <<ctx, streaming, hpc, cancels, cancelOk>>
      PROVE  RegistryInv'
  BY <1>3 DEF RegistryInv, RegistryExact
<1>4. DeviceStep => UNCHANGED <<ctx, streaming>>
  BY DEF DeviceStep, CollectFirst, Drain, Prefill, PrefillFrom, PrefillFail, PrefillFailTelling,
     SkipRow, SeeCancel, SampleEOS, EndRow, SampleToken, SampleRow, Decode, DecodeFail,
     BatchDone, EndSteps, DeliverAll, DeliverFailing
<1> QED BY <1>1, <1>2, <1>3, <1>4, StepCases
        DEF EmitAbandoned, EmitReturn, vars, runnerVars, serveVars

-----------------------------------------------------------------------------
(* The stream of a request. *)

\* Of two prefixes of a text the shorter is a prefix of the longer.
LEMMA PrefixOfPrefix ==
    ASSUME NEW a \in Texts, NEW b \in Texts, NEW u \in Texts,
           TextPrefix(a, u), TextPrefix(b, u), Len(a) <= Len(b)
    PROVE  TextPrefix(a, b)
<1>1. \A i \in 1 .. Len(a) : a[i] = u[i]
  BY SubSeqProperties DEF TextPrefix, Texts
<1>2. \A i \in 1 .. Len(b) : b[i] = u[i]
  BY SubSeqProperties DEF TextPrefix, Texts
<1>3. \A i \in 1 .. Len(a) : a[i] = b[i]
  BY <1>1, <1>2 DEF Texts
<1>4. /\ SubSeq(b, 1, Len(a)) \in Seq(Symbols) /\ Len(SubSeq(b, 1, Len(a))) = Len(a)
      /\ \A i \in 1 .. Len(a) : SubSeq(b, 1, Len(a))[i] = b[i]
  BY <1>3, LenProperties DEF Texts
<1> QED BY <1>3, <1>4, SeqEqual DEF TextPrefix, Texts

\* A prefix followed by the rest is the whole.
LEMMA PrefixRest ==
    ASSUME NEW a \in Texts, NEW b \in Texts, TextPrefix(a, b)
    PROVE  a \o SubSeq(b, Len(a) + 1, Len(b)) = b
<1>1. Len(a) \in Nat /\ Len(b) \in Nat /\ Len(a) <= Len(b) /\ SubSeq(b, 1, Len(a)) = a
  BY DEF TextPrefix, Texts
<1>2. /\ 1 \in 1 .. Len(b) + 1 /\ Len(a) \in 1 - 1 .. Len(b) /\ Len(b) \in Len(a) .. Len(b)
  BY <1>1
<1>3. SubSeq(b, 1, Len(a)) \o SubSeq(b, Len(a) + 1, Len(b)) = SubSeq(b, 1, Len(b))
  BY <1>2, ConcatAdjacentSubSeq DEF Texts
<1>4. SubSeq(b, 1, Len(b)) = b
  BY SubSeqFull DEF Texts
<1> QED BY <1>1, <1>3, <1>4

\* A text is a prefix of itself.
LEMMA PrefixSelf ==
    ASSUME NEW a \in Texts
    PROVE  TextPrefix(a, a)
  BY SubSeqFull DEF TextPrefix, Texts

\* What OnToken has been passed after one more token of a stream that was
\* passed everything so far.
LEMMA DeltaExact ==
    \A s \in SeqStates, p \in Texts : \A r :
        s.prev = Len(s.text) =>
            Shown(s.text \o Delta(s, Extend(s, r, p)), Extend(s, r, p), r)
<1> TAKE s \in SeqStates, p \in Texts
<1> TAKE r
<1> HAVE s.prev = Len(s.text)
<1> PICK t : t = Extend(s, r, p)
  OBVIOUS
<1> PICK d : d = Delta(s, t)
  OBVIOUS
<1> PICK em : em = s.text \o d
  OBVIOUS
<1> SUFFICES Shown(em, t, r)
  OBVIOUS
<1> USE DEF Shown
<1> PICK x \in Texts : x = s.text
  BY DEF SeqStates
<1> PICK full : full = x \o p
  OBVIOUS
<1>1. full \in Texts /\ Len(full) \in Nat /\ Len(x) \in Nat /\ TextPrefix(x, full)
  BY PrefixOfConcat DEF Texts
<1>2. t.text = full
  BY DEF Extend
<1>3. CASE StopsAt(full, Stops[r]) = {}
  <2>1. t.prev = Len(full) /\ t.reason # "stop"
    BY <1>3 DEF Extend
  <2>2. d = SubSeq(full, Len(x) + 1, Len(full))
    BY <1>2, <2>1 DEF Delta
  <2>3. em = full
    BY <1>1, <2>2, PrefixRest
  <2> QED BY <1>1, <1>2, <1>3, <2>1, <2>3, PrefixSelf
<1>4. CASE StopsAt(full, Stops[r]) # {}
  <2> PICK c : c = CutAt(full, Stops[r])
    OBVIOUS
  <2>1. c \in Texts /\ TextPrefix(c, full) /\ Len(c) \in Nat
    <3>1. c \in Texts /\ TextPrefix(c, full)
      BY <1>1, <1>4, CutIsPrefix
    <3> QED BY <3>1, LenProperties DEF Texts
  <2>2. t.cut = c /\ t.reason = "stop"
    BY <1>4 DEF Extend
  <2>3. d = SubSeq(c, Len(x) + 1, Len(c))
    BY <2>2 DEF Delta
  <2>4. CASE Len(c) <= Len(x)
    <3>1. d = <<>>
      <4>1. Len(x) + 1 \in Int /\ Len(c) \in Int /\ Len(c) < Len(x) + 1
        BY <1>1, <2>1, <2>4
      <4> QED BY <2>3, <4>1, SubSeqEmpty
    <3>2. em = x
      BY <3>1, ConcatEmptySeq DEF Texts
    <3> QED BY <1>1, <1>2, <1>4, <2>2, <2>4, <3>2
  <2>5. CASE Len(x) <= Len(c)
    <3>1. TextPrefix(x, c)
      BY <1>1, <2>1, <2>5, PrefixOfPrefix
    <3>2. em = c
      BY <2>1, <2>3, <3>1, PrefixRest
    <3> QED BY <1>2, <1>4, <2>1, <2>2, <3>2
  <2>6. Len(c) <= Len(x) \/ Len(x) <= Len(c)
    BY <1>1, <2>1
  <2> QED BY <2>4, <2>5, <2>6
<1> QED BY <1>3, <1>4

\* Before its first token a request has been shown nothing, which is all of it.
LEMMA FreshStream ==
    ASSUME NEW r \in Requests, Untouched(r)
    PROVE  Shown(emitted[r], seq[r], r) /\ received[r] = emitted[r]
<1>1. NewSeq.text = <<>> /\ NewSeq.prev = 0 /\ NewSeq.cut = <<>>
  BY DEF NewSeq
<1>2. <<>> \in Texts /\ Len(<<>>) = 0
  BY EmptySeq DEF Texts
<1>3. TextPrefix(<<>>, <<>>)
  BY <1>2, PrefixSelf
<1> QED BY <1>1, <1>2, <1>3 DEF Untouched, Shown

\* The variables of a stream while a token is sampled for it.
LEMMA SampleStream ==
    ASSUME TypeOK, EmittedInv, SampleToken, NEW r \in streaming, r = Current
    PROVE  /\ Shown(emitted'[r], seq'[r], r)
           /\ dpc' = "emit" => emitted'[r] = emitted[r] \o offer'
           /\ dpc' # "emit" => emitted' = emitted
<1>1. SampleRow /\ r \in Requests /\ dpc = "step"
  BY SampleFacts DEF SampleToken, AtRow
<1>2. PICK s \in SeqStates : s = seq[r]
  BY <1>1 DEF TypeOK
<1>3. PICK p \in Pieces[r], t \in SeqStates, d \in Texts :
        /\ t = Extend(s, r, p) /\ d = Delta(s, t)
        /\ seq' = [seq EXCEPT ![r] = t]
        /\ IF d # <<>>
           THEN /\ offer' = d
                /\ emitted' = [emitted EXCEPT ![r] = @ \o d]
                /\ dpc' = "emit"
                /\ UNCHANGED row
           ELSE row' = row + 1 /\ UNCHANGED <<offer, emitted, dpc>>
  BY <1>1, <1>2, SampleFacts
<1>4. p \in Texts /\ t = Extend(s, r, p) /\ d = Delta(s, t)
  BY <1>1, <1>3, PiecesAssumption
<1>5. s.prev = Len(s.text) /\ emitted[r] = s.text /\ s.text \in Texts
  BY <1>1, <1>2 DEF EmittedInv, Shown, SampleRow, Finished, SeqStates
<1>6. Shown(s.text \o d, t, r)
  BY <1>4, <1>5, DeltaExact
<1>7. emitted'[r] = s.text \o d /\ seq'[r] = t
  <2>1. CASE d # <<>>
    BY <1>1, <1>3, <1>5, <2>1 DEF TypeOK
  <2>2. CASE d = <<>>
    BY <1>1, <1>3, <1>5, <2>2, ConcatEmptySeq DEF TypeOK, Texts
  <2> QED BY <2>1, <2>2
<1>8. /\ dpc' = "emit" => emitted'[r] = emitted[r] \o offer'
      /\ dpc' # "emit" => emitted' = emitted
  BY <1>1, <1>3, <1>5, <1>7
<1> QED BY <1>6, <1>7, <1>8

\* Only a sampled token moves what OnToken has been passed.
LEMMA EmittedStep ==
    ASSUME TypeOK, LedgerInv, FreshInv, BudgetInv, EmittedInv, [Next]_vars
    PROVE  EmittedInv'
<1>1. ASSUME NEW r \in Requests, ClientStep(r)
      PROVE  EmittedInv'
  <2>1. UNCHANGED <<emitted, seq>>
    BY <1>1, ClientFrame DEF deviceVars
  <2>2. CASE StartStream(r)
    <3>1. streaming' = streaming \cup {r} /\ Untouched(r)
      BY <2>2 DEF StartStream, LedgerInv, FreshInv
    <3> QED BY <2>1, <3>1, FreshStream DEF EmittedInv
  <2>3. CASE ~StartStream(r)
    <3>1. streaming' = streaming
      BY <1>1, <2>3 DEF ClientStep, EngineStep, Enqueue, GenerateReturns, ReceiveFinal,
         FinalAbandoned, StartPlain, HandlerStep, WriteChunk, WriteEnd, StopStream, Deregister,
         ReturnPlain, CancelRequest, CancelLeaving, Stall, Disconnect, runnerVars
    <3> QED BY <2>1, <3>1 DEF EmittedInv
  <2> QED BY <2>2, <2>3
<1>2. ASSUME DeviceStep
      PROVE  EmittedInv'
  <2>1. CASE SampleToken
    <3>1. SampleRow
      BY <2>1 DEF SampleToken
    <3>2. UNCHANGED streaming
      BY <3>1 DEF SampleRow
    <3>3. \A q \in Requests : q # Current => seq'[q] = seq[q] /\ emitted'[q] = emitted[q]
      BY ZenonT(40), <3>1, SampleFacts DEF TypeOK
    <3>4. ASSUME NEW q \in streaming
          PROVE  Shown(emitted'[q], seq'[q], q)
      <4>1. CASE q = Current
        BY <2>1, <4>1, SampleStream
      <4>2. CASE q # Current
        BY <3>3, <4>2 DEF EmittedInv, TypeOK
      <4> QED BY <4>1, <4>2
    <3> QED BY <3>2, <3>4 DEF EmittedInv
  <2>2. CASE SeeCancel \/ SampleEOS
    <3>1. PICK why \in {"cancel", "stop"} : EndRow(why)
      BY <2>2 DEF SeeCancel, SampleEOS
    <3>2. UNCHANGED <<streaming, emitted>> /\ Current \in Requests
      BY <3>1 DEF EndRow, AtRow, Current, TypeOK
    <3>3. \A q \in Requests : q # Current => seq'[q] = seq[q]
      BY <3>1 DEF EndRow, TypeOK
    <3>4. /\ seq'[Current].text = seq[Current].text /\ seq'[Current].cut = seq[Current].cut
          /\ seq'[Current].reason # ""
      BY <3>1, <3>2 DEF EndRow, TypeOK, SeqStates
    <3>5. ASSUME NEW q \in streaming
          PROVE  Shown(emitted'[q], seq'[q], q)
      <4>1. CASE q = Current
        BY <3>2, <3>4, <4>1 DEF EmittedInv, Shown
      <4>2. CASE q # Current
        BY <3>2, <3>3, <4>2 DEF EmittedInv, TypeOK
      <4> QED BY <4>1, <4>2
    <3> QED BY <3>2, <3>5 DEF EmittedInv
  <2>3. CASE \/ CollectFirst \/ Drain \/ Prefill \/ PrefillFail \/ SkipRow
             \/ Decode \/ DecodeFail \/ BatchDone \/ DeliverAll
    <3>1. UNCHANGED <<streaming, emitted, seq>>
      BY <2>3 DEF CollectFirst, Drain, Prefill, PrefillFrom, PrefillFail, PrefillFailTelling,
         SkipRow, Decode, DecodeFail, BatchDone, EndSteps, DeliverAll, DeliverFailing
    <3> QED BY <3>1 DEF EmittedInv
  <2> QED BY <1>2, <2>1, <2>2, <2>3 DEF DeviceStep
<1>3. ASSUME UNCHANGED <<streaming, emitted, seq>>
      PROVE  EmittedInv'
  BY <1>3 DEF EmittedInv
<1> QED BY <1>1, <1>2, <1>3, StepCases
        DEF ReceiveDelta, EmitAbandoned, EmitReturn, vars, runnerVars, deviceVars

\* The handler takes the deltas in order, and none after one was dropped: once
\* the context has ended no token is sampled for the request.
LEMMA ReceivedStep ==
    ASSUME TypeOK, LedgerInv, FreshInv, DeviceInv, BudgetInv, EmittedInv, ReceivedInv, [Next]_vars
    PROVE  ReceivedInv'
<1>0. \A r \in Requests : Offered(r) => r \in Rows
  BY DEF Offered, DeviceInv, Current, Rows
<1>1. ASSUME NEW r \in Requests, ClientStep(r)
      PROVE  ReceivedInv'
  <2>1. UNCHANGED <<dpc, batch, row, offer, emitted, received>> /\ ctx \subseteq ctx'
    BY <1>1, ClientFrame DEF deviceVars
  <2>2. \A q \in Requests : Offered(q)' <=> Offered(q)
    BY <2>1 DEF Offered, Current
  <2>3. CASE StartStream(r)
    <3>1. streaming' = streaming \cup {r} /\ Untouched(r) /\ r \notin Rows
      BY <2>3 DEF StartStream, LedgerInv, FreshInv
    <3>2. received[r] = emitted[r] /\ TextPrefix(received[r], emitted[r])
      BY <3>1, FreshStream, PrefixSelf DEF TypeOK
    <3> QED BY <1>0, <2>1, <2>2, <3>1, <3>2 DEF ReceivedInv, TypeOK
  <2>4. CASE ~StartStream(r)
    <3>1. streaming' = streaming
      BY <1>1, <2>4 DEF ClientStep, EngineStep, Enqueue, GenerateReturns, ReceiveFinal,
         FinalAbandoned, StartPlain, HandlerStep, WriteChunk, WriteEnd, StopStream, Deregister,
         ReturnPlain, CancelRequest, CancelLeaving, Stall, Disconnect, runnerVars
    <3> QED BY <2>1, <2>2, <3>1 DEF ReceivedInv, TypeOK
  <2> QED BY <2>3, <2>4
<1>2. ASSUME DeviceStep, UNCHANGED serveVars
      PROVE  ReceivedInv'
  <2>1. CASE SampleToken
    <3>1. /\ SampleRow /\ Current \notin ctx /\ dpc = "step" /\ Current \in Requests
          /\ UNCHANGED <<streaming, ctx, batch, received>>
      BY <1>2, <2>1, RowAdvance DEF SampleToken, serveVars
    <3>2. \A q \in Requests : ~Offered(q)
      BY <3>1 DEF Offered
    <3>3. \A q \in Requests : q # Current => emitted'[q] = emitted[q]
      BY <3>1, SampleFacts DEF TypeOK
    <3>4. dpc' = "emit" => Current' = Current
      BY <2>1, <3>1, RowAdvance DEF Current
    <3>5. ASSUME NEW q \in streaming
          PROVE  /\ Offered(q)' => received[q] \o offer' = emitted'[q]
                 /\ ~Offered(q)' => TextPrefix(received[q], emitted'[q])
                 /\ ~Offered(q)' /\ q \notin ctx => received[q] = emitted'[q]
      <4>1. q \in Requests /\ TextPrefix(received[q], emitted[q])
            /\ (q \notin ctx => received[q] = emitted[q])
        BY <3>2 DEF ReceivedInv, TypeOK
      <4>2. CASE q = Current
        <5>1. /\ dpc' = "emit" => emitted'[q] = emitted[q] \o offer'
              /\ dpc' # "emit" => emitted' = emitted
          BY <2>1, <4>2, SampleStream
        <5> QED BY <3>1, <3>4, <4>1, <4>2, <5>1 DEF Offered
      <4>3. CASE q # Current
        <5>1. ~Offered(q)'
          BY <3>4, <4>3 DEF Offered
        <5> QED BY <3>3, <4>1, <4>3, <5>1
      <4> QED BY <4>2, <4>3
    <3> QED BY <3>1, <3>5 DEF ReceivedInv
  <2>2. CASE ~SampleToken
    <3>1. dpc # "emit" /\ dpc' # "emit" /\ UNCHANGED <<streaming, ctx, emitted, received>>
      BY <1>2, <2>2 DEF DeviceStep, CollectFirst, Drain, Prefill, PrefillFrom, PrefillFail,
         PrefillFailTelling, SkipRow, SeeCancel, SampleEOS, EndRow, AtRow, Decode, StepDone,
         DecodeFail, BatchDone, EndSteps, DeliverAll, DeliverFailing, serveVars
    <3> QED BY <3>1 DEF ReceivedInv, Offered
  <2> QED BY <2>1, <2>2
<1>3. ASSUME NEW r \in Requests, ReceiveDelta(r)
      PROVE  ReceivedInv'
  <2>1. /\ Offered(r) /\ UNCHANGED <<streaming, ctx, emitted>> /\ dpc' = "step"
        /\ received'[r] = received[r] \o offer
        /\ \A q \in Requests : q # r => received'[q] = received[q] /\ ~Offered(q)
    BY <1>3 DEF ReceiveDelta, EmitReturn, Offered, TypeOK
  <2>2. r \in streaming => received'[r] = emitted[r] /\ TextPrefix(emitted[r], emitted[r])
    BY <2>1, PrefixSelf DEF ReceivedInv, TypeOK
  <2> QED BY <2>1, <2>2 DEF ReceivedInv, Offered, TypeOK
<1>4. ASSUME EmitAbandoned
      PROVE  ReceivedInv'
  <2>1. /\ UNCHANGED <<streaming, ctx, emitted, received>> /\ dpc' = "step"
        /\ dpc = "emit" /\ Current \in ctx
    BY <1>4 DEF EmitAbandoned, EmitReturn, serveVars
  <2>2. ASSUME NEW q \in streaming
        PROVE  /\ TextPrefix(received[q], emitted[q])
               /\ q \notin ctx => received[q] = emitted[q]
    <3>1. CASE q = Current
      <4>1. received[q] \o offer = emitted[q] /\ received[q] \in Texts /\ offer \in Texts
        BY <2>1, <3>1 DEF ReceivedInv, Offered, TypeOK
      <4>2. TextPrefix(received[q], received[q] \o offer)
        BY <4>1, PrefixOfConcat
      <4> QED BY <2>1, <3>1, <4>1, <4>2
    <3>2. CASE q # Current
      BY <3>2 DEF ReceivedInv, Offered
    <3> QED BY <3>1, <3>2
  <2> QED BY <2>1, <2>2 DEF ReceivedInv, Offered
<1>5. ASSUME UNCHANGED vars
      PROVE  ReceivedInv'
  BY <1>5 DEF ReceivedInv, Offered, Current, vars, runnerVars, deviceVars, serveVars
<1> QED BY <1>1, <1>2, <1>3, <1>4, <1>5, StepCases

-----------------------------------------------------------------------------
(* The theorems. *)

\* The engine starts with no job, no batch and no stream.
LEMMA InitInv == Init => IInv
<1> SUFFICES ASSUME Init
             PROVE  IInv
  OBVIOUS
<1>1. TypeOK
  BY InitType
<1>2. Elements(jobs) = {} /\ Rows = {} /\ Distinct(jobs) /\ Distinct(batch)
  BY NoElements DEF Init, RunnerInit, Rows, Elements
<1>3. \A r \in Requests : /\ gpc[r] = "new" /\ result[r] = NoResult /\ hpc[r] = "new"
                          /\ Untouched(r) /\ final[r] = "" /\ seq[r] = NewSeq
  BY DEF Init, RunnerInit, Untouched
<1>4. /\ dpc = "collect" /\ batch = <<>> /\ ctx = {} /\ streaming = {}
      /\ cancels = {} /\ cancelOk = {}
  BY DEF Init, RunnerInit
<1>5. /\ NoResult.kind = "none" /\ NoResult.reason = ""
      /\ NewSeq.reason = "" /\ NewSeq.tokens = 0
  BY DEF NoResult, NewSeq
<1>6. \A r \in Requests : 0 < MaxTokens[r]
  BY RunnerAssumption
<1>7. LedgerInv /\ NoJobLost
  BY <1>2, <1>3, <1>4, <1>5 DEF LedgerInv, NoJobLost, InJobs
<1>8. FreshInv /\ DeviceInv
  BY <1>3, <1>4 DEF FreshInv, DeviceInv
<1>9. BudgetInv
  BY <1>3, <1>4, <1>5, <1>6 DEF BudgetInv, Finished
<1>10. ResultInv
  BY <1>3, <1>5 DEF ResultInv
<1>11. EmittedInv /\ ReceivedInv /\ RegistryInv
  BY <1>4 DEF EmittedInv, ReceivedInv, RegistryInv, RegistryExact
<1> QED BY <1>1, <1>7, <1>8, <1>9, <1>10, <1>11 DEF IInv

\* Every step keeps every part of the invariant.
LEMMA NextInv == IInv /\ [Next]_vars => IInv'
  BY TypeStep, LedgerStep, DeviceStepInv, FreshStep, BudgetStep, ResultStep, RegistryStep,
     EmittedStep, ReceivedStep DEF IInv

\* The inductive invariant holds in every reachable state.
THEOREM Invariant == Spec => []IInv
  BY InitInv, NextInv, PTL DEF Spec

\* Every variable keeps its type.
THEOREM TypeCorrect == Spec => []TypeOK
  BY Invariant, PTL DEF IInv

\* No path of collect and run loses the job of a caller that waits.
THEOREM JobsKept == Spec => []NoJobLost
  BY Invariant, PTL DEF IInv

\* "length" means the budget of that request was used up, whatever the budgets
\* of its neighbours in the batch.
THEOREM LengthIsHonest == Spec => []LengthHonest
<1>1. IInv => LengthHonest
  BY DEF IInv, LengthHonest, ResultInv, BudgetInv
<1> QED BY <1>1, Invariant, PTL

\* A device error reaches only sequences that had not ended.
THEOREM ErrorsContained == Spec => []ErrorContained
<1>1. IInv => ErrorContained
  BY DEF IInv, ErrorContained, ResultInv
<1> QED BY <1>1, Invariant, PTL

\* The registry holds exactly the streams a cancel can still reach.
THEOREM RegistryIsExact == Spec => []RegistryExact
<1>1. IInv => RegistryExact
  BY DEF IInv, RegistryInv
<1> QED BY <1>1, Invariant, PTL

\* A client reads what was generated for it with no gap, and a stream that was
\* never cancelled ends complete.
THEOREM StreamsExact == Spec => []StreamExact
<1>1. IInv => StreamExact
  <2> SUFFICES ASSUME IInv, NEW r \in streaming
               PROVE  /\ TextPrefix(received[r], seq[r].text)
                      /\ final[r] # "" /\ r \notin ctx =>
                           Len(received[r]) >= Len(IF StopsAt(seq[r].text, Stops[r]) = {}
                                                   THEN seq[r].text ELSE seq[r].cut)
    BY DEF StreamExact
  <2>1. /\ r \in Requests /\ received[r] \in Texts /\ emitted[r] \in Texts /\ offer \in Texts
        /\ seq[r].text \in Texts
    BY DEF IInv, TypeOK, SeqStates
  <2>2. Shown(emitted[r], seq[r], r)
    BY DEF IInv, EmittedInv
  <2>3. TextPrefix(received[r], emitted[r])
    <3>1. CASE Offered(r)
      BY <2>1, <3>1, PrefixOfConcat DEF IInv, ReceivedInv
    <3>2. CASE ~Offered(r)
      BY <3>2 DEF IInv, ReceivedInv
    <3> QED BY <3>1, <3>2
  <2>4. TextPrefix(received[r], seq[r].text)
    BY <2>1, <2>2, <2>3, PrefixTransitive DEF Shown
  <2>5. ASSUME final[r] # "", r \notin ctx
        PROVE  received[r] = emitted[r]
    <3>1. result[r].kind = "ok"
      BY <2>1, <2>5 DEF IInv, ResultInv
    <3>2. r \notin Rows
      BY <2>1, <3>1 DEF IInv, LedgerInv
    <3>3. ~Offered(r)
      BY <3>2 DEF IInv, DeviceInv, Offered, Current, Rows
    <3> QED BY <2>5, <3>3 DEF IInv, ReceivedInv
  <2> QED BY <2>2, <2>4, <2>5 DEF Shown
<1> QED BY <1>1, Invariant, PTL

-----------------------------------------------------------------------------
(* Batching is invisible: each request sees the single-stream generator. *)

\* State s of a sequence with stop strings stops knows what a stop trimmed, and
\* goes on only while its text has no stop string.
TrimKnown(s, stops) ==
    /\ s.cut = IF StopsAt(s.text, stops) = {} THEN <<>> ELSE CutAt(s.text, stops)
    /\ s.reason = "" => StopsAt(s.text, stops) = {}

\* What the mapping needs beyond IInv.
SoloInv ==
    \A r \in Requests :
        /\ result[r].kind = "none" => result[r] = NoResult
        /\ TrimKnown(seq[r], Stops[r])

\* One more token keeps a sequence's trimmed text known.
LEMMA ExtendTrim ==
    ASSUME NEW s, NEW r, NEW p, s.reason = "", TrimKnown(s, Stops[r])
    PROVE  TrimKnown(Extend(s, r, p), Stops[r])
<1> PICK full : full = s.text \o p
  OBVIOUS
<1>1. CASE StopsAt(full, Stops[r]) # {}
  BY <1>1 DEF Extend, TrimKnown
<1>2. CASE StopsAt(full, Stops[r]) = {}
  BY <1>2 DEF Extend, TrimKnown
<1> QED BY <1>1, <1>2

\* Nothing is answered or trimmed at first.
LEMMA SoloInvInit == Init => SoloInv
<1> SUFFICES ASSUME Init, NEW r \in Requests
             PROVE  result[r] = NoResult /\ TrimKnown(seq[r], Stops[r])
  BY DEF SoloInv
<1>1. result[r] = NoResult /\ seq[r] = NewSeq
  BY DEF Init, RunnerInit
<1>2. StopsAt(<<>>, Stops[r]) = {}
  BY DEF StopsAt
<1>3. NewSeq.text = <<>> /\ NewSeq.cut = <<>>
  BY DEF NewSeq
<1> QED BY <1>1, <1>2, <1>3 DEF TrimKnown

\* A step answers with an error or a result, and trims as hitStopString does.
LEMMA SoloInvNext == TypeOK /\ SoloInv /\ [Next]_vars => SoloInv'
<1> SUFFICES ASSUME TypeOK, SoloInv, [Next]_vars
             PROVE  SoloInv'
  OBVIOUS
<1>1. ASSUME UNCHANGED <<seq, result>>
      PROVE  SoloInv'
  BY <1>1 DEF SoloInv
<1>2. ASSUME NEW r \in Requests, ClientStep(r)
      PROVE  UNCHANGED <<seq, result>>
  BY <1>2, ClientFrame DEF deviceVars
<1>3. ASSUME DeviceStep
      PROVE  SoloInv'
  <2>1. CASE PrefillFail \/ DeliverAll
    <3>1. /\ UNCHANGED seq
          /\ \A r \in Requests : \/ result'[r] = result[r]
                                 \/ result'[r] = ErrResult
                                 \/ result'[r] = Deliver(r)
      BY <2>1 DEF PrefillFail, PrefillFailTelling, DeliverAll, DeliverFailing
    <3>2. ErrResult.kind # "none" /\ \A r \in Requests : Deliver(r).kind # "none"
      BY DEF ErrResult, Deliver, OkResult
    <3>3. ASSUME NEW r \in Requests, result'[r].kind = "none"
          PROVE  result'[r] = NoResult
      BY <3>1, <3>2, <3>3 DEF SoloInv
    <3> QED BY <3>1, <3>3 DEF SoloInv
  <2>2. CASE SeeCancel \/ SampleEOS
    <3>1. PICK why \in {"cancel", "stop"} : EndRow(why)
      BY <2>2 DEF SeeCancel, SampleEOS
    <3>2. /\ UNCHANGED result
          /\ \A q \in Requests : /\ seq'[q].text = seq[q].text
                                 /\ seq'[q].cut = seq[q].cut
                                 /\ seq'[q].reason = "" => seq[q].reason = ""
      <4>1. seq' = [seq EXCEPT ![Current].reason = why] /\ UNCHANGED result
        BY <3>1 DEF EndRow
      <4>2. why # "" /\ seq \in [Requests -> SeqStates]
        BY DEF TypeOK
      <4> QED BY <4>1, <4>2 DEF SeqStates
    <3> QED BY <3>2 DEF SoloInv, TrimKnown
  <2>3. CASE SampleToken
    <3>1. SampleRow
      BY <2>3 DEF SampleToken
    <3>2. PICK p : /\ Current \in Requests
                   /\ seq' = [seq EXCEPT ![Current] = Extend(seq[Current], Current, p)]
      BY <3>1, SampleFacts
    <3>3. UNCHANGED result /\ seq[Current].reason = ""
      BY <3>1 DEF SampleRow, Finished
    <3>4. TrimKnown(Extend(seq[Current], Current, p), Stops[Current])
      BY <3>2, <3>3, ExtendTrim DEF SoloInv
    <3>5. ASSUME NEW q \in Requests
          PROVE  TrimKnown(seq'[q], Stops[q])
      <4>1. CASE q = Current
        <5>1. seq'[q] = Extend(seq[Current], Current, p)
          BY <3>2, <4>1 DEF TypeOK
        <5> QED BY <3>4, <4>1, <5>1
      <4>2. CASE q # Current
        <5>1. seq'[q] = seq[q]
          BY <3>2, <4>2 DEF TypeOK
        <5> QED BY <5>1 DEF SoloInv
      <4> QED BY <4>1, <4>2
    <3> QED BY <3>3, <3>5 DEF SoloInv
  <2>4. CASE CollectFirst \/ Drain \/ Prefill \/ SkipRow \/ Decode \/ DecodeFail \/ BatchDone
    BY <1>1, <2>4 DEF CollectFirst, Drain, Prefill, PrefillFrom, SkipRow, Decode, DecodeFail,
       BatchDone, EndSteps
  <2> QED BY <1>3, <2>1, <2>2, <2>3, <2>4 DEF DeviceStep
<1> QED BY <1>1, <1>2, <1>3, StepCases
        DEF ReceiveDelta, EmitAbandoned, EmitReturn, vars, runnerVars, deviceVars

-----------------------------------------------------------------------------
(* The actions of the generator, under the refinement mapping. *)

\* Nothing of the request changes.
LEMMA SoloStutter ==
    ASSUME NEW r \in Requests,
           gpc'[r] = "new" <=> gpc[r] = "new",
           r \in streaming' <=> r \in streaming,
           r \in ctx' <=> r \in ctx,
           UNCHANGED <<seq[r], emitted[r], result[r]>>
    PROVE  UNCHANGED Solo(r)!vars
  BY DEF Solo!vars, SoloResult, OkResult

\* The request enters Generate.
LEMMA SoloCall ==
    ASSUME NEW r \in Requests, gpc[r] = "new", gpc'[r] # "new",
           r \in ctx' <=> r \in ctx,
           UNCHANGED <<seq[r], emitted[r], result[r]>>
    PROVE  Solo(r)!Call
  BY DEF Solo!Call, SoloResult, OkResult

\* Its context ends.
LEMMA SoloLeave ==
    ASSUME NEW r \in Requests,
           gpc'[r] = "new" <=> gpc[r] = "new",
           r \in streaming' <=> r \in streaming,
           r \in ctx',
           UNCHANGED <<seq[r], emitted[r], result[r]>>
    PROVE  Solo(r)!Leave
  BY DEF Solo!Leave, SoloResult, OkResult

\* A row that is stepped is at the head of the generator's loop.
LEMMA SoloLooping ==
    ASSUME IInv, SoloInv, NEW r \in Rows, ~Finished(r)
    PROVE  r \in Requests /\ gpc[r] # "new" /\ result[r].kind = "none" /\ Solo(r)!Looping
<1>1. r \in Requests /\ gpc[r] = "await" /\ result[r].kind = "none"
  BY DEF IInv, TypeOK, LedgerInv, Rows
<1>2. result[r] = NoResult /\ SoloResult(r) = NoResult
  BY <1>1 DEF SoloInv, SoloResult, NoResult
<1> QED BY <1>1, <1>2 DEF Solo!Looping, Solo!NoResult, NoResult, Finished

\* A sequence is told of the end of its context, or samples an end token.
LEMMA SoloEnds ==
    ASSUME IInv, SoloInv, SeeCancel \/ SampleEOS, NEW r \in Requests
    PROVE  [Solo(r)!Next]_(Solo(r)!vars)
<1>1. PICK why \in {"cancel", "stop"} :
        EndRow(why) /\ (Current \in ctx <=> why = "cancel")
  BY DEF SeeCancel, SampleEOS
<1>2. Current \in Rows /\ ~Finished(Current)
  BY <1>1 DEF EndRow, AtRow, Current, Rows
<1>3. /\ UNCHANGED <<gpc, ctx, streaming, emitted, result>>
      /\ seq' = [seq EXCEPT ![Current].reason = why]
  BY <1>1 DEF EndRow
<1>4. CASE r # Current
  <2>1. seq'[r] = seq[r]
    BY <1>3, <1>4 DEF IInv, TypeOK
  <2> QED BY <1>3, <2>1, SoloStutter
<1>5. CASE r = Current
  <2>1. Solo(r)!Looping /\ result[r].kind = "none"
    BY <1>2, <1>5, SoloLooping
  <2>2. /\ seq'[r].text = seq[r].text /\ seq'[r].tokens = seq[r].tokens
        /\ seq'[r].reason = why
    BY <1>3, <1>5 DEF IInv, TypeOK, SeqStates
  <2>3. SoloResult(r)' = SoloResult(r)
    BY <1>3, <2>1 DEF SoloResult
  <2>4. Solo(r)!SeeCancel \/ Solo(r)!SampleEOS
    BY <1>1, <1>3, <1>5, <2>1, <2>2, <2>3 DEF Solo!SeeCancel, Solo!SampleEOS
  <2> QED BY <2>4 DEF Solo!Next
<1> QED BY <1>4, <1>5

\* Both modules trim at stop strings alike.
LEMMA SoloStops ==
    ASSUME NEW r \in Requests
    PROVE  \A t, stops : /\ Solo(r)!StopsAt(t, stops) = StopsAt(t, stops)
                         /\ Solo(r)!CutAt(t, stops) = CutAt(t, stops)
<1>1. \A t, stops : Solo(r)!StopsAt(t, stops) = StopsAt(t, stops)
  BY DEF Solo!StopsAt, StopsAt
<1> QED BY <1>1 DEF Solo!CutAt, CutAt, Solo!Min, Min

\* The sequence s of r has become t with piece p, and d is the delta.
Grown(r, s, p, t, d) ==
    /\ t.text = s.text \o p
    /\ t.tokens = s.tokens + 1
    /\ \/ /\ StopsAt(t.text, Stops[r]) # {}
          /\ t.reason = "stop"
          /\ d = SubSeq(CutAt(t.text, Stops[r]), s.prev + 1, Len(CutAt(t.text, Stops[r])))
       \/ /\ StopsAt(t.text, Stops[r]) = {}
          /\ t.reason = IF t.tokens < MaxTokens[r] THEN "" ELSE "length"
          /\ d = SubSeq(t.text, s.prev + 1, Len(t.text))

\* What OnToken gains from one more token, as the generator says it.
LEMMA ExtendGrown ==
    ASSUME NEW s \in SeqStates, NEW r \in Requests, NEW p \in Pieces[r]
    PROVE  Grown(r, s, p, Extend(s, r, p), Delta(s, Extend(s, r, p)))
<1> PICK t : t = Extend(s, r, p)
  OBVIOUS
<1> PICK full : full = s.text \o p
  OBVIOUS
<1>1. t.text = full /\ t.tokens = s.tokens + 1
  BY DEF Extend
<1> SUFFICES Grown(r, s, p, t, Delta(s, t))
  OBVIOUS
<1> USE DEF Grown
<1>2. CASE StopsAt(full, Stops[r]) # {}
  <2>1. t.reason = "stop" /\ t.cut = CutAt(full, Stops[r])
    BY <1>2 DEF Extend
  <2>2. Delta(s, t) = SubSeq(t.cut, s.prev + 1, Len(t.cut))
    BY <2>1 DEF Delta
  <2> QED BY <1>1, <1>2, <2>1, <2>2
<1>3. CASE StopsAt(full, Stops[r]) = {}
  <2>1. t.reason = IF s.tokens + 1 >= MaxTokens[r] THEN "length" ELSE ""
    BY <1>3 DEF Extend
  <2> PICK n \in Nat, m \in Nat : n = t.tokens /\ m = MaxTokens[r]
    BY <1>1, RunnerAssumption DEF SeqStates
  <2>2. n >= m <=> ~ (n < m)
    OBVIOUS
  <2>3. t.reason = IF t.tokens < MaxTokens[r] THEN "" ELSE "length"
    BY <1>1, <2>1, <2>2
  <2>4. Delta(s, t) = SubSeq(t.text, s.prev + 1, Len(t.text))
    BY <2>1 DEF Delta
  <2> QED BY <1>1, <1>3, <2>3, <2>4
<1> QED BY <1>2, <1>3

\* There is a delta exactly when the visible text has grown.
LEMMA DeltaEmpty ==
    ASSUME NEW v \in Texts, NEW n \in Nat
    PROVE  SubSeq(v, n + 1, Len(v)) # <<>> <=> Len(v) > n
<1>1. Len(v) \in Nat /\ v \in Seq(Symbols)
  BY LenProperties DEF Texts
<1>2. CASE Len(v) > n
  <2>1. Len(SubSeq(v, n + 1, Len(v))) = Len(v) - n
    BY <1>1, <1>2
  <2>2. Len(SubSeq(v, n + 1, Len(v))) # 0
    BY <1>1, <1>2, <2>1
  <2> QED BY <1>2, <2>2, EmptySeq
<1>3. CASE ~ (Len(v) > n)
  <2>1. Len(v) < n + 1 /\ n + 1 \in Int /\ Len(v) \in Int
    BY <1>1, <1>3
  <2> QED BY <1>3, <2>1, SubSeqEmpty
<1> QED BY <1>2, <1>3

\* A sampled token.
LEMMA SoloSamples ==
    ASSUME IInv, SoloInv, SampleToken, NEW r \in Requests
    PROVE  [Solo(r)!Next]_(Solo(r)!vars)
<1>1. SampleRow /\ Current \in Requests /\ Current \notin ctx
  BY SampleFacts DEF SampleToken, IInv
<1>2. PICK p \in Pieces[Current], t \in SeqStates, d \in Texts :
        /\ t = Extend(seq[Current], Current, p) /\ d = Delta(seq[Current], t)
        /\ seq' = [seq EXCEPT ![Current] = t]
        /\ IF Current \in streaming /\ d # <<>>
           THEN emitted' = [emitted EXCEPT ![Current] = @ \o d]
           ELSE UNCHANGED emitted
  BY <1>1, SampleFacts DEF IInv
<1>3. UNCHANGED <<gpc, ctx, streaming, result>>
  BY <1>1 DEF SampleRow
<1>4. CASE r # Current
  <2>1. seq'[r] = seq[r] /\ emitted'[r] = emitted[r]
    BY <1>1, <1>2, <1>4 DEF IInv, TypeOK
  <2> QED BY <1>3, <2>1, SoloStutter
<1>5. CASE r = Current
  <2> PICK s \in SeqStates : s = seq[r]
    BY DEF IInv, TypeOK
  <2>1. r \in Rows /\ ~Finished(r)
    BY <1>1, <1>5 DEF SampleRow, AtRow, Current, Rows
  <2>2. Solo(r)!Looping /\ result[r].kind = "none"
    BY <2>1, SoloLooping
  <2>3. SoloResult(r)' = SoloResult(r)
    BY <1>3, <2>2 DEF SoloResult
  <2>4. s.reason = "" /\ TrimKnown(s, Stops[r]) /\ s.tokens < MaxTokens[r]
    BY <2>1 DEF Finished, SoloInv, IInv, BudgetInv
  <2>5. seq'[r] = t /\ p \in Pieces[r] /\ t = Extend(s, r, p) /\ d = Delta(s, t)
    BY <1>2, <1>5 DEF IInv, TypeOK
  <2>6. r \in streaming => s.prev = Len(s.text)
    BY <2>4 DEF IInv, EmittedInv, Shown
  <2>7. emitted'[r] = IF r \in streaming /\ d # <<>> THEN emitted[r] \o d ELSE emitted[r]
    BY <1>2, <1>5 DEF IInv, TypeOK
  <2>8. Grown(r, s, p, t, d)
    BY <2>5, ExtendGrown
  <2>9. t.text \in Texts /\ s.text \in Texts /\ Len(s.text) \in Nat
    BY LenProperties DEF SeqStates, Texts
  <2>10. ASSUME NEW v \in Texts, d = SubSeq(v, s.prev + 1, Len(v))
         PROVE  emitted'[r] = IF r \in streaming /\ Len(v) > Len(s.text)
                              THEN emitted[r] \o SubSeq(v, Len(s.text) + 1, Len(v))
                              ELSE emitted[r]
    <3>1. CASE r \in streaming
      <4>1. d = SubSeq(v, Len(s.text) + 1, Len(v))
        BY <2>6, <2>10, <3>1
      <4>2. d # <<>> <=> Len(v) > Len(s.text)
        BY <2>9, <4>1, DeltaEmpty
      <4> QED BY <2>7, <3>1, <4>1, <4>2
    <3>2. CASE r \notin streaming
      BY <2>7, <3>2
    <3> QED BY <3>1, <3>2
  <2>11. /\ Solo(r)!Looping /\ r \notin ctx /\ p \in Pieces[r]
         /\ seq'[r].text = seq[r].text \o p /\ seq'[r].tokens = seq[r].tokens + 1
         /\ UNCHANGED <<gpc, ctx, streaming, SoloResult(r)>>
    BY <1>1, <1>3, <1>5, <2>2, <2>3, <2>5, <2>8 DEF Grown
  <2>12. Solo(r)!SampleToken
    <3>1. CASE StopsAt(t.text, Stops[r]) # {}
      <4>1. CutAt(t.text, Stops[r]) \in Texts
        BY <2>9, <3>1, CutIsPrefix
      <4>2. emitted'[r] = IF r \in streaming /\ Len(CutAt(t.text, Stops[r])) > Len(s.text)
                          THEN emitted[r] \o SubSeq(CutAt(t.text, Stops[r]), Len(s.text) + 1,
                                                    Len(CutAt(t.text, Stops[r])))
                          ELSE emitted[r]
        BY <2>8, <2>10, <3>1, <4>1 DEF Grown
      <4>3. Solo(r)!OnToken(Solo(r)!CutAt(seq'[r].text, Stops[r]))
        BY <2>5, <4>2, SoloStops DEF Solo!OnToken
      <4>4. Solo(r)!StopsAt(seq'[r].text, Stops[r]) # {} /\ seq'[r].reason = "stop"
        <5>1. t.reason = "stop"
          BY <2>8, <3>1 DEF Grown
        <5>2. Solo(r)!StopsAt(t.text, Stops[r]) = StopsAt(t.text, Stops[r])
          BY SoloStops
        <5> QED BY <2>5, <3>1, <5>1, <5>2
      <4> QED BY <2>11, <4>3, <4>4 DEF Solo!SampleToken
    <3>2. CASE StopsAt(t.text, Stops[r]) = {}
      <4>1. emitted'[r] = IF r \in streaming /\ Len(t.text) > Len(s.text)
                          THEN emitted[r] \o SubSeq(t.text, Len(s.text) + 1, Len(t.text))
                          ELSE emitted[r]
        BY <2>8, <2>9, <2>10, <3>2 DEF Grown
      <4>2. Solo(r)!OnToken(seq'[r].text)
        BY <2>5, <4>1 DEF Solo!OnToken
      <4>3. /\ Solo(r)!StopsAt(seq'[r].text, Stops[r]) = {}
            /\ seq'[r].reason = IF seq'[r].tokens < MaxTokens[r] THEN "" ELSE "length"
        <5>1. t.reason = IF t.tokens < MaxTokens[r] THEN "" ELSE "length"
          BY <2>8, <3>2 DEF Grown
        <5>2. Solo(r)!StopsAt(t.text, Stops[r]) = StopsAt(t.text, Stops[r])
          BY SoloStops
        <5>3. seq'[r] = t
          BY <2>5
        <5>4. seq'[r].reason = IF seq'[r].tokens < MaxTokens[r] THEN "" ELSE "length"
          BY Zenon, <5>1, <5>3
        <5>5. Solo(r)!StopsAt(seq'[r].text, Stops[r]) = {}
          BY Zenon, <3>2, <5>2, <5>3
        <5> QED BY Zenon, <5>4, <5>5
      <4> QED BY <2>11, <4>2, <4>3 DEF Solo!SampleToken
    <3> QED BY <3>1, <3>2
  <2> QED BY <2>12 DEF Solo!Next
<1> QED BY <1>4, <1>5

\* A request whose forward pass fails, alone or with its batch.
LEMMA SoloFails ==
    ASSUME IInv, SoloInv, NEW r \in Rows, ~Finished(r), result'[r] = ErrResult,
           UNCHANGED <<gpc, ctx, streaming, seq, emitted>>
    PROVE  Solo(r)!Fail
<1>1. Solo(r)!Looping
  BY SoloLooping
<1>2. SoloResult(r)' = ErrResult
  <2>1. ErrResult.kind # "ok"
    BY DEF ErrResult
  <2> QED BY <2>1 DEF SoloResult
<1> QED BY <1>1, <1>2 DEF Solo!Fail, Solo!ErrResult, ErrResult

\* A request that is answered: deliver gives its result, but for an empty one.
LEMMA SoloReturns ==
    ASSUME IInv, SoloInv, NEW r \in Rows, Finished(r), result'[r] = Deliver(r),
           UNCHANGED <<gpc, ctx, streaming, seq, emitted>>
    PROVE  Solo(r)!Return
<1>1. r \in Requests /\ gpc[r] = "await" /\ result[r].kind = "none"
  BY DEF IInv, TypeOK, LedgerInv, Rows
<1>2. SoloResult(r) = NoResult
  BY <1>1 DEF SoloInv, SoloResult
<1> DEFINE cut == IF StopsAt(seq[r].text, Stops[r]) = {} THEN seq[r].text
                  ELSE CutAt(seq[r].text, Stops[r])
<1>3. SoloResult(r)' = OkResult(cut, seq[r].reason)
  <2>1. Deliver(r).kind = "ok" /\ Deliver(r).reason = seq[r].reason
    BY DEF Deliver, OkResult, Finished
  <2>2. CASE StopsAt(seq[r].text, Stops[r]) = {}
    BY <1>1, <2>2 DEF SoloResult, SoloInv, TrimKnown, Deliver, Finished
  <2>3. CASE StopsAt(seq[r].text, Stops[r]) # {} /\ seq[r].cut = <<>>
    BY <1>1, <2>1, <2>3 DEF SoloResult, SoloInv, TrimKnown
  <2>4. CASE StopsAt(seq[r].text, Stops[r]) # {} /\ seq[r].cut # <<>>
    BY <1>1, <2>4 DEF SoloResult, SoloInv, TrimKnown, Deliver, Finished
  <2> QED BY <2>2, <2>3, <2>4
<1>4. SoloResult(r)' = [kind |-> "ok", text |-> cut, reason |-> seq[r].reason]
  BY <1>3 DEF OkResult
<1> HIDE DEF cut
<1>5. cut = IF Solo(r)!StopsAt(seq[r].text, Stops[r]) = {} THEN seq[r].text
            ELSE Solo(r)!CutAt(seq[r].text, Stops[r])
  BY <1>1, SoloStops DEF cut
<1>6. SoloResult(r) = Solo(r)!NoResult
  BY <1>2 DEF Solo!NoResult, NoResult
<1> QED BY <1>1, <1>4, <1>5, <1>6 DEF Solo!Return, Finished

\* A step of a client or of a handler is a call, the end of a context, or
\* nothing to the generator of any request.
LEMMA SoloClient ==
    ASSUME IInv, NEW q \in Requests, ClientStep(q), NEW r \in Requests
    PROVE  [Solo(r)!Next]_(Solo(r)!vars)
<1>1. UNCHANGED <<seq[r], emitted[r], result[r]>>
  BY ClientFrame DEF deviceVars
<1>2. ASSUME gpc'[r] = "new" <=> gpc[r] = "new",
             r \in streaming' <=> r \in streaming,
             r \in ctx' <=> r \in ctx
      PROVE  UNCHANGED Solo(r)!vars
  BY <1>1, <1>2, SoloStutter
<1>3. CASE StartStream(q) \/ StartPlain(q)
  <2>1. gpc[q] = "new" /\ gpc' = [gpc EXCEPT ![q] = "enqueue"] /\ UNCHANGED ctx
    BY <1>3 DEF StartStream, StartPlain, IInv, LedgerInv
  <2>2. CASE r = q
    <3>1. Solo(r)!Call
      BY <1>1, <2>1, <2>2, SoloCall DEF IInv, TypeOK
    <3> QED BY <3>1 DEF Solo!Next
  <2>3. CASE r # q
    <3>1. r \in streaming' <=> r \in streaming
      BY <1>3, <2>3 DEF StartStream, StartPlain
    <3> QED BY <1>2, <2>1, <2>3, <3>1 DEF IInv, TypeOK
  <2> QED BY <2>2, <2>3
<1>4. CASE EngineStep(q)
  <2>1. /\ gpc' \in [Requests -> {"new", "enqueue", "await", "final", "closed"}]
        /\ gpc[q] # "new" /\ gpc'[q] # "new" /\ \A z \in Requests : z # q => gpc'[z] = gpc[z]
    BY <1>4 DEF EngineStep, Enqueue, GenerateReturns, ReceiveFinal, FinalAbandoned, IInv, TypeOK
  <2>2. UNCHANGED <<ctx, streaming>>
    BY <1>4 DEF EngineStep, Enqueue, GenerateReturns, ReceiveFinal, FinalAbandoned
  <2> QED BY <1>2, <2>1, <2>2
<1>5. CASE WriteChunk(q) \/ WriteEnd(q)
  BY <1>2, <1>5 DEF WriteChunk, WriteEnd, runnerVars
<1>6. CASE ReturnPlain(q)
  <2>1. gpc[q] # "new"
    BY <1>6 DEF ReturnPlain, IInv, LedgerInv
  <2> QED BY <1>2, <1>6, <2>1 DEF ReturnPlain, IInv, TypeOK
<1>7. CASE StopStream(q) \/ CancelRequest(q) \/ Disconnect(q)
  <2>1. ctx' = ctx \cup {q} /\ UNCHANGED <<gpc, streaming>>
    BY <1>7 DEF StopStream, Deregister, CancelRequest, CancelLeaving, Disconnect
  <2>2. CASE r = q
    <3>1. Solo(r)!Leave
      BY <1>1, <2>1, <2>2, SoloLeave
    <3> QED BY <3>1 DEF Solo!Next
  <2>3. CASE r # q
    BY <1>2, <2>1, <2>3
  <2> QED BY <2>2, <2>3
<1>8. CASE Stall(q)
  BY <1>2, <1>8 DEF Stall, runnerVars
<1> QED BY <1>3, <1>4, <1>5, <1>6, <1>7, <1>8 DEF ClientStep, HandlerStep

\* The batch is answered: each of its requests fails or returns.
LEMMA SoloAnswers ==
    ASSUME IInv, SoloInv, PrefillFail \/ DeliverAll, NEW r \in Requests
    PROVE  [Solo(r)!Next]_(Solo(r)!vars)
<1>1. UNCHANGED <<gpc, ctx, streaming, seq, emitted>>
  BY DEF PrefillFail, PrefillFailTelling, DeliverAll, DeliverFailing
<1>2. \/ r \notin Rows /\ result'[r] = result[r]
      \/ r \in Rows /\ ~Finished(r) /\ result'[r] = ErrResult
      \/ r \in Rows /\ Finished(r) /\ result'[r] = Deliver(r)
  <2>1. CASE PrefillFail
    <3>1. r \in Rows => ~Finished(r)
      <4>1. NewSeq.reason = "" /\ dpc = "drain"
        BY <2>1 DEF PrefillFail, PrefillFailTelling, NewSeq
      <4> QED BY <4>1 DEF IInv, FreshInv, Untouched, Finished
    <3> QED BY <2>1, <3>1 DEF PrefillFail, PrefillFailTelling
  <2>2. CASE DeliverAll
    <3>1. dpc = "deliver"
      BY <2>2 DEF DeliverAll, DeliverFailing
    <3>2. devErr \/ \A z \in Rows : Finished(z)
      BY <3>1 DEF IInv, BudgetInv
    <3> QED BY <2>2, <3>2 DEF DeliverAll, DeliverFailing
  <2> QED BY <2>1, <2>2
<1>3. CASE r \notin Rows /\ result'[r] = result[r]
  BY <1>1, <1>3, SoloStutter
<1>4. CASE r \in Rows /\ ~Finished(r) /\ result'[r] = ErrResult
  <2>1. Solo(r)!Fail
    BY <1>1, <1>4, SoloFails
  <2> QED BY <2>1 DEF Solo!Next
<1>5. CASE r \in Rows /\ Finished(r) /\ result'[r] = Deliver(r)
  <2>1. Solo(r)!Return
    BY <1>1, <1>5, SoloReturns
  <2> QED BY <2>1 DEF Solo!Next
<1> QED BY <1>2, <1>3, <1>4, <1>5

\* Every step of the server is, for each request, a step of its own generator or
\* none.
LEMMA SoloStep ==
    ASSUME IInv, SoloInv, [Next]_vars, NEW r \in Requests
    PROVE  [Solo(r)!Next]_(Solo(r)!vars)
<1>1. ASSUME UNCHANGED <<gpc, ctx, streaming, seq, emitted, result>>
      PROVE  UNCHANGED Solo(r)!vars
  BY <1>1, SoloStutter
<1>2. ASSUME DeviceStep
      PROVE  [Solo(r)!Next]_(Solo(r)!vars)
  <2>1. CASE CollectFirst \/ Drain \/ Prefill \/ SkipRow \/ Decode \/ DecodeFail \/ BatchDone
    BY <1>1, <2>1 DEF CollectFirst, Drain, Prefill, PrefillFrom, SkipRow, Decode, DecodeFail,
       BatchDone, EndSteps
  <2> QED BY <1>2, <2>1, SoloEnds, SoloSamples, SoloAnswers DEF DeviceStep
<1>3. ASSUME EmitReturn \/ UNCHANGED vars
      PROVE  UNCHANGED Solo(r)!vars
  BY <1>1, <1>3 DEF EmitReturn, vars, runnerVars, deviceVars
<1>4. CASE (\E q \in Requests : ReceiveDelta(q)) \/ EmitAbandoned \/ UNCHANGED vars
  BY <1>3, <1>4 DEF ReceiveDelta, EmitAbandoned
<1>5. CASE \E q \in Requests : ClientStep(q)
  BY <1>5, SoloClient
<1> QED BY <1>2, <1>4, <1>5, StepCases

\* Batching is invisible: whatever shares its batch, every request is generated,
\* streamed, cancelled, failed and answered by the rules of Generator.Generate.
THEOREM Refinement == Spec => ImplementsGenerator
<1>1. ASSUME Init, NEW r \in Requests
      PROVE  Solo(r)!Init
  <2>1. /\ gpc[r] = "new" /\ r \notin streaming /\ r \notin ctx
        /\ seq[r] = NewSeq /\ emitted[r] = <<>> /\ result[r] = NoResult
    BY <1>1 DEF Init, RunnerInit
  <2>2. NoResult.kind = "none" /\ NoResult = Solo(r)!NoResult
    BY DEF NoResult, Solo!NoResult
  <2>3. SoloResult(r) = Solo(r)!NoResult
    BY <2>1, <2>2 DEF SoloResult
  <2>4. NewSeq.text = <<>> /\ NewSeq.tokens = 0 /\ NewSeq.reason = ""
    BY DEF NewSeq
  <2>5. (gpc[r] # "new") = FALSE /\ (r \in streaming) = FALSE /\ (r \in ctx) = FALSE
    BY <2>1
  <2>6. seq[r].text = <<>> /\ seq[r].tokens = 0 /\ seq[r].reason = "" /\ emitted[r] = <<>>
    BY <2>1, <2>4
  <2> QED BY Zenon, <2>3, <2>5, <2>6 DEF Solo!Init
<1>2. Init => \A r \in Requests : Solo(r)!Init
  BY <1>1
<1>3. Init => SoloInv
  BY SoloInvInit
<1>4. IInv /\ SoloInv /\ [Next]_vars => SoloInv'
  BY SoloInvNext DEF IInv
<1>5. IInv /\ SoloInv /\ [Next]_vars
        => [\A r \in Requests : [Solo(r)!Next]_(Solo(r)!vars)]_vars
  BY SoloStep
<1> QED BY <1>2, <1>3, <1>4, <1>5, Invariant, PTL DEF Spec, ImplementsGenerator

\* Taken by itself, each request is a behaviour of its own generator.
THEOREM EachAlone == ASSUME NEW q \in Requests PROVE Spec => Solo(q)!Spec
<1>1. (\A r \in Requests : Solo(r)!Init) => Solo(q)!Init
  OBVIOUS
<1>2. UNCHANGED vars => UNCHANGED Solo(q)!vars
  BY SoloStutter DEF vars, runnerVars, deviceVars
<1>3. [\A r \in Requests : [Solo(r)!Next]_(Solo(r)!vars)]_vars => [Solo(q)!Next]_(Solo(q)!vars)
  BY <1>2
<1>4. ImplementsGenerator => Solo(q)!Init
  BY <1>1, PTL DEF ImplementsGenerator
<1>5. ImplementsGenerator => [][Solo(q)!Next]_(Solo(q)!vars)
  BY <1>3, PTL DEF ImplementsGenerator
<1>6. Spec => Solo(q)!Init /\ [][Solo(q)!Next]_(Solo(q)!vars)
  BY <1>4, <1>5, Refinement, PTL
<1> QED BY <1>6, PTL DEF Solo!Spec
=============================================================================
