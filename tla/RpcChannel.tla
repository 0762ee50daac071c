----------------------------- MODULE RpcChannel ------------------------------
(***************************************************************************)
(* What src/mcp/conn.go promises its callers, without ids, channels, locks  *)
(* or goroutines: every call is opened at most once, only while the channel *)
(* is up, and ends exactly once, with an answer the server gave to that     *)
(* very call or with a failure.  The call opened first is the exception: it *)
(* may also end with an answer the server addressed to no call.             *)
(***************************************************************************)
CONSTANTS Calls, AnswerKinds
VARIABLES
    call,     \* state of each call
    answers,  \* <<c, k>>: the server has answered call c with k
    first,    \* the call that was opened first, once there is one
    unaddressed, \* the answers the server gave to no call
    up        \* calls are accepted

chanVars == <<call, answers, first, unaddressed, up>>

Init == /\ call = [c \in Calls |-> "new"]
        /\ answers = {}
        /\ first = {}
        /\ unaddressed = {}
        /\ up = TRUE

Open(c) == /\ up
           /\ call[c] = "new"
           /\ call' = [call EXCEPT ![c] = "open"]
           /\ first' = IF first = {} THEN {c} ELSE first
           /\ UNCHANGED <<answers, unaddressed, up>>

Reject(c) == /\ ~up
             /\ call[c] = "new"
             /\ call' = [call EXCEPT ![c] = "failed"]
             /\ UNCHANGED <<answers, first, unaddressed, up>>

\* The server may answer an open call, and again after the call has ended.
Answer(c, k) == /\ call[c] # "new"
                /\ answers' = answers \cup {<<c, k>>}
                /\ UNCHANGED <<call, first, unaddressed, up>>

\* It may also send an answer that names no call.
AnswerNobody(k) == /\ unaddressed' = unaddressed \cup {k}
                   /\ UNCHANGED <<call, answers, first, up>>

Finish(c, k) == /\ call[c] = "open"
                /\ <<c, k>> \in answers \/ (c \in first /\ k \in unaddressed)
                /\ call' = [call EXCEPT ![c] = k]
                /\ UNCHANGED <<answers, first, unaddressed, up>>

Fail(c) == /\ call[c] = "open"
           /\ call' = [call EXCEPT ![c] = "failed"]
           /\ UNCHANGED <<answers, first, unaddressed, up>>

GoDown == /\ up
          /\ up' = FALSE
          /\ UNCHANGED <<call, answers, first, unaddressed>>

Next == \/ \E c \in Calls : Open(c) \/ Reject(c) \/ Fail(c)
        \/ \E c \in Calls, k \in AnswerKinds : Answer(c, k) \/ Finish(c, k)
        \/ \E k \in AnswerKinds : AnswerNobody(k)
        \/ GoDown

Spec == Init /\ [][Next]_chanVars

=============================================================================
