--------------------------- MODULE PreciseCancel ---------------------------
(***************************************************************************)
(* What a client may rely on when it cancels one of its requests: only a   *)
(* request it asked to cancel is cancelled; a cancel that comes too early  *)
(* is remembered, until too many others are, and then the request never    *)
(* runs; every request is answered once, and is said to be cancelled only  *)
(* when it was.  Nothing is said of connections, ids, tokens and timers.   *)
(***************************************************************************)
EXTENDS Naturals

CONSTANT Acts

VARIABLES
  named,      \* the acts a cancel was asked for
  asked,      \* ... came too early for, and is remembered
  stage,      \* how far each act is: coming, queued, running, ended
  cancelled,  \* the acts that were cancelled
  answers,    \* how often the client had an answer
  sure        \* ... and was told that the act is cancelled

promiseVars == <<named, asked, stage, cancelled, answers, sure>>

Init ==
  /\ named = {} /\ asked = {} /\ cancelled = {} /\ sure = {}
  /\ stage = [a \in Acts |-> "coming"]
  /\ answers = [a \in Acts |-> 0]

\* The client gets its answers, several at once when the connection ends.
Answered(S) ==
  /\ \A a \in S : answers[a] = 0
  /\ answers' = [a \in Acts |-> IF a \in S THEN 1 ELSE answers[a]]

Settle(S) ==
  /\ Answered(S)
  /\ UNCHANGED <<named, asked, stage, cancelled, sure>>

\* The client asks for a cancel, and may give up on the act with it.
Ask(a) ==
  /\ named' = named \cup {a}
  /\ Answered({a}) \/ UNCHANGED answers
  /\ UNCHANGED <<asked, stage, cancelled, sure>>

\* The client is told that the act is cancelled.
Confirm(a) ==
  /\ Answered({a})
  /\ a \in cancelled
  /\ sure' = sure \cup {a}
  /\ UNCHANGED <<named, asked, stage, cancelled>>

\* Remembering is bounded: it may cost one of those remembered.
Kept(S) == {S} \cup {S \ {a} : a \in S}

\* The cancel arrives: a live act is cancelled, a later one remembered.
Cancel(a) ==
  /\ a \in named
  /\ \/ /\ stage[a] \in {"queued", "running"}
        /\ cancelled' = cancelled \cup {a}
        /\ UNCHANGED asked
     \/ /\ stage[a] = "coming"
        /\ asked' \in Kept(asked \cup {a})
        /\ UNCHANGED cancelled
     \/ /\ stage[a] = "ended"
        /\ asked' \in Kept(asked)
        /\ UNCHANGED cancelled
  /\ UNCHANGED <<named, stage, answers, sure>>

\* The act arrives; it is cancelled if that is remembered.
Arrive(a) ==
  /\ stage[a] = "coming"
  /\ stage' = [stage EXCEPT ![a] = "queued"]
  /\ cancelled' = cancelled \cup ({a} \cap asked)
  /\ asked' = asked \ {a}
  /\ UNCHANGED <<named, answers, sure>>

\* A cancelled act does not start.
Start(a) ==
  /\ stage[a] = "queued" /\ a \notin cancelled
  /\ stage' = [stage EXCEPT ![a] = "running"]
  /\ UNCHANGED <<named, asked, cancelled, answers, sure>>

\* It ran, failed, was cancelled, or was refused before it arrived.
End(a) ==
  /\ stage[a] # "ended"
  /\ stage' = [stage EXCEPT ![a] = "ended"]
  /\ asked' = asked \ {a}
  /\ UNCHANGED <<named, cancelled, answers, sure>>

Next ==
  \/ \E S \in SUBSET Acts : Settle(S)
  \/ \E a \in Acts : \/ Ask(a) \/ Confirm(a) \/ Cancel(a)
                     \/ Arrive(a) \/ Start(a) \/ End(a)

Spec == Init /\ [][Next]_promiseVars

=============================================================================
