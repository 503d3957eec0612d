------------------------- MODULE AgentConversation -------------------------
(***************************************************************************)
(* What an AgentSession promises its callers: a conversation.  One turn is *)
(* under way at a time; it ends with the answer to its own prompt or with  *)
(* an error, and an ended turn stays as it is.                             *)
(***************************************************************************)
EXTENDS Integers

CONSTANT MaxTurns

VARIABLES turns, outcome

NoTurn == 0
Open == [kind |-> "open", prompt |-> NoTurn]
Failed == [kind |-> "failed", prompt |-> NoTurn]
AnswerTo(t) == [kind |-> "answered", prompt |-> t]

Ended(t) == outcome[t] # Open

Init ==
    /\ turns = 0
    /\ outcome = [t \in 1 .. MaxTurns |-> Open]

Ask ==
    /\ turns < MaxTurns
    /\ \A t \in 1 .. turns : Ended(t)
    /\ turns' = turns + 1
    /\ UNCHANGED outcome

EndTurn(result) ==
    /\ turns > 0 /\ ~Ended(turns)
    /\ outcome' = [outcome EXCEPT ![turns] = result]
    /\ UNCHANGED turns

Answer == EndTurn(AnswerTo(turns))
Fail == EndTurn(Failed)

Next == Ask \/ Answer \/ Fail

Spec == Init /\ [][Next]_<<turns, outcome>>
=============================================================================
