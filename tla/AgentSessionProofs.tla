------------------------- MODULE AgentSessionProofs -------------------------
(***************************************************************************)
(* Proofs about AgentSession, for any senders and any bounds.              *)
(***************************************************************************)
EXTENDS AgentSession, FiniteSetTheorems, SequenceTheorems, TLAPS

USE BridgeAssumption, SessionAssumption

-----------------------------------------------------------------------------
(* Types.                                                                  *)

(* The lines that host and bridge write are lines of their pipes.          *)
LEMMA LineTypes ==
    /\ \A t \in Turns : Line("prompt", t) \in HostLines
    /\ \A k \in {"start_session", "tool_result", "close"}, i \in 0 .. MaxToolCalls :
           Line(k, i) \in HostLines
    /\ \A k \in {"ready", "text", "tool_call"}, i \in 0 .. MaxToolCalls :
           Line(k, i) \in BridgeLines
    /\ \A k \in TurnEnds, i, p \in Turns \cup {NoTurn} : Ending(k, i, p) \in BridgeLines
BY DEF Line, Ending, HostLines, BridgeLines, Endings

(* What the bridge reads and writes keeps its type (handleLine and         *)
(* runSession).                                                            *)
LEMMA BridgeStepType ==
    ASSUME BridgeTypeOK, BridgeStep
    PROVE  BridgeTypeOK'
<1>. USE DEF BridgeTypeOK, NoTurn
<1>1. CASE OnStartSession
  BY <1>1, LineTypes DEF OnStartSession, NextLine, Send, bridgeVars
<1>2. CASE OnPrompt
  BY <1>2 DEF OnPrompt, NextLine, HostLines
<1>3. CASE OnToolResult
  <2>1. called' \subseteq 1 .. toolCalls
    BY <1>3 DEF OnToolResult
  <2>2. toBridge' \in Seq(HostLines)
    BY <1>3 DEF OnToolResult, NextLine
  <2>. QED BY <1>3, <2>1, <2>2 DEF OnToolResult, NextLine
<1>4. CASE OnClose
  BY <1>4 DEF OnClose, NextLine, ScheduleExit
<1>5. CASE OnStdinEnd
  BY <1>5 DEF OnStdinEnd, ScheduleExit
<1>6. CASE PullPrompt
  BY <1>6 DEF PullPrompt, Working
<1>7. CASE CallTool
  BY <1>7, LineTypes DEF CallTool, Working, Send
<1>8. CASE Result
  BY <1>8, LineTypes DEF Result, Working, Send
<1>9. CASE StreamText
  BY <1>9, LineTypes DEF StreamText, Working, Send
<1>10. CASE SessionFails
  <2>1. Ending("error", NoTurn, NoTurn) \in BridgeLines
    BY LineTypes DEF TurnEnds
  <2>2. fromBridge' \in Seq(BridgeLines)
    BY <1>10, <2>1 DEF SessionFails, Send
  <2>. QED BY <1>10, <2>2 DEF SessionFails, bridgeVars
<1>11. CASE Exit
  BY <1>11 DEF Exit, bridgeVars
<1>12. CASE Killed
  BY <1>12 DEF Killed, bridgeVars
<1>. QED
  BY <1>1, <1>2, <1>3, <1>4, <1>5, <1>6, <1>7, <1>8, <1>9, <1>10, <1>11, <1>12
     DEF BridgeStep, ReadLines, Answering

(* Writing a line to the bridge keeps the types of its variables (write).  *)
LEMMA WriteType ==
    ASSUME BridgeTypeOK, NEW line \in HostLines, Write(line) \/ WriteFails
    PROVE  BridgeTypeOK'
<1>1. CASE Write(line)
  BY <1>1 DEF Write, BridgeTypeOK, bridgeVars
<1>2. CASE WriteFails
  BY <1>2 DEF WriteFails, BridgeTypeOK, bridgeVars
<1>. QED BY <1>1, <1>2

(* So does leaving the bridge alone.                                       *)
LEMMA UnchangedType == BridgeTypeOK /\ BridgeUnchanged => BridgeTypeOK'
BY DEF BridgeTypeOK, BridgeUnchanged, bridgeVars

(* An event never overfills the channel (emit).                            *)
LEMMA EmitType ==
    ASSUME NEW n \in Nat, events \in 0 .. EventBuffer, Emit(n)
    PROVE  events' \in 0 .. EventBuffer
BY DEF Emit

(* The bound on turns counts those who call and have no turn yet.          *)
LEMMA CallingCount ==
    ASSUME NEW s \in Senders, sender \in [Senders -> SenderStates]
    PROVE  /\ IsFiniteSet(Calling) /\ Cardinality(Calling) \in Nat
           /\ \A state \in SenderStates :
                sender' = [sender EXCEPT ![s] = state] =>
                  /\ state = "calling" /\ sender[s] # "calling" =>
                        Calling' = Calling \cup {s}
                        /\ Cardinality(Calling') = Cardinality(Calling) + 1
                  /\ state # "calling" /\ sender[s] = "calling" =>
                        Calling' = Calling \ {s}
                        /\ Cardinality(Calling') = Cardinality(Calling) - 1
                  /\ state # "calling" /\ sender[s] # "calling" => Calling' = Calling
<1>1. IsFiniteSet(Calling)
  BY FS_Subset DEF Calling
<1>2. Cardinality(Calling) \in Nat
  BY <1>1, FS_CardinalityType
<1>3. ASSUME NEW state \in SenderStates, sender' = [sender EXCEPT ![s] = state],
             state = "calling", sender[s] # "calling"
      PROVE  Calling' = Calling \cup {s} /\ Cardinality(Calling') = Cardinality(Calling) + 1
  <2>1. Calling' = Calling \cup {s} /\ s \notin Calling
    BY <1>3 DEF Calling
  <2>. QED BY <1>1, <2>1, FS_AddElement
<1>4. ASSUME NEW state \in SenderStates, sender' = [sender EXCEPT ![s] = state],
             state # "calling", sender[s] = "calling"
      PROVE  Calling' = Calling \ {s} /\ Cardinality(Calling') = Cardinality(Calling) - 1
  <2>1. Calling' = Calling \ {s} /\ s \in Calling
    BY <1>4 DEF Calling
  <2>. QED BY <1>1, <2>1, FS_RemoveElement
<1>5. ASSUME NEW state \in SenderStates, sender' = [sender EXCEPT ![s] = state],
             state # "calling", sender[s] # "calling"
      PROVE  Calling' = Calling
  BY <1>5 DEF Calling
<1>. QED BY <1>1, <1>2, <1>3, <1>4, <1>5

(***************************************************************************)
(* SessionTypeOK in two parts: who is inside a turn, and the rest.         *)
(***************************************************************************)
TurnTaking ==
    /\ sender \in [Senders -> SenderStates]
    /\ turnMu \in Senders \cup {NoSender}
    /\ turns \in Nat /\ turns + Cardinality(Calling) <= MaxTurns
    /\ pending \in {NoTurn, turns}
    /\ \A s \in Senders : (turnMu = s) = (sender[s] \in {"writing", "waiting"})
    /\ (pending = NoTurn) = (turnMu = NoSender)

RestOK ==
    /\ starter \in StarterStates /\ ready \in BOOLEAN /\ closed \in BOOLEAN
    /\ answer \in Endings \cup {NoAnswer}
    /\ closer \in CloserStates /\ closed = (closer # "no")
    /\ reader \in ReaderStates /\ tool \in 0 .. MaxToolCalls
    /\ events \in 0 .. EventBuffer /\ eventsOpen \in BOOLEAN
    /\ outcome \in [Turns -> Outcomes]

(* The two parts and the type of the bridge are the type invariant.        *)
LEMMA TypeParts == SessionTypeOK <=> BridgeTypeOK /\ TurnTaking /\ RestOK
BY DEF SessionTypeOK, TurnTaking, RestOK

(* Only the steps of Send change who is inside a turn (turnMu, mu).        *)
LEMMA TurnTakingStep ==
    ASSUME TurnTaking, HostStep
    PROVE  TurnTaking'
<1>. USE DEF TurnTaking, NoTurn, SenderStates
<1>1. ASSUME UNCHANGED <<sender, turnMu, turns, pending>>
      PROVE  TurnTaking'
  BY <1>1 DEF Calling
<1>2. CASE StarterStep \/ StartCancelled \/ ReaderStep \/ MarkClosed \/ ClosingStep
  <2>1. UNCHANGED <<sender, turnMu, turns, pending>>
    BY <1>2 DEF StarterStep, StartCancelled, ReaderStep, MarkClosed, ClosingStep,
                WriteStart, Started, StartGivesUp, CloseFailed, StarterUnchanged,
                HandleReady, HandleText, HandleTurnEnd, HandleToolCall, HandlerReturns,
                StopReading, NextEvent, ReaderUnchanged, CloserStep, SayClose,
                CloseStdin, BridgeExited, KillAfterGrace, CloseEvents
  <2>. QED BY <2>1, <1>1
<1>3. ASSUME NEW s \in Senders, CallSend(s) \/ SenderStep(s) \/ Abandon(s)
      PROVE  TurnTaking'
  <2>1. CASE CallSend(s)
    <3>1. /\ sender' = [sender EXCEPT ![s] = "calling"] /\ sender[s] = "idle"
          /\ turns + Cardinality(Calling) < MaxTurns
          /\ UNCHANGED <<turnMu, turns, pending>>
      BY <2>1 DEF CallSend
    <3>2. Cardinality(Calling') = Cardinality(Calling) + 1 /\ Cardinality(Calling) \in Nat
      BY <3>1, CallingCount
    <3>3. turns' + Cardinality(Calling') <= MaxTurns
      BY <3>1, <3>2
    <3>. QED BY <3>1, <3>3
  <2>2. CASE RefuseTurn(s)
    <3>1. /\ sender' = [sender EXCEPT ![s] = "idle"] /\ sender[s] = "calling"
          /\ UNCHANGED <<turnMu, turns, pending>>
      BY <2>2 DEF RefuseTurn
    <3>2. Cardinality(Calling') = Cardinality(Calling) - 1 /\ Cardinality(Calling) \in Nat
      BY <3>1, CallingCount
    <3>3. turns' + Cardinality(Calling') <= MaxTurns
      BY <3>1, <3>2
    <3>. QED BY <3>1, <3>3
  <2>3. CASE RegisterTurn(s)
    <3>1. /\ sender' = [sender EXCEPT ![s] = "writing"] /\ sender[s] = "calling"
          /\ turnMu = NoSender /\ turnMu' = s
          /\ turns' = turns + 1 /\ pending' = turns + 1
      BY <2>3 DEF RegisterTurn
    <3>2. Cardinality(Calling') = Cardinality(Calling) - 1 /\ Cardinality(Calling) \in Nat
      BY <3>1, CallingCount
    <3>3. turns' + Cardinality(Calling') <= MaxTurns
      BY <3>1, <3>2
    <3>4. \A q \in Senders : (turnMu' = q) = (sender'[q] \in {"writing", "waiting"})
      BY <3>1
    <3>. QED BY <3>1, <3>3, <3>4
  <2>4. ASSUME NEW result, EndTurn(s, result), sender[s] \in {"writing", "waiting"}
        PROVE  TurnTaking'
    <3>1. /\ sender' = [sender EXCEPT ![s] = "idle"]
          /\ turnMu' = NoSender /\ pending' = NoTurn /\ turns' = turns
      BY <2>4 DEF EndTurn
    <3>2. Calling' = Calling
      BY <2>4, <3>1, CallingCount
    <3>3. turnMu = s
      BY <2>4
    <3>4. \A q \in Senders : (turnMu' = q) = (sender'[q] \in {"writing", "waiting"})
      BY <3>1, <3>3
    <3>. QED BY <3>1, <3>2, <3>4
  <2>5. CASE WritePrompt(s)
    <3>1. CASE EndTurn(s, Conversation!Failed)
      BY <3>1, <2>4, <2>5 DEF WritePrompt
    <3>2. CASE sender' = [sender EXCEPT ![s] = "waiting"] /\ UNCHANGED <<turnMu, turns, pending>>
      <4>1. Calling' = Calling
        BY <2>5, <3>2, CallingCount DEF WritePrompt
      <4>2. \A q \in Senders : (turnMu' = q) = (sender'[q] \in {"writing", "waiting"})
        BY <2>5, <3>2 DEF WritePrompt
      <4>. QED BY <3>2, <4>1, <4>2
    <3>. QED BY <2>5, <3>1, <3>2 DEF WritePrompt
  <2>6. CASE TakeAnswer(s)
    BY <2>4, <2>6 DEF TakeAnswer
  <2>7. CASE StopWaiting(s) \/ Abandon(s)
    BY <2>4, <2>7 DEF StopWaiting, Abandon
  <2>. QED BY <1>3, <2>1, <2>2, <2>3, <2>5, <2>6, <2>7 DEF SenderStep
<1>. QED BY <1>2, <1>3 DEF HostStep

(* What Send may return is an outcome.                                     *)
LEMMA OutcomeTypes ==
    /\ Conversation!Open \in Outcomes /\ Conversation!Failed \in Outcomes
    /\ \A p \in Turns : Conversation!AnswerTo(p) \in Outcomes
BY DEF Outcomes

(* The return of Send keeps the types of what is not about turns.          *)
LEMMA EndTurnType ==
    ASSUME NEW s \in Senders, NEW result \in Outcomes, RestOK, EndTurn(s, result),
           answer' \in Endings \cup {NoAnswer}
    PROVE  RestOK'
BY DEF EndTurn, RestOK, SessionUnchanged

(* Every step of the host does.                                            *)
LEMMA RestStep ==
    ASSUME BridgeTypeOK, RestOK, HostStep
    PROVE  RestOK'
<1>1. CASE StarterStep \/ StartCancelled
  <2>1. CASE CloseFailed
    BY <2>1 DEF CloseFailed, MarkClosed, CloserStep, RestOK, CloserStates
  <2>2. CASE WriteStart \/ Started \/ StartGivesUp \/ StartCancelled
    <3>1. starter' \in StarterStates
      BY <2>2 DEF WriteStart, Started, StartGivesUp, StartCancelled, StarterUnchanged,
                  StarterStates
    <3>2. UNCHANGED <<ready, answer, closed, closer, reader, tool, events, eventsOpen, outcome>>
      BY <2>2 DEF WriteStart, Started, StartGivesUp, StartCancelled, StarterUnchanged
    <3>. QED BY <3>1, <3>2 DEF RestOK
  <2>. QED BY <1>1, <2>1, <2>2 DEF StarterStep
<1>2. ASSUME NEW s \in Senders, CallSend(s) \/ SenderStep(s) \/ Abandon(s)
      PROVE  RestOK'
  <2>1. CASE CallSend(s) \/ RefuseTurn(s)
    BY <2>1 DEF CallSend, RefuseTurn, SessionUnchanged, RestOK
  <2>2. CASE RegisterTurn(s)
    BY <2>2 DEF RegisterTurn, SessionUnchanged, RestOK
  <2>3. CASE WritePrompt(s)
    <3>1. CASE EndTurn(s, Conversation!Failed) /\ UNCHANGED answer
      BY <3>1, EndTurnType, OutcomeTypes DEF RestOK
    <3>2. CASE UNCHANGED <<answer, outcome>> /\ SessionUnchanged
      BY <3>2 DEF SessionUnchanged, RestOK
    <3>. QED BY <2>3, <3>1, <3>2 DEF WritePrompt
  <2>4. CASE TakeAnswer(s)
    <3>1. answer.prompt \in Turns \cup {NoTurn}
      BY <2>4 DEF TakeAnswer, RestOK, Endings, NoAnswer
    <3>2. PICK result \in Outcomes : EndTurn(s, result)
      BY <2>4, <3>1, OutcomeTypes DEF TakeAnswer
    <3>3. answer' \in Endings \cup {NoAnswer}
      BY <2>4 DEF TakeAnswer
    <3>. QED BY <3>2, <3>3, EndTurnType
  <2>5. CASE StopWaiting(s) \/ Abandon(s)
    <3>1. EndTurn(s, Conversation!Failed)
      BY <2>5 DEF StopWaiting, Abandon
    <3>2. answer' \in Endings \cup {NoAnswer}
      BY <2>5 DEF StopWaiting, Abandon, RestOK
    <3>. QED BY <3>1, <3>2, EndTurnType, OutcomeTypes
  <2>. QED BY <1>2, <2>1, <2>2, <2>3, <2>4, <2>5 DEF SenderStep
<1>3. CASE ReaderStep
  <2>1. UNCHANGED <<starter, closed, closer, eventsOpen, outcome>>
    BY <1>3 DEF ReaderStep, HandleReady, HandleText, HandleTurnEnd, HandleToolCall,
                HandlerReturns, StopReading, NextEvent, ReaderUnchanged
  <2>2. events' \in 0 .. EventBuffer
    BY <1>3, EmitType DEF ReaderStep, HandleReady, HandleText, HandleTurnEnd,
                HandleToolCall, HandlerReturns, StopReading, RestOK
  <2>3. ready' \in BOOLEAN
    BY <1>3 DEF ReaderStep, HandleReady, HandleText, HandleTurnEnd, HandleToolCall,
                HandlerReturns, StopReading, RestOK
  <2>4. reader' \in ReaderStates
    BY <1>3 DEF ReaderStep, HandleReady, HandleText, HandleTurnEnd, HandleToolCall,
                HandlerReturns, StopReading, RestOK, ReaderStates
  <2>5. tool' \in 0 .. MaxToolCalls
    <3>1. CASE HandleToolCall
      <4>1. Head(fromBridge) \in BridgeLines /\ Head(fromBridge).type = "tool_call"
        BY <3>1 DEF HandleToolCall, NextEvent, BridgeTypeOK
      <4>2. Head(fromBridge).id \in 0 .. MaxToolCalls
        BY <4>1 DEF BridgeLines, Endings, TurnEnds
      <4>. QED BY <3>1, <4>2 DEF HandleToolCall
    <3>2. CASE ~HandleToolCall
      BY <1>3, <3>2 DEF ReaderStep, HandleReady, HandleText, HandleTurnEnd,
                HandlerReturns, StopReading, RestOK
    <3>. QED BY <3>1, <3>2
  <2>6. answer' \in Endings \cup {NoAnswer}
    <3>1. CASE HandleTurnEnd
      <4>1. Head(fromBridge) \in BridgeLines /\ Head(fromBridge).type \in TurnEnds
        BY <3>1 DEF HandleTurnEnd, NextEvent, BridgeTypeOK
      <4>2. Head(fromBridge) \in Endings
        BY <4>1 DEF BridgeLines, TurnEnds
      <4>. QED BY <3>1, <4>2 DEF HandleTurnEnd, RestOK
    <3>2. CASE StopReading
      <4>1. Ending("error", NoTurn, NoTurn) \in Endings
        BY DEF Ending, Endings, TurnEnds
      <4>. QED BY <3>2, <4>1 DEF StopReading, RestOK
    <3>3. CASE HandleReady \/ HandleText \/ HandleToolCall \/ HandlerReturns
      BY <3>3 DEF HandleReady, HandleText, HandleToolCall, HandlerReturns, RestOK
    <3>. QED BY <1>3, <3>1, <3>2, <3>3 DEF ReaderStep
  <2>. QED BY <2>1, <2>2, <2>3, <2>4, <2>5, <2>6 DEF RestOK
<1>4. CASE MarkClosed \/ ClosingStep
  BY <1>4 DEF ClosingStep, MarkClosed, CloserStep, SayClose, CloseStdin, BridgeExited,
              KillAfterGrace, CloseEvents, RestOK, CloserStates
<1>. QED BY <1>1, <1>2, <1>3, <1>4 DEF HostStep

(* What the host writes to the bridge has its type (write).                *)
LEMMA HostBridgeType ==
    ASSUME SessionTypeOK, HostStep
    PROVE  BridgeTypeOK'
<1>. USE TypeParts
<1>1. CASE BridgeUnchanged
  BY <1>1, UnchangedType
<1>2. ASSUME NEW line \in HostLines, Write(line) \/ WriteFails
      PROVE  BridgeTypeOK'
  BY <1>2, WriteType
<1>3. CASE WriteStart
  <2>1. Line("start_session", NoTurn) \in HostLines
    BY LineTypes DEF NoTurn
  <2>. QED BY <1>2, <1>3, <2>1 DEF WriteStart
<1>4. ASSUME NEW s \in Senders, WritePrompt(s)
      PROVE  BridgeTypeOK'
  <2>1. pending \in Turns
    <3>1. turnMu = s
      BY <1>4 DEF WritePrompt, TurnTaking
    <3>2. Cardinality(Calling) \in Nat
      BY CallingCount DEF TurnTaking
    <3>. QED BY <3>1, <3>2 DEF TurnTaking, Turns, NoTurn
  <2>. QED BY <1>2, <1>4, <2>1, LineTypes DEF WritePrompt
<1>5. CASE HandlerReturns
  BY <1>2, <1>5, LineTypes DEF HandlerReturns, RestOK
<1>6. CASE SayClose
  <2>1. Line("close", NoTurn) \in HostLines
    BY LineTypes DEF NoTurn
  <2>. QED BY <1>2, <1>6, <2>1 DEF SayClose
<1>7. ASSUME NEW types, NextEvent(types)
      PROVE  BridgeTypeOK'
  BY <1>7 DEF NextEvent, BridgeTypeOK, bridgeVars
<1>8. CASE CloseStdin \/ KillAfterGrace
  BY <1>8 DEF CloseStdin, KillAfterGrace, BridgeTypeOK, bridgeVars
<1>9. CASE HandleReady \/ HandleText \/ HandleTurnEnd \/ HandleToolCall
  BY <1>7, <1>9 DEF HandleReady, HandleText, HandleTurnEnd, HandleToolCall
<1>. QED
  BY <1>1, <1>3, <1>4, <1>5, <1>6, <1>8, <1>9
     DEF HostStep, StarterStep, StartCancelled, Started, StartGivesUp, CloseFailed,
         MarkClosed, CallSend, SenderStep, RefuseTurn, RegisterTurn, TakeAnswer,
         StopWaiting, Abandon, ReaderStep, StopReading, ClosingStep, BridgeExited,
         CloseEvents

(***************************************************************************)
(* Every variable keeps its type, and the mutex, the pending turn and the  *)
(* control states agree, for any senders, turns and tool calls.            *)
(***************************************************************************)
THEOREM SessionTypeCorrect == Spec => []SessionTypeOK
<1>1. Init => SessionTypeOK
  <2>. SUFFICES ASSUME Init PROVE SessionTypeOK
    OBVIOUS
  <2>1. BridgeTypeOK
    <3>1. <<>> \in Seq(HostLines) /\ <<>> \in Seq(BridgeLines)
          /\ <<>> \in Seq(Turns) /\ <<>> \in Seq(Turns \cup {NoTurn})
      OBVIOUS
    <3>2. 0 \in 0 .. MaxToolCalls
      OBVIOUS
    <3>. QED BY <3>1, <3>2 DEF Init, BridgeInit, BridgeTypeOK
  <2>2. TurnTaking
    <3>1. Calling = {} /\ Cardinality({}) = 0
      BY FS_EmptySet DEF Init, Calling
    <3>. QED BY <3>1 DEF Init, TurnTaking, SenderStates, NoTurn
  <2>3. RestOK
    <3>1. 0 \in 0 .. MaxToolCalls /\ 0 \in 0 .. EventBuffer
      OBVIOUS
    <3>2. outcome \in [Turns -> Outcomes]
      BY OutcomeTypes DEF Init
    <3>. QED BY <3>1, <3>2 DEF Init, RestOK, StarterStates, CloserStates, ReaderStates
  <2>. QED BY <2>1, <2>2, <2>3, TypeParts
<1>2. SessionTypeOK /\ [Next]_vars => SessionTypeOK'
  <2>. SUFFICES ASSUME SessionTypeOK, [Next]_vars PROVE SessionTypeOK'
    OBVIOUS
  <2>1. CASE UNCHANGED vars
    BY <2>1 DEF vars, hostVars, bridgeVars, SessionTypeOK, BridgeTypeOK, Calling
  <2>2. CASE BridgeStep /\ UNCHANGED hostVars
    <3>1. BridgeTypeOK'
      BY <2>2, BridgeStepType, TypeParts
    <3>2. TurnTaking' /\ RestOK'
      BY <2>2, TypeParts DEF hostVars, TurnTaking, RestOK, Calling
    <3>. QED BY <3>1, <3>2, TypeParts DEF SessionTypeOK, TurnTaking, RestOK
  <2>3. CASE HostStep
    <3>1. BridgeTypeOK' /\ TurnTaking' /\ RestOK'
      BY <2>3, TypeParts, HostBridgeType, TurnTakingStep, RestStep
    <3>. QED BY <3>1 DEF SessionTypeOK, TurnTaking, RestOK
  <2>. QED BY <2>1, <2>2, <2>3 DEF Next
<1>. QED BY <1>1, <1>2, PTL DEF Spec

(***************************************************************************)
(* The event channel is open as long as the reader runs (Close).           *)
(***************************************************************************)
THEOREM EmitsBeforeClose == Spec => []NoEmitAfterClose
<1>1. Init => NoEmitAfterClose
  BY DEF Init, NoEmitAfterClose
<1>2. NoEmitAfterClose /\ [Next]_vars => NoEmitAfterClose'
  <2>. SUFFICES ASSUME NoEmitAfterClose, [Next]_vars PROVE NoEmitAfterClose'
    OBVIOUS
  <2>1. CASE CloseEvents
    BY <2>1 DEF CloseEvents, CloserStep, NoEmitAfterClose
  <2>2. CASE ReaderStep
    BY <2>2 DEF ReaderStep, HandleReady, HandleText, HandleTurnEnd, HandleToolCall,
                HandlerReturns, StopReading, NextEvent, ReaderUnchanged, NoEmitAfterClose
  <2>3. CASE UNCHANGED <<reader, eventsOpen>>
    BY <2>3 DEF NoEmitAfterClose
  <2>4. ASSUME NEW s \in Senders, CallSend(s) \/ SenderStep(s) \/ Abandon(s)
        PROVE  UNCHANGED <<reader, eventsOpen>>
    BY <2>4 DEF CallSend, SenderStep, Abandon, RefuseTurn, RegisterTurn, WritePrompt,
                TakeAnswer, StopWaiting, EndTurn, SessionUnchanged
  <2>5. StarterStep \/ StartCancelled \/ MarkClosed => UNCHANGED <<reader, eventsOpen>>
    BY DEF StarterStep, StartCancelled, MarkClosed, CloseFailed, CloserStep, WriteStart,
           Started, StartGivesUp, StarterUnchanged
  <2>6. ClosingStep /\ ~CloseEvents => UNCHANGED <<reader, eventsOpen>>
    BY DEF ClosingStep, CloserStep, SayClose, CloseStdin, BridgeExited, KillAfterGrace
  <2>7. UNCHANGED vars \/ UNCHANGED hostVars => UNCHANGED <<reader, eventsOpen>>
    BY DEF vars, hostVars
  <2>. QED BY <2>1, <2>2, <2>3, <2>4, <2>5, <2>6, <2>7 DEF Next, HostStep
<1>. QED BY <1>1, <1>2, PTL DEF Spec

-----------------------------------------------------------------------------
(***************************************************************************)
(* A Send that is never abandoned gets the answer to its own prompt.  The  *)
(* invariant follows the one prompt that may be under way through the      *)
(* pipeline: the pipe to the bridge, the inbox, the SDK, the pipe back.    *)
(***************************************************************************)
Absent(q, S) == \A i \in DOMAIN q : q[i] \notin S
Single(q, S) == \A i, j \in DOMAIN q : q[i] \in S /\ q[j] \in S => i = j

Prompts == [type : {"prompt"}, id : Turns]
Answers == [type : TurnEnds, id : Turns \cup {NoTurn}, prompt : Turns]

\* A turn-ending line that answers no prompt carries no id.
Bogus == [type : TurnEnds, id : Turns, prompt : {NoTurn}]

\* Prompts of other turns than the latest, and answers to them.
OldTurns == Turns \ {turns}
OldPrompts == [type : {"prompt"}, id : OldTurns]
OldAnswers == [type : TurnEnds, id : Turns \cup {NoTurn}, prompt : OldTurns]

OnlyLatest ==
    /\ Absent(toBridge, OldPrompts) /\ Absent(inbox, OldTurns)
    /\ Absent(sdk, OldTurns) /\ Absent(fromBridge, OldAnswers)

Singles ==
    /\ Single(toBridge, Prompts) /\ Single(inbox, Turns)
    /\ Single(sdk, Turns) /\ Single(fromBridge, Answers)

ToEmpty == Absent(toBridge, Prompts)
InboxEmpty == Absent(inbox, Turns)
SdkEmpty == Absent(sdk, Turns)
FromEmpty == Absent(fromBridge, Answers)

OnePlace ==
    \/ ToEmpty /\ InboxEmpty /\ SdkEmpty
    \/ ToEmpty /\ InboxEmpty /\ FromEmpty
    \/ ToEmpty /\ SdkEmpty /\ FromEmpty
    \/ InboxEmpty /\ SdkEmpty /\ FromEmpty

Nowhere == ToEmpty /\ InboxEmpty /\ SdkEmpty /\ FromEmpty

\* No prompt is under way: before it is written, and after its answer.
NoneUnderWay ==
    \/ pending = NoTurn
    \/ \E s \in Senders : sender[s] = "writing"
    \/ answer # NoAnswer

Pipeline ==
    /\ Absent(fromBridge, Bogus)
    /\ reader # "done" =>
          /\ OnlyLatest /\ Singles /\ OnePlace
          /\ NoneUnderWay => Nowhere
          /\ (\E s \in Senders : sender[s] = "writing") => answer = NoAnswer

AnswerOK == pending # NoTurn => answer.prompt \in {NoTurn, turns}

OwnInv == SessionTypeOK /\ Pipeline /\ AnswerOK /\ AnswersOwnTurn

(* Taking the head of a sequence.                                          *)
LEMMA TailFacts ==
    ASSUME NEW T, NEW S, NEW q \in Seq(T), q # <<>>
    PROVE  /\ Absent(q, S) => Absent(Tail(q), S) /\ Head(q) \notin S
           /\ Single(q, S) => Single(Tail(q), S)
           /\ Single(q, S) /\ Head(q) \in S => Absent(Tail(q), S)
<1>1. /\ Head(q) = q[1] /\ 1 \in DOMAIN q
      /\ \A i \in DOMAIN Tail(q) : i \in Nat /\ i + 1 \in DOMAIN q /\ Tail(q)[i] = q[i + 1]
  OBVIOUS
<1>. QED BY <1>1 DEF Absent, Single

(* Appending to a sequence.                                                *)
LEMMA AppendFacts ==
    ASSUME NEW T, NEW S, NEW q \in Seq(T), NEW e \in T
    PROVE  /\ Absent(q, S) => Single(Append(q, e), S)
           /\ e \notin S /\ Absent(q, S) => Absent(Append(q, e), S)
           /\ e \notin S /\ Single(q, S) => Single(Append(q, e), S)
<1>1. /\ DOMAIN Append(q, e) = 1 .. Len(q) + 1 /\ DOMAIN q = 1 .. Len(q)
      /\ \A i \in DOMAIN q : Append(q, e)[i] = q[i]
      /\ Append(q, e)[Len(q) + 1] = e
      /\ Len(q) \in Nat
  OBVIOUS
<1>2. \A i \in DOMAIN Append(q, e) : i \in DOMAIN q \/ i = Len(q) + 1
  BY <1>1
<1>. QED BY <1>1, <1>2 DEF Absent, Single

(* What is absent occurs at most once, and so do its parts.                *)
LEMMA AbsentFacts ==
    ASSUME NEW q, NEW S, Absent(q, S)
    PROVE  Single(q, S) /\ \A R \in SUBSET S : Absent(q, R)
BY DEF Absent, Single

(* Nothing is in an empty sequence.                                        *)
LEMMA EmptyFacts == \A S : Absent(<<>>, S)
BY DEF Absent

(* What belongs to old turns is of the same kinds.                         *)
LEMMA OldSubsets ==
    /\ OldTurns \subseteq Turns /\ OldPrompts \subseteq Prompts /\ OldAnswers \subseteq Answers
BY DEF OldTurns, OldPrompts, OldAnswers, Prompts, Answers

(* A step that moves no prompt forward: each sequence at most loses its    *)
(* head or gains a line that is neither a prompt nor an answer.            *)
Quiet(q, r, S, Old) ==
    /\ Absent(q, S) => Absent(r, S)
    /\ Absent(q, Old) => Absent(r, Old)
    /\ Single(q, S) => Single(r, S)

Calm ==
    /\ Quiet(toBridge, toBridge', Prompts, OldPrompts)
    /\ Quiet(inbox, inbox', Turns, OldTurns)
    /\ Quiet(sdk, sdk', Turns, OldTurns)
    /\ Quiet(fromBridge, fromBridge', Answers, OldAnswers)
    /\ Absent(fromBridge, Bogus) => Absent(fromBridge', Bogus)

(* A sequence that stays as it is gains no prompt.                         *)
LEMMA QuietSame == \A q, S, Old : Quiet(q, q, S, Old)
BY DEF Quiet

(* Nor does one that loses its head.                                       *)
LEMMA QuietTail ==
    ASSUME NEW T, NEW q \in Seq(T), q # <<>>, NEW S, NEW Old
    PROVE  Quiet(q, Tail(q), S, Old)
BY TailFacts DEF Quiet

(* Nor does one that gains something else.                                 *)
LEMMA QuietAppend ==
    ASSUME NEW T, NEW q \in Seq(T), NEW e \in T, NEW S, NEW Old \in SUBSET S, e \notin S
    PROVE  Quiet(q, Append(q, e), S, Old)
<1>1. e \notin Old
  OBVIOUS
<1>. QED BY <1>1, AppendFacts DEF Quiet

(* A calm step that registers no turn, writes no prompt and takes no       *)
(* answer keeps the pipeline in order.                                     *)
LEMMA CalmPipeline ==
    ASSUME Pipeline, Calm, UNCHANGED <<turns, pending>>,
           \A s \in Senders : (sender'[s] = "writing") = (sender[s] = "writing"),
           reader' = "done" \/ (reader # "done" /\ UNCHANGED answer)
    PROVE  Pipeline'
<1>1. Absent(fromBridge', Bogus)
  BY DEF Pipeline, Calm
<1>2. CASE reader' = "done"
  BY <1>1, <1>2 DEF Pipeline, Bogus
<1>3. CASE reader # "done" /\ UNCHANGED answer
  <2>1. OldTurns' = OldTurns /\ OldPrompts' = OldPrompts /\ OldAnswers' = OldAnswers
    BY DEF OldTurns, OldPrompts, OldAnswers
  <2>2. OnlyLatest'
    BY <1>3, <2>1 DEF Pipeline, Calm, Quiet, OnlyLatest
  <2>3. Singles'
    BY <1>3 DEF Pipeline, Calm, Quiet, Singles, Prompts, Answers
  <2>4. /\ ToEmpty => ToEmpty'
        /\ InboxEmpty => InboxEmpty'
        /\ SdkEmpty => SdkEmpty'
        /\ FromEmpty => FromEmpty'
    BY DEF Calm, Quiet, ToEmpty, InboxEmpty, SdkEmpty, FromEmpty, Prompts, Answers
  <2>5. OnePlace'
    <3>1. OnePlace
      BY <1>3 DEF Pipeline
    <3>. QED BY <3>1, <2>4 DEF OnePlace
  <2>6. NoneUnderWay' => Nowhere'
    <3>1. NoneUnderWay' => NoneUnderWay
      BY <1>3 DEF NoneUnderWay, NoAnswer
    <3>2. NoneUnderWay => Nowhere
      BY <1>3 DEF Pipeline
    <3>. QED BY <3>1, <3>2, <2>4 DEF Nowhere
  <2>7. (\E s \in Senders : sender'[s] = "writing") => answer' = NoAnswer
    BY <1>3 DEF Pipeline, NoAnswer
  <2>. QED BY <1>1, <2>2, <2>3, <2>5, <2>6, <2>7 DEF Pipeline, Bogus, NoAnswer
<1>. QED BY <1>2, <1>3

(* Every line in a pipe that is not a prompt, or not an answer.            *)
LEMMA NotUnderWay ==
    /\ \A k \in {"start_session", "tool_result", "close"} : \A i : Line(k, i) \notin Prompts
    /\ \A k \in {"ready", "text", "tool_call"} : \A i : Line(k, i) \notin Answers \cup Bogus
    /\ Ending("error", NoTurn, NoTurn) \notin Answers \cup Bogus
BY DEF Line, Ending, Prompts, Answers, Bogus, Turns, NoTurn, TurnEnds

(* The prompt moves on, alone: what it leaves is empty, and what it enters *)
(* was.                                                                    *)
LEMMA MovePrompt ==
    ASSUME NEW T, NEW q \in Seq(T), q # <<>>, NEW S, Single(q, S), Head(q) \in S,
           NEW U, NEW r \in Seq(U), NEW e \in U, NEW R, Absent(r, R),
           NEW Old \in SUBSET R, e \notin Old
    PROVE  /\ Absent(Tail(q), S)
           /\ Single(Append(r, e), R) /\ Absent(Append(r, e), Old)
           /\ ~Absent(q, S)
<1>1. Absent(Tail(q), S) /\ ~Absent(q, S)
  BY TailFacts
<1>2. Absent(r, Old)
  BY AbsentFacts
<1>3. Single(Append(r, e), R) /\ Absent(Append(r, e), Old)
  BY <1>2, AppendFacts
<1>. QED BY <1>1, <1>3

(* The types of the sequences that a prompt goes through.                  *)
LEMMA Types ==
    BridgeTypeOK => /\ toBridge \in Seq(HostLines) /\ fromBridge \in Seq(BridgeLines)
                    /\ inbox \in Seq(Turns \cup {NoTurn}) /\ sdk \in Seq(Turns)
                    /\ turn \in Turns \cup {NoTurn}
BY DEF BridgeTypeOK

(* Steps of the bridge that leave the prompt where it is.                  *)
LEMMA CalmBridge ==
    ASSUME BridgeTypeOK, BridgeStep, ~OnPrompt, ~PullPrompt, ~Result
    PROVE  Calm
<1>1. /\ toBridge # <<>> => Quiet(toBridge, Tail(toBridge), Prompts, OldPrompts)
      /\ \A e \in BridgeLines \ (Answers \cup Bogus) :
            /\ Quiet(fromBridge, Append(fromBridge, e), Answers, OldAnswers)
            /\ Absent(fromBridge, Bogus) => Absent(Append(fromBridge, e), Bogus)
      /\ Quiet(inbox, Append(inbox, NoTurn), Turns, OldTurns)
  <2>1. toBridge # <<>> => Quiet(toBridge, Tail(toBridge), Prompts, OldPrompts)
    BY QuietTail, Types
  <2>2. ASSUME NEW e \in BridgeLines, e \notin Answers \cup Bogus
        PROVE  /\ Quiet(fromBridge, Append(fromBridge, e), Answers, OldAnswers)
               /\ Absent(fromBridge, Bogus) => Absent(Append(fromBridge, e), Bogus)
    <3>1. Quiet(fromBridge, Append(fromBridge, e), Answers, OldAnswers)
      BY <2>2, QuietAppend, Types, OldSubsets
    <3>2. Absent(fromBridge, Bogus) => Absent(Append(fromBridge, e), Bogus)
      BY <2>2, AppendFacts, Types
    <3>. QED BY <3>1, <3>2
  <2>3. Quiet(inbox, Append(inbox, NoTurn), Turns, OldTurns)
    <3>1. NoTurn \notin Turns
      BY DEF NoTurn, Turns
    <3>. QED BY <3>1, QuietAppend, Types, OldSubsets
  <2>. QED BY <2>1, <2>2, <2>3
<1>2. ASSUME toBridge' = toBridge \/ (toBridge # <<>> /\ toBridge' = Tail(toBridge)),
             \/ fromBridge' = fromBridge
             \/ \E e \in BridgeLines \ (Answers \cup Bogus) : fromBridge' = Append(fromBridge, e),
             inbox' = inbox \/ inbox' = Append(inbox, NoTurn),
             sdk' = sdk
      PROVE  Calm
  <2>1. Quiet(toBridge, toBridge', Prompts, OldPrompts)
    BY <1>1, <1>2, QuietSame
  <2>2. Quiet(fromBridge, fromBridge', Answers, OldAnswers)
    BY <1>1, <1>2, QuietSame
  <2>3. Absent(fromBridge, Bogus) => Absent(fromBridge', Bogus)
    BY <1>1, <1>2
  <2>4. Quiet(inbox, inbox', Turns, OldTurns)
    BY <1>1, <1>2, QuietSame
  <2>5. Quiet(sdk, sdk', Turns, OldTurns)
    BY <1>2, QuietSame
  <2>. QED BY <2>1, <2>2, <2>3, <2>4, <2>5 DEF Calm
<1>3. /\ \A k \in {"ready", "text", "tool_call"}, i \in 0 .. MaxToolCalls :
            Line(k, i) \in BridgeLines \ (Answers \cup Bogus)
      /\ Ending("error", NoTurn, NoTurn) \in BridgeLines \ (Answers \cup Bogus)
      /\ NoTurn \in 0 .. MaxToolCalls
  BY LineTypes, NotUnderWay DEF NoTurn, TurnEnds
<1>4. CASE OnStartSession
  BY <1>2, <1>3, <1>4 DEF OnStartSession, NextLine, Send, bridgeVars
<1>5. CASE OnToolResult
  BY <1>2, <1>5 DEF OnToolResult, NextLine
<1>6. CASE OnClose
  BY <1>2, <1>6 DEF OnClose, NextLine, ScheduleExit
<1>7. CASE OnStdinEnd
  BY <1>2, <1>7 DEF OnStdinEnd, ScheduleExit
<1>8. CASE StreamText
  BY <1>2, <1>3, <1>8 DEF StreamText, Working, Send
<1>9. CASE CallTool
  <2>1. Line("tool_call", toolCalls + 1) \in BridgeLines \ (Answers \cup Bogus)
    BY <1>3, <1>9 DEF CallTool, BridgeTypeOK
  <2>. QED BY <1>2, <1>9, <2>1 DEF CallTool, Working, Send
<1>10. CASE SessionFails
  BY <1>2, <1>3, <1>10 DEF SessionFails, Send, bridgeVars
<1>11. CASE Exit \/ Killed
  BY <1>2, <1>11 DEF Exit, Killed, bridgeVars
<1>. QED
  BY <1>4, <1>5, <1>6, <1>7, <1>8, <1>9, <1>10, <1>11
     DEF BridgeStep, ReadLines, Answering

(* The line of the SDK's result is an answer to the oldest prompt.         *)
LEMMA ResultFacts ==
    ASSUME BridgeTypeOK, Result
    PROVE  \E e \in Answers :
               /\ fromBridge' = Append(fromBridge, e) /\ e.prompt = Head(sdk)
               /\ e \in BridgeLines /\ e \notin Bogus
<1>1. Head(sdk) \in Turns
  BY Types DEF Result
<1>2. PICK k \in TurnEnds : fromBridge' = Append(fromBridge, Ending(k, turn, Head(sdk)))
  BY DEF Result, Send
<1>3. Ending(k, turn, Head(sdk)) \in Answers /\ Ending(k, turn, Head(sdk)).prompt = Head(sdk)
  BY <1>1, Types DEF Ending, Answers
<1>4. Ending(k, turn, Head(sdk)) \in BridgeLines
  BY <1>1, Types, LineTypes
<1>5. Ending(k, turn, Head(sdk)) \notin Bogus
  BY <1>1 DEF Ending, Bogus, NoTurn, Turns
<1>. QED BY <1>2, <1>3, <1>4, <1>5

(* The bridge passes the prompt on and loses or doubles none.              *)
LEMMA PipelineBridge ==
    ASSUME BridgeTypeOK, Pipeline, BridgeStep, UNCHANGED hostVars
    PROVE  Pipeline'
<1>1. UNCHANGED <<turns, pending, sender, reader, answer>>
  BY DEF hostVars
<1>2. CASE ~OnPrompt /\ ~PullPrompt /\ ~Result
  BY <1>1, <1>2, CalmBridge, CalmPipeline
<1>3. Absent(fromBridge', Bogus)
  <2>1. CASE Result
    <3>1. PICK e \in Answers :
              fromBridge' = Append(fromBridge, e) /\ e \in BridgeLines /\ e \notin Bogus
      BY <2>1, ResultFacts
    <3>. QED BY <3>1, AppendFacts, Types DEF Pipeline
  <2>2. CASE OnPrompt \/ PullPrompt
    BY <2>2 DEF OnPrompt, PullPrompt, Pipeline
  <2>3. CASE ~OnPrompt /\ ~PullPrompt /\ ~Result
    BY <2>3, CalmBridge DEF Calm, Pipeline
  <2>. QED BY <2>1, <2>2, <2>3
<1>4. CASE reader = "done"
  BY <1>1, <1>3, <1>4 DEF Pipeline, Bogus
<1>5. ASSUME reader # "done", OnlyLatest', Singles', OnePlace', ~Nowhere
      PROVE  Pipeline'
  <2>1. ~NoneUnderWay
    BY <1>5 DEF Pipeline
  <2>2. ~NoneUnderWay'
    BY <1>1, <2>1 DEF NoneUnderWay, NoAnswer
  <2>3. (\E s \in Senders : sender'[s] = "writing") => answer' = NoAnswer
    BY <1>1, <1>5 DEF Pipeline
  <2>. QED BY <1>3, <1>5, <2>2, <2>3 DEF Pipeline, Bogus, NoAnswer
<1>6. OldTurns' = OldTurns /\ OldPrompts' = OldPrompts /\ OldAnswers' = OldAnswers
  BY <1>1 DEF OldTurns, OldPrompts, OldAnswers
<1>7. CASE reader # "done" /\ OnPrompt
  <2>. DEFINE t == Head(toBridge).id
  <2>1. /\ toBridge # <<>> /\ toBridge' = Tail(toBridge) /\ inbox' = Append(inbox, t)
        /\ UNCHANGED <<fromBridge, sdk>>
    BY <1>7 DEF OnPrompt, NextLine
  <2>2. Head(toBridge) \in Prompts /\ t \in Turns
    <3>1. Head(toBridge) \in HostLines /\ Head(toBridge).type = "prompt"
      BY <1>7, <2>1, Types DEF OnPrompt, NextLine
    <3>2. Head(toBridge) \in Prompts
      BY <3>1 DEF HostLines, Prompts
    <3>. QED BY <3>2 DEF Prompts
  <2>3. OnlyLatest /\ Singles /\ OnePlace
    BY <1>7 DEF Pipeline
  <2>4. ~ToEmpty
    BY <2>1, <2>2, TailFacts, Types DEF ToEmpty
  <2>5. InboxEmpty /\ SdkEmpty /\ FromEmpty
    BY <2>3, <2>4 DEF OnePlace
  <2>6. t \notin OldTurns
    <3>1. Head(toBridge) \notin OldPrompts
      BY <2>1, <2>3, TailFacts, Types DEF OnlyLatest
    <3>. QED BY <2>2, <3>1 DEF OldPrompts, Prompts
  <2>7. /\ Absent(Tail(toBridge), Prompts)
        /\ Single(Append(inbox, t), Turns) /\ Absent(Append(inbox, t), OldTurns)
    BY <2>1, <2>2, <2>3, <2>5, <2>6, MovePrompt, Types, OldSubsets DEF Singles, InboxEmpty
  <2>8. OnlyLatest'
    BY <1>6, <2>1, <2>3, <2>7, AbsentFacts, OldSubsets DEF OnlyLatest
  <2>9. Singles'
    BY <2>1, <2>3, <2>7, AbsentFacts DEF Singles, Prompts, Answers
  <2>10. ToEmpty' /\ SdkEmpty' /\ FromEmpty'
    BY <2>1, <2>5, <2>7 DEF ToEmpty, SdkEmpty, FromEmpty, Prompts, Answers
  <2>11. OnePlace'
    BY <2>10 DEF OnePlace
  <2>. QED BY <1>5, <1>7, <2>4, <2>8, <2>9, <2>11 DEF Nowhere
<1>8. CASE reader # "done" /\ PullPrompt
  <2>. DEFINE t == Head(inbox)
  <2>1. /\ inbox # <<>> /\ inbox' = Tail(inbox) /\ sdk' = Append(sdk, t)
        /\ UNCHANGED <<fromBridge, toBridge>>
    BY <1>8 DEF PullPrompt, Working
  <2>2. t \in Turns
    BY <1>8, Types DEF PullPrompt
  <2>3. OnlyLatest /\ Singles /\ OnePlace
    BY <1>8 DEF Pipeline
  <2>4. ~InboxEmpty
    BY <2>1, <2>2, TailFacts, Types DEF InboxEmpty
  <2>5. ToEmpty /\ SdkEmpty /\ FromEmpty
    BY <2>3, <2>4 DEF OnePlace
  <2>6. t \notin OldTurns
    BY <2>1, <2>3, TailFacts, Types DEF OnlyLatest
  <2>7. /\ Absent(Tail(inbox), Turns)
        /\ Single(Append(sdk, t), Turns) /\ Absent(Append(sdk, t), OldTurns)
    BY <2>1, <2>2, <2>3, <2>5, <2>6, MovePrompt, Types, OldSubsets DEF Singles, SdkEmpty
  <2>8. OnlyLatest'
    BY <1>6, <2>1, <2>3, <2>7, AbsentFacts, OldSubsets DEF OnlyLatest
  <2>9. Singles'
    BY <2>1, <2>3, <2>7, AbsentFacts DEF Singles, Prompts, Answers
  <2>10. ToEmpty' /\ InboxEmpty' /\ FromEmpty'
    BY <2>1, <2>5, <2>7 DEF ToEmpty, InboxEmpty, FromEmpty, Prompts, Answers
  <2>11. OnePlace'
    BY <2>10 DEF OnePlace
  <2>. QED BY <1>5, <1>8, <2>4, <2>8, <2>9, <2>11 DEF Nowhere
<1>9. CASE reader # "done" /\ Result
  <2>1. sdk # <<>> /\ sdk' = Tail(sdk) /\ UNCHANGED <<inbox, toBridge>>
    BY <1>9 DEF Result, Working
  <2>2. PICK e \in Answers : /\ fromBridge' = Append(fromBridge, e) /\ e \in BridgeLines
                             /\ e.prompt = Head(sdk)
    BY <1>9, ResultFacts
  <2>3. OnlyLatest /\ Singles /\ OnePlace
    BY <1>9 DEF Pipeline
  <2>4. Head(sdk) \in Turns /\ ~SdkEmpty
    <3>1. Head(sdk) \in Turns
      BY <2>1, Types
    <3>. QED BY <2>1, <3>1, TailFacts, Types DEF SdkEmpty
  <2>5. ToEmpty /\ InboxEmpty /\ FromEmpty
    BY <2>3, <2>4 DEF OnePlace
  <2>6. e \notin OldAnswers
    <3>1. Head(sdk) \notin OldTurns
      BY <2>1, <2>3, TailFacts, Types DEF OnlyLatest
    <3>. QED BY <2>2, <3>1 DEF OldAnswers
  <2>7. /\ Absent(Tail(sdk), Turns)
        /\ Single(Append(fromBridge, e), Answers) /\ Absent(Append(fromBridge, e), OldAnswers)
    BY <2>1, <2>2, <2>3, <2>4, <2>5, <2>6, MovePrompt, Types, OldSubsets
       DEF Singles, FromEmpty
  <2>8. OnlyLatest'
    BY <1>6, <2>1, <2>2, <2>3, <2>7, AbsentFacts, OldSubsets DEF OnlyLatest
  <2>9. Singles'
    BY <2>1, <2>2, <2>3, <2>7, AbsentFacts DEF Singles, Prompts, Answers
  <2>10. ToEmpty' /\ InboxEmpty' /\ SdkEmpty'
    BY <2>1, <2>5, <2>7 DEF ToEmpty, InboxEmpty, SdkEmpty, Prompts, Answers
  <2>11. OnePlace'
    BY <2>10 DEF OnePlace
  <2>. QED BY <1>5, <1>9, <2>4, <2>8, <2>9, <2>11 DEF Nowhere
<1>. QED BY <1>2, <1>4, <1>7, <1>8, <1>9

-----------------------------------------------------------------------------
(* The host's steps.                                                       *)

(* A step that leaves the pipes, the inbox and the SDK alone is calm.      *)
LEMMA CalmSame == UNCHANGED <<toBridge, fromBridge, inbox, sdk>> => Calm
BY QuietSame DEF Calm

(* The host writes a line that is no prompt (StartSession, runTool, Close).*)
LEMMA CalmWrite ==
    ASSUME BridgeTypeOK, NEW line \in HostLines, line \notin Prompts, Write(line) \/ WriteFails
    PROVE  Calm
<1>1. CASE Write(line)
  <2>1. toBridge' = Append(toBridge, line) /\ UNCHANGED <<fromBridge, inbox, sdk>>
    BY <1>1 DEF Write, bridgeVars
  <2>2. Quiet(toBridge, toBridge', Prompts, OldPrompts)
    BY <2>1, QuietAppend, Types, OldSubsets
  <2>. QED BY <2>1, <2>2, QuietSame DEF Calm
<1>2. CASE WriteFails
  BY <1>2, CalmSame DEF WriteFails, bridgeVars
<1>. QED BY <1>1, <1>2

(* The host takes a line from the bridge (readLoop).                       *)
LEMMA CalmRead ==
    ASSUME BridgeTypeOK, NEW types, NextEvent(types)
    PROVE  Calm
<1>1. /\ fromBridge # <<>> /\ fromBridge' = Tail(fromBridge)
      /\ UNCHANGED <<toBridge, inbox, sdk>>
  BY DEF NextEvent, bridgeVars
<1>2. Quiet(fromBridge, fromBridge', Answers, OldAnswers)
  BY <1>1, QuietTail, Types
<1>3. Absent(fromBridge, Bogus) => Absent(fromBridge', Bogus)
  BY <1>1, TailFacts, Types
<1>. QED BY <1>1, <1>2, <1>3, QuietSame DEF Calm

(* Whoever opens or closes a session, or reads what ends no turn, leaves   *)
(* the prompt where it is.                                                 *)
LEMMA CalmHost ==
    ASSUME SessionTypeOK,
           \/ StarterStep \/ StartCancelled \/ MarkClosed \/ ClosingStep
           \/ HandleReady \/ HandleText \/ HandleToolCall \/ HandlerReturns \/ StopReading
    PROVE  Calm
<1>. USE TypeParts
<1>1. ASSUME NEW k \in {"start_session", "tool_result", "close"}, NEW i \in 0 .. MaxToolCalls,
             Write(Line(k, i)) \/ WriteFails
      PROVE  Calm
  BY <1>1, CalmWrite, LineTypes, NotUnderWay
<1>2. NoTurn \in 0 .. MaxToolCalls
  BY DEF NoTurn
<1>3. CASE WriteStart
  BY <1>1, <1>2, <1>3 DEF WriteStart
<1>4. CASE SayClose
  BY <1>1, <1>2, <1>4 DEF SayClose
<1>5. CASE HandlerReturns
  BY <1>1, <1>5 DEF HandlerReturns, RestOK
<1>6. CASE HandleReady \/ HandleText \/ HandleToolCall
  BY <1>6, CalmRead DEF HandleReady, HandleText, HandleToolCall
<1>7. CASE CloseStdin \/ KillAfterGrace
  BY <1>7, CalmSame DEF CloseStdin, KillAfterGrace, bridgeVars
<1>8. CASE BridgeUnchanged
  BY <1>8, CalmSame DEF BridgeUnchanged, bridgeVars
<1>. QED
  BY <1>3, <1>4, <1>5, <1>6, <1>7, <1>8
     DEF StarterStep, StartCancelled, MarkClosed, ClosingStep, Started, StartGivesUp,
         CloseFailed, StopReading, BridgeExited, CloseEvents

(* With no prompt under way the pipeline is in order.                      *)
LEMMA Settled ==
    ASSUME Nowhere', Absent(fromBridge', Bogus),
           (\E s \in Senders : sender'[s] = "writing") => answer' = NoAnswer
    PROVE  Pipeline'
<1>1. /\ OldTurns' \subseteq Turns /\ OldPrompts' \subseteq Prompts
      /\ OldAnswers' \subseteq Answers
  BY DEF OldTurns, OldPrompts, OldAnswers, Prompts, Answers
<1>2. /\ Absent(toBridge', Prompts) /\ Absent(inbox', Turns)
      /\ Absent(sdk', Turns) /\ Absent(fromBridge', Answers)
  BY DEF Nowhere, ToEmpty, InboxEmpty, SdkEmpty, FromEmpty, Prompts, Answers
<1>3. OnlyLatest'
  BY <1>1, <1>2, AbsentFacts DEF OnlyLatest
<1>4. Singles'
  BY <1>2, AbsentFacts DEF Singles, Prompts, Answers
<1>5. OnePlace'
  BY DEF Nowhere, OnePlace
<1>. QED BY <1>3, <1>4, <1>5 DEF Pipeline, Bogus, NoAnswer

(* And puts no prompt under way.                                           *)
LEMMA StaysNowhere ==
    Nowhere /\ UNCHANGED <<toBridge, fromBridge, inbox, sdk>> => Nowhere'
BY DEF Nowhere, ToEmpty, InboxEmpty, SdkEmpty, FromEmpty, Prompts, Answers

(* A turn takes the answer that carries its id, and it is the answer to    *)
(* its own prompt, the only one under way (deliver).                       *)
LEMMA AwaitedAnswer ==
    ASSUME SessionTypeOK, Pipeline, HandleTurnEnd, Awaited(Head(fromBridge))
    PROVE  /\ Head(fromBridge).prompt = turns
           /\ Nowhere' /\ ~Nowhere
<1>. USE TypeParts
<1>1. /\ reader = "reading" /\ fromBridge # <<>> /\ fromBridge' = Tail(fromBridge)
      /\ Head(fromBridge).type \in TurnEnds
      /\ UNCHANGED <<toBridge, inbox, sdk>>
  BY DEF HandleTurnEnd, NextEvent, bridgeVars
<1>2. /\ OnlyLatest /\ Singles /\ OnePlace /\ Absent(fromBridge, Bogus)
  BY <1>1 DEF Pipeline
<1>3. Head(fromBridge) \in Endings
  BY <1>1, Types DEF BridgeLines, TurnEnds
<1>4. Head(fromBridge).id \in Turns
  BY <1>3 DEF Awaited, Endings
<1>5. Head(fromBridge) \notin Bogus /\ Head(fromBridge) \notin OldAnswers
  BY <1>1, <1>2, TailFacts, Types DEF OnlyLatest
<1>6. Head(fromBridge).prompt \in Turns
  BY <1>3, <1>4, <1>5 DEF Endings, Bogus
<1>7. Head(fromBridge) \in Answers
  BY <1>3, <1>6 DEF Endings, Answers
<1>8. Head(fromBridge).prompt = turns
  BY <1>5, <1>6, <1>7 DEF OldAnswers, OldTurns, Answers
<1>9. Absent(Tail(fromBridge), Answers) /\ ~FromEmpty
  BY <1>1, <1>2, <1>7, TailFacts, Types DEF Singles, FromEmpty
<1>10. ToEmpty /\ InboxEmpty /\ SdkEmpty
  BY <1>2, <1>9 DEF OnePlace
<1>11. Nowhere'
  BY <1>1, <1>9, <1>10 DEF Nowhere, ToEmpty, InboxEmpty, SdkEmpty, FromEmpty, Prompts, Answers
<1>. QED BY <1>8, <1>9, <1>11 DEF Nowhere

(* A turn that writes or waits is the pending one, and no other goroutine  *)
(* is inside one (turnMu).                                                 *)
LEMMA InTurn ==
    ASSUME SessionTypeOK, NEW s \in Senders, sender[s] \in {"writing", "waiting"}
    PROVE  /\ turnMu = s /\ pending = turns /\ pending \in Turns
           /\ \A q \in Senders \ {s} : sender[q] \notin {"writing", "waiting"}
<1>1. Cardinality(Calling) \in Nat
  BY CallingCount, TypeParts DEF TurnTaking
<1>2. turnMu = s
  BY TypeParts DEF TurnTaking
<1>. QED BY <1>1, <1>2, TypeParts DEF TurnTaking, Turns, NoTurn

(* Send registers a turn, and writes its prompt, only while none is under  *)
(* way.                                                                    *)
LEMMA PipelineSend ==
    ASSUME SessionTypeOK, Pipeline, NEW s \in Senders, CallSend(s) \/ SenderStep(s)
    PROVE  Pipeline'
<1>. USE TypeParts
<1>1. sender \in [Senders -> SenderStates]
  BY DEF TurnTaking
<1>2. CASE CallSend(s) \/ RefuseTurn(s)
  <2>1. /\ BridgeUnchanged /\ UNCHANGED <<turns, pending, answer, reader>>
        /\ \A q \in Senders : (sender'[q] = "writing") = (sender[q] = "writing")
    BY <1>1, <1>2 DEF CallSend, RefuseTurn, SessionUnchanged
  <2>2. Calm
    BY <2>1, CalmSame DEF BridgeUnchanged, bridgeVars
  <2>. QED BY <2>1, <2>2, CalmPipeline
<1>3. CASE RegisterTurn(s)
  <2>1. /\ BridgeUnchanged /\ reader' = reader /\ answer' = NoAnswer /\ pending = NoTurn
    BY <1>3 DEF RegisterTurn, SessionUnchanged, TurnTaking
  <2>2. Absent(fromBridge', Bogus)
    BY <2>1 DEF BridgeUnchanged, Pipeline
  <2>3. CASE reader = "done"
    BY <2>1, <2>2, <2>3 DEF Pipeline, Bogus
  <2>4. CASE reader # "done"
    <3>1. Nowhere
      BY <2>1, <2>4 DEF Pipeline, NoneUnderWay
    <3>2. Nowhere'
      BY <2>1, <3>1, StaysNowhere DEF BridgeUnchanged, bridgeVars
    <3>. QED BY <2>1, <2>2, <3>2, Settled DEF NoAnswer
  <2>. QED BY <2>3, <2>4
<1>4. ASSUME NEW result, EndTurn(s, result), sender[s] \in {"writing", "waiting"},
             reader = "done" \/ Nowhere,
             UNCHANGED <<toBridge, fromBridge, inbox, sdk>>
      PROVE  Pipeline'
  <2>1. reader' = reader /\ sender' = [sender EXCEPT ![s] = "idle"]
    BY <1>4 DEF EndTurn, SessionUnchanged
  <2>2. Absent(fromBridge', Bogus)
    BY <1>4 DEF Pipeline
  <2>3. CASE reader = "done"
    BY <2>1, <2>2, <2>3 DEF Pipeline, Bogus
  <2>4. CASE Nowhere
    <3>1. ~\E q \in Senders : sender'[q] = "writing"
      BY <1>1, <1>4, <2>1, InTurn
    <3>2. Nowhere'
      BY <1>4, <2>4, StaysNowhere
    <3>. QED BY <2>2, <3>1, <3>2, Settled
  <2>. QED BY <1>4, <2>3, <2>4
<1>5. CASE WritePrompt(s)
  <2>1. sender[s] = "writing"
    BY <1>5 DEF WritePrompt
  <2>2. reader = "done" \/ (Nowhere /\ answer = NoAnswer)
    BY <2>1 DEF Pipeline, NoneUnderWay
  <2>3. CASE WriteFails /\ EndTurn(s, Conversation!Failed)
    BY <1>4, <2>1, <2>2, <2>3 DEF WriteFails, bridgeVars
  <2>4. CASE /\ Write(Line("prompt", pending))
             /\ sender' = [sender EXCEPT ![s] = "waiting"]
             /\ UNCHANGED <<turnMu, turns, pending, answer, outcome>>
             /\ SessionUnchanged
    <3>. DEFINE line == Line("prompt", pending)
    <3>1. /\ toBridge' = Append(toBridge, line) /\ UNCHANGED <<fromBridge, inbox, sdk>>
          /\ reader' = reader
      BY <2>4 DEF Write, bridgeVars, SessionUnchanged
    <3>2. Absent(fromBridge', Bogus)
      BY <3>1 DEF Pipeline
    <3>3. CASE reader = "done"
      BY <3>1, <3>2, <3>3 DEF Pipeline, Bogus
    <3>4. CASE Nowhere /\ answer = NoAnswer /\ reader # "done"
      <4>1. pending = turns /\ pending \in Turns
        BY <2>1, InTurn
      <4>2. line \in HostLines /\ line \in Prompts /\ line \notin OldPrompts
        <5>1. line \in HostLines
          BY <4>1, LineTypes
        <5>2. line \in Prompts /\ line.id = turns
          BY <4>1 DEF Line, Prompts
        <5>. QED BY <5>1, <5>2 DEF OldPrompts, OldTurns
      <4>3. Absent(toBridge, Prompts) /\ Absent(toBridge, OldPrompts)
        BY <3>4, AbsentFacts, OldSubsets DEF Nowhere, ToEmpty
      <4>4. Single(toBridge', Prompts) /\ Absent(toBridge', OldPrompts)
        BY <3>1, <4>2, <4>3, AppendFacts, Types
      <4>5. OnlyLatest /\ Singles
        BY <3>4 DEF Pipeline
      <4>6. OldTurns' = OldTurns /\ OldPrompts' = OldPrompts /\ OldAnswers' = OldAnswers
        BY <2>4 DEF OldTurns, OldPrompts, OldAnswers
      <4>7. OnlyLatest' /\ Singles'
        BY <3>1, <4>4, <4>5, <4>6 DEF OnlyLatest, Singles, Prompts, Answers
      <4>8. InboxEmpty' /\ SdkEmpty' /\ FromEmpty'
        BY <3>1, <3>4 DEF Nowhere, InboxEmpty, SdkEmpty, FromEmpty, Answers
      <4>9. ~\E q \in Senders : sender'[q] = "writing"
        BY <1>1, <2>1, <2>4, InTurn
      <4>10. ~NoneUnderWay'
        BY <2>4, <3>4, <4>1, <4>9 DEF NoneUnderWay, NoAnswer, Turns, NoTurn
      <4>. QED BY <3>2, <4>7, <4>8, <4>9, <4>10 DEF Pipeline, OnePlace, Bogus
    <3>. QED BY <2>2, <3>3, <3>4
  <2>. QED BY <1>5, <2>3, <2>4 DEF WritePrompt
<1>6. CASE TakeAnswer(s)
  <2>1. reader = "done" \/ Nowhere
    BY <1>6 DEF TakeAnswer, Pipeline, NoneUnderWay
  <2>. QED BY <1>4, <1>6, <2>1 DEF TakeAnswer, BridgeUnchanged, bridgeVars
<1>7. CASE StopWaiting(s)
  BY <1>4, <1>7 DEF StopWaiting, BridgeUnchanged, bridgeVars
<1>. QED BY <1>2, <1>3, <1>5, <1>6, <1>7 DEF SenderStep

(* Every step of the host keeps the pipeline in order, if no turn is       *)
(* abandoned.                                                              *)
LEMMA PipelineHost ==
    ASSUME SessionTypeOK, Pipeline, HostStep, Abandoning = {}
    PROVE  Pipeline'
<1>. USE TypeParts
<1>1. ASSUME NEW s \in Senders, CallSend(s) \/ SenderStep(s) \/ Abandon(s)
      PROVE  Pipeline'
  BY <1>1, PipelineSend DEF Abandon
<1>2. CASE HandleTurnEnd
  <2>1. /\ reader = "reading" /\ UNCHANGED <<turns, pending, sender, reader>>
        /\ Calm /\ Absent(fromBridge, Bogus)
    BY <1>2, CalmRead DEF HandleTurnEnd, NextEvent, ReaderUnchanged, Pipeline
  <2>2. CASE ~Awaited(Head(fromBridge))
    BY <1>2, <2>1, <2>2, CalmPipeline DEF HandleTurnEnd
  <2>3. CASE Awaited(Head(fromBridge))
    <3>1. Nowhere' /\ ~Nowhere
      BY <1>2, <2>3, AwaitedAnswer
    <3>2. ~\E s \in Senders : sender'[s] = "writing"
      BY <2>1, <3>1 DEF Pipeline, NoneUnderWay
    <3>3. Absent(fromBridge', Bogus)
      BY <2>1 DEF Calm
    <3>. QED BY <3>1, <3>2, <3>3, Settled
  <2>. QED BY <2>2, <2>3
<1>3. CASE \/ StarterStep \/ StartCancelled \/ MarkClosed \/ ClosingStep
           \/ HandleReady \/ HandleText \/ HandleToolCall \/ HandlerReturns
  <2>1. Calm
    BY <1>3, CalmHost
  <2>2. /\ UNCHANGED <<turns, pending, sender, answer>>
        /\ reader = "done" => reader' = "done"
    BY <1>3 DEF StarterStep, StartCancelled, MarkClosed, ClosingStep,
                WriteStart, Started, StartGivesUp, CloseFailed, StarterUnchanged,
                HandleReady, HandleText, HandleToolCall, HandlerReturns,
                NextEvent, ReaderUnchanged, CloserStep, SayClose,
                CloseStdin, BridgeExited, KillAfterGrace, CloseEvents
  <2>. QED BY <2>1, <2>2, CalmPipeline
<1>4. CASE StopReading
  <2>1. Calm
    BY <1>4, CalmHost
  <2>2. UNCHANGED <<turns, pending, sender>> /\ reader' = "done"
    BY <1>4 DEF StopReading, ReaderUnchanged
  <2>. QED BY <2>1, <2>2, CalmPipeline
<1>. QED BY <1>1, <1>2, <1>3, <1>4 DEF HostStep, ReaderStep

-----------------------------------------------------------------------------
(* The turns that may still end: the pending one, and those to come.       *)
OpenTurns ==
    \A t \in Turns : (outcome[t] = Conversation!Open) = (t > turns \/ t = pending)

\* No caller's context ends in the middle of a turn.
NeverAbandoned == Abandoning = {}

OwnerInv == NeverAbandoned /\ OwnInv /\ OpenTurns

(* What a step of the session does to the conversation: it asks, it ends   *)
(* the latest turn with the answer to its prompt or with an error, or it   *)
(* leaves the conversation alone.                                          *)
Ends(result) ==
    /\ pending = turns /\ pending \in Turns /\ pending' = NoTurn
    /\ turns' = turns /\ outcome' = [outcome EXCEPT ![turns] = result]

Asks ==
    /\ pending = NoTurn /\ turns < MaxTurns
    /\ turns' = turns + 1 /\ pending' = turns + 1
    /\ UNCHANGED outcome

(* What the steps of Send do to the conversation.                          *)
LEMMA SendConverses ==
    ASSUME SessionTypeOK, AnswerOK, NEW s \in Senders, CallSend(s) \/ SenderStep(s) \/ Abandon(s)
    PROVE  /\ Asks \/ Ends(Conversation!Failed) \/ Ends(Conversation!AnswerTo(turns))
                \/ UNCHANGED <<turns, pending, outcome>>
           /\ AnswerOK'
<1>. USE TypeParts
<1>1. CASE CallSend(s) \/ RefuseTurn(s)
  BY <1>1 DEF CallSend, RefuseTurn, AnswerOK, NoTurn
<1>2. CASE RegisterTurn(s)
  <2>1. /\ pending = NoTurn /\ turns' = turns + 1 /\ pending' = turns + 1
        /\ answer' = NoAnswer /\ UNCHANGED outcome
    BY <1>2 DEF RegisterTurn, TurnTaking
  <2>2. turns < MaxTurns
    <3>1. IsFiniteSet(Calling) /\ Cardinality(Calling) \in Nat
      BY CallingCount DEF TurnTaking
    <3>2. s \in Calling
      BY <1>2 DEF RegisterTurn, Calling
    <3>3. Cardinality(Calling) # 0
      BY <3>1, <3>2, FS_EmptySet
    <3>. QED BY <3>1, <3>3 DEF TurnTaking
  <2>. QED BY <2>1, <2>2 DEF Asks, AnswerOK, NoAnswer, NoTurn
<1>3. ASSUME NEW result, EndTurn(s, result), sender[s] \in {"writing", "waiting"}
      PROVE  Ends(result) /\ AnswerOK'
  BY <1>3, InTurn DEF EndTurn, Ends, AnswerOK
<1>4. CASE WritePrompt(s)
  BY <1>3, <1>4 DEF WritePrompt, AnswerOK, NoTurn
<1>5. CASE StopWaiting(s) \/ Abandon(s)
  BY <1>3, <1>5 DEF StopWaiting, Abandon
<1>6. CASE TakeAnswer(s)
  <2>1. answer.prompt \in {NoTurn, turns}
    BY <1>6, InTurn DEF TakeAnswer, AnswerOK, Turns, NoTurn
  <2>2. EndTurn(s, Conversation!Failed) \/ EndTurn(s, Conversation!AnswerTo(turns))
    BY <1>6, <2>1 DEF TakeAnswer
  <2>. QED BY <1>3, <1>6, <2>2 DEF TakeAnswer
<1>. QED BY <1>1, <1>2, <1>4, <1>5, <1>6 DEF SenderStep

(* No other step touches the conversation; the reader only delivers.       *)
LEMMA OthersConverse ==
    ASSUME SessionTypeOK, Pipeline, AnswerOK, [Next]_vars,
           ~\E s \in Senders : CallSend(s) \/ SenderStep(s) \/ Abandon(s)
    PROVE  UNCHANGED <<turns, pending, outcome>> /\ AnswerOK'
<1>1. CASE UNCHANGED vars \/ UNCHANGED hostVars
  BY <1>1 DEF vars, hostVars, AnswerOK, NoTurn
<1>2. CASE \/ StarterStep \/ StartCancelled \/ MarkClosed \/ ClosingStep
           \/ HandleReady \/ HandleText \/ HandleToolCall \/ HandlerReturns
  <2>1. UNCHANGED <<turns, pending, outcome, answer>>
    BY <1>2 DEF StarterStep, StartCancelled, MarkClosed, ClosingStep,
                WriteStart, Started, StartGivesUp, CloseFailed, StarterUnchanged,
                HandleReady, HandleText, HandleToolCall, HandlerReturns,
                NextEvent, ReaderUnchanged, CloserStep, SayClose,
                CloseStdin, BridgeExited, KillAfterGrace, CloseEvents
  <2>. QED BY <2>1 DEF AnswerOK, NoTurn
<1>3. CASE StopReading
  BY <1>3 DEF StopReading, ReaderUnchanged, AnswerOK, Ending, NoTurn
<1>4. CASE HandleTurnEnd
  <2>1. UNCHANGED <<turns, pending, outcome>>
    BY <1>4 DEF HandleTurnEnd, NextEvent, ReaderUnchanged
  <2>2. CASE Awaited(Head(fromBridge))
    <3>1. Head(fromBridge).prompt = turns /\ answer' = Head(fromBridge)
      BY <1>4, <2>2, AwaitedAnswer DEF HandleTurnEnd
    <3>. QED BY <2>1, <3>1 DEF AnswerOK
  <2>3. CASE ~Awaited(Head(fromBridge))
    BY <1>4, <2>1, <2>3 DEF HandleTurnEnd, AnswerOK, NoTurn
  <2>. QED BY <2>1, <2>2, <2>3
<1>. QED BY <1>1, <1>2, <1>3, <1>4 DEF Next, HostStep, ReaderStep

(* What each kind of step means for the outcomes.                          *)
LEMMA OutcomesKept ==
    ASSUME SessionTypeOK, AnswersOwnTurn, OpenTurns,
           \/ Asks \/ Ends(Conversation!Failed) \/ Ends(Conversation!AnswerTo(turns))
           \/ UNCHANGED <<turns, pending, outcome>>
    PROVE  AnswersOwnTurn' /\ OpenTurns'
<1>1. /\ turns \in Nat /\ outcome \in [Turns -> Outcomes] /\ NoTurn \notin Turns
      /\ Turns \subseteq Nat /\ pending \in {NoTurn, turns}
  BY DEF SessionTypeOK, Turns, NoTurn
<1>2. CASE Asks
  <2>1. \A t \in Turns : (t > turns) = (t > turns + 1 \/ t = turns + 1)
    BY <1>1
  <2>2. \A t \in Turns : t # pending
    BY <1>1, <1>2 DEF Asks
  <2>. QED BY <1>2, <2>1, <2>2 DEF Asks, AnswersOwnTurn, OpenTurns, Turns
<1>3. ASSUME NEW result, Ends(result), result # Conversation!Open,
             result.kind = "answered" => result.prompt = turns
      PROVE  AnswersOwnTurn' /\ OpenTurns'
  <2>1. /\ turns \in Turns /\ turns' = turns /\ pending' = NoTurn /\ pending = turns
        /\ outcome' = [outcome EXCEPT ![turns] = result]
    BY <1>3 DEF Ends
  <2>2. AnswersOwnTurn'
    BY <1>1, <1>3, <2>1 DEF AnswersOwnTurn, Turns
  <2>3. ASSUME NEW t \in Turns
        PROVE  (outcome'[t] = Conversation!Open) = (t > turns \/ t = NoTurn)
    <3>1. CASE t = turns
      BY <1>1, <1>3, <2>1, <3>1
    <3>2. CASE t # turns
      BY <1>1, <2>1, <2>3, <3>2 DEF OpenTurns
    <3>. QED BY <3>1, <3>2
  <2>. QED BY <2>1, <2>2, <2>3 DEF OpenTurns, Turns
<1>4. /\ Conversation!Failed # Conversation!Open /\ Conversation!Failed.kind # "answered"
      /\ Conversation!AnswerTo(turns) # Conversation!Open
      /\ Conversation!AnswerTo(turns).prompt = turns
  BY DEF Conversation!Failed, Conversation!Open, Conversation!AnswerTo
<1>5. CASE UNCHANGED <<turns, pending, outcome>>
  BY <1>5 DEF AnswersOwnTurn, OpenTurns, Turns
<1>. QED BY <1>2, <1>3, <1>4, <1>5

-----------------------------------------------------------------------------
(* A new session satisfies the invariant.                                  *)
LEMMA OwnerInit == NeverAbandoned /\ Init /\ SessionTypeOK => OwnerInv
<1>. SUFFICES ASSUME NeverAbandoned, Init, SessionTypeOK PROVE OwnerInv
  OBVIOUS
<1>1. /\ toBridge = <<>> /\ fromBridge = <<>> /\ inbox = <<>> /\ sdk = <<>>
      /\ \A s \in Senders : sender[s] = "idle"
  BY DEF Init, BridgeInit
<1>2. Nowhere /\ Absent(fromBridge, Bogus)
  BY <1>1, EmptyFacts DEF Nowhere, ToEmpty, InboxEmpty, SdkEmpty, FromEmpty
<1>3. OnlyLatest /\ Singles
  BY <1>1, EmptyFacts, AbsentFacts DEF OnlyLatest, Singles
<1>4. Pipeline
  BY <1>1, <1>2, <1>3 DEF Pipeline, Nowhere, OnePlace
<1>5. AnswerOK
  BY DEF Init, AnswerOK
<1>6. AnswersOwnTurn /\ OpenTurns
  <2>1. turns = 0 /\ \A t \in Turns : outcome[t] = Conversation!Open /\ t > 0
    BY DEF Init, Turns
  <2>. QED BY <2>1 DEF AnswersOwnTurn, OpenTurns, Conversation!Open
<1>. QED BY <1>4, <1>5, <1>6 DEF OwnerInv, OwnInv

(* Every step preserves it, and is a step of the conversation or none.     *)
LEMMA OwnerNext ==
    ASSUME OwnerInv, SessionTypeOK', [Next]_vars
    PROVE  /\ OwnerInv'
           /\ \/ Asks \/ Ends(Conversation!Failed) \/ Ends(Conversation!AnswerTo(turns))
              \/ UNCHANGED <<turns, pending, outcome>>
<1>1. /\ SessionTypeOK /\ Pipeline /\ AnswerOK /\ AnswersOwnTurn /\ OpenTurns
      /\ NeverAbandoned /\ NeverAbandoned'
  BY DEF OwnerInv, OwnInv, NeverAbandoned
<1>2. /\ AnswerOK'
      /\ \/ Asks \/ Ends(Conversation!Failed) \/ Ends(Conversation!AnswerTo(turns))
         \/ UNCHANGED <<turns, pending, outcome>>
  BY <1>1, SendConverses, OthersConverse
<1>3. AnswersOwnTurn' /\ OpenTurns'
  BY <1>1, <1>2, OutcomesKept
<1>4. Pipeline'
  <2>1. CASE BridgeStep /\ UNCHANGED hostVars
    BY <1>1, <2>1, PipelineBridge, TypeParts
  <2>2. CASE HostStep
    BY <1>1, <2>2, PipelineHost DEF NeverAbandoned
  <2>3. CASE UNCHANGED vars
    <3>1. Calm /\ UNCHANGED <<turns, pending, sender, reader, answer>>
      BY <2>3, CalmSame DEF vars, hostVars, bridgeVars
    <3>. QED BY <1>1, <3>1, CalmPipeline
  <2>. QED BY <2>1, <2>2, <2>3 DEF Next
<1>. QED BY <1>1, <1>2, <1>3, <1>4 DEF OwnerInv, OwnInv, AnswersOwnTurn, OpenTurns

(***************************************************************************)
(* As long as nobody abandons a turn, Send never returns the answer to     *)
(* another turn's prompt, for any number of goroutines, turns and tool     *)
(* calls, however lines and events interleave and whenever the bridge dies.*)
(***************************************************************************)
THEOREM OwnAnswers == NeverAbandoned /\ Spec => []AnswersOwnTurn
<1>1. NeverAbandoned /\ Init /\ SessionTypeOK => OwnerInv
  BY OwnerInit
<1>2. OwnerInv /\ SessionTypeOK' /\ [Next]_vars => OwnerInv'
  BY OwnerNext
<1>3. OwnerInv => AnswersOwnTurn
  BY DEF OwnerInv, OwnInv
<1>4. Spec => []SessionTypeOK
  BY SessionTypeCorrect
<1>. QED BY <1>1, <1>2, <1>3, <1>4, PTL DEF Spec

(***************************************************************************)
(* Under the same assumption the session is a conversation: it takes one   *)
(* turn after the other, and each ends once, with its own answer or with   *)
(* an error.                                                               *)
(***************************************************************************)
THEOREM SessionConverses == NeverAbandoned /\ Spec => ImplementsConversation
<1>. USE DEF Conversation!EndTurn, Conversation!Ended
<1>1. Init => Conversation!Init
  BY DEF Init, Conversation!Init, Turns
<1>2. NeverAbandoned /\ Init /\ SessionTypeOK => OwnerInv
  BY OwnerInit
<1>3. OwnerInv /\ SessionTypeOK' /\ [Next]_vars =>
        OwnerInv' /\ [Conversation!Next]_<<turns, outcome>>
  <2>. SUFFICES ASSUME OwnerInv, SessionTypeOK', [Next]_vars
                PROVE  OwnerInv' /\ [Conversation!Next]_<<turns, outcome>>
    OBVIOUS
  <2>1. OwnerInv'
    BY OwnerNext
  <2>2. OpenTurns /\ turns \in Nat
    BY DEF OwnerInv, OwnInv, SessionTypeOK
  <2>3. CASE Asks
    <3>1. \A t \in 1 .. turns : outcome[t] # Conversation!Open
      BY <2>2, <2>3 DEF Asks, OpenTurns, Turns, NoTurn
    <3>. QED BY <2>1, <2>3, <3>1 DEF Asks, Conversation!Next, Conversation!Ask
  <2>4. ASSUME NEW result, Ends(result)
        PROVE  Conversation!EndTurn(result)
    BY <2>2, <2>4 DEF Ends, OpenTurns, Turns
  <2>5. CASE Ends(Conversation!Failed)
    BY <2>1, <2>4, <2>5 DEF Conversation!Next, Conversation!Fail
  <2>6. CASE Ends(Conversation!AnswerTo(turns))
    BY <2>1, <2>4, <2>6 DEF Conversation!Next, Conversation!Answer
  <2>7. CASE UNCHANGED <<turns, pending, outcome>>
    BY <2>1, <2>7
  <2>. QED BY <2>3, <2>5, <2>6, <2>7, OwnerNext
<1>4. Spec => []SessionTypeOK
  BY SessionTypeCorrect
<1>. QED
  BY <1>1, <1>2, <1>3, <1>4, PTL
     DEF Spec, ImplementsConversation, Conversation!Spec
-----------------------------------------------------------------------------
(***************************************************************************)
(* When turns are abandoned, an answer comes late and may reach a later    *)
(* turn.  What still holds is the order: prompts queue up from the host to *)
(* the bridge, to the SDK and back, and no queue holds one of them twice.  *)
(***************************************************************************)

\* The numbers of a queue, NoTurn apart, rise and lie in lo + 1 .. hi.
Rising(q, lo, hi) ==
    \A i \in DOMAIN q : q[i] # NoTurn =>
        /\ lo < q[i] /\ q[i] <= hi
        /\ \A j \in DOMAIN q : i < j /\ q[j] # NoTurn => q[i] < q[j]

\* The prompt that a line to the bridge carries, and the one an event answers.
PromptOf(line) == IF line.type = "prompt" THEN line.id ELSE NoTurn
AnsweredBy(event) == IF event.type \in TurnEnds THEN event.prompt ELSE NoTurn

Asked(lines) == [i \in DOMAIN lines |-> PromptOf(lines[i])]
Answered(lines) == [i \in DOMAIN lines |-> AnsweredBy(lines[i])]

\* The answers returned are distinct, and none is to a prompt after top.
Returned(out, top) ==
    \A t \in Turns : out[t].kind = "answered" =>
        /\ out[t].prompt <= top /\ out[t].prompt <= t
        /\ \A u \in Turns \ {t} : out[u] # out[t]

\* The answer that a turn was given is the next one, or answers no prompt.
Given(prompt, lo, hi) == prompt # NoTurn => lo < prompt /\ prompt <= hi

\* No prompt after hi has been written; one may be about to be.
Unwritten(hi) ==
    hi <= turns /\ \A s \in Senders : sender[s] = "writing" => hi < turns

(* On its way a prompt passes the cuts: it is written, read, pulled,       *)
(* answered, given to a turn and returned, and it passes them in turn.     *)
Cuts(a, b, c, d, e, f) ==
    /\ a <= b /\ b <= c /\ c <= d /\ d <= e /\ e <= f
    /\ Returned(outcome, a)
    /\ Given(answer.prompt, a, b)
    /\ Rising(Answered(fromBridge), b, c)
    /\ Rising(sdk, c, d)
    /\ Rising(inbox, d, e)
    /\ Rising(Asked(toBridge), e, f)
    /\ Unwritten(f)

InOrder == \E a, b, c, d, e, f \in Nat : Cuts(a, b, c, d, e, f)

(* Taking the head of a queue moves its lower cut up to it.                *)
LEMMA RisingTail ==
    ASSUME NEW q \in Seq(Nat), q # << >>, NEW lo \in Nat, NEW hi \in Nat, Rising(q, lo, hi)
    PROVE  /\ Rising(Tail(q), lo, hi)
           /\ Head(q) # NoTurn => lo < Head(q) /\ Head(q) <= hi /\ Rising(Tail(q), Head(q), hi)
<1>1. /\ Head(q) = q[1] /\ 1 \in DOMAIN q
      /\ \A i \in DOMAIN Tail(q) : i \in Nat /\ i > 0 /\ i + 1 \in DOMAIN q /\ Tail(q)[i] = q[i + 1]
  OBVIOUS
<1>2. ASSUME NEW i \in DOMAIN Tail(q), NEW j \in DOMAIN Tail(q), i < j,
             Tail(q)[i] # NoTurn, Tail(q)[j] # NoTurn
      PROVE  Tail(q)[i] < Tail(q)[j]
  <2>1. i + 1 < j + 1
    BY <1>1, <1>2
  <2>. QED BY <1>1, <1>2, <2>1 DEF Rising
<1>3. \A i \in DOMAIN Tail(q) : Tail(q)[i] # NoTurn => lo < Tail(q)[i] /\ Tail(q)[i] <= hi
  BY <1>1 DEF Rising
<1>4. Head(q) # NoTurn => lo < Head(q) /\ Head(q) <= hi
  BY <1>1 DEF Rising
<1>5. \A i \in DOMAIN Tail(q) : Head(q) # NoTurn /\ Tail(q)[i] # NoTurn => Head(q) < Tail(q)[i]
  <2>1. \A i \in DOMAIN Tail(q) : 1 < i + 1
    BY <1>1
  <2>. QED BY <1>1, <2>1 DEF Rising
<1>. QED BY <1>2, <1>3, <1>4, <1>5 DEF Rising

(* Appending a number to a queue moves its upper cut up to it.             *)
LEMMA RisingAppend ==
    ASSUME NEW q \in Seq(Nat), NEW lo \in Nat, NEW hi \in Nat, NEW n \in Nat,
           lo <= hi, Rising(q, lo, hi)
    PROVE  /\ n = NoTurn => Rising(Append(q, n), lo, hi)
           /\ n > hi => Rising(Append(q, n), lo, n)
<1>1. /\ DOMAIN Append(q, n) = 1 .. Len(q) + 1 /\ DOMAIN q = 1 .. Len(q)
      /\ \A i \in DOMAIN q : Append(q, n)[i] = q[i] /\ q[i] \in Nat
      /\ Append(q, n)[Len(q) + 1] = n
      /\ Len(q) \in Nat
  OBVIOUS
<1>2. \A i \in DOMAIN Append(q, n) : i \in DOMAIN q \/ i = Len(q) + 1
  BY <1>1
<1>3. \A j \in DOMAIN Append(q, n) : ~(Len(q) + 1 < j)
  BY <1>1
<1>. QED BY <1>1, <1>2, <1>3 DEF Rising, NoTurn

(* An empty queue lies between any cuts.                                   *)
LEMMA RisingEmpty == \A lo, hi : Rising(<< >>, lo, hi)
BY DEF Rising

(* Lines to the bridge, as the prompts they carry.                         *)
LEMMA AskedFacts ==
    ASSUME NEW q \in Seq(HostLines)
    PROVE  /\ Asked(q) \in Seq(Nat)
           /\ q # << >> => /\ Asked(q) # << >> /\ Head(Asked(q)) = PromptOf(Head(q))
                           /\ Asked(Tail(q)) = Tail(Asked(q))
           /\ \A line \in HostLines : /\ PromptOf(line) \in Nat
                                      /\ Asked(Append(q, line)) = Append(Asked(q), PromptOf(line))
<1>1. \A line \in HostLines : PromptOf(line) \in Nat
  BY DEF HostLines, PromptOf, Turns, NoTurn
<1>2. Asked(q) \in Seq(Nat)
  BY <1>1 DEF Asked
<1>3. ASSUME q # << >>
      PROVE  /\ Asked(q) # << >> /\ Head(Asked(q)) = PromptOf(Head(q))
             /\ Asked(Tail(q)) = Tail(Asked(q))
  BY <1>3, <1>2 DEF Asked
<1>4. ASSUME NEW line \in HostLines
      PROVE  Asked(Append(q, line)) = Append(Asked(q), PromptOf(line))
  BY <1>1, <1>2 DEF Asked
<1>. QED BY <1>1, <1>2, <1>3, <1>4

(* Events from the bridge, as the prompts they answer.                     *)
LEMMA AnsweredFacts ==
    ASSUME NEW q \in Seq(BridgeLines)
    PROVE  /\ Answered(q) \in Seq(Nat)
           /\ q # << >> => /\ Answered(q) # << >> /\ Head(Answered(q)) = AnsweredBy(Head(q))
                           /\ Answered(Tail(q)) = Tail(Answered(q))
           /\ \A event \in BridgeLines :
                /\ AnsweredBy(event) \in Nat
                /\ Answered(Append(q, event)) = Append(Answered(q), AnsweredBy(event))
<1>1. \A event \in BridgeLines : AnsweredBy(event) \in Nat
  BY DEF BridgeLines, Endings, TurnEnds, AnsweredBy, Turns, NoTurn
<1>2. Answered(q) \in Seq(Nat)
  BY <1>1 DEF Answered
<1>3. ASSUME q # << >>
      PROVE  /\ Answered(q) # << >> /\ Head(Answered(q)) = AnsweredBy(Head(q))
             /\ Answered(Tail(q)) = Tail(Answered(q))
  BY <1>3, <1>2 DEF Answered
<1>4. ASSUME NEW event \in BridgeLines
      PROVE  Answered(Append(q, event)) = Append(Answered(q), AnsweredBy(event))
  BY <1>1, <1>2 DEF Answered
<1>. QED BY <1>1, <1>2, <1>3, <1>4

(* A new session has its cuts at zero.                                     *)
LEMMA OrderInit == Init => InOrder
<1>. SUFFICES ASSUME Init PROVE Cuts(0, 0, 0, 0, 0, 0)
  BY DEF InOrder
<1>1. /\ toBridge = << >> /\ fromBridge = << >> /\ inbox = << >> /\ sdk = << >>
      /\ turns = 0 /\ answer.prompt = NoTurn
      /\ \A s \in Senders : sender[s] = "idle"
      /\ \A t \in Turns : outcome[t].kind # "answered"
  BY DEF Init, BridgeInit, NoAnswer, Conversation!Open
<1>2. Asked(toBridge) = << >> /\ Answered(fromBridge) = << >>
  BY <1>1 DEF Asked, Answered
<1>. QED BY <1>1, <1>2, RisingEmpty DEF Cuts, Returned, Given, Unwritten

(* The bridge passes prompts on from one queue to the next (handleLine,    *)
(* prompts and the SDK's results).                                         *)
LEMMA OrderBridge ==
    ASSUME BridgeTypeOK, InOrder, BridgeStep, UNCHANGED hostVars
    PROVE  InOrder'
<1>. PICK a, b, c, d, e, f \in Nat : Cuts(a, b, c, d, e, f)
  BY DEF InOrder
<1>1. /\ toBridge \in Seq(HostLines) /\ fromBridge \in Seq(BridgeLines)
      /\ inbox \in Seq(Nat) /\ sdk \in Seq(Nat)
  <2>1. Turns \cup {NoTurn} \subseteq Nat /\ Turns \subseteq Nat
    BY DEF Turns, NoTurn
  <2>2. Seq(Turns \cup {NoTurn}) \subseteq Seq(Nat) /\ Seq(Turns) \subseteq Seq(Nat)
    BY <2>1, SeqMonotonic
  <2>. QED BY <2>1, <2>2, Types
<1>2. /\ a <= b /\ b <= c /\ c <= d /\ d <= e /\ e <= f
      /\ Rising(Answered(fromBridge), b, c) /\ Rising(sdk, c, d)
      /\ Rising(inbox, d, e) /\ Rising(Asked(toBridge), e, f)
  BY DEF Cuts
<1>3. /\ Returned(outcome', a) /\ Given(answer'.prompt, a, b)
      /\ Unwritten(f) /\ UNCHANGED <<turns, sender>>
  BY DEF Cuts, hostVars
<1>4. ASSUME NEW c1 \in Nat, NEW d1 \in Nat, NEW e1 \in Nat,
             b <= c1, c1 <= d1, d1 <= e1, e1 <= f,
             Rising(Answered(fromBridge'), b, c1), Rising(sdk', c1, d1),
             Rising(inbox', d1, e1), Rising(Asked(toBridge'), e1, f)
      PROVE  InOrder'
  <2>1. Unwritten(f)'
    BY <1>3 DEF Unwritten
  <2>2. Cuts(a, b, c1, d1, e1, f)'
    BY <1>2, <1>3, <1>4, <2>1 DEF Cuts
  <2>. QED BY <2>2 DEF InOrder
<1>5. ASSUME toBridge # << >>, toBridge' = Tail(toBridge)
      PROVE  /\ Rising(Asked(toBridge'), e, f)
             /\ PromptOf(Head(toBridge)) # NoTurn =>
                  LET n == PromptOf(Head(toBridge))
                  IN  n \in Nat /\ e < n /\ n <= f /\ Rising(Asked(toBridge'), n, f)
  <2>1. /\ Asked(toBridge) \in Seq(Nat) /\ Asked(toBridge) # << >>
        /\ Head(Asked(toBridge)) = PromptOf(Head(toBridge))
        /\ Asked(toBridge') = Tail(Asked(toBridge))
    BY <1>1, <1>5, AskedFacts
  <2>2. PromptOf(Head(toBridge)) \in Nat
    BY <1>1, <1>5, AskedFacts
  <2>. QED BY <1>2, <2>1, <2>2, RisingTail
<1>6. ASSUME NEW event \in BridgeLines, AnsweredBy(event) = NoTurn, Send(event)
      PROVE  Rising(Answered(fromBridge'), b, c)
  <2>1. /\ Answered(fromBridge) \in Seq(Nat) /\ AnsweredBy(event) \in Nat
        /\ Answered(fromBridge') = Append(Answered(fromBridge), AnsweredBy(event))
    BY <1>1, <1>6, AnsweredFacts DEF Send
  <2>. QED BY <1>2, <1>6, <2>1, RisingAppend
<1>7. Rising(Append(inbox, NoTurn), d, e)
  BY <1>1, <1>2, RisingAppend DEF NoTurn
<1>8. CASE OnStartSession
  <2>1. Line("ready", NoTurn) \in BridgeLines /\ AnsweredBy(Line("ready", NoTurn)) = NoTurn
    BY LineTypes DEF Line, AnsweredBy, TurnEnds, NoTurn
  <2>. QED BY <1>2, <1>4, <1>5, <1>6, <1>8, <2>1 DEF OnStartSession, NextLine, bridgeVars
<1>9. CASE OnPrompt
  <2>1. /\ Head(toBridge) \in HostLines /\ Head(toBridge).type = "prompt"
        /\ toBridge # << >> /\ toBridge' = Tail(toBridge)
        /\ inbox' = Append(inbox, Head(toBridge).id) /\ UNCHANGED <<fromBridge, sdk>>
    BY <1>1, <1>9 DEF OnPrompt, NextLine
  <2>. DEFINE n == Head(toBridge).id
  <2>2. n = PromptOf(Head(toBridge)) /\ n # NoTurn
    BY <2>1 DEF PromptOf, HostLines, Turns, NoTurn
  <2>3. n \in Nat /\ e < n /\ n <= f /\ Rising(Asked(toBridge'), n, f)
    BY <1>5, <2>1, <2>2
  <2>. HIDE DEF n
  <2>4. Rising(inbox', d, n)
    BY <1>1, <1>2, <2>1, <2>3, RisingAppend DEF n
  <2>5. d <= n
    BY <1>2, <2>3
  <2>. QED BY <1>2, <1>4, <2>1, <2>3, <2>4, <2>5
<1>10. CASE OnToolResult
  BY <1>2, <1>4, <1>5, <1>10 DEF OnToolResult, NextLine
<1>11. CASE OnClose
  BY <1>2, <1>4, <1>5, <1>7, <1>11 DEF OnClose, NextLine, ScheduleExit
<1>12. CASE OnStdinEnd
  BY <1>2, <1>4, <1>7, <1>12 DEF OnStdinEnd, ScheduleExit
<1>13. CASE PullPrompt
  <2>1. /\ inbox # << >> /\ Head(inbox) # NoTurn /\ inbox' = Tail(inbox)
        /\ sdk' = Append(sdk, Head(inbox)) /\ UNCHANGED <<fromBridge, toBridge>>
    BY <1>13 DEF PullPrompt, Working
  <2>. DEFINE n == Head(inbox)
  <2>2. n \in Nat /\ d < n /\ n <= e /\ Rising(inbox', n, e)
    <3>1. n \in Nat
      <4>1. n \in Turns \cup {NoTurn}
        BY <2>1, Types
      <4>. QED BY <4>1 DEF Turns, NoTurn
    <3>2. d < n /\ n <= e /\ Rising(Tail(inbox), n, e)
      BY <1>1, <1>2, <2>1, RisingTail
    <3>. QED BY <2>1, <3>1, <3>2
  <2>. HIDE DEF n
  <2>3. Rising(sdk', c, n)
    BY <1>1, <1>2, <2>1, <2>2, RisingAppend DEF n
  <2>4. c <= n
    BY <1>2, <2>2
  <2>. QED BY <1>2, <1>4, <2>1, <2>2, <2>3, <2>4
<1>14. CASE CallTool
  <2>1. PICK i \in 0 .. MaxToolCalls : Send(Line("tool_call", i))
    BY <1>14 DEF CallTool, BridgeTypeOK
  <2>2. Line("tool_call", i) \in BridgeLines /\ AnsweredBy(Line("tool_call", i)) = NoTurn
    BY LineTypes DEF Line, AnsweredBy, TurnEnds
  <2>. QED BY <1>2, <1>4, <1>6, <1>14, <2>1, <2>2 DEF CallTool, Working
<1>15. CASE Result
  <2>1. PICK type \in TurnEnds : Send(Ending(type, turn, Head(sdk)))
    BY <1>15 DEF Result
  <2>2. /\ sdk # << >> /\ sdk' = Tail(sdk) /\ UNCHANGED <<toBridge, inbox>>
    BY <1>15 DEF Result, Working
  <2>. DEFINE n == Head(sdk)
  <2>3. n \in Turns /\ turn \in Turns \cup {NoTurn}
    BY <2>2, Types
  <2>4. n \in Nat /\ n # NoTurn
    BY <2>3 DEF Turns, NoTurn
  <2>5. c < n /\ n <= d /\ Rising(sdk', n, d)
    BY <1>1, <1>2, <2>2, <2>4, RisingTail
  <2>6. Ending(type, turn, n) \in BridgeLines /\ AnsweredBy(Ending(type, turn, n)) = n
    BY <2>3, LineTypes DEF Ending, AnsweredBy
  <2>. HIDE DEF n
  <2>7. Send(Ending(type, turn, n))
    BY <2>1 DEF n
  <2>8. /\ Answered(fromBridge) \in Seq(Nat)
        /\ Answered(fromBridge') = Append(Answered(fromBridge), n)
    BY <1>1, <2>6, <2>7, AnsweredFacts DEF Send
  <2>9. Rising(Answered(fromBridge'), b, n)
    BY <1>2, <2>4, <2>5, <2>8, RisingAppend
  <2>10. b <= n
    BY <1>2, <2>5, <2>4
  <2>. QED BY <1>2, <1>4, <2>2, <2>4, <2>5, <2>9, <2>10
<1>16. CASE StreamText
  <2>1. Line("text", NoTurn) \in BridgeLines /\ AnsweredBy(Line("text", NoTurn)) = NoTurn
    BY LineTypes DEF Line, AnsweredBy, TurnEnds, NoTurn
  <2>. QED BY <1>2, <1>4, <1>6, <1>16, <2>1 DEF StreamText, Working
<1>17. CASE SessionFails
  <2>1. /\ Ending("error", NoTurn, NoTurn) \in BridgeLines
        /\ AnsweredBy(Ending("error", NoTurn, NoTurn)) = NoTurn
    BY LineTypes DEF Ending, AnsweredBy, TurnEnds
  <2>. QED BY <1>2, <1>4, <1>6, <1>17, <2>1 DEF SessionFails, bridgeVars
<1>18. CASE Exit \/ Killed
  BY <1>2, <1>4, <1>18 DEF Exit, Killed, bridgeVars
<1>. QED
  BY <1>8, <1>9, <1>10, <1>11, <1>12, <1>13, <1>14, <1>15, <1>16, <1>17, <1>18
     DEF BridgeStep, ReadLines, Answering

(* Sending a line that carries no prompt moves none (write).               *)
LEMMA OrderWrite ==
    ASSUME BridgeTypeOK, NEW e \in Nat, NEW f \in Nat, e <= f, Rising(Asked(toBridge), e, f),
           NEW line \in HostLines, PromptOf(line) = NoTurn, Write(line) \/ WriteFails
    PROVE  Rising(Asked(toBridge'), e, f) /\ UNCHANGED <<fromBridge, sdk, inbox>>
<1>1. CASE Write(line)
  <2>1. /\ Asked(toBridge) \in Seq(Nat) /\ PromptOf(line) \in Nat
        /\ Asked(toBridge') = Append(Asked(toBridge), PromptOf(line))
    BY <1>1, Types, AskedFacts DEF Write
  <2>2. Rising(Asked(toBridge'), e, f)
    BY <2>1, RisingAppend
  <2>. QED BY <1>1, <2>2 DEF Write, bridgeVars
<1>2. CASE WriteFails
  BY <1>2 DEF WriteFails, bridgeVars
<1>. QED BY <1>1, <1>2

(* So do the starter, the closer, and the reader while it delivers nothing.*)
LEMMA OrderCalm ==
    ASSUME SessionTypeOK, InOrder,
           \/ StarterStep \/ StartCancelled \/ MarkClosed \/ ClosingStep
           \/ HandleReady \/ HandleText \/ HandleToolCall \/ HandlerReturns
    PROVE  InOrder'
<1>. PICK a, b, c, d, e, f \in Nat : Cuts(a, b, c, d, e, f)
  BY DEF InOrder
<1>. USE TypeParts
<1>1. UNCHANGED <<turns, sender, outcome, answer>>
  BY DEF StarterStep, StartCancelled, MarkClosed, ClosingStep,
         WriteStart, Started, StartGivesUp, CloseFailed, StarterUnchanged,
         HandleReady, HandleText, HandleToolCall, HandlerReturns,
         NextEvent, ReaderUnchanged, CloserStep, SayClose,
         CloseStdin, BridgeExited, KillAfterGrace, CloseEvents
<1>2. ASSUME /\ Rising(Answered(fromBridge'), b, c) /\ Rising(Asked(toBridge'), e, f)
             /\ UNCHANGED <<sdk, inbox>>
      PROVE  InOrder'
  <2>1. Cuts(a, b, c, d, e, f)'
    BY <1>1, <1>2 DEF Cuts, Unwritten
  <2>. QED BY <2>1 DEF InOrder
<1>3. /\ Rising(Answered(fromBridge), b, c) /\ Rising(Asked(toBridge), e, f)
      /\ b <= c /\ e <= f
  BY DEF Cuts
<1>4. ASSUME NEW line \in HostLines, PromptOf(line) = NoTurn, Write(line) \/ WriteFails
      PROVE  InOrder'
  BY <1>2, <1>3, <1>4, OrderWrite
<1>5. CASE WriteStart
  <2>1. Line("start_session", NoTurn) \in HostLines /\ PromptOf(Line("start_session", NoTurn)) = NoTurn
    BY LineTypes DEF Line, PromptOf, NoTurn
  <2>. QED BY <1>4, <1>5, <2>1 DEF WriteStart
<1>6. CASE SayClose
  <2>1. Line("close", NoTurn) \in HostLines /\ PromptOf(Line("close", NoTurn)) = NoTurn
    BY LineTypes DEF Line, PromptOf, NoTurn
  <2>. QED BY <1>4, <1>6, <2>1 DEF SayClose
<1>7. CASE HandlerReturns
  <2>1. Line("tool_result", tool) \in HostLines /\ PromptOf(Line("tool_result", tool)) = NoTurn
    BY LineTypes DEF Line, PromptOf, RestOK
  <2>. QED BY <1>4, <1>7, <2>1 DEF HandlerReturns
<1>8. CASE HandleReady \/ HandleText \/ HandleToolCall
  <2>1. /\ fromBridge # << >> /\ fromBridge' = Tail(fromBridge)
        /\ UNCHANGED <<toBridge, sdk, inbox>>
    BY <1>8 DEF HandleReady, HandleText, HandleToolCall, NextEvent, bridgeVars
  <2>2. /\ Answered(fromBridge) \in Seq(Nat) /\ Answered(fromBridge) # << >>
        /\ Answered(fromBridge') = Tail(Answered(fromBridge))
    BY <2>1, Types, AnsweredFacts
  <2>3. Rising(Answered(fromBridge'), b, c)
    BY <1>3, <2>2, RisingTail
  <2>. QED BY <1>2, <1>3, <2>1, <2>3
<1>9. CASE BridgeUnchanged \/ CloseStdin \/ KillAfterGrace
  BY <1>2, <1>3, <1>9 DEF BridgeUnchanged, CloseStdin, KillAfterGrace, bridgeVars
<1>. QED
  BY <1>5, <1>6, <1>7, <1>8, <1>9
     DEF StarterStep, StartCancelled, Started, StartGivesUp, CloseFailed, MarkClosed,
         ClosingStep, BridgeExited, CloseEvents

(* The reader gives a turn the oldest answer, and drops what no turn waits *)
(* for (deliver, failPending).                                             *)
LEMMA OrderReader ==
    ASSUME SessionTypeOK, InOrder, HandleTurnEnd \/ StopReading
    PROVE  InOrder'
<1>. PICK a, b, c, d, e, f \in Nat : Cuts(a, b, c, d, e, f)
  BY DEF InOrder
<1>. USE TypeParts
<1>1. UNCHANGED <<turns, sender, outcome>>
  BY DEF HandleTurnEnd, StopReading, NextEvent, ReaderUnchanged
<1>2. ASSUME NEW b1 \in Nat, a <= b1, b1 <= c, Given(answer'.prompt, a, b1),
             Rising(Answered(fromBridge'), b1, c), UNCHANGED <<sdk, inbox, toBridge>>
      PROVE  InOrder'
  <2>1. Cuts(a, b1, c, d, e, f)'
    BY <1>1, <1>2 DEF Cuts, Unwritten
  <2>. QED BY <2>1 DEF InOrder
<1>3. /\ Rising(Answered(fromBridge), b, c) /\ Given(answer.prompt, a, b)
      /\ a <= b /\ b <= c
  BY DEF Cuts
<1>4. CASE StopReading
  <2>1. answer'.prompt \in {NoTurn, answer.prompt} /\ UNCHANGED <<fromBridge, sdk, inbox, toBridge>>
    BY <1>4 DEF StopReading, BridgeUnchanged, bridgeVars, Ending
  <2>2. Given(answer'.prompt, a, b)
    BY <1>3, <2>1 DEF Given
  <2>. QED BY <1>2, <1>3, <2>1, <2>2
<1>5. CASE HandleTurnEnd
  <2>. DEFINE event == Head(fromBridge)  n == AnsweredBy(event)
  <2>1. /\ fromBridge # << >> /\ fromBridge' = Tail(fromBridge)
        /\ event.type \in TurnEnds /\ UNCHANGED <<toBridge, sdk, inbox>>
        /\ answer' = IF Awaited(event) THEN event ELSE answer
    BY <1>5 DEF HandleTurnEnd, NextEvent, bridgeVars
  <2>2. event \in BridgeLines /\ n = event.prompt
    BY <2>1, Types DEF AnsweredBy
  <2>. HIDE DEF event
  <2>3. /\ Answered(fromBridge) \in Seq(Nat) /\ Answered(fromBridge) # << >> /\ n \in Nat
        /\ Head(Answered(fromBridge)) = n
        /\ Answered(fromBridge') = Tail(Answered(fromBridge))
    BY <2>1, <2>2, Types, AnsweredFacts DEF event
  <2>. HIDE DEF n
  <2>4. /\ Rising(Answered(fromBridge'), b, c)
        /\ n # NoTurn => b < n /\ n <= c /\ Rising(Answered(fromBridge'), n, c)
    BY <1>3, <2>3, RisingTail
  <2>5. CASE ~Awaited(event) \/ n = NoTurn
    <3>1. answer'.prompt \in {NoTurn, answer.prompt}
      BY <2>1, <2>2, <2>5
    <3>2. Given(answer'.prompt, a, b)
      BY <1>3, <3>1 DEF Given
    <3>. QED BY <1>2, <1>3, <2>1, <2>4, <3>2
  <2>6. CASE Awaited(event) /\ n # NoTurn
    <3>1. answer'.prompt = n
      BY <2>1, <2>2, <2>6
    <3>2. a < n /\ a <= n /\ n <= c
      BY <1>3, <2>3, <2>4, <2>6
    <3>3. Given(answer'.prompt, a, n)
      BY <2>3, <3>1, <3>2 DEF Given
    <3>. QED BY <1>2, <2>1, <2>3, <2>4, <2>6, <3>2, <3>3
  <2>. QED BY <2>5, <2>6
<1>. QED BY <1>4, <1>5

(* A turn is registered after all prompts written so far, and ends with    *)
(* the next answer or with an error (Send).                                *)
LEMMA OrderSend ==
    ASSUME SessionTypeOK, InOrder, NEW s \in Senders, CallSend(s) \/ SenderStep(s) \/ Abandon(s)
    PROVE  InOrder'
<1>. PICK a, b, c, d, e, f \in Nat : Cuts(a, b, c, d, e, f)
  BY DEF InOrder
<1>. USE TypeParts
<1>1. /\ Returned(outcome, a) /\ Given(answer.prompt, a, b) /\ Unwritten(f)
      /\ a <= b /\ b <= c /\ c <= d /\ d <= e /\ e <= f
      /\ Rising(Asked(toBridge), e, f)
      /\ turns \in Nat /\ sender \in [Senders -> SenderStates] /\ outcome \in [Turns -> Outcomes]
  BY DEF Cuts, TurnTaking, RestOK
<1>2. ASSUME NEW a1 \in Nat, a1 <= b, Returned(outcome', a1), Given(answer'.prompt, a1, b),
             Unwritten(f)', BridgeUnchanged
      PROVE  InOrder'
  <2>1. Cuts(a1, b, c, d, e, f)'
    BY <1>2 DEF Cuts, BridgeUnchanged, bridgeVars
  <2>. QED BY <2>1 DEF InOrder
<1>3. CASE CallSend(s) \/ RefuseTurn(s)
  <2>1. /\ \A q \in Senders : sender'[q] = "writing" => sender[q] = "writing"
        /\ UNCHANGED <<turns, answer, outcome>> /\ BridgeUnchanged
    BY <1>1, <1>3 DEF CallSend, RefuseTurn
  <2>2. Unwritten(f)'
    BY <1>1, <2>1 DEF Unwritten
  <2>. QED BY <1>1, <1>2, <2>1, <2>2
<1>4. CASE RegisterTurn(s)
  <2>1. turns' = turns + 1 /\ answer'.prompt = NoTurn /\ UNCHANGED outcome /\ BridgeUnchanged
    BY <1>4 DEF RegisterTurn, NoAnswer
  <2>2. Unwritten(f)'
    BY <1>1, <2>1 DEF Unwritten
  <2>. QED BY <1>1, <1>2, <2>1, <2>2 DEF Given
<1>5. ASSUME NEW result, EndTurn(s, result), sender[s] \in {"writing", "waiting"}
      PROVE  /\ Unwritten(f)' /\ turns \in Turns
             /\ outcome' = [outcome EXCEPT ![turns] = result]
  <2>1. pending = turns /\ turns \in Turns
    BY <1>5, InTurn
  <2>2. /\ turns' = turns /\ sender' = [sender EXCEPT ![s] = "idle"]
        /\ outcome' = [outcome EXCEPT ![turns] = result]
    BY <1>5, <2>1 DEF EndTurn
  <2>3. \A q \in Senders : sender'[q] = "writing" => sender[q] = "writing"
    BY <1>1, <2>2
  <2>. QED BY <1>1, <2>1, <2>2, <2>3 DEF Unwritten
<1>6. ASSUME EndTurn(s, Conversation!Failed), sender[s] \in {"writing", "waiting"}
      PROVE  Unwritten(f)' /\ Returned(outcome', a)
  <2>1. /\ Unwritten(f)' /\ turns \in Turns
        /\ outcome' = [outcome EXCEPT ![turns] = Conversation!Failed]
    BY <1>5, <1>6
  <2>2. Conversation!Failed.kind = "failed"
    BY DEF Conversation!Failed
  <2>3. \A t \in Turns : outcome'[t] = IF t = turns THEN Conversation!Failed ELSE outcome[t]
    BY <1>1, <2>1
  <2>. QED BY <1>1, <2>1, <2>2, <2>3 DEF Returned
<1>7. CASE StopWaiting(s) \/ Abandon(s)
  BY <1>1, <1>2, <1>6, <1>7 DEF StopWaiting, Abandon
<1>8. CASE WritePrompt(s)
  <2>1. /\ sender[s] = "writing" /\ turnMu = s /\ pending = turns /\ turns \in Turns
        /\ \A q \in Senders \ {s} : sender[q] # "writing"
    BY <1>8, InTurn DEF WritePrompt
  <2>2. CASE WriteFails
    <3>1. EndTurn(s, Conversation!Failed) /\ UNCHANGED answer /\ BridgeUnchanged
      BY <1>8, <2>2 DEF WritePrompt, WriteFails, Write, BridgeUnchanged
    <3>. QED BY <1>1, <1>2, <1>6, <2>1, <3>1
  <2>3. CASE ~WriteFails
    <3>1. /\ Write(Line("prompt", turns)) /\ sender' = [sender EXCEPT ![s] = "waiting"]
          /\ UNCHANGED <<turns, answer, outcome>>
      BY <1>8, <2>1, <2>3 DEF WritePrompt
    <3>2. Line("prompt", turns) \in HostLines /\ PromptOf(Line("prompt", turns)) = turns
      BY <2>1, LineTypes DEF Line, PromptOf
    <3>3. /\ Asked(toBridge) \in Seq(Nat)
          /\ Asked(toBridge') = Append(Asked(toBridge), turns)
          /\ UNCHANGED <<fromBridge, sdk, inbox>>
      BY <3>1, <3>2, Types, AskedFacts DEF Write, bridgeVars
    <3>4. PICK top \in Nat : top = turns /\ f < top
      BY <1>1, <2>1 DEF Unwritten
    <3>5. Rising(Asked(toBridge'), e, top) /\ e <= top
      BY <1>1, <3>3, <3>4, RisingAppend
    <3>6. Unwritten(top)'
      <4>1. \A q \in Senders : sender'[q] # "writing"
        BY <1>1, <2>1, <3>1
      <4>. QED BY <1>1, <3>1, <3>4, <4>1 DEF Unwritten
    <3>7. Cuts(a, b, c, d, e, top)'
      BY <1>1, <3>1, <3>3, <3>5, <3>6 DEF Cuts
    <3>. QED BY <3>4, <3>7 DEF InOrder
  <2>. QED BY <2>2, <2>3
<1>9. CASE TakeAnswer(s)
  <2>1. answer'.prompt = NoTurn /\ BridgeUnchanged /\ sender[s] = "waiting"
    BY <1>9 DEF TakeAnswer, NoAnswer
  <2>2. CASE answer.prompt = NoTurn
    <3>1. EndTurn(s, Conversation!Failed)
      BY <1>9, <2>2 DEF TakeAnswer
    <3>. QED BY <1>1, <1>2, <1>6, <2>1, <3>1 DEF Given
  <2>3. CASE answer.prompt # NoTurn
    <3>. DEFINE n == answer.prompt
    <3>1. EndTurn(s, Conversation!AnswerTo(n))
      BY <1>9, <2>3 DEF TakeAnswer
    <3>2. n \in Nat
      BY DEF RestOK, Endings, NoAnswer, Turns, NoTurn
    <3>3. a < n /\ n <= b
      BY <1>1, <2>3 DEF Given
    <3>. HIDE DEF n
    <3>4. /\ Unwritten(f)' /\ turns \in Turns
          /\ outcome' = [outcome EXCEPT ![turns] = Conversation!AnswerTo(n)]
      BY <1>5, <2>1, <3>1
    <3>5. Conversation!AnswerTo(n).kind = "answered" /\ Conversation!AnswerTo(n).prompt = n
      BY DEF Conversation!AnswerTo
    <3>. DEFINE last == Conversation!AnswerTo(n)
    <3>6. last.kind = "answered" /\ last.prompt = n
      BY <3>5
    <3>. HIDE DEF last
    <3>7. \A t \in Turns : outcome'[t] = IF t = turns THEN last ELSE outcome[t]
      BY <1>1, <3>4 DEF last
    <3>8. \A t \in Turns : outcome[t].kind = "answered" => outcome[t].prompt < n
      <4>1. \A t \in Turns : outcome[t].prompt \in Nat
        BY <1>1 DEF Outcomes, Conversation!Open, Conversation!Failed,
                    Conversation!AnswerTo, Turns, Conversation!NoTurn
      <4>. QED BY <1>1, <3>2, <3>3, <4>1 DEF Returned
    <3>9. n <= turns
      BY <1>1, <3>2, <3>3 DEF Unwritten
    <3>10. Returned(outcome', n)
      <4>1. ASSUME NEW t \in Turns, outcome'[t].kind = "answered"
            PROVE  outcome'[t].prompt <= n /\ outcome'[t].prompt <= t
        <5>1. CASE t = turns
          BY <3>2, <3>6, <3>7, <3>9, <5>1
        <5>2. CASE t # turns
          <6>1. outcome'[t] = outcome[t] /\ outcome[t].kind = "answered"
            BY <3>7, <4>1, <5>2
          <6>2. outcome[t].prompt < n /\ outcome[t].prompt <= t /\ outcome[t].prompt <= a
            BY <1>1, <3>8, <6>1 DEF Returned
          <6>3. outcome[t].prompt \in Nat
            BY <1>1 DEF Outcomes, Conversation!Open, Conversation!Failed,
                       Conversation!AnswerTo, Turns, Conversation!NoTurn
          <6>. QED BY <3>2, <6>1, <6>2, <6>3
        <5>. QED BY <5>1, <5>2
      <4>2. ASSUME NEW t \in Turns, outcome'[t].kind = "answered", NEW u \in Turns \ {t}
            PROVE  outcome'[u] # outcome'[t]
        <5>1. CASE t = turns
          BY <3>2, <3>6, <3>7, <3>8, <4>2, <5>1
        <5>2. CASE u = turns
          BY <3>2, <3>6, <3>7, <3>8, <4>2, <5>2
        <5>3. CASE t # turns /\ u # turns
          BY <1>1, <3>7, <4>2, <5>3 DEF Returned
        <5>. QED BY <5>1, <5>2, <5>3
      <4>. QED BY <4>1, <4>2 DEF Returned
    <3>. QED BY <1>2, <2>1, <3>2, <3>3, <3>4, <3>10 DEF Given
  <2>. QED BY <2>2, <2>3
<1>. QED BY <1>3, <1>4, <1>7, <1>8, <1>9 DEF SenderStep

(***************************************************************************)
(* Even when turns are abandoned, no two Sends return the same answer, and *)
(* none returns the answer to a later prompt, for any goroutines, turns    *)
(* and tool calls (Send, deliver and the bridge's prompts).                *)
(***************************************************************************)
THEOREM AnswersOnce == Spec => []AnsweredOnce
<1>1. SessionTypeOK /\ InOrder /\ [Next]_vars => InOrder'
  <2>. SUFFICES ASSUME SessionTypeOK, InOrder, [Next]_vars PROVE InOrder'
    OBVIOUS
  <2>1. CASE BridgeStep /\ UNCHANGED hostVars
    BY <2>1, OrderBridge, TypeParts
  <2>2. CASE HostStep
    BY <2>2, OrderCalm, OrderReader, OrderSend DEF HostStep, ReaderStep
  <2>3. CASE UNCHANGED vars
    BY <2>3 DEF vars, hostVars, bridgeVars, InOrder, Cuts, Unwritten
  <2>. QED BY <2>1, <2>2, <2>3 DEF Next
<1>2. InOrder => AnsweredOnce
  BY DEF InOrder, Cuts, Returned, AnsweredOnce
<1>. QED BY <1>1, <1>2, OrderInit, SessionTypeCorrect, PTL DEF Spec
=============================================================================
