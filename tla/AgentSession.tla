---------------------------- MODULE AgentSession ----------------------------
(***************************************************************************)
(* The Go side of an agent session, internal/provider/claudeagent.go over  *)
(* internal/exec/stream.go, composed with the bridge.  Goroutines: the one *)
(* that starts the session, the Senders that call Send, the one that calls *)
(* Close, and the reader, which runs the tool handlers inline.             *)
(***************************************************************************)
EXTENDS AgentBridge, FiniteSets

CONSTANTS
    Senders,      \* goroutines that call Send
    Abandoning,   \* those whose context may end in the middle of a turn
    NoSender,     \* nobody
    EventBuffer   \* capacity of the event channel; nobody drains it

ASSUME SessionAssumption ==
    /\ IsFiniteSet(Senders)
    /\ Abandoning \subseteq Senders /\ NoSender \notin Senders
    /\ EventBuffer \in Nat

VARIABLES
    starter,     \* StartSession: "writing", "waiting", "open", "failed"
    ready,       \* the ready channel holds an event
    sender,      \* sender[s]: "idle", "calling", "writing", "waiting"
    turnMu,      \* the sender inside its turn, or NoSender
    turns,       \* s.turns
    pending,     \* s.pendingID, and NoTurn when s.pending is nil
    answer,      \* the content of the channel s.pending
    closed,      \* s.closed
    closer,      \* Close: "no", "closed", "said", "stdin", "exited", "done"
    reader,      \* readLoop: "reading", "tool", "done"
    tool,        \* the id of the tool call whose handler runs
    events,      \* events in the channel
    eventsOpen,  \* the event channel is not closed
    outcome      \* history: outcome[t], what Send returned for turn t

hostVars == <<starter, ready, sender, turnMu, turns, pending, answer, closed,
              closer, reader, tool, events, eventsOpen, outcome>>
vars == <<toBridge, fromBridge, alive, stdinOpen, bridgeVars, hostVars>>

Conversation == INSTANCE AgentConversation
NoAnswer == [type |-> "none", id |-> NoTurn, prompt |-> NoTurn]

StarterStates == {"writing", "waiting", "open", "failed"}
SenderStates == {"idle", "calling", "writing", "waiting"}
CloserStates == {"no", "closed", "said", "stdin", "exited", "done"}
ReaderStates == {"reading", "tool", "done"}
Outcomes == {Conversation!Open, Conversation!Failed}
                \cup {Conversation!AnswerTo(p) : p \in Turns}

Init ==
    /\ BridgeInit
    /\ starter = "writing" /\ ready = FALSE
    /\ sender = [s \in Senders |-> "idle"]
    /\ turnMu = NoSender /\ turns = 0 /\ pending = NoTurn /\ answer = NoAnswer
    /\ closed = FALSE /\ closer = "no"
    /\ reader = "reading" /\ tool = 0
    /\ events = 0 /\ eventsOpen = TRUE
    /\ outcome = [t \in Turns |-> Conversation!Open]

-----------------------------------------------------------------------------
(* write: a line for the bridge, or an error.                              *)

Writable == alive /\ stdinOpen

Write(line) ==
    /\ Writable
    /\ toBridge' = Append(toBridge, line)
    /\ UNCHANGED <<fromBridge, alive, stdinOpen, bridgeVars>>

WriteFails ==
    /\ ~Writable
    /\ UNCHANGED <<toBridge, fromBridge, alive, stdinOpen, bridgeVars>>

BridgeUnchanged ==
    UNCHANGED <<toBridge, fromBridge, alive, stdinOpen, bridgeVars>>

\* emit: a full buffer drops the event.
Emit(n) == events' = IF events + n <= EventBuffer THEN events + n ELSE EventBuffer

-----------------------------------------------------------------------------
(* StartSession, after exec.Start and go readLoop().                       *)

StarterUnchanged(next) ==
    /\ starter' = next
    /\ UNCHANGED <<ready, sender, turnMu, turns, pending, answer, closed, closer,
                   reader, tool, events, eventsOpen, outcome>>

WriteStart ==
    /\ starter = "writing"
    /\ \/ Write(Line("start_session", NoTurn)) /\ StarterUnchanged("waiting")
       \/ WriteFails /\ StarterUnchanged("failed")

Started == starter = "waiting" /\ ready /\ StarterUnchanged("open") /\ BridgeUnchanged

\* Mutant: StartSession waits for ready and its context only.
StartNeverGivesUp == FALSE /\ StarterUnchanged("failed") /\ BridgeUnchanged

\* case <-session.done.
StartGivesUp ==
    /\ starter = "waiting" /\ reader = "done"
    /\ StarterUnchanged("failed")
    /\ BridgeUnchanged

\* case <-ctx.Done().
StartCancelled ==
    /\ starter = "waiting"
    /\ StarterUnchanged("failed")
    /\ BridgeUnchanged

-----------------------------------------------------------------------------
(* Send.                                                                   *)

SessionUnchanged ==
    UNCHANGED <<starter, ready, closed, closer, reader, tool, events, eventsOpen>>

Calling == {s \in Senders : sender[s] = "calling"}

CallSend(s) ==
    /\ starter = "open" /\ sender[s] = "idle"
    /\ turns + Cardinality(Calling) < MaxTurns
    /\ sender' = [sender EXCEPT ![s] = "calling"]
    /\ UNCHANGED <<turnMu, turns, pending, answer, outcome>>
    /\ SessionUnchanged /\ BridgeUnchanged

\* ErrSessionClosed.
RefuseTurn(s) ==
    /\ sender[s] = "calling" /\ turnMu = NoSender
    /\ closed
    /\ sender' = [sender EXCEPT ![s] = "idle"]
    /\ UNCHANGED <<turnMu, turns, pending, answer, outcome>>
    /\ SessionUnchanged /\ BridgeUnchanged

\* Mutant: turns are not serialized.
RegisterTurnConcurrently(s) ==
    /\ sender[s] = "calling" /\ ~closed
    /\ sender' = [sender EXCEPT ![s] = "writing"]
    /\ turnMu' = s
    /\ turns' = turns + 1
    /\ pending' = turns + 1
    /\ answer' = NoAnswer
    /\ UNCHANGED outcome
    /\ SessionUnchanged /\ BridgeUnchanged

RegisterTurn(s) ==
    /\ sender[s] = "calling" /\ turnMu = NoSender
    /\ ~closed
    /\ sender' = [sender EXCEPT ![s] = "writing"]
    /\ turnMu' = s
    /\ turns' = turns + 1
    /\ pending' = turns + 1
    /\ answer' = NoAnswer
    /\ UNCHANGED outcome
    /\ SessionUnchanged /\ BridgeUnchanged

\* Send returns: its deferred calls reset pending and unlock turnMu.
EndTurn(s, result) ==
    /\ outcome' = [outcome EXCEPT ![pending] = result]
    /\ sender' = [sender EXCEPT ![s] = "idle"]
    /\ turnMu' = NoSender
    /\ pending' = NoTurn
    /\ UNCHANGED turns
    /\ SessionUnchanged

\* Mutant: a failed write returns without its deferred calls.
WritePromptKeepingTurn(s) ==
    /\ sender[s] = "writing"
    /\ \/ /\ Write(Line("prompt", pending))
          /\ sender' = [sender EXCEPT ![s] = "waiting"]
          /\ UNCHANGED outcome
       \/ /\ WriteFails
          /\ sender' = [sender EXCEPT ![s] = "idle"]
          /\ outcome' = [outcome EXCEPT ![pending] = Conversation!Failed]
    /\ UNCHANGED <<turnMu, turns, pending, answer>>
    /\ SessionUnchanged

WritePrompt(s) ==
    /\ sender[s] = "writing"
    /\ \/ /\ Write(Line("prompt", pending))
          /\ sender' = [sender EXCEPT ![s] = "waiting"]
          /\ UNCHANGED <<turnMu, turns, pending, answer, outcome>>
          /\ SessionUnchanged
       \/ WriteFails /\ EndTurn(s, Conversation!Failed) /\ UNCHANGED answer

\* case event := <-pending.  The bridge's own failures answer no prompt.
TakeAnswer(s) ==
    /\ sender[s] = "waiting" /\ answer # NoAnswer
    /\ EndTurn(s, IF answer.prompt = NoTurn THEN Conversation!Failed
                                            ELSE Conversation!AnswerTo(answer.prompt))
    /\ answer' = NoAnswer
    /\ BridgeUnchanged

\* case <-s.done.
StopWaiting(s) ==
    /\ sender[s] = "waiting" /\ reader = "done"
    /\ EndTurn(s, Conversation!Failed)
    /\ UNCHANGED answer /\ BridgeUnchanged

\* case <-ctx.Done().
Abandon(s) ==
    /\ s \in Abandoning
    /\ sender[s] = "waiting"
    /\ EndTurn(s, Conversation!Failed)
    /\ UNCHANGED answer /\ BridgeUnchanged

-----------------------------------------------------------------------------
(* readLoop.                                                               *)

ReaderUnchanged ==
    UNCHANGED <<starter, sender, turnMu, turns, pending, closed, closer,
                eventsOpen, outcome>>

NextEvent(types) ==
    /\ reader = "reading"
    /\ fromBridge # <<>>
    /\ Head(fromBridge).type \in types
    /\ fromBridge' = Tail(fromBridge)
    /\ UNCHANGED <<toBridge, alive, stdinOpen, bridgeVars>>
    /\ ReaderUnchanged

HandleReady ==
    /\ NextEvent({"ready"})
    /\ Emit(1)
    /\ ready' = TRUE
    /\ UNCHANGED <<answer, reader, tool>>

HandleText ==
    /\ NextEvent({"text"})
    /\ Emit(1)
    /\ UNCHANGED <<ready, answer, reader, tool>>

\* deliver: the turn that waits gets the event if it carries its id, and only
\* the first one fits in its channel.
Awaited(event) == pending # NoTurn /\ event.id = pending /\ answer = NoAnswer

HandleTurnEnd ==
    /\ NextEvent(TurnEnds)
    /\ Emit(1)
    /\ answer' = IF Awaited(Head(fromBridge)) THEN Head(fromBridge) ELSE answer
    /\ UNCHANGED <<ready, reader, tool>>

\* runTool up to the handler, which runs in the reader.
HandleToolCall ==
    /\ NextEvent({"tool_call"})
    /\ Emit(1)
    /\ reader' = "tool"
    /\ tool' = Head(fromBridge).id
    /\ UNCHANGED <<ready, answer>>

\* runTool from the handler's return; an error becomes an IsError result.
HandlerReturns ==
    /\ reader = "tool"
    /\ reader' = "reading"
    /\ tool' = 0
    /\ \/ Write(Line("tool_result", tool)) /\ Emit(1)
       \/ WriteFails /\ Emit(2)
    /\ UNCHANGED <<ready, answer>>
    /\ ReaderUnchanged

\* ReadLine fails: at the end of the output, on a line of more than maxLineBytes
\* (any line may be one), or once Close's Wait has closed the pipe, lines or not.
\* failPending, and close(s.done).
StopReading ==
    /\ reader = "reading"
    /\ \/ ~alive /\ fromBridge = <<>>
       \/ fromBridge # <<>>
       \/ closer = "exited"
    /\ reader' = "done"
    /\ answer' = IF pending # NoTurn /\ answer = NoAnswer
                   THEN Ending("error", NoTurn, NoTurn) ELSE answer
    /\ UNCHANGED <<ready, tool, events>>
    /\ ReaderUnchanged /\ BridgeUnchanged

-----------------------------------------------------------------------------
(* Close.                                                                  *)

CloserStep(from, to) ==
    /\ closer = from
    /\ closer' = to
    /\ UNCHANGED <<starter, ready, sender, turnMu, turns, pending, answer,
                   reader, tool, events, outcome>>

\* The owner of an open session calls it at any time, a failed start at once.
MarkClosed ==
    /\ starter \in {"open", "failed"}
    /\ CloserStep("no", "closed")
    /\ closed' = TRUE
    /\ UNCHANGED eventsOpen /\ BridgeUnchanged

SayClose ==
    /\ CloserStep("closed", "said")
    /\ Write(Line("close", NoTurn)) \/ WriteFails
    /\ UNCHANGED <<closed, eventsOpen>>

\* Process.Close: the bridge's stdin, then Wait.
CloseStdin ==
    /\ CloserStep("said", "stdin")
    /\ stdinOpen' = FALSE
    /\ UNCHANGED <<closed, eventsOpen, toBridge, fromBridge, alive, bridgeVars>>

BridgeExited ==
    /\ CloserStep("stdin", "exited")
    /\ ~alive
    /\ UNCHANGED <<closed, eventsOpen>> /\ BridgeUnchanged

\* Mutant: Close waits for the process as long as it takes.
NeverKill == FALSE /\ CloserStep("stdin", "exited") /\ UNCHANGED <<closed, eventsOpen>>

\* closeGrace is over: the process is killed.
KillAfterGrace ==
    /\ CloserStep("stdin", "exited")
    /\ alive
    /\ alive' = FALSE
    /\ UNCHANGED <<closed, eventsOpen, toBridge, fromBridge, stdinOpen, bridgeVars>>

\* Mutant: the event channel is closed while the reader may still run.
CloseEventsAtOnce ==
    /\ CloserStep("exited", "done")
    /\ eventsOpen' = FALSE
    /\ UNCHANGED closed /\ BridgeUnchanged

\* <-s.done, and close(s.events).
CloseEvents ==
    /\ CloserStep("exited", "done")
    /\ reader = "done"
    /\ eventsOpen' = FALSE
    /\ UNCHANGED closed /\ BridgeUnchanged

-----------------------------------------------------------------------------
\* A failed StartSession closes the session before it returns.
CloseFailed == starter = "failed" /\ MarkClosed

StarterStep == WriteStart \/ Started \/ StartGivesUp \/ CloseFailed

SenderStep(s) ==
    \/ RefuseTurn(s) \/ RegisterTurn(s) \/ WritePrompt(s)
    \/ TakeAnswer(s) \/ StopWaiting(s)

ReaderStep ==
    \/ HandleReady \/ HandleText \/ HandleTurnEnd \/ HandleToolCall
    \/ HandlerReturns \/ StopReading

ClosingStep == SayClose \/ CloseStdin \/ BridgeExited \/ KillAfterGrace \/ CloseEvents

HostStep ==
    \/ StarterStep \/ StartCancelled
    \/ \E s \in Senders : CallSend(s) \/ SenderStep(s) \/ Abandon(s)
    \/ ReaderStep
    \/ MarkClosed \/ ClosingStep

Next == (BridgeStep /\ UNCHANGED hostVars) \/ HostStep

Spec == Init /\ [][Next]_vars

(***************************************************************************)
(* Fairness.  Goroutines run, and the host tools, which read what was      *)
(* loaded before the session started, return.  Nothing makes a caller call *)
(* Send or Close or end its context.  The bridge is not trusted: either it *)
(* reads its lines and the SDK answers, or all that is certain is that the *)
(* session's timeout kills it.                                             *)
(***************************************************************************)
HostFairness ==
    /\ WF_vars(StarterStep)
    /\ \A s \in Senders : WF_vars(SenderStep(s))
    /\ WF_vars(ReaderStep)
    /\ WF_vars(ClosingStep)

BridgeFairness ==
    /\ WF_vars(ReadLines /\ UNCHANGED hostVars)
    /\ WF_vars(Answering /\ UNCHANGED hostVars)

Timeout == WF_vars(Killed /\ UNCHANGED hostVars)

ServedSpec == Spec /\ HostFairness /\ BridgeFairness
TimedSpec == Spec /\ HostFairness /\ Timeout

-----------------------------------------------------------------------------
(* The type of every variable, and what the control states mean for the    *)
(* mutex, the pending turn and the session's flags.                        *)
SessionTypeOK ==
    /\ BridgeTypeOK
    /\ starter \in StarterStates /\ ready \in BOOLEAN /\ closed \in BOOLEAN
    /\ sender \in [Senders -> SenderStates]
    /\ turnMu \in Senders \cup {NoSender}
    /\ turns \in Nat /\ turns + Cardinality(Calling) <= MaxTurns
    /\ pending \in {NoTurn, turns}
    /\ answer \in Endings \cup {NoAnswer}
    /\ closer \in CloserStates /\ closed = (closer # "no")
    /\ reader \in ReaderStates /\ tool \in 0 .. MaxToolCalls
    /\ events \in 0 .. EventBuffer /\ eventsOpen \in BOOLEAN
    /\ outcome \in [Turns -> Outcomes]
    /\ \A s \in Senders : (turnMu = s) = (sender[s] \in {"writing", "waiting"})
    /\ (pending = NoTurn) = (turnMu = NoSender)

(* Send returns the answer to its own prompt, never to another turn's      *)
(* (deliver, claudeagent.go:454-468, and the id the bridge echoes).        *)
AnswersOwnTurn ==
    \A t \in Turns : outcome[t].kind = "answered" => outcome[t].prompt = t

(* Even when turns are abandoned, no two Sends return the same answer, and *)
(* none returns the answer to a later prompt.                              *)
AnsweredOnce ==
    \A t \in Turns : outcome[t].kind = "answered" =>
        /\ outcome[t].prompt <= t
        /\ \A u \in Turns \ {t} : outcome[u] # outcome[t]

(* The reader, which alone emits and runs the tool handlers, has stopped   *)
(* before Close closes the event channel: an emit on a closed channel      *)
(* would panic, and a handler would outlive the session that owns it.      *)
NoEmitAfterClose == reader # "done" => eventsOpen

(* Every Send returns: answered, refused, failed, or stopped with the      *)
(* bridge (Send and readLoop; the event buffer may be full).               *)
SendReturns == \A s \in Senders : sender[s] = "calling" ~> sender[s] = "idle"

(* Close returns, although nothing says that the bridge exits when it is   *)
(* told to (Process.Close kills it after closeGrace).                      *)
CloseReturns == closer = "closed" ~> closer = "done"

(* StartSession returns, and a failed one has stopped bridge and reader.   *)
StartReturns ==
    /\ <>(starter \in {"open", "failed"})
    /\ starter = "failed" ~> closer = "done"

(* The session is a conversation (AgentConversation).                      *)
ImplementsConversation == Conversation!Spec
=============================================================================
