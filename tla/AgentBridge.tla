---------------------------- MODULE AgentBridge ----------------------------
(***************************************************************************)
(* The agent bridge, bridge/claude-agent-bridge.mjs, with the two pipes it *)
(* shares with the Go session.  A line is a record; a prompt is the number *)
(* of the turn that sent it.  Node runs one callback at a time, so every   *)
(* callback, and every stretch between two awaits, is one action.  What    *)
(* the agent SDK does with the prompts it pulls is external: it answers    *)
(* them in order and runs one tool call at a time.                         *)
(***************************************************************************)
EXTENDS Integers, Sequences

CONSTANTS
    MaxTurns,       \* bound: turns of a session
    MaxToolCalls,   \* bound: tool calls of a session
    PipeBound       \* bound: unread lines the bridge adds chatter to

ASSUME BridgeAssumption ==
    MaxTurns \in Nat /\ MaxToolCalls \in Nat /\ PipeBound \in Nat

VARIABLES
    toBridge,     \* lines the host wrote and the bridge has not read
    fromBridge,   \* lines the bridge wrote and the host has not read
    alive,        \* the bridge process runs
    stdinOpen,    \* the host has not closed the bridge's stdin
    turn,         \* state.turn: the id the next result is labelled with
    inbox,        \* state.inbox: prompts (or NoTurn, for null) nobody pulled
    sdk,          \* the prompts the SDK pulled and has not answered
    toolCalls,    \* tool calls made so far, which number the next one
    called,       \* state.pendingToolResults: the calls without a result
    exiting       \* process.exit is scheduled

bridgeVars == <<turn, inbox, sdk, toolCalls, called, exiting>>

Turns == 1 .. MaxTurns
NoTurn == 0

Line(type, id) == [type |-> type, id |-> id]

\* A turn-ending event: the id it carries and, as its text, the prompt that
\* the SDK answered.
Ending(type, id, prompt) == [type |-> type, id |-> id, prompt |-> prompt]

TurnEnds == {"turn_complete", "error"}

HostLines ==
    [type : {"prompt"}, id : Turns]
        \cup [type : {"start_session", "tool_result", "close"}, id : 0 .. MaxToolCalls]

Endings == [type : TurnEnds, id : Turns \cup {NoTurn}, prompt : Turns \cup {NoTurn}]

BridgeLines == Endings \cup [type : {"ready", "text", "tool_call"}, id : 0 .. MaxToolCalls]

Send(event) == fromBridge' = Append(fromBridge, event)

BridgeTypeOK ==
    /\ alive \in BOOLEAN /\ stdinOpen \in BOOLEAN /\ exiting \in BOOLEAN
    /\ turn \in Turns \cup {NoTurn}
    /\ inbox \in Seq(Turns \cup {NoTurn})
    /\ sdk \in Seq(Turns)
    /\ toolCalls \in 0 .. MaxToolCalls
    /\ called \subseteq 1 .. toolCalls
    /\ toBridge \in Seq(HostLines) /\ fromBridge \in Seq(BridgeLines)

BridgeInit ==
    /\ toBridge = <<>> /\ fromBridge = <<>>
    /\ alive = TRUE /\ stdinOpen = TRUE
    /\ turn = NoTurn /\ inbox = <<>> /\ sdk = <<>>
    /\ toolCalls = 0 /\ called = {} /\ exiting = FALSE

-----------------------------------------------------------------------------
(* handleLine: one line of stdin.                                          *)

NextLine(type) ==
    /\ alive
    /\ toBridge # <<>>
    /\ Head(toBridge).type = type
    /\ toBridge' = Tail(toBridge)
    /\ UNCHANGED <<alive, stdinOpen>>

\* runSession opens the query and reports ready before its first await.
OnStartSession ==
    /\ NextLine("start_session")
    /\ Send(Line("ready", NoTurn))
    /\ UNCHANGED bridgeVars

OnPrompt ==
    /\ NextLine("prompt")
    /\ turn' = Head(toBridge).id
    /\ inbox' = Append(inbox, Head(toBridge).id)
    /\ UNCHANGED <<fromBridge, sdk, toolCalls, called, exiting>>

OnToolResult ==
    /\ NextLine("tool_result")
    /\ called' = called \ {Head(toBridge).id}
    /\ UNCHANGED <<fromBridge, turn, inbox, sdk, toolCalls, exiting>>

\* enqueue(null), which ends the prompts once they are pulled, and the exit.
ScheduleExit ==
    /\ inbox' = Append(inbox, NoTurn)
    /\ exiting' = TRUE
    /\ UNCHANGED <<fromBridge, turn, sdk, toolCalls, called>>

OnClose == NextLine("close") /\ ScheduleExit

\* reader.on("close"): stdin ended.
OnStdinEnd ==
    /\ alive /\ ~stdinOpen /\ toBridge = <<>> /\ ~exiting
    /\ ScheduleExit
    /\ UNCHANGED <<toBridge, alive, stdinOpen>>

-----------------------------------------------------------------------------
(* prompts(), runSession() and the tools, driven by the SDK.               *)

Working == alive /\ UNCHANGED <<toBridge, alive, stdinOpen, exiting>>

\* Mutant: a prompt is yielded twice.
PullPromptTwice ==
    /\ Working
    /\ inbox # <<>> /\ Head(inbox) # NoTurn
    /\ inbox' = Tail(inbox)
    /\ sdk' = sdk \o <<Head(inbox), Head(inbox)>>
    /\ UNCHANGED <<fromBridge, turn, toolCalls, called>>

PullPrompt ==
    /\ Working
    /\ inbox # <<>> /\ Head(inbox) # NoTurn
    /\ inbox' = Tail(inbox)
    /\ sdk' = Append(sdk, Head(inbox))
    /\ UNCHANGED <<fromBridge, turn, toolCalls, called>>

\* session_started, text and thinking: lines that end nothing.
StreamText ==
    /\ Working
    /\ sdk # <<>> /\ called = {} /\ Len(fromBridge) < PipeBound
    /\ Send(Line("text", NoTurn))
    /\ UNCHANGED <<turn, inbox, sdk, toolCalls, called>>

CallTool ==
    /\ Working
    /\ sdk # <<>> /\ called = {} /\ toolCalls < MaxToolCalls
    /\ toolCalls' = toolCalls + 1
    /\ called' = {toolCalls + 1}
    /\ Send(Line("tool_call", toolCalls + 1))
    /\ UNCHANGED <<turn, inbox, sdk>>

\* Mutant: state.turn is cleared before it is read.
ResultAfterReset ==
    /\ Working
    /\ sdk # <<>> /\ called = {}
    /\ \E type \in TurnEnds : Send(Ending(type, NoTurn, Head(sdk)))
    /\ turn' = NoTurn
    /\ sdk' = Tail(sdk)
    /\ UNCHANGED <<inbox, toolCalls, called>>

\* The SDK's result for its oldest prompt goes out under state.turn, which is
\* then cleared.
Result ==
    /\ Working
    /\ sdk # <<>> /\ called = {}
    /\ \E type \in TurnEnds : Send(Ending(type, turn, Head(sdk)))
    /\ turn' = NoTurn
    /\ sdk' = Tail(sdk)
    /\ UNCHANGED <<inbox, toolCalls, called>>

\* runSession rejected: an error without an id, and exit(1).
SessionFails ==
    /\ alive
    /\ Send(Ending("error", NoTurn, NoTurn))
    /\ alive' = FALSE
    /\ UNCHANGED <<toBridge, stdinOpen, bridgeVars>>

-----------------------------------------------------------------------------
\* The scheduled exit.
Exit ==
    /\ alive /\ exiting
    /\ alive' = FALSE
    /\ UNCHANGED <<toBridge, fromBridge, stdinOpen, bridgeVars>>

\* The process crashes, or the session's timeout or context kills it.
Killed ==
    /\ alive
    /\ alive' = FALSE
    /\ UNCHANGED <<toBridge, fromBridge, stdinOpen, bridgeVars>>

ReadLines == OnStartSession \/ OnPrompt \/ OnToolResult \/ OnClose \/ OnStdinEnd

Answering == PullPrompt \/ CallTool \/ Result

BridgeStep ==
    ReadLines \/ Answering \/ StreamText \/ SessionFails \/ Exit \/ Killed
=============================================================================
