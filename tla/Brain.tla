------------------------------- MODULE Brain -------------------------------
(***************************************************************************)
(* One decision of a run: get_brain picks a provider, and decide() of that     *)
(* brain talks to its model for at most MaxLoop rounds.  Tool calls only queue  *)
(* actions, which the orchestrator performs when decide() has returned.         *)
(* Messages are known by their role and by the tool calls that they make or     *)
(* answer; a call is <<round, position>>.                                       *)
(***************************************************************************)
EXTENDS Integers, Sequences, FiniteSets

CONSTANTS
    Compatible,    \* the providers that speak the OpenAI protocol
    MaxLoop,       \* _MAX_LOOP
    KeepRounds,    \* keep_rounds
    MaxCalls       \* bound on the tool calls of one response

ASSUME BrainAssumption ==
    MaxLoop \in Nat /\ KeepRounds \in Nat /\ MaxCalls \in Nat

VARIABLES
    bpc,         \* start, compact, call, handle, done, raised
    provider,    \* chosen by get_brain
    messages,    \* the transcript: [role, calls]
    round,       \* iterations begun
    made,        \* the calls of the response
    todoCalls,   \* those still to be handled
    answered,    \* tool_results of this round
    ending,      \* stop_reason is end_turn, or there are no calls
    queued,      \* all_actions, by the calls that queued them
    failed         \* an API call failed or a tool raised

bVars == <<bpc, provider, messages, round, made, todoCalls, answered, ending, queued, failed>>

Claude == "claude"
Msg(role, calls) == [role |-> role, calls |-> calls]

\* Claude has its system prompt outside of the list.
Opening(p) == (IF p = Claude THEN <<>> ELSE <<Msg("system", {})>>) \o <<Msg("user", {})>>

\* A round starts at each user message.  The tool results of Claude are user
\* messages, those of the others are not.
RoundStarts(ms) == {i \in DOMAIN ms : ms[i].role = "user"}
From(ms, i)     == SubSeq(ms, i, Len(ms))

\* keep_from: the KeepRounds-th round start from the end, or the first one if
\* there are not so many or KeepRounds is 0, for round_starts[-0] is the first.
KeepFrom(ms) ==
    LET since(i) == Cardinality({j \in RoundStarts(ms) : j >= i})
        all == Cardinality(RoundStarts(ms))
    IN  CHOOSE i \in RoundStarts(ms) :
            since(i) = IF KeepRounds \in 1 .. all THEN KeepRounds ELSE all

\* compact_messages over its budget.
Kept(ms) ==
    IF RoundStarts(ms) = {} THEN ms
    ELSE (IF ms[1].role = "system" THEN <<ms[1]>> ELSE <<>>) \o From(ms, KeepFrom(ms))

----------------------------------------------------------------------------

\* get_brain: the wanted provider if it is enabled and has its key; with auto
\* the first such of auto_order.
Usable(p, on, keyed) == p \in on /\ p \in keyed
Select(want, order, on, keyed) ==
    /\ bpc = "start"
    /\ LET pick == IF want # "auto" THEN <<want>> ELSE order
           good == SelectSeq(pick, LAMBDA p : Usable(p, on, keyed))
       IN IF good = <<>> THEN bpc' = "raised" /\ failed' = TRUE /\ UNCHANGED <<provider, messages>>
          ELSE /\ provider' = Head(good)
               /\ messages' = Opening(Head(good))
               /\ bpc' = "compact"
               /\ UNCHANGED failed
    /\ UNCHANGED <<round, made, todoCalls, answered, ending, queued>>

\* A round begins: the estimate is over the budget, or it is not.  estimate_tokens
\* calls get() on every message, and the OpenAI brain has appended the client
\* library's message object, which has no such method.
Compact(over) ==
    /\ bpc = "compact"
    /\ IF round = MaxLoop THEN bpc' = "done" /\ UNCHANGED <<round, messages>>
       ELSE /\ round' = round + 1
            /\ IF provider # Claude /\ \E i \in DOMAIN messages : messages[i].role = "assistant"
               THEN bpc' = "raised" /\ UNCHANGED messages
               ELSE /\ messages' = IF over THEN Kept(messages) ELSE messages
                    /\ bpc' = "call"
    /\ UNCHANGED <<provider, made, todoCalls, answered, ending, queued, failed>>

\* The model answers with n tool calls.  OpenAICompatibleBrain appends the
\* message and looks at its calls; Claude looks at stop_reason in the end.
Respond(n, endTurn) ==
    /\ bpc = "call"
    /\ made' = {<<round, k>> : k \in 1..n}
    /\ todoCalls' = [k \in 1..n |-> <<round, k>>]
    /\ answered' = {}
    /\ ending' = (n = 0 \/ (provider = Claude /\ endTurn))
    /\ messages' = IF provider = Claude THEN messages
                   ELSE Append(messages, Msg("assistant", made'))
    /\ bpc' = "handle"
    /\ UNCHANGED <<provider, round, queued, failed>>

\* 120 seconds pass, or the request fails.
ApiFails ==
    /\ bpc = "call"
    /\ bpc' = "raised" /\ failed' = TRUE
    /\ UNCHANGED <<provider, messages, round, made, todoCalls, answered, ending, queued>>

Handled == todoCalls' = Tail(todoCalls)

\* Mutant of HandleCall: a call that queues no action is not answered.
HandleCall_ActionsOnly(acts) ==
    /\ bpc = "handle" /\ todoCalls # <<>>
    /\ queued' = IF acts THEN Append(queued, Head(todoCalls)) ELSE queued
    /\ answered' = IF acts THEN answered \cup {Head(todoCalls)} ELSE answered
    /\ Handled
    /\ UNCHANGED <<bpc, provider, messages, round, made, ending, failed>>

\* One tool: a query, an unknown tool or a verb of none queues no action.
HandleCall(acts) ==
    /\ bpc = "handle" /\ todoCalls # <<>>
    /\ queued' = IF acts THEN Append(queued, Head(todoCalls)) ELSE queued
    /\ answered' = answered \cup {Head(todoCalls)}
    /\ Handled
    /\ UNCHANGED <<bpc, provider, messages, round, made, ending, failed>>

\* Arguments that are no JSON: the call is skipped, without an answer.
Malformed ==
    /\ bpc = "handle" /\ todoCalls # <<>> /\ provider # Claude
    /\ Handled
    /\ UNCHANGED <<bpc, provider, messages, round, made, answered, ending, queued, failed>>

\* A parameter is missing, or hyprctl or the screenshot fails.
ToolRaises ==
    /\ bpc = "handle" /\ todoCalls # <<>>
    /\ bpc' = "raised" /\ failed' = TRUE
    /\ UNCHANGED <<provider, messages, round, made, todoCalls, answered, ending, queued>>

EndRound ==
    /\ bpc = "handle" /\ todoCalls = <<>>
    /\ IF ending THEN bpc' = "done" /\ UNCHANGED messages
       ELSE /\ bpc' = "compact"
            /\ messages' =
                 IF provider = Claude
                 THEN messages \o <<Msg("assistant", made), Msg("user", answered)>>
                 ELSE IF answered = {} THEN messages
                 ELSE Append(messages, Msg("tool", answered))
    /\ UNCHANGED <<provider, round, made, todoCalls, answered, ending, queued, failed>>

----------------------------------------------------------------------------

bInit ==
    /\ bpc = "start" /\ provider = "none"
    /\ messages = <<>> /\ round = 0 /\ queued = <<>>
    /\ made = {} /\ todoCalls = <<>> /\ answered = {} /\ ending = FALSE /\ failed = FALSE

Providers == {Claude} \cup Compatible

bStep ==
    \/ \E over \in BOOLEAN : Compact(over)
    \/ \E n \in 0..MaxCalls, e \in BOOLEAN : Respond(n, e)
    \/ \E acts \in BOOLEAN : HandleCall(acts)
    \/ ApiFails \/ Malformed \/ ToolRaises \/ EndRound

bNext ==
    \/ \E want \in Providers \cup {"auto"}, order \in Providers \X Providers,
          on, keyed \in SUBSET Providers : Select(want, order, on, keyed)
    \/ bStep

\* The model answers, or the call to it times out; a tool returns or raises.
bFair == WF_bVars(bStep)

bSpec == bInit /\ [][bNext]_bVars /\ bFair

----------------------------------------------------------------------------
(* Properties *)

\* In every transcript that is sent to Claude the calls of an assistant message
\* are answered by the next message, all of them and no others, however often it
\* was compacted; only the first message may answer calls that were cut off.
CallsAreAnswered ==
    provider = Claude /\ bpc = "call" =>
        \A i \in DOMAIN messages :
            /\ messages[i].role = "assistant" =>
                i < Len(messages) /\ messages[i + 1] = Msg("user", messages[i].calls)
            /\ i > 1 /\ messages[i].role = "user" => messages[i - 1].role = "assistant"

\* A decision may take up to MaxLoop rounds of tool use: decide() fails only
\* when the API or a tool has failed.
RaisesOnlyOnFailure == bpc = "raised" => failed
=============================================================================
