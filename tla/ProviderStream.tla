---------------------------- MODULE ProviderStream ----------------------------
(***************************************************************************)
(* A provider's send: the request goes out, the answer comes in events,     *)
(* and a call of send ends with a text, with tool calls, aborted or with an *)
(* error.  OpenAI is asked over a WebSocket and, once that failed, over SSE *)
(* for as long as the process lives; ZAI is asked over SSE and sends text   *)
(* only.  A delta is named by the transport it came over and its number.    *)
(***************************************************************************)
EXTENDS Naturals, Sequences, SequencesExt

CONSTANTS
  MaxSends,   \* calls of send
  MaxTexts,   \* text deltas of one stream
  MaxCalls,   \* tool calls of one stream
  MaxWire     \* events under way

VARIABLES
  provider,    \* "openai" or "zai"
  wsDisabled,  \* the WebSocket failed once
  transport,   \* "ws" or "sse"
  pc,          \* "idle", "connecting", "reading", "checked"
  abort,       \* the abort signal
  server,      \* what the server said in this stream, and how it ended
  wire,        \* events on their way, or in the buffer of the stream
  buffered,    \* how many of them have arrived
  state,       \* OpenAiStreamState
  shown,       \* deltas given to the output hook during this send
  late,        \* how many of them after the abort signal was set
  result,      \* how the last send ended
  sends        \* calls of send so far

vars == <<provider, wsDisabled, transport, pc, abort, server, wire, buffered,
          state, shown, late, result, sends>>

Silent == [texts |-> <<>>, calls |-> <<>>, open |-> 0, args |-> <<>>, over |-> "no"]
Blank == [text |-> <<>>, calls |-> <<>>, id |-> 0, args |-> <<>>]
Result(kind, text, calls) == [kind |-> kind, text |-> text, calls |-> calls]

Init ==
  /\ provider \in {"openai", "zai"} /\ wsDisabled = FALSE /\ transport = "sse"
  /\ pc = "idle" /\ abort = FALSE
  /\ server = Silent /\ wire = <<>> /\ buffered = 0 /\ state = Blank
  /\ shown = <<>> /\ late = 0 /\ result = Result("none", <<>>, <<>>) /\ sends = 0

-----------------------------------------------------------------------------
(* The server.  It is asked and answers in events, any of which may be the  *)
(* last one before the connection is closed or breaks.                      *)

Event(type, n, arg) == [type |-> type, n |-> n, arg |-> arg]

Says(e) == Len(wire) < MaxWire /\ server.over = "no" /\ wire' = Append(wire, e)

SaysText ==
  LET n == Len(server.texts) + 1
  IN  /\ n <= MaxTexts /\ Says(Event("text", n, <<>>))
      /\ server' = [server EXCEPT !.texts = Append(@, <<transport, n>>)]

\* One call after the other: its beginning, its arguments in parts, its end,
\* which repeats them or does not.
SaysCall ==
  LET n == Len(server.calls) + 1
  IN  /\ provider = "openai"
      /\ \/ /\ server.open = 0 /\ n <= MaxCalls /\ Says(Event("added", n, <<>>))
            /\ server' = [server EXCEPT !.open = n, !.args = <<>>]
         \/ /\ server.open # 0 /\ Len(server.args) < 2
            /\ LET part == <<n, Len(server.args) + 1>>
               IN  Says(Event("arguments", n, <<part>>)) /\ server' = [server EXCEPT !.args = Append(@, part)]
         \/ /\ server.open # 0
            /\ \E repeated \in BOOLEAN :
                 Says(Event(IF repeated THEN "done_repeated" ELSE "done", n, server.args))
            /\ server' = [server EXCEPT !.open = 0,
                            !.calls = Append(@, [id |-> n, args |-> server.args])]

SaysEnd ==
  \/ /\ server.open = 0 /\ Says(Event("completed", 0, <<>>))
     /\ server' = [server EXCEPT !.over = "completed"]
  \/ /\ Says(Event("error", 0, <<>>)) /\ server' = [server EXCEPT !.over = "error"]
  \/ /\ server.over = "no" /\ UNCHANGED wire
     /\ \E how \in {"closed", "broken"} : server' = [server EXCEPT !.over = how]

Serve ==
  /\ pc \in {"reading", "checked"} /\ (SaysText \/ SaysCall \/ SaysEnd)
  /\ UNCHANGED <<provider, wsDisabled, transport, pc, abort, buffered, state, shown,
                 late, result, sends>>

-----------------------------------------------------------------------------
(* The call of send.                                                       *)

Stop ==
  /\ abort = FALSE /\ pc # "idle" /\ abort' = TRUE
  /\ UNCHANGED <<provider, wsDisabled, transport, pc, server, wire, buffered, state,
                 shown, late, result, sends>>

\* Wrong variant: what came over the WebSocket is kept.
OpenAgain(t) ==
  /\ transport' = t /\ server' = Silent /\ wire' = <<>> /\ buffered' = 0
  /\ state' = (IF t = "sse" /\ pc # "idle" THEN state ELSE Blank)

\* A stream begins, over the given transport, with nothing received.
Open(t) ==
  /\ transport' = t /\ server' = Silent /\ wire' = <<>> /\ buffered' = 0 /\ state' = Blank

Send ==
  /\ pc = "idle" /\ sends < MaxSends /\ sends' = sends + 1
  /\ pc' = "connecting" /\ abort' = FALSE /\ shown' = <<>> /\ late' = 0
  /\ result' = Result("none", <<>>, <<>>)
  /\ Open(IF provider = "openai" /\ ~wsDisabled THEN "ws" ELSE "sse")
  /\ UNCHANGED <<provider, wsDisabled>>

Return(r) ==
  /\ pc' = "idle" /\ result' = r
  /\ UNCHANGED <<provider, wsDisabled, transport, abort, server, wire, buffered, state,
                 shown, late, sends>>

Aborted == Result("aborted", <<>>, <<>>)

\* into_turn_result: a text that came with tool calls is left out.
Answer ==
  IF state.calls # <<>> THEN Result("calls", <<>>, state.calls)
  ELSE Result("text", state.text, <<>>)

\* The select! on the abort signal while something is awaited: the signal is
\* looked at every 20 ms, so that it may be seen later than what was awaited.
SeeAbort == pc \in {"connecting", "reading"} /\ abort /\ Return(Aborted)

Connect ==
  /\ pc = "connecting" /\ pc' = "reading"
  /\ UNCHANGED <<provider, wsDisabled, transport, abort, server, wire, buffered, state,
                 shown, late, result, sends>>

\* The WebSocket failed, if it was one: the same request over SSE, which
\* begins by looking at the signal.
Failed ==
  \/ transport = "sse" /\ Return(Result("error", <<>>, <<>>))
  \/ /\ transport = "ws" /\ wsDisabled' = TRUE
     /\ IF abort THEN pc' = "idle" /\ result' = Aborted ELSE pc' = "connecting" /\ UNCHANGED result
     /\ Open("sse")
     /\ UNCHANGED <<provider, abort, shown, late, sends>>

ConnectFails == pc = "connecting" /\ Failed

\* A message, or a chunk with one or more blocks: blocks that are only partly
\* there wait for the rest.
Receive ==
  /\ pc = "reading" /\ buffered = 0
  /\ \E k \in 1..Len(wire) : (transport = "ws" => k = 1) /\ buffered' = k
  /\ UNCHANGED <<provider, wsDisabled, transport, pc, abort, server, wire, state, shown,
                 late, result, sends>>

\* Wrong variant: the signal is looked at only while a chunk is awaited.
CheckNothing ==
  /\ pc = "reading" /\ buffered > 0 /\ pc' = "checked"
  /\ UNCHANGED <<provider, wsDisabled, transport, abort, server, wire, buffered, state,
                 shown, late, result, sends>>

\* The signal is looked at before each message or block.
Check ==
  /\ pc = "reading" /\ buffered > 0
  /\ IF abort THEN Return(Aborted)
     ELSE /\ pc' = "checked"
          /\ UNCHANGED <<provider, wsDisabled, transport, abort, server, wire, buffered,
                         state, shown, late, result, sends>>

\* apply_openai_response_event, process_sse_line_with_hook
Step(s, e) ==
  CASE e.type = "text" -> [s EXCEPT !.text = Append(@, <<transport, e.n>>)]
    [] e.type = "added" -> [s EXCEPT !.id = e.n, !.args = <<>>]
    [] e.type = "arguments" -> [s EXCEPT !.args = @ \o e.arg]
    [] e.type = "done" ->
         [s EXCEPT !.calls = Append(@, [id |-> s.id, args |-> s.args]), !.id = 0, !.args = <<>>]
    [] e.type = "done_repeated" ->
         [s EXCEPT !.calls = Append(@, [id |-> e.n, args |-> e.arg]), !.id = 0, !.args = <<>>]
    [] OTHER -> s

Apply ==
  /\ pc = "checked" /\ wire[1].type \notin {"completed", "error"} /\ pc' = "reading"
  /\ wire' = Tail(wire) /\ buffered' = buffered - 1 /\ state' = Step(state, wire[1])
  /\ IF wire[1].type = "text"
     THEN /\ shown' = Append(shown, <<transport, wire[1].n>>)
          /\ late' = late + (IF abort THEN 1 ELSE 0)
     ELSE UNCHANGED <<shown, late>>
  /\ UNCHANGED <<provider, wsDisabled, transport, abort, server, result, sends>>

Complete == pc = "checked" /\ wire[1].type = "completed" /\ Return(Answer)

ErrorEvent == pc = "checked" /\ wire[1].type = "error" /\ Failed

\* A stream that is closed early ends the answer like one that is complete;
\* the last block of it may be there in part, and is not looked at.
EndOfStream ==
  /\ pc = "reading" /\ buffered = 0 /\ server.over = "closed"
  /\ wire = <<>> \/ (transport = "sse" /\ Len(wire) = 1)
  /\ Return(Answer)

\* What was on its way is lost.
ReadFails == pc = "reading" /\ buffered = 0 /\ server.over = "broken" /\ Failed

Next ==
  \/ Serve \/ Stop \/ Send \/ SeeAbort \/ Connect \/ ConnectFails \/ Receive \/ Check
  \/ Apply \/ Complete \/ ErrorEvent \/ EndOfStream \/ ReadFails

Spec == Init /\ [][Next]_vars

-----------------------------------------------------------------------------
(* Properties.                                                             *)

TypeOK ==
  /\ pc \in {"idle", "connecting", "reading", "checked"} /\ transport \in {"ws", "sse"}
  /\ buffered \in 0..Len(wire) /\ Len(wire) <= MaxWire /\ abort \in BOOLEAN
  /\ result.kind \in {"none", "text", "calls", "aborted", "error"} /\ sends \in 0..MaxSends

\* Wherever the WebSocket failed and SSE took over: an answer is what one
\* stream said, with every call under its own name and with all of its
\* arguments, and the text of it is what was shown last.
AnswerIsOneStream ==
  /\ result.kind \in {"text", "calls"} =>
       /\ IsPrefix(result.text, server.texts) /\ IsPrefix(result.calls, server.calls)
       /\ IsSuffix(result.text, shown)
       /\ server.over = "completed" =>
            IF server.calls = <<>> THEN result.text = server.texts ELSE result.calls = server.calls

\* However many deltas came in one chunk: after the user stopped the turn at
\* most the one that was being handled is still shown.
LateAtMostOne == late <= 1
=============================================================================
