---------------------------- MODULE ReplyRoutes ----------------------------
(***************************************************************************)
(* What becomes of one stream of generation events on each route of the    *)
(* API: the OpenAI stream and whole reply of chat and of completions       *)
(* (api/openai_compat.py), and the Anthropic stream and whole message      *)
(* (api/anthropic_stream.py, anthropic_compat.py).  A worker sends its     *)
(* tool calls whole; a provider streams them in parts, by index.  One      *)
(* stream is served on one route; here all routes are fed the same one,    *)
(* so that what their clients read can be compared.                        *)
(***************************************************************************)
EXTENDS Integers, Sequences, SequencesExt, FiniteSets

CONSTANTS
  Thinking,    \* whether the Anthropic request asked for thinking blocks
  MaxEvents    \* bound: events of a provider

ASSUME BoundNat == Thinking \in BOOLEAN /\ MaxEvents \in Nat

VARIABLES
  chat,     \* the OpenAI stream: chunks, role sent, completed, failed
  whole,    \* the OpenAI reply put together
  legacy,   \* the completions stream, and the reply put together
  wire,     \* the Anthropic stream: frames, _index + 1, _open_kind, stop_reason
  message,  \* the Anthropic message put together: content, stop_reason
  opened,   \* tool calls the provider began
  events,   \* events read
  over      \* "no"; "error", "eof" or "gone"

routeVars == <<chat, whole, legacy, wire, message, opened, events, over>>

Item(type, body) == [type |-> type, body |-> body]
Call(name, arguments) == [name |-> name, arguments |-> arguments]
\* A part of a streamed call: an id and a name come with its first part only.
Part(index, new, arguments) == [index |-> index, new |-> new, arguments |-> arguments]

RouteInit ==
  /\ chat = [chunks |-> <<Item("role", <<>>)>>, completed |-> FALSE, failed |-> FALSE, tools |-> FALSE]
  /\ whole = [text |-> <<>>, reasoning |-> <<>>, calls |-> <<>>, finish |-> "stop"]
  /\ legacy = [chunks |-> <<>>, completed |-> FALSE, failed |-> FALSE, text |-> <<>>]
  /\ wire = [frames |-> <<Item("message_start", <<>>)>>, index |-> 0, open |-> "none", reason |-> "none"]
  /\ message = [content |-> <<>>, reason |-> "none"]
  /\ opened = 0 /\ events = 0 /\ over = "no"

-----------------------------------------------------------------------------
(* The OpenAI routes. *)
\* The body of "completed": the reason, and whether a stop sequence matched.
Done(finish, matched) == [finish |-> finish, matched |-> matched]
Known(reason, reasons) == IF reason \in reasons THEN reason ELSE "stop"
ChatFinish(reason) == Known(reason, {"stop", "length", "tool_calls"})
TextFinish(reason) == Known(reason, {"stop", "length"})
Send(route, items) == [route EXCEPT !.chunks = @ \o items]

\* _tool_call_stream_chunks: a name, then the arguments in pieces.
CallChunks(calls) ==
  FlattenSeq([k \in DOMAIN calls |->
    <<Item("calls", <<Part(k - 1, TRUE, <<>>)>>)>>
    \o [j \in DOMAIN calls[k].arguments |-> Item("calls", <<Part(k - 1, FALSE, <<calls[k].arguments[j]>>)>>)]])
OnChat(type, body) ==
  CASE type \in {"delta", "reasoning_delta"} -> Send(chat, <<Item(type, body)>>)
    [] type = "tool_calls" -> [Send(chat, CallChunks(body)) EXCEPT !.tools = TRUE]
    [] type = "tool_call_delta" -> [Send(chat, <<Item("calls", body)>>) EXCEPT !.tools = TRUE]
    [] type = "completed" ->
         IF chat.completed THEN chat
         ELSE [Send(chat, <<Item("finish", ChatFinish(body.finish))>>) EXCEPT !.completed = TRUE]

\* _merge_tool_call_deltas, by the index of each part.
Reaching(index, s, item) ==
  IF index < Len(s) THEN s ELSE [k \in 1..(index + 1) |-> IF k <= Len(s) THEN s[k] ELSE item]
Padded(calls, index) == Reaching(index, calls, Call(0, <<>>))
(* mutant: a part belongs to the call of its position in the event. *)
MergePart_Position(calls, part) ==
  [Padded(calls, 0) EXCEPT ![1].name = IF part.new THEN @ + 1 ELSE @,
                           ![1].arguments = @ \o part.arguments]
MergePart(calls, part) ==
  [Padded(calls, part.index) EXCEPT ![part.index + 1].name = IF part.new THEN @ + 1 ELSE @,
                                    ![part.index + 1].arguments = @ \o part.arguments]
Merge(calls, parts) == FoldLeft(MergePart, calls, parts)
Normalized(calls) == [k \in DOMAIN calls |-> Call(1, calls[k].arguments)]

OnWhole(type, body) ==
  CASE type = "delta" -> [whole EXCEPT !.text = @ \o body]
    [] type = "reasoning_delta" -> [whole EXCEPT !.reasoning = @ \o body]
    [] type = "tool_calls" -> [whole EXCEPT !.calls = Normalized(body), !.finish = "tool_calls"]
    [] type = "tool_call_delta" -> [whole EXCEPT !.calls = Merge(@, body)]
    [] type = "completed" -> [whole EXCEPT !.finish = body.finish]
WholeFinish == IF whole.calls # <<>> THEN "tool_calls" ELSE whole.finish

OnLegacy(type, body) ==
  CASE type \in {"delta", "reasoning_delta"} -> [Send(legacy, <<Item("delta", body)>>) EXCEPT !.text = @ \o body]
    [] type = "completed" ->
         IF legacy.completed THEN legacy
         ELSE [Send(legacy, <<Item("finish", TextFinish(body.finish))>>) EXCEPT !.completed = TRUE]
    [] OTHER -> legacy

\* What both streams do after the events: an ending unless there was one, [DONE].
Closed(s) ==
  Send(s, (IF s.completed \/ s.failed THEN <<>> ELSE <<Item("finish", "stop")>>) \o <<Item("done", <<>>)>>)
Failed(s) == [Send(s, <<Item("error", <<>>)>>) EXCEPT !.failed = TRUE]

-----------------------------------------------------------------------------
(* The Anthropic stream. *)
Frame(type, index, kind, body) == [type |-> type, index |-> index, kind |-> kind, body |-> body]
Push(w, frames) == [w EXCEPT !.frames = @ \o frames]
CloseBlock(w) ==
  IF w.open = "none" THEN w
  ELSE [Push(w, <<Frame("content_block_stop", w.index - 1, w.open, <<>>)>>) EXCEPT !.open = "none"]
OpenAt(w, kind) ==
  [Push(w, <<Frame("content_block_start", w.index, kind, <<>>)>>) EXCEPT !.open = kind, !.index = @ + 1]
(* mutant: the block before is left open. *)
OpenBlock_Over(w, kind) == OpenAt(w, kind)
OpenBlock(w, kind) == OpenAt(CloseBlock(w), kind)
Opened(w, kind) == IF w.open = kind THEN w ELSE OpenBlock(w, kind)
Fill(w, kind, body) ==
  IF body = <<>> THEN w ELSE Push(w, <<Frame("content_block_delta", w.index - 1, kind, body)>>)

Text(w, body) == Fill(Opened(w, "text"), "text", body)
Thought(w, body) == Fill(Opened(w, "thinking"), "thinking", body)
ToolUse(w, call) == CloseBlock(Fill(OpenBlock(w, "tool_use"), "tool_use", call.arguments))
ToolPart(w, part) ==
  Fill(IF part.new THEN OpenBlock(w, "tool_use") ELSE Opened(w, "tool_use"), "tool_use", part.arguments)
ToolUses(w, calls) == FoldLeft(ToolUse, w, calls)
ToolParts(w, parts) == FoldLeft(ToolPart, w, parts)

FinishReason(finish) ==
  CASE finish = "length" -> "max_tokens" [] finish = "tool_calls" -> "tool_use" [] OTHER -> "end_turn"
StopReason(reason, body) ==
  CASE body.matched -> "stop_sequence"
    [] reason = "tool_use" /\ ~body.matched -> reason
    [] OTHER -> FinishReason(body.finish)
\* The events of an empty reply still frame one block.
LastBlock(w) == CloseBlock(IF w.index = 0 THEN OpenBlock(w, "text") ELSE w)
Ending(w, reason) ==
  [Push(LastBlock(w), <<Item("message_delta", reason), Item("message_stop", <<>>)>>) EXCEPT !.reason = reason]

OnWire(type, body) ==
  CASE type = "delta" -> Text(wire, body)
    [] type = "reasoning_delta" -> IF Thinking THEN Thought(wire, body) ELSE wire
    [] type = "tool_calls" -> [ToolUses(wire, body) EXCEPT !.reason = "tool_use"]
    [] type = "tool_call_delta" -> [ToolParts(wire, body) EXCEPT !.reason = "tool_use"]
    [] type = "completed" -> Ending(wire, StopReason(wire.reason, body))

(* The Anthropic message put together by handle. *)
Block(kind, body) == [kind |-> kind, body |-> body]
Extend(content, kind, body) ==
  IF content # <<>> /\ Last(content).kind = kind
    THEN [content EXCEPT ![Len(content)].body = @ \o body]
    ELSE Append(content, Block(kind, body))
Uses(calls) == [k \in DOMAIN calls |-> Block("tool_use", calls[k].arguments)]
\* _merge_tool_call_delta: the index of the call is taken for one of the content.
Grown(content, index) == Reaching(index, content, Block("tool_use", <<>>))
Placed(m, part) ==
  LET all == Grown(m.content, part.index) IN
  IF all[part.index + 1].kind # "tool_use" THEN [m EXCEPT !.content = all]
  ELSE [content |-> [all EXCEPT ![part.index + 1].body = @ \o part.arguments],
        reason |-> IF m.reason = "none" THEN "tool_use" ELSE m.reason]
PlacedAll(m, parts) == FoldLeft(Placed, m, parts)

OnMessage(type, body) ==
  CASE type = "delta" -> [message EXCEPT !.content = Extend(@, "text", body)]
    [] type = "reasoning_delta" -> IF Thinking THEN [message EXCEPT !.content = Extend(@, "thinking", body)] ELSE message
    [] type = "tool_calls" -> [message EXCEPT !.content = @ \o Uses(body), !.reason = "tool_use"]
    [] type = "tool_call_delta" -> PlacedAll(message, body)
    [] type = "completed" -> [message EXCEPT !.reason = StopReason(@, body)]

-----------------------------------------------------------------------------
(* The stream of events. *)
Feed(type, body) ==
  /\ over = "no" /\ events' = events + 1
  /\ chat' = OnChat(type, body) /\ whole' = OnWhole(type, body) /\ legacy' = OnLegacy(type, body)
  /\ wire' = OnWire(type, body) /\ message' = OnMessage(type, body)
  /\ UNCHANGED over
\* An error event, or an exception of the stream, even after it completed: the
\* whole replies are lost, the streams tell it and end.
Break ==
  /\ over = "no" /\ over' = "error"
  /\ chat' = Closed(Failed(chat)) /\ legacy' = Closed(Failed(legacy))
  /\ wire' = Push(wire, <<Item("error", <<>>)>>)
  /\ UNCHANGED <<whole, message, opened, events>>
Eof ==
  /\ over = "no" /\ over' = "eof"
  /\ chat' = Closed(chat) /\ legacy' = Closed(legacy)
  /\ UNCHANGED <<whole, wire, message, opened, events>>
\* A client that disconnects: the generator is closed and nothing is sent.
Disconnect == over = "no" /\ over' = "gone" /\ UNCHANGED <<chat, whole, legacy, wire, message, opened, events>>

\* A provider's chunks: text, calls begun or continued, an ending.
Sending == over = "no" /\ ~chat.completed /\ events < MaxEvents
ProviderText == Sending /\ Feed("delta", <<events>>) /\ UNCHANGED opened
ProviderCall ==
  /\ Sending /\ opened' \in {opened + 1, opened + 2}
  /\ \E arguments \in {<<>>, <<events>>} :
       Feed("tool_call_delta", [k \in 1..(opened' - opened) |-> Part(opened + k - 1, TRUE, arguments)])
ProviderPart ==
  /\ Sending /\ UNCHANGED opened
  /\ \E index \in 0..(opened - 1) : Feed("tool_call_delta", <<Part(index, FALSE, <<events>>)>>)
ProviderDone ==
  /\ over = "no" /\ ~chat.completed /\ UNCHANGED opened
  /\ \E finish \in {"stop", "length", "tool_calls"} : Feed("completed", Done(finish, FALSE))
\* LM Studio's stream ends completed whatever the server did, oMLX's as it is.
ProviderEnds(engine) == (engine = "lmstudio" => chat.completed) /\ Eof

ProviderNext(engine) ==
  ProviderText \/ ProviderCall \/ ProviderPart \/ ProviderDone \/ ProviderEnds(engine) \/ Break \/ Disconnect

-----------------------------------------------------------------------------
(* What the clients read. *)
Bodies(items, types) == FlattenSeq([k \in DOMAIN items |-> IF items[k].type \in types THEN items[k].body ELSE <<>>])
Count(items, type) == Cardinality({k \in DOMAIN items : items[k].type = type})
Parts == Bodies(chat.chunks, {"calls"})
CallsRead ==
  [k \in 1..Cardinality({part.index : part \in ToSet(Parts)}) |->
    Call(Cardinality({j \in DOMAIN Parts : Parts[j].index = k - 1 /\ Parts[j].new}),
         FlattenSeq([j \in DOMAIN Parts |-> IF Parts[j].index = k - 1 THEN Parts[j].arguments ELSE <<>>]))]
Taking(blocks, frame) ==
  CASE frame.type = "content_block_start" -> Append(blocks, Block(frame.kind, <<>>))
    [] frame.type = "content_block_delta" -> [blocks EXCEPT ![frame.index + 1].body = @ \o frame.body]
    [] OTHER -> blocks
BlocksOf(frames) == FoldLeft(Taking, <<>>, frames)
BlocksRead == BlocksOf(wire.frames)
Content == IF message.content = <<>> /\ chat.completed THEN <<Block("text", <<>>)>> ELSE message.content

\* A client that puts an OpenAI stream together has the reply of the whole route:
\* the text, the reasoning, and the calls by their index; completions likewise.
ChatAgrees ==
  /\ Bodies(chat.chunks, {"delta"}) = whole.text
  /\ Bodies(chat.chunks, {"reasoning_delta"}) = whole.reasoning
  /\ CallsRead = whole.calls
  /\ Bodies(legacy.chunks, {"delta"}) = legacy.text

\* anthropic_stream.py:61: the two Anthropic routes do not drift: the blocks of
\* the stream are those of the message, with the same stop reason.
MessageAgrees == BlocksRead = Content /\ wire.reason = message.reason

\* The frames of an Anthropic stream are bracketed: blocks are numbered in order
\* and one is open at a time, and all are closed before message_stop, after which
\* only an error comes.
Framed ==
  LET frames == wire.frames
      before(k, type) == Cardinality({j \in 1..(k - 1) : frames[j].type = type})
      started(k) == before(k, "content_block_start")
      stopped(k) == before(k, "content_block_stop") IN
  \A k \in DOMAIN frames :
    /\ before(k, "message_stop") > 0 => frames[k].type = "error"
    /\ before(k, "error") = 0
    /\ frames[k].type \in {"content_block_start", "message_delta"} => started(k) = stopped(k)
    /\ frames[k].type = "content_block_start" => frames[k].index = started(k)
    /\ frames[k].type \in {"content_block_delta", "content_block_stop"} =>
         started(k) = stopped(k) + 1 /\ frames[k].index = stopped(k)

\* An OpenAI stream that is not abandoned ends once: one finish or one error, no
\* finish after an error, and [DONE] last.
EndsOnce ==
  \A s \in {chat, legacy} :
    /\ Count(s.chunks, "finish") <= 1 /\ Count(s.chunks, "done") <= 1
    /\ over \in {"error", "eof"} => Last(s.chunks).type = "done" /\ (s.failed \/ Count(s.chunks, "finish") = 1)
    /\ \A j, k \in DOMAIN s.chunks : s.chunks[j].type = "error" /\ s.chunks[k].type = "finish" => k < j

\* The routes' fields have the shapes the code gives them.
RouteTypeOK ==
  /\ {chat.completed, chat.failed, chat.tools, legacy.completed, legacy.failed} \subseteq BOOLEAN
  /\ whole.finish \in {"stop", "length", "tool_calls", "cancelled"}
  /\ wire.open \in {"none", "text", "thinking", "tool_use"} /\ wire.index \in Nat
  /\ {wire.reason, message.reason} \subseteq {"none", "end_turn", "max_tokens", "tool_use", "stop_sequence"}
  /\ \A k \in DOMAIN message.content : message.content[k].kind \in {"text", "thinking", "tool_use"}
  /\ opened \in Nat /\ events \in Nat /\ over \in {"no", "error", "eof", "gone"}
=============================================================================
