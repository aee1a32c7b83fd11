----------------------------- MODULE MCReplies -----------------------------
(* A request on its way to an engine, from a client's conversation to the  *)
(* prompt; and a reply on its way back: a worker's text through its        *)
(* filters and the stream of events, or a provider's events, to the        *)
(* clients of every route.                                                 *)
EXTENDS PromptPlan, ReplyText, ReplyRoutes
CONSTANTS lt, tool, think, end, group, char   \* symbols
VARIABLE way

MCSymbols == {lt, tool, think, end, group, char}
MCTool == <<lt, tool>>
MCThink == <<lt, think>>
MCThinkEnd == <<lt, end>>
MCWrapper == <<lt, group>>
\* Closed under prefixes.
Pieces == {<<>>, <<char>>, <<lt>>, MCTool, MCThink, MCThinkEnd, MCWrapper}
MCTexts ==
  {a \o b \o c : a \in Pieces, b \in Pieces, c \in Pieces}
  \cup {<<char, char>> \o MCThink \o a : a \in {<<char>>, <<char, lt>>, <<char>> \o MCThinkEnd}}
MCStops == {<<>>, <<char, lt>>, <<char, char>>}
MCParses == {<<>>, <<Call(1, <<>>), Call(1, <<char, char>>)>>}

\* Conversations: who speaks first, then three exchanges and a question.
Says(role, words) == Message(role, words, FALSE, FALSE, FALSE)
Kinds == {"talk", "image", "code", "tools"}
Exchange(kind) ==
  CASE kind = "talk" -> <<Says("user", "plain"), Says("assistant", "plain")>>
    [] kind = "image" -> <<Message("user", "plain", TRUE, FALSE, TRUE), Says("assistant", "short")>>
    [] kind = "code" -> <<Says("user", "short"), Says("assistant", "code")>>
    [] kind = "tools" -> <<Says("user", "plain"), Message("assistant", "none", FALSE, TRUE, FALSE),
                           Says("tool", "plain"), Says("tool", "code"), Says("assistant", "plain")>>
Openings == {<<Says("system", "plain")>>, <<Message("system", "plain", FALSE, FALSE, TRUE)>>, <<Says("developer", "plain")>>}
MCChats ==
  {o \o Exchange(a) \o Exchange(b) \o Exchange(c) \o <<Says("user", "plain")>> :
     o \in Openings, a \in Kinds, b \in Kinds, c \in Kinds}
  \cup {<<Says("user", "plain"), Message("user", "plain", FALSE, TRUE, FALSE)>>}
Turn(role, blocks) == [role |-> role, blocks |-> blocks]
Turns(kind) ==
  CASE kind = "talk" -> <<Turn("user", <<"text">>), Turn("assistant", <<"text">>)>>
    [] kind = "image" -> <<Turn("user", <<"image", "text">>), Turn("assistant", <<"text">>)>>
    [] kind = "code" -> <<>>
    [] kind = "tools" -> <<Turn("user", <<"text">>), Turn("assistant", <<"text", "tool_use", "tool_use">>),
                           Turn("user", <<"text", "tool_result", "tool_result">>)>>
MCTalks ==
  {Turns(a) \o Turns(b) \o Turns(c) \o <<Turn("user", <<"text">>)>> : a \in Kinds, b \in Kinds, c \in Kinds}
  \cup {<<Turn("user", <<"tool_result">>)>>, <<Turn("user", <<"document">>)>>}
Setting(mode, keep, policy, protect, persist) ==
  [mode |-> mode, keep |-> keep, policy |-> policy, protect |-> protect, persist |-> persist]
MCConfigs ==
  {Setting("off", 2, "fidelity", TRUE, FALSE),
   Setting("compress", 2, "fidelity", TRUE, FALSE),
   Setting("plan", 2, "memorySaver", TRUE, TRUE), Setting("plan", 2, "fidelity", FALSE, TRUE),
   Setting("plan", 3, "memorySaver", FALSE, FALSE)}
MCPresets == [fidelity |-> [recent |-> 4, least |-> FALSE], memorySaver |-> [recent |-> 2, least |-> TRUE]]
MCPassages == {<<1, 2>>}

\* The other half rests while one is checked.
Init ==
  /\ way \in {"prompt", "worker", "lmstudio", "omlx"}
  /\ \/ way = "worker"
     \/ way # "worker" /\ text = <<>> /\ tools = FALSE /\ begins = FALSE /\ stop = <<>>
  /\ \/ way = "prompt"
     \/ /\ way # "prompt" /\ config = Setting("off", 2, "fidelity", TRUE, FALSE)
        /\ said = [route |-> "anthropic", talk |-> <<Turn("user", <<"document">>)>>, format |-> FALSE]
  /\ TextInit /\ RouteInit /\ PlanInit
Receive ==
  /\ events < Len(out) /\ UNCHANGED <<opened, textVars>>
  /\ IF out[events + 1].type = "error" THEN Break ELSE Feed(out[events + 1].type, out[events + 1].body)
WorkerEnds == textpc = "over" /\ events = Len(out) /\ Eof /\ UNCHANGED textVars
Worker ==
  \/ TextNext /\ UNCHANGED routeVars
  \/ Receive
  \/ WorkerEnds
  \/ (Break \/ Disconnect) /\ UNCHANGED textVars
Next ==
  /\ UNCHANGED way
  /\ \/ way = "prompt" /\ PlanNext /\ UNCHANGED <<textVars, routeVars>>
     \/ way = "worker" /\ Worker /\ UNCHANGED planVars
     \/ way \in {"lmstudio", "omlx"} /\ ProviderNext(way) /\ UNCHANGED <<textVars, planVars>>
Spec == Init /\ [][Next]_<<way, planVars, textVars, routeVars>>

\* The reply's fields have the shapes the code gives them.
TypeOK == PlanTypeOK /\ TextTypeOK /\ RouteTypeOK

\* Whatever the chunks, the clients of all routes read the model's content: as it
\* is written, and whole once the reply ends without a stop sequence.
RepliesWhole ==
  way = "worker" =>
    /\ ReplyWhole
    /\ over = "eof" /\ Ended /\ ~hit =>
         /\ whole.text = Scan.delta /\ whole.reasoning = Scan.reasoning_delta
         /\ Bodies([k \in DOMAIN BlocksRead |-> [type |-> BlocksRead[k].kind, body |-> BlocksRead[k].body]], {"text"}) = Scan.delta

\* The routes agree: the OpenAI ones always, the Anthropic ones on a worker.
RoutesAgree == ChatAgrees /\ (way = "worker" => MessageAgrees)
\* Every stream has the form its protocol asks for.
WellFormed == Framed /\ EndsOnce

\* anthropic_stream.py:61 says it of every engine; a provider's calls refute it.
RoutesDoNotDrift == over = "eof" => MessageAgrees
=============================================================================
