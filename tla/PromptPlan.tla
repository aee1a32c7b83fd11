---------------------------- MODULE PromptPlan -----------------------------
(***************************************************************************)
(* From a client's conversation to the prompt of a worker: the messages    *)
(* of both APIs translated (api/openai_compat.py, anthropic_compat.py),    *)
(* the images put into a private directory (api/images.py), the middle of  *)
(* a long conversation summarized (api/context_compression.py) or planned  *)
(* message by message (api/adaptive_memory), the passages of a collection  *)
(* put in front (rag/retrieval.py), and the size checked.  A summary is a  *)
(* generation of its own: it is awaited, and may fail.                     *)
(***************************************************************************)
EXTENDS Recency, SequencesExt, FiniteSetsExt

CONSTANTS
  ChatTalks,      \* conversations of OpenAI clients: messages
  MessageTalks,   \* conversations of Anthropic clients: turns of blocks
  Configs,        \* contextCompression and adaptiveMemory: [mode, keep, policy, protect, persist]
  Presets,        \* _PRESETS: of each policy, [recent, least]
  Limit,          \* effective maximum of a prompt, in the unit of sizes
  TriggerPercent, \* triggerRatio
  NoteSizes,      \* sizes a summary may have
  Passages,       \* what a retrieval may rank: sizes of passages
  Header, MaxChars, \* of the block of passages
  MaxNotes,       \* _MAX_FILES
  MaxAsks         \* bound: requests of the client, which repeats itself

ASSUME PlanBounds ==
  /\ MaxNotes \in Nat \ {0} /\ Limit \in Nat \ {0} /\ {MaxAsks, TriggerPercent, Header, MaxChars} \subseteq Nat
  /\ Header < MaxChars /\ NoteSizes \subseteq Nat /\ \A ps \in Passages : ps \in Seq(Nat) \ {<<>>}
ASSUME ConfigsShaped ==
  /\ \A c \in Configs : c \in [mode : {"off", "compress", "plan"}, keep : Nat \ {0}, policy : DOMAIN Presets,
                               protect : BOOLEAN, persist : BOOLEAN]
  /\ \A p \in DOMAIN Presets : Presets[p] \in [recent : Nat, least : BOOLEAN]
\* A conversation is not empty, and only a list of parts has images.
ASSUME TalksShaped ==
  /\ \A talk \in ChatTalks : talk \in
       Seq([role : STRING, text : STRING, image : BOOLEAN, calls : BOOLEAN, list : BOOLEAN,
            size : Nat, at : {0}, of : {{}}]) \ {<<>>}
  /\ \A talk \in ChatTalks : \A i \in DOMAIN talk : talk[i].image => talk[i].list
  /\ \A talk \in MessageTalks : talk \in Seq([role : STRING, blocks : Seq(STRING)])

VARIABLES
  config,     \* settings
  said,       \* [route, talk, format]: what the client sends
  asks,       \* requests made
  phase,      \* where the handler of the request is
  prepared,   \* the messages before anything is left out
  messages,   \* the messages now
  images,     \* image references found in them
  workspace,  \* the directory of this request's images exists
  left,       \* of the middle, what the planner has still to place: [message, label]
  rebuilt,    \* and what it placed
  notes,      \* files of the note cache, oldest first: [of, size, read]
  outcome     \* why the request was refused, or "none"

planVars == <<config, said, asks, phase, prepared, messages, images, workspace, left, rebuilt, notes, outcome>>

\* `at` is the place in the conversation, 0 for a message of the program's own;
\* `of` are the places a note stands for; `list`: the content is a list of parts.
Message(role, text, image, calls, list) ==
  [role |-> role, text |-> text, image |-> image, calls |-> calls, list |-> list,
   size |-> IF text = "short" THEN 1 ELSE 2, at |-> 0, of |-> {}]
Note(size, of) == [Message("system", "plain", FALSE, FALSE, FALSE) EXCEPT !.size = size, !.of = of]
\* _summarize: the text of any stream that ends without an error, a cancelled one too.
Summaries(of) == {Note(size, of) : size \in NoteSizes}
Total(ms) == FoldLeft(LAMBDA n, m : n + m.size, 0, ms)
Numbered(ms) == [i \in DOMAIN ms |-> [ms[i] EXCEPT !.at = i]]
ImagesIn(ms) == Cardinality({i \in DOMAIN ms : ms[i].image})

PlanInit ==
  /\ config \in Configs
  /\ said \in [route : {"openai"}, talk : ChatTalks, format : BOOLEAN]
             \cup [route : {"anthropic"}, talk : MessageTalks, format : {FALSE}]
  /\ asks = 0 /\ phase = "idle" /\ prepared = <<>> /\ messages = <<>> /\ images = 0 /\ workspace = FALSE
  /\ left = <<>> /\ rebuilt = <<>> /\ notes = <<>> /\ outcome = "none"

-----------------------------------------------------------------------------
(* Translation. *)
\* chat(): what it answers 422 to.
Malformed(m) == (m.calls /\ m.role # "assistant") \/ (m.text = "none" /\ ~m.image /\ m.role # "assistant")

\* inject_into_messages: a system message in front keeps its text if it is a string.
WithFormat(ms) ==
  IF ms[1].role = "system"
  THEN <<[ms[1] EXCEPT !.text = IF ms[1].list THEN "replaced" ELSE "extended", !.list = FALSE, !.image = FALSE]>> \o Tail(ms)
  ELSE <<Note(1, {})>> \o ms

\* _translate_messages: each tool result becomes a message, before the rest of its turn.
Unsupported(turn) ==
  \E k \in DOMAIN turn.blocks :
    \/ turn.blocks[k] \notin {"text", "image", "tool_use", "tool_result"}
    \/ turn.blocks[k] = "tool_use" /\ turn.role # "assistant"
    \/ turn.blocks[k] = "tool_result" /\ turn.role # "user"
Translated(turn) ==
  LET has == ToSet(turn.blocks)
      text == IF "text" \in has THEN "plain" ELSE "none"
      results == Cardinality({k \in DOMAIN turn.blocks : turn.blocks[k] = "tool_result"})
  IN [k \in 1..results |-> Message("tool", "plain", FALSE, FALSE, FALSE)]
     \o CASE "tool_use" \in has -> <<Message(turn.role, text, "image" \in has, TRUE, "image" \in has)>>
          [] "tool_use" \notin has /\ has \cap {"text", "image"} # {} ->
               <<Message(turn.role, text, "image" \in has, FALSE, "image" \in has)>>
          [] OTHER -> <<>>
Converted(turns) == FlattenSeq([k \in DOMAIN turns |-> Translated(turns[k])])

Refuse(why) == phase' = "refused" /\ outcome' = why
Chat ==
  LET ms == Numbered(said.talk)
      front == IF said.format THEN WithFormat(ms) ELSE ms
  IN /\ said.route = "openai"
     /\ IF \E i \in DOMAIN ms : Malformed(ms[i])
        THEN Refuse("invalid") /\ UNCHANGED <<prepared, messages, images>>
        ELSE /\ phase' = "images" /\ messages' = front /\ prepared' = front /\ images' = ImagesIn(ms)
             /\ outcome' = "none"
Messages ==
  LET ms == Numbered(Converted(said.talk))
  IN /\ said.route = "anthropic"
     /\ IF \/ \E k \in DOMAIN said.talk : Unsupported(said.talk[k])
           \/ \A i \in DOMAIN ms : ms[i].role \notin {"user", "assistant"}
        THEN Refuse("invalid") /\ UNCHANGED <<prepared, messages, images>>
        ELSE /\ phase' = "images" /\ messages' = ms /\ prepared' = ms /\ images' = ImagesIn(ms)
             /\ outcome' = "none"
\* ImageWorkspace.cleanup
Cleanup == workspace' = FALSE
Ask ==
  /\ phase \in {"idle", "done", "refused"} /\ asks < MaxAsks /\ asks' = asks + 1
  /\ workspace' = FALSE   \* each request has a directory of its own
  /\ Chat \/ Messages
  /\ UNCHANGED <<config, said, left, rebuilt, notes>>

-----------------------------------------------------------------------------
(* Images, model, capacity. *)
askFrame == <<config, said, asks, prepared, images>>

\* resolve_public_images cleans up behind a reference it rejects.
Resolve ==
  /\ phase = "images"
  /\ \/ workspace' = (images > 0) /\ phase' = "model" /\ UNCHANGED outcome
     \/ images > 0 /\ Refuse("image") /\ UNCHANGED workspace
  /\ UNCHANGED <<askFrame, messages, left, rebuilt, notes>>
EnsureModel ==
  /\ phase = "model" /\ phase' = "compress"
  /\ UNCHANGED <<askFrame, messages, workspace, left, rebuilt, notes, outcome>>
\* _ensure_requested_model or raise_if_queue_full raises.
NoModel ==
  /\ phase = "model" /\ Refuse("model") /\ Cleanup
  /\ UNCHANGED <<askFrame, messages, left, rebuilt, notes>>

-----------------------------------------------------------------------------
(* Where the conversation may be cut: `t` messages before the tail. *)
HeadOf(ms) == IF ms # <<>> /\ ms[1].role = "system" THEN 1 ELSE 0
InExchange(ms, t) == ms[t + 1].role = "tool" \/ (ms[t].role = "assistant" /\ ms[t].calls)
\* The tail begins no later than the first image.
(* mutant: only the newest messages are kept from the middle. *)
TailLimit_Newest(ms, keep) == Len(ms) - keep
TailLimit(ms, keep) ==
  Min({Len(ms) - keep} \cup {i - 1 : i \in {j \in HeadOf(ms) + 1..Len(ms) : ms[j].image}})
TailStart(ms, keep) ==
  Max({HeadOf(ms)} \cup {t \in HeadOf(ms) + 1..TailLimit(ms, keep) : ~InExchange(ms, t)})
\* MIN_MIDDLE_MESSAGES
Splits(ms, keep) == Len(ms) - HeadOf(ms) > keep /\ TailStart(ms, keep) - HeadOf(ms) >= 2
Lead(ms) == SubSeq(ms, 1, HeadOf(ms))
Middle(ms, keep) == SubSeq(ms, HeadOf(ms) + 1, TailStart(ms, keep))
Rest(ms, keep) == SubSeq(ms, TailStart(ms, keep) + 1, Len(ms))
Triggered(ms) == 100 * Total(ms) >= Limit * TriggerPercent
PlacesOf(ms) == {ms[i].at : i \in DOMAIN ms} \ {0}

-----------------------------------------------------------------------------
(* Compression: one summary in place of the middle. *)
Compresses == config.mode = "compress" /\ Triggered(messages) /\ Splits(messages, config.keep)
\* Not asked for, not needed, failed, or an empty summary: the input unchanged.
Uncompressed ==
  /\ phase = "compress" /\ phase' = "plan"
  /\ UNCHANGED <<askFrame, messages, workspace, left, rebuilt, notes, outcome>>
Compress ==
  /\ phase = "compress" /\ Compresses /\ phase' = "plan"
  /\ \E note \in Summaries(PlacesOf(Middle(messages, config.keep))) :
       messages' = Lead(messages) \o <<note>> \o Rest(messages, config.keep)
  /\ UNCHANGED <<askFrame, workspace, left, rebuilt, notes, outcome>>

-----------------------------------------------------------------------------
(* The adaptive planner: each message of the middle exact, noted or dropped. *)
ToolTraffic(m) == m.role = "tool" \/ m.calls
Instruction(m) == m.role \in {"system", "developer"}
VerbatimRisk(m) == Instruction(m) \/ ToolTraffic(m) \/ m.image \/ m.text \in {"none", "code"}
\* classify: without the protection, only what must never be cut stays exact.
Latent(m) ==
  /\ ~(config.protect /\ VerbatimRisk(m))
  /\ ~ToolTraffic(m) /\ ~m.image /\ ~Instruction(m) /\ m.text # "none"
Newest(n, ps) == {i \in ps : Cardinality({j \in ps : j > i}) < n}
Labelled(ms) ==
  LET latent == {i \in DOMAIN ms : Latent(ms[i])}
      tuning == Presets[config.policy]
      Label(i) == IF i \notin latent THEN "exact"
                  ELSE IF i \notin Newest(tuning.recent, latent) \/ (tuning.least /\ ms[i].text = "short") THEN "cold"
                  ELSE "latent"
  IN [i \in DOMAIN ms |-> [message |-> ms[i], label |-> Label(i)]]

Plans ==
  /\ config.mode = "plan" /\ Len(messages) >= 4 /\ Triggered(messages) /\ Splits(messages, config.keep)
  /\ \E i \in DOMAIN Middle(messages, config.keep) : Labelled(Middle(messages, config.keep))[i].label # "exact"
Unplanned ==
  /\ phase = "plan" /\ ~Plans /\ phase' = "ground"
  /\ UNCHANGED <<askFrame, messages, workspace, left, rebuilt, notes, outcome>>
PlanBegins ==
  /\ phase = "plan" /\ Plans /\ phase' = "walk"
  /\ left' = Labelled(Middle(messages, config.keep)) /\ rebuilt' = <<>>
  /\ UNCHANGED <<askFrame, messages, workspace, notes, outcome>>

\* The run of latent messages the planner has gathered.
RunLength == Max({n \in 0..Len(left) : \A i \in 1..n : left[i].label = "latent"})
Run == [i \in 1..RunLength |-> left[i].message]
Key == PlacesOf(Run)
Readable == {i \in DOMAIN notes : notes[i].of = Key /\ notes[i].read}
walkFrame == <<askFrame, messages, workspace, outcome>>
Place(ms, n) == rebuilt' = rebuilt \o ms /\ left' = SubSeq(left, n + 1, Len(left)) /\ UNCHANGED phase

PlaceExact ==
  phase = "walk" /\ left # <<>> /\ left[1].label = "exact" /\ Place(<<left[1].message>>, 1)
  /\ UNCHANGED <<walkFrame, notes>>
DropCold ==
  phase = "walk" /\ left # <<>> /\ left[1].label = "cold" /\ Place(<<>>, 1) /\ UNCHANGED <<walkFrame, notes>>
\* flush_run: a cached note saves the summary.
NoteHit ==
  /\ phase = "walk" /\ RunLength > 0 /\ config.persist
  /\ \E i \in Readable : Place(<<Note(notes[i].size, Key)>>, RunLength)
  /\ UNCHANGED <<walkFrame, notes>>
\* put, then _prune: the oldest past their age, and those over the limit.
Pruned(all) == {SubSeq(all, k, Len(all)) : k \in Max({1, Len(all) - MaxNotes + 1})..Len(all)}
Stored(size) ==
  LET others == Without(notes, {f \in ToSet(notes) : f.of = Key})
  IN Pruned(Append(others, [of |-> Key, size |-> size, read |-> TRUE]))
NoteWritten ==
  /\ phase = "walk" /\ RunLength > 0 /\ ~(config.persist /\ Readable # {})
  /\ \E note \in Summaries(Key) :
       /\ Place(<<note>>, RunLength)
       \* A write that fails is swallowed.
       /\ notes' \in IF config.persist THEN Stored(note.size) \cup {notes} ELSE {notes}
  /\ UNCHANGED walkFrame
\* An empty summary: the run stays as it is.
NoteEmpty ==
  /\ phase = "walk" /\ RunLength > 0 /\ ~(config.persist /\ Readable # {})
  /\ Place(Run, RunLength) /\ UNCHANGED <<walkFrame, notes>>
\* maybe_plan_adaptive_memory: whatever is raised, the raw prompt.
PlanFails ==
  /\ phase = "walk" /\ RunLength > 0 /\ phase' = "ground" /\ left' = <<>> /\ rebuilt' = <<>>
  /\ UNCHANGED <<walkFrame, notes>>
\* _MIN_SHRINK: not worth it unless 5% smaller.
PlanEnds ==
  LET planned == Lead(messages) \o rebuilt \o Rest(messages, config.keep)
  IN /\ phase = "walk" /\ left = <<>> /\ phase' = "ground" /\ rebuilt' = <<>>
     /\ messages' = IF 100 * Total(planned) >= 95 * Total(messages) THEN messages ELSE planned
     /\ UNCHANGED <<askFrame, workspace, left, notes, outcome>>
\* A file is cut short or lost.
NoteSpoils ==
  /\ phase \in {"idle", "done", "refused"}
  /\ \E i \in DOMAIN notes : notes[i].read /\ notes' = [notes EXCEPT ![i].read = FALSE]
  /\ UNCHANGED <<askFrame, phase, messages, workspace, left, rebuilt, outcome>>

-----------------------------------------------------------------------------
(* Passages of a collection, then the generation. *)
LastUser(ms) == Max({0} \cup {i \in DOMAIN ms : ms[i].role = "user"})
Query(ms) == LastUser(ms) > 0 /\ ms[LastUser(ms)].text # "none"
\* build_context_block: in rank order while they fit; the first one cut to the budget.
Budget == MaxChars - Header - 1
Used(ps, n) == FoldLeft(LAMBDA u, p : u + Min({p, Budget}) + 2, 0, SubSeq(ps, 1, n))
Taken(ps) == Max({1} \cup {n \in 2..Len(ps) : Used(ps, n) <= Budget})
ContextBlock(ps) == Note(Header + Used(ps, Taken(ps)), {})

Injected(block, ms) == <<block>> \o ms
\* Not asked for, an empty query or collection, or optional and unreachable.
Ungrounded ==
  /\ phase = "ground" /\ phase' = "sent"
  /\ UNCHANGED <<askFrame, messages, workspace, left, rebuilt, notes, outcome>>
Ground ==
  /\ phase = "ground" /\ phase' = "sent" /\ Query(messages)
  /\ \E ps \in Passages : messages' = Injected(ContextBlock(ps), messages)
  /\ UNCHANGED <<askFrame, workspace, left, rebuilt, notes, outcome>>
\* An unknown collection, or an embedding that fails: answered at once.
NoPassages ==
  /\ phase = "ground" /\ Refuse("rag") /\ UNCHANGED <<askFrame, messages, workspace, left, rebuilt, notes>>
\* _validate_generation
TooLarge ==
  /\ phase = "sent" /\ Total(messages) > Limit /\ Refuse("large") /\ Cleanup
  /\ UNCHANGED <<askFrame, messages, left, rebuilt, notes>>
Generated ==
  /\ phase = "sent" /\ Total(messages) <= Limit /\ phase' = "done" /\ Cleanup
  /\ UNCHANGED <<askFrame, messages, left, rebuilt, notes, outcome>>

PlanNext ==
  \/ Ask \/ Resolve \/ EnsureModel \/ NoModel
  \/ Uncompressed \/ Compress
  \/ Unplanned \/ PlanBegins \/ PlaceExact \/ DropCold \/ NoteHit \/ NoteWritten \/ NoteEmpty \/ PlanFails \/ PlanEnds
  \/ NoteSpoils
  \/ Ungrounded \/ Ground \/ NoPassages \/ TooLarge \/ Generated

-----------------------------------------------------------------------------
(* What a client may rely on. *)
PlanTypeOK ==
  /\ asks \in 0..MaxAsks /\ images \in Nat /\ workspace \in BOOLEAN
  /\ phase \in {"idle", "images", "model", "compress", "plan", "walk", "ground", "sent", "done", "refused"}
  /\ outcome \in {"none", "invalid", "image", "model", "rag", "large"} /\ (outcome # "none" <=> phase = "refused")
  /\ Len(notes) <= MaxNotes /\ \A i, j \in DOMAIN notes : notes[i].of = notes[j].of => i = j
  /\ phase # "walk" => left = <<>> /\ rebuilt = <<>>

Lost == PlacesOf(prepared) \ PlacesOf(messages)
Noted == UNION {messages[i].of : i \in DOMAIN messages}
Was(at) == CHOOSE m \in ToSet(prepared) : m.at = at

\* What is left is the client's, in order, and ends as the client's does.
TailKept ==
  LET n == Min({config.keep, Len(prepared)})
  IN /\ \A i, j \in DOMAIN messages : i < j /\ messages[j].at > 0 => messages[i].at < messages[j].at
     /\ SubSeq(messages, Len(messages) - n + 1, Len(messages)) = SubSeq(prepared, Len(prepared) - n + 1, Len(prepared))
     /\ HeadOf(prepared) = 1 => prepared[1] \in ToSet(messages)
SystemTextKept == \A i \in DOMAIN prepared : prepared[i].text # "replaced"
\* A call keeps its results, and a result its call.
Paired(ms) ==
  \A i \in DOMAIN ms :
    /\ ms[i].role = "tool" => i > 1 /\ (ms[i - 1].role = "tool" \/ ms[i - 1].calls)
    /\ ms[i].calls => i < Len(ms) /\ ms[i + 1].role = "tool"
PairsKept == Paired(prepared) => Paired(messages)
\* All images of the conversation, but those of a system message the format replaced.
ImagesKept == SystemTextKept => ImagesIn(messages) = images
\* Compression puts a note for all it takes; the planner drops only old or short talk.
NothingLost ==
  /\ Noted \subseteq Lost /\ \A i, j \in DOMAIN messages : i = j \/ messages[i].of \cap messages[j].of = {}
  /\ config.mode = "off" => Lost = {}
  /\ config.mode = "compress" => Lost = Noted
  /\ config.mode = "plan" =>
       \A at \in Lost : ~ToolTraffic(Was(at)) /\ ~Instruction(Was(at)) /\ (config.protect => Was(at).text # "code")
\* The planner makes a prompt smaller or leaves it alone.
Shrinks == phase = "ground" /\ config.mode = "plan" /\ Lost # {} => 100 * Total(messages) < 95 * Total(prepared)

\* Whatever fails on the way, the prompt is the conversation: its newest messages, its
\* instructions, its calls with their results and all its images as the client
\* sent them, and of the rest nothing left out without a note but old or short talk.
PromptFaithful ==
  phase \in {"ground", "sent", "done"} =>
    TailKept /\ PairsKept /\ ImagesKept /\ NothingLost /\ Shrinks

\* The files of a request's images are there until its generation is over, and
\* gone then; a retrieval that fails leaves them behind.
FilesHeld ==
  /\ images > 0 /\ phase \in {"model", "compress", "plan", "walk", "ground", "sent"} => workspace
  /\ phase \in {"done", "refused"} /\ outcome # "rag" => ~workspace

\* The prompt is the client's and its files are there as long as it needs them.
PromptSound == PromptFaithful /\ FilesHeld

\* Not so in this code: SystemTextKept, since a system message that is a list of parts
\* loses its text to the format's instruction (response_format.py:181); a summary longer than what
\* it replaces takes a prompt that fitted over the limit; the directory stays.
FittedStillFits == outcome = "large" => Total(prepared) > Limit \/ \E i \in DOMAIN messages : messages[i].at = 0 /\ messages[i].of = {}
FilesGone == phase \in {"done", "refused"} => ~workspace
=============================================================================
