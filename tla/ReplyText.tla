----------------------------- MODULE ReplyText -----------------------------
(***************************************************************************)
(* The filters between the model's text and the events of a reply          *)
(* (src/Workers/common/tool_calls.py, and lines() of server.py).  The text *)
(* arrives in chunks cut anywhere, even inside a marker.  The splitter     *)
(* takes the markers out, tells reasoning from content, and holds back an  *)
(* end that may still become a marker; the stop filter holds back an end   *)
(* that may still become a stop sequence.  The worker writes the events to *)
(* a stream the coordinator reads.                                         *)
(***************************************************************************)
EXTENDS Integers, Sequences, SequencesExt, FiniteSetsExt

CONSTANTS
  Symbols,    \* what texts, stop sequences and arguments are made of
  ToolStart, ThinkStart, ThinkEnd, Wrapper,  \* the markers, as symbols
  Texts,      \* replies of the model, as symbols
  Stops,      \* stop sequences asked for; <<>> for none
  Parses,     \* what a parser may make of a marked reply: sequences of calls
  MaxChunk    \* bound: symbols of one chunk

ASSUME MarkersSplit == \A m \in {ToolStart, ThinkStart, ThinkEnd, Wrapper} : m \in Seq(Symbols) /\ Len(m) > 1
\* "<" begins every tag of tool_calls.py and is nowhere else in one, and no tag begins another.
ASSUME MarkersApart ==
  \A m, o \in {ToolStart, ThinkStart, ThinkEnd, Wrapper} :
    (IsPrefix(m, o) => m = o) /\ \A j \in 2..Len(m) : m[j] # o[1]
ASSUME TextsShaped ==
  /\ Texts \cup Stops \subseteq Seq(Symbols) /\ MaxChunk \in Nat
  /\ Parses \subseteq Seq([name : Nat, arguments : Seq(Symbols)])

VARIABLES
  text, begins,       \* the reply, and whether it begins inside reasoning
  tools, stop,        \* what the request asked for
  read,               \* symbols of it handed over; with tools, buffered
  held,               \* pending of the splitter
  thinking,           \* in_reasoning
  found,              \* tool_detected
  kept,               \* pending of the stop filter
  hit,                \* a stop sequence ended the output
  muted,              \* the rest of the chunk's events is dropped
  out,                \* the events written: [type, body]
  textpc              \* "next", "split", "tail" or "over"

request == <<text, begins, tools, stop>>
textVars == <<request, read, held, thinking, found, kept, hit, muted, out, textpc>>

At(m, s, i) == i + Len(m) - 1 <= Len(s) /\ SubSeq(s, i, i + Len(m) - 1) = m
Places(s, ms) == {i \in 1..Len(s) : \E m \in ms : At(m, s, i)}
First(s, ms) == Min(Places(s, ms))
Before(s, i) == SubSeq(s, 1, i - 1)
After(s, i) == SubSeq(s, i, Len(s))

\* _safe_prefix_length: the end that is the beginning of a marker waits.
(* mutant: the last symbol missing is not waited for. *)
Hold_Short(s, ms) ==
  Max({0} \cup {n \in 1..Len(s) : \E m \in ms : n + 1 < Len(m) /\ IsPrefix(After(s, Len(s) - n + 1), m)})
Hold(s, ms) ==
  Max({0} \cup {n \in 1..Len(s) : \E m \in ms : n < Len(m) /\ IsPrefix(After(s, Len(s) - n + 1), m)})
Safe(s, ms) == Len(s) - Hold(s, ms)

Tools == IF tools THEN {ToolStart} ELSE {}
MarkersIn(reasoning) ==
  Tools \cup IF reasoning THEN {ThinkEnd} ELSE {ThinkStart, ThinkEnd, Wrapper}
Markers == MarkersIn(thinking)
Kind == IF thinking THEN "reasoning_delta" ELSE "delta"
Event(type, body) == [type |-> type, body |-> body]

TextInit ==
  /\ text \in Texts /\ tools \in BOOLEAN /\ stop \in Stops
  /\ begins \in BOOLEAN /\ thinking = begins
  /\ read = 0 /\ held = <<>> /\ found = FALSE
  /\ kept = <<>> /\ hit = FALSE /\ muted = FALSE /\ out = <<>> /\ textpc = "next"

-----------------------------------------------------------------------------
(* The stop filter, on one event of the splitter. *)
Write(type, body) == out' = IF body = <<>> THEN out ELSE Append(out, Event(type, body))

\* Once it was hit, the next content ends the chunk; reasoning still passes.
Drop == muted' = TRUE /\ UNCHANGED <<kept, hit, out>>
Cut(s) ==
  /\ hit' = TRUE /\ kept' = <<>>
  /\ muted' = (First(s, {stop}) = 1)
  /\ Write("delta", Before(s, First(s, {stop})))
(* mutant: all of it waits. *)
KeepEnd_All(s) == kept' = s /\ UNCHANGED <<hit, muted, out>>
KeepEnd(s) ==
  /\ kept' = After(s, Safe(s, {stop}) + 1)
  /\ Write("delta", SubSeq(s, 1, Safe(s, {stop})))
  /\ UNCHANGED <<hit, muted>>
Show(s) ==
  IF s = <<>> \/ muted THEN UNCHANGED <<kept, hit, muted, out>>
  ELSE IF thinking \/ stop = <<>> THEN Write(Kind, s) /\ UNCHANGED <<kept, hit, muted>>
  ELSE IF hit THEN Drop
  ELSE IF Places(kept \o s, {stop}) # {} THEN Cut(kept \o s)
  ELSE KeepEnd(kept \o s)

\* feed: nothing is split once tool markup began.
Chunk(n) ==
  /\ textpc = "next" /\ read + n <= Len(text)
  /\ read' = read + n
  /\ held' = IF found THEN held ELSE held \o SubSeq(text, read + 1, read + n)
  /\ textpc' = IF found THEN "next" ELSE "split"
  /\ UNCHANGED <<request, thinking, found, kept, hit, muted, out>>

Onward == textpc' = IF hit' THEN "tail" ELSE "next"
\* One turn of feed's loop: up to the next marker, or what is safe.
SplitMarker ==
  /\ textpc = "split" /\ Places(held, Markers) # {}
  /\ \E m \in Markers :
       /\ At(m, held, First(held, Markers))
       /\ held' = After(held, First(held, Markers) + Len(m))
       /\ found' = (m = ToolStart)
       /\ thinking' = ((thinking \/ m = ThinkStart) /\ m # ThinkEnd)
  /\ Show(Before(held, First(held, Markers)))
  /\ IF held' = <<>> \/ found' THEN Onward ELSE textpc' = "split"
  /\ UNCHANGED <<request, read>>
SplitRest ==
  /\ textpc = "split" /\ held # <<>> /\ Places(held, Markers) = {}
  /\ held' = After(held, Safe(held, Markers) + 1)
  /\ Show(SubSeq(held, 1, Safe(held, Markers)))
  /\ Onward
  /\ UNCHANGED <<request, read, thinking, found>>

-----------------------------------------------------------------------------
(* The end of the reply: the model's, or a cancel that next_event saw (WorkerStream),
   which makes a shorter text of it. *)
EndOfText ==
  /\ textpc = "next" /\ read = Len(text) /\ textpc' = "tail"
  /\ UNCHANGED <<request, read, held, thinking, found, kept, hit, muted, out>>

\* What both filters held back; the splitter's is not asked for a stop sequence.
Flushed ==
  (IF kept = <<>> \/ hit THEN <<>> ELSE <<Event("delta", kept)>>)
  \o IF held = <<>> \/ found THEN <<>> ELSE <<Event(Kind, held)>>
Marked == Places(SubSeq(text, 1, read), {ToolStart}) # {}
Completed(finish) == Event("completed", [finish |-> finish, matched |-> hit])
Cancelled == Event("completed", [finish |-> "cancelled", matched |-> FALSE])
Verdict(calls) ==
  IF calls # <<>> THEN <<Event("tool_calls", calls), Completed("tool_calls")>>
  ELSE IF found THEN <<Event("error", <<>>)>>
  ELSE <<Completed("stop")>>
Finish ==
  /\ textpc = "tail" /\ textpc' = "over"
  /\ \E calls \in IF tools /\ Marked THEN Parses ELSE {<<>>} : out' = out \o Flushed \o Verdict(calls)
  /\ held' = <<>> /\ kept' = <<>>
  /\ UNCHANGED <<request, read, thinking, found, hit, muted>>

\* A cancel, or a guard of the loop, between two events of the model: no tail.
Interrupted ==
  /\ textpc = "next" /\ textpc' = "over"
  /\ \E e \in {Cancelled, Event("error", <<>>)} : out' = Append(out, e)
  /\ UNCHANGED <<request, read, held, thinking, found, kept, hit, muted>>

TextNext == (\E n \in 1..MaxChunk : Chunk(n)) \/ SplitMarker \/ SplitRest \/ EndOfText \/ Finish \/ Interrupted

-----------------------------------------------------------------------------
(* The same text in one piece: a marker counts wherever one can be read.   *)
Start == [at |-> 1, reasoning |-> begins, found |-> FALSE, delta |-> <<>>, reasoning_delta |-> <<>>]
Stream(s) == IF s.reasoning THEN "reasoning_delta" ELSE "delta"
Scanned(s) ==
  IF s.found \/ s.at > Len(text) THEN s
  ELSE IF \E m \in MarkersIn(s.reasoning) : At(m, text, s.at)
    THEN LET m == CHOOSE m \in MarkersIn(s.reasoning) : At(m, text, s.at) IN
         [s EXCEPT !.at = @ + Len(m), !.found = (m = ToolStart),
                   !.reasoning = (@ \/ m = ThinkStart) /\ m # ThinkEnd]
    ELSE [s EXCEPT !.at = @ + 1, ![Stream(s)] = Append(@, text[s.at])]
Scan == LET f[k \in 0..Len(text)] == IF k = 0 THEN Start ELSE Scanned(f[k - 1]) IN f[Len(text)]
UpToStop(s) == IF stop = <<>> \/ Places(s, {stop}) = {} THEN s ELSE Before(s, First(s, {stop}))

Written(type) == FlattenSeq([k \in DOMAIN out |-> IF out[k].type = type THEN out[k].body ELSE <<>>])
Ended == textpc = "over" /\ \A k \in DOMAIN out : out[k] # Cancelled /\ out[k].type # "error"

\* Split markers never show, and nothing of the text is lost: however the chunks
\* fall, the content and the reasoning written are those of the text in one
\* piece; and until the tail the content stops before the stop sequence.  (The
\* tail of a stopped reply may show half a marker, or reasoning after a gap.)
ReplyWhole ==
  /\ textpc # "over" \/ ~hit => IsPrefix(Written("reasoning_delta"), Scan.reasoning_delta)
  /\ textpc # "over" => IsPrefix(Written("delta"), UpToStop(Scan.delta))
  /\ textpc # "over" /\ hit => Written("delta") = UpToStop(Scan.delta)
  /\ Ended /\ ~hit => Written("delta") = Scan.delta /\ Written("reasoning_delta") = Scan.reasoning_delta

\* server.py:782 says that what comes after the stop sequence makes no tool call.
\* It does when it came in the same chunk as the stop sequence.
NoCallPastStop == hit => \A k \in DOMAIN out : out[k].type # "tool_calls"

\* The filters' fields have the shapes the code gives them.
TextTypeOK ==
  /\ text \in Texts /\ {tools, begins, thinking, found, hit, muted} \subseteq BOOLEAN /\ stop \in Stops
  /\ read \in 0..Len(text) /\ textpc \in {"next", "split", "tail", "over"}
  /\ ~found => IsSuffix(held, SubSeq(text, 1, read))
  /\ Len(kept) < Max({1, Len(stop)}) /\ (muted => hit)
  /\ \A k \in DOMAIN out : out[k].type \in {"delta", "reasoning_delta", "tool_calls", "completed", "error"}
=============================================================================
