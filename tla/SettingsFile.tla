---------------------------- MODULE SettingsFile ----------------------------
(***************************************************************************)
(* config.json and the store that reads and writes it (settings.py), with  *)
(* the import of an exported document (settings_export.py).  A document is *)
(* a value for each leaf; the leaves here stand for the others of their    *)
(* kind.  A value is the default, another one the leaf may have, or one    *)
(* its own rule refuses.  Validation stops at its first broken rule, whose *)
(* message names keys; recovery reads that message.                        *)
(***************************************************************************)
EXTENDS Naturals, Sequences, FiniteSets, SequencesExt

CONSTANTS
  Exports,      \* documents that may be imported
  Patches,      \* what a PUT may carry: values for some leaves
  Closed,       \* a coordinator that does not run, a file that cannot be read
  MaxEdits,     \* bound: changes by hand or by a bad sector
  MaxPuts       \* bound: writes through the API

VARIABLES
  file,       \* config.json: [doc, extra, newer], or Closed when it cannot be parsed
  data,       \* self.data, or Closed while the coordinator does not run
  preserved,  \* preserved_unknown: keys of a newer build were read
  readOnly,   \* forward_compatible
  edits, puts

fileVars == <<file, data, preserved, readOnly, edits, puts>>

\* DEFAULTS, in its order: a leaf's last key, and how deep it lies.
Schema ==
  << [id |-> "api.host", key |-> "host", depth |-> 2],
     [id |-> "api.port", key |-> "port", depth |-> 2],
     [id |-> "api.requireToken", key |-> "requireToken", depth |-> 2],
     [id |-> "api.anthropic.enabled", key |-> "enabled", depth |-> 3],
     [id |-> "models.pool.enabled", key |-> "enabled", depth |-> 3],
     [id |-> "generation.memoryLimitRatio", key |-> "memoryLimitRatio", depth |-> 2],
     [id |-> "generation.wiredLimitRatio", key |-> "wiredLimitRatio", depth |-> 2],
     [id |-> "contextCompression.enabled", key |-> "enabled", depth |-> 2],
     [id |-> "rag.chunkSize", key |-> "chunkSize", depth |-> 2],
     [id |-> "rag.chunkOverlap", key |-> "chunkOverlap", depth |-> 2],
     [id |-> "adaptiveMemory.enabled", key |-> "enabled", depth |-> 3],
     [id |-> "security.allowLan", key |-> "allowLan", depth |-> 2] >>
Leaf == {Schema[k].id : k \in DOMAIN Schema}
Values == {"default", "other", "bad"}
Defaults == [l \in Leaf |-> "default"]
ASSUME ExportsValued == Exports \subseteq [Leaf -> Values]
ASSUME PatchesValued == \A p \in Patches : \A l \in Leaf \cap DOMAIN p : p[l] \in Values

-----------------------------------------------------------------------------
(* _validate: its rules in its order, with the keys each message contains.  *)
\* A rule of one leaf has the leaf's name.
ApiRules ==
  << [rule |-> "api.host", says |-> {"host"}],
     [rule |-> "lan pair", says |-> {"host", "allowLan"}],
     [rule |-> "lan token", says |-> {}],
     [rule |-> "api.port", says |-> {"port"}],
     [rule |-> "api.anthropic.enabled", says |-> {"enabled"}] >>
ModelRules == << [rule |-> "models.pool.enabled", says |-> {"enabled"}] >>
MemoryRules ==
  << [rule |-> "contextCompression.enabled", says |-> {"enabled"}],
     [rule |-> "adaptiveMemory.enabled", says |-> {"enabled"}],
     [rule |-> "one memory", says |-> {"enabled"}] >>
RagRules ==
  << [rule |-> "rag.chunkSize", says |-> {"chunkSize"}],
     [rule |-> "rag.chunkOverlap", says |-> {"chunkOverlap", "chunkSize"}],
     [rule |-> "overlap", says |-> {"chunkOverlap", "chunkSize"}] >>
GenerationRules ==
  << [rule |-> "generation.memoryLimitRatio", says |-> {"memoryLimitRatio"}],
     [rule |-> "generation.wiredLimitRatio", says |-> {"wiredLimitRatio"}],
     [rule |-> "wired", says |-> {"memoryLimitRatio", "wiredLimitRatio"}] >>
Rules == ApiRules \o ModelRules \o MemoryRules \o RagRules \o GenerationRules

\* The other values are 0.0.0.0 and LAN access, no token, a lower memory limit
\* than the default wired limit, and an overlap that needs the larger chunks.
Breaks(d, rule) ==
  CASE rule = "lan pair" -> (d["security.allowLan"] = "other") # (d["api.host"] = "other")
                            \/ d["security.allowLan"] = "bad"
    [] rule = "lan token" -> d["security.allowLan"] # "default" /\ d["api.requireToken"] # "default"
    [] rule = "one memory" -> d["contextCompression.enabled"] = "other"
                              /\ d["adaptiveMemory.enabled"] = "other"
    [] rule = "overlap" -> d["rag.chunkOverlap"] = "other" /\ d["rag.chunkSize"] = "default"
    [] rule = "wired" -> d["generation.memoryLimitRatio"] = "other"
                         /\ d["generation.wiredLimitRatio"] = "default"
    [] OTHER -> d[rule] = "bad"
Broken(d) == SelectInSeq(Rules, LAMBDA r : Breaks(d, r.rule))
Valid(d) == Broken(d) = 0

-----------------------------------------------------------------------------
(* Reading the file *)
Reset(d, l) == [d EXCEPT ![l] = "default"]

\* One leaf whose default makes the document valid, the first of them.
Culprit(d) == SelectInSeq(Schema, LAMBDA s : Valid(Reset(d, s.id)))
\* Else the deepest leaf whose key the message contains, the first of those.
Named(d) == {k \in DOMAIN Schema : Schema[k].key \in Rules[Broken(d)].says}
Blamed(d) == CHOOSE k \in Named(d) :
  \A j \in Named(d) : Schema[j].depth < Schema[k].depth \/ (Schema[j].depth = Schema[k].depth /\ k <= j)

\* A round of _recover_keys.  Resetting what has its default already changes
\* nothing, and every later round would do the same until they run out.
Repaired(d) ==
  IF Culprit(d) # 0 THEN Reset(d, Schema[Culprit(d)].id)
  ELSE IF Named(d) = {} THEN d ELSE Reset(d, Schema[Blamed(d)].id)
Round(d) == IF Valid(d) THEN d ELSE Repaired(d)
RecoverKeys(doc) == FoldLeft(LAMBDA d, leaf : Round(d), doc, Schema)

(* mutant: the stored document is taken when its keys are known *)
Recovered_Unchecked(doc) == doc

\* What a stored document is read as: itself, or with some leaves reset, or
\* the defaults when that does not make it valid.
Recovered(doc) ==
  IF Valid(doc) THEN doc
  ELSE IF Valid(RecoverKeys(doc)) THEN RecoverKeys(doc) ELSE Defaults
Whole(doc) == ~Valid(doc) /\ ~Valid(RecoverKeys(doc))

(* mutant: a save writes the keys this build knows and no others *)
Written_Known(doc, extra) == [doc |-> doc, extra |-> FALSE, newer |-> FALSE]

\* _atomic_write: what a newer build stored is written back with it.
Written(doc, extra) == [doc |-> doc, extra |-> extra, newer |-> FALSE]

FileInit ==
  /\ file = Written(Defaults, FALSE) /\ data = Closed /\ preserved = FALSE /\ readOnly = FALSE
  /\ edits = 0 /\ puts = 0

\* What the file has beside the keys this build knows.
UnknownSubtree(f) == f.extra
Start ==
  /\ data = Closed
  /\ IF file = Closed
       THEN /\ data' = Defaults /\ preserved' = FALSE /\ readOnly' = FALSE
            /\ file' = Written(Defaults, FALSE)
       ELSE /\ data' = Recovered(file.doc) /\ preserved' = UnknownSubtree(file) /\ readOnly' = file.newer
            /\ file' = IF Whole(file.doc) THEN Written(Defaults, file.extra) ELSE file
  /\ UNCHANGED <<edits, puts>>
Quit ==
  /\ data # Closed /\ data' = Closed /\ preserved' = FALSE /\ readOnly' = FALSE
  /\ UNCHANGED <<file, edits, puts>>

-----------------------------------------------------------------------------
(* Writing it *)
Merge(d, change) == [l \in Leaf |-> IF l \in DOMAIN change THEN change[l] ELSE d[l]]
Save(d) == /\ data' = d /\ file' = Written(d, preserved) /\ puts' = puts + 1

\* _raise_if_settings_read_only
Writable == data # Closed /\ ~readOnly
\* The API refuses to write what a newer build owns; the store refuses what
\* its rules refuse.
Put(change) ==
  /\ Writable /\ puts < MaxPuts
  /\ Valid(Merge(data, change)) /\ Save(Merge(data, change))
  /\ UNCHANGED <<preserved, readOnly, edits>>

\* apply_import: leaf by leaf in the order of their names, the two leaves of
\* LAN access together, what does not fit left out.
Lan == {"api.host", "security.allowLan"}
Sorted ==
  << Lan, {"adaptiveMemory.enabled"}, {"api.anthropic.enabled"}, {"api.port"}, {"api.requireToken"},
     {"contextCompression.enabled"}, {"generation.memoryLimitRatio"},
     {"generation.wiredLimitRatio"}, {"models.pool.enabled"}, {"rag.chunkOverlap"}, {"rag.chunkSize"} >>
Candidate(d, export, leaves) == Merge(d, [l \in leaves |-> export[l]])
Adopted(d, export, leaves) ==
  IF Valid(Candidate(d, export, leaves)) THEN Candidate(d, export, leaves) ELSE d
Imported(d, export) == FoldLeft(LAMBDA pending, leaves : Adopted(pending, export, leaves), d, Sorted)
Import(export) ==
  /\ Writable /\ puts < MaxPuts
  /\ Save(Imported(data, export))
  /\ UNCHANGED <<preserved, readOnly, edits>>

-----------------------------------------------------------------------------
(* What others do to the file while the coordinator does not run. *)
Touch(f) == data = Closed /\ file # Closed /\ file' = f /\ UNCHANGED <<data, preserved, readOnly, puts>>
EditByHand(l, v) ==
  /\ edits < MaxEdits /\ edits' = edits + 1 /\ Touch([file EXCEPT !.doc[l] = v])
  /\ file' # file
NewerBuild == UNCHANGED edits /\ Touch([file EXCEPT !.extra = TRUE, !.newer = TRUE])
Garble == edits < MaxEdits /\ edits' = edits + 1 /\ Touch(Closed)

FileNext ==
  \/ Start \/ Quit \/ NewerBuild \/ Garble
  \/ \E p \in Patches : Put(p)
  \/ \E e \in Exports : Import(e)
  \/ \E l \in Leaf, v \in Values : EditByHand(l, v)
FileSpec == FileInit /\ [][FileNext]_fileVars

-----------------------------------------------------------------------------
IsFile(f) == f.doc \in [Leaf -> Values] /\ f.extra \in BOOLEAN /\ f.newer \in BOOLEAN
FileTypeOK ==
  /\ file = Closed \/ IsFile(file)
  /\ data = Closed \/ data \in [Leaf -> Values]
  /\ preserved \in BOOLEAN /\ readOnly \in BOOLEAN

\* Whatever is in the file, what the coordinator runs on obeys every rule.
ServedValid == data # Closed => Valid(data)

\* "A save must not delete keys a newer build added": they leave the file only
\* when it can no longer be read.
UnknownKept == [][file # Closed /\ file' # Closed /\ file.extra => file'.extra]_fileVars

StartsUp == data = Closed /\ data' # Closed
\* "One out-of-range value used to discard every setting": where one leaf's
\* default makes the document valid, no other leaf loses its value.
OneFaultOneReset ==
  [][StartsUp /\ file # Closed /\ (\E l \in Leaf : Valid(Reset(file.doc, l))) =>
       Cardinality({l \in Leaf : data'[l] # file.doc[l]}) <= 1]_fileVars

\* "Reset only the keys that actually fail": a leaf that no broken rule is
\* about keeps its value.  The code breaks it when two rules are broken: it
\* resets a leaf that merely has the same name until it gives up.
Concern(rule) ==
  CASE rule = "lan pair" -> Lan
    [] rule = "lan token" -> Lan \cup {"api.requireToken"}
    [] rule = "one memory" -> {"contextCompression.enabled", "adaptiveMemory.enabled"}
    [] rule = "overlap" -> {"rag.chunkOverlap", "rag.chunkSize"}
    [] rule = "wired" -> {"generation.memoryLimitRatio", "generation.wiredLimitRatio"}
    [] OTHER -> {rule}
Suspect(d) == UNION {Concern(Rules[k].rule) : k \in {j \in DOMAIN Rules : Breaks(d, Rules[j].rule)}}
ResetsWhatFails ==
  [][StartsUp /\ file # Closed => \A l \in Leaf \ Suspect(file.doc) : data'[l] = file.doc[l]]_fileVars

\* "Export writes everything the app needs to reproduce a setup": the import of
\* a valid document gives that document.  The code breaks it where two leaves
\* are valid together and the first of them is not valid beside the old second.
ImportReproduces ==
  [][\A e \in Exports : Import(e) /\ Valid(e) => data' = e]_fileVars
=============================================================================
