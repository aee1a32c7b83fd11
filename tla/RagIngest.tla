------------------------------ MODULE RagIngest ------------------------------
(***************************************************************************)
(* The knowledge base (rag/service.py, rag/store.py, rag/embeddings.py).   *)
(* An ingest is a background job: it embeds the pieces of a text on the    *)
(* event loop, then a thread checks the collection and stores the document *)
(* in a transaction of its own.  Collections and documents come and go in  *)
(* between, the embedding model may be changed, and the coordinator may    *)
(* die.  A document is the number of its chunks and their dimension.       *)
(***************************************************************************)
EXTENDS Integers, FiniteSets, FiniteSetsExt

CONSTANTS
  Ingest,      \* ingests, one for each time a document is submitted
  Collection,
  Dim,         \* the dimensions embedding models have
  Pieces,      \* in how many chunks a text may be split
  MaxChunks,   \* rag.maxChunksPerCollection
  NoDim        \* of a collection that has no document yet

ASSUME ChunksCounted == Pieces \subseteq Nat /\ MaxChunks \in Nat
ASSUME DimsKnown == NoDim \notin Dim

VARIABLES
  exists,      \* collections in the store
  dim,         \* their dimension: of the first document stored
  docs,        \* documents: [by, c, n, d]
  model,       \* the embedding model that is configured
  job,         \* each ingest: [pc, c, n, d, tries, known]
  raced        \* collections changed between a check and the insertion it allowed

ragVars == <<exists, dim, docs, model, job, raced>>
store == <<exists, dim, docs, raced>>

Idle == [pc |-> "new", c |-> CHOOSE c \in Collection : TRUE, n |-> 0, d |-> NoDim, tries |-> 0, known |-> NoDim]
ChunkCount(c) == FoldSet(LAMBDA r, s : r.n + s, 0, {r \in docs : r.c = c})

RagInit ==
  /\ exists = {} /\ dim = [c \in Collection |-> NoDim] /\ docs = {} /\ model \in Dim
  /\ job = [i \in Ingest |-> Idle] /\ raced = {}

Checked(c) == {i \in Ingest : job[i].pc = "store" /\ job[i].c = c}
\* A change of a collection somebody's check no longer describes.
Races(c) == raced' = IF Checked(c) = {} THEN raced ELSE raced \cup {c}

-----------------------------------------------------------------------------
CreateCollection(c) ==
  /\ c \notin exists /\ exists' = exists \cup {c} /\ dim' = [dim EXCEPT ![c] = NoDim]
  /\ Races(c) /\ UNCHANGED <<docs, model, job>>
DeleteCollection(c) ==
  /\ c \in exists /\ exists' = exists \ {c} /\ docs' = {r \in docs : r.c # c}
  /\ dim' = [dim EXCEPT ![c] = NoDim]
  /\ Races(c) /\ UNCHANGED <<model, job>>
DeleteDocument(r) ==
  /\ r \in docs /\ r.c \in exists /\ docs' = docs \ {r}
  /\ UNCHANGED <<exists, dim, model, job, raced>>
Configure(d) == model' = d /\ UNCHANGED <<store, job>>

\* The collection is required and the text is split before anything is sent;
\* the client is made for the model of that moment.
Submit(i, c, n) ==
  /\ job[i].pc = "new" /\ c \in exists
  /\ job' = [job EXCEPT ![i] = [Idle EXCEPT !.pc = "embed", !.c = c, !.n = n, !.d = model]]
  /\ UNCHANGED <<store, model>>

Leave(i) == job' = [job EXCEPT ![i].pc = "over"]

\* One retry when the endpoint does not answer; an answer that is an error, or
\* not what was asked for, is not retried.
Unreachable(i) ==
  /\ job[i].pc = "embed" /\ UNCHANGED <<store, model>>
  /\ IF job[i].tries = 0 THEN job' = [job EXCEPT ![i].tries = 1] ELSE Leave(i)
\* A bad answer, or the job is cancelled; a thread that runs is not stopped.
Abandoned(i) == job[i].pc = "embed" /\ Leave(i) /\ UNCHANGED <<store, model>>
Embedded(i) ==
  /\ job[i].pc = "embed" /\ job' = [job EXCEPT ![i].pc = "check"] /\ UNCHANGED <<store, model>>

(* mutant: a collection takes whatever dimension the model has now *)
Fits_AnyDimension(i) == ChunkCount(job[i].c) + job[i].n <= MaxChunks

\* add_document reads the collection ...
Fits(i) ==
  /\ dim[job[i].c] \in {NoDim, job[i].d}
  /\ ChunkCount(job[i].c) + job[i].n <= MaxChunks
Check(i) ==
  /\ job[i].pc = "check" /\ UNCHANGED <<store, model>>
  /\ IF job[i].c \in exists /\ Fits(i)
       THEN job' = [job EXCEPT ![i].pc = "store", ![i].known = dim[job[i].c]]
       ELSE Leave(i)

(* mutant: the document takes the dimension the check read *)
Insert_ReadDimension(i) ==
  LET c == job[i].c IN
  /\ job[i].pc = "store"
  /\ docs' = docs \cup {[by |-> i, c |-> c, n |-> job[i].n, d |-> job[i].known]}
  /\ dim' = IF job[i].known = NoDim /\ c \in exists THEN [dim EXCEPT ![c] = job[i].d] ELSE dim
  /\ raced' = IF Checked(c) = {i} THEN raced ELSE raced \cup {c}
  /\ Leave(i) /\ UNCHANGED <<exists, model>>

\* ... and inserts the document, all of it or nothing, in a transaction later.
Insert(i) ==
  LET c == job[i].c IN
  /\ job[i].pc = "store"
  /\ docs' = docs \cup {[by |-> i, c |-> c, n |-> job[i].n, d |-> job[i].d]}
  /\ dim' = IF job[i].known = NoDim /\ c \in exists THEN [dim EXCEPT ![c] = job[i].d] ELSE dim
  /\ raced' = IF Checked(c) = {i} THEN raced ELSE raced \cup {c}
  /\ Leave(i) /\ UNCHANGED <<exists, model>>

\* Jobs end with their coordinator; a transaction is there or it is not.
RagRestart ==
  /\ \E i \in Ingest : job[i].pc \notin {"new", "over"}
  /\ job' = [i \in Ingest |-> IF job[i].pc = "new" THEN job[i] ELSE [job[i] EXCEPT !.pc = "over"]]
  /\ UNCHANGED <<store, model>>

RagNext ==
  \/ \E c \in Collection : CreateCollection(c) \/ DeleteCollection(c)
  \/ \E r \in docs : DeleteDocument(r)
  \/ \E d \in Dim : Configure(d)
  \/ \E i \in Ingest :
       \/ Unreachable(i) \/ Abandoned(i) \/ Embedded(i) \/ Check(i) \/ Insert(i)
       \/ \E c \in Collection, n \in Pieces : Submit(i, c, n)
  \/ RagRestart
RagSpec == RagInit /\ [][RagNext]_ragVars

-----------------------------------------------------------------------------
RagTypeOK ==
  /\ exists \subseteq Collection /\ dim \in [Collection -> Dim \cup {NoDim}] /\ model \in Dim
  /\ \A r \in docs : r.by \in Ingest /\ r.c \in Collection /\ r.n \in Pieces /\ r.d \in Dim
  /\ \A i \in Ingest : job[i].pc \in {"new", "embed", "check", "store", "over"}

\* "Enforces the per-collection chunk ceiling and that every document in a
\* collection shares one embedding dimension."
Sound(c) ==
  /\ ChunkCount(c) <= MaxChunks
  /\ \A r \in docs : r.c = c => c \in exists /\ r.d = dim[c]

\* The store keeps that promise as long as nothing changes a collection between
\* a check and the insertion it allowed.
SoundUnlessRaced == \A c \in Collection \ raced : Sound(c)

\* The code breaks it when two ingests of one collection are checked together.
CollectionSound == \A c \in Collection : Sound(c)
=============================================================================
