# Verification of the RAG stack

TLA+ models of the services in this repository, checked with TLC, and theorems
about them, checked with TLAPS. Paths below are relative to the repository.

## 1. The system

| Part | State it keeps | Operations | Talks to |
|---|---|---|---|
| gate (`gate/app`) | a RabbitMQ connection | upload, delete, delete-all, status, list, stats, chat, chat stream | storage, retrieval, LLM, RabbitMQ |
| document-storage (`document-storage/app`) | rows in Postgres, bytes in a directory or S3 | store, get, delete, patch `extra`, search | Postgres, S3 |
| task queue (RabbitMQ) | `ingestion.tasks`, `.retry` (TTL), `.dlq` | publish, deliver, acknowledge, reject, expire | gate, worker |
| ingestion worker (`doc-processor/app/worker.py`) | deliveries and handlers in memory | index, delete, retry, dead-letter | doc-processor, storage, retrieval |
| doc-processor (`doc-processor/app/main.py`) | none | `/v1/process`: fetch, extract, chunk, upsert | storage, VLM, retrieval |
| retrieval (`service/app`) | chunks in OpenSearch, vectors in Qdrant | upsert, delete, exists, search | embeddings, reranker |
| agent (`agent-search/app`, `agent_common`) | one run per request | plan, HyDE, fact queries, retry, answer | gate, LLM |
| ui, rerank server, embedding server, monitoring | none of interest | | |

An upload goes gate -> storage -> queue -> worker -> doc-processor -> storage
and retrieval; a delete goes gate -> queue -> worker -> retrieval -> storage. The
progress of a task is a record in the row's `extra.ingestion`, patched by the
gate and the worker and read by the status endpoint. A question goes agent ->
gate -> retrieval -> gate -> LLM, or through the agent's own prompts. A delete of
all documents is the gate's own loop, without the queue. The repository has no tests.

What is hard here: at-least-once delivery with retries, redelivery and stale
deliveries; calls that time out at the caller and go on at the service; two
stores (row and bytes, OpenSearch and Qdrant) written one after the other;
best-effort steps whose failures nobody reads; deletes that race with uploads; a
page loop over rows that move; lists of hits that are fused, thinned and cut
several times; answers, contexts, sources and flags that are replaced one by one
on a second try; windows that must move on.
`PROJECT.json` lists these hazards at their lines.

What makes each part correct:

- queue and worker: no accepted task is lost, a task is dead-lettered only after
  every attempt failed, the reported status is true and final;
- pipeline: the index holds the chunks of what the storage holds, nothing of a
  deleted document, and never falls back to an older upload;
- document-storage: a row has its bytes, bytes have a row, both of one version;
- retrieval: both stores agree after every answer that says ok; a deleted
  document is not found; ranking neither loses nor repeats a hit;
- delete-all: it ends, and says so only when nothing is left;
- chat: context, sources, flags and answer belong to one try; the budget holds;
- agent: the LLM budget, one final event per run, numbers that agree with sources;
- chunkers: they end, keep the text and respect the budget they are given.

## 2. Modules

| Module | What it is |
|---|---|
| `TaskLedger` | what the queue promises about a task: new, owed, then done, dead or discarded for good |
| `TaskQueue` | the gate's publisher, the three queues, the worker's deliveries, statuses, faults; implements `TaskLedger` |
| `TaskQueueProofs` | theorems about `TaskQueue`, and that it implements `TaskLedger` |
| `IngestionPipeline` | what the handlers do to the storage and the index, with abandoned calls |
| `IngestionPipelineProofs` | theorems about `IngestionPipeline` |
| `DocumentStorage` | rows and bytes under interleaved requests, failures and crashes |
| `DocumentStorageProofs` | theorems about `DocumentStorage` |
| `RetrievalIndex` | OpenSearch and Qdrant under interleaved upserts and deletes, late calls and refreshes |
| `DeleteAll` | the gate's synchronous deletes: the page loop, its tasks, and what runs beside it |
| `Ranking` | operators without state: stable ranking, the two fusions, adaptive cut, page dedupe, grouping |
| `RankingProofs` | lemmas about sums, lists and the operators of `Ranking`; the modules with theorems about searches, agent and chunkers extend it |
| `Search` | one search of the retrieval service, stage by stage; extends `Ranking` |
| `RetrievalProofs` | theorems about `RetrievalIndex` and `Search` |
| `Chat` | one question at the gate: searches, anchor, context, LLM, second try; extends `Ranking` |
| `GateProofs` | theorems about `DeleteAll` and `Chat` |
| `AgentRun` | one request of the search agent from plan to done; extends `Ranking` |
| `AgentRunProofs` | theorems about `AgentRun` |
| `Windows` | the four chunkers of doc-processor and retrieval; extends `Ranking` for its small helpers |
| `WindowsProofs` | theorems about `Windows` |
| `MC...` | instances for TLC, one for each of these |

Each module names definitions that begin "Slip:" right before the one they vary:
plausible mistakes (an acknowledgement moved up, a count not looked at). No
specification uses them; substituting one must break a property, and every
property has one that breaks it.

### TaskQueue

Variables: `gate` (per task: status patched, published), `status`
(`extra.ingestion` of each row: state and writing task), `late` (patches whose caller has
given up), the bags `main`, `retry`,
`dlq`, and per slot of the worker's memory `stage`, `held` (the message) and
`live` (whether the broker still counts the delivery as unacknowledged). The
rest is history for the properties.

A slot goes through `_process_message`: `Fetch` (the prefetch), `Start` (the
consumer loop's bound), `PatchProcessing`, `Succeed` or `Fail` (the handler's
calls), `PatchDone`, or `PatchFailure` and `Republish` (retry with the attempt
counted up, or dead-letter), then `Ack`. A status patch is best-effort in the code:
it lands, or it does not, or it times out at the worker or the gate (`worker.py:61`,
`gate/app/main.py:1084`) and goes on in a thread of the storage: it may land at any later
moment, whatever was written since (`PatchLands`). `RowRewritten` is any upsert or delete of the row, which
takes the status with it. The patch the gate makes for a duplicate upload is left
out: the storage never reports a duplicate (see `DocumentStorage`).

The broker is external and modelled from its use: an unacknowledged delivery
returns to the queue when the connection or the process is lost
(`ConnectionLost`, `WorkerCrash`); after a lost connection the handlers go on
with stale deliveries, whose acknowledgement changes nothing; a handler that
raises, or is cancelled by SIGINT (`Interrupt`), leaves the context manager to
reject its delivery, and `ingestion.tasks` has no dead-letter exchange, so the
message is gone (`refused`). Queues are bags: concurrency and redelivery reorder
messages anyway, and no property depends on first-in-first-out.

### IngestionPipeline

`row[d]` is the upload whose row and bytes the storage holds. A chunk `<doc>:<i>` has
its text from the bytes the storage held and its title, tags and acl from the payload of the
task that was run: `index[d][i]` names the upload of the one and the task of the other. `unseen[d]` are
the chunks written since the index was last refreshed, which a deletion by query passes
over. A run is one execution of
a handler with the chain of calls below it: `fetch` and `upsert` for an index
task, `delete_index` and `delete_row` for a delete. From `TaskQueue` only this is
kept: a run starts only for an accepted task (`SlotsInv` in `TaskQueueProofs`
proves that a slot holds published tasks only). Any accepted task may be run
again at any time, beside other runs of it, which allows every redelivery and
retry of `TaskQueue` and more.

`Abandon` is any caller up the chain that times out or dies: the call in flight is
still served, or fails (`CallFails`), but nothing follows it. That is what the
services do: client timeouts (60 s) are shorter than the work they wait for, and
no handler here is cancelled by its client. The index is one store of chunks; a
partial answer is any subset of the chunks written or removed.

An extraction may lose pages, or the whole conversion, to the VLM: the doc-processor sets
`partial` and answers `ok` all the same, with fewer chunks or other ones, and the worker
writes `done`. Such runs are `lossy`, and `partly` is the history of the documents whose last run
was one. `DeleteIndex` takes the refreshed chunks, answers ok and refreshes, as `delete_by_query`
with `refresh` does; the handler goes on to the row whatever it has left (`leftover`).

`StorageAnswers` is what a store call may answer. At this commit the storage
refuses every store (see the findings); the passing run allows all three answers,
so that it also speaks of the program with that call repaired.

### DocumentStorage

One step per call into a worker thread: the backend's store, the upsert of the
row, the look-up, the row's deletion, the count, the deletion of the bytes. A call
that fails may have been carried out: a commit whose answer is lost has written or removed
the row, a store or a deletion in the backend has happened or not. A request ends in a
state that says how, so that the invariants can name the failures that excuse them; a delete
whose look-up failed (`unread`) has touched nothing and excuses nothing. `HandsStream` is the wiring of `store_document`: FALSE is
this commit, TRUE the interface the backends declare. Documents stored earlier
may exist at the start. Different documents share nothing, as the storage id is
injective in the document id, so one document is enough.

### RetrievalIndex

`os`, `vec` and `seen` are, per chunk, the upsert whose version OpenSearch, Qdrant and
OpenSearch's last refresh have. A request embeds (upserts), calls OpenSearch, calls
Qdrant whatever became of that, and answers; `partial` is the flag of the same name.
A call that fails leaves in `late` what the store may still do of it, at once or
after the client's 120 s; so does a request abandoned at the 900 s of
`index_upsert` or with the process, because cancelling a coroutine does not stop the
thread it waits for. `delete` works by document (`delete_by_query`, as of the last
refresh, conflicts passed over) and stands for one or several documents;
`delete_chunk` works by id. `before[r]` names the requests that had wholly ended when
`r` came to OpenSearch: "earlier" in the properties means this. The embedder may answer
fewer vectors than it was sent texts: they are paired off as they come (`strict=False`,
`indexing_logic.py:255`), the chunks left over get no vector, and the answer is ok (`short`). Chunks share
nothing, and an ok means nothing about others, so two chunks and one document
suffice. The look-up of unchanged chunks is left out: `retrieve_many` reads point
ids as integers while they are UUIDs (`clients/qdrant.py:68`, `qdrant_ids.py:16`), so
at this commit it finds none and every upsert embeds every chunk.

`IngestionPipeline` sees this component as one index whose ok answer means that all
chunks are there; `LatestServed` is what entitles it to that, but for the vectors of `short`. Its
deletions take the refreshed chunks only, as `DeletedGone` says of a delete by document.

### DeleteAll

`rows` is document-storage's table in the order of its search, `has` and `vis` the
documents with chunks in the index, now and as of the last refresh. At the start a document that
was uploaded shortly before (`Young`) may have no chunks yet, its index task still
queued, or chunks that no refresh has shown; `young` are those for which it is so. The task may
end at any time, also after the row is gone (`IndexTask`). `CountPage` and
`SelectPage` are the two statements of one page; the first page is read each time. The
page's documents become `tasks`, which enter the semaphore in their order (`Enter`)
and delete the row (`StorageDelete`), then the chunks (`IndexDelete`); `Gather` waits
for all. Only the last document of what looks like the last page asks for a
refresh. Calls fail with or without having worked; a search that fails inside
the storage answers an empty page (`PageUnsearched`), a call that fails ends the
request (`PageFails`). `Upload` of a new document, a single delete (the task `Alone`, which
may name any document) and the index's own `Refresh` run beside it. Rows in `stuck` can
never be deleted.

### Ranking and Search

`Ranking` has no state. `Search` takes one request through the stages of
`search_logic.py`: `Fetch`, `Fuse`, `Rerank`, `Dedupe`, `ParentPages`, `Cut`. Each engine may fail
on its own. Scores are integers: fractions are counted in units of `Unit`, a
multiple of the denominators that occur. Ties are broken in any order, as the code sorts
a set of strings. A reranker scores any subset of the candidates it is shown. Texts
matter only as "the chunk's" or "its page's". `SearchAssumption` says that an engine lists each
chunk once and best first, whatever the scores: both engines sort their answers and
key them by chunk.

### Chat

`Retrieve` or `StreamRetrieve`, `VariantSearches` (multi-query and two-pass), `Anchor`, `Expand`, `Context`,
then `Llm` and, for short factual questions, `Redo`; or `Stream`. A search is any of `Lists`,
partial or not. A search whose failure the code swallows is the empty list; the
first search and the LLM end the request when they fail. A hit is a chunk and the
length of its text; a block of the prompt is that text behind a `Header` that counts in the budget.
Stitching makes one block of the hits of a page (the default) or of a document
(`PageOf`, `DocOf`). For a short factual question whose sources are not asked for, the prompt has
`PerChunk` characters of each text, while the context that is returned has the texts
uncut: `prompt` and `kept` are apart, and `shown` is the prompt the answer was written from. Of
the variants of a query only the number is kept. `ChatAssumption` says that a search names a chunk
once (`SearchTypeCorrect` proves it of `Search`), and that `Unit` is a multiple of
every `RrfK` + rank that occurs: the code adds real fractions, and with a `Unit` that divides
unevenly the model would add rounded ones.

### AgentRun

`pc` is the stage of `_run_agent`. `asked` counts the questions to the budget, `sent` the requests
the LLM got; HyDE's, the answers' and the tool rounds' requests differ from that.
Every LLM call may raise. The gate client never does: a failed call is `GateError`, which
is flagged; a gate whose own retrieval has failed answers 200 with `ok: false`, which the client
turns into an empty reply without any flag (`NoRetrieval`), as nobody reads `ok`. `mode` is the
plan's search mode.
`found` is the reply of the pass (`first` or `retry`), `read` the replies it was made of, `answer` what
the last answer written would be reported with, `out` the events sent. `TimeOut` is the
endpoint's deadline at any stage, `Leave` a client that disconnects. The gate it talks
to answers one block per hit, as it does unless its stitching is switched on.

### Windows

A text is a list of blocks: texts with a length and the places where a paragraph
ends, headings, tables with a header and rows. A section of the retrieval service has
two lengths: it is tested in tokens, and split in words of any number of tokens
each (`words`); windows, overlaps and boundaries count words there, chunks tokens. A `raw` paragraph is one whose
encoding raises: `Skip` leaves it out. `Take` merges a block into the chunk that
is being filled, `Oversized` begins a split, `SplitText` and `SplitTable` make one window or one
chunk of rows each, `Finish` flushes. `by` names the chunker: `chars` and `sections` of the
doc-processor, `token` and `semantic` of the retrieval service. A chunk holds the parts of
the blocks it was made of, so that coverage can be asked. `at` is the place of the
next window.

## 3. Runs

| Run | Bounds | Shows |
|---|---|---|
| `task_queue` | tasks of known and unknown type on one document, `MaxAttempts` 1, 2 slots, prefetch and concurrency 2, one fault, no late patches | `AcceptedNotLost`, `DeadOnlyAfterAllAttempts`, `DoneIsTrue`, `OneCopyUntilLoss`, and `ImplementsLedger` |
| `task_queue_live` | an ordinary and an undecodable task, one handler at a time, one fault, one late patch at a time (`Calls`) | `EventuallySettled`, `FinalStatusStands` |
| `ingestion_pipeline` | two of three uploads (2, 1, 0 chunks), one delete, 3 starts, 2 at once | `OrphansExplained`, `DoneServesRow`, `NoStepBack` |
| `document_storage` | 3 stores, 2 deletes, S3, failing calls carried out or not, one crash | `RowHasBytes`, `NoLeak`, `RowMatchesBytes` |
| `bytes_not_stream` | local backend, nothing fails, the wiring of this commit | finding: every store is refused |
| `retrieval_index` | upserts of two chunks, one and none, a delete by document and one by chunk; `refresh` on some; one request may fail or be short of vectors | `LatestServed`, `DeletedGone` |
| `delete_all` | three rows, one of them young, pages of two, one upload, one other delete, one failing call, one row that may be stuck, one or two at a time, `MaxBatches` 3 | `CleanIsGone`, `OrphansReported`, `SearchSeesNone`, and that it answers (`Answered`) |
| `search` | four chunks of two documents, two on a page, one without; lists of up to 3 and 2 hits; 16 settings | `AgreementKept`, `Limits`, `CutsKeepTheBest` |
| `chat` | five chunks of three documents, two pages of one, six lists for every search, all settings of both endpoints that interact | `ContextIsTheAnswers`, `AnchorCounts` |
| `agent_run` | five kinds of reply, a failed call and a failed retrieval among them, budgets 0 to 12, HyDE of 1 to 3 passages, with and without retry and tools | `OneEnding`, `CallsBounded`, `CitationsAgree`, `DoneIsOnePass` |
| `windows` | up to four blocks, texts and sections of up to 15 with any paragraph ends, words of one token, two or nine, sizes 1 to 6, overlaps 0 to 4 | `LossAccounted`, `ChunkSizes`, `Advances` |
| `short_end` | a text of 5 with a paragraph end at 3, size 9, overlap 2 | finding: the same window for ever |

Every run but the two findings' also checks its module's type invariant (`TypeOK`;
`SearchTypeOK` and `ChatTypeOK` in the two modules that share a proof module), except
`task_queue_live`, which `task_queue` covers.

**Why these bounds.** Queue: two attempts exercise retry, exhaustion and the boundary between
them; the attempt travels in the message and nothing else depends on its
value. Two slots give every overlap of a delivery with a copy of it. One fault
at any point is what duplicates a task; a second adds copies but no new
kind of step. A patch that lands late needs no second one beside it to come after a final
status, and `FinalStatusStands` is about the time before the first loss. Pipeline: three runs are a run each
for two uploads and a delete, or two of one task and one of another, and each property names
one or two runs; `TwoUploads` leaves out the third upload, `NoneRefused` what follows a
task the broker refused, which is what follows one that never runs. Storage: two deletes and three stores give a delete
that overlaps a store, another delete, and a store before each. `losses`, `started` and
`crashes` are capped in guards (`MaxLosses`, `MaxStarts`, `MaxCrashes`, `MaxFaulty`). Index: one request that
fails, at any of its calls or all, with every subset of its chunks served then or later,
meets every interleaving with requests that do not; the proofs cover any number. `EmptyFirst` has the empty upsert,
which touches nothing, come before the others.

Delete-all: three rows on pages of two make a full page, a last one and an empty one, so
that the count is right, stale or ahead; `MaxBatches` 3 is enough for what is stored and is reached when rows come
back or are added. `MaxFaults` 1 meets each call at each place. Search: four chunks suffice for a page with two
hits, a second document and a hit without a page, with `TopK` 2 below what is found and
`RerankMax` 2 below what is fused; `RrfK` 1 and `Unit` 12 keep ranks apart (in the code the
constant is 60; only the order of the sums matters). Chat: `CapLow` 2 and `CapHigh` 3 stand
for 20 and 80, `PerChunk` 3 for 1200 characters, `Header` 1 for the number and separator of a block, and `MaxChars` 7 for the context's budget, scaled
so that lists of up to four hits meet each bound from both sides, and one text is longer than `PerChunk`. Agent: `MergeCap` 2 and
`RetryCap` 3 are below what two searches find; a budget of 12 is more than any path asks.
Windows: `Slack` 2 stands for the 20 tokens within which a window is cut; `MaxChunks` 20 is more
than any job needs whose windows advance (three texts of 15 with size 6 and overlap 4 make 18), so that it
stops only windows that stand still. Runs and requests are used symmetrically; symmetry is declared only
where there is no liveness.

Deadlock is not checked: each of these systems comes to rest, with all tasks
settled, all requests answered, or the text at its end.

**Fairness.** `task_queue_live`: weak fairness of each slot's handler, as every
call it makes has a timeout and the event loop serves what is ready; of
`Fetch`, as the broker delivers while the prefetch allows; of `RetryExpires`, as the
retry queue has a TTL; of `WorkerStart`, as somebody starts a stopped worker (the
compose file has no restart policy, so this is an operator). Nothing is
assumed of the gate or of faults. A task's calls may fail or succeed: neither is
fair on its own, which is why a task may end dead-lettered. `delete_all`: weak
fairness of the request's own steps together, because each of its calls has a timeout
and the loop serves what is ready; nothing of uploads, the other delete or the
refresh. The other specifications state no fairness and are checked for safety only.

## 4. What is proved

Every theorem holds for every value of the constants that satisfies the module's
assumption; TLC checks the same formula on the instances above.

**Queue.** `TaskQueueProofs`, for any number of tasks, documents, attempts, slots and losses,
from `QueueAssumption` alone:

- `TypeCorrect`: `Spec => []TypeOK`;
- `NothingLost`: `Spec => []AcceptedNotLost`;
- `DeadLettersExhausted`: `Spec => []DeadOnlyAfterAllAttempts`;
- `DoneStatusTrue`: `Spec => []DoneIsTrue`.

The inductive invariant is `TypeOK`, `QueuesInv`, `SlotsInv`, `AcceptedNotLost` and what
the other two say, also of patches on their way (`DeadInv`, `ReportsInv`). None of the three is inductive alone. That a task is not lost when
its delivery is acknowledged needs what the stage "acking" stands for: the task
succeeded, was handed on to a queue, was rejected, or cannot be decoded
(`SlotsInv`). That a dead letter was tried at every attempt needs, for every
message with attempt `a` in a queue or slot, that all attempts below `a` failed
(`QueuesInv`, `SlotsInv`). Each action has its lemma; the lemmas about `Put`, `Take` and
`Requeued` say what they do to the bags.

The refinement, and what holds until a connection is lost, in the same module:

- `QueueImplementsLedger`: `Spec => ImplementsLedger`, the refinement. `StepEffect` says
  what a step of the queue may do to what the mapping reads: it publishes an
  unpublished task, or settles tasks that were owed, and takes nothing back.
  `Standing` tells the five standings of a task apart, so that each step is one of the ledger
  or a stutter. `PublishedInv` is what it needs of the queue: only published tasks travel.
- `RetriesCopyNothing`: `Spec => []OneCopyUntilLoss`, and `FinalStands`:
  `Spec => FinalStatusStands`. Both rest on `CopyInv`: before the first loss a task is in
  one queue or one slot, once (`OneCopy`), and of a task with a final status
  nothing is left but what is about to be dead-lettered or acknowledged (`FinalInv`, `Resting`).

Late patches, any number of them, are in all of these: `Given` are the statuses that were
written and those that still may land, and `ReportsInv` and `FinalInv` hold of both.

**Pipeline.** `IngestionPipelineProofs`, for any tasks, documents, runs side by side and answers
of the storage, from `PipelineAssumption`: `PipelineTypeCorrect`,
`OrphansAreExplained`, `DoneIsServed` and, for the action property `NoStepBack`,
`NeverBack`. The three properties are about what is stored and indexed, by all the storage
answers, lost pages and moments of a refresh; what makes them inductive is about what the runs hold. The bytes a run is about to index are those of the row, or the
run is known to be behind (`ReadInv`); a run that is about to delete the row has cleared
the index, or is excused (`ClearedInv`); an upload is stored once and the row is the
last one stored (`StoredInv`, `RowInv`), so that "older" has a meaning for the index (`IndexInv`); and
what a successful run wrote is replaced by later uploads only (`ServedInv`).

**Storage.** `DocumentStorageProofs`, for any documents, requests, backend, failures and crashes,
from `StorageAssumption`: `StorageTypeCorrect`, `RowsHaveBytes`, `BytesHaveRows` and
`RowsMatchBytes`, one for each invariant of the run, with calls that fail carried out or not. `RowHasBytes` is not
inductive: a store that has not yet written its row may have lost its bytes
(`UnrecordedInv`), and a delete that will take the bytes may see a row appear
(`TakingInv`). `NoLeak` is not either: a delete that has only found a row excuses a
leak and may end without doing anything, so the one to blame must be another
(`LeftInv`). `RowMatchesBytes` needs to know who can replace the bytes of a waiting
store (`ReplacedInv`).

**Index.** `RetrievalProofs`, for any chunks, requests, `refresh` flags and failures, from
`IndexAssumption`: `IndexTypeCorrect`, `OkServed` and `OkGone`. The argument: a step
changes only the chunks of one request that is not settled (`OnlyOf`, `Confined`),
so a request that was settled before, or is alone with a chunk, is not disturbed;
calls left behind belong to requests that do not answer ok (`LateInv`); a chunk without a vector
behind an ok is one the embedder left out (`short`); half way,
the promise holds of OpenSearch already (`HalfServed`, `HalfGone`); and a chunk
that was refreshed stays visible until it is replaced (`SeenInv`), which is what
lets a delete by query find it.

**Delete-all.** `GateProofs`, for any documents, page sizes, faults, uploads and documents at a
time, from `DeleteAllAssumption`: `DeleteAllTypeCorrect`, `CleanAnswersAreTrue`,
`OrphansAreReported` and `NoneIsFound`. Chunks whose row is gone are those a task of the
page is about to delete, or of a young document (`OrphanInv`), and what was stored and
refreshed at the start and is still indexed is visible to its deletion (`VisInv`). An index task that
ends late (`IndexTaskInv`) concerns young documents only. `SearchSeesNone` is the hardest: the count that
chooses who refreshes is taken before the page is read. At each moment either another
page is to come, or the last delete of this page refreshes (`Beyond`,
`LastRefreshes` in `FreshInv`), provided tasks enter one by one (`OneByOne`).

**The library.** `RankingProofs` holds what several proofs need. Sums over a list, lists in a row
and lists without duplicates are recursive functions; what is known of
them (`SumStep`, `SumOfMore`, `FlattenedHolds`, `DistinctHolds`) is shown by the least place at which it fails, as
the natural numbers are well-founded (`NatLeast`). `Ranked` permutes a list and puts none before a better one
(`RankedByValue`, `RankedByScore`), as `n` places in a strict order have the `n` ranks, by the
pigeonhole principle (`RanksAreTaken`). `At`, the items at some places of a list in their order, keeps
items apart and in order. On these rest the lemmas about the adaptive cut, page dedupe, grouping and
the fusions.

**Search.** `RetrievalProofs`, for any chunks, documents, pages, answers of the engines and the
reranker, settings, limits and weights, from `SearchAssumption`: `SearchTypeCorrect`, `AgreementIsKept`,
`LimitsHold` and `CutsAreFair`, one for each invariant of the run. The inductive invariant is `SearchIInv`. That
hits come once, and are hits with a score, is `HitsInv`, and needs each stage to be a
permutation or a selection. `CutsKeepTheBest` is about the answer only; what makes it inductive is
`OrderInv`: between the stages the list is sorted by score within each kind of hit, reranked or not
and, after page dedupe, of those with a page only, so that a list of one kind is sorted and
each of the cuts takes a front of it or passes over what is no better. `Limits` needs that page dedupe
left pages apart (`PageInv`) and that no stage before the cuts empties a list (`SomeInv`). `AgreementKept`
compares two sums engine by engine: for the ranks as shares fall with the rank, for the
scores as each is divided by the same best one.

**Chat.** `GateProofs`, for any chunks, sizes, lists found, settings and limits, from
`ChatAssumption`: `ChatTypeCorrect`, `ContextIsAlwaysTheAnswers` and `AnchorAlwaysCounts`, one for each invariant
of the run; the inductive invariant is `ChatIInv`. `BlocksInv` keeps each chunk once and every block
with a length through variants, merge, expansion and stitching. `ContextInv` says, from the first context on,
that the prompt is what is kept, block for block and cut no further than `Long` has it, fits the budget and has the numbers
of its sources (`ContextFits`), and, once an answer is there, that it was written from that
prompt: the second try may replace all of it or nothing. `AnchorInv` says what the anchor pass merges, whole shares, and what it
keeps: a hit of one list only has a share of one place, so whatever either list puts before
that place has more, and the cut takes the larger.

**Agent.** `AgentRunProofs`, for any budget, options, hits and failures, from `AgentAssumption`:
`AgentTypeCorrect`, `CostIsBounded`, `RunsEndOnce`, `CitationsAreRight` and `DonesAreOnePass`, one
for each invariant of the run. `CostInv` bounds the
requests sent by the grants, with one term each for the requests no grant covers
(`HydeExtra`, `RetryExtra`, `AnswerExtra`), stage by stage. `EndInv` relates the events
sent to the stage. By `FoundInv` the prompt and the context
of a pass are made of its hits in their order, so that the numbers of an answer agree (`AnswerInv`).
`CitationsAreRight` has one more assumption, `ContextAssumption`: the context of a reply is the first
of its hits. That is the gate with its stitching off, its default
(`GATE_SEGMENT_STITCHING_ENABLED`); with it on, the property fails (see the findings).
`DonesAreOnePass` needs `FlagsInv` for the flags, those a failed retrieval does not
set among them, and `ListInv` for the context: a pass names
only what its replies name, and no chunk twice. That is what the lemmas about a
merge come to (`MergedHolds`), on the library's about lists. The assumption that the gate names a chunk once is
`ChatTypeCorrect`.

**Chunkers.** `WindowsProofs`, for any text and settings, from `WindowsAssumption`:
`WindowsTypeCorrect`, `LossIsAccounted`, `ChunksAreShort` and, for the action
property `Advances`, `WindowsAdvance`. Everything that lies behind the chunker's place is in what it
has collected, in a chunk, or excused, and of a block that is being split what
is before `at` (`CoverInv`); what it has collected is short enough to be a chunk
(`CurInv`); a block is split only if it must be, with nothing left to flush
(`BaseInv`). A length is a sum over a list: see the library. Of a section, a window's tokens are a sum
over its words (`SumIsAtLeast`): a window without any holds words without any, so that nothing is lost when it is
dropped.

**Only model-checked.** Liveness under fairness (`EventuallySettled`, `Answered`), which is out of this
prover's reach; and the two findings, which are counterexamples. Every invariant and action property
that a passing run checks, and the refinement, is a theorem.

## 5. Findings

Two disagreements have a run that exhibits them:

| Finding | Where |
|---|---|
| Every store is refused: the API passes bytes to a backend that reads a stream | `document-storage/app/main.py:291` |
| A text with a short last paragraph makes the sliding windows repeat for ever, against the comment of the guard | `service/app/chunking.py:149` |

The passing properties name, as exceptions, what the code does and a reader may not
expect. They were observed while modelling and have no run of their own.

Ingestion and deletion:

- a body that is not JSON is acknowledged and dropped, although the comment at
  `doc-processor/app/worker.py:309` speaks of the dead-letter queue;
- an upload the storage answers with `ok: false` is accepted (`gate/app/main.py:1017`);
- a patch that timed out may land after the final status and stand for good; so may that of a redelivered copy
  after a loss (`FinalStatusStands`); and the status of a task lost on its way to the broker
  stays `queued` for ever: no property covers it, as nothing in the code ends it;
- a page whose VLM call failed, or a whole conversion, is left out behind `ok: true` with `partial`,
  and the status is `done` (`partly` in `DoneServesRow`; `doc-processor/app/main.py:214`, `257`, `369`);
- a retried task of an older upload puts its title, uri, tags and acl under the newer text
  (`NoStepBack`; `doc-processor/app/main.py:302`);
- a chunk for which the embedder answered no vector is in OpenSearch only, behind an ok without `partial`
  (`LatestServed`; `service/app/indexing_logic.py:255`);
- a deletion or a store in the database that was committed while its answer was lost is reported as failed: bytes without a
  row, a row behind a refused store (`document-storage/app/database.py:147`, `215`; `NoLeak`, `RowHasBytes`, `RowMatchesBytes`);
- a document's delete counts its rows and takes the bytes in a later call: a store
  in between loses its bytes (`document-storage/app/main.py:476`); a failed
  store on S3 deletes the bytes of the previous version (`storage.py:259`);
- a delete by document leaves the chunks OpenSearch has not refreshed and answers ok
  (`service/app/clients/opensearch.py:137`): a document that is deleted right after it was indexed loses its row and
  keeps chunks, with a delete task (`leftover` in `OrphansExplained`) and with delete-all, whose answer does not say so (`young` in
  `OrphansReported`);
- a delete accepted before a re-upload may run after it and take the new document
  (`gate/app/main.py:1407`);
- delete-all takes a storage search that failed for the end of the list (the history
  variable `blind`; `gate/app/main.py:1565`); its refresh goes with the last document listed and not with
  the last delete to land, so `SearchSeesNone` holds for one document at a time only;
  rows that cannot be deleted stay on page 0 and can keep older rows from their turn
  until `max_batches`.

Search and chat:

- without a reranker the list is cut at `top_k` before pages and documents are thinned;
  hits without a page go behind all those with one; reranked and other hits
  have scores of two scales in one list (the exceptions of `CutsKeepTheBest`);
- searches for variants, expansions and second tries that fail are not told; those of
  expansions and second tries do not set the partial flag either; an LLM that
  raises on the second try loses the first answer;
- a source is numbered before its block is known to fit (the one further source in
  `ContextIsTheAnswers`);
- for short factual questions the context that is returned has texts uncut of which the LLM has seen the
  first 1200 characters (`Long` in `ContextIsTheAnswers`; `gate/app/rag.py:104`, `132`);
- a hit of the anchor list can fall off the end of the merged list when both lists are
  as long as the cap and share most of their hits: `AnchorCounts` says only that nothing
  worse is kept in its place.

Agent:

- the budget counts refused questions and covers HyDE's up to seven requests with one
  grant, the answers and tool rounds with none: `CallsBounded` is what it does bound, and not the
  "Max LLM calls per request" of `docs/AGENT_SEARCH.md:27`;
- a gate whose retrieval failed answers 200 with `ok: false`: the agent takes it for a clean empty
  reply, and one of several searches fails unsaid (`NoRetrieval` in `DoneIsOnePass`; `agent_common/gate_client.py:43`);
- a done event names the plan's search mode, also when its answer comes from a retry that searched in another
  (`agent-search/app/main.py:817`, `947`);
- a retry makes searches of which it reads the first only (`agent-search/app/main.py:860`);
- with stitching switched on in the gate, the prompt numbers hits and the sources number
  stitched blocks, and the two disagree: `CitationsAgree` is about a gate without it.

Chunkers:

- with overlap 0 a text that is split loses everything after its first window, and an
  oversized table header without rows is dropped (`LossAccounted`);
- a paragraph whose encoding raises is skipped (`service/app/chunking.py:89`; `LossAccounted`);
- `chunk_text_chars` may exceed its size by the overlap and a separator, a lone
  heading by any length (`ChunkSizes`);
- a section that is too long in tokens is split into windows of as many words
  (`service/app/chunking.py:236`, `324`, `344`): its chunks may be several times `max_tokens` long, and a text without spaces is one
  chunk of any length, against the docstring at line 196 (`ChunkSizes`).

## 6. Not modelled, and the plan

Out of scope: text extraction, HTML parsing, prompts, the model servers, the UI,
dashboards and settings (no state, or pure presentation); the gate's list, stats, status
and collections endpoints and the storage's search (read-only). How headings are
recognised, texts decoded and queries varied is left out of `Windows` and `Chat`, and of the
embedding client its batches and back-off inside one call: what is left of it is
that the call may fail or fall short (`Embed` in `RetrievalIndex`). Of `chunk_text` the path for windows that
cannot be decoded is left out, the fallback without tiktoken, and that a window decoded and encoded again may have
other tokens. A re-upload that leaves
further chunks of the old version has no property: nothing in the code removes them
and nothing promises it.

What further work would start with: the dynamic link between `Search` and `Chat` (a search is any list
in `Chat`), and between `RetrievalIndex` and `IngestionPipeline`, are arguments in this text and not
refinements.
