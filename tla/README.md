# A verification of the Japanese helper backend

TLA+ modules, TLC configurations and TLAPS proofs for the backend in `src/app` and the MCP
servers in `src/mcp_servers`. Line numbers refer to the files of this commit.

To check everything: `tlc -workers 2 -config <run>.cfg <module>` for each run of
`PROJECT.json`, `tlapm <module>_proofs.tla` for the proofs.

## 1. The system

One FastAPI process (`src/deploy`: one uvicorn worker, restarted by systemd with
`Restart=always`) serves an Android client. It is one asyncio event loop, so **a handler is atomic
between its awaits**: what interleaves are requests at their awaits, the digest scheduler, and the
processes of MCP tools, which are started per call. State lives in JSON files, loaded and saved
whole; nothing locks them.

| Component | State | Operations | What is hard | What makes it correct |
|---|---|---|---|---|
| Task state machine (`agent_task_state.py`) | stage, plan, validation, last refusal, in the conversation | `check_transition`, `with_plan`, `with_validation`, `with_update` | proposals of a model, stale copies | no stage unearned; one way; a stored refusal is still true |
| Learning agent and conversation (`japanese_learning_agent.py`, `agent_history_storage.py`, `agent_memory*.py`, `chat_session.py`) | `data/agent_history.json` (branches, checkpoints, working memory, task), `data/agent_long_term_memory.json`, `data/agent_usage.json` | a chat turn, a mini-chat turn, some fifteen handlers that await nothing | whole-file read-modify-write around awaits; best-effort steps that fail; death in the middle of `write_text` | turns whole; nothing lost; branches apart; a restart brings everything back |
| Local LLM service (`routes/local_llm.py`, `local_chat_guard.py`) | limiter, gate and busy marks in memory; one transcript file per conversation | `POST /local-chat` | order of the checks, timeout, leaks of a slot | rate exact; slots accounted for; no race to a file; the prompt fits |
| Digest tasks and scheduler (`digest.py`, `digest_scheduler.py`, `mcp_servers/jlpt_vocab.py`, `json_store.py`) | `digest_tasks.json` written by tool processes, `digest_store.json` by the scheduler | create a task; tick, run, record | two processes on one temporary file; kills; downtime; failing API | file never torn; confirmed task kept; runs spaced and never forgotten |
| MCP registry, tools, planner (`mcp_registry.py`, `mcp_client.py`, `agent_tools.py`) | cache of what each server offers | discover, route, call with timeout | cache checked before and written after an await; a server forgotten while others use it | a failing server costs nobody the tools of another |
| Tool pipeline (`agent_pipeline.py`, `pipeline_tools.py`, `mcp_servers/storage.py`) | none of its own; saved results | search, summarize, save | a stage that fails; a save that timed out and happened; two saves, one name | a file holds one chain; what was reported as saved is there |
| Project files and file assistant (`project_files.py`, `file_assistant.py`) | project files, proposals and run records on disk | plan, inspect, compare, save, apply with a compared hash; search; diff and patch | budgets shared by reading and saving; files that change between reading, diff, confirmation and write | what is applied replaces the text it was made for; "completed" means all of it is there |
| Release assistant (`release_assistant.py`, `release_draft.py`) | `release-output/` folders | look, collect, compare, review, check, draft, conclude, write | partial failure of any stage; a tree that moves under the review | "ready" only if every check passed and the whole scope went to the reviewer; the record tells what is there |
| Code review (`code_review.py`, `code_review_diff.py`, `github_review.py`, the workflow) | one place in the backend; one comment on GitHub | queue a job, read, ask, retry while busy, publish; read a diff, fit it, validate the findings | pushes during a job; jobs cut off; a second job for one pull request | one comment, about the last commit once all has settled; the place is given back; findings are lines of the diff |
| Retrieval and document index (`rag_*.py`, `vector_index.py`, `chunking.py`, `index_documents.py`) | two index files; one retriever per route or per request | chunk, write, load, search, filter, rerank, answer, cite, check | two files that must match; a stale retriever; a model that is down | an answer rests on a chunk that was found, passed the gate and reached the prompt |
| User profile and invariants, Gemini and content services, scripts | small files or none | read and write whole; one outside call | torn files | - |

Interaction: a chat turn calls Gemini and, through the registry, MCP processes; those write files
the backend reads (digest tasks, saved results). The scheduler reads what the tool
`create_periodic_digest` writes. The chat, the mini-chat, the task and memory endpoints and the
command-line chat all write one conversation file.

`PROJECT.json` lists the hazards, each at the line where it bites.

## 2. Modules

| Module | Models | Uses |
|---|---|---|
| `TaskState` | `agent_task_state.py`: pure functions on a task | |
| `TaskMachine` | the abstract task: what the docstring of that file promises | |
| `ConversationStore` | the shape of the conversation, loading and saving, compression, checkpoints, branches | `TaskState` |
| `AgentConversation` | everyone in the server who writes the conversation; refines `TaskMachine` | `ConversationStore` |
| `AgentConversationMC`, `AgentOverlapMC` | its instances for TLC | |
| `RateLimiter` | `RateLimiter.check`, `_forget_idle`, over time | |
| `LocalChat` | `POST /local-chat` with its guards and files | `RateLimiter` |
| `PromptPlan` | `plan_prompt`, one action per pass of its loop | |
| `DigestTasks` | creating tasks from several processes, at the level of inodes and names | |
| `Digest` | the scheduler, composed with `DigestTasks` | `DigestTasks` |
| `McpRegistry` | the cache of what servers offer, shared by the turns in flight | |
| `ToolRun` | a turn's tools: planning, discovery, the chain of three stages, its report, the saved file | `McpRegistry` |
| `ProjectFiles` | the documents with their hashes, and the proposals on disk | |
| `FileTask` | a task of the file assistant from plan to record; applying a proposal | `ProjectFiles` |
| `Patch` | `unified_diff` and `apply_unified_diff` | |
| `FileSearch` | `search_files`, `search_text` and what they leave out | |
| `Release` | a preparation of the release assistant, with the repository moving under it | |
| `DraftCheck` | `release_draft.validate` | |
| `GithubReview` | the workflow's jobs, the script, the backend's gate, the comment | |
| `DiffReader` | `parse_diff` and `read_files` | |
| `ReviewPlan` | `gather_context` and `build_prompt` | |
| `ReviewFindings` | `validate_findings` | |
| `Chunking` | `chunk_documents` with both strategies | |
| `DocumentIndex` | the two files of an index, the indexer, its crashes | |
| `RagAnswer` | a question on each of four routes, over `DocumentIndex` | `DocumentIndex` |
| `TurnsMC`, `BackendMC`, `PartsMC` | several components in one run: each behaviour is of one of them, since they share no state | `LocalChat`, `ToolRun`; `Digest`, `GithubReview`; the ten algorithms and single-file protocols |
| `FileTaskMC`, `ReleaseMC`, `RagAnswerMC` | instances for TLC | |
| `AgentConversation_proofs`, `FileTask_proofs`, `Release_proofs`, `RagAnswer_proofs` | the proofs about the module each is named after; in `FileTask_proofs` also those about `Patch` | |
| `Turns_proofs` | the proofs of what `TurnsMC` composes | `LocalChat`, `ToolRun` |
| `Backend_proofs` | the proofs of what `BackendMC` composes | `DigestTasks`, `Digest`, `GithubReview` |
| `Parts_proofs` | the proofs of the limiter, the prompt's plan, the chunks and the search | `RateLimiter`, `PromptPlan`, `Chunking`, `FileSearch` |
| `Validation_proofs` | the proofs of the two validations, of the prompt a review is given and of the reading of its diff | `ReviewFindings`, `DraftCheck`, `ReviewPlan`, `DiffReader` |

### How state and actions correspond to the code

**AgentConversation.** `file` is `agent_history.json`: `<<conversation>>`, or `<<>>` when it is
missing or cannot be parsed, which `load` answers with a fresh conversation. `snap[t]` is the local
`state` of the turn `t` and `pc[t]` the await it is at. `BeginRun` is `run` up to its first await
(load, resolve the strategy); `GeminiAnswers` appends both messages to the copy; `CompressIfDue`,
`RefreshFacts`, `RouteMemory` are the best-effort calls, each with its failing outcome; `TrackTask`
is the tracker's answer, `save` and the usage log, which no await separates. `BeginAsk`, `Remember`
and `Record` are the mini-chat. Every other handler loads, changes and saves without awaiting and is
one action built on `Save`. `Dies` with `Crash...` is the process dying between or within writes:
`write_text` truncates first, hence `Unreadable`. Abstracted: a message is its turn and role; a
summary is the set of messages folded into it; facts and memory entries are sets of notes; the
awaits that only read (tools, token counts, retrieval) are merged into "asking", since nothing is
written between them. Left out: profile and invariants (read only, for the prompt), the text of steps
and refusals, the command-line chat's long-lived session.

**LocalChat.** All checks up to `busy_conversations.add` are one action per outcome (`RateLimited`,
`TooLarge`, `ConversationBusy`, `GateBusy`, `Starts`), because the handler does not await before the
generation. `Answers` is the `finally` clause and the save; `GivesUp` is a timeout or an Ollama error.
A turn is one element of a transcript. Whether a message is too large is left open here and decided by
`PromptPlan`. `/local-llm` (no guard) and `reset_guard` (only tests swap the guards) are left out.

**PromptPlan.** Texts are counts of dense and other characters; every input within the bounds is an
initial state. The loop's `trial` is `kept + 1` newest messages.

**DigestTasks.** A name points to an inode; `OpensTemporary` truncates the inode the temporary name
points to, or makes one; `Writes` writes through the open descriptor, even after the name was moved;
`Replaces` is `os.replace`. When two writers share an inode the longer document may show behind the
shorter, which is the nondeterministic outcome of `Writes`. A call may be `Killed` anywhere: the
registry gives it 45 seconds.

**Digest.** One action per await of `tick`: `TickBegins` loads the tasks, `Passes` skips one,
`RunBegins` and `RunEnds` are `collect_once` around its requests; `RunEnds` records the run, failed or
not. `digest_store.json` has this one writer and is moved into place, so recording is one step.
`ran` and `granted`, `promised`, `answered` elsewhere are history variables: the properties read them
and no guard does.

**McpRegistry, ToolRun.** `known` is `_discovered`; `asking[r]` is the await inside `discover`, with the
server it waits for, and `table[r]` what the request's last discovery returned. `step[r]` tells what that
discovery was for: naming tools to the planner, routing a stage, making a call. A call may be answered,
fail, be answered with something `usable` refuses, or find the server gone (which forgets it, for
everyone). A save writes a file under the first free name, and may have written it although the call is
reported as timed out. The planner's choice is external: any plan up to `MAX_CALLS`.

**ProjectFiles, FileTask.** A document is its text and the ends of its lines, and stands for its own
hash. Every tool call and every model call of a task is a step with its outcomes (answered, refused,
server gone, provider gone, out of time); `used` counts them against `TaskLimits` with `SAVE_RESERVE`
held back. A limit may also be met before the plan is asked for, and an artifact may be saved cut at the output limit (`Cut`).
Saving goes in the code's order: report, then per document diff, check by applying it back,
proposal, then the patch, then the record. Applying is `apply_proposal`: read the proposal, diff it,
compare the hash, show or write. A section stands for its document; whether the model or a rule of the
agent asks for a look is left out, since both spend the same budget.

**Patch.** Input is the edit script of two texts, so the matcher of `difflib` is any matcher; output is
the diff's lines, and the loops of `apply_unified_diff` read it back. A line is ended by a newline, by
nothing, or by another character at which `splitlines` cuts.

**FileSearch.** A file is its kind and the lines that match; one may vanish while the search goes on.

**Release.** The working tree is a version every change raises; what the code remembers of it (the
signature of its status) changes only when the set of modified files does. A batch the model reviews is `given`, of which it has read some `partly` and left others `unseen`:
`build_prompt` takes hunks in order until its budget is used. A file whose diff has no text never gets there, since
`read_diff` withholds it (`project_git.py:436`). `RunStep` is the preparation,
one action per await: scope, change set, documentation, batches, checks, draft, `_conclude`, the search for
a free folder, the writes, the record. Everyone else edits, puts back, commits, and puts files
into the output at any time. `onlyEdits` and `since` are history variables.

**DraftCheck**, **ReviewFindings**, **ReviewPlan**, **DiffReader**, **Chunking**: one action is one pass of
the loop they are named after; inputs are all those of a small set, invented so that every branch is
taken. A quote is the place where it is found, and a commit subject what it says; a chunk or a hunk is what it costs; a text is its
characters' positions.

**GithubReview.** Commits of a pull request are numbered by its pushes. The workflow's
`concurrency` group keeps one job running and one queued; a job reads the pull request, then its diff,
then asks the backend and, while the gate is busy, asks again `MaxPolls` times; `publish` lists the
comments and then writes. The backend's review takes the gate's place, asks the model, may ask it to repair
its reply once, and leaves. Pushes, closing, failures and stopped jobs are the environment.

**DocumentIndex, RagAnswer.** A build of one version of the documents always makes the same chunks;
`vectors` and `metadata` say of which version each file is, or `Torn`. The indexer writes one and then
the other and may be stopped anywhere. A question goes through load, search, filter, gate, model,
citations and the support check; `/agent/rag` and `/support/chat` keep one retriever (`cached`), the other
two load for each request. Which chunks are found and what the model says are external choices. A chunk has two scores: its similarity orders the search and is held against
the filter; its rerank score, given to what is left, orders the prompt and is held against the gate. `QUERY_REWRITE_ENABLED` and
`RETRY_WITH_QUESTION` are the settings of those names; the query may be the model's, the keywords, or the question itself.

## 3. Runs

| Run | Question | Bounds, and why they are enough |
|---|---|---|
| `agent_overlap` | Can overlap, refusals or a crash put a task in a stage it did not earn, or keep an untrue refusal? Are transcripts whole whatever overlaps? | two turns, every proposal, three requests, one crash: five moves reach `done`, with a stale copy of any stage in flight; or a turn, a mini-chat question, three requests (checkpoint, branch, switch), one crash; the compression threshold is at its least, so that it cuts inside a turn |
| `agent_serial` | What may a client that waits rely on? | `Overlap = FALSE`; four requests, two strategies (facts, layered memory), a turn, a question, a crash; refinement of `TaskMachine` |
| `turns` | Are the local chat's slots, marks and files accounted for, and is there room again? Are chains whole, reports true, and a failing server nobody else's trouble? | three requests in two conversations with two slots and a crash; two turns over three servers, one failure, a chain and a tool outside it, and names enough for every save |
| `backend` | Are digest runs spaced, recorded and made, with no confirmed task lost? Is there one comment per pull request, about its last commit when all has settled, and is the place given back? | two creations, two intervals, three instants, one shutdown: one run more than the store keeps; two pull requests with two pushes and one, one failure, one retry: a job queued behind each of two that compete for the place |
| `parts` | Do the algorithms return what they promise, for every small input? | limits of one or two, inputs one longer than each limit; the tokens, sizes and windows straddle every threshold; three creations that overlap, killed anywhere |
| `file_task` | Is a completed task complete, is the reserve enough, and what may an applied proposal replace? Do tasks end? | two documents with different line ends, two tasks one after the other, one edit, one failure; or four documents and one task with five model calls (a plan and four comparisons) and eleven tool calls: five to look and read, two for each proposal, one each for the patch and the report, so that three or four changed documents are more than can be saved, and the budget runs out while looking, between two proposals and while a proposal is saved |
| `release` | What does "ready" rest on, what does the record tell, what is ever replaced, and does a preparation end? | two files in one batch, of which the model may be shown one in part and the other not at all, two checks, and two changes of the tree, which may be an edit and its undoing; or up to three files, one more than the batches hold, that nobody changes, with two artifacts and the record, two run folders, and two files of others at any time. One failure in each |
| `rag` | Does an answer rest on what was found, in an index that is whole? Do questions end? | three builds of sizes two, three and one, so that pairs of every relation occur; two chunks searched and one in the prompt; one question at a time, again and again; the settings as they are by default (a request to `/agent/rag` may skip the rewrite all the same) |

Where several properties of one component answer one question, the run checks their conjunction. Each part
has a name of its own, beside the definition:

| Property | Its parts |
|---|---|
| `PlacesAreHeld` | `SlotsAccounted`: the gate's counter is the generations that run; `BusyMeansSomebody`: no mark without a request |
| `ConversationsAreWhole` | `NoRaceToTheFile`: what a running request read is still there; `TranscriptIsAnswers`: answers in order, once |
| `SavedIsTrue` | `SavedIsOneChain`: a file is one chain's; `ToldIsThere`: under the name that was told |
| `NobodyWaitsForEver` | `RoomAgain`: a full service has room; `TurnsGetOn`: a turn with tools gets to its answer |
| `TasksAreKept` | `NeverTruncated`, `ConfirmedIsKept`: for creations that do not overlap |
| `RecordIsKept` | `RunsAreSpaced`, `StoreTellsWhatRan` |
| `ReviewsAreRight` | `OneReviewAtATime`, `OneComment`, `DiffIsNotOlder`, `SettledIsCurrent` |
| `BackendGetsOn` | `DueIsRun`, `RunsEnd`, `GateIsFreed` |
| `ResultIsTrue` | `CompletedIsWhole`: "completed" left nothing out; `ReserveIsEnough`: a limit costs no saving; `DiffsHaveProposals` |
| `VerdictIsEarned` | `ReadyIsEarned`: every file of the scope went to the reviewer, every check passed, and where the tree was compared and nothing was undone or committed, all of it on one tree; `FailureVouchesForNothing` |
| `IndexIsWhole` | `NeverTheWrongChunk`, `WholeIndexIsRead` |
| `OutcomeIsTrue` | `UnreachableIsNotIgnorance`, `AnswerIsFounded` |
| `ChunksAreTheText` | `StretchesAreWhole`, `PositionsAreRows` |
| `PromptIsFair` | `NothingDroppedSilently`, `WithinAvailable`, and of the steps `ContextIsBest`, `DiffComesFirst` |
| `FindingsAreRight` | `LinesAreOfTheDiff`, `NoTwoAlike`, `WorstAreReturned` |
| `DraftIsRight` | `EveryEntryIsQuoted`, `EveryEntryIsAnswered`, `SaidOnce` |
| `PatchIsRight` | `ChangesWhatItShows`, `AppliesWhereItWasMade` |
| `SearchIsTold` | `StopsAndSaysSo`, `SkippedAreCounted` |

The type invariants of `FileTask`, `Release` and `RagAnswer` are a conjunct of `ResultIsTrue`,
`VerdictIsEarned` and `IndexIsWhole`; `TurnsTypeOK` and `BackendTypeOK` are those of the runs `turns` and `backend`.

And four runs in which the code does something else than its documentation says:

| Run | What TLC finds |
|---|---|
| `agent_chat_turn_lost` | A mini-chat turn that is on disk is overwritten by a `/agent/chat` turn that was loaded before it, though `routes/agent.py:320` says the next request picks up where it left. |
| `digest_torn_file` | Two tool processes use one temporary name: one can move into place what the other has just truncated, though `json_store.py:7` says never. |
| `rag_same_length` | Two builds of one size: between the two writes of a rebuild, or after one that was stopped there, a pair of which one file is of the other build is accepted, though `vector_index.py:11` says loading refuses rather than answers with the wrong chunk. |
| `release_replaced` | A file put into the run folder between probe and write is overwritten (and told of as `replaced_existing_file`, `release_assistant.py:1285`), though `docs/release_assistant.md:86` and the docstring of `_write` say never. |

### Known divergences without a run

Met while modelling. The first four are stated in the modules, under the names given, and TLC refutes each when it is put in the
place of the properties of the run that is named. The next five are reachable in the models; the others are read off the code.

* `ComesBack` (`agent_serial`): the process dies while `agent_history.json` is written in place
  (`agent_history_storage.py:284`), and branches, checkpoints and the strategy are gone, though README.md:148 says they come back
  after a restart.
* `ClaimsAreSaid` (`parts`): an entry stays under "Fixed" or "Security" for any commit subject it quotes
  (`release_draft.py:353`), though the docstring at line 15 asks for one that says so.
* `WarnsOfUnseenFiles` (`release`): a release is "ready" with a file in scope of which the reviewer was shown nothing, since only
  `not_reviewed` is asked (`release_assistant.py:900`, `:1150`), though `docs/release_assistant.md:78` has unreviewed files among
  the warnings.
* `WarnsOfChanges` (`release`): a file that was modified before is edited while the checks run, and no change is seen, for the
  signature has names and kinds of change (`release_assistant.py:382`), though `docs/release_assistant.md:71` makes a change
  a warning.

* `update_working_memory` drops the confirmed terms (`japanese_learning_agent.py:385`), though its docstring
  says what is left out stays.
* With overlap the stage on disk goes back (`agent_task_state.py:6`, "they only ever go one way").
* Overlapping creations lose a confirmed digest task (`ConfirmedIsKept` fails with
  `TogetherAllowed = TRUE`; `digest.py:245`).
* Two saves of one query in one second may find the same free name (`ToldIsThere` fails with
  `SavesOverlap = TRUE`; `pipeline_tools.py:153`).
* An edit between the comparison of the hash and the replacement is overwritten
  (`AppliedToWhatItWasMadeFor` fails with `EditsMeanwhile = TRUE`; `project_files.py:510`), and a second
  task may replace a proposal between its review and its confirmation, for proposals are kept by path
  (`file_assistant.py:1561`): what is applied then was not made against the content it replaces, though
  `docs/api.md:608` and the docstring of `apply_proposal` promise so.
* Long-term memory is read, awaited over and written back (`japanese_learning_agent.py:779`): notes can be lost.
* A refused proposal still has its plan or validation recorded (`agent_task_state.py:330`), though the
  docstring at line 22 says that only the refusal is.
* A task that reaches a limit may end "failed" or have nothing to save, where
  `docs/project_files_assistant.md:103` says it "still saves what it found".
* When a server is gone in the middle of saving, the result names a patch that was not saved
  (`file_assistant.py:1567`).
* A search outside Git stops at `_MAX_WALK` files and says nothing (`project_files.py:296`); the counts
  shown with a diff miss changed lines that begin with `++` or `--` (`project_files.py:552`).
* The checks of a release run one after the other, and the tree is looked at once behind them: a file that is changed for one
  check and put back afterwards, or committed, is not seen either, and a tree that could not be compared does not keep a
  release from being "ready" (`release_assistant.py:955`). A file read in part counts as reviewed. The artifacts are rendered
  before the last status is known (`release_assistant.py:1290`).
* With `RAG_QUERY_REWRITE_ENABLED=false` a local model is not asked for a rewrite, so a question may end as
  "insufficient_context" without it being known whether the model is there, which `query_rewriter.py:158` says is to be avoided
  (`RagAnswer` has both settings; `UnreachableIsNotIgnorance` is claimed for the rewrite being on).
* A refusal of the Git server during the change set is not turned into a failed preparation, but an
  internal error of the route.
* A job may wait 900 seconds for a busy backend and 900 for its review (`github_review.py:46`), in a job of
  20 minutes. Beyond the pages `publish` reads, the comment is not found and a second one is made.
* Findings beyond the limits (`code_review.py:698`, `:814`) are counted nowhere; a review is refused as too
  large even if it would fit without the context's share.
* Two files that differ only in their suffix share a slug (`chunking.py:379`, "unique per file"), hence
  chunk ids, and are merged in a review's context.
* `rag_chat.py:34` speaks of an index "loaded once by the retriever and shared"; a retriever is made for each
  request. A reply of the support check without a list counts every claim as supported
  (`claim_support.py:168`), and claims beyond the eighth are not checked.
* A model that is not reachable while a Gemini rewrite is asked for counts as "no usable query", and the
  question may end as "insufficient_context".

Every property of a passing run has a mutant, an operator next to the definition it replaces, under
which TLC finds the property violated.

`CHECK_DEADLOCK FALSE` everywhere: turns, requests and time are bounded, so every behaviour of an
instance stops.

**Fairness.** All of it is weak, and only where a run asks what must happen; that a turn of the agent ends is not asked, for it is a
straight line of calls that end by their own timeouts. `TurnsMC!TurnsSpec`: a generation ends, because of
`asyncio.wait_for`, and a turn's listing or call ends, because of `call_with_timeout`.
`BackendMC!BackendSpec`: the scheduler is resumed, and a stopped backend is started again by systemd; a
job goes on or is cut off, as GitHub's runner does with `timeout-minutes`; the backend's review ends, because
the provider's client has a timeout. `FileTaskMC!SizedSpec`, `ReleaseMC!AboutSpec` and `RagAnswer`: the task, the preparation and the
question go on, each of their calls being bounded by a timeout or a limit; nothing is assumed of the people
who edit, commit or confirm, nor of the indexer.

## 4. Proofs

Each holds for every value of the constants that the assumptions of its module allow. A theorem that names a
property of a run shows for every instance what the run shows on one.

| Theorem | States |
|---|---|
| `AgentConversation_proofs!TypeCorrect` | `Spec => []TypeOK` |
| `TasksAreEarned`, `RefusalsStayTrue`, `TurnsStayWhole` | `Spec => []TaskEarned`, `[]RefusalsStillTrue`, `[]TurnsWhole`, whatever overlaps |
| `CopiesAreCurrent`, `NothingIsLost`, `BranchesStayApart` | `~Overlap /\ Spec => []CopyIsCurrent`, `NothingLost`, `BranchesApart` |
| `TaskIsMachine` | the refinement, `~Overlap /\ Spec => TaskMachineSpec` |
| `WithUpdateSound` | an update keeps a task earned and its refusal true |
| `Turns_proofs!SlotsAreAccounted`, `NobodyRaces`, `TranscriptsAreAnswers`, `BusyIsSomebody` | `LocalChat`'s four invariants; together `ConversationsStayWhole`, `PlacesAreGivenBack`: `Spec => []ConversationsAreWhole`, `[]PlacesAreHeld` |
| `Turns_proofs!FailuresStayTheirOwn`, `SavedChainsAreWhole` | `ToolRunSpec => []OnlyItsOwnTools`, `[]SavedIsOneChain` |
| `Turns_proofs!ToldFilesAreThere`, `SavesAreTrue` | `~SavesOverlap /\ ToolRunSpec => []ToldIsThere`, `[]SavedIsTrue` |
| `Turns_proofs!TurnsStayTyped` | `TurnsSpec => []TurnsTypeOK` |
| `Parts_proofs!LimitIsExact`, `WaitingIsEnough` | `LimiterSpec => []AtMostLimitPerWindow`, `[]WaitIsEnough` |
| `Parts_proofs!MessagesAreCounted`, `ThePlanIsBest` | `PromptSpec => []EveryMessageCounted`, `[]PlanIsBest` |
| `Parts_proofs!TheChunksAreTheText` | `ChunkingSpec => []ChunksAreTheText`; it rests on `BlocksAreTheText`: `blocks_of` cuts every text without a gap |
| `Parts_proofs!TheSearchIsTold` | `SearchSpec => []SearchIsTold` |
| `Backend_proofs!IdsStayApart` | `TasksSpec => []IdsAreApart`, whatever overlaps |
| `Backend_proofs!NoTaskIsLost` | `~TogetherAllowed /\ TasksSpec => []TasksAreKept` |
| `Backend_proofs!TheRecordTells` | `DigestSpec => []StoreTellsWhatRan`, whatever overlaps |
| `Backend_proofs!TheRecordIsKept` | `~TogetherAllowed /\ DigestSpec => []RecordIsKept` |
| `Backend_proofs!OneAtATime`, `CommentsAreOne`, `DiffsAreNotOlder`, `SettledAreCurrent` | `ReviewSpec => []OneReviewAtATime`, `[]OneComment`, `[]DiffIsNotOlder`, `[]SettledIsCurrent`; together `ReviewsStayRight`: `[]ReviewsAreRight` |
| `Backend_proofs!BackendStaysTyped` | `BackendSpec => []BackendTypeOK` |
| `FileTask_proofs!TheResultIsTrue` | `FairSpec => []ResultIsTrue` |
| `FileTask_proofs!AppliedAsConfirmed` | `~EditsMeanwhile` assumed: `FairSpec => AppliedToWhatItWasMadeFor` |
| `FileTask_proofs!ThePatchIsRight` | `PatchSpec => []PatchIsRight` |
| `Release_proofs!TheVerdictIsEarned`, `ARecordIsTrue` | `FairSpec => []VerdictIsEarned`, `[]RecordIsTrue` |
| `Release_proofs!NothingElseIsReplaced` | `FairSpec => OnlyLateFilesAreReplaced`: whoever writes, and when |
| `RagAnswer_proofs!TheOutcomeIsTrue` | `FairSpec => []OutcomeIsTrue` |
| `RagAnswer_proofs!NeverAnotherBuild` | no two builds of one size assumed: `FairSpec => []IndexIsWhole` |
| `Validation_proofs!FindingsAreOfTheDiff`, `FindingsDiffer`, `FindingsAreTheWorst` | `FindingsSpec => []LinesAreOfTheDiff`, `[]NoTwoAlike`, `[]WorstAreReturned`; together `FindingsStayRight`: `[]FindingsAreRight` |
| `Validation_proofs!DraftsQuoteTheChangeSet`, `DraftsAreAnswered`, `DraftsSayOnce` | `DraftSpec => []EveryEntryIsQuoted`, `[]EveryEntryIsAnswered`, `[]SaidOnce`; together `DraftsStayRight`: `[]DraftIsRight` |
| `Validation_proofs!ThePromptIsFair` | `ReviewPlanSpec => PromptIsFair` |
| `Validation_proofs!TheDiffIsRead` | `ReaderSpec => []ReadAsWritten` |

*The argument.* `TaskEarned` is not about the file alone: a turn may write back a copy of any age.
The inductive invariant `IInv` of `AgentConversation_proofs` therefore says of the file **and** of every
copy in flight that it is a conversation whose task is sound, where sound is `WorkDone` and
`RefusalStillTrue` together: a refusal stays true only because each operation that adds evidence clears
it, and evidence is taken only in its stage only because `WorkDone` says what the stage has. The
first lemmas of the module show each function of `TaskState` preserves soundness; each action
then copies or rewrites a sound conversation. `TaskIsMachine` adds `CopyIsCurrent`: without
overlap at most one turn is in flight, and no request changes the task under it, so the task saved
is a step from the task on disk.

`TurnsWhole` is about every history on disk, in a checkpoint or in flight, and a turn's two messages are
compressed one by one. `WholeInv` adds to it what makes an answer safe to append: no history anywhere holds a message
of a turn that has not been asked yet (`Free`), so that the turn is in none twice. `NothingLost` and `BranchesApart`
compare the file with what was on disk a load earlier: `TalkInv` says that without overlap the copy of the turn in flight
has everything the file has, differs from it only in the current branch, and holds the turn once it is answered. Each
writer then saves something grown from the file.

In the part of `Turns_proofs` about `LocalChat` the invariant relates the gate's counter to the
set of running requests, the marks to their conversations, and each copy to its file; cardinality facts
come from `FiniteSetTheorems`.

`LimitIsExact` speaks of every request ever let in, and the limiter remembers only some. Its
invariant `OnlyOldAreForgotten` says what is remembered of an address is the end of what it let in, in
order, and everything before that end is a window old or more. A refusal and a grant only cut old requests off
that end (`YoungIsEnd`: the place to cut exists, by the least element of a set of naturals), and
forgetting an idle address leaves the empty end (`ForgettingIsSafe`, which needs the order of the times).
So when fewer than `Limit` are left, the request `Limit` places back is old. For `WaitIsEnough`, `PromisesAreLate`
says that a promise is at least a window after the oldest of the last `Limit` requests: a full window holds exactly
those (`FullWindow`), and the seconds, rounded up, are no less than the rest of the window (`CeilDivIsEnough`).
When it is over, one of the `Limit` is no longer young, and there is room.

`MessagesAreCounted` needs only that the loop's counters, with the messages not looked at yet, make the history.
`PlanIsBest` needs that what is kept fits and that *nothing longer* does, though the loop only saw the first message that
did not: a longer stretch of the history never costs less (`LongerIsMore`, `StretchGrows`), by induction
on the number of messages more; `InductionTo` gives that induction from the well-foundedness of the naturals.

`TheChunksAreTheText` says of what is behind the cutting that it is whole (`Behind`): of the documents before this one every short
stretch, and of this one what lies in a block that was taken or begins before the next window. A window holds
every short stretch that begins before the next one, because its size is a step and the overlap. A block that is left out as
blank holds no such stretch (`InkIsKept`: what is around a piece with ink has ink). While blocks are joined, each
block behind is in what was kept or in what waits (`Coalescing`), whichever of the three ends the joining has; that the
blocks are the text without a gap is `BlocksAreTheText`, by counting the starts below each start. Ids differ because a
document's chunks are numbered upwards (`Numbered`).

`TheSearchIsTold` has a count: of the files asked for, those behind the search (`SeenFiles`) are as many as were searched or
skipped, but for a file that went away (`EveryFileCounts`); every line of theirs is in the answer while it is not cut off
(`NothingLeftOut`), and an answer that is cut off is full and has a line left over. It needs that the search looks at each file once.
`InOrder` therefore puts numbers in order by how many there are below each, where the code sorts: `InOrderIsAll` proves of
that form that it is all of them, each once.

`OnlyItsOwnTools` is about a cache that others change while a turn waits. `Reached` says, of a discovery
under way, that every server before the one it waits for is in the cache *or failed somebody while this
turn ran*, and of a finished one that its copy of the cache has all servers but those. A listing or a failure
moves the discovery on by one; forgetting a server takes it out of the cache and puts it among those that
failed, of every turn at once, so nobody else's invariant breaks (`OthersStayRight`). `SavedIsOneChain` needs that
a chain which goes on has only stages that were ok, with their results kept (`ChainIsRight`), and that a
turn's results only grow once it has a plan (`TurnsGrow`), for a file outlives the turn that wrote it.
`ToldIsThere` needs that a save's name is free until it writes, which is where overlap would break it.

For `SettledIsCurrent` the invariant says when a job may hold something old: only while another run is
queued. `ReadIsLast` states it for the commit, the diff and the comment, each for the steps at which the job has
it: a push queues a run, so without one what was read is the last there is. `ReadInOrder` holds because the
commit is read before the diff. The comment is one because the job knows which call publishes and no
other job of the pull request runs (`CommentIsOne`).

*The digests.* A call writes the tasks it read and one more, numbered by their count; calls overlap and rename each
other's temporary file. `TasksInv` says of every document on every inode, and of every list a call will write, that its
tasks are numbered in order and each was made by another call that has begun: then it does not matter whose
document is moved into place, and `IdsAreApart` holds even where a task is lost. When calls do not overlap, `KeptInv` adds
that the temporary name never points to the file's inode, that a killed call's half-written document is behind that name
only, and that what the running call will put in place is the file, grown by its own task (`Going`).
`StoreTellsWhatRan` compares lists cut to their newest entries with the whole history: the newest of what is appended to the
newest are the newest of the whole (`NewestOfMore`), and the words of one run more are appended to the words of the others
(`WordsOfMore`). For the spacing, `SpacedInv` relates three times of reading: the list a tick loaded is grown into the file
(`Grown`), a run in flight began after the tick's moment, and its task was due then by a record that tells the last run.
So a run is an interval after the one before, also when the backend was down between them.

*The file assistant.* The invariant of `FileTask_proofs` is one predicate on the record of a task (`RunOK`) and one on what it
shares with others (`ListedOK`): what is listed has a proposal of somebody. `InBudget` counts, step by step, two
calls for each document still to be proposed and one for each save that follows; until it proposes, a task stays
out of the reserve. Hence a limit is met while saving only after more than two documents (`Spared`). `ApplyOK` is the same for
a command: once the hash was compared, the file is what the command names until it is replaced. It needs
`~EditsMeanwhile`, for `write` takes no lock.

*The patches.* `PatchInv` has three stages, each told in steps of the script. While the diff is read, its first `k` steps are
read, or one of their lines more (`ReadTo`): where the lines of each step lie is fixed by a layout (`IsLaidOut`: the first `k` steps
are the first `size[k]` lines), so the line that is next is known. The hunks then cover what is shown of
those steps (`Covers`): they are stretches of it in order, each begins where its header says - also one of no old lines -
and nothing between them is shown. While they are applied, `AppliedTo` says of some `m` that the old text so far is the base's own
lines where nothing is shown and the script's where it is (`UpTo`), and what was copied is the new text of just that; the hunks cover
the rest. A hunk that stands moves `m` to its end (`HunkApplies`, from `QuietCopies` between the hunks and `LoudCopies` in one), and
on the text the diff was made from each hunk stands (`HunkStands`), so a refusal there comes of a torn line
(`Torn`). The recursions, of the common lines and of the diff, are over `0..n`; a lemma gives each by its last
step, and `LeastNatural` the induction.

*The release.* `VerdictInv` relates a preparation to the tree as it moves: as long as nothing was undone or committed, what was modified
at the start still is, and a tree with nothing modified is the first one (`TreeSince`); every file to analyze was
given to the reviewer, told of as not reviewed, or is still in a batch (`Accounted`; the
batches partition the files, by arithmetic on the size of one), and what was not done before a step says so (`InOrderOf`).
`FoldersInv` says that of the folders: names that were not tried yet are not in the run's own, and a record's
artifacts are. `RecordIsTrue` lets others replace an artifact after it was saved, which no record can know. No name was taken when the folder
was chosen, since all are probed before the first is written; so what stands in the way of a write came later (`since`).

*The questions.* The indexer may move the directory at every step of a question. `RagInv` says what a question holds at
each step: the two files it read are as long as each other (`Matched`), which is all `load_index` looks at; its
evidence is of that pair, was above the bar, and what it cites is among it (`Consistent`); and what the person may be told by then
(`Told`). `FromWhole` is for a question during which the directory stayed as it was. That a pair is of one build needs
that sizes differ: without it `rag_same_length` shows the counterexample.

*Types.* `TurnsTypeOK` and `BackendTypeOK` rest on the invariants above: that a turn has no more results than it planned calls, that
a gate counts its reviews, that a job's commits were pushed. For the limiter it has to be shown that the place where `Young` cuts
exists.

In `Validation_proofs` what is accepted is sound entry by entry: its line is right for its quote, and its key
differs from all others'; `Returns` gives an injection into that set, with the rest not worse. In a draft, a sentence with a quote is remembered before it is kept, whichever list it is for, so every kept sentence is
among those remembered, and the next one is not.

`ThePromptIsFair` joins three statements. While hunks are taken they stay within the diff's budget, which leaves no more than the
share for context, so the first hunk that does not fit is one that goes beyond all but that share (`DiffInv`); then what is
used, the blocks of the context and the room make what is available (`ContextInv`, with lemmas on the sum of a longer sequence).
Nothing is shown behind the first hunk left out, since from then on the loop takes none: before the file it is in all hunks
are in, behind it none. The chunks are sorted by score, by rank as the search is, so what is cut off the end
scores no better than what stays.

`TheDiffIsRead` has an invariant that joins what is left to read to what was read (`Stages`). The raw lines that are left are always the end of
what `Written` wrote, from a place it names: before a section, in its headings, before a hunk, behind so many lines of
one; the files are what was written up to there. Each stage knows the line that comes next, therefore the one action that may take it
(`WhatIsDone`), and the stage behind it. The counts make the difference where a changed line looks like a header: while lines
of a hunk are left, one of its two counts is (`SidesCount`), and behind the last one both are used up, unless the header
promised more; then the section is over and the next line, if there is one, is a `diff --git` line, which
closes the hunk (`HunkIsOver`). What a tool writes is assumed by `DiffAssumption`: in a diff without `diff --git` lines no header
promises more than there is, for there the next file's `---` would be taken for a removed line.

*Assumptions* are those on the constants, each named in its module, and evaluated by TLC in the runs; and, for the theorems that
say so above, that creations, saves, requests or edits do not come in between. The code
guarantees none of these: a client that waits for each answer, and one person at the project, do. Where they fail, the
list of divergences tells what happens.

*Two properties changed with their proofs.* `AppliedToWhatItWasMadeFor` said that a document that is replaced is the one its proposal
was made against. That is false once a second task replaces the proposal under a command that names the newer content: the hash
that is compared is the command's. It now says so of the task's own proposal, and of every other that the
command's content is what is replaced. `RecordIsTrue` was true of the run
only because that has one preparation: a person may replace an artifact of an earlier one, which no record can know. It now
excepts such artifacts.

*Only model-checked*: liveness (`NobodyWaitsForEver`, `BackendGetsOn`, `TasksEnd`, `PreparationEnds`,
`QuestionsEnd`), which is out of reach of the prover here, as is `ENABLED`. Every invariant and action property of a passing run is a
theorem.

## 5. Plan

1. Done: task and conversation; local chat; prompt plan; digests.
2. Done: registry and tool runs; project files, file assistant, patches and searches; release and its
   draft; code review in its four parts; chunking, index and questions.
3. Done: the proofs of the conversation, the local chat, the limiter and the plan of its prompt, the digests, the reviews' jobs, the
   tool runs, the two validations, the diff and the prompt of a review, the file assistant, the patches, the release, the questions, the chunks,
   the search, and the types of the components that share state.
4. The rules with which the file assistant finds something in a document, and the Git server's reading of
   a range of commits, as operators over small inputs; the command-line chat as a second process.

## 6. Not modelled

Disk-full errors; clocks that go back; several uvicorn workers (the deployment has one); the words
of prompts, answers and refusals; retrieval scores and embeddings; authentication; redaction of secrets and
checks of paths; what Git computes; the evaluation scripts, which print reports and keep nothing. Components
marked `not_modelled` in `PROJECT.json` say why.
