# A TLA+ verification of the lucebox server and its clients

This directory models the program in `src/`: a single-GPU language-model server
(`lucebox-patch/server`, C++). It holds TLA+ modules, the TLC configurations that
check them on small instances, and TLAPS proofs of what matters most for every value
of the constants.

## 1. The system

```
 clients ──HTTP──> client threads ──enqueue──> job queue ──> worker thread ──> Qwen35Backend
              (http_server.cpp: parse,         (mutex +      (process_job:      (prefill, decode,
               route, wait, monitor,            condvar)      cache slots,       KV cache, recurrent
               heartbeat)                                     SSE emitter)       state, snapshots)
 llama-server.sh: start, probe, kill                          run.ts, rpc.ts: opencode client
```

| component | state | operations | what is hard | what makes it correct |
|---|---|---|---|---|
| Qwen35Backend: cache, snapshots, live pool (`qwen35_backend.cpp` 974–1120, 1390–2610) | K/V rows, recurrent (SSM and conv) state, `cur_pos`, `last_tok`, logits tensor, prefix snapshots, pager mapping, `kvflash_history_`, `kvflash_prompt_boundary_pos_` | `generate_impl`, `restore_and_generate_impl`, `do_prefill`, `do_ar_decode`, `snapshot_save` | everything is left over from earlier requests: failures and cancellations half way, restores, eviction | decode sees exactly the rows, state and first token of its own prompt; snapshots are faithful to their key |
| HTTP queue, worker, client threads, shutdown (`http_server.cpp` 1456–1700, 2375–2493, 4248–4670) | `queue_`, `stopping_`, per-job `done`, `client_disconnected`, `active_clients_` | `enqueue`, `dequeue`, `process_job`, `enqueue_request_and_wait`, `stop_worker`, `run` | notify without the mutex, timed waits, shutdown racing admission and a running job | no admitted job is left without an answer, shutdown terminates |
| Model routing (`http_server.cpp` 1825–1960) | `in_flight` per model, `routing_waiters_` | `route_model_request` | reservation, refusal and notification in different critical sections | capacity and queue limit are never exceeded; both counters count threads; every request is answered |
| Response stream (`http_server.cpp` 110–188, 4772–4955) | socket bytes, `stream_started`, `stream_finished`, heartbeat time | `send_job_bytes`, `start_job_stream`, `stop_job_stream`, `maybe_send_job_heartbeat` | the worker and the client thread write to one socket | frames are not interleaved, nothing follows `[DONE]` |
| Prefix slots (`http_server.cpp` 3403–4047) | `slot_tokens_`, agent-turn slots, disk staging slot | `prepare_generation_cache`, `finalize_generation_cache`, `forget_inline_slot_metadata`, `remember_agent_turn` | one request restores and saves; each can fail | destination is not the restored slot, prepared slots are confirmed or aborted |
| SSE emitter (`sse_emitter.cpp`) | mode, window, tool buffer, open item and block, suppression flag | `emit_start`, `emit_token`, `emit_finish`, `suppress_undeclared_tool_protocol_token` | tags, stop sequences and characters split over tokens; several formats; replay of an answer that is not streamed | items open and close in order; where the tokens cut the text makes no difference; what was sent is what is kept |
| Tool parser (`tool_parser.cpp`) | none (pure) | `find_tool_syntax_start`, `tool_syntax_holdback`, `parse_tool_calls` | eight spellings swept over one text | no text is read twice |
| Budget hook and watchdog (`qwen35_backend.cpp` 2290–2610) | forced-close position, repetition windows | `maybe_force_close`, exits of `do_ar_decode` | budget and emitted count | the close sequence fits; no more than `n_gen` tokens |
| Speculative decode (`do_spec_decode`) | `committed`, rows, recurrent state and its snapshot, burst count, `last_tok` | draft, verify (chain or tree), accept, roll back, replay, hand over | partial acceptance, refused rollbacks, hooks in the middle of a step | emitted tokens are the target's; the cache is that of the emitted tokens; every decode ends |
| Paged sequences, park/unpark (`qwen35_backend.cpp`) | block tables; loaded or parked weights | begin, prepare, end; `park`, `unpark` | partial failure | every block returned; no use of a parked model |
| Status snapshot and SSE clients (`http_server.cpp`) | subscriber list | subscribe, broadcast | broadcast against disconnect | no update to a closed socket |
| Supervisor (`supervisor/llama-server.sh`) | server process, probe count | start, probe, refuse, wait | a server that starts with another context, or hangs | nothing is left running at the wrong context |
| RPC (`util/rpc.ts`) | `pending`, `listeners` | `call`, `emit`, `on`, `listen` | replies out of order, errors, none at all | a call resolves with its own reply |
| `run` command loop (`cmd/run.ts`) | session, permission and part state | `loop`, `execute` | events against completion | output is complete when it ends |
| Request parsing, PFlash/FlowKV preparation, upstream proxy | none kept | | wording and JSON shapes | not modelled |
| Key scanner, tools, configuration | none kept | | | not modelled |

`PROJECT.json` lists every component with its status, and under `hazards` what is hard to
test in each, at its line.

## 2. Plan

Each module models one part; where two parts meet, one states what the other assumes.

1. **Qwen35Kv**: the backend's cache. Core of the program: a mistake here
   answers one request with another's context. Proved in `Qwen35Kv_proofs`.
2. **JobQueue**: client threads, queue, worker, shutdown, refining the abstract
   **RequestService**. Proved in `HttpServer_proofs`; liveness is model-checked.
3. **SpecDecode**: the decode loops over that cache, speculative and token by token, refining
   the abstract **GreedyAnswer**. Proved in `SpecDecode_proofs`; liveness is model-checked.
4. **SseEmitter** over **ToolParser**: from the tokens of an answer to the events of three
   protocols. All its properties are proved, in three modules of which each extends the one
   before: `SseEmitter_proofs` (the parser, and what an answer promises by itself),
   `SseEmitterAnswers_proofs` (what it is beside the tokens, streamed or not) and
   `SseEmitterCuts_proofs` (the same answer cut into other tokens).
5. **ModelRouting**: reservations and waiters in front of the queue. Proved in
   `HttpServer_proofs`, beside the queue's; liveness is model-checked.
6. **StreamWriter**: both writers of one socket, `[DONE]` and disconnect. Proved in
   `StreamWriter_proofs`.
7. **PrefixSlots**: the server's side of Qwen35Kv's snapshot slots: it shows what
   `CanRestore` there assumes, that the slot restored is never the one saved into and is found
   under a prefix of the prompt. Proved in `PrefixSlots_proofs` for prompts always served in one form.

What else there is has no behaviour worth a model of its own; section 10 says why.

## 3. Qwen35Kv

### Correspondence

One request is served at a time (the worker thread is the only caller), so the model is
sequential: the interleaving that matters is the order of requests and where each ends.

| code | model |
|---|---|
| K/V tensors, a row per position (or per pool slot) | `pool.rows`: the position and token a row was computed for |
| `KvFlashPager` mapping and host copies (external) | `pool.block`, `pool.host`; a chunk is one token |
| SSM and conv state | `rec`: the tokens it absorbed, in order |
| `cache_.cur_pos`, `cache_.last_tok`, `sg_.logits` | `curPos`, `last`, `logits`: for the last two, the rows their forward pass attended to |
| `prefill_last_logits_valid_`, `kvflash_history_`, `kvflash_prompt_boundary_pos_` | `logitsValid`, `history`, `boundary` |
| `prefix_snapshots_` and the server's key for the slot | `snaps` |
| `generate_impl` | `GenerateFresh`, `GenerateContinue`, `GenerateExact` |
| `restore_and_generate_impl` | `RestoreDelta`, `RestoreRefused`, `RestoreExact`, `RestoreShorter` |
| chunk loop of `do_prefill` | `PrefillChunk` (positional), `PrefillPagedChunk` (slot-mapped), each with its boundary snapshot |
| end of `do_prefill`, `kvflash_sync_prefill` | `EndPrefill` |
| `do_ar_decode` | `DecodeFirst`, `DecodeStep`, `DecodeEnd` |
| continued checkpoint of the server | `DecodeCheckpoint` |
| an error return of either | `Fail` |

A step is a chunk of prefill or a token of decode, because that is where the code looks at
cancellation and where it can fail. What a token *is* does not matter, so two tokens (or one,
where only positions differ) stand for a vocabulary.

### Runs

| run | question | instance |
|---|---|---|
| KvDense | without `--kvflash`, does decode see its own rows, state and first token, whatever came before? | 2 tokens, prompts of 3 and 4 (so that the snapshot cut falls inside a chunk, at its start and at the end), chunks of 2, context 5, one slot, failures, restores |
| KvPoolFits | with `--kvflash` and requests that fit the pool, may a continuation trust rows, mapping and history? | fixed prompt length, no restores or failures |
| KvPoolPaged | with prompts larger than the pool (eviction, page-in, reselect), is the history the record of the pool, and does decode see its own rows? | fixed prompt length, no restores or failures |
| KvPoolAll | does the prefix comparison stay inside the history when all of it is mixed: prompts that fit and that do not, restores, failures? | everything on, one token |
| KvPoolRecurrent | a statement in the code's comments that the code does not keep; see Findings | the smallest instance that shows it |

Positions, token kinds and prompt lengths are bounded by `MinPrompt`, `MaxPrompt`, `MaxCtx`;
`MaxRec` bounds the recurrent state and the history, which a pooled continuation lets grow.
All hazards here need at most two requests whose prompts share, extend or cut one another
at each place around a chunk, the snapshot cut and the pool size, and these bounds contain
all of those; the requests that may follow one another are not bounded.
`KvPoolFits` and `KvPoolPaged` fix the prompt length and turn failures and restores
off because each of those breaks `HistoryIsRecord` (see Findings). The passing
runs show that the rest is sound.

### Findings

With `--kvflash`, continuing on the live pool is unsound in several ways, all consequences of
`generate_impl` trusting a record that other paths do not maintain.

- **KvPoolRecurrent**: the recurrent state is not reset although it holds the tokens
  generated after the boundary, or those after the point of divergence. `PROJECT.json` quotes the
  statement this contradicts.

The same carelessness about the record has more consequences, which the module shows with other
constants and its other invariants (they have no run of their own):

- `HistoryIsRecord` with `MinPrompt = 1`, `MaxPrompt = 2`: a prompt that is a strict prefix of the
  last one takes the exact-match branch, which leaves history and boundary uncut
  (`qwen35_backend.cpp` 1489, against the comment at 1418-1420).
- `HistoryIsRecord` with `Restores` and a pool the prompts fit: a restore keeps another request's
  ids as those of the restored prefix. With `Failures`: a failed prefill has overwritten rows
  but not the history.
- `ContinuedRowsInPlace` with prompts on both sides of the pool size: a prompt that fits is
  prefilled by position over rows a pooled request moved or evicted. The same happens with
  prompts that all fit when an answer outgrows the pool (`MaxPrompt = 3`, `PoolTokens = 4`,
  `MaxCtx = 6`): decode evicts rows of the prompt that the next turn looks for by position.
- `FirstTokenOfPrompt` with `KvFlash`: an exact match inside the live pool reuses the first token of
  another prompt.
- `FirstLogitsOfPrompt`, with or without `KvFlash`: an exact snapshot hit with a sampler draws its
  first token from logits that no forward pass over this prompt wrote (2387, against 2370).

### Proofs (`Qwen35Kv_proofs`)

The module only assumes `ConstantsAssumption`: sizes are naturals in a sensible order.

*For every configuration*: `TypeCorrect` and `BoundaryCorrect`. `BoundaryWithinHistory` is not
inductive alone: that the history covers the boundary after a continuation needs that the
continuation began inside it and that `committed` stays between the offset and the prompt
length. `IInv` adds this (`JobShape`) and the shape of snapshots (`SnapShape`).

*Without* `--kvflash` (`ASSUME ~KvFlash`): `DenseServedKv`, `DenseServedRecurrent`, `DenseFirstToken`,
`DenseSnapshots`. The strengthening `DenseInv` says what holds *during* prefill
(`DensePrefill`: rows, recurrent state and last token are those of the committed prefix) and decode
(`DenseDecode`), and that every snapshot is a faithful prefix of its key, which a restore turns back into
`DensePrefill`. These are the properties KvDense checks. There is one
step per action and, under it, one per conjunct it can disturb.

*With* `--kvflash`: `LiveServedKv`, `LiveHistory` and `LivePoolKept`, under `LivePool`: no
restores and no device failures (requests may still be cancelled at any chunk and clients may leave), prompts of one length, and
either requests that never outgrow the pool (`AllFits`) or prompts that all do. Each condition
is there because of a behaviour listed under Findings, and KvPoolFits and KvPoolPaged are
instances of the two kinds. The bounds are any, so the pool may be of any size and evict any
number of times. The argument is one invariant, `LiveInv`, for both kinds:

- positions never share a row (`OwnRows`), and the first *n* positions hold the request's tokens, in a row of the pool or, if
  evicted, in the host copy (`Holds`). `HistoryIsRecord` is not inductive: it says nothing of chunks that are
  paged out, and a page-in would bring back anything. `PageOutHolds`, `PageInHolds`, `SlotForHolds`,
  `ReselectHolds` and `WriteHolds` say that no operation of the pager loses anything;
- where everything fits, nothing was ever evicted and position *p* has row *p* (`InOrder`, `Filled`), which is
  what lets a prefill by position skip the continued prefix;
- a continuation agrees with the history up to its offset, so that the history recorded at its end is
  the prompt (`SyncedAgree`), and decode writes only behind the boundary.

Without `LivePool` these statements are false with `--kvflash`, and so are
`ServedRecurrent` and `FirstTokenOfPrompt` even with it: the findings.

### Not modelled here

The speculative path (`do_spec_decode`) is section 7. The pager is external: its policy is "some resident
chunk", and its chunk is one token. PFlash with a zero-length prompt and the rank of attention
scores are left out. The server retries with `generate` after a refused restore; in the model
that is the next request.

## 4. JobQueue and RequestService

### Correspondence

| code | model |
|---|---|
| main thread: `run`'s poll loop, `stop_worker`, join, `shutdown` | `main`; `Accept`, `CheckStop`, `PollTimeout`, `StopWorker`, `Join`, `DrainClients`, `Shutdown` |
| a signal, which only sets `stopping_` | `Signal` |
| a client thread: `handle_client`, `enqueue`, `enqueue_request_and_wait` | `handler[c]`; `ReadRequest`, `Reply`, `Enqueue`, `Monitor`, `Return`, `Leave`, `Unlock` |
| the peer | `PeerLeaves`, seen by the monitor later |
| worker thread: `dequeue`, `process_job` | `worker`, `current`; `Sleep`, `WaitTimeout`, `Dequeue`, `StartJob`, `GenerateToken`, `EndGeneration`, `WriteJob`, `FinishJob` |
| `queue_`, `stopping_`, `active_clients_` | `queue`, `stopping`, `active_clients` |
| `job.done`, `job.client_disconnected`, the refusal | `done`, `disconnected`, `refused` |

A step is what happens under one mutex or between two looks at shared state. `stop_worker` sets the flag and
notifies without `queue_mu_`, so a notification between the worker's test and its wait is
lost; the worker is then woken by its 30 second timeout (`WaitTimeout`). A `ServerJob` lives on its
handler's stack, so that pointers to it are dangling once the handler returns: `JobsAlive`.
A request that is refused by `enqueue` has its socket closed without a response in the single-model
mode modelled here. The multi-sequence scheduler that replaces `worker_loop` when the backend offers
one is not in the repository.

`RequestService` says what all of it amounts to: an admitted request is served once, alone and
answered before its connection closes; only a closing server refuses; and the server is gone
only when nobody is inside. `StageOf` maps the threads to its stages.

### Run

**Queue**: two connections, one token, a shutdown at any moment. Two connections contain one that
is served while another is queued, refused or still reading; a third adds nothing to the
worker, which looks only at the head of the queue, and the safety properties are proved for any number.
Deadlock is not checked because the server stops.

Fairness: weak for the main thread, the worker and the monitors, because each waits with a
timeout (poll 200 ms, `wait_for` 250 ms and 30 s) and looks again; strong for the steps that must
win a mutex others also take (`Enqueue`, `Leave`, `DrainClients`), because the scheduler does not starve a
thread on a mutex for ever. No fairness for the peer, the signal or the length of a request's
body. Under it `EveryRequestReturns` and `StopsEventually` hold, the second although the stop
notification can be lost.

### Proofs (`HttpServer_proofs`, second half)

For any finite set of connections and any `MaxTokens`: `TypeCorrect`, `JobsStayAlive`,
`NoneStranded`, `NoneInside` (the destructor finds nobody inside; in the run it is part of what
`RequestService` demands) and `QueueImplementsService` (initial states map to initial states, every
step to a step or a stutter). None of the properties is inductive; the invariant has one named part per
reason: `QueueShape` (a queued client waits, is queued once, and is not the current one), `CurrentShape`
(the worker's job belongs to a waiting handler until `done`), `Waiters` (a handler that waits is queued, current or
done), `Fresh` (the flags of a handler that has no job yet), `Stopped` (after the worker left, the queue is
empty and stopping is set), `Counted` (`active_clients_` is the number of handlers inside, by
cardinality) and `Empty` (nobody inside once `run` has returned). Liveness is outside the proof
system's reach and stays with the run.

## 5. StreamWriter

### Correspondence

| code | model |
|---|---|
| bytes of one socket | `wire`, items cut into `Parts` pieces; a write may stop between two |
| `job.write_mu` and what `send_all` has left | `out`: the worker holds the mutex while it is not empty |
| `stream_ready`, `heartbeat_offset`, `client_disconnected` | `ready`, `offset`, `left` |
| `sse_partial_line` | `line` |
| `process_job` | `pc`, `next`; `SendHeaders`, `StartStream`, `SendToken`, `EndTokens`, `SendDone`, `Finish` |
| `curl_write_passthrough`, `curl_forward` | `ForwardChunk` (any number of pieces), `EndForward` |
| the monitor | `Heartbeat` (any number of pieces), `HeartbeatFails`, `SeeDisconnect` |

### Run

**Stream**: three frames in front of `[DONE]`, three pieces each, two comments: enough for a
comment cut short at each place, continued by either thread, between each kind of frame, and for a
marker cut over three chunks. A finished job stops, hence no deadlock check.

A disagreement without a run of its own: `ForwardedUnbroken`, the same for an answer forwarded from
upstream, is refuted already by two frames of two pieces and one comment. A chunk of an upstream
answer ends anywhere, and the mutex is free until the next (`curl_write_passthrough`, 346), so a
heartbeat comment can land inside a frame when upstream pauses there for the length of the heartbeat
interval, although 4809-4811 says that the bytes of the two writers "cannot be interleaved".

Not modelled: the rewriting variant (`curl_write_rewrite`), which writes whole lines, and the
scheduler's buffered output.

### Proofs (`StreamWriter_proofs`)

For any number of frames, of pieces per item and of comments: `TypeCorrect`, `WireCorrect`,
`DeliveredCorrect`, that is all the run checks. They speak of `wire`; the invariant speaks of
`Stream`, the wire followed by what the holder of `write_mu` still has to write, because a torn frame is
only wrong once something is put behind it. `Whole`: the stream of a local answer is unbroken, and it
ends inside a comment exactly when `heartbeat_offset` says so, unless the client is gone. `FromAnswer`,
`InOrder`: what is not a comment are pieces of the answer already handed over, in its order, so that a
chunk from further on keeps the order. `Quiet` with `Place`: once the whole answer is handed over the
monitor may send nothing and owes nothing. `LineShape`: `sse_partial_line` holds the answer's pieces since the
last line end, wherever upstream's bytes were cut; hence the chunk that completes the marker is recognised
(`Forwarded`). The lemmas before it place every piece of the answer by quotient and remainder, without induction.

## 6. PrefixSlots

### Correspondence

| code | model |
|---|---|
| the backend's snapshots | `snap`: the tokens a slot's rows stand for |
| `PrefixCache`, both caches (external) | `key` |
| `slot_tokens_`, `agent_turn_cache_slots_` | `slotTokens`, `agentSlots` |
| the disk cache (external; a save may fail or push out another entry) | `disk` |
| `GenerationCacheState` | `cache` |
| `prepare_prompt`, `apply_pflash_compression` | `Arrive` |
| `prepare_generation_cache`, in its order | `Lookup`, `DiskHit`/`DiskScoped`/`DiskMiss`, `Validate`, `ColdPrefix`/`NoColdPrefix`, `PrepareInline`/`PrepareFull`/`PrepareNone` |
| the backend calls of `process_job` | `Generate`, `RestoreAndGenerate`, `RetryFresh` |
| `finalize_generation_cache` | `Finalize` |
| `remember_agent_turn` | `ReplayTurn`, `NoReplay` |
| shutdown save and the next process | `Restart` |

A request is served as `Served[w][form]`: verbatim, compressed whole, compressed by FlowKV or rewritten
by PPP. Which boundary a disk policy or the prefix cache picks is a choice of any prefix. The prefix
cache may answer with the slot being restored although it is asked not to: the server has a guard
for it. The result of a generation keeps the tokens its context was made of, which is what
`OwnContext` is about. The branch for a snapshot that vanished from memory is in `Validate`; no
code in the repository makes one vanish, so it is not reached.

### Run

**Slots**: five prompts covering every form, of which one extends another by an answer, two
rewrite to the same tokens, and two share a first token; two prefix slots (one restored, one
saved), one full slot, one disk entry. `RecordsAgree` (snapshot, key, tokens and agent turn of a slot, and
the request about to restore it) and `DiskFaithful` need at most one slot that is reused and one that is kept.

A disagreement without a run of its own: with `Prompt <- FewPrompt` and `Served <- ChangingServed` TLC refutes
`OwnContext`. If the same client prompt is compressed in one request and verbatim in the next (FlowKV
keeps a message verbatim when its compression fails, 3053-3064), the full-prompt cache, keyed by the
client's tokens (3480), restores compressed rows in front of the verbatim tail; 3475-3476 says "key by
the tokens we actually serve". `Slots` passes because there every prompt has one form.

### Proofs (`PrefixSlots_proofs`)

For any prompts, slots and size of the disk: `TypeCorrect` without a hypothesis; `OwnContextCorrect`,
`RecordsCorrect`, `DiskCorrect` under two, which the constants of `Slots` satisfy:

- `OneForm`: requests filed under the same key of the full-prompt cache are served the same tokens. Without it
  the disagreement above refutes all three: the compressed rows found under the client's tokens are
  followed by the verbatim tail, and what is then saved inline, on disk or as an agent turn is of neither.
  `UncompressedOneForm` shows that a server that compresses nothing satisfies it for any prompts.
- `NoneBlank`: no prompt begins with token 0, of which a placeholder is made. Chat templates begin with
  a special token; with such a prompt a disk entry filed under a placeholder (3858-3897) would be found.

The invariant `IInv` follows one request. `PromptIs`: the prompt is what is served (`Wanted`), or a placeholder as
long as it, and then a snapshot is being restored. `Sourced`: that snapshot is of a prefix of `Wanted`, of
all of it behind a placeholder; the staging slot is used by nobody else. `Taking`: the target slot is not
the source, lost its tracked tokens when it was taken, and what is in it is a prefix of `Wanted` within the
cut. Hence whatever a generation starts from, its context is `Wanted` (`Behind`, a lemma on sequences). `Records`:
for every slot the request is not writing to, key and snapshot agree; `OnDisk` the same for entries. Two
branches turn out to be never needed for what they were written for: under the hypotheses `Validate` refuses
no snapshot (`ValidateKeeps`), and a retry without restore never has a placeholder as its prompt (`GenerateKeeps`).

## 7. SpecDecode and GreedyAnswer

### Correspondence

The target model is its `story`, the tokens it would write greedily. A forward pass answers with the
story as long as the rows it attends to and the recurrent state are exactly the story so far;
anywhere else it may answer anything. So a stale row or a state that ran ahead shows in the
answer, and nothing else about the model matters.

| code | model |
|---|---|
| `committed`, `cache_.cur_pos`, `out_tokens`, `n_generated`, `ar_burst_left`, `last_tok` | `pos`, `curPos`, `out`, `generated`, `burst`, `lastTok` |
| K/V rows and recurrent state of the target (external), `snapshot_kv` | `rows`, `rec`, `snap` |
| locals of an iteration | `step`; those of `do_ar_decode`: `ar` |
| what the request and the options switch on | `use`, chosen at the start: speculation, tree, fast rollback, budget hook, stall tool, hints, floor |
| draft and chain verify, plain step of a burst | `VerifyChain`, `PlainStep` |
| fast rollback; restore and replay | `RollBack`; `Replay` |
| `emit_committed` with its two hooks | `Emit`, `EmitStall`, `EmitClose`; then `Commit` |
| the hand-over to `do_ar_decode` | `InvalidSeed`, `Stall`, `CloseOver` |
| the tree branch | `VerifyTree`, `EmitTree`, `RollBackTree`, `ReplayTree` |
| `do_ar_decode` with `maybe_force_close`, the floor and the watchdog | `ArFirst`, `ArStep`, `ArEnd` |
| any call of the backend that fails; a client that goes away | `Fail`; `Cancel` |

The draft model is external: it proposes any tokens, of any length up to the batch.

### Runs

**Spec**: every answer of three tokens, batches of three, trees of two, bursts of two, a close
sequence of two, a tool prefix of one. A batch of three contains the seed, an accepted and a
rejected draft; three tokens contain a step, a second one after any kind of rollback, and the end of the
budget in the middle of a commit. `CacheFollowsOut` is the state the loops rely on at each of the
three places where they look at the cache. `ImplementsGreedy` is the refinement: with any mix of
features the answer grows as `GreedyAnswer` allows. `Ends` assumes that the one decode thread
runs and that the backend's calls return (`WF_vars(Progress)`); failures and cancellation are not fair.

**SpecClose** is a finding: after the budget close the overridden step is replayed at
`committed`, which already contains it (4254), so the rows no longer line up with the output.

### Proofs (`SpecDecode_proofs`)

For any vocabulary, story, batch width, tree budget, burst, hooks and `n_gen`: `TypeCorrect`, `CacheCorrect`,
`ClosedCorrect` and the refinement `SpecImplementsGreedy`, that is all `Spec` checks but `Ends`. Besides
`SpecAssumption` they use `HookAssumption`: neither the first close token nor the last token of the tool prefix ends
the sequence. Both are encoded text (`think_close_token_ids`, 4075-4078 of `http_server.cpp`, and 4095), in
which the control token does not occur; with such a token `do_ar_decode` would decode on behind an end of sequence.

`CacheFollowsOut` speaks of the places between steps only, and is far from inductive. `IInv` has a part for
every place of the decode:

| place | what holds there |
|---|---|
| `loop` (`LoopOk`) | rows, recurrent state and answer are the story so far; the seed is how it goes on |
| `fix` (`FixOk`) | rows and state hold the whole draft, the snapshot what was emitted; the accepted tokens are the story's, and the bonus is next |
| `emit`, `commit` (`EmitFrom`) | the cache already holds all the step commits (`Committed`, the story's own tokens), the answer what it had before and the step's first `n` (`Emitted`) |
| `close` (`CloseOk`) | the answer is the snapshot and the step with the close token in it; of the rows nothing is claimed, which is `SpecClose`'s finding |
| `emitTree`, `settle` (`TreeFrom`) | the cache is still where the step began |
| `ar` (`ArOk`) | rows and state are one token behind the answer, except after a hand-over; what is left fits the budget |
| token by token (`Closing`) | the close sequence is not begun before the reserve is reached, is going on at the answer's end, or is all there |

That a snapshot is only promised for chains and for plain steps with `ReplayHooksArmed` (2876-2885) is enough, because
a stall or a close needs its hook armed: this is the reason that code has for skipping the others.

What the target confirms along a draft or a tree path is shown by the least position where it would
not be the story (`Along`); so is that `Accepted` exists at all (`AcceptedIs`). The least element comes from the
well-founded inclusion of finite sets (`Least`), where an induction over the sequence would be out of reach. Each action has
a lemma (`VerifyChainKeeps` and so on) and, where it emits or departs, one that maps it to a step of `GreedyAnswer`
(`EmitIsGreedy` and so on); all others do not touch `story`, `out` and `departed`.

### Known disagreements without a run

- With a close sequence of several tokens the speculative path clears `tail_hook.close_token_ids` and so emits
  only the first, although 4083-4085 speaks of the sequence; `ClosedInFull` is stated for
  `do_ar_decode` alone.
- At the hand-over `do_ar_decode` forwards `out_tokens.back()` once more, whose row is already written.
- The budget hook fires although the model has stopped thinking by itself.
- The tokens of the stall tool's prefix are emitted without asking the budget.
- The tree branch ends on an end-of-sequence seed without emitting it; the chain emits it.
- An end or a cancellation in the middle of a commit leaves the recurrent state ahead of `cur_pos`.
- After a failed continuation in a pool that pages, an exact match serves rows of the failed request
  (Qwen35Kv, `ServedKv` with `Failures`).

## 8. ToolParser and SseEmitter

### Correspondence

Text is a sequence of symbols. A delimiter the tokens may cut is two symbols (a stop sequence three, a
character two bytes), and what nothing looks into is one.

| code | model |
|---|---|
| `SseEmitter`'s fields | the record `em`; `sent` holds the events |
| `emit_start`; `emit_content_delta`, `emit_reasoning_delta` | `Started`; `ContentDelta`, `ReasoningDelta` |
| `emit_token` and its loop over the window | `EmitToken`; `Process`, of which a step is `Round` |
| `suppress_undeclared_tool_protocol_token`, `classify_generated_token` | `Suppressed`, `Classified` |
| `emit_finish` | `EmitFinish`, of `Flushed`, `Resolved`, `Recovered`, `ToolEvents`, `Final` |
| `find_top_level_think_close` | `TopLevelClose` |
| `on_token` of a streamed answer | `OnToken` with `Streamed` |
| `feed_non_streaming_tokens` | `Replayed`, in `EndWhole` |
| `find_tool_syntax_start`, `tool_syntax_holdback` | `ToolStarts`, `SyntaxHoldback` |
| `parse_tool_calls` | `ParseToolCalls`: the two Laguna patterns, the invoke block with its JSON lines, bare JSON, in this order over the spans claimed before; the calls are a set, each with its place and the span it takes out |

The OpenAI completion format differs from chat in wording only and is not a format of its own.

### Run

**Emitter**: every answer of at most five tokens from eleven vocabularies, streamed or not, in three formats, with
and without thinking. Each vocabulary holds the tokens of one difficulty, cut at each place: think markers,
nested or repeated thinking, an announced tool block, invokes with JSON inside, bare names, bare names within a block or after thinking has begun again, bare
JSON, stop sequences, cut characters (one of them behind a stop sequence, in its token), undeclared calls.
Five tokens contain an opener, its closer, both cut in two, and something behind. An answer ends, hence
no deadlock check.

### Findings

Three statements of the code that it does not keep. They are stated as invariants, have no run of their own, and TLC
refutes each with the constants of `Emitter`:

- `ArgumentsOwned`: JSON among the arguments of a bare name in a `<function_calls>` block becomes a
  call of its own. The scan of the block asks only whether its opening tag is claimed (`tool_parser.cpp` 1664), although an argument's
  "values may contain JSON" (1247).
- `NothingBehindStop`: half a character that waits in the tail is flushed behind the stop sequence
  that ended the answer, as a replacement character (`sse_emitter.cpp` 784, against 346: "Emit everything before the
  stop sequence").
- `ClassifiedAlike`: an answer that ends within a call the request did not declare loses the text in
  front of the call when it is not streamed, because `suppress_undeclared_tool_protocol_` is still set when the
  replay begins (`http_server.cpp` 4155 and 2582, `sse_emitter.cpp` 138), although "the two paths MUST classify
  identically" (`http_server.cpp` 2518).

What the properties leave out is what the code does leave open:

- `OpenedInTurn`, Responses: only until reasoning comes back after the message was opened. Then the
  indices of earlier items are used again, and reasoning recovered from a tool buffer opens an item
  nothing closes, although 837-840 says that reasoning is closed first. Nor is the message item given its
  `output_item.done` when calls follow.
- `DeltasAddUp`, stop sequence while thinking: nothing is sent to a Responses client, and an Anthropic client gets a
  `thinking_delta` in whatever block is open.
- `CallsApart`: unless the arguments of a bare name begin within a block (`ArgsInBlock`), because of the first finding.
- `StopHonoured`: nothing behind the stop sequence is sent, unless its token goes on with half a character
  (the second).
- `CutAnywhere`: stop sequences and bare JSON decide on the text that has come so far; a bare name is
  held back to a limit, and only in the content mode, so not at all in an answer that thinks, from the start or
  again (`NameBound`).
- `UndeclaredHidden`: what the emitter is given ends at a stop sequence.
- `ThinkingCounted`: until the answer starts to think again. Empty texts are counted only in the replay.
- `ReplaySame`: unless the answer ends within a call the request did not declare (the third).

Also met: the branch of `find_tool_syntax_start` for a bare tool tag (141-154) can never be reached.

### Proofs (`SseEmitter_proofs`)

`CallsAreApart` says of every text, of any symbols in any order, that no two of the calls found by all the sweeps together read the same
text or take out the same text, save for `ArgsInBlock` and with the
wrapped name `z` standing alone, as the emitter writes it. Each sweep alone is in turn because its matches are leftmost and
shortest (`Matches`) or because a key within earlier arguments begins nothing (`Laguna`); across sweeps
it follows from the spans a later sweep asks for, and, for JSON, from `JsonOutside`. A text has finitely many positions,
so the minima these definitions take exist.

For any vocabularies of any texts, any subset of the three formats, any limits and answers of any length:
`TypeCorrect`, `OpensInTurn`, `WhatIsSentIsKept`, `StopsAreHonoured`, `CallsReadOnce`. `EmitterAssumption` asks of the
constants only that the texts are texts without the symbol `z`, which stands for the wrapped name that the
emitter alone writes (820 of `sse_emitter.cpp`), and that the limits are naturals.

None of the properties is inductive: the events and the emitter's fields must be tied to one another. `IInv` says while
tokens come (`Running`):

| part | what it says | needed for |
|---|---|---|
| `Typed` | the fields' types; what is buffered is part of what was given | every step |
| `Plainly` | `z` has not been written, no calls and no buffer before their time | `CallsReadOnce`, the end |
| `Told` | the deltas add up so far (`Uttered` preserves it), and the events are in turn up to the field that says what is open: `BlocksTo` for Anthropic's `kind` and `block`, `ItemsTo` for the `outputIndex` and the two open flags of Responses | `WhatIsSentIsKept`, `OpensInTurn` |
| `Watched` | no stop sequence begins in what has left the window, and any that has arrived whole has ended the answer; this needs that `Holdback` symbols stay back and that a delimiter taken out of the window cuts no stop sequence in two | `StopsAreHonoured` |

and once the answer is over (`Over`): `Settled`, `Adds`, `InTurn`. A token is a lemma per way the loop can go on, down to
`Round`; `Process` and `Replayed` are recursive functions, of which a lemma says that they exist and another, from
the least round that would break it, that every round keeps what one round keeps.

`ItemsTo` stops where `ThoughtFirst` stops, at reasoning that comes back, and says nothing from there on.

That no event cuts a character in two, the last part of `DeltasAddUp`, needs `Intact` besides: no text that is still to be
sent (window, tool buffer) or has been kept (content, reasoning) cuts one. `Uncut` says that of a text without taking
anything from its tokens: a token may bring half a character, and `EmitToken` holds it back or replaces it
(`SanitizedUncut`). From there, every place where the emitter divides a text is an `Edge`: a delimiter, the stop sequence,
the cut of `SafeLen` (`ReleasableEdge`), the start of a name held back; and what the parser leaves over is uncut because
each span it takes out is bounded by delimiters (`SpansFramed`, `UncutParsed`).

### Proofs of whole answers (`SseEmitterAnswers_proofs`)

These compare an answer with its tokens, or with the answer the same tokens give on another path. Most of what
the emitter does with events does not matter for that, and the proofs work on its `Core`: the eight fields the
loop reads and the answer is made from. `CoreRound` is a round of the loop on cores alone, `Left` what the rounds
of a core come to. `RoundFollows` and `LeftIs` tie them to `Round` and `Process`, and what is kept of an answer is the
`Outcome` of its last core (`EndKept`).

- `UndeclaredIsHidden`. The texts shown so far (`ShownOf`) are those the emitter was given, or, behind a stop sequence,
  begin with them (`ToldSo`), and its one flag says whether the last opener still waits for its closer (`Hides`).
  The last place where an opener and the last where a closer stands among the tokens are enough for that.
- `ReplayIsSame`. A streamed answer is classified and emitted token by token; the other one is classified first and then
  fed, with the flag of the first pass still set. In between its emitter changes nothing but the flag (`Remembering`).
  The replay and a stream of the same tokens are then a `Pair`: their emitters are `Twin`s (same core, tail
  and stop) and, once a first token has set the flag right, agree on it. A control token of
  the replay is fed as nothing, and feeding nothing must change nothing: this holds because the loop has always
  `Rested`, a core that comes to itself. What a stream does to all that matters of an emitter is a
  function of its `Image` (`Streams`).
- `ThinkingIsCounted`. While an answer thinks no `</think>` has left the window, and when it has ended one has
  (`Thoughtful`); the text read so far has its think markers where the texts given have them, replacement
  characters and half characters notwithstanding (`Reads`). With both, `Counted` says between any two tokens which
  text ended the thinking.

### Proofs that the cut makes no difference (`SseEmitterCuts_proofs`)

`TokensCutAnywhere` compares an answer with the same text given as one token. The two emitters are in different
states most of the time: one holds back a few symbols, the other has seen all. So the invariant does not relate
states. `Smooth` says of the emitter between two tokens that *whatever comes next*, the answer comes to what the whole
text would, unless a bare brace or a name too long decides: for every text `x`,

    To(r, Ext(Core(e), x)) = To(r, Ext(Fresh(r), e.raw \o x))

where `Ext` puts `x` behind the window and `To` runs the loop and flushes. The key lemma, `LeftExt`, is that
running the loop before more text comes and running it after come to the same: `To(r, Ext(Left(r, c), x))` and
`To(r, Ext(c, x))` agree. It is shown along the rounds from `c` to `Left(r, c)`, from the first of them that would break
it, with `AgainExt` for a round that goes on and `WaitExt` for the last. A round is where the hazard is: what it does with a window must be what it would have done with a longer one.

- A delimiter found in the window is found in the longer one, and no earlier one can appear (`Hits` of the longer
  window below the held-back end are the same): `Holdback`, `Releasable` and `NameHeld` are what make this true.
- What is released is text both ways, in one piece or in several (`PartsTwice`, `Regrouped`).
- A bare name is the exception: `Suits` says how the window and the mode belong to the text, from which a name that is
  cut off by what was released is one `TooLong`.
- Half a character in the tail becomes `Half` at the end, on both sides (`EndSame`).

Two things in the model came up on the way. `PrefixOpen` compared a number of symbols with a limit the code states
in bytes; it now asks for a longer text by name (`Long`). And `NameTooLong` took the limit for an answer
that did not begin by thinking but begins to later; there the code holds nothing back. The eleventh vocabulary is
the answer that showed it.

### Left out

The other XML spellings, and repair and coercion of arguments (formatting); single quotes in
`find_top_level_think_close`; the path that delivers tokens of several sequences at once,
whose scheduler is not in the repository.

## 9. ModelRouting

### Correspondence

| code | model |
|---|---|
| `model.in_flight`, `routing_waiters_`, `stopping_` | `inFlight`, `waiters`, `closing` (the queue's `stopping` is the worker's) |
| `waiting.active`, the local set of unfit models | `active`, `unfit` |
| where a thread is, and at which model | `at`, `model` |
| the outer loop; the loop over the models | `Top`; `Skip`, `Reserve`, `EndScan` |
| the engine's answer (external), with `~Reservation` | `Handled`, `Busy`, `Unfit` |
| what follows the loop, with `~Waiting` | `Refuse`, `Wait` |
| the timed wait | `Wake` |
| a client that goes away, a signal | `Disconnect`, `Stop` |

A step is a critical section under `routing_mu_` or a look at what is not under it.

### Run

**Routing**: three requests, two models of one place, one place in the queue, and five workloads: all
compete for both models, two for one; one fits neither; others count tokens or name no model. Three
requests fill both models, or one and the queue, with one left to be refused. One client may leave; the server may stop at any moment.

Fairness: threads run, and the wait is timed (250 ms), so that no notification is needed:
`WF_vars(Thread(r))`. An engine answers (`WF`), and does not tell the same request for ever that it is
busy (`SF_vars(Handled(r))`), which is the operator's capacity being right for the engine. Under it
`EveryRequestEnds`, although a busy engine wakes nobody and the stop is notified without the lock.

A waiter gives its place up when it takes a reservation; if the engine is busy after all it queues
again and may be refused as "full" after having waited. Nothing in the code says otherwise, and `RefusedForCause`
does not forbid it.

### Proofs (`HttpServer_proofs`, first half)

For any finite set of requests, any models, capacities and queue limit, and any set of clients that may
leave: `RoutingTypeCorrect`, `PlacesCorrect`, `RefusalsCorrect`. The invariant adds to the three properties
`Position` (a thread at an engine names a model; only generating requests wait; a request that counts tokens
passes its model only when the server stops) and `Verdicts` (an engine is called unfit only when the
request does not fit it). The counters are cardinalities, so every step that moves a thread in or out of a model
or the queue cites `Grows` or `Shrinks`, which need that the sets are finite.

## 10. Not modelled

- *Status snapshot and its clients*: one broadcaster under one mutex. A client registered after the
  state it was sent misses a change in between (1790), and a short heartbeat leaves half a comment (1438).
- *Paged sequences*, *park and unpark*: their substance (block pool, reference counts, ggml buffers) is not
  in the repository.
- *Supervisor script*: sequential. After sixty unanswered probes it goes on waiting for a server whose context
  it never verified (54-75).
- *RPC*: one map of promises over an ordered port. A method that throws is resolved as success, and a call
  to a worker that ended stays pending.
- *`run` command*: formatting of events whose order is up to the opencode SDK.
- In the backend: the sampled verify, the remote draft process; PFlash with a zero-length prompt.
- *Key scanner, tools, configuration, request parsing*: no state over more than one step.

## 11. What is checked, what is proved

| | TLC | TLAPS |
|---|---|---|
| Qwen35Kv | all properties on small instances | type, boundary; all dense properties; with KVFlash, rows, history and place under `LivePool` |
| JobQueue | all properties, liveness, refinement | all safety properties, refinement |
| SpecDecode | all properties, liveness, refinement | all safety properties, refinement |
| ToolParser, SseEmitter | all properties | all properties; calls apart, for any text |
| ModelRouting | all properties, liveness | type, places, refusals |
| StreamWriter | all properties | all properties |
| PrefixSlots | all properties | type; all others for prompts served in one form |

Liveness under fairness and `ENABLED` cannot be proved here; nor can what a recursive definition computes for
every input, as that is an induction over data. Where a proof needs induction over a position or a round it takes the
least counterexample instead (`SpecDecode_proofs`, the three of `SseEmitter`), or arithmetic (`StreamWriter_proofs`). No module
declares a `RECURSIVE` operator: what the code does in a loop is a set, a fold or a recursive function.
