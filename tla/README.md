# HPL, specified

A TLA+ project for HPL, the governed execution substrate in `src/`: models of
its runtime engine, its permissioned IO lane, the tracks and commands built
around them, the anchors that make a run reproducible, and the agent harness
with its sub-tokens, governed sessions and memory; what they promise; TLC runs
that check the promises on small instances; and proofs, checked by TLAPS, for
every value of the constants.

Paths below are relative to the repository, in `src/`: `src/hpl/runtime/engine.py`
is `src/src/hpl/runtime/engine.py` beside this directory. Line ranges are in
`PROJECT.json`.

## 1. The system

HPL turns a program into a plan of effects, decides what the plan may do and
writes down what it did:

    parser -> macros -> axiom validator -> IR -> scheduler --plan, token--> engine
    engine --effect--> handlers --files--> work directory --> bundle -> signature, anchor
                 \--> io adapters (broker), net adapters (peer)

The agent harness in `tools/hpl-agent` is a second program beside it: a model
calls the pipeline as tools, every turn is logged and chained, and child agents
work under sub-tokens.

| Component | State it keeps | Operations | What is hard | What makes it correct |
|---|---|---|---|---|
| Runtime engine (`runtime/engine.py`, `contracts.py`, `execution_token.py`) | four counters, granted evidence roles, reasons, witness and transcript lists | `run`: gates, loop, verdict | the order of nine exits, three of which are charged before the next is asked; refusals without a reason; handlers that raise | no budget exceeded, no irreversible effect without its evidence, a refusal ends the run and is witnessed, "completed" means the whole plan |
| Effect handlers: IO lane (`effects/handlers.py`, `io/`) | files in a work directory, orders at a broker | connect, submit, cancel, query, event, reconcile, rollback | the process dies between a call and its record, or between two files; files of an earlier run are read as if they were of this one; adapters that fail after the order is out | a commit rests on this run's reply, the files of a reconciliation agree, orders are recorded, a rollback follows its outcome |
| Effect handlers: NET lane (`net/`) | session state, files | connect, handshake, key exchange, send, recv, close | no order between them is enforced, a stabilizer may refuse | evidence of each call, budget, endpoints |
| Effect handlers: Delta-S, trading, Navier-Stokes, agent proposal | files only | measure, compute, gate; load, step, decide | a report that is stale or missing when it is read | a gate decides on the report of this run |
| Scheduler (`scheduler.py`) | none | `plan`: a token and the steps of a track | steps and handlers agree on files by defaults in two places | no step comes before the one whose file it reads |
| Bundle and signatures (`tools/bundle_evidence.py`) | a directory of copies, a manifest, a signature | bundle, sign, verify | digests taken before the copy, roles that are not required | what is verified is what was written |
| Anchors (`tools/anchor_generator.py`, `verify_anchor.py`, `compare_anchor_contract.py`, `phase1_track_a_run.py`) | three files of an anchor, a published reference, a worktree on another machine | anchor, verify, publish, check out, run the demo, compare | no locks: files change while they are read one by one, three are written one after another, the reference is read twice; a verifier whose exit code says nothing | an anchor that verifies is of the bundle as it is, a green comparison is a reproduction |
| Lifecycle commands (`cli.py`) | files | plan, run, invert, bundle, verify | each step goes on from what an earlier one left; commands stop half way, also inside a write, and are given again, at another commit perhaps | ok rests on this run's evidence, a refusal on a witness, and an earlier ok ceases to verify in known ways only |
| Agent: token inheritance (`tools/hpl-agent/hpl_agent/ctih`) | budget states, revoked ids, a log, sessions | mint, spawn, run a turn, receive a witness | turns overlap, ids are shared, a turn fails | no authority grows, an overdrawn token is revoked and stops |
| Agent: audit, evidence chain (`ci/`) | a log file, a chain, a seal, a key | append, seal, verify | sessions append to one file, a write is cut off, the log fails after the chain has grown | the log verifies just if it is the beginning of one chain, a cut-off write costs one turn its entry, a seal covers the log |
| Agent: memory (`memory/`) | three layers, a checkpoint file | append, compress, save, restore | it is compressed again and again, at two places that count differently; summaries of summaries; saves that fail | the end stays verbatim, texts stay covered, checkpoints keep up |
| Agent: harness loop (`harness/`) | a conversation | submit a message, ask the model, run tools | an API, a tool or a log that fails in the middle, a loop that is exhausted | an answer that stopped for its tools has all their results behind it before the model is asked again (one that was cut off has not, `engine.py:97-99`), and a turn ends |
| Parser, macros, axioms, IR, backends, registries, validators | none | pure functions | text and trees | not stated here |

### How the parts interact

`cli.py` calls the scheduler, which returns a plan (data) with a token in it,
and hands both to `RuntimeEngine.run` with a context and a contract. The engine
is one thread and calls handlers by name; a handler returns a result with
digests of the files it wrote, or a refusal, or raises. The handlers of one
plan, and of later runs, communicate only through files in the work directory
(`trace_sink`, the current directory for `hpl run`). An IO handler calls an
adapter, which calls a broker that is not part of the repository. The bundler
reads the same files afterwards. An anchor is made of a
bundle's directory by another tool, which nothing keeps from being written to
meanwhile. In the harness a parent scheduler and its child sessions call each
other within one process, while the turn of a session takes as long as its
model does. Sessions under audit are processes of their own and meet in one
file, the log.

## 2. The modules

| Module | What it is |
|---|---|
| `RuntimeEngine` | one call of `RuntimeEngine.run`: state, gates, loop, verdict, and its properties |
| `GovernedRun` | what a caller of the engine relies on, abstractly |
| `MCRuntimeEngine` | plans, tokens and contracts for TLC |
| `RuntimeEngineProofs` | theorems about `RuntimeEngine` |
| `IOLane` | runs one after the other over one work directory and a broker, file by file |
| `MCIOLane` | plans and settings for TLC |
| `IOLaneProofs` | theorems about `IOLane` |
| `Tracks` | the plans of every track, what each handler reads, writes and may refuse, what each demo collects; no state |
| `Lifecycle` | the commands one after another: plan, run by `Tracks`, bundle, sign, report |
| `MCLifecycle` | command lines and inputs for TLC |
| `TracksProofs` | lemmas about the plans of `Tracks`: every track feeds its steps and has what it collects |
| `LifecycleProofs` | theorems about `Lifecycle`, by the lemmas of `TracksProofs` |
| `TokenTree` | parent scheduler, sub-tokens, child sessions |
| `BudgetLease` | what delegating a budget means, abstractly |
| `MCTokenTree` | a root scope and requests for TLC |
| `TokenTreeProofs` | theorems about `TokenTree` |
| `Merkle` | the Merkle root that the evidence chain and the anchors compute; no state |
| `GovernedSession` | sessions of the agent: tool loop, evidence chain, seal, and the log they share |
| `MCGovernedSession` | two sessions for TLC |
| `GovernedSessionProofs` | theorems about `GovernedSession` |
| `Anchors` | generator, verifier, publication and the run of track A on a second machine |
| `MCAnchors` | a bundle of two files for TLC |
| `AnchorsProofs` | theorems about `Anchors` |
| `ContextMemory` | the three layers of the memory under the tool loop |
| `MCContextMemory` | the memory for TLC |
| `ContextMemoryProofs` | theorems about `ContextMemory` |

### RuntimeEngine

`input` is what `run` is given. `pc` is where it stands: before the gates
(`start`), in the loop, past it (`finish`), returned (`done`) or left by an
exception, in a handler (`raised`) or before the loop (`aborted`). `remaining`
holds the four counters (`steps`, `delta`, `io`, `net`; `None` when the token
sets none), `roles` the evidence roles, `reasons`, `witnesses` and `transcript`
the lists of the same names.

| Action | Code |
|---|---|
| `Begin` | token, budgets, start witness, plan status, verification, operator registry; all gates are evaluated, any failure skips the loop |
| `BeginRaises` | the anchor is no JSON or the key no key: the verification raises and `run` does not return |
| `BudgetDenied(m)` | counter `m` is at zero; counters that are looked at earlier have been charged |
| `EvidenceDenied` | an irreversible step lacks a role (`delta_s_evidence_missing`) |
| `ContractDenied` | `ExecutionContract.preconditions` |
| `StepOk` | the handler succeeds, roles are granted by the names in its digests, the step counter goes down |
| `StepRefused` | the handler refuses with a reason: the loop ends |
| `StepRefusedSilently` | the handler refuses without one: the loop goes on |
| `StepRaised` | the handler raises: `run` does not return |
| `Finish` | verdict, constraint witness, observer report |

A step is a record of what the engine looks at. What a handler computes is its
outcome; which outcomes an effect can have is read from the handlers
(`ASSERT_CONTRACT` copies the errors of the plan and may refuse with none). The
four denials of a budget (`engine.py:162-211`) have reason texts of their own in
the code and are one action with the counter as parameter here. That a registry
of operators is no JSON is not modelled: its files are the repository's.

### IOLane

The engine's loop stays, cut down to the io budget and the io policy; the
handlers are opened up. A handler first talks to the adapter and decides what
it will write (`todo`) and how its step will end (`ending`), then writes one
file per step (`Write`), then ends (`EndStep`). `Crash` may come anywhere and
may leave the file that is being written torn. `Start` begins a run in the
directory as it is, or in an empty one as the demo commands do. `orders` is the
broker. The adapters are `mock`, `stub` (not ready) and `live` (MT5, Deriv),
whose answer to a submission does not tell whether an exception came before or
after the order went out.

`PolicyOk` is one condition for what `_ensure_io_policy` refuses one by one (io
not allowed, scope, endpoint, timeout): each is a property of token and step
that no state changes, and each ends the run the same way; the refusal types
differ. `OrderIdDenied` is a cancel or a query without an order id. `Expected`
is the status that the plan of the live-min track reconciles with; the plan of
the shadow track, which places nothing, expects "ok" of a query and writes files
of its own (`scheduler.py:788-812`). A hand-written plan that expects no status
at all, and a reply marked ambiguous, which no adapter of the repository makes,
are left out.

Files hold what the code writes as far as it is read again: requests carry no
number in the code, `call` is added so that two submissions can be told apart
by the properties. Contents of outcomes, reports, remediations and rollback
records are the records they were made from.

### Tracks and Lifecycle

`Tracks` has one operator for each handler and each plan: a step is a record of
the files it reads, the inputs of the command line it reads, the files it
writes and when it may refuse. `Lifecycle` runs these steps with the engine's
loop, cut down to one gate (`RuntimeEngine` has the gates one by one, `IOLane`
the files of an exchange one by one). A file is the set of inputs it was
derived from, which is what tells a stale file from a fresh one.

| Action | Code |
|---|---|
| `Begin`, `ParseFails` | the work directory is swept; a program that is none ends the command |
| `Plan` | what the command writes before, `scheduler.plan`, a denied plan goes to the engine all the same |
| `Replay` | `hpl run` on the plan that is there: no work directory, files are written in the root |
| `StepOk`, `StepRefused`, `StepRaises`, `Finish` | the loop of the engine and a handler |
| `Pack`, `Sign`, `ReportOk` | bundle of what exists, signature and its check, verdict of a demo |
| `Repack`, `Resign` | witness of a refusal, second bundle, second signature |
| `PackLifecycle` | the end of `lifecycle`: lowering in its legacy form, one bundle, no signature, verdict |
| `PackRaises`, `Crash` | the process ends between two writes and gives no verdict |
| `PackCut`, `RepackCut`, `LifecycleCut`, `SignCut` | it ends inside the write of a manifest or of a signature, which replace their files in place |
| `HeadMoves` | somebody commits or checks out, at any time: `head` is what `git rev-parse HEAD` answers the bundler |

The bundle id is a record of what its digest covers, the artifacts. The manifest
has more: the sections, what the epoch anchor was worth and `git_commit`, which
the verification of the anchor depends on as well. The seal of a bundle is the
manifest that was signed, and verifies if that is the manifest that is there.
Other files are whole or not there: an artifact whose copy is cut off is not
noticed by the code either, as the signature covers the manifest and its check
(`verify_bundle_manifest_signature`) looks at no artifact, and work files are
steps of one process that reads them only after they are written.
`--quantum-semantics-v1`, `--ecmo` without a step, contracts that leave out steps
are not modelled. The switch of a lane (`--enable-io`, `--enable-net`) is off,
on, or on without what it takes: the demos set the guard `HPL_IO_ENABLED`
themselves, a replay does not. Switched off, a broker's step is answered by its
handler and completes; a step of a session is refused.

### TokenTree

A sub-token's id is a hash of the root's id and its scope, so the scope stands
for the id and two children with equal scopes share one. `BeginTurn` and
`EndTurn` are the two halves of `run_turn`, before and after the engine's call;
`FailTurn` is the exception that leaves it. `Receive` is `receive_witness`.
`worked` and `late` are not in the code: they count what a session did whether
or not it was reported, for the properties. An exception of
the signer or of `on_revoke`, after the steps are counted and before the session
hears of it, is not modelled: the signer is made before the sessions are, and
the one `on_revoke` of the repository appends to a list (`cli.py:172`).

### GovernedSession

Each session is a process with a conversation (`messages`), an evidence chain
and a seal of its own; `log` is the file they share. A message is its role, how
many tool blocks it holds and its stop reason; a digest is what it was taken of.

| Action | Code |
|---|---|
| `Submit` | `submit_message` appends the prompt, whatever the last message left |
| `Answer`, `RunTools` | its loop: an answer of the model, the results of all its tools in one message; at most `MaxApi` answers, which may be none (`HPL_MAX_TURNS=0`); an answer that is cut off ends the loop with its tool blocks unanswered |
| `ApiFails` | the client raises and leaves `run_governed_turn` |
| `Record` | `EvidenceChain.append_turn`: the leaf joins the chain, an older root is dropped |
| `Log`, `LogFails` | `AuditLog.append`: a line is added and the turn returns, or the write fails, having written nothing, a part, or all but the end of the line |
| `Finalize` | `finalize_session`: root, signature, leaf count |
| `Stop` | the process ends, also within a turn and within a write |

`Put` is what appending means for a file whose last line has no end: old and new
make one line that is no entry. `LogVerifies` and `ChainVerifies` are the two
verifiers of the code. `returned` and `tears` are not in the code: the turns
that returned to their caller, and the writes that were cut off.

### Anchors

Machine A has a bundle, which is edited at any time, and the generator's three
files. The generator lists the files (`Collect`), reads them one by one
(`ReadFile`), writes the leaves, reads the bundle's manifest and signs
(`Sign`), and writes the anchor's manifest; it may die between any two of these
or inside a write, which leaves a file that is no JSON (`Cut`). `Publish` copies
manifest and leaves to the references, at any time: a run that began with one
reference may compare with another.
Machine B is `run_track_a`: `Start`, `Checkout`, `Demo`, `Generate`, `Verify`,
`Compare`, any of which may fail. `Demo` writes any bundle: what it is equal to
is what the properties are about. A hash is what it was taken of, a signature
its key and the core that it signs. `AnchorVerifies` and `Green` are
`verify_anchor` and the comparison. `origin` is not in the code: the bundle as
the generator read it.

### ContextMemory

A message is its kind, its place and its size in tokens. A summary is the set of
messages it was made from, directly or through an older summary.

| Action | Code |
|---|---|
| `Prompt`, `Results` | a user's message joins the list |
| `GetMessages` | `get_messages`: compresses if it is due, with the system prompt counted |
| `Answer` | `add_assistant_turn`: counts the turn, compresses if it is due without the system prompt, saves a checkpoint every `Every` turns; the save may fail |
| `AnswerRaises` | the summary it is given holds no lists: making its block raises, outside of the summarizer's try, with the turn counted and the checkpoint passed over |
| `ApiFails` | the client raises, or `get_messages` as above: the prompt stays the last message |
| `ForceCheckpoint` | `force_checkpoint` |
| `Stop`, `Create` | the process ends; another is created for the session and reads the file |

`Managed` is `ContextManager`'s compression: `Compressed` is the new list,
`Summaries` what the summarizer may return: a summary, an empty state if the call
fails or returns no JSON, an extract of a few texts if there is no client. The
file is written as the log above is.

## 3. What is checked

Runs are listed in `PROJECT.json` with their properties; every property of a
passing run has a mutant, a faulty variant of a definition (marked `Faulty` in
the modules and not part of the specification) that breaks it.

| Run | Bounds | What it shows |
|---|---|---|
| `engine` | all plans of up to 3 steps of 6 kinds, three of 4; 9 tokens; 3 contracts | budgets, evidence, refusal, verdict, witness trail, refinement of `GovernedRun` with its liveness |
| `engine_silent_refusal` (violation) | same | a refusal without a reason leaves no constraint witness |
| `io_lane` | 2 runs, 5 plans, 5 settings | commits, files, orders, rollbacks, termination |
| `io_dry_run` (violation) | same, dry-run token | a dry-run token places an order |
| `lifecycle` | up to 3 commands, 10 tracks, 2 good inputs and every absent or refused one, keys, anchors, grants, budgets, lanes, 2 commits | ok is proven, a refusal witnessed, evidence fresh, earlier verdicts lapse in known ways only, plans fit handlers |
| `lifecycle_pubkey` (violation) | one command, every track | the default public key is not found by the signature step |
| `token_tree` | 3 children, 2 scopes, turns of up to 2 steps | attenuation, revocation, log, refinement of `BudgetLease` |
| `token_overspent` (violation) | one child | tool calls of a turn that failed are not counted |
| `governed_session` | two sessions, of 2 messages and of 1, 2 model calls a message, 1 tool an answer, 1 cut-off write | what a verifying log and a verifying seal are worth, the conversation, and that turns end |
| `anchors` | 2 files, 2 contents, 2 commits, 1 edit, 2 anchors | anchors that verify, reproduction by a second machine |
| `context_memory` | 6 messages of 1 or 4 tokens, 2 verbatim, 10 available, a checkpoint every 2 turns, 2 lines | the verbatim end, the summaries, the checkpoints |
| `memory_restore` (violation) | the same | no checkpoint can be restored |

Why the bounds are enough. `engine`: counters are 0, 1, 2 or just below the
length of the plan, so each runs out at every position, and the order of any
two checks is visible within two steps; three steps give the evidence its
compute, gate and collapse, and the plans of four its certificate too.
`io_lane`: what an earlier run can do to a later one it does through the files,
and any set of files is left by one run of the plans given and one crash; a
third run adds no new pair of an old file and a new one. `token_tree`: two
sessions that share an id and one that does not. `lifecycle`: what a command
can do to a later one it does through the bundles, the plan and the root. The
first command is any (`First`), the second a rerun with the same or another
input, without a key or without grants, with other sections, another anchor or
a foreign key, or a replay; a third follows only a replay that left something in
the root, which only Navier-Stokes reads. Each of the ways in which a verdict
may lapse (`EarlierVerdictsStand`: other sections, another anchor, another
commit, another key, a manifest or a signature cut off) is taken by some second
command. `HeadBounded` lets the head move where there is a verdict to lose,
between commands or between the two bundles of one; two commits are the one a
bundle was signed at and another, and neither is special (`AnyCommit` is a
symmetry of every property). `Bounded` lets a cut-off bundle go on to a second
command only on the track that the second commands come back to: elsewhere no
command would meet it.
`governed_session`: the log mixes entries of sessions pair by pair; of two
turns, one can fail and the next be logged behind the cut-off line, and two
model calls show an exhausted loop as well as one that goes on.
`anchors`: one file is the bundle's manifest, which has a digest of its own and
is read twice, the other stands for all others; two anchors give a generator
that dies over the files of an earlier one, one edit comes between any two reads,
and the second anchor is published while a run is on its way with the first.
`context_memory`: with a window of two, six messages are compressed several
times, at both places, before and behind a checkpoint; messages of 4 tokens make
a compression due where messages of 1 do not. For larger values of all these bounds
there are the theorems of section 4.

Fairness. `RuntimeEngine` has weak fairness of `Next`: `run` is a loop over a
finite list in one thread, handlers return or raise, nothing waits for another
actor. `IOLane` has weak fairness of `Work` for the same reason; a crash is
never due and no run has to be started. `GovernedSession` has weak fairness of
each session's `Work`: the client's call returns, raises or times out, tools are
local calls, and nothing in a turn waits for another session; nobody has to
submit, seal or stop. `TokenTree`, `Lifecycle`, `Anchors` and `ContextMemory`
have none and state no liveness.

Deadlock is not checked where a system may stop: all runs but the anchors'.

## 4. What is proved

`RuntimeEngineProofs`, for any plans (of any length), tokens, contracts:

- `TypeCorrect`; `NoRunExceedsItsBudgets`, from `BudgetInv`: while the loop
  runs, what is left of a counter and the number of attempts it was charged for
  make the limit. The property alone is not inductive, as it does not say what
  is left.
- `NoCollapseWithoutEvidence`, from `EvidenceInv`: a role that is held was
  granted by a step before that ended ok.
- `RefusalEndsEveryRun` and `CompletedRunsAreWhole`, from `ControlInv`, which
  ties `pc`, `reasons`, `next` and the transcript together.
- `WitnessesTellTheRun`: an admission trail, then a record for each executed
  step and one for the step denied before it ran, and the completion record
  last. With `ControlInv` the statement is inductive as it stands.
- `EngineIsGoverned`: every behaviour of the engine is one of `GovernedRun`
  (safety).

`IOLaneProofs`, for any plans (any order of the seven effects), settings and
number of runs over one work directory:

- `InductiveIInv`. No property of the files is inductive by itself, as a handler
  decides what it will write and then writes file by file, and may be stopped
  between and inside writes. The invariant is about `Held(f)`, what file `f`
  will hold once the writes under way are made. `SeenInv`: a call has one
  response, whichever file tells of it; it holds over crashes. `RunInv`, of runs
  that have neither raised nor been stopped: request and response are those of
  the last submission (`SentInv`), a judgement is of the request and the
  response that are there (`AgreeInv`), and the loop goes on behind a
  reconciliation only if that commits (`CommitInv`). `Start` in a used directory
  keeps it because a run has handled nothing yet, whatever lies there.
- `TypeCorrect`; `CommitsAreOfTheRun`, `EvidenceStaysConsistent`;
  `JudgementsStand` and `RollbacksAreCalledFor`, which are action properties.
- `OrdersAreLogged`, from `PlacedInv`, for plans in which a submission occurs
  once, as in the scheduler's: a second one writes over the files of the first
  (hazard at `handlers.py:1786`), and the statement is false of such a plan.

`LifecycleProofs`, for any sequences of commands, on all tracks:

- `InductiveIInv`. Its parts: `Planning`, `Reporting` and `Bundling` say that
  plan, report and bundle belong to the command under way and that a bundle's
  id is that of its artifacts; `Proceeding` is what makes ok provable: as long
  as nothing is held against the run, the steps that completed have left their
  files and the bundle has all that the command collects; `Deriving` what files
  and bundles were derived from.
- `OkMeansProven`, `RefusalsAreWitnessed`, `EvidenceIsFresh`, `TypeCorrect`;
  `RefusalEndsTheRun`, an action property.
- `VerdictsStand`: a directory of a bundle is named by its artifacts alone,
  while the signature covers the sections, the anchor and the commit too, and
  both files of it are replaced in place. The property says in which steps that
  costs an earlier verdict (`Rewritten`, `Resealed`), and the theorem that these
  are all. The proof is that two commands that come to one id with the same
  sections and anchor at the same commit write the same manifest, if they write
  it to its end.
- `TracksFeedTheirSteps` assumes that a job that requires an epoch names the
  public key by an absolute path. Without that it is false, which is the run
  `lifecycle_pubkey`. `TracksProofs` has the lemma behind it for each of the ten
  tracks (`SelectionStands`, `EpochServes`): each step's files are outputs of
  earlier ones, whichever options its plan was made with, and the outputs of all
  are what the command collects.

`TokenTreeProofs`, for any root, requests and number of children:
`TypesHold`, `ChildrenAreAttenuated`, `RevocationsAreLogged`,
`RevocationIsSeen` and `ChildrenHoldLeases` (`TokenTree` implements
`BudgetLease`). The last two rest on `SessionInv`: only an active session is in
a turn, and an active one has not exceeded its budget. That holds although the
parent adds running totals up and a spawn resets them, because one report
carries all the steps of the session.

`GovernedSessionProofs`, for any sessions, turns, tools and cut-off writes:

- `SessionTypes`; `LogVerifiesOnlyUnbroken`: the log verifies just if it is the
  beginning of one session's chain. One direction needs that what is in the log
  was chained (`LogInv`) and that a leaf knows its session, place and
  predecessor (`ChainInv`); the other (`VerifyInv`) goes by entries, each of
  which names the digest of the line before.
- `LostEntriesArePaidFor`, from `TearInv`: the returned turns without an entry,
  and one more while the last line has no end, are no more than the cut-off
  writes. Without the "one more" the invariant is not inductive: it is the next
  entry that a line without an end costs.
- `SealsCoverTheLog`, from `SealInv`: a root that is kept is that of the chain
  as it is.
- `OnlyCutOffUnanswered`, from `TalkInv`: behind each answer but the last comes
  what it calls for (`Due`), the results of all its tools if it stopped for
  them, the next prompt if it was cut off with its tool blocks unanswered; and
  an answer that stopped for tools is the last message only while they run.

`AnchorsProofs`, for any files, contents, commits, edits and anchors:
`AnchorTypes`, `VerifiedAnchorsAreOfTheBundle`, `GreenRunsReproduce`,
`GreenRunsAreVerified`. `LeavesTellFiles` says that equal leaves are of equal
files; `AnchorInv` that every manifest, half made or published, has the leaves
of what it was made from; `RunInv` what the run of track A may rely on at each
stage: that it gets behind `Demo` only with the key that signs, and that its
checkout and its anchor are of the commit it read at the start. The reference
itself is nothing to rely on; a comparison that is green says again what it is of.

`ContextMemoryProofs`, for any window, budget, sizes and length:
`MemoryTypes`, `TheTailStaysVerbatim`, `SummariesKeepTexts` and
`TheFileKeepsUp`. `Verbatim` says
the list is the end of what was said, behind the block and its ack if there is a
state; `Covered` that an earlier text is in the state or was left out by a lapse
of the summarizer. `ManagedKeeps` shows that a compression keeps both, for
`GetMessages` and `Answer` alike. `KeepUp` is stronger than the property about
the file: the last checkpoint is not merely less than `Every` turns old but no
older than the remainder of the turns by `Every`, as forced checkpoints may come
between; and `turn` is the number of the assistant's messages. While no save has
failed or was passed over the last line has its end, so the next one is not swallowed.

All rest on `ConstantsOK`, the types of the constants, which TLC evaluates in
every run; that hashes collide nowhere is part of the models (`Merkle`). With
these every safety invariant and every safety action property of the runs is
proved. Only model-checked: all liveness (`RunsEnd`, `TurnsEnd`, the liveness of
`GovernedRun`), as fairness and ENABLED are out of the prover's reach. What is
expected to be violated is TLC's: a counterexample is its own proof.

## 5. Where the code and its documents differ

- A refusal without a reason neither ends the run nor yields a constraint
  witness (`engine_silent_refusal`).
- The default public key is relative and not found by the step that verifies
  the anchor's signature (`lifecycle_pubkey`): of the tracks, only `net_shadow`
  and the legacy form run with `--require-epoch` and the default key.
- The check of the io mode is unreachable: a dry-run token places an order
  (`io_dry_run`).
- Tool calls of a child's failed turn are not counted, so it is not revoked
  (`token_overspent`).
- Restoring a memory hands on text where a record is expected and raises for
  every checkpoint (`memory_restore`; `manager.py:62`, the comment at `:59`).
- Met while modelling, with no run of their own (hazards of `PROJECT.json`): an
  evidence role is granted for the name of a digest; Navier-Stokes reads stale
  files of the root; the selection step raises with a relative output
  directory; findings of the redaction report decide nothing; the first bundle
  of a refused run is signed; a rerun with other sections, with another anchor or
  after a commit, and without a key, leaves a stale signature beside a manifest it
  rewrote, as does a write that is cut off. By `constraint_inversion_runbook.md:87`
  the bytes of a manifest stay identical across runs, by
  `production_readiness_checklist.md:125` it is deterministic for the same
  inputs: that holds at one commit.
- Also with no run, in the models as in the code: a demo that is refused because
  a named file is absent bundles that file and raises, with no bundle, witness or
  verdict (`cli.py:1528`, `PackRaises`), where `hpl_constitution_whitepaper_v1.md:42`
  has every refusal evidenced; with a gate missing the broker's steps complete
  (`handlers.py:1874`), which `io_lane_runbook.md:18` says are refused; `lifecycle --constraint-inversion-v1` refuses a completed
  run without a witness (`cli.py:888`); running totals are added up, so a child
  whose turns succeed is revoked early (`parent_scheduler.py:49`); an empty
  scope of tools offers all (`child_agent.py:30`).
- Anchors: `verify_anchor.py` exits with 0 whatever it found and does not look
  at the digest of the bundle's manifest; files that the generator was told to
  exclude make its verifier fail; the comparison includes the digest of the
  leaves in the contract, so the leaf diff of
  `docs/audit/reproducibility_contract.md:34` is never reached.
- Sessions: two sessions on the default log leave one that never verifies; an
  API failure leaves the tool calls before it in no log; an answer that is cut
  off leaves its tool_use blocks unanswered before the next prompt
  (`engine.py:97-99`); without a key file the key that signs ends with its
  process (`ci/signer.py`).
- Memory: behind the ack two messages of the assistant may follow each other
  (`compressor.py:105` adds it "so the message alternation is valid"), and a
  compression may keep a tool_result whose tool_use it has summarized.

## 6. Plan

Done in this order, most important first, each with its runs: 1 engine and its
abstract run, 2 IO lane, 3 token inheritance, 4 tracks and commands, 5 governed
sessions with log, chain and Merkle root, 6 memory, 7 anchors and track A;
proofs of all seven. Left:

8. `NetLane`: the six effects session by session, stabilizer, adapters, files.
9. `DeltaSKernel`: measure, compute, gate over files of this and earlier runs,
   and the sections of a bundle that require roles of each lane.
10. Epoch anchors, and signing a manifest by itself.

Theorems to come: with each of these modules its invariants, and `Serves` of
`TracksProofs` for the tracks' sections.

## 7. Not modelled

Pure translations of text and trees (parser, macros, IR, backends,
diagnostics), schema validators and CI gates (one file in, one verdict out), the
numeric models of the effect packs, redaction patterns, formatting and logging.
The parts planned above are listed as not modelled until they are there: the
engine's budgets and the plans of `Tracks` cover the NET lane and Delta-S only as
steps that succeed, refuse or raise and as files that are written and read.

Within the modelled parts: for anchors, prefixes of commits, an anchor written
below the bundle it is of, two runs of track A in one worktree, and machines
with several signing keys; for sessions, saving and resuming a conversation
and usage counters; for the memory, what
a summary says, and two processes on one file. Calls of the pipeline by the
agent's tools are answers of a tool.
