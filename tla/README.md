# Verification of plnt

plnt runs *bundles* (packaged agents) for tenants: an HTTP server accepts a
message for a session, a thread executes the turn, and everything that happens
is appended to the session's event log, from which the console, the event
stream and the accounting are derived. Beside it the repository holds an older
single-user server with sandboxed agents, and a booking example that runs its
agents under Temporal. This directory holds TLA+ models of the three, the TLC
configurations that check them on small instances, and TLAPS proofs about them
for every value of their constants.

    tlc -workers 2 -config MCSessionRuns.cfg MCSessionRuns     # one run
    tlapm SessionRunsProofs.tla                                # one proof module

Paths below are relative to `src/`; `local.py` is `plnt/executors/local.py`,
`loop.py` is `plnt/agent/loop.py`, and `booking/` is `examples/booking/`.

## 1. Inventory

### The platform: the path of a message

| component | state it keeps | operations | module |
|---|---|---|---|
| HTTP API (`plnt/server/app.py`) | none of its own | one thread per request: sessions, messages, kill, events, installs, secrets, keys | EventStream, TenantFiles |
| Playground (`plnt/server/playground.py`, `plnt/tenancy/workspace.py`) | message windows, tokens of the day, a folder per session | `new_session`, `message`, `account` (a thread per message), sweep | Visits, EventStream |
| Local executor (`local.py`) | `_runs`: the last run of each session; per run `stop_reason`, `tokens`, `thread` | `send`, `kill`, `wait`; `_turn` in a thread per run; `_run_micro` in a pool of at most 4 | SessionRuns, ParentTurn |
| Parent agent (`plnt/agent/parent.py`) | none | `decide`, `parse_decision`, `synthesize` | ParentTurn |
| Agent loop (`loop.py`), loop detector (`plnt/control/acc.py`) | locals of one call; counts of identical calls | `run_agent`, `observe` | MicroAgent |
| Session database (`plnt/tenancy/db.py`) | sessions, events (session, seq), usage | `append`, `events_since`, `history`, `set_status` | SessionRuns, EventStream |
| Transcript (`plnt/tenancy/transcript.py`) | none: a fold of the log | `build_transcript` | Transcript |
| Tenant store (`plnt/tenancy/tenants.py`), installs (`installs.py`), bundles (`plnt/bundles/bundle.py`) | JSON files; a directory per bundle and version | create, rotate, set, delete; install, update, uninstall, `active` | TenantFiles |
| Model clients, profiles, doctor (`plnt/models/*.py`) | servers known to refuse a named tool | `chat` with retries and a time; `run_doctor` | ModelCalls |

### The single-user server

| component | state it keeps | operations | module |
|---|---|---|---|
| Server, events, sign-in (`plnt/surface/server.py`, `auth.py`) | a thread per intent; `auth.toml`; sessions in memory | `submit_intent`, `stream_run`, login, bootstrap | Swarm, RunEvents, SignIn |
| Orchestrator (`plnt/control/orchestrator.py`) | none beyond one call | `start_swarm_with_id`, `start_run`, the project folder of a turn | Swarm, AgentSandbox, Dialogue |
| Planner, triage, clarify | none | text in; a kind, a question or a plan out | Swarm, Dialogue |
| DAG executor, budget governor (`dag.py`, `budget.py`) | in-degrees, outputs, remaining agents; spend | `run` by layers; `tick_tokens` | Swarm, AgentSandbox |
| Skill registry and installer (`plnt/control/skills.py`, `skill_installer.py`) | a cache of parsed skills | `get`, import | SkillRegistry |
| Sandboxes and runner (`plnt/execution/`) | the child, its watchdog, the kill reason | `run`, `kill` | AgentSandbox |
| Blackboard (`plnt/execution/blackboard.py`) | a JSONL file per run | `emit`, `read_all` | Swarm, RunEvents |

### The booking example

| component | state it keeps | operations | module |
|---|---|---|---|
| Conversation and saga (`booking/workflows/session.py`, `saga_booking.py`) | inbox, pending offer, replies | a workflow loop; book, notify, compensate | Conversation |
| Web channel (`booking/channels/web_ws.py`) | a socket and a cursor | connect, inbound, close | WebChannel |
| Activities, skills, notifications (`booking/workflows/activities.py`, `microagents/`, `tenancy/notifications.py`) | `bookings.db`, `notifications.jsonl` | `run_microagent`, `run_skill`, upsert, cancel, append, `mark_read` | BookingActivities |
| Booking-desk bundle | a ledger in SQLite | availability, book, cancel | BookingDesk |
| Storefront (`booking/services/catalogue.py`, `orders_store.py`, `surface/`) | catalogue, orders, push tokens | CRUD, orders, free slots | Storefront |
| Tenant records (`booking/surface/admin.py`, `onboard.py`) | `tenant.json` | provision, rotate, create, link | TenantRecords |
| Owners (`booking/surface/auth.py`, `services/business_owners.py`) | magic links, owners, sessions | request, verify, sign out | Owners |
| Documents (`booking/services/doc_chunk.py`, `surface/docs_upload.py`) | a merchant's files, a directory of chunks for each | upload, delete, `top_chunks` | Documents |
| Skill bundles (`booking/surface/admin_v2.py`, `microagents/loader.py`) | a directory per version, a `.reload` marker, the worker's cache | install, enable, delete; load | SkillBundles |

`PROJECT.json` lists every component with its status, those that are left out
as well, and the hazards one by one, each at its line, with the properties that
cover it.

### What is hard here

- **Interleaving.** `send` registers a run under a lock and starts its thread
  after it; `kill` reads the registry without it; agents of a wave share
  `stop_reason` and a token counter without a lock; JSON files are read,
  changed and rewritten by handlers in a thread pool.
- **Stopping.** A stop is a field that is polled, or a signal to a child whose
  pipe the killer itself should be reading.
- **Termination.** The model may answer anything for ever, and a plan's
  dependencies may be cyclic; every run must still be closed.
- **Partial failure.** One agent of a wave raises, the synthesis fails, a
  booking stands but its notice fails, one release refuses a configuration.
- **Crashes, retries and late effects.** Registry and threads are in memory,
  status and log on disk; an activity that was given up goes on in its worker;
  SQLite statements commit one by one.
- **Cursors, caches and accounts.** The log is read in pages, streamed "until
  idle", folded by position and charged by threads that wait five minutes;
  skills and bundles are cached on a time or a marker.

### What makes each component correct

- *Executor*: one live turn per session; a kill stops the run it found; every
  accepted message is closed by one `run_finished`; each spawned agent is
  closed exactly once, and its card says how it ended.
- *Agent loop*: it ends; after a stop it begins at most one more call; it
  cannot exceed its budget by more than a call or repeat a call beyond the
  loop detector's threshold.
- *Event log*: every reader that resumes at its cursor sees every event once,
  in order; a stream ends after the run it was opened for.
- *Playground, tenant files*: finished runs are booked; what an answer promised
  is what the files hold, unless other requests interfered.
- *Models*: a refusal is met once; a clean report of the doctor is a promise.
- *Orchestrator*: every intent is answered; an agent runs after what it depends
  on, with its output; a follow-up stays in its folder.
- *Sandbox*: the reported end of a child is what ended it, every line it wrote
  is in the log, and `run` returns.
- *Booking*: what is confirmed was on offer and reached the merchant, who is
  mailed once; no slot is sold twice; an answered order is whole; a link signs
  in once; a replaced key stays dead; the worker serves what is enabled and
  answers from what is uploaded.

## 2. What is modelled

In all modules one action is what one thread does between two points where
another can interfere: a lock's section, a file operation, a database call, a
poll, an await. Texts are abstracted to what the code branches on. History
variables are marked as such in their declarations.

### RunContract (abstract)

What a reader of the log may rely on for each run: it opens with its
`user_message`, may fail, may be answered, and is closed by a `run_finished`
that says `ok` exactly when it was answered. A crash of the server leaves open
runs as they are. One variable, `phase`; SessionRuns and ParentTurn implement
it, with `phase` read off their logs.

### SessionRuns: the turns of one session

| model | code |
|---|---|
| `cur`, `client`, `killer` | `_runs[key]` and what each request has read from it |
| `pc[r]` | where the thread of run `r` is; `registered`/`threaded` before `t.start()` |
| `Register`, `SetThread`, `Start` | `send`: the locked block, `state.thread = t`, `t.start()` |
| `KillCheck`, `KillSet` | `kill`: the check, then the write |
| `ReadHistory` ... `Audit` | `_turn`, one action per database call |
| `BodyAnswers`, `BodyFails`, `BodyStuck` | what `_turn_agent`/`_turn_parent` write into the log |
| `Crash` | the process dies: registry and threads are gone, status and log stay |

Each database call is one step, because `TenantDB` takes its lock around it.
`set_title`, `run_started` and `parent_decision` are left out: no property
depends on them. Database calls succeed.

### MicroAgent: the agents of a run

`run_agent` as `_run_micro` drives it, for any number of agents at once.
`BookTokens` splits `state.tokens += n` into its read and its write. A reply of
the model is any member of `Replies`, a set of sequences of tool calls; a call
carries only what the code distinguishes (the required tool, another, an
unknown one; arguments that parse or do not). The wall-clock budget may expire
at any check of it, a model call may fail, and an exception may leave the loop
wherever the code does something that can raise.

### ParentTurn and Transcript: a whole turn

`_turn` with `_turn_agent` or `_turn_parent` around the agents of MicroAgent,
which it extends: setup, decision, plan, waves over a pool of `MaxParallel`
threads, joining, skipping, merging and synthesis. A plan is any number of
agents with any dependencies between different agents, cyclic ones included.
`Transcript` folds the log of such a turn into the cards of its agents, as the
run views do, one event after the other (`CardsAfter`); `FoldLogged` adds the two
events that ParentTurn leaves out and that a card hangs on.

### EventFeed (abstract) and EventStream

`EventFeed` has the length of the log and what each reader has received.
`EventStream` implements it with the code of `append` and `events_since`, of the
SSE generators and of the page that reads them (the playground's `App.tsx`).

| model | code |
|---|---|
| `lock`, `wpc`, `seq` | `TenantDB._lock` and a thread inside `append` |
| `conn`, `last`, `page` | a generator: where it is, its cursor, what is left of its page |
| `url` | `after` in the URL of the stream, which the browser repeats |
| `wire`, `view` | what was sent and has not arrived, and what the page has |
| `Deadline`, `Break`, `Reopen` | the ten minutes of the playground, a broken connection, a visitor who comes back |

### Swarm: one intent of the single-user server

`submit_intent` and the thread it starts: one action per decision of the
orchestrator, one per agent that the planner's JSON lists, one per layer of the
DAG executor, and the agents in the pool. `specs` holds each spec with the name
the planner gave it, its id and its `depends_on` as written; `Deps` and
`HasCycle` are `_collect_deps` and `_has_cycle`. What a layer's agents returned
is joined in one step: nothing reads it before the next layer. If the
configured rung is installed, at most `MaxCrashes` spawns raise.

### AgentSandbox: one agent under live governance

`start_run` over a process or a container. Three threads of control meet:
`run()` reads the runner's lines and may kill it between two of them
(`Observe`), a watchdog kills it at its deadline, and the runner works, blocks
on a full pipe (`PipeCap`, `ErrCap`), sticks or ends. `kill` is the locked
section of each rung with its steps: poll, mark the reason, terminate, the grace
and SIGKILL for a process; stop and remove for a container. Time is the choice
of when a deadline or a grace is over.

### RunEvents, Dialogue, SkillRegistry, SignIn: around the single-user server

- `RunEvents`: threads of a run append lines to `events.jsonl`, which a browser
  follows by offset. A long line may be seen in part; what it saw of it does
  not parse and is skipped (`missed`).
- `Dialogue`: no session is stored, so whether the user answers a question, and
  which folder is worked in, is read off the texts of earlier answers. Turn by
  turn: triage, clarification, `_resolve_project_dir`, and how the turn ends.
  The words of any answer, small talk and questions included, may name a folder
  as worked in (`Mentioned`); the footer with the true one is left out if a
  swarm's answer says "Working in:" by itself, and the first folder an answer
  names is what the next turn reads (`Footed`, `PriorProject`). `spoke` marks
  such answers. A folder is taken to be a text that `_PROJECT_DIR_RE` matches
  in full; blanks in a path are not modelled.
- `SkillRegistry`: `get` in its steps (stat, cache, parse, store) against edits
  and installations from other processes, file by file.
- `SignIn`: login, sessions, the bootstrap of the first admin and `plnt auth
  set-password`, a process with a lock of its own.

### TenantFiles, Visits, ModelCalls: around the platform

- `TenantFiles`: every handler that changes a tenant's files, as the reads and
  writes it consists of. Whole-file JSON is renamed into place; the record of
  an installation is overwritten and unreadable in between. A configuration is
  validated release by release (`RefuseConfig`). A turn reads the same files
  to build its agents (`Active` ... `Profile`). `promised` is what the answers
  said, `muddled` the files on which requests overlapped or failed half-way.
- `Visits`: opening a session (sweep, copy, `os.utime`, row), messages, and the
  thread that books each run's tokens from a cursor. `Register`, `SetThread` and
  `StartTurn` are the steps of `send`, as in SessionRuns, so a second message
  may replace a run whose thread has not started (`rushed`); `wait` meets such a
  run as well, and `join` raises for it ("failed"). `used += tokens` is a read
  (`ReadUsed`) and a write (`StoreUsed`): the budget holds the bookings that are
  in `used`, and a write over others' loses theirs (`overlapped`). The check and
  reset of the day in `tokens_used_today` are one step.
- `ModelCalls`: the endpoint a call picks, its posts, retries and time, the
  shim for servers without tools, the refused `tool_choice` that the process
  remembers, and the doctor's probes, which are calls as well, unless it runs
  with `--no-probe`. A server takes a named tool or refuses it in one of three
  ways: in the words the client knows, in words it reads as "no tools", or in
  others.

### The booking example

- `BookingActivities`: the activities with their retries. An attempt that times
  out is given up but goes on in its worker, which may still make a call
  (`late`). What a skill calls its tool with is its model's word: `ToolCall`
  runs the tool with any key and any slot, `FinalAnswer` answers with any
  `booking_id`. `slips` counts what differs from the skill's inputs, `strayed`
  holds the keys whose row such a call made. A call of a tool that the skill
  was not offered is left out.
  The merchant's surface, another process, rewrites the feed (`RewriteFeed`).
- `Conversation` extends it with the workflow: it runs without interruption
  between two awaits, while signals append to the inbox; the saga runs inline.
  An activity error nobody catches fails the workflow.
- `WebChannel` adds the browser tab that starts, leaves and resumes it.
- `BookingDesk`: the tools of the bundle; `book_table` reads clock and
  configuration first and takes SQLite's write lock afterwards.
- `Storefront`: the catalogue and its editing, orders with a row and items that
  commit one by one, the cache of stores, customers who list their orders or
  ask for free slots, and pushes.
- `TenantRecords`: the handlers that load `tenant.json`, change it, truncate it
  and write it. `Opens` is `verify_tenant_key` where keys are required: a record
  without a key opens to any (`unsealed` when a handler makes such a record while
  a key has been given out, or is being). `Owners`: a verification in its three
  locked steps.
  `SkillBundles`: the console's changes and the worker's loads as file
  operations; `cut` marks a change that ended without its marker.
- `Documents`: uploads, deletions and enquiries as file operations, `rmtree` and
  `write_text` in their steps. A text is its number of words, all different;
  `Windows` is `chunk_text`, and a question quotes a passage. `Worker` puts the
  two kinds of files that the worker reads side by side.

### Variants

An operator with a comment that starts with "Variant:" is a plausible bug:
the definition after it, with a guard dropped, a bound shifted or a step
forgotten. No specification uses it. Substituted for the definition it varies,
it must make TLC report the property that `PROJECT.json` names under
`mutants`: every property of a passing run is known to fail for some bug.

## 3. Runs

The bounds are the CONSTANTs of the cfg files; nothing else is bounded, except
where a comment says "bound".

| run | instance | question and result |
|---|---|---|
| `sessions` | 2 senders, 1 killer, 2 runs, 1 crash | Does a session keep its promises under concurrent requests and a crash? Holds: one live turn unless two sends raced, kills hit their target, every run finishes, the log implements `RunContract`. |
| `session_race` | the same | Is there one turn at a time, as `multi-tenant.md` says? Violated. |
| `agents` | 2 agents, one with a required tool, 3 steps, budget 1, calls that cost 0 or 2, threshold 3 | Do stop, loop detector and budget bound the agents, and do they end? Holds. |
| `turn` | 3 agents, pool of 2, 1 step | Waves, joins, skips and merges for every plan, and the transcript of each. Holds. |
| `event_stream` | 2 writers, a visitor, a waiter, pages of 2, 3 events, 3 interruptions | Do readers get the log in order, once, whole, whatever breaks? Holds; the waiter gets one run. |
| `swarm` | 3 agents, pool of 2, 2 raising spawns, 3 names of which two make one id | Is every intent answered, with every acyclic plan run in the order of its dependencies? Holds, with one spec to an id for the second part. |
| `planned_order` | 2 agents | Do the dependencies the *planner wrote* hold? Violated. |
| `sandbox` | both rungs, pipes of 1, 4 calls, threshold 2, 1 token | Who ended the agent, is every line logged, how much is overspent, does `run` return? Holds. |
| `booking` | a slot on offer and one made up, 2 texts, 3 messages, 2 workflow runs, 1 thing astray (a late call, or a call or a `booking_id` of the model's own), 1 lost feed entry | Is what is booked what was offered, and was the merchant told once? Holds, but for lost entries and for calls with other arguments than the skill's. |
| `stores` | one part at a time: 3 callers over 2 tables; 2 orders of one key, 1 crash; 2 handlers of a record; 2 of owners; 2 of bundles and 4 changes; 2 documents with chunks of 3 words | Do the example's stores hold under interleavings and crashes? Holds. |
| `platform` | one part at a time, 2 actors or so in each, see the cfg | Files, accounts, model calls, caches, folders, passwords, streams. Holds. |
| `create_anew` | as `platform` | Does a create-verb never write into an existing project, as `orchestrator.py` says? Violated. |

`stores` and `platform` hold parts that share no state. The variable `side`
chooses one part for a whole behaviour while the others rest, so the states are
the sum of the parts' and not their product: nothing is lost, for no action
reads another part's variables.

Why these bounds are enough. Two senders are what it takes to race one
registration against another; a third message would only repeat the second. In
`agents` a reply may hold four identical calls, so that the loop detector's
threshold can be crossed inside one reply, and three steps leave room for a
reminder, a call and an answer; a costly call exceeds the budget at once, so that
a stop can come from the budget, the detector or an operator at any step. In
`turn` three agents are the least for a cycle behind an agent that can run, for
a wave larger than the pool, and for a wave in which one agent raises while
another is queued; plans are enumerated exhaustively. In `event_stream` three
events are one more than a page, and three interruptions let a stream break
while it repeats what an earlier one had sent. In `swarm` the three names are
one whose id gets the prefix, the name that already is that id, and one that is
kept, so names and ids collide in every way the code allows. In `sandbox` a
pipe of one line is full as soon as the reader stops, four calls exceed the
token, repeat a signature and leave one call after each. In `booking` three
messages are an offer, a confirmation and one more of either, which is what a
second saga for the same slot needs; two attempts of a skill stand for three,
which differ in nothing but their number; the second run of the workflow meets
what the first one left; of late calls and slips one is enough to break every
mutant, and the proofs have no such bound. In `stores` three callers are one more than the tables
of a slot, two handlers are a race, and the third key is the one that must
not be the first; four changes of bundles install two versions, which two
uninstalls then meet in; texts of 2 and 5 words make one chunk and two, the best of
which has to hold a quote of two words, and two uploads replace a longer text by
a shorter one. In `platform` five requests are a put, a delete, an
installation, an update and a disabling; four events of the log are one page;
three turns are a project, something in between and a follow-up, and answers may
speak of one folder, which need not exist; two messages are what it takes to
replace a run before it starts and to lose a booking; each caller
makes two calls so that what the process remembers matters to the second. Four
pairs of servers meet seven environments: three of the servers take tools and refuse a named one, each in its own way, of
which two pass the doctor, and one environment has the doctor not probe.

### Fairness

Threads are scheduled fairly: a thread that can take its next step eventually
takes it (`WF` per client, per turn, per agent). The model's `chat` returns or
raises within its timeout and a tool returns; a tool that never returns is
outside the model. Nobody has to send or to kill, and the server need not die.
A browser opens its stream again (`EventSource` does); connections break
finitely often (`MaxBreaks`). In `swarm` a sandbox returns or raises, which
`sandbox` shows of it: there the threads of the orchestrator are fair and
deadlines pass, and nothing is asked of the runner, which may hang or block. In
`booking` Temporal keeps scheduling workflow tasks and activity attempts; the
tab and the merchant owe nothing. `stores` and `platform` check safety only; the
specifications of their parts that state fairness say so for a reader. No
strong fairness is used. `CHECK_DEADLOCK` is off because all systems stop when
their requests or bounds are used up.

### Where the code departs from its documents

1. `multi-tenant.md:61`, one message at a time: a `send` between another's
   registration and its `t.start()` is accepted (`local.py:222`). The session
   has two live turns and `kill` reaches the later one only. (`session_race`)
2. `dag.py:4` and the planner's prompt, an agent's input includes the output of
   what it depends on: ids get a prefix that `depends_on` does not, and entries
   that are no id are dropped (`dag.py:142`). (`planned_order`)
3. `orchestrator.py:557`, a create-verb never writes into an existing project
   root: in a folder of projects it takes the child with the slug's name if
   that is a project (`orchestrator.py:603`), as a comment there intends.
   (`create_anew`)

Seen while modelling; the models have these behaviours, but no run asks:

- `README.md:75`, an answer before the required tool ran is withheld: a call of
  it whose arguments do not parse counts as having run it (`loop.py:199`).
- `guardrails.md:40`, a run past its token budget is stopped: not if the call
  that exceeds it is the last one (`loop.py:186`).
- `events.md:29`, `run_error` means no answer: a plan that becomes unresolvable
  after some agents ran logs `run_error` and then an `assistant_message`
  (`local.py:471`).
- `dag.py:11`, layers repeat until everything has run or the budget is gone: a
  spawn that raises is submitted again, for ever if its rung is not installed
  (`dag.py:110`; `RungInstalled` is TRUE in the passing run).
- `orchestrator.py:222`, the answer to a question does not "flip to chat":
  small talk has been answered before that line (`orchestrator.py:213`).
- `saga_booking.py:150`, a cancellation that failed is surfaced for manual
  review: the handler catches `ApplicationError`, but a failed activity raises
  `ActivityError`, and the workflow fails with the booking confirmed.
- `notify.py:125`, the dedup gate keeps retries from sending twice: not when
  `mark_read`, in another process, has rewritten the feed in between.
- `docs_upload.py:5`, deleting removes a document and its chunks: an upload of
  it under way writes chunks after that, which no listing shows, no deletion
  finds and the enquiry agent goes on answering from (`torn` in `Documents`).
- `bookings_store.py:91`: a slot booked again after a compensation returns the
  cancelled row, which the saga reports as confirmed.
- `saga_booking.py:14`, a session that retries the same slot makes no duplicate:
  the key and the slot reach the store as the model's arguments, which
  `agent_loop.py:331` passes on unchecked. A slip of the model books a slot
  nobody offered, or a second row.
- `admin.py:261`, the old key stops working immediately: it works again after
  link-tenant (or, in an open deployment, a first contact) took a torn record
  for a missing one and wrote one without a key, which opens to any
  (`admin.py:308`).
- `doctor.py`, a clean report: it never names a tool, so it says nothing of a
  server that refuses one in words that `openai_compat.py:167` does not look
  for; with `--no-probe` it has asked for nothing (`doctor.py:155`).
- `playground.py:203`, `used += tokens` of two threads without a lock may lose
  one; and `wait` (`local.py:245`) looks up the session's run of the moment,
  which is not the message's own if two were sent at once.
- `orchestrator.py:702` leaves the footer out if the answer says "Working in:"
  by itself, and `orchestrator.py:641` believes any answer's words: a follow-up
  can move to a folder that a model has only spoken of.

The properties of the passing runs state what holds *despite* these: the
hypothesis `~raced` of the session is the first of them, `lost` that of the
feed, `strayed` that of bookings, `unsealed` that of keys, `muddled` that of a
tenant's files, `rushed` and `overlapped` that of accounts, `Unforeseen` that
of the doctor, `spoke` that of folders, `torn` that of documents, `cut` that of
bundles.

## 4. Proofs

All proofs hold for every value of the constants that satisfies the named
assumptions of the modules, which TLC evaluates in every run. The assumptions
are the code's own: budgets are naturals, `max_steps` and the threshold are at
least 1, the "no run" value is not a run, no text is "no file", an enquiry
takes at least one chunk along, the versions of a bundle are finitely many. `PROJECT.json` lists the theorems one by one.

| module | about | main results |
|---|---|---|
| `SessionRunsProofs` | SessionRuns | one turn, kills, statuses, histories; `Spec` implements `RunContract` |
| `ParentTurnProofs` | MicroAgent, ParentTurn, Transcript | bounds of an agent; dependencies, closed spawns; true cards; a turn implements `RunContract` |
| `EventStreamProofs` | EventStream | `Spec` implements `EventFeed`; a waiter gets one run |
| `SwarmProofs` | Swarm | inputs are ready; a plan is run or refused; every end follows an answer |
| `AgentSandboxProofs` | AgentSandbox | no kill unreported; every line logged; overspending bounded |
| `PlatformProofs` | TenantFiles, Visits, ModelCalls, SkillRegistry, SignIn, Dialogue, RunEvents | what the `platform` run checks of them, and the sweep |
| `WebChannelProofs` | BookingActivities, Conversation, WebChannel | mailed once; confirmed means told; booked means offered |
| `StoresProofs` | BookingDesk, Storefront, TenantRecords, Owners, SkillBundles, Documents, Worker | what the `stores` run checks of them |

**SessionRunsProofs.** The inductive invariant is

    IInv == TypeOK /\ SoloInv /\ AimInv /\ LogInv
            /\ FinishedIsLast /\ StatusTruthful /\ HistoryInv

None of the properties is inductive alone. `SoloInv` extends
`OneTurnUnlessRaced` to runs that are registered but not started: without a
race those are the registered run too, which is why starting a thread cannot
add a second turn. `LogInv` ties the log to the point of each run, from which
`FinishedIsLast`, the settled histories and the refinement follow. `AimInv`
says that what a `kill` holds is a run it found alive. Each conjunct has one
lemma for its step, with one step per action. `SessionImplementsContract`
proves `Spec => Contract!Spec`: `PhaseAtPoint` computes the phase of a run from
its point, so every action is one step of the contract or a stutter.

**ParentTurnProofs, the agents.** `IInv` is `TypeOK` with one conjunct per
property, each of which adds to a bound the points of the loop that an agent at
its bound cannot be at: `LateInv` (an agent that began a call after the stop is
past its last poll), `LoopInv`, `BudgetInv`, `CalledInv`, `CountInv` (what a
thread is about to write into the token counter is covered by the usage table),
and `PendingInv`, which type correctness of the tool calls needs.

**ParentTurnProofs, the turn.** `TurnInv` puts three things on top of `IInv`.
`WhereInv` says which agents can have left "idle" at each point of the turn:
those under way are of the current wave, what they depend on has been joined.
`ClosingInv` says which events the log holds of an agent at such a place, and
each once. `ContractInv` says the same of the run's own events. From the first
follows `DependenciesFirst`, from the first two `EverySpawnIsClosed`, from the
last the refinement: `PhaseIs` computes the contract's phase from the point of
the turn. The delicate step is `Join`, where one agent's exception ends the
turn while others of its wave are still under way: `WhereInv` allows them after
"join" only if some agent raised, and `ClosingInv` has them closed by their own
threads.

**ParentTurnProofs, the transcript.** A card is what the whole log makes of it,
so the proof of `TranscriptsAreTrue` is an induction over the events folded so
far (`CardsOf`), with the card of every agent after n events as what is carried
(`ParentCard`, `AgentCard`). It needs the order of the log (`OrderInv`: one
user_message, first; no agent ends, nor the turn, before the last is spawned),
that whoever ends was spawned (`SpawnInv`), and that a turn with an agent that
raised does not end "ok" (`ErrorInv`): the card of that agent is closed by the
run_error and not, as "done", by an answer.

**EventStreamProofs.** `IInv == StreamTypeOK /\ LockInv /\ StreamInv`. `LockInv`
says that the writer under way holds the lock. `StreamInv` has three parts for
each reader: the page holds the seqs right behind the cursor; the wire holds
the seqs up to the cursor without a gap, starting no later than right behind
what the reader has; the reader has 1, 2, ... . Together they say that the
event that arrives is either known or the next one, which is what
`StreamsImplementFeed` (`Spec => Feed!Spec`) needs in `Deliver`. For
`WaiterGetsOneRun` `WaiterInv` adds that a waiter never resumes, so that its
cursor is as far as what it was sent, and that no run is finished up to there
unless that ended its stream.

**SwarmProofs.** `DagInv` adds three things to the types: where an agent may be
while the thread is at a point (`Phases`); that an in-degree is the number of
inputs that are missing (`Counts`); and that the loop runs an acyclic plan
(`Ends`). `LayersEndStep` is where the last two meet: if nothing is ready,
every remaining agent has a remaining input, and a set of agents with that
property is a cycle. `HasCycle` is stated by such a set, not by the search of
`_has_cycle`, which is why no induction is needed.

**AgentSandboxProofs.** `KillsByReason` and `GoneAtTheEnd` carry
`UnkilledWasLeftAlone`: a signal needs a noted reason, is never sent to a
runner that has gone, and by the time `run()` reports the runner has gone, so a
reason noted later cannot be followed by a signal. `LogIsPrefix` is
`EveryLineIsLogged` at all times. `OverspendIsBounded` needs to know that the
budget is exceeded once: `Booked` equates the model calls in the log with the
spend, `RunsOutOnce` says that who exceeds it is in `kill()`, reading nothing,
until the runner has gone, and `PipeHolds` bounds what was written meanwhile.

**PlatformProofs.** Seven components, one section each.
- `AnswersHold`: a file that no two requests have overlapped on has one request
  at work at most (`OneWriterEach`), and the file is what the answers promised
  with the part of that request that is done (`WritersProgress`), release by
  release for an update.
- `FinishedRunsGetCounted`: but for rushed sessions, a session's unfinished run
  is the one registered last (`RegisteredLast`). Hence an account whose `wait`
  looks up the run of the moment, perhaps another message's, has waited for its
  own (`WaitsWell`, `WaitedOut`), whose end lies behind its cursor
  (`EndBehindCursor`) and so in its page. Between the read and the write of
  `used` an account has read every booking there is of runs that are not
  `overlapped` (`ReadsAgree`), so its write keeps those.
- `LostFoldersWereCaught` is a result without a run: the folder of a session
  less than a day old is removed only if another session's sweep looked at it
  between its copying and its `os.utime`.
- `RefusedOnceEach`, `CleanBillsHold`: a refusal is remembered before the next
  call is entered (`Remembered`); what a call comes back with, and what the
  doctor's checks have shown so far, tell what its server can do (`CallsSay`,
  `DoctorSays`). A server that takes tools and whose probe of them came back
  `Speaks`; a call fails there only in trouble or by an unforeseen refusal.
- `SkillsAreCurrent`: no two writes have one time (`TimesDiffer`), so an mtime
  tells which file it was read off, and a cached skill with `skill.toml`'s time
  was made of it (`CachedIsMade`).
- `FollowUpsStay`: an answer without words of its own about a folder names the
  one it worked in, which stays on the disk, or none if it did not work
  (`SaysWhere`); hence while a turn works, it does so in the prior project, if
  that is there (`TalkPlaced`).
- `AnnouncedPasswordsOpen`: while nobody raced there is one writer, and what it
  will put in place is what it read with one password changed.
- `EndedStreamsAreComplete`: the pieces of the file are in the order of the
  lines, a head directly before its rest (`PiecesFollowLines`, which is what
  `Blackboard._lock` is for). Hence what a poll parses is the lines that end
  behind its offset (`ParsedIs`), each of them later than all it had, and what
  it has only a part of it has missed (`PollFinds`); what an open stream has
  sent is then always a prefix of the log (`Follows`).

**WebChannelProofs.** The theorems are of `WebChannel`'s specification, the
activities, the workflow and the tab together. `NoticeSays` is why the dedup
gate works: an attempt mails only what it has just entered into the feed, and
between the two nobody else mails that. It also carries
`ConfirmedReachesMerchant`, with `Awaited` (the workflow resumes on the
activity it started). For `BookedAreOffered`, `CreatesWereOffered` follows an
offer through `pending` and, for an attempt that was given up, through `late`,
and `CallWrites` says what a call of a tool may do: make the row of its skill's
own key and slot, or make another and leave its key in `strayed`, or touch no
slot at all.

**StoresProofs.** Six stores, one section each.
- `DeskNeverOverbooks`: the write lock has one holder (`DeskLocking`), the
  table counts that calls have read are ones the tenant had (`TablesCapped`),
  and a slot a call has found free still is when it inserts (`FoundFree`). The
  counting is in `TakenIsCounted`, `TakenShrinks` and `TakenGrowsByOne`.
- `AnswersAreWhole`: an order lacks items while one request fills it, which is
  inside its store's lock, or since a crash (`OrdersFilled`, `OneInside`).
- `ReplacedKeysStayDead`, an action property, follows from `KeysAreNew`: a key
  on its way to the file has never been in it. No handler writes back a key it
  has read, so a lost update loses an owner or a newer key, never revives an
  older one. What can is a record without a key, which opens to any; the theorem
  says that this takes a handler that took the record for missing while it had
  a key or was being given one (`unsealed`): until then a handler that saves a
  record without a key is alone with a tenant that never had one (`Sealed`).
- `LinksOpenOneSession`: a link that a verification has taken, or that a
  session came from, is gone (`LinksSpent`).
- `ServedBundleIsCurrent`: with no marker set and none due (`Announced`), the
  cache is empty or holds the best version, and so does what the worker is
  about to read (`WorkerIsCurrent`). It proves `CacheIsCurrent`, the first half
  of `WorkerServesWhatIsStored`. The attempt to prove it found that the property
  was false beyond the three changes the run used to allow: two uninstalls at
  once can each fail on a version the other has moved, and then nobody sets the
  marker (`admin_v2.py:479`) and the worker serves an uninstalled bundle until
  it restarts. The property now names that exception (`cut`), and the run
  allows four changes, which reach it.
- `QuotesFound`, the second half, has three parts. The arithmetic:
  `WindowCovers` finds, by an induction over the windows (`StoreInduction`), one
  window around any passage of the overlap and a word. The files: `StoredInv`
  says of each document whose changes did not overlap what is on the disk at
  every point of an upload (`Uploading`), of a deletion (`Deleting`) and outside
  them (`Whole`), one lemma for each file operation. The enquiry: `Reading`
  says that every chunk of every document has been scored or is still to be
  read, `BestIsTaken` that a chunk with the highest score is among the `TopK`
  taken along. `TopK` is at least 1; chunks and overlap are any sizes with the
  overlap the smaller. `WorkerServes` joins the two halves.

What the proofs keep needing is stated once as lemmas: a set of naturals has a
smallest member (`LeastMember`, `LowestMember`), an induction over the naturals
(`SetInduction`, `StoreInduction`), and what a record update or a step of one process leaves
alone.

**Model-checked only.**
- Liveness (`EveryRunFinishes`, `EveryAgentEnds`, `EveryTurnEnds`,
  `EveryEventArrives`, `EveryIntentEnds`, `EveryRunReturns`,
  `EveryMessageTaken`) is out of the prover's reach.
- Induction over data with the library's theorems, which take an operator and
  which no backend instantiates. An induction over a *set* of naturals works
  (`SetInduction`): that a finite set of numbers has an increasing list
  (`ListExists`), and what folding the log makes of the cards (`CardsOf`).

## 5. Not modelled

- Texts: prompts, answers, reasons, titles and hints. Where the code branches
  on them the model branches on the outcome.
- Failing database calls, and two server processes on one data directory,
  which `guides/deploy.md:46` rules out ("Keep one instance").
- `parse_decision` and the other readers of a model's JSON, manifest and
  schema validation, keyword routing, rendering, listings and statistics:
  sequential functions of their input.
- Children of a sandboxed agent's own that outlive it and hold its pipe open;
  the deletion of a skill's side files; two writers of one `.tmp` file
  (`tenants.py:51`), which concerns files that are `muddled` already.
- The built-in file tools, the integrations file, the monitor, compute routing
  and most of the command line: one actor, no state shared with another.
- Of the booking example `run_multi_service_saga` and the two activities that
  only it uses, which nothing calls; providers, places, memory and outbound
  channels, which are clients of external services; the OAuth redirect.
- The consoles, except how the playground's page follows a stream.

`PROJECT.json` gives the reason for each component. What remains of the code is
for the most part of these kinds.

## 6. What could follow

Every invariant and every action property of a passing run is a theorem; only
the liveness properties rest on the runs alone. What is left is to model more: the numbering of duplicate agent
ids (`parent.py:219`), whose hazard no property covers, and the components that
are modelled in part. The other hazards without a property of their own are in
the model as exceptions of one, and `PROJECT.json` notes where.
