# A TLA+ model of the Grok Build session

`grok` (this repository) is a terminal AI coding agent: a Rust workspace of some
2.2 million lines. A terminal UI, editors and other clients attach to an agent
process; the agent keeps *sessions*, and each session is an actor that queues
prompts, runs one turn at a time against a model, executes tools, and deals with
everything that happens meanwhile: more prompts, interjections, cancels, background
tasks that finish, timers, autonomous goals.

This directory models that actor, the part of the program in which ordering,
suspension points and cancellation decide whether a user's message is answered, and
two parts below it whose concurrency is of another kind: the refresh of the OAuth credential that
all grok processes of a user share (processes, a lock file, crashes, sleep), and the lock-free
circuit breaker (threads and atomics).

Paths below are relative to `src/crates/codegen/xai-grok-shell/src/session/`, and
file names without a directory are in its `acp_session_impl/`.

## 1. Inventory

| Component | State it keeps | Operations | Interacts with | What makes it correct |
|---|---|---|---|---|
| Prompt queue (`prompt_queue.rs`, `../acp_session.rs` `State`) | `pending_inputs`, `combine_edit_holds`, `send_now` flags | queue, send-now, remove, reorder, clear, interject, edit | run loop, clients | nothing lost, doubled or displaced; the running turn keeps the front |
| Promotion (`notification_drain.rs` `maybe_start_running_task`) | `running_task`, `current_prompt_id` (the pin), `rewindable` | check, merge, pin, spawn | loop, MCP initialisation, resumed plan | one turn at a time |
| Cancel (`tasks_cancel.rs`) | the same, and the Ctrl+C barrier `notifications_suppressed` | Esc, Ctrl+C, rewind, teardown, send-now | turn task, goal | one terminal per turn; only the running turn is cancelled; the queue is kicked |
| Completion (`turn_end.rs`, `run_loop.rs`) | completion channel | pop the front, turn-end work, flush, restart, drain | turn task, goal | a stale completion changes nothing |
| Interjections (`interjection.rs`, `xai-interjection-core`) | `pending_interjections` | buffer, merge, flush, fall back to a prompt | turn task, run loop | each is merged once, or runs once, or is cleared by a cancel |
| Notifications (`notification_drain.rs`, `../../tools/notification_bridge.rs`) | `pending_notifications`, `monitor_event_buffer`, `is_turn_active` | inject, sweep, drain, consume, drop | background tasks, turns | within their caps; none stranded; barrier respected |
| Goal loop (`goal.rs`, `../goal_tracker.rs`) | goal status, `goal_loop_active_gate` | start, pause, resume, complete, continue | completion, drain, queue | at most one continuation queued |
| Turn task (`turn.rs`, `tool_calls.rs`) | `TurnActiveGuard`, `TurnSubagentScopeGuard`, `blocking_wait_depth` | open, rounds, tools, leave, report | all of the above | always reports its completion |
| Circuit breaker (`crates/common/xai-circuit-breaker`) | `state`, `opened_at_millis`, `half_open_probes`, `probe_claimed_at_millis`, `is_open_fast`, an error window under a mutex | check, record, trip, probe, close | storage and model clients | the window counts what it holds; traffic is not shed for good; it closes when nothing fails |
| Sampler actor (`xai-grok-sampler`) | active requests, retries | submit, cancel, retry | turn | one terminal event per request |
| Chat state actor (`xai-chat-state`) | conversation, usage | push, rewind, compact, build request | turn, persistence | tool calls and results stay paired |
| Workflow engine (`xai-workflow`, `../workflow/`) | runs, journal, reported revisions | start, step, replay, report | session wakes | replay equals the first run; reported once |
| Leader (`../../leader/`) | lock file, socket, clients | elect, attach, hand over | processes | one leader |
| Credentials (`../../auth/`) | `auth.json`, `auth.json.lock`, the cached credential, the verdict on a rejected one, the sleep gate | acquire, break, heartbeat, revalidate, exchange, persist, discard, adopt | sibling processes, IdP, OS power events, the privacy handler | a refresh token is spent once unless the lock of its exchange was broken; a successor is never thrown away; refreshing never gets stuck |
| Hub SDK (`crates/common/xai-computer-hub-sdk`) | connections, reference counts, pending calls | connect, borrow, call, reconnect | remote tools | every call ends, counts are exact |
| Hunk tracker, file watcher, compaction, SQLite journal | see `PROJECT.json` | | | |
| Terminal UI, tools, hooks, configuration, memory, worktrees, `dx-tui` | | | | not modelled: rendering, I/O, third-party |

What is hard, at the lines listed under `hazards` in `PROJECT.json`:

* The actor runs on one thread, but a handler is suspended at every `await`, and
  the spawned turn, the MCP initialisation and a resumed plan run in the gaps.
* `running_task`, `pending_inputs[0]`, the pin, `is_turn_active` and the life of the
  turn's task describe the same thing and are written at different moments.
* The running turn's slot is told by its *place* (the front is not popped when it
  is promoted), while a dozen operations insert, remove and reorder.
* Cancels abort tasks that then send no completion; completions may be in the
  channel already when their turn is cancelled.
* Ctrl+C has to hold back wakes that are queued, in flight, or still to be created.
* The credential's lock is a file that may be unlinked while somebody holds it, names its holder only some time
  after it is held, and is broken on a guess about its holder; the thing it guards, an exchange at the IdP,
  cannot be undone.
* A machine may sleep, a process may stop, a thread may be left behind in `flock()`, an answer or a write may
  be lost, each at any point of the exchange.
* The breaker's fields are published one by one; `trip`, `close`, the end of the cool-down and probes overlap.

## 2. Modules

| Module | What it is |
|---|---|
| `QueueOps` | the list surgery on `VecDeque`, without recursion |
| `SessionQueue` | the session: state, one action per handler section between two awaits that matter, properties, refinement mapping |
| `PromptLifecycle` | abstract specification: what a session promises about each message |
| `MCSession` | small sessions for TLC; each `.cfg` chooses who takes part |
| `CredentialRefresh` | processes that refresh one credential: lock file, exchange, sleep gate, faults |
| `CredentialWriters` | composes it with the privacy handler, which writes `auth.json` as well |
| `MCRefresh`, `MCWriters` | two processes for TLC |
| `CircuitBreaker` | threads in `check` and `record`, one action per atomic operation |
| `MCBreaker` | two threads for TLC |
| `QueueOpsProofs` | what the list operators return and preserve |
| `SessionQueueProofs` | the session: types, the running turn's place, the mutex |
| `ConservationProofs` | the session: every message is in one place |
| `TurnProofs` | the session: slot, turn, pin, completion and cancel |
| `HandoverProofs` | the session: what the loop leaves to whom when a handler ends, and who tells of notifications |
| `LifecycleProofs` | the session implements `PromptLifecycle` |
| `CredentialRefreshProofs` | types, the sleep gate, the lock and the exchange |
| `CircuitBreakerProofs` | types and the window's count |

### SessionQueue and the code

*State.* `q`, `running`, `urgent`, `holds`, `notes`, `suppressed`, `rewindable` are the
fields of `State` (`../acp_session.rs:286-306`); `running` is the prompt id of the
`AgentTask`, `urgent` the prompts with `send_now`. `pin` is `current_prompt_id`. `lock` is
the task that keeps the state mutex across an await. `turn[i]` is the life of
prompt i's task: spawned, started (after `TurnActiveGuard`), open (its scope
guard lives), left (scope guard dropped), over. `chan` is the completion channel.
`pc` says where the loop and each starter are, `cx` holds the locals of the loop's
handler. `fate` is the answer a message's sender has got. `aim`, `spawned` and
`terminals` are history.

*Steps.* Most handlers take the mutex, change the state and release it without
awaiting: one action. The exceptions are split where the code awaits:

* promotion: `Start` (fast path, then the config read unlocked), `Promote` (re-check, drop
  stale workflow wakes, merge, pin), `Spawn`; the mutex is kept from `Promote` to
  `Spawn`, and all actions that take it require `LockFree`;
* cancel: `CancelBegin` or `CancelForSendNow` (up to the pin snapshot), `CancelAbortEarly`,
  `CancelLocked`, `CancelEnd`, `Reengage`, then a promotion and perhaps a drain;
* completion: `Completion`, `PopFront`, `TurnEnd`, `Flush`, `Requeue` for each flushed
  interjection, then a promotion and a drain.

The `select!` of the run loop is biased: `Accept` takes a command only when no
completion waits. Handlers of the loop never interleave with each other; starters
(`mcp`, `resume`) and turns interleave with everything.

*Abstractions.* Prompts are model values; their texts, images, traces and acks are
left out, and with them edits of a row's text (only the end of the edit hold is
kept). `PromptUser` joins the clearing of the barrier and `queue_input`, two
consecutive holds of the mutex. `CancelEnd` joins the abort, the clearing of the pin,
the terminal and the answers: what a starter does between them has the same effect as
if it did so before the abort. `TurnOpen` joins the consumption of deferred completions and the start of
the first round. `TurnEnd` joins the sweep of the monitor buffer and the decision of
the goal loop, which is nondeterministic (continue, pause, nothing). The tasks a goal
has started (`goal_turn_task_ids`) are not tracked: `GoalMutes` allows any of them.
`GoalClassifierNudge` prompts behave like goal continuations. A monitor buffer shared by
several sessions is the part of it that belongs to one. Every message is sent at
most once, so the sets of constants bound a run. When all of `DrainTurns` are used a
drain waits for ever; the runs have enough of them for their notifications, or end
there.

### PromptLifecycle

Each message is new, held (an interjection), queued, running, ending, and at last
answered, cancelled, rewound or withdrawn. It runs at most once, two messages never run at the same
time, and after a shutdown nothing but withdrawal is new. `SessionQueue!PhaseOf` is the
refinement mapping: running means spawned and not yet answered or taken by a cancel.

### CredentialRefresh and the code

Paths in `../../auth/`: `manager.rs`, `manager/lock.rs`, `manager/sleep_gate.rs`, `refresh/oidc_refresher.rs`,
`oidc/refresh.rs`, `oidc/protocol.rs`, `storage.rs`.

*State.* A credential is the number of its rotation: `disk` is the one in `auth.json`, `mem[p]` the one in
`AuthManager::inner`, `latest` the one the IdP accepts; `expired` says up to which one they have expired.
`verdict[p]` is `permanent_failure`. The lock file is what the file system has: `path` is the inode the name
refers to, `fd[p]` the inode a process has open, `flock` who has each inode locked, `info` and `stale` the holder
info in it. `pc[p]` and `try[p]` are the place in `refresh_chain`, the phase and round of `try_lock_auth_file_async_with`, and
whether it is the re-acquisition of `revalidate_lock_or_reacquire`. `wire[p]` is the exchange. `gated` and `acked` are the sleep
gate and the held acknowledgment; only the processes in `Listeners` have a power listener (`sleep_gate.rs:396-399`: interactive
ones do, headless ones and servers do not). `orphans` are the threads a timed-out blocking wait leaves in `flock()`.

*Steps.* The file system decides the grain: open, `flock`, write the holder info, compare inodes, read the holder info and
unlink are separate actions, since other processes act in between. `Open` to `Unlink` are `try_acquire_once` and
`blocking_acquire`; `Busy` and `StaleUnlinked` are the way from one of the three phases to the next; `Confirmed` ends the
12 s of confirmation, which last at least until every holder alive at their start has beaten once (the
assertion at `lock.rs:40-43`). `Adopt`, `Revalidate`, `Claim`, `Gate`, `Resolve`, `Receive`, `RetryWithDisk`, `Persist`, `Settle`, `Discard` are
`refresh_chain` from the lock to its return. `LateLook` is what happens without the lock. `Resend` is the retry inside one
exchange (`refresh_tokens`, `protocol.rs:467-511`): the same token, up to three times, after a request that failed.
`Reload` has the three outcomes of `force_reload_from_disk`: an entry replaces memory; a readable file without one drops memory
(`manager.rs:574-580`), which is what `write_scope_removal` leaves when the file has other scopes (`OtherScopes`); a missing file
keeps a credential that was not rejected.

*History.* Bounds aside, no guard excludes a schedule that the code allows. What the code leaves open happens, and two variables that no guard reads remember it:

* `harm` says what went wrong with a successor or with the lock. "lost": the process that was to get an answer crashed, or the answer did not
  arrive after the IdP had rotated. "unsaved": the write of `auth.json` failed. "broken": the lock file was unlinked while
  a process that was past its last look at it (`Committed`) had the file that the path named.
* `cut` are the waiters whose confirmation delay a sleep, or the resumption of a stopped process, has cut into.

A lock is broken under a committed holder in four ways, all of them in the behaviours that the runs and proofs cover:

| How | In the code |
|---|---|
| the holder has not written its name yet | `flock` is taken, `PID:TS` not yet written (`lock.rs:338-342`): a waiter reads the previous holder's, who may be dead, judges the lock stale, and unlinks it after the holder has gone on (finding 5) |
| the unlink meets another file | `remove_file` goes by path (`lock.rs:402`): a waiter has judged the holder of one file and unlinks another that was created and locked meanwhile |
| the holder does not run | it is stopped between `still_live` and the end of the exchange (`manager.rs:1828-1855`, `1724`) for longer than it takes to break its lock; when it goes on, nothing looks at the lock again |
| the confirmation is cut | the machine sleeps, or the holder resumes, within the 12 s of a waiter (`lock.rs:686-687`): the holder gets less than its heartbeat interval before its lock is broken. The comment at `lock.rs:655-660` argues that the timer measures awake time, but not that a sleep *within* it leaves only the rest |

The properties say what remains true in spite of them. `SpendsAlone`: two exchanges overlap only after "broken"; whoever loses its lock earlier finds out
by `inodes_match` or `still_live` and sends nothing. `HeartbeatIsSeen`: the judgement itself is right about every running holder whose name is in the
file, unless the confirmation was cut. `ReuseOnlyAfterHarm`: a spent token comes back only after one of the three harms. `AcceptedKept`: without "broken" what the IdP
accepts stays in `auth.json`, and goes from memory only when its write had failed, to what the file says instead. The
unconditional promise of the code, `OneSpender`, is what `lock_break` refutes.

*The IdP* (external) does what the comments of the code assume of it: it rotates at every exchange, and a token
presented again is rejected and may revoke the session.

*Abstractions.* The tasks of a process take turns on `refresh_lock`, so a process is one refresh at a time; tasks that
re-read `auth.json` meanwhile are `Reload`. Soft and hard expiry are one, and tokens expire in the order of their issue.
The short-circuit on a verdict may adopt what the next request adopts as well, so a barred process just does not begin.
Discovery and exchange are one request, and a request that reaches the IdP after the client has given it up is not modelled.
`Resend` may also come after a sleep, where `SuspendProbe` forbids it. `Discard` compares memory with the token that was sent when it clears; the code compares
a snapshot taken a little earlier (`manager.rs:1929`, `1971`). A rejection of the client itself (`invalid_client`), which says nothing of the
token, is left out.

### CredentialWriters

`HandleSet` and `SaveWithoutEnrichment` are the two halves of `extensions/privacy.rs` around its HTTP request; see finding 4.

### CircuitBreaker and the code

*State.* The atomics of `CircuitBreakerInner` and the window. A time is kept as its age, up to a bound after which
all comparisons come out the same. `now` and `seen` are the local readings of a thread that `Tick` ages too.

*Steps.* One action per load, store, read-modify-write or clock reading; the section under the window's mutex is one
action. Which samples are outdated is left open: any number of the oldest may be dropped, so every duration of
the window is covered. The rate threshold is one half. A disabled breaker, the observer and the registry are left out. The count is a word
of `WordMax + 1` values, so that it wraps as the code's does. The operations are sequentially consistent in
the model; the code uses acquire and release on every field it decides on.

## 3. Runs

The runs of the session use `MCSession`. A `.cfg` sets sets of participants (empty means absent),
`Commands` (what clients send and turns do) and the kinds of cancel.
`CHECK_DEADLOCK FALSE`: a session that has answered everything
rests, and a shut-down one stops. So do processes that have crashed or used up the credentials of a run. The
breaker never stops, and its run checks for deadlock.

| Run | Participants | Checks |
|---|---|---|
| `queue_core` | 3 prompts of 2 clients, merging on, one with images; Esc and rewind | `RunningIsFront`, `Conserved`, `TerminalOnce`, `QueuedSurviveCancel`, `Implements` |
| `wakes` | a prompt, a task, a workflow, 2 monitor events, 2 drains, caps 2 and 1; Esc and Ctrl+C; late admissions; results read by the turn | `TypeOK`, `RunningIsFront`, `NoStrandedNotes`, `BarrierHolds` |
| `starters` | a prompt, an interjection, a resumed plan, MCP; Esc and rewind | `Conserved`, `TerminalOnce`, `OverlapOnlyInCancel`, `PinAgrees`, `FlushOwnTurn`, `NoWedge`, `NoStall` |
| `goals` | a prompt, a goal turn, a timer, a task completion that may not wake; teardown, Esc, shutdown | `TerminalOnce`, `Implements` |
| `answered` | a prompt, an interjection, a resumed plan; blocking waits, Esc; fair | `UserIsAnswered` |
| `refresh` | 2 processes, one with a power listener, 2 credentials, other scopes in `auth.json`, one fault of any kind (crash, stop, lost request or answer, failed write, sleep, orphaned thread); fair | `TypeOK`, `SpendsAlone`, `HeartbeatIsSeen`, `ReuseOnlyAfterHarm`, `AcceptedKept`, `NoStraddle`, `Recovers` |
| `breaker` | 2 threads, one probe slot, a window of 2, one dropped request; fair | `TypeOK`, `WindowCount`, `AdmitsAgain`, `ClosesWhenHealthy` |
| `ctrlc_lock`, `interject_row`, `ctrlc_rewind` | the smallest sessions that show a finding | violated, see section 6 |
| `lock_break` | 2 processes, a lock file that a process which has ended left behind, no faults | `OneSpender` violated, see section 6 |
| `privacy_rollback` | a process with the privacy handler, a sibling, no faults | violated, see section 6 |

*Bounds.* Three prompts are what reordering, merging behind a front and a send-now stack
need; every property speaks about at most two turns, and a third party that comes
between. One of each wake suffices for the barrier, since every wake is tested
against it alone; the two drains allow a second round. With the caps of 2 and 1 three
notifications overflow the pending ones, and two events the buffer. The races of `starters` need two starters besides the loop.

In `refresh` two processes and one fault give a holder and a contender that breaks its lock, with a fault or without; the second credential is the
successor that may be lost, and what is presented again is the first. An orphaned thread counts as the fault. The bound on credentials stops
only refreshes that would rotate the last one, so the first may always be replaced, and `Recovers` is about the first: `disk > 1`, not the rotation at the IdP, is what it
asks for. With three credentials all the properties hold when processes may crash (584 thousand
states), and the invariants when they may lose an answer (2.1 million states; there `Recovers` takes longer than a run may). They also hold with a file that has no other
scopes (`OtherScopes = FALSE`). What needs a third process, the unlink of a path that somebody else has created anew
in between, is in the model and in the proofs, not in the run.
In `breaker` a cool-down of one tick, a pause
of one tick after a clock reading and one slot are enough for every order of the stores of a trip, a close and
a probe; two samples fill the window and trip it.

*Exceptions in the properties.* `NoStrandedNotes` is checked, and proved, without the rewinding Ctrl+C, which
violates it (finding 3), and leaves out completions whose admission came too late:
the actor keeps them as notifications without a drain (`run_loop.rs:70-73`) and they wait
for the next one. `OverlapOnlyInCancel` states the window in which two turns
really are alive. The exceptions of the credential's properties are the members of `harm` and `cut`, see section 2. `Recovers` lets a credential be
discarded only after a harm: when the answer that had the successor is lost, the code has nothing left to present, and
the user logs in again.

*Fairness* (`answered`). Weak fairness of the loop's handlers and of each promotion: an
executor polls what is ready. Strong fairness of a turn's own steps: they need the state mutex now and
then, which others may take in between, and tokio's mutex is fair (FIFO). Weak fairness of the end
of a blocking wait: background work ends, or the interjection that interrupts the wait comes. No fairness of commands: nobody has
to send anything.

*Fairness* (`refresh`). Weak fairness of what a process does next, whatever it is: it starts, makes requests while its credential is expired, tokio keeps polling
its refresh, and the IdP answers what it has sent (the HTTP client has a timeout, whose effect `Lose` has). No fairness of getting the
flock: a waiter that never gets it runs into its budget (`WaitTimeout`). Weak fairness of the orphaned threads and of the handlers of
power events. Nothing has to expire, to fail, to beat, to reload or to resume, and a process whose credential has not expired need not ask, so
`Recovers` excuses behaviours that end with nobody who asks (`Asks`): crashed, stopped, or content with what it has in memory.

*Fairness* (`breaker`). Weak fairness of each thread and of time; no fairness of outdating or of dropped requests.
`ClosesWhenHealthy` holds for behaviours in which failures stop, and the fairness does not make them.

Each property has a mutant, an altered definition beside the original one (comment
`Mutant:`), that TLC finds to violate it under the same configuration.

## 4. Proofs

All theorems hold for every value of the constants that the assumptions of the modules allow. `SessionAssumption`: the kinds of
messages are pairwise disjoint, prompts are finitely many, caps are positive, every monitor event has a task, the starters are
among the two that exist. `RefreshAssumption` and `BreakerAssumption`: finite sets of processes and threads, natural bounds.
Each invariant below was checked with TLC on the sessions of section 3 before it was proved.

### The session

The invariants are built in four layers; each module proves its own from those below it, and the refinement rests on three of them.

| Module | Invariant | Theorems |
|---|---|---|
| `SessionQueueProofs` | `IndInv == TypeOK /\ RunningIsFront /\ LockInv /\ LateInv` | `TypeCorrect`, `RunningStaysFront`, `PromotionIsExclusive` |
| `ConservationProofs` | `ConserveInv` | `NothingIsLost` |
| `TurnProofs` | `TurnInv` | `OneTerminal`, `OneTurnAtATime`, `PinAlwaysAgrees`, `SlotIsNeverWedged`, `CancelSparesQueued` |
| `HandoverProofs` | `HandoverInv`, `AimInv`, `PendingInv` | `NothingStalls`, `BarrierIsKept`, `FlushIsOwn`, `NoNoteIsStranded` |
| `LifecycleProofs` | (those of `TurnProofs`) | `SessionImplements` |

*`IndInv`.* `Spawn` makes the front the running turn, so at that point the queue must not be empty and no other turn may be in
the slot: `LockInv` says so of the task that holds the mutex, and every action that touches the queue or the slot needs the
mutex free. `Requeue` takes the last of the flushed interjections: `LateInv` says there is one. The proof has one lemma per
family of actions (`InsertStep`, `EditStep`, `InterjectStep`, `PromotionStep`, `CancelStep`, `CompletionStep`, `NotifyStep`,
`TurnTaskStep`); `Undisturbed` and `FreeStep` carry the small invariants across the actions that leave the queue alone, or
change it with the mutex free and the front kept.

*`ConserveInv`.* `Conserved` with the facts about the loop's hands: a cancel has victims only between its two halves, a
completion holds late interjections only while it requeues them. That nothing is in the queue twice needs the lemmas of
`QueueOpsProofs` on distinct sequences, and that the kinds of messages are disjoint (a wake that is a prompt as well
could be queued twice).

*`TurnInv`.* None of the five properties is inductive. What connects them: a turn is spawned once and only the running one
among the queued has been spawned (`SpawnInv`, `RunInv`); completions are those of turns that are over (`ChanInv`); a live turn has
the slot, or is the one a cancel has just torn out (`LiveInv`); a turn that is over and still has the slot has its completion on
the way, or in the loop's hands, or is at the mercy of the cancel that aborted it (`EndInv`); the pin names the prompt with the
*claim*, the running one or the front that is being promoted (`PinInv`); what a cancel holds between its halves (`TornInv`,
`FreshInv`); and a loop that rests with an empty slot has left nothing in the queue but a resumed plan's prompt
(`RestInv`). Steps are classified: `Aside` ones leave slot, pin, turns and completions alone and keep the invariant by one
lemma; promotion, spawn, the life of a turn, completion, and the parts of a cancel have a lemma each.

*`HandoverInv`.* `NoStall` needs `KickInv`: whenever the loop is ready for the next command with an empty slot and a queue
that is not, a starter is between its kick and its spawn. `BarrierHolds` speaks of the spawn, but Ctrl+C removes the wakes
only in its locked section, after an await: `BarInv` says that once the barrier is up and that section is over, nothing barred
is queued but the running turn's prompt; before it (`Raising`) `RestInv` says that a starter finds nothing but a plan's
prompt. The locked section takes the front unconditionally and then only task and workflow wakes: that no drain stays behind
needs `DrainInv`, the turn of a drain is always the front.

*`AimInv`.* The interjections in the buffer are aimed at the prompt with the claim, and the completions in the channel are
those of the same prompt: an interjection is taken only when no completion waits (the biased select) and a cancel empties the buffer
before anything else.

*`PendingInv`.* `NoStrandedNotes` speaks of a session at rest; the invariant says who will drain the two buffers at every other
moment. With the barrier down and something to tell, a turn has the slot or is about to, or a prompt is queued
that no promotion drops (`Covered`), or the loop is on its way to a drain (`Draining`): `NotesInv`. What makes it inductive:
a monitor event goes to the turn's buffer because `turnActive` is read without the mutex, and a turn that looks active
has the slot unless a cancel is in its locked section (`ActiveInv`); a completion and a cancel have decided on the drain before
they release anything, or keep the barrier up to the locked section (`AfterInv`); a send-now, the only cancel that skips the drain
with the barrier down, has its own prompt behind the running one and leaves it at the front (`NowInv`). A task or workflow wake in the
queue does not cover anything: the promotion may drop it as consumed, and then no turn ends. `NoNoteIsStranded` has the hypothesis
`CtrlCNeverRewinds`, the one exception of the runs: a Ctrl+C that rewinds takes the barrier down and skips the drain all the same (finding 3). All other
cancels, in any number and order, remain.

*Refinement.* `SessionImplements` shows every step of the session to be a `Step` or the `Close` of `PromptLifecycle` under the mapping
`PhaseOf`. Steps are told apart by what they do to the slot and to the hands of the loop (`StepKinds`): those that pass both by,
the two halves of a cancel, the completion and the spawn; each moves a message along one edge of its life (`Moved`). That
the running message is not withdrawn needs `RunningIsFront`, and after the end of the loop, when that no longer holds, that the steps left to starters and
turns keep the running prompt in the queue (`SlotStays`). The loop ends by a shutdown or by the panic of a Ctrl+C (`Ending`); both
are a `Close`.

`QueueOpsProofs` has the facts about the list operators: what `Retain` keeps and in which place its first element comes from,
that `InsertAt` behind the front keeps the front, that `PushCapped` respects the cap and adds nothing but what was pushed, that a queue
of which nothing is left without its first run was that run, which of them keep a sequence without
duplicates. They are proved from `Cardinality` of index sets, without induction.

### Credential refresh

The six theorems are about `Spec` as it is, for any number of processes, credentials, faults and orphaned threads, with any set of listeners; the
only assumption is `RefreshAssumption`, on the types of the constants.

`TypeOK` includes that there is always an inode to create a new file with, which needs a count of the files in use. `NoStraddle` follows from
`GateInv`: a process whose sleep was acknowledged as drained is gated and not at its exchange, because it claims its slot before it looks at the gate.

The argument of the others has three layers, and the inductive invariant `IndInv` one conjunct for each of their facts.

*The lock.* A holder has the flock of its file, and its name in it once it has written it; an abandoned thread has a flock of its own (`FileInv`, `FlockInv`). While a waiter
confirms, every named and running holder whose file looks stale will still beat before the delay ends, and when it has confirmed, none looks stale
(`BeatInv`); a sleep or a resumption takes that away, and puts the waiter into `cut`. This gives `RunningHolderIsSeen`. Until a lock is broken under one, every
committed process has the file that the path names (`LiveInv`: the unlink that would end it is the one that sets "broken"; `Open` makes a file only
when the path names none). Two flocks on one file being impossible, there is one committed process, and `SpendersAreAlone` follows.

*The exchange.* What is on disk, in memory or on the wire was issued (`GenInv`). Where a process is tells which answers it may have, an `invalid_grant` was given to a token
that is spent or of a revoked session, and so was every verdict (`WireInv`).

*The credential.* Without "broken": a successor in the hands of a process is the latest, and no request still under way, not even one of a process that has crashed,
can change that; what is persisted otherwise is on disk already; what is discarded is what was sent (`HandInv`). Without "broken" and "unsaved", what is accepted in memory is on disk
(`MemInv`). Without any harm, the latest credential is on disk or in the hands of the exchange, and only it is ever sent (`ChainInv`). `ReuseNeedsHarm` is a conjunct of `ChainInv`;
`AcceptedIsKept` goes through the steps that write `auth.json` or memory.

TLC checked each conjunct of `IndInv` as an invariant, with the bounds of `refresh`, before it was proved.

### Circuit breaker

`CountIsTrue`: the count that `SlidingWindow` keeps by adding and subtracting is the number of failures among the samples it holds.
The window is under a mutex, so the invariant is about one step at a time; it needs that the count of a sequence changes by one
sample when it is appended and by those dropped when a prefix goes, as cardinalities of index sets.

### Only model-checked

* Liveness: `UserIsAnswered`, `Recovers`, `AdmitsAgain`, `ClosesWhenHealthy` need fairness and `ENABLED`.
* `CredentialWriters`, whose property is violated.

## 5. Plan

Done: the session queue with its composition with turns, starters, goals
and notifications; credential refresh with its faults, composed with an unlocked writer; the circuit breaker;
all safety properties of the three that hold are proved, and the session's refinement. Next, in this order:

1. `CredentialWriters`: login, which persists without the lock in two places (`oidc/login.rs:537`, `device_code.rs:490`) and in
   a third waits for a lock its own process holds (`flow.rs:570-601`); logout; the enrichment.
2. `SamplerActor`: request tasks, retries, cancellation, one terminal event per request.
3. `ChatState`: conversation with tool calls, rewinds and compaction; pairing.
4. `WorkflowJournal`: crash and replay; reported once.
5. `LeaderLock`: processes and a lock file.
6. Hub connection and reference counts.

### Not modelled

The repository has 1.7 million lines, most of them rendering, editors, tools, configuration and a second program (`dx-tui`); the modules
cover the parts where interleavings decide, a small share of the lines. Of the modelled parts:
texts and telemetry everywhere; in the session, what `PROJECT.json` says of the run loop, the turn and the goal
loop; in the credential refresh login, logout, `/user` enrichment, external refresh commands and devbox recovery, the escalation of repeated
network failures to a verdict with a time to live, the deferral in a dark wake, I/O errors of the lock file
(`LockAttempt::Failed`), the team pin; in the breaker the disabled configuration, the registry and the observer.

## 6. Findings

1. **Ctrl+C can panic the run loop** (`ctrlc_lock`). `cancel_running_task` takes the state mutex with
   `try_lock().expect("session state is actor-owned")` (`tasks_cancel.rs:258`). A resumed plan
   promotes from a task of its own and keeps that mutex across an await
   (`notification_drain.rs:189, 283-291`).
2. **Interjecting a queued row** (`interject_row`). The documentation (`prompt_queue.rs:502-508`) says the row leaves the
   queue for the interjection buffer; the code promotes it to run next and cancels the running turn.
3. **Ctrl+C on a pristine turn** (`ctrlc_rewind`). The rewind takes the barrier down again (`tasks_cancel.rs:400`) while the
   handler still skips the drain (`run_loop.rs:1006`), unlike the comment there; notifications wait for some other event.
4. **The privacy handler rolls a refresh back** (`privacy_rollback`). `extensions/privacy.rs` takes the credential before its PUT and writes it
   back whole afterwards, without the file lock. When a refresh ends in between, `auth.json` and memory get the spent refresh token
   again; the next refresh presents it. `manager/enrichment.rs:142-145` avoids exactly this.

5. **A lock that is held may be broken as stale** (`lock_break`). `try_acquire_once` locks the file and then writes its own name into it
   (`manager/lock.rs:338-342`); until then the file names its previous holder, who may have ended. A waiter that looks in
   between judges the file stale and unlinks it, and two processes present the same refresh token, which the comment at `manager.rs:1640-1642` rules out.

Two comments of the breaker (`breaker.rs:41-43` on the mirror, `211-217` on the probe count being 0 while open) are not
exact under overlap: a late store of `trip` leaves `is_open_fast` set on a closed breaker, and a check that saw `HalfOpen` may count
itself after `trip` has zeroed the count. Neither harms: `is_open()` is used for diagnostics
(`storage_client.rs:495`), and the lease frees the slot, which is what `AdmitsAgain` checks.
