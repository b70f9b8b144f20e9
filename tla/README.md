# wrapix: a TLA+ verification project

wrapix runs AI coding agents in sandboxed containers and drives them through
issue-tracked work. This directory holds TLA+ models of its core logic, the TLC
configurations that check them, and TLAPS proofs about them.

Paths below are relative to the repository root (`src/` in `PROJECT.json`).
`PROJECT.json` maps every modelling definition to the lines it stands for.

## 1. Inventory

| Component | State it keeps | Operations | How it interacts | What is hard |
|---|---|---|---|---|
| **loom locks** `loom-core/src/lock` | lock files, kernel `flock`s | `acquire_spec` (5 s poll), `acquire_workspace` (probe all, one try), guard drop | every mutating loom command | processes that die, probes that themselves lock, deadlines |
| **loom run** `loom-workflow/src/run/{runner,production,retry}.rs` | none across runs; beads in `bd` | pull, session, retry, close, clarify, hand-off | `bd`, agent, `loom check` as child | error context across attempts, clarified beads, hand-off under a lock |
| **loom check** `loom-workflow/src/check` | iteration counter in the state DB | two snapshots around a review, four verdicts, two pushes | `bd`, git, reviewer, `loom run` as child | order of pushes, deaths between calls, bound on reruns |
| **loom run --parallel** `run/parallel.rs`, `loom-core/src/git` | worktrees, branches, the driver branch, the git index | create worktrees, join sessions, merge back | git, agents, other specs' batches | leftovers, conflicts, orphans, a shared index |
| **loom state DB** `loom-core/src/state`, `init` | SQLite: specs, molecules, companions, meta | open, recreate, rebuild, counters, companions | init, plan, use, status | multi-statement updates, readers while it is recreated |
| **loom agent session** `loom-core/src/agent`, `loom-agent` | typestate session, line buffers | spawn, prompt, steer, events, shutdown | agent processes over NDJSON | end of output against terminal event, late requests, kill escalation |
| **loom plan, use, status, spec** `loom-workflow/src/{plan,spec}`, `use_spec.rs`, `status.rs` | rows of the state DB | interview, reconcile companions, read annotations and dependencies | state DB, spec files | two locks, text that looks like structure |
| **loom msg** `loom-workflow/src/msg` | label `loom:clarify` in `bd` | list, resolve, answer, dismiss | `bd`, runs that raise questions | stale listings, updates that outlive the command |
| **loom todo** `loom-workflow/src/todo` | cursors in the state DB | choose what to diff, read the verdict | git, state DB, agent | rewritten history, several verdicts in one output |
| **loom logging** `loom-core/src/logging`, `logs_cmd.rs` | one file per session, its buffer | open, emit, finish, drop, sweep, select | sessions of one bead | failed flushes, names from the clock |
| **loom config** `loom-core/src/config` | `config.toml` | agent of a phase | every command that starts an agent | precedence of flag, phase and default |
| **gas city** `lib/city/scripts` | bead metadata, worktrees, containers, sockets | worker monitor, gate, judge merge, post-gate, dispatch, recovery | `gc`, `bd`, git, podman | verdicts of an earlier round, restarts between any two commands, claims that race |
| **tmux-mcp** `lib/mcp/tmux/tmux-mcp/src` | pane table, audit log | create, send, capture, kill, list | tmux, an MCP client | table against tmux's own state |
| **ralph** `lib/ralph/cmd` | JSON state files, worktrees | plan, todo, run, check, msg, sync | `bd`, git, agent | read-modify-write of files by several scripts |
| **beads-dolt** `lib/beads` | database directory, server | start, stop, push branch | `bd` clients | start races |
| sandbox, builder, notify, prek, packaging | - | - | - | Nix derivations and command lines: not modelled |

What makes each of them correct, and where it can go wrong, is the list
`hazards` of `PROJECT.json`, one line of code each, with the properties that
would catch it; a note says where a property stops short.

## 2. Modules

```
ExclusiveLocks        what a set of exclusive locks promises
LoomLocks             lock/manager.rs and the processes that contend
LoomLocks_proofs      proofs about LoomLocks
LoomMolecule          what run and check share: tracker, branch, lock, processes
LoomRun               loom run           EXTENDS LoomMolecule
LoomCheck             loom check         EXTENDS LoomMolecule
LoomGate              their composition  EXTENDS LoomRun, LoomCheck
LoomGate_proofs       proofs about LoomGate
LoomBatch             loom run --parallel
LoomBatch_proofs      proofs about LoomBatch
MCLoomBatch           two specs, three beads for TLC

LoomWire              the lines of the two agent protocols and their parsers
LoomAgent             an agent session   EXTENDS LoomWire
LoomAgent_proofs      proofs about LoomAgent
LoomDb                the statements of the state DB
LoomState             the commands that issue them   EXTENDS LoomDb
LoomState_proofs      proofs about LoomState
MCLoomState           two molecules, one without a spec label
LoomMsg               loom msg against runs and bd
LoomMsg_proofs        proofs about LoomMsg
MCLoomMsg             three beads, one without a spec label
TmuxServer            tmux, as far as the server uses it
TmuxMcp               tmux-mcp           EXTENDS TmuxServer
TmuxMcp_proofs        proofs about TmuxMcp

LoomMarkdown          companions, annotations, options, exit signal
LoomDeps              loom spec --deps
LoomConfig            which agent a command runs
LoomTodo              what loom todo diffs   EXTENDS LoomConfig
LoomLogs              stamps, log selection, retention sweep
LoomSink              a session's log file and terminal
LoomText              all of these on every small input
LoomText_proofs       proofs about LoomText
```

### Concurrent and failing parts

**LoomLocks.** `pc` says where a process is inside `acquire_with_timeout` or
`find_held_spec_lock`; `flock` is the kernel's table, `files` the lock files that
exist, `unprobed` the entries of the directory stream init has not reached.
`try_write`, guard drop and the workspace lock are separate steps, so a probe
really holds a spec lock for a moment. A file created while the stream is open
may or may not be listed. Time is the number of polls that fit before the
deadline. Any process can die at any step, and the kernel then closes its
descriptors. `flock(2)` itself is external.

**ExclusiveLocks** has one variable, the owner of each lock. `LoomLocks`
implements it: a lock is owned by the process inside its region, and probes,
polls and failures are stuttering steps.

**LoomMolecule, LoomRun, LoomCheck, LoomGate.** The beads of one spec, the driver
branch and what was pushed of it, the iteration counter, and process slots that
the user, or another loom process, fills with `loom run` and `loom check`. The
spec lock is the abstract one `LoomLocks` implements. Every `?` that returns an
error, and every kill, is `Exit`. Sessions, reviews, `loom msg` and other specs'
commits are external and happen at any time. An agent whose run is gone works on
(`orphans`): its commits, like those of other specs, are made without the spec
lock (`unlocked`). Two things follow the controller contracts (the trait
documentation in `run/runner.rs` and `check/runner.rs`) rather than today's
production controllers: sessions and reviews may succeed (the shipped `run_bead`
and `run_review` are stubs that always fail), and the iteration counter is the
column of the state DB (the shipped accessors return 0 and write nothing). check
reads the counter where it decides on a rerun and writes `current + 1` of that
reading (`next`); `loom init --rebuild` may set it to 0 at any time. The hand-offs
are the shipped ones: a child process that is waited for.

**LoomBatch.** One process per spec, as its lock allows, over one git repository.
Creating a worktree, `git merge`, removing a worktree and deleting a branch are
separate steps, and the process can die between them; a `git merge` it no longer
waits for goes on. A branch is its set of commits; a merge can conflict only when
both sides have commits the other lacks. Agents may outlive their process. A
human resolves or aborts conflicts and merges leftover branches. The batch never
closes a bead, so every bead stays ready.

**LoomWire, LoomAgent.** One session, from `AgentBackend::spawn` to its end. A
line of a protocol is named for its wire type and the field the parser branches
on; `ParsePi` and `ParseClaude` say which events, which answer or which error it
makes. `LoomAgent` has the two pipes between loom and the agent, the queue of
events `AgentSession` keeps, pi's handshake (probe, set model), the loop of
`run_agent`, and the watchdog of the claude backend (close stdin, grace, SIGTERM,
grace, SIGKILL). The agent is external: it writes any line of its protocol,
blank, broken or over-long ones included, stops to ask, ignores the end of its
stdin, or dies. The caller is `run_agent`, or any other user of the public API,
who may also steer, abort, prompt again or drop the session. Out-of-order and
lost events would come from the queue, the pipe or the abort; all three are
there.

**LoomDb, LoomState.** `state.db` is a path: `--rebuild` unlinks the file and
makes another, while a command that opened the old one keeps its connection. Each
SQL statement is a step, each command may die after any, and plans, uses, inits,
rebuilds and readers run in two processes under the locks of `LoomLocks` (taken
as atomic here). Spec files are edited by the interview. `promise` is history:
what the last undisturbed command reported of a spec's rows; `late` marks a
command that began after the probes that should have kept it out, the case of
finding 1.

**LoomMsg.** Each invocation lists, resolves its target by row or id in that
listing, and calls `bd update`; the call is under way as a step of its own and
may be applied after its caller died or ran into the 60 s limit. Runs raise
questions under their spec's lock; an agent, or a bd call, that outlives its run
raises them without it (`left`), and beads without a spec label get them from
anybody. A bead's row is its place among the beads listed. `asked` is the last
question a run raised under the lock; `cleared` records which question the last
applied update was about and which of those it cleared.

**TmuxServer, TmuxMcp.** tmux has windows whose process may end, whose pane then
stays or goes depending on remain-on-exit, and which other clients may close. The
server reads one line, runs the tmux commands of one tool one by one, writes an
audit entry and answers; any one command or the write of the log may fail
(`MaxFaults`). A line that is not UTF-8 ends it. Signals, SIGKILL and a client
that leaves come at any step.

### Pure parts

**LoomMarkdown, LoomDeps, LoomConfig, LoomTodo, LoomLogs, LoomSink.** Functions of
the code as operators, next to a definition of what their documentation says of
the result. The former follow the loops (folds over lines, letters or calls), the
latter are stated over positions, so that the two do not err in the same way. A
text is a sequence of kinds of lines; a path a sequence of components; a history
a handful of commits with the files at each; a session's log a sequence of calls
each of which may fail at the file or at the terminal. In `LoomSink` the file is
behind the BufWriter of `sink.rs`: a failed flush leaves in the buffer what the
disk did not take, a full buffer that cannot be flushed takes nothing more, and a
line as long as the buffer goes past it, so it may be torn. Two sinks share a file,
because two sessions of a bead that start in one second do; their calls do not
overlap.

`LoomTodo` models library functions that the shipped `loom todo` does not call yet
(it ignores `--since`), and of `LoomConfig`'s selection the commands use only the
kind so far; what is checked are the functions.

**LoomText** calls each of them once: a job in `Init` is a function and its
arguments, the one step is the call.

## 3. Runs

| Run | Question | Bounds | States |
|---|---|---|---|
| `locks` | Do the locks exclude, end up free, and answer? | 2 specs, 2 commands, 2 inits, 1 extra poll | 32,192 |
| `locks_rebuild` | Does init exclude spec commands, as `manager.rs:82-85` says? **No** | 1 spec, 1 command, 1 init | counterexample |
| `gate` | What can a push carry, and can review start work without bound? | 2 processes, 2 fix-up beads, 1 commit, 1 retry, 1 rerun | 590,644 |
| `gate_handoff` | Can the child run at all? **No** | 2 processes | counterexample |
| `gate_clarify` | Is a clarified bead left alone? **No** | 1 bead, no retry | counterexample |
| `batch` | Is committed work ever lost, are results true, does merge-back end? | 2 specs, 2+1 beads, 2 commits | 1,388,106 |
| `batch_conflict` | Is a reported conflict the bead's own? **No** | as `batch` | counterexample |
| `agent` | Does the caller get the agent's events and outcome, and does the session end? | 3 lines, 2 of them in the pipe, 2 prompts | 121,399 |
| `state` | Are the rows what was last reported; does a rebuild repair what deaths left? | 2 processes, 3 commands, 2 specs, 1 companion, 2 molecules | 1,406,225 |
| `msg` | Does an answer under the lock clear the question that was read? | 3 beads, 2 processes, 2 invocations, 2 questions a bead | 734,029 |
| `tmux` | Do table, listing and audit log agree with tmux, and is the session cleaned up? | 2 panes, 1 failing command | 242,500 |
| `text` | Do the readers return what is written? | see below | 1,521,676 |

*Why the bounds are enough.* Locks: the protocol's quantifiers range over pairs
of processes and over one lock beside another, so two of each kind show every
pairing; the proofs remove the bound. Gate: two process slots are what a parent
and its child, or two users, need; with no bead to begin with, the first review
files one, its rerun processes it, the second review files the other and meets
the cap, which is the shortest history on which an off-by-one of the cap shows;
each property speaks of one commit's place among snapshot, close and push, so one
commit is enough: it is a run's, a dead run's agent's or another spec's, and is made
at any of these places. Batch: a conflict needs two branches with a commit each; one spec
with two beads and one with a single bead give slots of one batch and batches of
two specs in one index.

Agent: no line's treatment depends on more than the line before it, which may
have left events queued or a question open, so three free lines after the
handshake put every kind before and after every other; a pipe of two lines fills;
a second prompt is what an abort can leave events for. State: a disturbance needs
two commands, a third shows what they left; a second spec is what a lock or a
rebuild must not confuse with the first, a second molecule is the one
without a spec label, which makes the fetch before a rebuild fail. Msg: a row names
another bead when one leaves the list in front of it, for which three beads suffice;
two questions on a bead are an old and a new one; the second invocation works beside
the first, or meets what a dead one left under way. Tmux: a second pane is what
a command may hit instead of the first, one fault reaches every command of every
tool, and a request of a later kind follows any earlier one.

Text: up to five lines (six letters for tools), so that a section may be opened,
filled, closed and opened again; an output of up to three lines of two words;
every history in which the two spec files have changed or not at each commit, with
every stored cursor and `--since`; every config of two phases with every flag; log
directories, sweeps and sink calls of up to three; every second of a day and every
day of the 400-year cycle from 1970 on, for the audit log every day of its first
40 years and those around February 2100. A buffer of two units tells a line that
fits from one that does not, and lets the disk refuse a line, its newline or a part.

*Deadlock* is checked in `locks`, `gate` and `batch` and the runs beside them. It
is not in `agent` (a session ends), `state` and `msg` (a bounded number of
commands ends), `tmux` (the server stops) and `text` (one call).

*Fairness.* `LoomLocks`: a process inside an acquisition keeps running, for the
loop sleeps 50 ms and tries again; nothing is assumed of how long a command
works. `LoomGate`: the same of an acquisition, and of the wait for a child that
has ended; nothing of agents, users, `bd` or git. `LoomBatch`: merge-back keeps
running and gives up on a git that hangs (`run_git_raw`'s 60 s limit); nothing of
git, agents or the human. `LoomAgent`: loom's own steps run, `run_agent` prompts
as soon as it can, and an agent that is alive reads its input, goes on when it is
answered and finishes what it works on; without the last a session may indeed last
for ever, for the code puts no limit on it. `TmuxMcp`: the server runs a request
to its end, and leaves its loop once its input has ended; the client owes it
nothing, and a signal alone does not count. No strong fairness is used.

### Properties worth a comment

- `InitOutlivesEarlyCommands` is what the probing loop guarantees; the stronger
  `RebuildExcludesCommands` is what its comment claims.
- `AcquisitionEnds` and `HandoffEnds` hold though a holder may keep its lock for
  ever: they rest on the deadline alone. `HandoffEnds` is what turns the hand-off
  from a deadlock into a failure.
- `PushedWorkWasReviewed` is about the commits of runs that are alive. Commits of
  other specs are on the same branch and are pushed unreviewed; so is what the agent
  of a killed run commits after check's first snapshot, for the lock went with the
  run. The property excepts both.
- `NoClosedBeadAheadOfCode` depends on the order of the two pushes *and* on the
  lock that keeps a run from closing a bead between them.
- `AutoRerunsBounded` is about the contract of `CheckController`: the shipped
  accessors are stubs, and so is the review, so the shipped check never comes as far
  as the cap. Under the contract it survives deaths because the counter is persisted
  before the rerun is spawned, and stale reads because the lock is held between read
  and write. A rebuild takes no spec lock: it starts the count again, and one more
  rerun is possible when it comes between the write and the spawn (`uncounted`).
- `NoWorkLost` quantifies over everything a successful session committed, for
  every death, conflict, hung git and interleaving of two specs.
- `OneAgentPerWorktree` depends on `git worktree add -b` refusing a branch that
  exists, because nothing else stops a second batch from taking up a bead whose
  agent is still alive.
- `EventsInOrder` compares what the caller is still owed with the queue and the
  pipe: it fails when a line's second event is lost, repeated or overtaken.
- `SessionEnds` names the three ways in which both sides wait for good
  (`MutualWait`): a question of pi's extension during the handshake, which
  `await_response` drops; a prompt that pi refuses, which is only logged; a claude
  result of a kind the parser does not know. Every other session ends.
- `AgentEndsWithSession` holds for every exit path because the child is spawned
  with `kill_on_drop`.
- `RowsAsReported` is what the two locks are for: a rebuild between an interview's
  delete and its inserts would leave rows nobody reported.
- `DeadRebuildWedgesNobody` holds because every `open` creates missing tables; a
  command fails in the database only when the tables vanish under its connection.
- `LockedAnswerFitsQuestion` is false without `-s`, for updates that outlive their
  command, and for questions raised by an agent or a bd call that outlives its run;
  the property says exactly for which answers and questions the lock helps.
- `PanesAreWindows` depends on the hook that sets remain-on-exit before the
  process of a new window can end, and on taking a row back when tmux fails.
- `ClientGoneCleansUp` is about the client, not the signal; see below.

### Findings

1. `acquire_workspace` does not keep the spec locks it probes (`locks_rebuild`).
2. `exec_check` and `exec_run` wait for a child that needs the lock they hold
   (`gate_handoff`).
3. A bead that ran out of retries stays ready (`gate_clarify`).
4. After one conflict, every later merge is reported as a conflict
   (`batch_conflict`).

Seen while modelling, and stated only as hazards or as the exception of a
property:

- `tmux-mcp/src/main.rs:401-402` says the session is cleaned up even on a signal,
  but the flag is looked at only after the next line of input.
- A failed `set-hook` after `new-session` leaves `session_created` false, so every
  later `create_pane` fails with a duplicate session.
- `state/rebuild.rs:42-43` calls the implementation notes the only field that is
  lost; `current_spec` and `base_commit` are lost too.
- `denied_tools` never reaches the claude backend (`claude/backend.rs:76`).
- The answer of `loom msg` is printed and not written to the bead
  (`main.rs:580`, against `reply.rs:6`).
- `sink.rs:18-22` says terminal and log cannot diverge: an event whose write failed
  never gets to the terminal, but it may get into the log with the next one, as a
  whole or in part. `LogsTellWhatHappened` excepts these events.
- `annotations.rs:4-6` pairs a criterion with the link on the next non-blank line;
  the code takes the next link before another criterion, however far away.
  `TextReadAsWritten` is for the texts on which the two agree (`LinksFollow`).
- Under a relative `--workspace` of several components `loom spec --deps` looks
  for linked files in the wrong directory and skips them silently.
- `--profile` is accepted and ignored.
- A batch closes no bead it merged, and merges what a session with a non-zero exit
  code committed (`main.rs:399-408`).
- A failed `finish` of a sink cannot be repeated, so the closing line never comes
  (`sink.rs:115`); the capture counter of the audit log starts again in every
  process (`audit.rs:293`); a line's limit is looked at when all of it is in memory
  (`ndjson.rs:48`).
- An unknown backend in the config fails a command even when `--agent` names a good
  one (`main.rs:466`, against `main.rs:457`); `TodoStartsAsConfigured` excepts it.
- An agent that outlives its killed run can commit between check's snapshot and its
  push, and the commit is pushed unreviewed.
- `loom init --rebuild` forgets a rerun that is counted and not yet started.
- A question of a run, and an answer of `loom msg`, may be applied by a bd that
  nobody waits for any more (`bd/runner.rs:46-60`), when the spec's lock is free.

## 4. Proofs

TLAPS proves, for every number of specs, commands, inits and polls, from
`LocksAssumption` alone:

| Theorem | States |
|---|---|
| `TypeCorrect` | `TypeOK` is invariant |
| `LocksExclude` | `MutualExclusion` is invariant |
| `NoLockIsOrphaned` | `NoOrphanLock` is invariant |
| `InitWaitsForEarlyCommands` | `InitOutlivesEarlyCommands` is invariant |
| `LocksRefine` | `Spec => ImplementsExclusiveLocks` |

The inductive invariant `LockInv` is `TypeOK` and four parts that the properties
alone do not give: a process inside a region holds the kernel lock of that region
(`RegionsAreLocked`, without which a step could grant a lock twice), a kernel lock
is held only so (`NoOrphanLock`), a waiting or holding command's lock file exists
(`FileOfTarget`), and a command that held its lock when init began is still on the
list of locks to probe (`EarlyIsUnprobed`, without which the last probe says
nothing about the first). The step lemmas have one step per action. The refinement
shows that each action is an `Enter`, a `Leave` or a stutter of `ExclusiveLocks`.

and, for every number of specs, beads and commits, from `BatchAssumption` alone:

| Theorem | States |
|---|---|
| `BatchTypeCorrect` | `TypeOK` of `LoomBatch` is invariant |
| `WorkIsNeverLost` | `NoWorkLost` is invariant |
| `WorktreesAreNotShared` | `OneAgentPerWorktree` is invariant |
| `ReportsAreTrue` | `ResultsAreTrue` is invariant |

None of these is inductive. The inductive invariant `BatchInv` (checked by TLC
before it was proved) adds what a process's memory has to do with the repository:
which of its lists may be non-empty at which point (`Phases`); a bead is in one
list, of its own spec, once, and has a branch and no result (`SlotsApart`); an
agent is counted for each active bead and for none that is queued
(`AgentsCounted`); git merges a bead of a batch, or has left its conflict in the
index, only when the batch is about to look at it (`GitAgrees`); queued beads keep
their worktree (`TreesKept`). The heart is `WorkKept`: two branches share only
what is on the driver branch (`BranchesApart`), and a branch that failed, or whose
merge is done, holds no promised commit of its own (`NothingOwed`), so deleting it
loses nothing. `Ended`, `Reported` and `Queued` say once what the three operations
that change a batch's lists do; the step lemmas, one per part of the invariant,
cite them and have one step per action.

And for every number of beads, specs, commands and questions, from `MsgAssumption`
and `HolderAssumption` (a process is none of the other things that may hold a lock):

| Theorem | States |
|---|---|
| `LockedAnswersFit` | `LockedAnswerFitsQuestion` is invariant |

The property speaks of the moment bd applies the update, so its inductive invariant
`MsgInv` (checked by TLC before it was proved) follows the question from `bd list` to
there: a command with a filter holds that spec's lock (`FiltersAreLocked`); of the beads
it listed (`ListIsFresh`), of the one it picked (`TargetIsFresh`) and of the update it
waits for (`CallsAreFresh`), which are of the spec, no run has asked anything newer
under the lock than what was read. The central lemma is `NobodyAsksUnderLock`: as long
as a command holds a spec's lock, no step changes `asked` of the spec, since a run
would need the same lock. What outlives a run may still change `question`, of which
nothing is proved. `MemoryOfStep` and
`CallsOfStep` say once what a step may leave in a command's memory and among the
calls, so that the lemmas about freshness need no case per action.

For every number of process slots, beads, commits, retries and reruns, from
`MoleculeAssumption`:

| Theorem | States |
|---|---|
| `GateTypeCorrect` | `TypeOK` of `LoomMolecule` is invariant |
| `PushesAreReviewed` | `PushedWorkWasReviewed` is invariant |
| `TrackerStaysBehindCode` | `NoClosedBeadAheadOfCode` is invariant |
| `RetriesKnowTheirFailure` | `RetryContext` is invariant |
| `RerunsStayCapped` | `AutoRerunsBounded` is invariant |

The inductive invariant `GateInv` carries what a push relies on from the place where
it becomes true. A process past its acquisition has the lock (`LockHeld`), so only
one of them is anywhere between its first snapshot and its last push. From that
snapshot to the push no commit made under the lock goes by the reviewer
(`ReviewCovers`): the snapshots around the review, not the review itself, are what the
proof needs.
Between the two pushes the remote has the work of every closed bead (`PushOrder`);
with the pushes in the other order there is no such place. A rerun under way is in
the counter before it is started, or a rebuild has reset it since (`RerunsCounted`),
and a bead begins without the
retries and the error of the bead before (`FreshStart`). `Writers` and `Arrivals`
go through the actions once and say which step writes a variable and which step leads
to a place; the step lemmas cite those, so that each part of the invariant looks only
at the steps that can disturb it.

For every number of panes and of failing commands, from `TmuxAssumption`:

| Theorem | States |
|---|---|
| `McpTypeCorrect` | `TypeOK` of `TmuxMcp` is invariant |
| `PanesStayWindows` | `PanesAreWindows` is invariant |
| `ListingsAreTrue` | `ListingIsTrue` is invariant |
| `AuditNeverLies` | `AuditIsTrue` is invariant |

The properties speak of the moments between two requests; `McpInv` says what holds
at each command in between. No window is without its row (`NoStrayWindow`), no row
without its window but the one being created (`NoLostWindow`), which needs that ids
are never given out twice (`IdsAreUsedOnce`) and that a pane whose process ends stays
(`DeadPanesStay`), hence that `new-window` runs only in a session that has the hook
(`HookInPlace`). The audit log is true because `CommandsSoFar` knows at each place
what the tool in hand has done to tmux.

For every number of processes, specs, companions and molecules, from `DbAssumption`
and `StateAssumption`:

| Theorem | States |
|---|---|
| `StateTypeCorrect` | `TypeOK` of `LoomState` is invariant |
| `RowsStayAsReported` | `RowsAsReported` is invariant |
| `RebuildsRepair` | `RebuildRepairs` is invariant |
| `DeadRebuildsWedgeNobody` | `DeadRebuildWedgesNobody` is invariant |

`StateInv` has three layers. Who holds what: `PlacesFit`, `LocksHeld`. Who can meet
whom: a plan whose spec a rebuild has probed began after the probe (`KeptApart`, the
gap of finding 1; both are then marked `late`), and a command that none broke into is
connected to the file under the path (`Connections`), whose tables are there
(`TablesThere`). And how far each has come: `RebuildProgress` and `PlanProgress` give
the contents of the database after every single statement, which is what a rebuild
that reports success, or a death between two statements, is judged by; nothing is
promised of a spec whose rows are being written (`NoPromiseInWork`). `Effects`,
`Memory` and `Shares` say once what a step does to the database, to the process's own
record and to the files the others use.

For agents that write any number of lines, pipes of any length and any number of
prompts, from `AgentAssumption`:

| Theorem | States |
|---|---|
| `AgentTypeCorrect` | `TypeOK` of `LoomAgent` is invariant |
| `CallersGetAllEvents` | `EventsInOrder` is invariant |
| `OutcomesAreTheAgents` | `OutcomeIsTheAgents` is invariant |
| `QuestionsGetAnswers` | `QuestionsAreAnswered` is invariant |
| `NoAgentOutlivesItsSession` | `AgentEndsWithSession` is invariant |

`EventsInOrder` says that the events the caller is owed are the queue followed by
what the lines in the pipe mean, in order. It is inductive, but what it is about is a
concatenation over all lines in the pipe: the lemmas `FlattenSeqAppend` (a line
written) and `FlattenSeqHeadTail` (a line read) are proved by induction over the
lines. The library's induction theorems take an operator as a parameter and cannot be
used here, so the induction is a least counterexample: `LeastNatural`, from the
well-foundedness of `<`. `AgentInv` adds that nothing but answers passes while a
session is spawned (`SpawnIsFresh`, `HandshakeIsQuiet`), that agent and caller agree
on whether a turn is open and on its terminal event (`OneTurn`, `TerminalsAgree`), and
that an outcome is set once (`OutcomeIsFinal`). There is one lemma per action.

For the pure parts, for histories, configurations, texts, files, calls and days of any
number, from `TextAssumption`:

| Theorem | States |
|---|---|
| `TodoStartsRight` | `TodoStartsAsConfigured` is invariant |
| `TextsAreRead` | `TextReadAsWritten` is invariant |
| `StampsAreTheCalendar` | `StampsFollowTheCalendar`, the part of the next about stamps |
| `LogsAreRight` | `LogsAreChosenAndSwept`, the part about choice and sweep |
| `LogsTellTheTruth` | `LogsTellWhatHappened` is invariant |

What a step computes is the value of an operator, so the invariant `TextInv` only says
which (`Computed`) of which arguments (`JobTyped`), and the work is in the lemmas about
the operators. `DecisionIsMeant` and `AgentIsMeant` go through the tiers and the
precedence of flag, phase and default.

The calendar lemmas take a day apart as `civil_from_days` does: `PlaceInEra` is the
century, the four years, the year and the day in an era of 400 years from March on,
and `CivilIsDate` shows that the divisions by 1460, 36524 and 146096 find it. From
there `CivilFollows` gives the next day's date for every day since the epoch.
The audit log counts years and months; `FirstDayIs` and `DaysBeforeIs` give its sums
in closed form, and `OneDate` that only one date has a given day, so `AuditIsUtc`:
the two algorithms agree on every day, not only on those TLC tries.

A session's log is a recursion over the calls. What one call does to buffer and file
is put together from what `WriteOut`, `Flush` and `WriteAll` do (`WriteOutIs`,
`FlushIs`, `WriteAllIs`, `WriteEventIs`): each moves the front of a queue, the buffer
followed by the line, into the file and drops at most the end of the line (`Moved`,
`WriteMeant`), wherever the disk stops. `SinkInv` says what the sinks hold after the
first k calls: file and buffers in order, each sink's file before its buffer
(`LogRight`, `QueueRight`); every event that was written without a failure whole in
the file, and the first that failed in file and buffer together (`EventsRight`); on
the terminal only what is whole in the file (`ShownRight`), and a count between the
tool calls that did not fail and those that are whole (`EndRight`). `RunIs` is the
induction over the calls, again by a least counterexample, and needs `RunsExist`: the
function by which `RunSinks` is defined is there.

The readers of text are folds, and what a person reads is a set of positions with
what lies between them, so `TextsAreRead` needs an induction for each. `FoldsExist`
and the `...Fold` lemmas turn the fold of the community modules, which goes through a
set of positions by `CHOOSE`, into the states of the loop, one for every line read;
`UpTo` is the induction. What a loop knows after k lines is then said in terms of the
text: whether it is inside the section (`CompanionsAreDeclared`, `CriteriaSection`),
which heading or checkbox is open and what has been kept of it (`OptionsReadOn`,
`AnnotationsReadOn`), which climbs are still owed (`WalkedOn`). `AppendedInOrder`
says that what a loop appends stands in the order of its lines, whatever the set
(`Rank` is a position's place in it). `CommandUseIs` shows that restarting the search
one letter behind a rejected hit misses no call, and `LinksLead` that `normalize`
takes every link of a spec to where the file system would.

Attempting these proofs showed that three CASEs (`SinkStep`, `FenceIgnored` and
`AnnotationStep`, `ParsePi`) had guards that overlapped, which leaves the choice to the
checker; they now are disjoint, in the order of the code.

TLC checked each of these inductive invariants (those of state machines) on the bounds
of its run before it was proved. The proofs use only `Spec` and the named assumptions.

What stays with TLC:

- Liveness (`AcquisitionEnds`, `HandoffEnds`, `MergeBackEnds`, `SessionEnds`,
  `ClientGoneCleansUp`): the provers here have no rules for fairness and ENABLED.

## 5. What is not modelled

- `bd`, git, tmux, the agents, SQLite and the kernel are external, modelled by what
  the code relies on. In the gate a `bd`, git or `beads-push` call happens or does
  not when its caller gives it up or dies; only `LoomMsg` (bd) and `LoomBatch` (git)
  have calls that come later. tmux resolves a window by its exact name; that a prefix
  of another name may do (`debug-1`, `debug-10`) is left out. The pipe to an agent
  never fills, so loom's `write_all` never blocks on it; the pipe from it does. A
  rebuild is judged by the molecules it had fetched, not by what the tracker has since.
- Prompt templates, terminal wording, argument parsing, identifiers, JSON and TOML
  decoding: data without protocol.
- The shipped controllers of `todo`, and `run_bead` and `run_review`, are stubs;
  the models follow the contracts. The counter statements of the state DB have no
  caller outside of tests.
- The shell parts, gas city (`lib/city`), ralph (`lib/ralph`) and beads-dolt
  (`lib/beads`): programs of their own that meet the Rust code only through `bd`,
  git and podman. Where they are hard: a verdict of an earlier round
  (`city/scripts/gate.sh:77`), a failed claim that only warns
  (`worker-setup.sh:35`), the merge before its verdict (`judge-merge.sh:150`),
  recovery (`recovery.sh:151`), state files changed without a lock
  (`ralph/cmd/run.sh:779`). ralph is superseded by loom.
- Nix derivations, images, container command lines, the notification relay and
  the hook runner: no state of their own.

## 6. Plan

1. A refinement of `LoomGate` to an abstract driver branch that only ever shows
   reviewed work.
2. If the shell parts are taken up: worker and review gate of the city, with
   verdicts of an earlier round and restarts between any two commands.
