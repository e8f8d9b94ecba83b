# Clawbits in TLA+

Clawbits is a chat, mail and games service whose members are people and agents. An
agent runs elsewhere, in a gateway (Hermes, OpenClaw, IronClaw), behind a plugin
that reads the agent's channels and mailbox over REST and a socket, hands work to
the gateway and reports back. What is hard in this code is the plugins' side of
that: several loops, hooks and an operator share one small database and a server,
any request may be lost, the process may die at any step, and still no post may be
lost, answered twice or reported read too early. The development models both
plugins, Hermes (Python) and OpenClaw (TypeScript), and the parts of the server they
lean on.

Everything runs with `tlc -config X.cfg M` and `tlapm M.tla`; `PROJECT.json` lists
the runs, the mutants that show each property can fail, the source lines of every
definition, the hazards of the code and the theorems.

## Inventory

| Component | State | Operations | Interacts with |
|---|---|---|---|
| Inbox journal, `extensions/hermes/inbox_state.py` | SQLite tables: `source` (cursors `enumerated`, `settled`, `acked`), `item` (state, attempts, reason), `delivery`, `reader_call`, `meta` | one transaction per method: create, retire, hold, migrate a source; admit, claim, finish, retry, requeue, settle, ack; reconcile at start; review and prune | called by the adapter's loop, tool threads, the `inbox` command line of another process |
| Chat intake, `extensions/hermes/adapter.py` | lanes (`inflight`, `running`), `_caught_up`, `_dispatches`, snooze, inter-agent budget | poll loop, drain of a channel, classification, dispatch, hand-off tasks, hooks of turns, ack, nudges, shutdown | journal, server posts and read pointer, Hermes' hooks, attention router |
| Mailroom, `mailroom.py`, `email_reader.py`, `email_integration.py` | mailbox epoch mark, wake events, proof that the server honours keys | intake scan, reader pass, outbox pass, tool send | journal, server mailbox, keyed sends, LLM reader |
| Server email outbox, `email_endpoints.py` | `email_delivery` rows with lease and attempt number | keyed send, lookup, lease expiry | mailroom, SMTP |
| OpenClaw inbound poller, `plugin/src/inbound-poller.ts`, `questions.ts` | baselines, admitted memory, acks, durable ingress queue, question lane | control payload, socket events, polls, catch-up, ack loop, delivery on lanes | server posts and pointer, gateway turns |
| OpenClaw reply drafts, `gateway-adapter.ts`, `outbound-adapter.ts`, `draft-registry.ts`, `activity/stream-patcher.ts` | one mutable draft reference per turn, a store of open drafts, stream lanes | open, stream, claim, finish, cancel a draft; posts of tools; stop; recovery | server posts, reaper, durable outbound queue |
| Game sessions and wakes, `plugin/src/widgets/session.ts`, `wake.ts` | per game: latest revision, pending, woken, timers; generation of its session | offer, read, wake, retry, end; rotate, delete, sweep | server widgets, session store and runs of the gateway, inbound lane |
| Automations, `plugin/src/automations`, `clawbits/automations` | desired and observed generation, run-now generation; jobs of the gateway | reconcile, run, report, remove | gateway cron, server, operator |
| Server posts and read pointers, `clawbits_server.py`, `table_read.py`, `table_write.py` | posts, channel members' read pointers | create, stream, finalise, cancel, reap, list after an id, mark read | every client |
| Games, `clawbits/widgets` | widget rows with revision, seats, hidden state | create, act at a revision, resign, push turns | posts, widget wakes |
| Attention router, `lobstertalk/attention` | Redis cooldown and pending keys | evaluate a post, claim, nudge, refund, catch up on expiry | posts, bus, plugins |
| Bus, SSE, presence, `clawbits/realtime` | sockets, presence refcounts | publish, resync | all clients |
| Accounts, permissions, skills, connectors, files, avatars, UIs, CLI, images | rows and files | request at a time | — |

Hard behaviours and what makes each component correct:

* **Journal.** Many writers; death between any two transactions; an operator who
  moves cursors. Correct when the settled prefix holds no unfinished item, the
  cursors stay ordered, attempts are bounded, dispositions are final, and a pruned
  post is not admitted again.
* **Chat intake.** The drain awaits the server while hooks, hand-offs, nudges and
  the operator run. Correct when no post is skipped, each reaches Hermes once (plus
  once per operator retry), the server's read pointer covers finished posts only and
  catches up in the end, and missed commands are not run.
* **Mailroom and email outbox.** Epoch changes between pages; ambiguous sends;
  leases. Correct when no mail is passed unseen, and a key is submitted at most once
  per recorded attempt and never after an unknown outcome.
* **Inbound poller.** Socket, polls and catch-up bring the same posts; each
  admission moves the read pointer on its own. Correct when no addressed post is
  passed by pointer or floor before it is durable, and each starts one turn.
* **Reply drafts.** Dispatch, stream, sends, tools and recovery pass one draft
  around over awaited requests. Correct when a reply is said once, exactly, and
  every draft has somebody who ends it.
* **Games and wakes.** The same move is signalled several times while its session
  rotates. Correct when a move wakes one turn at a time, bounded times, in the
  newest session, and no session is left behind.
* **Automations.** Reports are lost; gateway calls fail; local users interfere.
  Correct when there is one job, reports only claim what the gateway was brought to,
  a click runs once, and an interval keeps firing.
* **Attention.** Cooldown keys expire while a pass runs; best effort. Not modelled.

## Modules

| Module | Models |
|---|---|
| `InboxJournal` | the journal's source and item rows under any caller that keeps its calling rules |
| `InboxJournal_proofs` | its invariants, proved |
| `ChatIntake` | one channel: server posts, drain, dispatch, hooks, ack, nudges, operator, death and restart, over the journal's actions |
| `ChatIntake_proofs` | its safety properties, and that it implements `InboxJournal`, proved |
| `MailIntake` | the mailbox: server with its epochs, intake loop, reader loop, operator, death and restart, over the journal's actions |
| `MailIntake_proofs` | its safety properties, and that it implements `InboxJournal`, proved |
| `EmailServer` | the server's keyed sends: POST, lookup, attempts, leases, SMTP |
| `EmailSends` | abstract: what the plugin says of each version of a mail, and what goes out |
| `EmailOutbox` | the mailroom's outbox and send tool over the journal's email deliveries and `EmailServer`; implements `EmailSends` |
| `EmailOutbox_proofs` | the invariants of `EmailServer`, that the outbox only takes its steps, and that the two implement `EmailSends`, proved |
| `InboundPoller` | one channel of the OpenClaw plugin: socket, polls, catch-up, ack loop, durable queue, lanes, questions |
| `InboundPoller_proofs` | its safety properties, proved |
| `ReplyDrafts` | the draft of a turn, in one chat: dispatch, stream, sends, tools, recovery, the server's guards and reaper, which read a post and write it later |
| `ReplyDrafts_proofs` | its safety properties, proved |
| `GameSessions` | generations of a game's session in the host's store: choice, rotation, deletion by prefix |
| `GameWakes` | the wake loop of one game over `GameSessions`, with cleanup and sweep |
| `GameWakes_proofs` | its safety properties, proved |
| `CronJobs` | what an automation asks of a cron job, whether a job is that, what an update does |
| `Automations` | one automation between operator, server, reconciler and gateway, over `CronJobs`; the server's handlers read its row and write it later |
| `Automations_proofs` | its safety properties, proved |
| `MCInboxJournal`, `MCChatIntake`, `MCMailIntake`, `MCEmailOutbox` | symmetry and instances for TLC; the other modules are instantiated by their `.cfg` alone |

### InboxJournal

`source[s]` and `item[k]` are the rows; `k` names source, lane and position (post id
or UID). Each action is a method, and its guard is the method's own `WHERE` and
early returns. What only the callers guarantee stands apart, in `CreateRule`,
`AdmitRule` (callers read after the cursor) and `AckRule` (callers ack what they
read as settled), which only the module's own `Next` conjoins. `ChatIntake` and
`MailIntake` use the bare actions, so `JournalSpec` in their runs checks that they
keep the rules. `inbox migrate` looks at a source and then writes to it without
looking again: `MigrateHeld` is the write to a source still held, `MigrateLate` the
one to a source that has changed since. Claims of several rows are one transaction,
so `Claim`, `Finish`, `RetryLater`, `Reconcile` and `Prune` take sets. A
`retry_wait` row may come due at any moment: its timestamp is not modelled. `pruned`
is a history variable. `reappeared` is the note of a held source. Deliveries and
reader calls are not in this module: those of email are in `EmailOutbox`.

### ChatIntake

The drain holds the channel's lock over its awaits: `drain.phase` says where it is,
and the other fields are the locals of `_drain_channel` and `_admit_forward`.
Between two phases the server inserts, commits, finalises and removes posts, a
hand-off task or a hook runs, the operator retries or dismisses, or the process
dies. An id is taken at `Insert` and the post is seen from `Commit` on, and commits
come in any order: `overtaken` is history, the posts committed after a larger id,
which a reader that has passed that one never sees. Posts have a kind: `ask`,
`agent`, `control`, `chatter`; the rest of `_skip_reason` falls into `chatter`.

| Action | Code |
|---|---|
| `Insert`, `Commit`, `Finalise`, `EarlierAck` | server posts; `EarlierAck` is a pointer left by an earlier plugin |
| `Start`, `Crash`, `Shutdown`, `Ready` | `_open_journal`, death, `disconnect`, end of the first pass |
| `NewSource`, `AdoptPointer` | `_chat_source`, `_new_chat_source` |
| `DrainBegin` … `AdmitPage` | `_drain_channel`, `_admit_forward` |
| `DispatchNext`, `DispatchDone` | `_next_chat_dispatch` (`Bypass`, `CatchUp`, `LiveOne`) until it returns nothing |
| `AckSettle` … `AckFails` | `_ack_settled`, with request and answer as separate steps |
| `BuildFails`, `Hand`, `Handed` | `_deliver` in a task of its own |
| `TurnStarts`, `TurnEnds`, `OtherStarts`, `OtherEnds` | hooks; Hermes may absorb an event and never call them |
| `Nudge`, `OperatorRetry`, `OperatorDismiss`, `PruneOld` | `_dispatch_attention`, command line, prune |

`Recorded(w)` lets a journal write fail, which the code survives by leaving the rows
in `processing`. Hermes is not in the repository: its hooks are free choices.

Left out, and why it does not weaken what is checked:

* `handle_message` that raises is taken to raise before Hermes has the event; the
  code takes it so too.
* Prompt answers that bypass a busy lane behave as commands do, without the rule
  about missed ones.
* The inter-agent toggle and the guidance notice: only the budget they guard is
  kept.
* Unaddressed posts of agents and nudges about them: as `chatter` of people.
* The legacy cursor file: a held source is part of `InboxJournal`, whose run and
  proofs cover it.
* `due`'s LIMIT: one page of due rows holds them all while MaxPos <= CatchUpBatch +
  1, as in every run.
* A 404 of `mark_read` (the channel is gone).
* Sends, streams, typing, status and the controls other than snooze.

### MailIntake

A mailbox numbers its mail within an epoch (UIDVALIDITY); a source of the journal is
one epoch. Intake and reader are two tasks of one event loop, each a record with its
`phase` (the await it is in) and the locals it carries over it. Where the code
writes several times without an await (`_new_epoch`, the settle at the end of a
pass) every write is a step, so that the process may die between them, and
`IntakeFree`, `ReaderFree` keep the other task out. A request is two steps, the
server's answer and its arrival, with anything in between.

| Action | Code |
|---|---|
| `Deliver`, `Expunge`, `Reset` | the mail server, external |
| `IntakeBegin`, `FirstProbe`, `FirstSource`, `HeldProbe` | `_email_source`, `_first_source`, head of `_scan` |
| `ServePage`, `PageArrives`, `IntakeSettle` | `list_changes` and the rest of `_scan` |
| `MarkEpoch`, `RetireEpoch`, `CreateEpoch` | the three writes of `_new_epoch` |
| `WorkBegin`, `RequeueHeld`, `OperatorReply`, `PassEnds`, `ReaderSettle` | `_work_pass` |
| `ClaimMail`, `ServeMail`, `GetReply`, `GetFails`, `ReadReply` | `_process`, `_read`, with the outcome of policy and model as choices |
| `OperatorLooks`, `OperatorMigrates`, `OperatorRetry`, `OperatorDismiss` | command line, in another process |

`noted` stands for the items whose reason says that no reader was available, which
the first pass with a reader requeues. `start` is history: where a source began.

Left out: the outbox and its deliveries (`EmailOutbox`), the operator's notices,
budgets as numbers (`Again(FALSE)` is a postponement), snooze (a pass that ends
early), the reader's own attempt counters (a failure may go to review at any
attempt, which includes them), legacy cursor files.

### EmailServer, EmailOutbox and EmailSends

A keyed POST is a handler that runs through four transactions and an SMTP session;
`req[h].phase` says where it is. Other handlers of the same key, lookups, the end of
a lease and deaths come between. `keyed` is FALSE for a backend from before keys.

| Action | Code |
|---|---|
| `Post`, `Refuse`, `Create` | `email_send`, first transaction of `_send_keyed` |
| `Claim`, `Leave` | `claim_email_delivery`, with and without an attempt to make |
| `Submit`, `SubmitRaises` | `_submit`, `send_email`, `_classify`: taken or not, answered or cut off, refused for now |
| `Finish`, `Answer` | `finish_email_delivery`, last transaction |
| `PlainSend` | `email_send` without a key |
| `Lapse`, `Refresh` | the end of a lease, and what makes it visible |
| `Lookup` | `email_delivery` |

On the plugin's side a thread (the outbox, or one tool call per mail) is idle or
waits for a POST or a lookup; `flow` is the delivery as it read it.

| Action | Code |
|---|---|
| `AdvanceEmail` | `_advance_email`, for any due delivery |
| `SendTool` | `send_tool_email` |
| `PostAdopted`, `PostRefused`, `PostLost` | `_adopt`, `_post_failed`; `_resolve` of the tool call |
| `Look`, `LookAdopted`, `LookUnsupported`, `LookMissing`, `LookLost` | `_lookup`, with `_poll` and `unrecorded` as `missing` |
| `Intend`, `Resend`, `Dismiss` | email intents of `finish`, `inbox resend`, `inbox dismiss` |
| `Restart`, `Deploy` | death of the plugin, another version of the server |

A mail has versions, one key each: `Resend` opens the next. `EmailSends` says that
each goes out at most once, that accepted means out, and that what is final stays;
it lets an unknown, and even a failed, version go out. The refinement maps a
version's open states to one, and `sent + loose` to `out`.

Abstracted: times (a lease, a backoff or a grace may end at any moment; a tool call
is over before the grace of its row, which is five minutes against two requests of
one); which refusals are final at once (`PostRefused` chooses); the payload, which
is the same for every POST of a key, so 409 does not occur; the count of a row's
attempts above `MAX_ATTEMPTS`, which nothing looks at.

### Reads and writes of the server

The server's database runs at READ COMMITTED, its handlers run in the threads of
several processes (`scripts/start_server.sh:66`), and few of them lock a row. A
handler that reads a row, decides by it and writes it is one step only where a
constraint, a `WHERE` on the write or a lock makes it so. It is so for the claims and
outcomes of an email delivery, which compare in the `WHERE` of their update, and for
the acts on a widget, which lock its row. It is not for `patch_mm_post` and
`reap_stale_streaming_posts` (`reads` in `ReplyDrafts`), nor for
`apply_automation_state_report` and `update_automation_desired` (`known` of a report
and of an edit in `Automations`): there a step may read the row, and another one
writes the columns whose value is not the one read, as SQLAlchemy does, whatever was
written since. The atomic handler is still a step of its own, so that an overtaken
one costs an upset of the bound. A history variable (`crossed`) marks what was
written by a handler that no longer knew it. The properties of the runs say what is
left when such rows are excepted; what is not is under the known disagreements.

One such handler is still a single step. `mark_mm_channel_read_agent` takes the larger
of the pointer it read and the post it is given (`table_write.py:3090`), so an ack that
its plugin gave up on can write after a later one and set the pointer back, until the
next ack. Posts are read again then and none is passed over; but `AckCatchesUp` says
that a pointer gets there, not that it stays when such an ack comes late.

### InboundPoller

`loop` is the poller's loop at one of its awaits; socket, admissions, the ack loop,
the durable queue and the lanes run beside it.

| Action | Code |
|---|---|
| `Post`, `Nap`, `SocketDrops` | server and socket |
| `Receive`, `Admitted`, `AdmissionFails` | `observe`, `admit` |
| `AckRead`, `AckServed`, `AckFails` | `ackRead` and its loop |
| `ListFails`, `ListSkipped`, `ControlArrives` | the channel list, `applyControlPayload`, head of `catchUpChannel` |
| `GapDrained`, `GapFails`, `ReplayAdmitted`, `ReplayFails` | `drainGap`, replay of its newest addressed post |
| `SocketOpens`, `PollServed`, `PollFails`, `PollArrives` | the socket's snapshot, a poll of the newest page |
| `TurnStarts`, `TurnAsks`, `QuestionExpires`, `TurnEnds`, `TurnFails` | `deliver`, `handlePost` on the turn lane |
| `AnswerDelivered`, `AnswerFails` | `deliver` on the question lane |
| `Crash` | death and start |

`excused` is history: posts that the code gives up knowingly, or loses to a failed
catch-up or a death; each place that adds to it is one of those. Left out: posts of
agents, clicks, nudges and several channels. Posts become visible in id order here;
what happens otherwise is under the known disagreements.

### ReplyDrafts

`ref` and `orphan` are the shared reference and its store, `lane` and `flight` the
stream patcher, `sends` and `tools` what else may take the draft. `Fates` are what
may become of a request: answered, lost, there with its answer lost, or given up and
there later.

| Action | Code |
|---|---|
| `TurnStarts`, `TurnOpens`, `TurnOpensBare`, `StopAsked`, `TurnEnds`, `TurnSettles` | `handleInboundMessage` from dispatch to finally-block |
| `Says`, `Rewrites`, `FlushStarts`, `FlushAnswered` | `onAssistantEvent`, `flushOnce` |
| `ReplyMade`, `SendRetried`, `DraftFinished`, `ReplyPosted` | `sendText`, the durable queue |
| `ToolStarts`, `ToolPosted`, `DraftHanded`, `DraftEnded`, `QuestionOver`, `DraftOpened`, `DraftDropped` | `postSurface`, `postQuestion`, `endDraft`, `openDraft` |
| `Sent`, `LateLands`, `ReadForPatch` | `patch_mm_post`, in one step or in two |
| `Reaped`, `ReadForReaper`, `ReapedSlowly` | `reap_stale_streaming_posts`, in one step or in two |
| `Crash` | death; the store keeps the open draft |

Left out: media, step lists, the status pill, the binding of a turn to its run and
the fallback of a refused card.

### GameSessions and GameWakes

`GameSessions` is the host's store of a game's sessions by generation, where a
deletion takes a decimal prefix of keys. `GameWakes` runs over it: `game` is the
state `WidgetWakes` keeps, `lane` and `job` the inbound lane and the job that runs on
it, at one of its awaits.

| Action | Code |
|---|---|
| `Play`, `Snooze`, `Runs`, `Wears` | server and host |
| `Signal`, `BackoffPasses`, `TimerFires` | `offer` and its retry timer |
| `JobBegins`, `ServeView`, `ViewFails`, `ViewArrives` | a wake up to its claim |
| `ChooseSession`, `MoveGoes`, `TurnSettles` | `gameGenerationForMove`, the turn, `scheduleRetry` |
| `DeleteLook`, `CleanDeletes`, `CleanFails`, `CleanAgain` | `deleteGameSessions` of a rotation, an end or a sweep |
| `SweepLook`, `SweepAsk`, `SweepFails` | `sweepGameSessions` |
| `Restart` | death and start |

Left out: the file-based session store and the eviction of `ENDED_MEMORY`.

### CronJobs and Automations

`CronJobs` holds the pure part: what a spec asks of a job, when a job is that, which
anchor an update keeps. `Automations` is one automation: `row` on the server, `jobs`
in the gateway, `pass` the reconciler at one of its awaits.

| Action | Code |
|---|---|
| `Edit`, `SlowEdit`, `SlowEditEnds`, `Delete`, `RunNow` | the operator's endpoints, an edit also in two steps |
| `NudgeArrives`, `NudgeLost`, `PassBegins` | `wakeAutomationsReconciler`, the loop |
| `DesiredServed`, `DesiredFails` | the request for what is desired |
| `Remove`, `Keep`, `Update`, `UpdateFails`, `Add`, `AddFails`, `Run` | `reconcileOnce` on its item |
| `SlowReport`, `PostServed`, `PostFails`, `LateArrives` | the report and `apply_automation_state_report`, in one step or in two |
| `LocalChange`, `Due`, `Fire`, `Restart` | the gateway's cron service, a local user, death |

A slow deletion or run-now needs no step of its own: what it writes nobody else
writes, so it is as if it came late. There is one pass at a time: `reconcile.ts:176`
speaks of a brief overlap of two loops during a reconnect, which is left out, and so
is what it may do (see the known disagreements). So are mirrored jobs of others and
run rows.

## Runs

| Run | Instance | Shows |
|---|---|---|
| `journal` | lanes post and mail, 2 positions, 1 attempt | cursors, finality and pruning under every caller, restart, hold and migration: a cursor may stand before, at and behind an open row, and the lanes differ in settle and restart |
| `chat_loss` | 2 posts (commands, an agent's) committed in any order, pages of 1, room for 1, one restart | nothing skipped but what a larger id overtook, one turn per post, acked only when finished, missed commands are not run, the journal's contract kept: a page is cut by the queue, a draft holds the cursor across pages |
| `chat_nudge` | 1 unaddressed post, nudge lane, foreign turn, snooze, lost acks, retry, restart; fair | the finished prefix is acked in the end |
| `mail_intake` | 2 epochs, 2 mails each, a Message-ID and none, queue of 1, one reset, one expunge, one retry, slow operator | no mail passed unseen, a new epoch read from its start, an artifact is of its own mail and one per Message-ID |
| `mail_epochs` | 2 epochs that change and come back, one mail each, one restart; fair | the intake follows the mailbox in the end, and `MailIntake` implements `InboxJournal` |
| `email_keys` | 1 mail, 2 POSTs at a time, 2 attempts, one restart, one deployment | one submission at a time and one in all, records that do not lie |
| `email_resend` | 1 mail in 2 versions, 1 POST at a time; fair | `EmailOutbox` implements `EmailSends`; every delivery settles |
| `inbound_poller` | 2 posts, pages of 1, gap of 2, 2 attempts, 2 upsets; fair | pointer and floor pass no addressed post but the excused; one turn each; all get one in the end |
| `reply_drafts` | 2 turns, 2 texts, 1 rewrite, 1 reply, 1 tool, 1 upset; fair | a reply is said once and exactly, no draft is lost sight of, the live text is the runner's, no draft shimmers for good |
| `game_wakes` | 2 revisions, 2 generations, 1 retry, blind lists, 1 upset; fair | no move in an old session, bounded wakes, deletions of what is meant, a stalled move retried, sessions go |
| `automations` | 2 generations, 1 prompt, an interval and an instant, 1 click, 2 jobs, 2 upsets; fair | one job, true reports, one run per click, no nudge slept on, an interval that keeps its grid, convergence |
| `draft_stopped` | 1 turn, 2 texts, 1 upset | expected violation, below |

Every bound is a constant with a name. `MaxPos`, `MaxRetries`, `MaxRestarts`,
`MaxOther`, `MaxSnoozes`, `MaxGone`, `MaxResets`, `MaxVersion`, `Requests` and
`MaxDeploys` bound the Hermes side; `MaxPosts`, `MaxTurns`, `MaxTexts`,
`MaxReplies`, `MaxTools`, `MaxRewrites`, `MaxRev`, `MaxGen`, `MaxClicks`, `MaxJobs`
and `MaxUpsets` the OpenClaw side, the last for deaths, snoozes, failures and
requests overtaken on the server together. A crossing of two handlers takes one
upset, of three two. The code's limits are scaled down to where they bite:
`MAX_OPEN` 1 or 2, `PageSize` 1 or 2, `PagesPerPass` 2, `CatchUpBatch` 2, `InterAgentLimit` 1,
`MAX_ATTEMPTS` 1 or 2, `PAGE` 1 or 2, `WORK_BATCH` 1; `Page` 1, `Gap` 2,
`MaxAttempts` 2, `Retries` 1, `CleanRetries` 1, `UNMEASURED` 2. So a page, a gap, a
queue, a backoff and a generation each run full in the runs.

A second restart repeats the first: `Start`, `Crash` and `Restart` reset every
volatile variable. Epochs are symmetric where no liveness is checked: nothing orders
them but `id`. So are POSTs. With one delivery nothing is shared between keys but
the thread of the outbox, so one mail shows what several would, and a third POST at
a time adds no new pair. Two posts suffice for every order of pointer, floor and
admission: each property is about one post and one that passes it. The safety
properties of the poller also held with three posts, pages of two, a gap of three
and one upset (5.7 million states), and those of the automations with two prompts, so
that an edit may leave the interval as it is (4.6 million); these are left out of the
runs for their time. Their theorems are about every number of posts and any prompts.

Deadlock checking is off where a behaviour may come to rest: in the email runs, when
every mail is final and decided, and in those of the drafts, when the turns are over
and nothing is streaming.

Fairness, by module:

* `ChatIntake` (`FairSpec`): the poll loop wakes at every interval and drains, and a
  supervisor restarts the process: weak fairness of the drain's own steps and of
  `Start`. Requests may fail but not for ever: strong fairness of `DrainRead`,
  `AckReaches`, `AckReply`, which a failure can disable again and again;
  `DrainBegin` too, since another holder of the lock disables it. An agent that
  stays snoozed still acks, so snooze needs no fairness.
* `MailIntake` (`FairSpec`): both loops run for ever and a pass that fails is tried
  again: strong fairness of the intake's steps, for its requests and writes may
  fail, and the reader's writes keep it out for a moment, but neither always; weak
  fairness of the two settles, which nothing keeps out.
* `EmailOutbox` (`LiveSpec`): deliveries settle once handlers stop dying and answers
  stop getting lost (`<>[][~Fault]_vars`): before that nothing can be promised, for
  a delivery whose every answer is lost is asked about for ever. Then passes go on
  every few seconds, find the one thread free and sending enabled now and then
  (strong fairness of `AdvanceEmail` with `may`), a retry's time comes (strong
  fairness of `Claim`), and servers, leases and threads proceed (weak fairness).
  Refusals may go on: their number is limited.
* `InboundPoller`: the loop's timer fires and its requests end, admissions, the ack
  loop and the queue proceed (weak fairness); the control payload and a poll are
  asked for every round, so they succeed in the end (strong); a turn ends in the
  end, though it may fail before (strong). Nothing is assumed of people: a question
  may stay unanswered, and `AllHandled` excepts it.
* `ReplyDrafts` (`FairSpec`): requests end, one way or the other, since each has a
  timeout; a turn ends; the server's reaper comes round. Every behaviour of the module is
  finite, so weak fairness of these steps together is enough. The runner need say
  nothing, and the durable queue need not try again.
* `GameWakes`: the lane, timers and the host's runs go on (weak); the catch-up list
  tells of the game again with every control payload (weak fairness of
  `Signal(Rev)`); a view, a deletion or a sweep tried again and again succeeds in
  the end (strong).
* `Automations`: the reconciler's interval fires, its calls and requests end, jobs
  come due and fire (weak). That requests succeed need not be assumed: `MaxUpsets`
  bounds the failures.

Nothing is assumed of Hermes, OpenClaw's runner, people, the operator, the mail
server or the reader's choices.

### What the runs found

`draft_stopped` is a disagreement between code and comments: after one failed PATCH
the stream patcher takes no more text, so a turn the user stops is published without
what was said since, while `streamedText` and its caller promise all of it.

### Known disagreements

These the models can show too, but no run states them, since each is the price of a
run with its own bounds and one property. The first four are one handler of the
server overtaking another. What a docstring or a comment says is stated in the module,
under the name given here, and TLC finds it violated on the instance in brackets; the
properties of the runs except the rows so written, and nothing else.

* `GapReadWhole` [`chat_loss` with asks]: ids are taken at flush and posts are seen at
  commit (`table_write.py:2898`), and nothing orders the two among the authors of a
  channel. Post 2 is committed and read before post 1: no later page has post 1, though
  the docstring of `after_post_id` promises "exactly the gap it missed"
  (`clawbits_server.py:2467-2474`). `NoPostSkipped` and `ReadInv` except such posts
  (`overtaken`), and say that no other is skipped.
* `ReplyStands` [1 turn, 1 text, 1 reply, 1 upset]: a send does not wait for the append
  under way. The server has read the post for the append while it streamed
  (`table_write.py:3682`), publishes it as the reply, and then writes the append's whole
  message over it, although the docstring has the state checked "in the same GET used
  for the mutation". The append writes no status, so the post stays published, with the
  streamed text for its reply. `ReplyExact` excepts such posts (`crossed`); `ReplyOnce`
  and `NoDraftLeaked` do not need to.
* `AppliedOnlyOnceBrought` [2 generations, 2 prompts, no click, 1 job, 1 upset]: a report
  and an edit both read the row (`table_write.py:2422`, `:2335`) before either writes. In
  the shortest trace the edit found the row `requested`, the report writes `applied`, and
  the edit writes the next generation but not `sync_status`, whose value did not change
  for it; the report may as well compare with the old generation and write `applied` over
  the edit. Either way the row of the new generation is `applied` before the gateway saw
  it. The next pass brings the job there all the same: it reads the desired spec and not
  the status, so `Settles` holds. `AppliedBrought` excepts such generations (`crossed`).
* `NeverRearmed` [1 generation, 2 clicks, 1 job, 2 upsets]: two reports read the row, and
  the one with the smaller `run_observed_generation` writes last; the maximum was taken of
  the row as read. The mark goes back, against the comment at `table_write.py:2446`, and
  the next pass runs the job again for a click that was served. `RunPerClick` counts such
  a run as one nobody could record (`unreported`).
* A restart makes a waiting live post of another agent `backlog`
  (`inbox_state.py:818`), and the catch-up turn takes it, against the docstring of
  `_classify_post` (`adapter.py:1558`).
* Retiring an epoch sends waiting mail to review (`mailroom.py:99`), but not the
  mail the reader holds. When that one fails (`mailroom.py:495`) it waits for a
  retry in a source nobody reads, and `inbox retry` only takes mail in review.
* `inbox migrate` writes after it looked (`inbox_state.py:951`). If the intake
  retires the source in between, the source is live again beside its successor. The
  invariants of `mail_intake` hold nevertheless, with the slow operator in the
  model. `JournalSpec` would not: a page in flight may carry positions the late
  write has passed. `mail_epochs` therefore has look and write in one step
  (`SlowMigrate` FALSE).
* A first POST of a mail may be accepted, its answer lost and its repetition refused
  (the operator's address or a right is gone by then): the delivery is `failed`,
  though the mail is out.
* A rollback of the server to a version without keys, between a POST and its
  repetition, sends twice: the proof is withdrawn only by the answer.
* A late outcome is recorded over the `unknown` of a lapsed lease, as
  `finish_email_delivery` says; if it is `retry_wait`, the key is tried again, which
  `EmailDelivery`'s docstring excludes. Nothing was sent then, so it is harmless.
* A post that commits after a larger id is not only lost to the Hermes plugin. The
  floor of the OpenClaw poller passes it too, unless the socket brings it before the
  floor is raised, and `InboundPoller` has posts in id order. Its properties say that
  nothing else is lost.
* An admission that failed leaves its post to the next poll, but a later post that is
  admitted moves the read pointer past it (`inbound-poller.ts:1150`). A death before
  that poll loses it, since the catch-up starts at the pointer; so does a post that is
  out of the newest page by then. `NoPostLost` excepts the former and `AllHandled`
  both.
* A catch-up raises the floor before it reads the gap (`inbound-poller.ts:1403`); when
  the read fails, or the pages run out, the posts of the gap get no turn; only a
  log line says so.
* `cron.remove` fails and the automation is reported `removed` all the same
  (`reconcile.ts:318-332`), so the server forgets it and the job keeps firing until a
  person removes it. `NothingLeft` excepts these jobs (`stranded`), and only these.
* Two loops of one account may overlap for a moment during a reconnect
  (`reconcile.ts:176-178`), and a pass does not look at its abort signal between items.
  Both may list the jobs before either adds the automation's, which then has two.
  `OneJob` is about one loop.
* `widgets/session.ts:930` deletes by a prefix of keys. Where it would reach more than
  is meant, the generation is left out and stays until the game is over, or until a
  sweep finds it.

## Proofs

`InboxJournal_proofs` proves, for every set of sources, every subset of the lanes,
every `MaxPos` and `MAX_ATTEMPTS > 0`, from `JournalAssumption` alone: `Inductive`,
`TypeCorrect`, `SettledPrefix`, `CursorsOrdered`, `AttemptsLimited`,
`NoReadmission`, `FinishedStays`.

`AttemptsLimited` is stated by no run: the theorem is stronger than one could be.
The inductive invariant is the conjunction of the named ones and two more facts.
`PrunedStayOut` is not inductive: `Admit` only looks at the cursor, and a held
source may be restarted below a pruned post. `PrunedBelowCursor` (a pruned post lies
at or below `enumerated`) excludes the first; for the second, `UnreadIsEmpty` (a
source held since its creation, with no row, has pruned nothing) makes
`RefuseRewind` refuse. `CursorOrder` and `SettledBelowOpen` need each other:
`MigrateHeld` sets `settled` below the first open row of the new cursor, and may do
so under an `acked` only if nothing was read yet.

The argument is split by what a step touches, not by action: `ItemsMove` (rows
change, a final row only to absent, an open row not reopened below `settled`),
`RowsMove`, `CursorsFit` and `MoveSafe` say when a change of rows or cursors keeps
the invariant, and each action is shown to be such a change.

`MigrateLate` is harmless because it only moves forward.

`ChatIntake_proofs` proves, from `IntakeAssumption` and for every number of posts,
page size, batch, limit of the queue and bound, `JournalUsed` (the refinement of
`InboxJournal`), `TurnsHanded`, `CommandsMissed`, `PostsKept` and
`ReadsMeanFinished`. Refinement and invariant need each other: that a page is read
after the cursor, and that what is acked was settled, rests on what the drain holds
between its awaits, and that nothing settled is open, or pruned above the cursor,
rests on the journal. So `IInv` carries both, `JournalStep` shows that a step from
it is a step of the journal, and the journal's own proof then keeps its half. None
of the properties is inductive. `NoPostSkipped` needs `Reading` (the drain's copy of
the cursor is the cursor, it reads from there unless an unpublished post holds it,
and its page shows all there was up to its last post, but what was committed late),
`InOrder` (nothing knows a post that is not there, so none is inserted under a cursor)
and `Met` (cursor, read pointer and page stand at committed posts, so a post that is
inserted already and committed below them is `overtaken`). `ReadMeansFinished` follows
from `Acking` (pointer and acks under way are at or below `settled`), the journal's
`SettledBelowOpen` and `NoneSkipped`. `TurnOnce` needs `Owning` (a dispatch has its
rows alone, and they are in processing, so no other step makes them due), `Unhanded`
(a hand-off that fails or is cancelled before Hermes has the event has used no turn)
and `Counting`. That one source's turns are no more than its posts, in `TypeOK`,
needs `Rows`: the post lane never takes what the attention lane does, so started
dispatches are of different posts. Commits come in any order; what the properties
except is only what `overtaken` names. The proof had `IntakeAssumption` say what it took for granted of the lanes
and of the journal's bounds.

`MailIntake_proofs` proves, from `MailAssumption` and for every number of epochs,
UIDs and Message-IDs, every page, batch and queue size and every bound, `MailKept`,
`EpochsFromStart`, `RepliesOnce`, `ArtifactsKept` and `JournalUsed`. Both loops act
on what they read before an await, so `IInv` says what that still means. `Scanning`:
a page that has not arrived fits the queue as it is now, and every mail above the
cursor of now and up to the page's own end is in the page or expunged, although the
mailbox has grown since, rows were finished and an operator may have moved the
cursor; with `Sourced` (no cursor is ahead of its mailbox, unless the source started
there) it makes `NoMailSkipped` inductive. `Reading`: the mail a reader holds is the
mail of its row, and while the model reads it nobody else has read one under its id,
since only the reader processes. `Rows`: every row has its mail, and only a final
row carries an id. `Marked`: before the mark there is at most one source, none is
retired, and a first source is only looked for while there is none; so a source made
without the mark is the first, and one made with it starts at 0. `PlacedOnce`: of
all sources at most one ever started elsewhere, is held, or has a command waiting to
move it. `MailAssumption` says that there are finitely many epochs, since the newest
live source is found by its `id`.

`JournalUsed` has the hypothesis `~SlowMigrate`, and is false without it. An `inbox
migrate` that looked at a held source and writes only after the epoch went away and
came back (`MigrateLate`) moves the cursor of an active source while a page asked
for from the old cursor is under way; its rows then arrive below the cursor, which
`AdmitRule` excludes. TLC finds that trace with two epoch changes. For mail it does
no harm: nothing reads `settled` of a mailbox, and the other theorems hold with
`SlowMigrate` as well.

`EmailOutbox_proofs` first proves of the server alone, for every set of mails and
requests, `MailGoesOutOnce`, `OneHandlerSubmits`, `TheRecordIsTrue` and
`AttemptsAreLimited`. None is inductive: that a claim starts no second submission
needs `BusyOwnsAttempt` (a handler that submits or has submitted finds its row
attempting, or unknown after the lease, under its own attempt number, neither of
which can be claimed), and types need `Recorded` (past `Create` the row is there).
`MildStep` covers all steps but claim, submission and its record.
`AttemptsAreLimited` needs the limit to be positive, which `OutboxAssumption` says:
a claim looks at the count before it adds one.

Then it proves from `OutboxAssumption` that every step of plugin and server together
is a step of the server or leaves it alone (`StepIsServer`), which carries the
theorems over: `OutboxSendsOnce`, `OutboxOneAttempt`, `OutboxRecordIsTrue`, and with
them `OutboxTypes` and `OutboxKeys`, for every number of mails, versions, requests,
restarts and deployments.

`OutboxImplementsSends` is the refinement of `EmailSends`: the initial state maps to
the initial state, and each step to one of a version opened, gone out, settled or
decided, or to a stutter. Its invariant `RInv` is in two halves. `OwnInv` is what
the plugin keeps by itself: outbox and tool never work on one version, and a version
is opened only after the one before was decided. `RestInv` is what holds of plugin
and server: a thread waits for its own request (`RequestsOwned`), an answer under
way is true of what SMTP took (`AnswersTrue`), a server with keys sends nothing
without one (`Honours`), and on a server without keys a version has one POST under
way and is not asked for again until that one is known to have sent nothing
(`PlainOnce`). The theorem has the hypothesis `MaxDeploys = 0`: a server rolled back
to a version without keys between a POST and its repetition does send twice (see the
known disagreements), so without it the theorem is false.

`InboundPoller_proofs` proves, from the module's assumptions, `FloorSafe`,
`NothingLost` and `OneTurn` for every number of posts, every page, gap and limit.
`NoPostLost` is about a state between two awaits, and no single step keeps it.
`CatchUp` says what the boot catch-up may rely on while it waits: until it is over
nobody else moves pointer or floor, so what they cover was covered by the process
before, and what it has not replayed yet lies above its trigger. `AdmittedKnown`
says that the memory of admitted posts never runs ahead of the durable queue, and
`InSight` that no list, pointer or admission under way is ahead of the channel.
`OneTurn` rests on `OneOpen`: the two events a post may have (as it came, and moved
off the question lane) are never both open, since the second is queued only when the
first is settled.

`ReplyDrafts_proofs` proves, from `DraftBounds` and for every number of turns,
texts, replies, tool posts, rewrites and upsets, the three invariants of the run
`reply_drafts`: `RepliesSaidOnce`, `DraftsAreHeld` and `DraftsShowTheText`.
Dispatch, flush chain, sends and tools each keep what they took from the one shared
reference over their awaits, and `IInv` says what they may still rely on. `ChatInv`:
no two posts have one key, a keyed post that no overtaken handler has written
(`crossed`) is its reply and nothing else, nothing that streams was written by one,
and a PATCH given up by the plugin is about a post that is marked as hurt or no
longer streams, so it may land at any time. It also says what an overtaken handler
may still write: it read a draft, whose body is the runner's text, so what it leaves
is text or the one reply it carries. `SlowInv`: the flush under way, when the server
has read its post, finds the draft as it was read or gone from the turn, so
that the live text does not suffer. `SendsInv` and `ToolsInv`: whoever took a draft has a
post that is no longer the turn's own, and a tool that took one, or waits on a
question, has the turn without one until it is over, which also takes that only one
tool is at work in a turn. `FirmInv`: a draft that shimmers has somebody other than
a flush to end it, since a flush only writes to it. `FlightInv` and `OrderInv`: the
one PATCH of the chain is of this turn's lane or of a lane before it, and then not
about the turn's draft; what it carries starts where the confirmed text ends, or is
the whole text, unless a rewrite came in between (`raced`). `ShownInv` puts the two
together: what the draft shows ends at what is confirmed, so the next PATCH
continues it. The part that is easy to miss is a PATCH to a draft that a send took
away while its answer was under way, when a tool has opened a new draft since: the
answer still counts for the lane, and the new draft is empty then.

`GameWakes_proofs` proves `WakesCounted`, `NewestIsPlayed` and `DeletionsMeant` for
every number of revisions, generations and retries. `LaneInv` ties the pending mark
to the one wake on the lane, `Claimed` counts the wakes of the claimed revision by
its tries and says that no later one was woken, and `SeenInv` that from its list on
a wake knows the newest generation it saw: it is what makes `NewestPlayed` survive
the rotation between list and move. `EndsOver` says that only a game that is over is
cleaned up. The proof corrected the model. An earlier form of `DeletesTheMeant`
promised that a sweep never takes the session in play; it held on the run's instance
and fails with a third generation, where a sweep that waits on the lane deletes by
the prefix of generation 0 while later moves have opened new ones. And `Reach` is
the decimal prefix of the key, so that generation 1 reaches 12.

`Automations_proofs` proves, from `AutomationsAssumption` and for every set of
intervals, instants and prompts and every bound, each safety property of the run
`automations`: `OneJobEver`, `ReportsAreTrue`, `ClickRunsOnce`, `NudgesAreRead`,
`CadenceIsKept`. None but the last is inductive, since each is about what the
reconciler still does with what it read before an await. `JobsListed` says that the
jobs that carry the sentinel are among those the pass listed, since only the pass
gives it: so a pass that found none may add one, and one that removes leaves none.
`RemovedClean` says that while a removal is reported, late reports included, no pass
that would bring the job back is under way; it rests on the server never making a
row live again, which takes `ReadsBehind`: what a handler read is behind the row as
it is, and an automation that it found being removed is not live now. `ReportsTrue` keeps every report under way at or below the row's
generation, so that a report that says applied tells of what was brought; what an
overtaken report or edit leaves applied is `crossed`, which `AppliedBrought` excepts.
`NudgesHeard` and `RunsCounted` follow the dirty flag and each click through a pass;
a report that read the row before another one wrote it still tells of its own click
(`Telling`), and the clicks it may take back are counted in `unreported`.
`OwnShrinks`, `PendingKept`,
`PendingMade`, `RowMoves` and `ItemKept` say what a step may do to jobs, reports,
row and item; the conjuncts are proved from these rather than action by action.

The run `journal` has two of the three lanes and two positions; the theorems cover
every subset of the lanes and every number of positions. Only model-checked:
liveness (`AckCatchesUp`, `EpochFollowed`, `DeliverySettles`, `AllHandled`,
`DraftsSettle`, `StallRetried`, `SessionsGo`, `Settles`), which TLAPS does not
prove.

## Plan

What is left to model, in order of worth:

1. A turn's run binding (`activity/turn-registry.ts`) over `ReplyDrafts`: three
   rules that guess the turn of a run that does not name one.
2. The timelines the web and mobile clients keep from snapshots and events.
3. The Hermes variants of `GameWakes` and `Automations` (`widget_wakes.py`,
   `automations.py`), which share the idea and not the code.
4. The cooldown of the attention router.
5. An ack that its plugin gave up on and that writes late, in `ChatIntake` and
   `InboundPoller`, as `known` does for reports.
6. Two loops of one account in `Automations`.

Every safety property a passing run checks has a theorem. What is left to prove is
what the modules above would bring, and a refinement of what a reader of the chat
sees, abstract over `ReplyDrafts`.

## Not modelled

Most of the repository's lines are user interfaces (`frontend`, `apps`) and
request-at-a-time CRUD over one database (accounts, permissions, skills, connectors,
files, posts' REST surface, the command line): each handler reads
a few rows and writes them, and a model of it would restate it. That is not to say
that they are serializable: where a plugin's protocol leans on a handler that reads
and writes without a lock, the two are separate steps of the model (see Modules). Email transport, push, link
previews and avatars are external I/O; images and build keep no state. The rules of
board games are pure and better tested. The attention router is a handful of Redis
commands around a call to a language model, best effort by its own documentation: it
may drop a nudge, and what the plugins do with one is in `ChatIntake`. The bus loses
events by design; what its readers do about it is in `InboundPoller` and
`GameWakes`.
