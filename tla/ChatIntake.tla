----------------------------- MODULE ChatIntake -----------------------------
(***************************************************************************)
(* Chat intake of the Hermes adapter (extensions/hermes/adapter.py) for    *)
(* one channel, over the inbox journal: the drain that reads the server's  *)
(* posts forward, admits them, hands dispatches to Hermes and acks the     *)
(* settled prefix; the hooks with which Hermes reports turns; the nudges   *)
(* of the attention router; the operator's command line; process death at  *)
(* any step.                                                               *)
(*                                                                         *)
(* The drain holds the channel lock across its awaits, so it is a sequence *)
(* of steps (drain.phase) between which the server, Hermes' hooks, the     *)
(* hand-off tasks and the operator run.  Posts come in four kinds: "ask"   *)
(* (a person mentions the agent), "agent" (another agent does), "control"  *)
(* (an operator's gateway command) and "chatter" (a person's, not          *)
(* addressed).                                                             *)
(***************************************************************************)
EXTENDS Integers, FiniteSets, FiniteSetsExt

CONSTANTS
  ch,                \* the channel's source
  Lanes,             \* {"post"}, or {"post", "attention"} with nudges
  MaxPos,            \* bound: posts the channel ever gets
  MAX_ATTEMPTS,
  MAX_OPEN,          \* open items at which admission stops
  Kinds,             \* the kinds of post the run creates
  PageSize,          \* posts per forward read
  PagesPerPass,      \* reads per drain
  CatchUpBatch,      \* historical items answered by one turn
  InterAgentLimit,   \* consecutive turns triggered by agents
  MaxRetries,        \* bound: operator retries per post
  MaxRestarts,       \* bound: deaths of the process; it always starts again
  MaxOther,          \* bound: turns at a time that no dispatch asked for
  MaxSnoozes         \* bound: changes of the snooze switch

ASSUME IntakeAssumption ==
  /\ "post" \in Lanes /\ Lanes \subseteq {"post", "attention"}
  /\ MaxPos \in Nat /\ MAX_ATTEMPTS \in Nat \ {0}
  /\ {MAX_OPEN, PageSize, PagesPerPass, CatchUpBatch} \subseteq Nat \ {0}
  /\ {InterAgentLimit, MaxRetries, MaxRestarts, MaxOther, MaxSnoozes} \subseteq Nat
  /\ Kinds \subseteq {"ask", "agent", "control", "chatter"}

VARIABLES
  source, item, pruned,  \* the journal
  reason,    \* why an item was admitted: it decides how it is dispatched
  post,      \* the server's rows of the channel, in id order
  readPtr,   \* the server's read pointer of this agent, NoPtr before the first
  overtaken, \* history: posts that were committed after one with a larger id
  up,        \* "down", "starting" (before the first full pass ends) or "up"
  caughtUp,  \* a drain has read to the end since the process started
  snoozed,
  agentTurns,  \* consecutive turns other agents triggered
  drain,     \* the lock holder: its step and its local variables
  disp,      \* dispatches Hermes may still report on
  inflight,  \* the items of the lane's automatic dispatch, {} when free
  running,   \* hooked turns running in this chat
  start,     \* history: where the source started reading
  turns,     \* history: times each item was handed to Hermes since it has its row
  retried,   \* history: times the operator put it back
  restarts,  \* history: deaths of the process, for the bound
  snoozes    \* history: changes of the switch, for the bound

journal  == <<source, item, pruned>>
server   == <<post, readPtr, overtaken>>
lane     == <<disp, inflight, running>>
history  == <<start, turns, retried, restarts, snoozes>>
volatile == <<up, caughtUp, snoozed, agentTurns, drain>>
vars == <<journal, reason, server, volatile, lane, history>>

J == INSTANCE InboxJournal WITH Sources <- {ch}

Posts == 1 .. MaxPos
NoPtr == -1
PostKey(p) == [src |-> ch, lane |-> "post", pos |-> p]
NudgeKey(p) == [src |-> ch, lane |-> "attention", pos |-> p]

NoPost == [kind |-> "chatter", status |-> "none"]
Visible(p) == post[p].status \in {"streaming", "published"}
Committed(p) == post[p].status \notin {"none", "inserting"}
Newest == Max({0} \cup {p \in Posts : Visible(p)})

Idle == [phase |-> "idle", after |-> 0, cursor |-> 0, held |-> FALSE, pages |-> 0,
         seen |-> {}, streaming |-> {}]
Historical == {"backlog", "snoozed"}
Cursor == source[ch].enumerated

TypeOK ==
  /\ J!TypeOK
  /\ reason \in [J!Keys -> {"none", "live", "attention"} \cup Historical]
  /\ post \in [Posts -> [kind : Kinds \cup {"chatter"},
                         status : {"none", "inserting", "streaming", "published", "removed"}]]
  /\ readPtr \in {NoPtr} \cup J!Pos /\ overtaken \subseteq Posts
  /\ up \in {"down", "starting", "up"}
  /\ {caughtUp, snoozed} \subseteq BOOLEAN
  /\ agentTurns \in 0 .. InterAgentLimit
  /\ drain.phase \in {"idle", "adopt", "fresh", "read", "page", "dispatch", "ack", "acking", "acked"}
  /\ drain.seen \subseteq Posts /\ drain.streaming \subseteq drain.seen
  /\ \A d \in disp : /\ d.items \subseteq J!Keys /\ d.items # {}
                     /\ d.stage \in {"building", "handing", "delivered"}
  /\ inflight \subseteq J!Keys
  /\ running \in 0 .. MaxPos + MaxOther

Init ==
  /\ J!Init
  /\ reason = [k \in J!Keys |-> "none"]
  /\ post = [p \in Posts |-> NoPost]
  /\ readPtr = NoPtr /\ overtaken = {}
  /\ up = "down" /\ caughtUp = FALSE /\ snoozed = FALSE /\ agentTurns = 0
  /\ drain = Idle
  /\ disp = {} /\ inflight = {} /\ running = 0
  /\ start = 0 /\ restarts = 0 /\ snoozes = 0
  /\ turns = [k \in J!Keys |-> 0] /\ retried = [k \in J!Keys |-> 0]

-----------------------------------------------------------------------------
(* The server: rows get their id at the insert and are seen at the commit, *)
(* in whatever order the transactions of their authors end.                *)

Insert ==
  /\ \E p \in Posts, kind \in Kinds :
       /\ post[p].status = "none"
       /\ \A q \in 1 .. p - 1 : post[q].status # "none"
       /\ post' = [post EXCEPT ![p] = [kind |-> kind, status |-> "inserting"]]
  /\ UNCHANGED <<journal, reason, readPtr, overtaken, volatile, lane, history>>

\* Only agents stream: a person's post is published at once.
Commit ==
  /\ \E p \in Posts, status \in {"streaming", "published"} :
       /\ post[p].status = "inserting"
       /\ status = "streaming" => post[p].kind = "agent"
       /\ post' = [post EXCEPT ![p].status = status]
       /\ overtaken' = IF \E q \in Posts : p < q /\ Committed(q) THEN overtaken \cup {p}
                                                                 ELSE overtaken
  /\ UNCHANGED <<journal, reason, readPtr, volatile, lane, history>>

\* finalise, or cancel and the reaper, of a streaming post; deletion of any.
Finalise ==
  /\ \E p \in Posts, status \in {"published", "removed"} :
       /\ Visible(p)
       /\ status = "published" => post[p].status = "streaming"
       /\ post' = [post EXCEPT ![p].status = status]
  /\ UNCHANGED <<journal, reason, readPtr, overtaken, volatile, lane, history>>

\* The agent had read the channel before this journal existed.
EarlierAck ==
  /\ source[ch].state = "none" /\ readPtr = NoPtr
  /\ \E p \in Posts : Visible(p) /\ readPtr' = p
  /\ UNCHANGED <<journal, reason, post, overtaken, volatile, lane, history>>

-----------------------------------------------------------------------------
(* Process life *)

ResetVolatile ==
  /\ caughtUp' = FALSE /\ snoozed' = FALSE /\ agentTurns' = 0
  /\ drain' = Idle
  /\ disp' = {} /\ inflight' = {} /\ running' = 0

Demote(K) == reason' = [k \in J!Keys |->
               IF k \in K /\ reason[k] = "live" THEN "backlog" ELSE reason[k]]

\* _open_journal: what the last process left in processing is accounted for.
Start ==
  /\ up = "down"
  /\ up' = "starting"
  /\ J!Reconcile({})
  /\ Demote({k \in J!Keys : item'[k].state \in J!Waiting})
  /\ ResetVolatile
  /\ UNCHANGED <<server, history>>

Dies ==
  /\ up # "down" /\ restarts < MaxRestarts
  /\ up' = "down" /\ restarts' = restarts + 1
  /\ ResetVolatile

Crash ==
  /\ Dies
  /\ UNCHANGED <<journal, reason, server, start, turns, retried, snoozes>>

\* disconnect: a hand-off that has not reached Hermes gives its claim back, a
\* cancelled turn stays in processing.
Shutdown ==
  /\ Dies
  /\ \E d \in disp : d.stage = "building"
  /\ J!RetryLater(UNION {d.items : d \in {e \in disp : e.stage = "building"}}, FALSE)
  /\ UNCHANGED <<reason, server, start, turns, retried, snoozes>>

\* The first pass ended without this channel: not listed yet, or its read
\* failed and a woken pass of other channels came after it.
Ready ==
  /\ up = "starting" /\ drain.phase = "idle"
  /\ up' = "up"
  /\ UNCHANGED <<journal, reason, server, caughtUp, snoozed, agentTurns, drain, lane, history>>

\* The controls of a full pass.
Snooze ==
  /\ up = "up" /\ snoozes < MaxSnoozes
  /\ snoozed' = ~snoozed /\ snoozes' = snoozes + 1
  /\ UNCHANGED <<journal, reason, server, up, caughtUp, agentTurns, drain, lane,
                 start, turns, retried, restarts>>

-----------------------------------------------------------------------------
(* The drain *)

Locked(phase) == up # "down" /\ drain.phase = phase

\* _new_chat_source: the server's pointer, else recent posts of a channel
\* found later, else nothing but what comes from now on.
NewSource ==
  /\ Locked("idle") /\ source[ch].state = "none"
  /\ LET recent == Min({Newest + 1} \cup {p \in Posts : Visible(p)}) - 1
         from == IF readPtr # NoPtr THEN readPtr
                 ELSE IF up = "up" THEN recent ELSE Newest
     IN  /\ J!CreateSource(ch, from, "active")
         /\ start' = from
         /\ caughtUp' = (caughtUp \/ (readPtr = NoPtr /\ up = "starting"))
  /\ drain' = IF readPtr = NoPtr THEN drain
                ELSE [Idle EXCEPT !.phase = "adopt", !.cursor = readPtr]
  /\ UNCHANGED <<reason, server, up, snoozed, agentTurns, lane, turns, retried, restarts, snoozes>>

\* An adopted pointer is acked already; its row says so in a second write.
AdoptPointer ==
  /\ Locked("adopt")
  /\ J!SetAcked(ch, drain.cursor)
  /\ drain' = Idle
  /\ UNCHANGED <<reason, server, up, caughtUp, snoozed, agentTurns, lane, history>>

\* A full pass snapshots the channel's newest post before it gets the lock; a
\* woken pass reads at once.
DrainBegin ==
  /\ Locked("idle") /\ source[ch].state = "active"
  /\ \/ drain' = [Idle EXCEPT !.phase = "fresh", !.after = Newest]
     \/ drain' = [Idle EXCEPT !.phase = "read", !.after = Cursor, !.cursor = Cursor]
  /\ UNCHANGED <<journal, reason, server, up, caughtUp, snoozed, agentTurns, lane, history>>

\* The first full pass ends with a drained channel: the adapter is ready.
DrainFresh ==
  /\ Locked("fresh")
  /\ IF drain.after <= Cursor
       THEN /\ caughtUp' = TRUE
            /\ drain' = [Idle EXCEPT !.phase = "dispatch"]
       ELSE /\ drain' = [Idle EXCEPT !.phase = "read", !.after = Cursor, !.cursor = Cursor]
            /\ UNCHANGED caughtUp
  /\ UNCHANGED <<journal, reason, server, up, snoozed, agentTurns, lane, history>>

\* One page as the server answered it.
DrainRead ==
  /\ Locked("read")
  /\ LET newer == {p \in Posts : Visible(p) /\ p > drain.after}
         seen == {p \in newer : Cardinality({q \in newer : q <= p}) <= PageSize}
     IN  drain' = [drain EXCEPT !.phase = "page", !.seen = seen, !.pages = @ + 1,
                                !.streaming = {p \in seen : post[p].status = "streaming"}]
  /\ UNCHANGED <<journal, reason, server, up, caughtUp, snoozed, agentTurns, lane, history>>

\* A failed read ends the drain.
DrainFails ==
  /\ Locked("read")
  /\ drain' = Idle
  /\ UNCHANGED <<journal, reason, server, up, caughtUp, snoozed, agentTurns, lane, history>>

\* _classify_post
ReasonOf(p) ==
  IF ~caughtUp THEN "backlog"
  ELSE IF snoozed /\ post[p].kind # "control" THEN "snoozed" ELSE "live"
Skipped(p) ==
  \/ post[p].kind = "chatter"
  \/ post[p].kind = "agent" /\ ReasonOf(p) # "live"

\* Mutation: the cursor follows the page even when the queue is full.
Passed_Full(taken, held) ==
  IF drain.held THEN {} ELSE {p \in drain.seen : \A q \in held : p < q}

\* Mutation: an unpublished post is left out and does not hold the cursor.
Passed_Draft(taken, held) == taken

\* The positions of the page that count as read: up to the first unpublished
\* post, if none was met before.
Passed(taken, held) ==
  IF drain.held THEN {} ELSE {p \in taken : \A q \in held : p < q}

\* _admit_forward, one page: rows and cursor in one transaction.
AdmitPage ==
  /\ Locked("page")
  /\ LET fresh == {p \in drain.seen : item[PostKey(p)].state = "absent"}
         held  == fresh \cap drain.streaming
         rows  == fresh \ held
         pending == {p \in rows : ~Skipped(p)}
         room  == J!Larger(MAX_OPEN - Cardinality(J!InState(J!Keys, J!Open)), 0)
         taken == {p \in drain.seen : Cardinality({q \in pending : q <= p}) <= room}
         classified == {p \in rows : Cardinality({q \in pending : q < p}) <= room}
         cursor == Max({drain.cursor} \cup Passed(taken, held \cap taken))
         full  == taken # drain.seen
         short == Cardinality(drain.seen) < PageSize
         again == ~full /\ ~short /\ drain.pages < PagesPerPass
     IN  /\ J!Admit(ch, [k \in {PostKey(p) : p \in rows \cap taken} |->
                           IF k.pos \in pending THEN "pending" ELSE "ignored"], cursor)
         /\ reason' = [k \in J!Keys |->
              IF k \in {PostKey(p) : p \in pending \cap taken} THEN ReasonOf(k.pos)
                                                                ELSE reason[k]]
         /\ agentTurns' =
              IF \E p \in classified : post[p].kind = "ask" /\ caughtUp
                THEN 0 ELSE agentTurns
         /\ caughtUp' = (caughtUp \/ (~full /\ short))
         /\ drain' = IF again
              THEN [drain EXCEPT !.phase = "read", !.after = Max(drain.seen), !.cursor = cursor,
                                 !.held = @ \/ held # {}, !.seen = {}, !.streaming = {}]
              ELSE [Idle EXCEPT !.phase = "dispatch"]
  /\ UNCHANGED <<server, up, snoozed, lane, history>>

-----------------------------------------------------------------------------
(* Dispatch *)

Busy == inflight # {} \/ running > 0
First(K) == {k \in K : \A j \in K : k.pos <= j.pos}

\* _hand_off: claim under the lock, deliver from a task of its own.
HandOff(K, automatic, inline) ==
  /\ J!Claim(K)
  /\ disp' = disp \cup {[items |-> K, automatic |-> automatic, inline |-> inline,
                         stage |-> "building", started |-> FALSE]}
  /\ inflight' = IF automatic THEN K ELSE inflight
  /\ UNCHANGED <<reason, running, drain>>

Commands(K) == {k \in K : post[k.pos].kind = "control"}

\* A busy lane or a snoozed agent only takes the operator's live commands.
Bypass(due) ==
  /\ Busy \/ snoozed
  /\ LET controls == {k \in Commands(due) : reason[k] = "live"}
     IN  controls # {} /\ HandOff(First(controls), ~Busy, TRUE)
  /\ UNCHANGED agentTurns

\* Mutation: missed commands are answered like the other missed posts.
Missed_Runs(K) == {}

\* The commands of a historical run, ignored before it is answered.
Missed(K) == Commands(K)

\* Missed posts are answered together (a page of due rows holds them all as
\* long as MaxPos <= CatchUpBatch + 1); missed commands are never run.
CatchUp(due) ==
  /\ ~Busy /\ ~snoozed
  /\ \E head \in First(due) : reason[head] \in Historical
  /\ LET run == {k \in due : \A j \in due : j.pos <= k.pos => reason[j] \in Historical}
         commands == Missed(run)
         batch == {k \in run : Cardinality({j \in run : j.pos <= k.pos}) <= CatchUpBatch}
     IN  IF commands # {}
           THEN J!Finish(commands, "ignored") /\ UNCHANGED <<reason, lane, drain>>
           ELSE HandOff(batch, TRUE, FALSE)
  /\ UNCHANGED agentTurns

\* _inter_agent_blocked: other agents have used up their turns.
Spent == agentTurns >= InterAgentLimit

\* One live post or nudge; an agent's post needs a turn left in the budget.
LiveOne(due) ==
  /\ ~Busy /\ ~snoozed
  /\ \E head \in First(due) :
       LET kind == post[head.pos].kind IN
       /\ reason[head] \notin Historical
       /\ IF head.lane = "post" /\ kind = "agent" /\ Spent
            THEN /\ J!Finish({head}, "ignored")
                 /\ UNCHANGED <<reason, lane, drain, agentTurns>>
            ELSE /\ HandOff({head}, TRUE, head.lane = "post" /\ kind = "control")
                 /\ agentTurns' = IF head.lane = "post" /\ kind = "agent"
                                    THEN agentTurns + 1 ELSE agentTurns

\* Retries come due in any order.
DispatchNext ==
  /\ Locked("dispatch")
  /\ \E late \in SUBSET J!InState(J!Keys, {"retry_wait"}) :
       LET due == J!InState(J!Keys, {"pending"}) \cup late
       IN  due # {} /\ (Bypass(due) \/ CatchUp(due) \/ LiveOne(due))
  /\ UNCHANGED <<server, up, caughtUp, snoozed, history>>

\* Nothing the lane allows is due.
DispatchDone ==
  /\ Locked("dispatch")
  /\ LET due == J!InState(J!Keys, {"pending"}) IN
     IF Busy \/ snoozed
       THEN \A k \in Commands(due) : reason[k] # "live"
       ELSE due = {}
  /\ drain' = [Idle EXCEPT !.phase = "ack"]
  /\ UNCHANGED <<journal, reason, server, up, caughtUp, snoozed, agentTurns, lane, history>>

-----------------------------------------------------------------------------
(* _ack_settled *)

\* Mutation: what was read is acked, finished or not.
AckTarget_Cursor == source'[ch].enumerated

\* The prefix the drain reports, after settle().
AckTarget == source'[ch].settled

AckSettle ==
  /\ Locked("ack")
  /\ J!Settle(ch)
  /\ drain' = IF AckTarget > source'[ch].acked
                THEN [Idle EXCEPT !.phase = "acking", !.cursor = AckTarget]
                ELSE Idle
  /\ up' = IF up = "starting" /\ drain'.phase = "idle" THEN "up" ELSE up
  /\ UNCHANGED <<reason, server, caughtUp, snoozed, agentTurns, lane, history>>

\* mm_mark_channel_read: clamped to a post that exists, never back.
AckReaches ==
  /\ Locked("acking")
  /\ LET target == Max({0} \cup {p \in Posts : p <= drain.cursor /\ Visible(p)})
     IN  readPtr' = IF target = 0 THEN readPtr ELSE J!Larger(readPtr, target)
  /\ drain' = [drain EXCEPT !.phase = "acked"]
  /\ UNCHANGED <<journal, reason, post, overtaken, up, caughtUp, snoozed, agentTurns, lane, history>>

AckReply ==
  /\ Locked("acked")
  /\ J!SetAcked(ch, drain.cursor)
  /\ drain' = Idle
  /\ up' = "up"
  /\ UNCHANGED <<reason, server, caughtUp, snoozed, agentTurns, lane, history>>

\* The request or its answer is lost: the next drain acks again.
AckFails ==
  /\ Locked("acking") \/ Locked("acked")
  /\ drain' = Idle
  /\ up' = "up"
  /\ UNCHANGED <<journal, reason, server, caughtUp, snoozed, agentTurns, lane, history>>

-----------------------------------------------------------------------------
(* Hand-off tasks and Hermes' hooks *)

Update(d, e) == disp' = (disp \ {d}) \cup {e}

\* A journal write that fails leaves its rows in processing for restart review.
Recorded(write) == write \/ UNCHANGED journal

Release(d) ==
  /\ disp' = disp \ {d}
  /\ inflight' = IF inflight = d.items THEN {} ELSE inflight

\* Building the event failed (an attachment): retried, counted.
BuildFails(d) ==
  /\ d.stage = "building"
  /\ Release(d)
  /\ Recorded(J!RetryLater(d.items, TRUE))
  /\ UNCHANGED <<reason, server, volatile, running, history>>

\* The event reaches Hermes.
Hand(d) ==
  /\ d.stage = "building"
  /\ Update(d, [d EXCEPT !.stage = "handing"])
  /\ turns' = [k \in J!Keys |-> IF k \in d.items THEN turns[k] + 1 ELSE turns[k]]
  /\ UNCHANGED <<journal, reason, server, volatile, inflight, running, start, retried,
                 restarts, snoozes>>

\* handle_message returns: a control Hermes handled in place is finished.
Handed(d) ==
  /\ d.stage = "handing"
  /\ IF d.inline /\ ~d.started
       THEN Release(d) /\ Recorded(J!Finish(d.items, "processed"))
       ELSE Update(d, [d EXCEPT !.stage = "delivered"]) /\ UNCHANGED <<journal, inflight>>
  /\ UNCHANGED <<reason, server, volatile, running, history>>

\* on_processing_start.  Hermes need never call it: it may absorb the event.
TurnStarts(d) ==
  /\ d.stage # "building" /\ ~d.started
  /\ Update(d, [d EXCEPT !.started = TRUE])
  /\ running' = running + 1
  /\ UNCHANGED <<journal, reason, server, volatile, inflight, history>>

\* What on_processing_complete leaves of the lane: the dispatch in flight
\* keeps it only while Hermes may still run it.
FreeLane(ds, flight, turnsLeft) ==
  LET pending == {d \in ds : d.items = flight /\ flight # {}}
      absorbed == \A d \in pending : d.stage = "delivered" /\ ~d.started
  IN  IF turnsLeft = 0 /\ absorbed THEN {} ELSE flight

\* _settle: success finishes the batch, a failed turn needs review, a turn
\* the operator cancelled is ignored.
TurnEnds(d) ==
  /\ d.started
  /\ \E outcome \in {"processed", "needs_review", "ignored"} :
       Recorded(J!Finish(d.items, outcome))
  /\ running' = running - 1
  /\ disp' = disp \ {d}
  /\ inflight' = FreeLane(disp \ {d}, IF inflight = d.items THEN {} ELSE inflight, running - 1)
  /\ UNCHANGED <<reason, server, volatile, history>>

\* A turn of this chat that no dispatch asked for.
OtherStarts ==
  /\ up # "down"
  /\ running < Cardinality({d \in disp : d.started}) + MaxOther
  /\ running' = running + 1
  /\ UNCHANGED <<journal, reason, server, volatile, disp, inflight, history>>

OtherEnds ==
  /\ running > Cardinality({d \in disp : d.started})
  /\ running' = running - 1
  /\ inflight' = FreeLane(disp, inflight, running - 1)
  /\ UNCHANGED <<journal, reason, server, volatile, disp, history>>

-----------------------------------------------------------------------------
(* Nudges, the operator, pruning *)

\* _dispatch_attention, under the channel lock: only for a post the post lane
\* leaves out as unaddressed.  The snooze switch was looked at before the wait
\* for the lock, and may be on by now.
Nudge ==
  /\ up = "up" /\ drain.phase = "idle"
  /\ "attention" \in Lanes /\ source[ch].state = "active"
  /\ \E p \in Posts :
       /\ post[p] = [kind |-> "chatter", status |-> "published"]
       /\ item[NudgeKey(p)].state = "absent"
       /\ J!Admit(ch, [k \in {NudgeKey(p)} |-> "pending"], Cursor)
       /\ reason' = [reason EXCEPT ![NudgeKey(p)] = "attention"]
       /\ turns' = [turns EXCEPT ![NudgeKey(p)] = 0]
       /\ retried' = [retried EXCEPT ![NudgeKey(p)] = 0]
  /\ UNCHANGED <<server, volatile, lane, start, restarts, snoozes>>

OperatorRetry ==
  /\ \E k \in J!Keys :
       /\ retried[k] < MaxRetries
       /\ J!ReviewRetry(k)
       /\ Demote({k})
       /\ retried' = [retried EXCEPT ![k] = @ + 1]
  /\ UNCHANGED <<server, volatile, lane, start, turns, restarts, snoozes>>

OperatorDismiss ==
  /\ \E k \in J!Keys : J!ReviewDismiss(k)
  /\ UNCHANGED <<reason, server, volatile, lane, history>>

PruneOld ==
  /\ up # "down"
  /\ \E K \in SUBSET J!Prunable : K # {} /\ J!Prune(K)
  /\ UNCHANGED <<reason, server, volatile, lane, history>>

-----------------------------------------------------------------------------
Drain == \/ NewSource \/ AdoptPointer \/ DrainBegin \/ DrainFresh \/ DrainRead \/ DrainFails \/ AdmitPage
         \/ DispatchNext \/ DispatchDone \/ AckSettle \/ AckReaches \/ AckReply \/ AckFails

Hermes == \/ \E d \in disp : BuildFails(d) \/ Hand(d) \/ Handed(d) \/ TurnStarts(d) \/ TurnEnds(d)
          \/ OtherStarts \/ OtherEnds

Next == \/ Insert \/ Commit \/ Finalise \/ EarlierAck
        \/ Start \/ Crash \/ Shutdown \/ Ready \/ Snooze
        \/ Drain \/ Hermes
        \/ Nudge \/ OperatorRetry \/ OperatorDismiss \/ PruneOld

Spec == Init /\ [][Next]_vars

\* The poll loop drains at every interval and the process is started again;
\* requests may fail, not for ever; Hermes' tasks run.
Fairness ==
  /\ WF_vars(Start) /\ WF_vars(NewSource) /\ WF_vars(AdoptPointer)
  /\ SF_vars(DrainBegin) /\ SF_vars(DrainRead) /\ SF_vars(AckReaches) /\ SF_vars(AckReply)
  /\ WF_vars(DrainFresh) /\ WF_vars(AdmitPage)
  /\ WF_vars(DispatchNext \/ DispatchDone) /\ WF_vars(AckSettle)

FairSpec == Spec /\ Fairness

-----------------------------------------------------------------------------
(* Properties *)

\* A row for the post exists, or existed until prune() dropped it.
Accounted(p) == item[PostKey(p)].state # "absent" \/ PostKey(p) \in pruned

\* Every post the cursor has passed since the source started has a row, unless it
\* was committed after a larger id, so no post is lost between two reads: through
\* pages cut short by a full queue, unpublished posts that hold the cursor, restarts
\* and whatever is committed late besides (_admit_forward).
NoPostSkipped ==
  \A p \in Posts \ overtaken :
    start < p /\ p <= Cursor /\ Visible(p) => Accounted(p)

\* The same of every post: a reader that pages on from its last id reads exactly the
\* gap it missed (clawbits_server.py:2467-2474).  Not kept (README, known disagreements).
GapReadWhole ==
  \A p \in Posts :
    start < p /\ p <= Cursor /\ Visible(p) => Accounted(p)

\* What the server shows as read by this agent is dealt with: no post at or below
\* the pointer is waiting, with Hermes, in review or unpublished, unless it was
\* committed after a larger id (_ack_settled: "nothing at or past the first
\* unfinished post").
ReadMeansFinished ==
  \A p \in Posts \ overtaken :
    source[ch].state # "none" /\ start < p /\ p <= readPtr /\ Visible(p) =>
      item[PostKey(p)].state \in J!FINAL \/ PostKey(p) \in pruned

\* The same, of a state that keeps its types.
ReadInv == TypeOK /\ ReadMeansFinished

\* A post or nudge reaches Hermes at most once, plus once for each time the
\* operator put it back: restarts, failed hand-offs, lost journal writes and a
\* nudge sent again never run a turn a second time, while its row exists.
TurnOnce == \A k \in J!Keys : turns[k] <= 1 + retried[k]

\* A gateway command runs only live: one that was missed is never handed to
\* Hermes (_next_chat_dispatch: "recorded as ignored, never run").
MissedCommandNeverRuns ==
  \A d \in disp : \A k \in d.items :
    post[k.pos].kind = "control" /\ k.lane = "post" => reason[k] = "live"

\* Everything up to p is published or gone and dealt with.
PrefixFinished(p) ==
  /\ post[p].status = "published" /\ start < p /\ source[ch].state # "none"
  /\ \A q \in start + 1 .. p :
       \/ post[q].status = "removed"
       \/ post[q].status = "published" /\ item[PostKey(q)].state \in J!FINAL

\* A finished prefix is reported to the server in the end, whatever nudges
\* are still open, also across lost acks and restarts.
AckCatchesUp ==
  \A p \in Posts : PrefixFinished(p) ~> (readPtr >= p \/ post[p].status = "removed")

\* The adapter uses the journal as InboxJournal allows.
JournalSpec == J!Spec
=============================================================================
