---------------------------- MODULE InboundPoller ----------------------------
(***************************************************************************)
(* The inbound poller of the OpenClaw plugin (plugin/src/inbound-poller.ts)*)
(* for one channel.  Posts are learnt from the socket, from polls of the   *)
(* newest page and, at boot, from a catch-up over everything behind the    *)
(* server's read pointer.  What is observed is admitted to a durable queue *)
(* and acknowledged; the queue delivers on lanes, turns one at a time.  A  *)
(* turn may ask a question and hold its lane until the chat answers.       *)
(*                                                                         *)
(* Posts become visible in the order of their ids.  Posts of the agent     *)
(* itself, agent-authored posts (interAgentMode off), drafts, clicks and   *)
(* the nudges of the attention router are left out.                        *)
(***************************************************************************)
EXTENDS Integers, Sequences, FiniteSets, FiniteSetsExt, TLC

CONSTANTS
  MaxPosts,     \* bound: posts of the channel
  Page,         \* posts of the newest page, which a poll reads
  Gap,          \* posts of the pages a catch-up reads, MAX_CATCH_UP_PAGES of them
  MaxAttempts,  \* INGRESS_RETRY.maxAttempts
  MaxUpsets     \* bound: deaths of the gateway, which always starts again, requests,
                \* admissions and turns that fail, and times the agent is snoozed

ASSUME PollerAssumption ==
  /\ {MaxPosts, Page, Gap, MaxAttempts} \subseteq Nat \ {0}
  /\ MaxUpsets \in Nat

VARIABLES
  asks,        \* the server: the posts addressed to the agent
  latest,      \* its newest post
  readp,       \* its read pointer of the agent, NoPointer before the first
  napping,     \* whether the agent is snoozed there
  wire,        \* posts on their way over the socket
  ws,          \* the socket is up
  loop,        \* the poller's loop: its await and its local variables
  snoozed,     \* agentSnoozed, as the last control payload said
  baseline,    \* the channel's floor, NoBaseline before it has one
  admitted,    \* posts this process admitted
  admitting,   \* posts whose admission it awaits, with their lane, in order
  ack,         \* the ack loop of the channel
  queue,       \* the durable queue, per event: state, attempts, lane
  turn,        \* the event whose turn runs on the turn lane
  asking,      \* the running turn's question waits in the chat
  turns,       \* history: turns that ended well, per post
  excused,     \* history: posts that get no turn: passed over by design, shown as
               \* context, used as an answer, or lost to a failed catch-up, to the
               \* page limit of the polls or to a crash that found them underway
  upsets       \* history, for the bound

server == <<asks, latest, readp, napping>>
process == <<ws, wire, loop, snoozed, baseline, admitted, admitting>>
lanes == <<queue, turn, asking>>
hist == <<turns, excused>>
vars == <<server, process, ack, lanes, hist, upsets>>

Posts == 1 .. MaxPosts
NoPointer == -1
NoBaseline == -1
Visible == 1 .. latest
NewestPage == {p \in Visible : p > latest - Page}
Behind(r) == {p \in Visible : p > r}

\* caught: whether the boot catch-up is still to come, after a failed list or not.
Top == [at |-> "top", caught |-> "done"]
Boot == [at |-> "top", caught |-> "pending"]
Ready == [at |-> "ready"]
NoAck == [sent |-> 0, want |-> 0, target |-> 0]
NoTurn == [post |-> 0, kind |-> "none"]
Unknown == [state |-> "unknown", tries |-> 0, lane |-> "none"]

\* inboundEventId: a post has one event, and another once it was moved from the
\* question lane to the turn lane.
EventKinds == {"post", "turn"}
EventIds == [post : Posts, kind : EventKinds]
EventOf(p) == [post |-> p, kind |-> "post"]

TypeOK ==
  /\ asks \subseteq Posts /\ latest \in 0 .. MaxPosts
  /\ readp \in NoPointer .. MaxPosts /\ napping \in BOOLEAN
  /\ wire \subseteq Posts /\ ws \in BOOLEAN
  /\ loop.at \in {"top", "gap", "replay", "ready", "poll"}
  /\ snoozed \in BOOLEAN /\ baseline \in NoBaseline .. MaxPosts
  /\ admitted \subseteq Posts
  /\ admitting \in Seq([post : Posts, lane : {"turn", "question"}])
  /\ ack \in [sent : 0 .. MaxPosts, want : 0 .. MaxPosts, target : 0 .. MaxPosts]
  /\ queue \in [EventIds -> [state : {"unknown", "queued", "claimed", "done", "dead"},
                             tries : 0 .. MaxAttempts, lane : {"none", "turn", "question"}]]
  /\ turn \in EventIds \cup {NoTurn} /\ asking \in BOOLEAN
  /\ turns \in [Posts -> Nat]
  /\ excused \subseteq Posts

Init ==
  /\ asks = {} /\ latest = 0 /\ readp \in {NoPointer, 0} /\ napping = FALSE
  /\ wire = {} /\ ws = FALSE /\ loop = Boot /\ snoozed = FALSE
  /\ baseline = NoBaseline /\ admitted = {} /\ admitting = <<>> /\ ack = NoAck
  /\ queue = [e \in EventIds |-> Unknown] /\ turn = NoTurn /\ asking = FALSE
  /\ turns = [p \in Posts |-> 0]
  /\ excused = {}
  /\ upsets = 0

\* One of the bounded upsets happens.
Fault == upsets < MaxUpsets /\ upsets' = upsets + 1

-----------------------------------------------------------------------------
(* The server and the socket *)

Post(addressed) ==
  /\ latest < MaxPosts
  /\ latest' = latest + 1
  /\ asks' = IF addressed THEN asks \cup {latest + 1} ELSE asks
  /\ wire' = IF ws THEN wire \cup {latest + 1} ELSE wire
  /\ UNCHANGED <<readp, napping, ws, loop, snoozed, baseline, admitted, admitting, ack, lanes, hist, upsets>>

Nap ==
  /\ IF napping THEN UNCHANGED upsets ELSE Fault
  /\ napping' = ~napping
  /\ UNCHANGED <<asks, latest, readp, process, ack, lanes, hist>>

\* The socket is closed, and what is on its way is lost.
Closed == ws' = FALSE /\ wire' = {}

SocketDrops ==
  /\ ws /\ Fault /\ Closed
  /\ UNCHANGED <<server, loop, snoozed, baseline, admitted, admitting, ack, lanes, hist>>

-----------------------------------------------------------------------------
(* Acknowledging *)

\* ackRead: the newest post wanted; a loop that runs takes it along.
Wanted(a, p) == IF p <= a.want THEN a ELSE [a EXCEPT !.want = p]

\* The ack loop: one request at a time, until what was wanted is sent.  It
\* stops at a failed one, until the next post.
AckRead(p) ==
  ack' = LET a == Wanted(ack, p)
         IN IF a.target = 0 /\ a.want > ack.want THEN [a EXCEPT !.target = a.want] ELSE a

AckServed ==
  /\ ack.target # 0
  /\ readp' = Max({readp, ack.target})
  /\ ack' = [ack EXCEPT !.sent = ack.target,
                        !.target = IF ack.target < ack.want THEN ack.want ELSE 0]
  /\ UNCHANGED <<asks, latest, napping, process, lanes, hist, upsets>>

AckFails ==
  /\ ack.target # 0 /\ Fault
  /\ readp' \in {readp, Max({readp, ack.target})}
  /\ ack' = [ack EXCEPT !.target = 0]
  /\ UNCHANGED <<asks, latest, napping, process, lanes, hist>>

-----------------------------------------------------------------------------
(* Observing and admitting *)

\* answersQuestion: the chat waits on a question, and the post answers it.
LaneOf(p) == IF asking THEN "question" ELSE "turn"

\* The guards of observe.
Passes(p, source) ==
  /\ p \notin admitted
  /\ IF baseline = NoBaseline THEN source = "ws" ELSE p > baseline

Observe(p, source) ==
  admitting' = IF Passes(p, source)
               THEN Append(admitting, [post |-> p, lane |-> LaneOf(p)]) ELSE admitting

\* The queue takes an event once; a second one of the same id changes nothing.
Enqueued(e, lane) ==
  IF queue[e].state # "unknown" THEN queue
  ELSE [queue EXCEPT ![e] = [state |-> "queued", tries |-> 0, lane |-> lane]]

Receive ==
  /\ wire # {}
  /\ LET p == Min(wire)
     IN wire' = wire \ {p} /\ Observe(p, "ws")
  /\ UNCHANGED <<server, ws, loop, snoozed, baseline, admitted, ack, lanes, hist, upsets>>

\* The queue is one database: admissions end in the order they began.
Admitted ==
  /\ admitting # <<>>
  /\ LET a == Head(admitting)
     IN /\ queue' = Enqueued(EventOf(a.post), a.lane)
        /\ admitted' = admitted \cup {a.post}
        /\ AckRead(a.post)
  /\ admitting' = Tail(admitting)
  /\ UNCHANGED <<server, ws, wire, loop, snoozed, baseline, turn, asking, hist, upsets>>

AdmissionFails ==
  /\ Fault /\ admitting # <<>>
  /\ admitting' = Tail(admitting)
  /\ UNCHANGED <<server, ws, wire, loop, snoozed, baseline, admitted, ack, lanes, hist>>

-----------------------------------------------------------------------------
(* The loop: control payload, catch-up, polls *)

\* Before the catch-up a failed list holds the loop once; after a second one it
\* goes on without a catch-up.
ListFails ==
  /\ loop.at = "top" /\ ~snoozed /\ Fault
  /\ loop' = IF loop.caught = "pending" THEN [Boot EXCEPT !.caught = "deferred"] ELSE Ready
  /\ excused' = IF loop.caught = "deferred" THEN excused \cup Visible ELSE excused
  /\ UNCHANGED <<server, ws, wire, snoozed, baseline, admitted, admitting, ack, lanes, turns>>

\* While the socket is up the list is not read every time; a snapshot that said
\* the agent is snoozed closes it.
ListSkipped ==
  /\ loop.at = "top" /\ ws
  /\ loop' = IF snoozed THEN loop ELSE Ready
  /\ IF snoozed THEN Closed ELSE UNCHANGED <<ws, wire>>
  /\ UNCHANGED <<server, snoozed, baseline, admitted, admitting, ack, lanes, hist, upsets>>

\* Everything up to the channel's newest post is passed over.
PassOver(floor) ==
  /\ baseline' = Max({baseline, floor})
  /\ AckRead(floor)
  /\ excused' = excused \cup 1 .. floor

\* seedBaseline: a channel first seen starts at its newest post.
Seeded(newest) ==
  IF baseline = NoBaseline /\ newest > 0
  THEN baseline' = newest /\ excused' = excused \cup 1 .. newest
  ELSE UNCHANGED <<baseline, excused>>

\* Mutation: the pointer counts the posts read, not the last one.
Behindhand_OffByOne == latest = 0 \/ latest > readp + 1

\* Whether the catch-up reads posts: the pointer is behind, or it cannot tell.
Behindhand == latest = 0 \/ latest > readp

\* The end of snoozing skips what came meanwhile.
Unsnoozed ==
  /\ IF snoozed /\ latest > 0 THEN PassOver(latest) ELSE Seeded(latest) /\ UNCHANGED ack
  /\ loop' = Ready

\* The head of catchUpChannel.
StartCatchUp ==
  IF readp = NoPointer
  THEN /\ IF latest > 0 THEN PassOver(latest) ELSE UNCHANGED <<baseline, ack, excused>>
       /\ loop' = Ready
  ELSE /\ baseline' = Max({readp, latest})
       /\ loop' = IF Behindhand THEN [at |-> "gap", latest |-> latest, readp |-> readp] ELSE Ready
       /\ UNCHANGED <<ack, excused>>

\* The channel list is read: applyControlPayload, and what the loop does with it.
\* A post made before the answer is applied is above the floor.
ControlArrives ==
  /\ loop.at = "top"
  /\ snoozed' = napping
  /\ IF napping
     THEN /\ loop' = [Top EXCEPT !.caught = loop.caught]
          /\ Closed
          /\ IF loop.caught = "done" THEN Seeded(latest) ELSE UNCHANGED <<baseline, excused>>
          /\ UNCHANGED ack
     ELSE /\ UNCHANGED <<ws, wire>>
          /\ IF loop.caught = "done" THEN Unsnoozed ELSE StartCatchUp
  /\ UNCHANGED <<server, admitted, admitting, lanes, turns, upsets>>

Overflows(r) == Cardinality(Behind(r)) >= Gap

\* drainGap: the posts behind the pointer, or, when all its pages were full, the
\* newest page only.
Drained(r) == IF Overflows(r) THEN NewestPage ELSE Behind(r)

\* Mutation: the gap is acknowledged before its trigger is in the queue.
GapAck_Early(newest, addressed) == AckRead(newest)

\* A gap with a trigger is acknowledged once the trigger is in the queue.
GapAck(newest, addressed) == IF addressed = {} THEN AckRead(newest) ELSE UNCHANGED ack

\* catchUpChannel: the newest addressed post of the gap starts one turn, those
\* before it are its context, so far as the context's limit goes.
GapDrained ==
  /\ loop.at = "gap"
  /\ LET posts == Drained(loop.readp)
         newest == Max(posts \cup {loop.readp})
         addressed == posts \cap asks
     IN /\ baseline' = Max({newest, loop.latest})
        /\ excused' = IF Overflows(loop.readp) THEN excused \cup (Behind(loop.readp) \ posts)
                      ELSE excused
        /\ GapAck(newest, addressed)
        /\ loop' = IF addressed = {} THEN Ready
                   ELSE [at |-> "replay", trigger |-> Max(addressed), newest |-> newest]
  /\ UNCHANGED <<server, ws, wire, snoozed, admitted, admitting, lanes, turns, upsets>>

\* The floor was raised before the posts were read, and stays.
GapFails ==
  /\ loop.at = "gap" /\ Fault
  /\ excused' = excused \cup Behind(loop.readp)
  /\ loop' = Ready
  /\ UNCHANGED <<server, ws, wire, snoozed, baseline, admitted, admitting, ack, lanes, turns>>

\* Mutation: the event of a replay is one of its own.
ReplayEvent_Own(p) == [post |-> p, kind |-> "turn"]

\* A replayed post is the event it was when the socket or a poll told of it.
ReplayEvent(p) == EventOf(p)

ReplayAdmitted ==
  /\ loop.at = "replay"
  /\ queue' = Enqueued(ReplayEvent(loop.trigger), "turn")
  /\ admitted' = admitted \cup {loop.trigger}
  /\ excused' = excused \cup 1 .. (loop.trigger - 1)
  /\ AckRead(loop.newest)
  /\ loop' = Ready
  /\ UNCHANGED <<server, ws, wire, snoozed, baseline, admitting, turn, asking, turns, upsets>>

ReplayFails ==
  /\ loop.at = "replay" /\ Fault
  /\ excused' = excused \cup 1 .. loop.newest
  /\ loop' = Ready
  /\ UNCHANGED <<server, ws, wire, snoozed, baseline, admitted, admitting, ack, lanes, turns>>

\* The socket opens; its snapshot is a control payload.
SocketOpens ==
  /\ loop.at = "ready" /\ ~ws
  /\ ws' = TRUE
  /\ snoozed' = napping
  /\ Seeded(latest)
  /\ UNCHANGED <<server, wire, loop, admitted, admitting, ack, lanes, turns, upsets>>

\* Posts of which nothing told this process yet.
Unobserved ==
  {p \in Visible : p > baseline /\ p \notin admitted /\ \A i \in DOMAIN admitting : admitting[i].post # p}

\* A post the socket does not bring and the page does not show is out of reach.
PollServed ==
  /\ loop.at = "ready"
  /\ loop' = [at |-> "poll", posts |-> NewestPage]
  /\ excused' = IF baseline = NoBaseline THEN excused
                ELSE excused \cup (Unobserved \ (wire \cup NewestPage))
  /\ UNCHANGED <<server, ws, wire, snoozed, baseline, admitted, admitting, ack, lanes, turns, upsets>>

PollFails ==
  /\ loop.at = "ready" /\ Fault
  /\ loop' = Top
  /\ UNCHANGED <<server, ws, wire, snoozed, baseline, admitted, admitting, ack, lanes, hist>>

\* The first poll of a channel without a floor sets it; otherwise its posts are
\* observed in order, each once the one before is admitted or refused.
PollArrives ==
  /\ loop.at = "poll"
  /\ IF baseline = NoBaseline
     THEN /\ baseline' = Max(loop.posts \cup {0})
          /\ excused' = excused \cup 1 .. Max(loop.posts \cup {0})
          /\ loop' = Top
          /\ UNCHANGED admitting
     ELSE /\ admitting = <<>>
          /\ IF loop.posts = {} THEN loop' = Top /\ UNCHANGED admitting
             ELSE /\ Observe(Min(loop.posts), "poll")
                  /\ loop' = [loop EXCEPT !.posts = @ \ {Min(loop.posts)}]
          /\ UNCHANGED <<baseline, excused>>
  /\ UNCHANGED <<server, ws, wire, snoozed, admitted, ack, lanes, turns, upsets>>

-----------------------------------------------------------------------------
(* Delivery *)

Queued(lane) == {e \in EventIds : queue[e].state = "queued" /\ queue[e].lane = lane}

Settled(q, e) == [q EXCEPT ![e] = [Unknown EXCEPT !.state = "done"]]

\* handlePost on the turn lane, one event at a time: no turn while snoozed or for
\* a post that is not addressed to the agent.
TurnStarts ==
  /\ turn = NoTurn
  /\ \E e \in Queued("turn") :
       IF snoozed \/ e.post \notin asks
       THEN /\ queue' = Settled(queue, e)
            /\ excused' = excused \cup {e.post}
            /\ UNCHANGED turn
       ELSE /\ queue' = [queue EXCEPT ![e].state = "claimed", ![e].tries = @ + 1]
            /\ turn' = e /\ UNCHANGED excused
  /\ UNCHANGED <<server, process, ack, asking, turns, upsets>>

TurnAsks ==
  /\ turn # NoTurn /\ ~asking
  /\ asking' = TRUE
  /\ UNCHANGED <<server, process, ack, queue, turn, hist, upsets>>

QuestionExpires ==
  /\ asking
  /\ asking' = FALSE
  /\ UNCHANGED <<server, process, ack, queue, turn, hist, upsets>>

TurnEnds ==
  /\ turn # NoTurn /\ ~asking
  /\ queue' = Settled(queue, turn)
  /\ turns' = [turns EXCEPT ![turn.post] = @ + 1]
  /\ turn' = NoTurn
  /\ UNCHANGED <<server, process, ack, asking, excused, upsets>>

\* A delivery that failed is tried again, so often.
Retried(q, e) ==
  [q EXCEPT ![e].state = IF q[e].tries < MaxAttempts THEN "queued" ELSE "dead"]

TurnFails ==
  /\ turn # NoTurn /\ ~asking /\ Fault
  /\ queue' = Retried(queue, turn)
  /\ turn' = NoTurn
  /\ UNCHANGED <<server, process, ack, asking, hist>>

\* Mutation: the moved post keeps its id, and the queue takes an id once.
Moved_SameId(q, p) == q

\* The question is over: the post moves to the turn lane under an id of its own.
Moved(q, p) ==
  LET e == [post |-> p, kind |-> "turn"]
  IN IF q[e].state # "unknown" THEN q ELSE [q EXCEPT ![e] = [Unknown EXCEPT !.state = "queued", !.lane = "turn"]]

\* An answer goes around the lane its asking turn holds.
AnswerDelivered ==
  /\ \E e \in Queued("question") :
       IF asking
       THEN /\ queue' = Settled(queue, e)
            /\ asking' = (snoozed \/ e.post \notin asks)
            /\ excused' = excused \cup {e.post}
       ELSE /\ queue' = Moved(Settled(queue, e), e.post)
            /\ UNCHANGED <<asking, excused>>
  /\ UNCHANGED <<server, process, ack, turn, turns, upsets>>

AnswerFails ==
  /\ Fault
  /\ \E e \in Queued("question") :
       queue' = Retried([queue EXCEPT ![e].tries = @ + 1], e)
  /\ UNCHANGED <<server, process, ack, turn, asking, hist>>

\* This process has yet to observe or to admit the post, and nothing keeps it from that.
Underway(p) == p > baseline /\ p \notin admitted

\* The gateway dies and starts again: claims go back to the queue.  A post the
\* pointer passed before it was admitted is not seen again.
Crash ==
  /\ Fault
  /\ Closed /\ loop' = Boot /\ snoozed' = FALSE
  /\ baseline' = NoBaseline /\ admitted' = {} /\ admitting' = <<>> /\ ack' = NoAck
  /\ queue' = [e \in EventIds |->
                 IF queue[e].state = "claimed" THEN Retried(queue, e)[e] ELSE queue[e]]
  /\ turn' = NoTurn /\ asking' = FALSE
  /\ excused' = excused \cup {p \in Visible : p <= readp /\ Underway(p)}
  /\ UNCHANGED <<server, turns>>

-----------------------------------------------------------------------------

Loop ==
  \/ ListSkipped \/ ControlArrives \/ GapDrained \/ ReplayAdmitted
  \/ PollServed \/ PollArrives
Deliver == TurnStarts \/ AnswerDelivered
Faulty ==
  \/ SocketDrops \/ AckFails \/ AdmissionFails \/ ListFails \/ GapFails \/ ReplayFails
  \/ PollFails \/ TurnFails \/ AnswerFails

Next ==
  \/ \E addressed \in BOOLEAN : Post(addressed)
  \/ Nap \/ Crash \/ Faulty
  \/ AckServed \/ Receive \/ Admitted
  \/ Loop \/ SocketOpens
  \/ Deliver \/ TurnAsks \/ QuestionExpires \/ TurnEnds

\* The process runs on, requests are answered and turns end; whether a question
\* is answered or expires is left open.
Fairness ==
  /\ WF_vars(Loop) /\ WF_vars(Admitted) /\ WF_vars(AckServed) /\ WF_vars(Receive)
  /\ WF_vars(Deliver) /\ SF_vars(TurnEnds)
  /\ SF_vars(ControlArrives) /\ SF_vars(PollServed)

Spec == Init /\ [][Next]_vars /\ Fairness

-----------------------------------------------------------------------------
(* Safety *)

\* The post is in the queue, or was.
Handled(p) == queue[EventOf(p)].state # "unknown"

\* The read pointer passes no addressed post but one that was admitted or that is
\* excused, or that is still underway: what the socket or a failed admission left
\* is above the floor, for the next poll, and only a crash before that poll loses
\* it (inbound-poller.ts:1141-1151, 1396-1440).
NoPostLost ==
  \A p \in asks : p <= readp => Handled(p) \/ p \in excused \/ Underway(p)

\* A post starts one turn that ends well, however often it is seen, replayed by a
\* catch-up or moved between the lanes.
TurnOnce == \A p \in Posts : turns[p] <= 1

\* The floor never hides an addressed post from the polls of this process: what
\* is at or below it was handled, or is excused (inbound-poller.ts:1141-1147).
FloorCovers ==
  \A p \in asks : p <= baseline /\ loop.at \notin {"gap", "replay"} =>
    Handled(p) \/ p \in excused

\* The same, of a state that keeps its types.
FloorInv == TypeOK /\ FloorCovers

-----------------------------------------------------------------------------
(* Liveness *)

\* Every addressed post gets its turn in the end, unless it is excused or was
\* tried too often, or the agent is snoozed, or a question nobody answers holds
\* the lane (inbound-poller.ts:1085-1107).
AllHandled ==
  LET Dead(p) == \E e \in EventIds : e.post = p /\ queue[e].state = "dead"
  IN <>[](snoozed \/ asking \/ \A p \in asks : turns[p] = 1 \/ p \in excused \/ Dead(p))
=============================================================================
