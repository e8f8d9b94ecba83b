------------------------------ MODULE ReplyDrafts ------------------------------
(* The reply draft of an OpenClaw turn: the post that shimmers in the chat while the   *)
(* agent works, takes the text as it streams, and becomes the reply.  Several tasks of *)
(* one process pass it around over awaited requests: the dispatch of the turn          *)
(* (plugin/src/gateway-adapter.ts), the stream patcher (activity/stream-patcher.ts),   *)
(* the sends of the durable outbound queue and the posts a tool makes in the middle of *)
(* a turn (outbound-adapter.ts).  What they share is one mutable reference and a store *)
(* that outlives the process (draft-registry.ts).  One chat, whose turns run one after *)
(* the other; the server is the part of it that guards a streaming post, and reads and *)
(* writes it in two steps.                                                             *)
EXTENDS Naturals, Sequences, SequencesExt

CONSTANTS
  MaxTurns,     \* turns the chat runs
  MaxTexts,     \* assistant events, over all turns
  MaxReplies,   \* replies handed to the durable queue, over all turns
  MaxTools,     \* posts tools make in the middle of a turn, one at a time
  MaxRewrites,  \* assistant events that replace the text streamed before them
  MaxUpsets     \* requests that fail on the way or are overtaken on the server, and deaths

ASSUME DraftBounds ==
  {MaxTurns, MaxTexts, MaxReplies, MaxTools, MaxRewrites, MaxUpsets} \subseteq Nat

VARIABLES
  posts,   \* the chat's posts in the order the server made them
  phase,   \* of the turn: "idle", "opening", "running", "settling"
  turn,    \* its number
  ref,     \* draftRef.id of the running turn, 0 for undefined
  stop,    \* stopRequested
  settle,  \* the PATCH of the turn's finally-block
  orphan,  \* the "open-drafts" store: the post a restart would find, 0 for none
  lane,    \* the StreamState of the running turn
  flight,  \* the PATCH the flush chain waits for
  sends,   \* the replies, by delivery intent
  tools,   \* the posts of tools, in the order the turns made them
  late,    \* PATCHes given up by the plugin that the server may still get
  reads,   \* by PATCH the server has read a post for and not yet written: the post as read
  hurt,    \* history: posts a request about failed, or a death left open
  crossed, \* history: posts that were no longer streaming when a PATCH that read them so wrote
  raced,   \* history: the text was replaced while a PATCH of it was under way
  spent    \* history: texts, rewrites and upsets used up

server == <<reads, crossed>>
chat == <<posts, late, hurt, server>>
ours == <<phase, turn, stop, settle>>
draft == <<ref, orphan>>
stream == <<lane, flight, raced>>
jobs == <<sends, tools>>
vars == <<chat, ours, draft, stream, jobs, spent>>

Text(n) == [by |-> "text", n |-> n]
Reply(r) == [by |-> "reply", n |-> r]
Block(i) == [by |-> "tool", n |-> i]
Stopped == [by |-> "stopped", n |-> 0]
Failed == [by |-> "failed", n |-> 0]

\* ---------------------------------------------------------------------------- the server

Post(status, body, key) == [status |-> status, body |-> body, key |-> key]
Patch(p, do, body, key) == [post |-> p, do |-> do, body |-> body, key |-> key]
NoPatch == Patch(0, "none", <<>>, 0)
AppendTo(p, body) == Patch(p, "append", body, 0)
Replace(p, body) == Patch(p, "replace", body, 0)
Finish(p, body, key) == Patch(p, "done", body, key)
Cancel(p) == Patch(p, "cancel", <<>>, 0)

Streaming(p) == posts[p].status = "streaming"
Keyed(r) == {p \in DOMAIN posts : posts[p].key = r}

Reap(p) == Patch(p, "reap", <<>>, 0)
Deletes(x) == x.do \in {"cancel", "reap"}

(* The post x is about as the server read it: some time ago, or with the write.          *)
Was(x) == IF x \in DOMAIN reads THEN reads[x] ELSE posts[x.post]

(* A PATCH is taken for a post that was read streaming; the write needs its row, and no  *)
(* two posts of a chat have one key.                                                     *)
Takes(x) ==
  /\ Was(x).status = "streaming"
  /\ posts[x.post].status # "gone" \/ Deletes(x)
  /\ x.key # 0 => Keyed(x.key) \subseteq {x.post}

(* Only the columns whose value is another than was read are written.                    *)
Message(x) == IF x.do = "append" THEN Was(x).body \o x.body ELSE x.body
Body(x) == IF Message(x) = Was(x).body THEN posts[x.post].body ELSE Message(x)

Patched(x) ==
  IF ~Takes(x) THEN posts
  ELSE [posts EXCEPT ![x.post] =
    IF Deletes(x) THEN Post("gone", <<>>, 0)
    ELSE IF x.do = "done" THEN Post("published", Body(x), IF x.key # 0 THEN x.key ELSE @.key)
    ELSE [@ EXCEPT !.body = Body(x)]]

(* Nothing locks the post: it may have been published or deleted since it was read.      *)
Written(x) ==
  /\ posts' = Patched(x)
  /\ crossed' = IF Takes(x) /\ ~Streaming(x.post) THEN crossed \cup {x.post} ELSE crossed

Upset == spent.upsets < MaxUpsets /\ spent' = [spent EXCEPT !.upsets = @ + 1]

(* x is read now and written in a step of its own; others may come in between. *)
ReadFor(x) ==
  /\ x \notin DOMAIN reads /\ Streaming(x.post)
  /\ Upset
  /\ reads' = [y \in DOMAIN reads \cup {x} |-> IF y = x THEN posts[x.post] ELSE reads[y]]

Unread(x) == reads' = [y \in DOMAIN reads \ {x} |-> reads[y]]

(* What a request comes to: answered, never there, there with the answer lost, or given *)
(* up here and there later.  All but the first use up an upset.                         *)
Fates == {"done", "lost", "unheard", "late"}

Faulty(fate) == IF fate = "done" THEN spent' = spent ELSE Upset

(* The PATCH x meets its fate. *)
Sent(x, fate) ==
  /\ Faulty(fate)
  /\ IF fate \in {"done", "unheard"} THEN Written(x) ELSE UNCHANGED <<posts, crossed>>
  /\ IF fate = "late" THEN late' = late \cup {x} /\ UNCHANGED reads
                       ELSE late' = late /\ Unread(x)
  /\ hurt' = IF fate = "done" /\ Takes(x) THEN hurt ELSE hurt \cup {x.post}

Heard(x, fate) == fate = "done" /\ Takes(x)

(* A PATCH the plugin gave up arrives after all. *)
LateLands ==
  \E x \in late :
    /\ late' = late \ {x}
    /\ Written(x) /\ Unread(x)
    /\ UNCHANGED <<hurt, ours, draft, stream, jobs, spent>>

\* ---------------------------------------------------------------------------- the turn

(* said is history: all the runner said to the lane, taken or not. *)
Fresh == [cum |-> <<>>, sent |-> 0, rewrite |-> FALSE, stopped |-> FALSE, said |-> <<>>]
NoFlight == [on |-> FALSE, mine |-> FALSE, patch |-> NoPatch]

Open == phase = "running"

(* A turn is dispatched and asks for its draft. *)
TurnStarts ==
  /\ phase = "idle" /\ turn < MaxTurns
  /\ phase' = "opening" /\ turn' = turn + 1 /\ stop' = FALSE
  /\ UNCHANGED <<settle, chat, draft, stream, jobs, spent>>

(* createDraftPost answers, or fails and the turn goes on without a draft; the turn is   *)
(* registered either way.                                                                *)
TurnOpens ==
  /\ phase = "opening"
  /\ phase' = "running" /\ lane' = Fresh
  /\ \E fate \in {"done", "lost", "unheard"} :
       /\ Faulty(fate)
       /\ posts' = IF fate = "lost" THEN posts ELSE Append(posts, Post("streaming", <<>>, 0))
       /\ ref' = IF fate = "done" THEN Len(posts') ELSE 0
       /\ orphan' = IF fate = "done" THEN Len(posts') ELSE orphan
       /\ hurt' = IF fate = "unheard" THEN hurt \cup {Len(posts')} ELSE hurt
  /\ UNCHANGED <<late, server, turn, stop, settle, flight, raced, jobs>>

(* A turn that shows no shimmer has no draft to ask for. *)
TurnOpensBare ==
  /\ phase = "opening"
  /\ phase' = "running" /\ lane' = Fresh
  /\ UNCHANGED <<chat, turn, stop, settle, draft, flight, raced, jobs, spent>>

StopAsked ==
  /\ Open /\ ~stop
  /\ stop' = TRUE
  /\ UNCHANGED <<phase, turn, settle, chat, draft, stream, jobs, spent>>

Busy(i) == tools[i].at \notin {"over", "gone"} /\ tools[i].turn = turn
Sending(r) == sends[r].at \in {"patching", "posting"} /\ sends[r].turn = turn
AtWork == (\E i \in DOMAIN tools : Busy(i)) \/ (\E r \in DOMAIN sends : Sending(r))

(* What the finally-block makes of a draft nobody claimed. *)
Ending(p, failed) ==
  IF stop /\ lane.cum # <<>> THEN Finish(p, Append(lane.cum, Stopped), 0)
  ELSE IF failed /\ ~stop THEN Finish(p, <<Failed>>, 0)
  ELSE Cancel(p)

(* The dispatch returns once its tools and sends did, or ends early, stopped or failed;  *)
(* a failure that ingress will redeliver leaves no tombstone (failed is FALSE then).     *)
TurnEnds ==
  /\ Open
  /\ \E failed \in BOOLEAN :
       /\ AtWork => failed \/ stop
       /\ \E told \in (IF failed THEN BOOLEAN ELSE {FALSE}) :
            settle' = IF ref = 0 THEN NoPatch ELSE Ending(ref, told)
  /\ phase' = IF ref = 0 THEN "idle" ELSE "settling"
  /\ ref' = 0 /\ orphan' = 0
  /\ lane' = [lane EXCEPT !.stopped = TRUE]
  /\ flight' = [flight EXCEPT !.mine = FALSE]
  /\ UNCHANGED <<chat, turn, stop, raced, jobs, spent>>

TurnSettles ==
  /\ phase = "settling"
  /\ \E fate \in Fates : Sent(settle, fate)
  /\ phase' = "idle" /\ settle' = NoPatch
  /\ UNCHANGED <<turn, stop, draft, stream, jobs>>

\* ---------------------------------------------------------------------------- the stream

(* An assistant event carries the text so far; a lane that stopped takes none of it. *)
Says ==
  /\ Open /\ spent.texts < MaxTexts
  /\ spent' = [spent EXCEPT !.texts = @ + 1]
  /\ LET more == Text(spent'.texts) IN
       lane' = [lane EXCEPT !.said = Append(@, more),
                            !.cum = IF lane.stopped THEN @ ELSE Append(@, more)]
  /\ UNCHANGED <<chat, ours, draft, flight, raced, jobs>>

(* The runner rewrites the text: only characters already sent make it a wire replace. *)
Rewrites ==
  /\ Open /\ ~lane.stopped /\ lane.cum # <<>>
  /\ spent.texts < MaxTexts /\ spent.rewrites < MaxRewrites
  /\ spent' = [spent EXCEPT !.texts = @ + 1, !.rewrites = @ + 1]
  /\ LET new == <<Text(spent'.texts)>> IN
       lane' = [lane EXCEPT !.said = new, !.cum = new, !.rewrite = @ \/ lane.sent > 0]
  /\ raced' = (raced \/ (flight.on /\ flight.mine))
  /\ UNCHANGED <<chat, ours, draft, flight, jobs>>

Unsent == SubSeq(lane.cum, lane.sent + 1, Len(lane.cum))

FlightTo(p) ==
  [on |-> TRUE, mine |-> TRUE,
   patch |-> IF lane.rewrite THEN Replace(p, lane.cum) ELSE AppendTo(p, Unsent)]

(* A flush runs when the one before it is over, and sends what is unsent to the draft it *)
(* finds; without one the lane is over for the turn.                                     *)
FlushStarts ==
  /\ Open /\ ~lane.stopped /\ ~flight.on
  /\ lane.rewrite \/ Unsent # <<>>
  /\ IF ref = 0
     THEN lane' = [lane EXCEPT !.stopped = TRUE] /\ flight' = flight
     ELSE lane' = [lane EXCEPT !.rewrite = FALSE] /\ flight' = FlightTo(ref)
  /\ UNCHANGED <<chat, ours, draft, raced, jobs, spent>>

(* Mutation: the chain forgets the PATCH before it: what is sent is sent again. *)
Confirmed_Forgets == lane

Confirmed ==
  [lane EXCEPT !.sent = IF flight.patch.do = "replace" THEN Len(flight.patch.body)
                        ELSE @ + Len(flight.patch.body)]

(* The answer counts for the lane that sent it, which stops on any error. *)
FlushAnswered ==
  /\ flight.on
  /\ \E fate \in Fates :
       /\ Sent(flight.patch, fate)
       /\ lane' = IF ~flight.mine THEN lane
                  ELSE IF Heard(flight.patch, fate) THEN Confirmed
                  ELSE [lane EXCEPT !.stopped = TRUE]
  /\ flight' = NoFlight
  /\ UNCHANGED <<ours, draft, raced, jobs>>

\* ------------------------------------------------------------------ sends of the queue

(* claimDraft: the live draft, or one a dead process left; both are given up here. *)
Claimable == IF ref # 0 THEN ref ELSE orphan
Claimed == ref' = 0 /\ orphan' = 0

Send(r, t) == [at |-> IF Claimable = 0 THEN "posting" ELSE "patching", turn |-> t, draft |-> Claimable]

(* deliver or the message tool hands a reply to the durable queue, which sends it. *)
ReplyMade ==
  /\ Open /\ Len(sends) < MaxReplies
  /\ ~AtWork
  /\ sends' = Append(sends, Send(Len(sends) + 1, turn))
  /\ Claimed
  /\ UNCHANGED <<chat, ours, stream, tools, spent>>

(* The queue tries a reply again it holds, whatever turn the chat is in by now. *)
SendRetried ==
  \E r \in DOMAIN sends :
    /\ sends[r].at = "waiting"
    /\ sends' = [sends EXCEPT ![r] = Send(r, 0)]
    /\ Claimed
    /\ UNCHANGED <<chat, ours, stream, tools, spent>>

(* Mutation: the intent's key is left off. *)
SendKey_None(r) == 0

SendKey(r) == r

SendPatch(r) == Finish(sends[r].draft, <<Reply(r)>>, SendKey(r))

(* The send r is over, waits or goes on without a draft. *)
SendAt(r, at) == [sends EXCEPT ![r] = [@ EXCEPT !.at = at, !.draft = 0]]

(* The draft becomes the reply; when that fails the reply is posted on its own. *)
DraftFinished ==
  \E r \in DOMAIN sends :
    /\ sends[r].at = "patching"
    /\ \E fate \in Fates :
         /\ Sent(SendPatch(r), fate)
         /\ sends' = SendAt(r, IF Heard(SendPatch(r), fate) THEN "sent" ELSE "posting")
    /\ UNCHANGED <<ours, draft, stream, tools>>

WithReply(r) ==
  IF SendKey(r) # 0 /\ Keyed(r) # {} THEN posts
  ELSE Append(posts, Post("published", <<Reply(r)>>, SendKey(r)))

(* A POST under a key the server knows answers with the post that has it.  A failed one  *)
(* stays with the queue or is given up.                                                  *)
ReplyPosted ==
  \E r \in DOMAIN sends :
    /\ sends[r].at = "posting"
    /\ \E fate \in {"done", "lost", "unheard"} :
         /\ Faulty(fate)
         /\ posts' = IF fate = "lost" THEN posts ELSE WithReply(r)
         /\ \E next \in (IF fate = "done" THEN {"sent"} ELSE {"waiting", "dropped"}) :
              sends' = SendAt(r, next)
    /\ UNCHANGED <<late, hurt, server, ours, draft, stream, tools>>

\* ------------------------------------------------------------- posts of tools, mid-turn

Registered(t) == Open /\ turn = t

(* endDraft takes the draft synchronously, before it awaits anything. *)
TakesDraft(i) == Registered(tools[i].turn) /\ ref # 0

ToolStarts ==
  /\ Open /\ Len(tools) < MaxTools
  /\ ~AtWork
  /\ \E kind \in {"surface", "question"} :
       tools' = Append(tools, [kind |-> kind, turn |-> turn, at |-> "posting",
                               drafted |-> ref # 0, draft |-> 0, text |-> <<>>])
  /\ UNCHANGED <<chat, ours, draft, stream, sends, spent>>

(* The tool i goes on with a draft it took or opened, and with its text, or with none. *)
ToolHolds(i, at, from, text) ==
  [tools EXCEPT ![i] = [@ EXCEPT !.at = at, !.draft = from, !.text = text]]
ToolAt(i, at) == ToolHolds(i, at, 0, <<>>)

Parked(i) == IF tools[i].kind = "question" THEN "asked" ELSE "over"

(* The block or question is in the chat: the draft above it is to end with what streamed *)
(* into it, and the turn's next text starts a new lane.  A post that fails ends the tool. *)
ToolPosted ==
  \E i \in DOMAIN tools :
    /\ tools[i].at = "posting"
    /\ \E fate \in {"done", "lost", "unheard"} :
         /\ Faulty(fate)
         /\ posts' = IF fate = "lost" THEN posts ELSE Append(posts, Post("published", <<Block(i)>>, 0))
         /\ IF fate # "done"
            THEN /\ tools' = ToolAt(i, "over")
                 /\ UNCHANGED <<draft, lane, flight>>
            ELSE IF ~TakesDraft(i)
            THEN /\ tools' = ToolAt(i, Parked(i))
                 /\ UNCHANGED <<draft, lane, flight>>
            ELSE /\ tools' = ToolHolds(i, "handing", ref, lane.cum)
                 /\ Claimed
                 /\ lane' = Fresh
                 /\ flight' = [flight EXCEPT !.mine = FALSE]
    /\ UNCHANGED <<late, hurt, server, ours, raced, sends>>

(* handOver waits for the sends of the old lane. *)
DraftHanded ==
  \E i \in DOMAIN tools :
    /\ tools[i].at = "handing"
    /\ ~flight.on \/ flight.mine
    /\ tools' = ToolHolds(i, "ending", tools[i].draft, tools[i].text)
    /\ UNCHANGED <<chat, ours, draft, stream, sends, spent>>

EndPatch(i) ==
  IF tools[i].text # <<>> THEN Finish(tools[i].draft, tools[i].text, 0) ELSE Cancel(tools[i].draft)

(* The draft above ends; a block's turn goes on in a new draft, a question's waits. *)
DraftEnded ==
  \E i \in DOMAIN tools :
    /\ tools[i].at = "ending"
    /\ \E fate \in Fates : Sent(EndPatch(i), fate)
    /\ tools' = ToolAt(i, IF tools[i].kind = "question" THEN "asked" ELSE "opening")
    /\ UNCHANGED <<ours, draft, stream, sends>>

(* Core finalizes the question: answered, expired or cancelled. *)
QuestionOver ==
  \E i \in DOMAIN tools :
    /\ tools[i].at = "asked"
    /\ tools' = ToolAt(i, IF tools[i].drafted THEN "opening" ELSE "over")
    /\ UNCHANGED <<chat, ours, draft, stream, sends, spent>>

(* Mutation: nobody looks whether the turn is still there. *)
StillOpen_Any(i) == TRUE

(* Whether the turn that asked for a draft is still the one that takes it. *)
StillOpen(i) == Registered(tools[i].turn)

DraftOpened ==
  \E i \in DOMAIN tools :
    /\ tools[i].at = "opening"
    /\ \E fate \in {"done", "lost", "unheard"} :
         /\ Faulty(fate)
         /\ posts' = IF fate = "lost" THEN posts ELSE Append(posts, Post("streaming", <<>>, 0))
         /\ hurt' = IF fate = "unheard" THEN hurt \cup {Len(posts')} ELSE hurt
         /\ IF fate = "done" /\ StillOpen(i)
            THEN ref' = Len(posts') /\ orphan' = Len(posts')
            ELSE UNCHANGED draft
         /\ tools' = IF fate = "done" /\ ~StillOpen(i)
                     THEN ToolHolds(i, "dropping", Len(posts'), <<>>)
                     ELSE ToolAt(i, "over")
    /\ UNCHANGED <<late, server, ours, stream, sends>>

(* The turn ended meanwhile: its draft goes at once. *)
DraftDropped ==
  \E i \in DOMAIN tools :
    /\ tools[i].at = "dropping"
    /\ \E fate \in Fates : Sent(Cancel(tools[i].draft), fate)
    /\ tools' = ToolAt(i, "over")
    /\ UNCHANGED <<ours, draft, stream, sends>>

\* ------------------------------------------------------------------- death and the reaper

InFlight ==
  (IF flight.on THEN {flight.patch} ELSE {})
  \cup (IF phase = "settling" THEN {settle} ELSE {})
  \cup {SendPatch(r) : r \in {r \in DOMAIN sends : sends[r].at = "patching"}}
  \cup {EndPatch(i) : i \in {i \in DOMAIN tools : tools[i].at = "ending"}}
  \cup {Cancel(tools[i].draft) : i \in {i \in DOMAIN tools : tools[i].at = "dropping"}}

(* The gateway dies: what it had sent may still arrive, the queue holds its replies, the *)
(* store keeps the last open draft.                                                      *)
Crash ==
  /\ phase # "idle"
  /\ Upset
  /\ late' = late \cup InFlight
  /\ hurt' = hurt \cup {p \in DOMAIN posts : Streaming(p)}
  /\ phase' = "idle" /\ settle' = NoPatch /\ ref' = 0 /\ stop' = FALSE
  /\ lane' = Fresh /\ flight' = NoFlight
  /\ sends' = [r \in DOMAIN sends |->
       IF sends[r].at \in {"patching", "posting"} THEN [at |-> "waiting", turn |-> 0, draft |-> 0]
       ELSE sends[r]]
  /\ tools' = [i \in DOMAIN tools |-> [tools[i] EXCEPT !.at = "over", !.draft = 0, !.text = <<>>]]
  /\ UNCHANGED <<posts, server, turn, orphan, raced>>

(* The server reads the post of a PATCH and looks whether it streams; before it writes,  *)
(* other requests may come and go.                                                       *)
ReadForPatch ==
  \E x \in InFlight \cup late :
    /\ ReadFor(x)
    /\ UNCHANGED <<posts, late, hurt, crossed, ours, draft, stream, jobs>>

(* Mutation: the heartbeat of a turn is never cleared. *)
Beating_Forever == turn > 0

(* "generating" is asserted again and again while a turn runs and no question waits, and *)
(* touches every streaming post the agent has in the chat.                               *)
Beating ==
  /\ phase \in {"running", "settling"}
  /\ \A i \in DOMAIN tools : tools[i].at # "asked"

Stale(p) == Streaming(p) /\ ~Beating /\ \A x \in InFlight : x.post # p

Reaped ==
  \E p \in DOMAIN posts :
    /\ Stale(p)
    /\ posts' = [posts EXCEPT ![p] = Post("gone", <<>>, 0)]
    /\ UNCHANGED <<late, hurt, server, ours, draft, stream, jobs, spent>>

(* The reaper too reads first and deletes in a second step, whatever the post is by then. *)
ReadForReaper ==
  \E p \in DOMAIN posts :
    /\ Stale(p)
    /\ ReadFor(Reap(p))
    /\ UNCHANGED <<posts, late, hurt, crossed, ours, draft, stream, jobs>>

ReapedSlowly ==
  \E x \in DOMAIN reads :
    /\ x.do = "reap"
    /\ Written(x) /\ Unread(x)
    /\ UNCHANGED <<late, hurt, ours, draft, stream, jobs, spent>>

\* ------------------------------------------------------------------------- specification

Init ==
  /\ posts = <<>> /\ late = {} /\ hurt = {}
  /\ reads = [x \in {} |-> NoPatch] /\ crossed = {}
  /\ phase = "idle" /\ turn = 0 /\ stop = FALSE /\ settle = NoPatch
  /\ ref = 0 /\ orphan = 0
  /\ lane = Fresh /\ flight = NoFlight /\ raced = FALSE
  /\ sends = <<>> /\ tools = <<>>
  /\ spent = [texts |-> 0, rewrites |-> 0, upsets |-> 0]

Turns == TurnStarts \/ TurnOpens \/ TurnOpensBare \/ StopAsked \/ TurnEnds \/ TurnSettles
Stream == Says \/ Rewrites \/ FlushStarts \/ FlushAnswered
Sends == ReplyMade \/ SendRetried \/ DraftFinished \/ ReplyPosted
Tools == ToolStarts \/ ToolPosted \/ DraftHanded \/ DraftEnded \/ QuestionOver \/ DraftOpened \/ DraftDropped

Server == LateLands \/ ReadForPatch \/ Reaped \/ ReadForReaper \/ ReapedSlowly

Next == Turns \/ Stream \/ Sends \/ Tools \/ Server \/ Crash

Spec == Init /\ [][Next]_vars

(* Requests end, a turn ends, the reaper's loop comes round.  Every behaviour is finite,   *)
(* so that each of these is taken that stays enabled.                                     *)
Progress ==
  \/ TurnOpens \/ TurnEnds \/ TurnSettles \/ FlushAnswered \/ DraftFinished \/ ReplyPosted
  \/ ToolPosted \/ DraftHanded \/ DraftEnded \/ DraftOpened \/ DraftDropped \/ Reaped

FairSpec == Spec /\ WF_vars(Progress)

\* ---------------------------------------------------------------------------- properties

TypeOK ==
  /\ \A p \in DOMAIN posts : posts[p].status \in {"streaming", "published", "gone"}
  /\ phase \in {"idle", "opening", "running", "settling"} /\ turn \in 0..MaxTurns
  /\ ref \in 0..Len(posts) /\ orphan \in 0..Len(posts)
  /\ lane.sent \in 0..MaxTexts
  /\ hurt \cup crossed \subseteq DOMAIN posts

(* A reply is in the chat at most once, whatever was lost, retried or replayed. *)
ReplyOnce ==
  \A p, q \in DOMAIN posts :
    posts[p].body = posts[q].body /\ posts[p].body # <<>> /\ posts[p].body[1].by = "reply" => p = q

SaysJust(p, r) == posts[p].body = <<Reply(r)>>

(* A post that became a reply says just that, and has its key if it was sent under one:  *)
(* no text streamed late lands behind or over it, but that of a PATCH the server had     *)
(* read the post for while it still streamed.                                            *)
ReplyExact ==
  \A p \in DOMAIN posts \ crossed : \A r \in DOMAIN sends :
    posts[p].key = r \/ Contains(posts[p].body, Reply(r)) => SaysJust(p, r)

(* The same of every post: once its reply has published it, no PATCH is taken, whenever  *)
(* the server read it (patch_mm_post: state checked "in the same GET used for the        *)
(* mutation"; ValueError "when the post is no longer streaming").  Not kept (README,      *)
(* known disagreements).                                                                 *)
ReplyStands ==
  \A p \in DOMAIN posts : \A r \in DOMAIN sends : posts[p].key = r => SaysJust(p, r)

(* A reply is said once, and as it is. *)
ReplyInv == ReplyOnce /\ ReplyExact

Held(p) ==
  \/ p = ref \/ \E x \in InFlight : x.post = p
  \/ \E i \in DOMAIN tools : tools[i].draft = p

(* Nobody loses sight of a draft: one that shimmers is the turn's, or somebody is at it  *)
(* to end it, unless a request about it failed or the process died under it.             *)
NoDraftLeaked == \A p \in DOMAIN posts : Streaming(p) /\ p \notin hurt => Held(p)

(* Nothing works below a question while it waits. *)
QuietWhileAsked ==
  \A i \in DOMAIN tools :
    tools[i].at = "asked" /\ Registered(tools[i].turn) => ref = 0

(* What a live draft shows is a stretch of what the runner said, with nothing twice and  *)
(* nothing left out in between, but for a rewrite that is still to be sent.              *)
ShownInOrder ==
  ref # 0 /\ ref \notin hurt /\ ~raced /\ Streaming(ref) =>
    \/ \E i, j \in 0..Len(lane.cum) : posts[ref].body = SubSeq(lane.cum, i + 1, j)
    \/ lane.rewrite
    \/ flight.on /\ flight.patch.do = "replace"

(* What the live draft shows, and when there is none, of a state that keeps its types.   *)
DraftInv == TypeOK /\ QuietWhileAsked /\ ShownInOrder

(* A stopped turn keeps all it streamed, flushed or not (streamedText). *)
StoppedKeepsAll ==
  phase = "settling" /\ settle.do = "done" /\ stop => settle.body = Append(lane.said, Stopped)

(* No draft shimmers for good. *)
DraftsSettle == <>[](\A p \in DOMAIN posts : ~Streaming(p))

=============================================================================
