------------------------------ MODULE GameWakes ------------------------------
(***************************************************************************)
(* The wake loop of one chat game (plugin/src/widgets/wake.ts) over its    *)
(* sessions.  Whatever says that the game waits on the agent is a signal;  *)
(* signals arrive late, twice and out of order.  A signal becomes one wake *)
(* on the inbound lane; the wake reads the game again, chooses a session   *)
(* and runs a turn, and is tried again on a backoff if the move was not    *)
(* made.  The cleanup of an ended game and the sweep of what was left      *)
(* behind delete sessions on the same lane.                                *)
(***************************************************************************)
EXTENDS GameSessions, Sequences

CONSTANTS
  MaxRev,       \* bound: revisions of the game
  Retries,      \* WAKE_RETRY_BACKOFF_MS.length
  CleanRetries, \* CLEANUP_RETRY_MS.length
  MaxUpsets,    \* bound: deaths of the gateway, which always starts again, and snoozes
  Blockable     \* whether allowFrom may refuse the other player

ASSUME WakesAssumption ==
  /\ MaxRev \in Nat \ {0} /\ {Retries, CleanRetries, MaxUpsets} \subseteq Nat
  /\ Blockable \in BOOLEAN

VARIABLES
  said,      \* the server: whom each revision so far waits on
  snoozed,
  game,      \* WidgetWakes' state of the game
  ended,     \* it is remembered as ended
  lane,      \* the inbound lane: jobs waiting their turn
  job,       \* the job that runs, at one of its awaits
  again,     \* armed timers of a cleanup, by attempt
  sweep,     \* the sweep: its await and the generations it listed
  woke,      \* history: wakes of each revision in this process
  refused,   \* history: revisions allowFrom refused in this process
  upsets     \* history, for the bound

server == <<said>>
wakes == <<game, ended, lane, job, again, sweep>>
hist == <<woke, refused, upsets>>
vars == <<sessions, server, snoozed, wakes, hist>>

Revs == 1 .. MaxRev
Rev == Len(said)
Over == said[Rev] = "over"
None == 0

NoWoken == [rev |-> None, tries |-> 0, rest |-> "rested"]
Unseen == [present |-> FALSE, latestRev |-> None, pending |-> FALSE, queued |-> FALSE,
           woken |-> NoWoken, timer |-> None]

Idle == [kind |-> "idle"]
\* A deletion: of a rotation (seen: what its move saw), an ended game (try) or a sweep.
Deletion(kind, gens, try, seen) ==
  [kind |-> kind, phase |-> "look", gens |-> gens, try |-> try, seen |-> seen,
   left |-> {}, listed |-> {}, whole |-> FALSE]
WakeJob == [kind |-> "wake"]
EndJob(try) == [kind |-> "end", try |-> try]
SweepJob(gens) == [kind |-> "sweep", gens |-> gens]
NoSweep == [phase |-> "idle"]

TypeOK ==
  /\ SessionsTypeOK
  /\ said \in Seq({"agent", "other", "over"}) /\ Rev \in Revs
  /\ snoozed \in BOOLEAN /\ ended \in BOOLEAN
  /\ game \in [present : BOOLEAN, latestRev : Revs \cup {None}, pending : BOOLEAN,
               queued : BOOLEAN, timer : Revs \cup {None},
               woken : [rev : Revs \cup {None}, tries : 0 .. Retries + 2,
                        rest : {"running", "resting", "rested"}]]
  /\ \A i \in DOMAIN lane : lane[i].kind \in {"wake", "end", "sweep"}
  /\ job.kind \in {"idle", "wake", "end", "sweep"}
  /\ again \subseteq 1 .. CleanRetries
  /\ sweep.phase \in {"idle", "ask", "queued"}
  /\ woke \in [Revs -> Nat] /\ refused \subseteq Revs

Init ==
  /\ SessionsInit
  /\ said = <<"agent">>
  /\ snoozed = FALSE
  /\ game = Unseen /\ ended = FALSE
  /\ lane = <<>> /\ job = Idle /\ again = {} /\ sweep = NoSweep
  /\ woke = [r \in Revs |-> 0] /\ refused = {}
  /\ upsets = 0

At(phase) == "phase" \in DOMAIN job /\ job.phase = phase

\* A session is busy while the host runs on it or a move's dispatch holds it.
Busy(g) == Running(g) \/ (At("turn") /\ job.gen = g)

-----------------------------------------------------------------------------
(* The server *)

\* The game moves on: a run of the agent plays, or the other player does, or
\* somebody ends it.
Play(next) ==
  /\ ~Over /\ Rev < MaxRev
  /\ \/ next = "over"
     \/ said[Rev] = "other"
     \/ \E g \in Gens : Running(g)
  /\ said' = Append(said, next)
  /\ UNCHANGED <<sessions, snoozed, wakes, hist>>

Snooze ==
  /\ upsets' = IF snoozed THEN upsets ELSE upsets + 1
  /\ upsets' <= MaxUpsets
  /\ snoozed' = ~snoozed
  /\ UNCHANGED <<sessions, server, wakes, woke, refused>>

-----------------------------------------------------------------------------
(* WidgetWakes *)

\* Mutation: a revision is woken once.
Due_Once(w, r) == w.rev # r

\* A new revision always, the last one only on its backoff.
Due(w, r) == w.rev # r \/ (w.tries <= Retries /\ w.rest = "rested")

\* #end: what is known of the game goes, and its sessions with it.  A wake in
\* flight keeps its own state (woken).
Ended(l) ==
  /\ game' = [Unseen EXCEPT !.woken = IF job.kind = "wake" THEN game.woken ELSE NoWoken]
  /\ ended' = TRUE
  /\ lane' = Append(l, EndJob(0))

\* The signal is pending; its wake is queued unless one is.
Queue(g) ==
  /\ game' = [g EXCEPT !.pending = TRUE, !.queued = TRUE]
  /\ lane' = IF g.queued THEN lane ELSE Append(lane, WakeJob)

Stale(r) == r < game.latestRev

\* offer: a signal of revision r with what the server said then.
Offer(r, what) ==
  LET seen == [game EXCEPT !.present = TRUE, !.latestRev = r]
  IN  IF ended THEN UNCHANGED <<game, ended, lane>>
      ELSE IF what = "over" THEN Ended(lane)
      ELSE /\ UNCHANGED ended
           /\ IF Stale(r)
              THEN UNCHANGED <<game, lane>>
              ELSE IF what = "other"
              THEN game' = [seen EXCEPT !.pending = FALSE, !.timer = None] /\ UNCHANGED lane
              ELSE IF snoozed \/ ~Due(game.woken, r)
              THEN game' = seen /\ UNCHANGED lane
              ELSE Queue(seen)

\* A socket event, a channel list or a catch-up list, of now or of before.
Signal(r) ==
  /\ r <= Rev
  /\ Offer(r, said[r])
  /\ UNCHANGED <<sessions, server, snoozed, job, again, sweep, hist>>

BackoffPasses ==
  /\ game.woken.rest = "resting"
  /\ game' = [game EXCEPT !.woken.rest = "rested"]
  /\ UNCHANGED <<sessions, server, snoozed, ended, lane, job, again, sweep, hist>>

\* The timer of a wake looks again: it offers the revision it was armed for.
TimerFires ==
  /\ game.timer # None /\ game.woken.rest = "rested"
  /\ LET r == game.timer
         fired == [game EXCEPT !.timer = None]
     IN IF r < game.latestRev \/ snoozed \/ ~Due(game.woken, r)
        THEN game' = fired /\ UNCHANGED lane
        ELSE Queue(fired)
  /\ UNCHANGED <<sessions, server, snoozed, ended, job, again, sweep, hist>>

-----------------------------------------------------------------------------
(* A wake on the lane *)

Done == job' = Idle

\* The next job starts; an earlier one has ended.
JobBegins ==
  /\ job = Idle /\ lane # <<>>
  /\ lane' = Tail(lane)
  /\ LET next == Head(lane)
     IN CASE next.kind = "wake" ->
               IF ~game.present THEN Done /\ UNCHANGED game
               ELSE /\ game' = [game EXCEPT !.queued = FALSE, !.pending = FALSE]
                    /\ IF game.pending /\ ~snoozed
                       THEN job' = [kind |-> "wake", phase |-> "read"] ELSE Done
          [] next.kind = "end" ->
               job' = Deletion("end", EveryGen, next.try, {}) /\ UNCHANGED game
          [] next.kind = "sweep" ->
               job' = Deletion("sweep", next.gens, 0, {}) /\ UNCHANGED game
  /\ UNCHANGED <<sessions, server, snoozed, ended, again, sweep, hist>>

\* The server answers the read of the game; the answer arrives a step later.
ServeView ==
  /\ At("read")
  /\ job' = [kind |-> "wake", phase |-> "view", rev |-> Rev]
  /\ UNCHANGED <<sessions, server, snoozed, game, ended, lane, again, sweep, hist>>

ViewFails ==
  /\ At("read")
  /\ Done
  /\ UNCHANGED <<sessions, server, snoozed, game, ended, lane, again, sweep, hist>>

\* Mutation: the retries of a revision start over with every wake.
Attempt_One(w, r) == 1

Attempt(w, r) == IF w.rev = r THEN w.tries + 1 ELSE 1

\* The view decides: over, not the agent's move, refused by allowFrom, or claimed.
ViewArrives ==
  /\ At("view")
  /\ LET r == job.rev
         read == [game EXCEPT !.latestRev = IF game.present THEN Max({@, r}) ELSE @]
     IN \/ said[r] = "over" /\ Ended(lane) /\ Done /\ UNCHANGED <<woke, refused>>
        \/ /\ said[r] = "other" \/ (said[r] = "agent" /\ ~Due(game.woken, r))
           /\ game' = read /\ Done
           /\ UNCHANGED <<ended, lane, woke, refused>>
        \/ /\ said[r] = "agent" /\ Due(game.woken, r) /\ Blockable
           /\ game' = [read EXCEPT !.woken = [rev |-> r, tries |-> Retries + 1, rest |-> "resting"]]
           /\ refused' = refused \cup {r}
           /\ Done /\ UNCHANGED <<ended, lane, woke>>
        \/ /\ said[r] = "agent" /\ Due(game.woken, r)
           /\ game' = [read EXCEPT !.timer = None,
                         !.woken = [rev |-> r, tries |-> Attempt(game.woken, r), rest |-> "running"]]
           /\ woke' = [woke EXCEPT ![r] = @ + 1]
           /\ job' = [kind |-> "wake", phase |-> "list"]
           /\ UNCHANGED <<ended, lane, refused>>
  /\ UNCHANGED <<sessions, server, snoozed, again, sweep, upsets>>

-----------------------------------------------------------------------------
(* The session and the turn of a claimed move *)

\* gameGenerationForMove up to its answer: keep the generation or rotate it,
\* never under a run still going on it.
ChooseSession ==
  /\ At("list")
  /\ \E listed \in Lists, sized \in BOOLEAN :
       LET known == Known(listed)
           rotate == /\ ~NotListedYet(known, listed) /\ Rotates(known, listed, sized)
                     /\ ~(known.gen \in listed /\ Busy(known.gen))
                     /\ known.gen < MaxGen
       IN /\ generation' = known
          /\ job' = IF rotate
                    THEN Deletion("wake", {known.gen}, 0, listed \ {Blind})
                    ELSE [kind |-> "wake", phase |-> "go", seen |-> listed \ {Blind}]
  /\ UNCHANGED <<stored, run, server, snoozed, game, ended, lane, again, sweep, hist>>

\* The move runs in its generation.
MoveGoes ==
  /\ At("go")
  /\ generation' = Counted(generation)
  /\ Receive(generation.gen)
  /\ job' = [kind |-> "wake", phase |-> "turn", gen |-> generation.gen, seen |-> job.seen]
  /\ UNCHANGED <<server, snoozed, game, ended, lane, again, sweep, hist>>

\* scheduleRetry: the backoff counts from the turn's end.
Rest(w) ==
  [game EXCEPT !.woken.rest = "resting",
               !.timer = IF game.present /\ w.tries <= Retries THEN w.rev ELSE None]

\* The dispatch settles when its run ended, or before: the host queued the
\* message behind a run, or the dispatch failed.
TurnSettles ==
  /\ At("turn")
  /\ game' = Rest(game.woken)
  /\ Done
  /\ UNCHANGED <<sessions, server, snoozed, ended, lane, again, sweep, hist>>

-----------------------------------------------------------------------------
(* A deletion on the lane *)

Again(outcome) ==
  IF job.kind = "end" /\ outcome = "busy" /\ job.try < CleanRetries
  THEN again \cup {job.try + 1} ELSE again

\* What follows a deletion: a rotated move goes on, in the next generation.
Deleted(outcome) ==
  /\ again' = Again(outcome)
  /\ sweep' = IF job.kind = "sweep" THEN NoSweep ELSE sweep
  /\ IF job.kind = "wake"
     THEN job' = [kind |-> "wake", phase |-> "go", seen |-> job.seen]
     ELSE Done

\* deleteGameSessions up to its first delete.
DeleteLook(listed) ==
  /\ At("look")
  /\ LET orWhole == job.kind = "sweep"
         targets == Targets(job.gens, orWhole, listed)
         next == IF job.kind = "wake" THEN Fresh(generation.gen + 1) ELSE generation
     IN IF Blind \in listed \/ targets = {} \/ \E g \in targets : Busy(g)
        THEN /\ Deleted(IF Blind \notin listed /\ targets # {} THEN "busy" ELSE "kept")
             /\ generation' = next
        ELSE /\ job' = [job EXCEPT !.phase = "clean", !.left = targets, !.listed = listed,
                                   !.whole = Whole(job.gens, orWhole, listed)]
             /\ UNCHANGED <<generation, again, sweep>>
  /\ UNCHANGED <<stored, run, server, snoozed, game, ended, lane, hist>>

\* The state of the moves after the last delete.
Forgotten(deleted) ==
  IF job.kind = "wake" THEN Fresh(generation.gen + 1)
  ELSE IF job.whole /\ deleted THEN NoGeneration ELSE generation

\* One call of the store: all sessions of the game, or one generation's; the
\* next one follows.  A prefix that reaches more than is meant is left out.
CleanDeletes ==
  /\ At("clean")
  /\ \E g \in job.left :
       LET left == IF job.whole THEN {} ELSE job.left \ {g}
           deletes == job.whole \/ Reachable(g, job.listed)
       IN /\ IF deletes THEN Delete(IF job.whole THEN Gens ELSE Reach(g)) ELSE UNCHANGED stored
          /\ IF left = {}
             THEN generation' = Forgotten(deletes) /\ Deleted("deleted")
             ELSE job' = [job EXCEPT !.left = left] /\ UNCHANGED <<generation, again, sweep>>
  /\ UNCHANGED <<run, server, snoozed, game, ended, lane, hist>>

\* A run went on one of them, or the store failed.
CleanFails ==
  /\ At("clean")
  /\ \E outcome \in {"busy", "kept"} :
       /\ outcome = "busy" => \E g \in Gens : Running(g)
       /\ Deleted(outcome)
  /\ generation' = Forgotten(FALSE)
  /\ UNCHANGED <<stored, run, server, snoozed, game, ended, lane, hist>>

CleanAgain ==
  /\ \E try \in again : again' = again \ {try} /\ lane' = Append(lane, EndJob(try))
  /\ UNCHANGED <<sessions, server, snoozed, game, ended, job, sweep, hist>>

-----------------------------------------------------------------------------
(* sweepGameSessions: reads outside the lane, deletions on it *)

SweepLook ==
  /\ sweep = NoSweep /\ Stored # {}
  /\ sweep' = [phase |-> "ask", gens |-> Stored]
  /\ UNCHANGED <<sessions, server, snoozed, game, ended, lane, job, again, hist>>

\* What the sweep deletes: all of an ended game's, the earlier ones of a live one's.
SweepGens(gens, live) == IF live THEN gens \ {Max(gens)} ELSE EveryGen

SweepAsk ==
  /\ sweep.phase = "ask"
  /\ IF ~Over /\ SweepGens(sweep.gens, TRUE) = {}
     THEN sweep' = NoSweep /\ UNCHANGED lane
     ELSE /\ lane' = Append(lane, SweepJob(SweepGens(sweep.gens, ~Over)))
          /\ sweep' = [phase |-> "queued"]
  /\ UNCHANGED <<sessions, server, snoozed, game, ended, job, again, hist>>

SweepFails ==
  /\ sweep.phase = "ask"
  /\ sweep' = NoSweep
  /\ UNCHANGED <<sessions, server, snoozed, game, ended, lane, job, again, hist>>

-----------------------------------------------------------------------------

\* The gateway dies and starts again: its memory and its runs are gone.
Restart ==
  /\ upsets < MaxUpsets
  /\ upsets' = upsets + 1
  /\ run' = [g \in Gens |-> "none"] /\ generation' = NoGeneration
  /\ game' = Unseen /\ ended' = FALSE
  /\ lane' = <<>> /\ job' = Idle /\ again' = {} /\ sweep' = NoSweep
  /\ woke' = [r \in Revs |-> 0] /\ refused' = {}
  /\ UNCHANGED <<stored, server, snoozed>>

OnHost == UNCHANGED <<server, snoozed, wakes, hist>>
Runs == \E g \in Gens : (RunEnds(g) \/ RunStarts(g)) /\ OnHost
Wears == \E g \in Gens : Wear(g) /\ OnHost
Lane == JobBegins \/ ViewArrives \/ ChooseSession \/ MoveGoes \/ TurnSettles
Timers == BackoffPasses \/ TimerFires \/ CleanAgain

Next ==
  \/ \E next \in {"agent", "other", "over"} : Play(next)
  \/ Snooze \/ Runs \/ Wears
  \/ \E r \in Revs : Signal(r)
  \/ Lane \/ ServeView \/ ViewFails
  \/ \E listed \in Lists : DeleteLook(listed)
  \/ CleanDeletes \/ CleanFails
  \/ Timers
  \/ SweepLook \/ SweepAsk \/ SweepFails
  \/ Restart

\* The plugin runs on and its timers fire; the catch-up list tells of the game
\* again and again; the host's runs end and its queued messages start; requests
\* and deletes that are tried again and again succeed in the end.
Fairness ==
  /\ WF_vars(Lane) /\ WF_vars(Timers) /\ WF_vars(Runs)
  /\ WF_vars(Signal(Rev))
  /\ WF_vars(ServeView \/ ViewFails) /\ SF_vars(ServeView)
  /\ WF_vars(\E listed \in Lists : DeleteLook(listed)) /\ SF_vars(DeleteLook(Stored))
  /\ WF_vars(CleanDeletes \/ CleanFails) /\ SF_vars(CleanDeletes)
  /\ WF_vars(SweepLook) /\ SF_vars(SweepAsk)

Spec == Init /\ [][Next]_vars /\ Fairness

-----------------------------------------------------------------------------
(* Safety *)

\* A move never runs in a generation older than one it saw in the store,
\* whatever this process remembers and rotated since (session.ts:820-880).
NewestPlayed == At("turn") => \A g \in job.seen : g <= job.gen

\* A revision is woken at most once and on each backoff, however its signals
\* repeat and overtake each other (wake.ts:206-255).
WakesBounded == \A r \in Revs : woke[r] <= Retries + 1

\* One move of a game at a time: no second wake of it waits on the lane, and
\* none is claimed twice while its turn runs (wake.ts:222-230).
OneWakeQueued ==
  /\ Cardinality({i \in DOMAIN lane : lane[i].kind = "wake"}) <= 1
  /\ game.present /\ game.pending => \E i \in DOMAIN lane : lane[i].kind = "wake"

\* Wakes are counted and never doubled, of a state that keeps its types.
WakeInv == TypeOK /\ WakesBounded /\ OneWakeQueued

\* While a game goes, a deletion takes nothing it saw but what it means: a rotation
\* the generation its move leaves, a sweep those that were not the newest when it
\* looked, or all at once where none can be singled out (session.ts:930-1068).
DeletesTheMeant ==
  [][\A g \in Stored \ Stored' : ~Over =>
       \/ g \notin job.listed
       \/ g \in job.gens /\ (job.kind = "wake" => g = generation.gen)
       \/ job.kind = "sweep" /\ Stored' = {}]_vars

-----------------------------------------------------------------------------
(* Liveness *)

\* A move of the agent is made in the end, or it was woken for it until its
\* retries were spent, unless it is snoozed or allowFrom refuses (wake.ts header).
StallRetried ==
  <>[](said[Rev] = "agent" => snoozed \/ Rev \in refused \/ woke[Rev] = Retries + 1)

\* An ended game leaves no session behind, in the end, though a message queued
\* in the host may bring one back after the cleanup.
EndedForgotten == <>[](Over => Stored = {})

\* What a rotation could not delete goes while the game still goes on.
RotatedGoes == <>[](Cardinality(Stored) <= 1)

\* Sessions do not pile up: neither those of ended games nor those of earlier moves.
SessionsGo == EndedForgotten /\ RotatedGoes
=============================================================================
