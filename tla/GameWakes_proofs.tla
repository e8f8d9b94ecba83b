-------------------------- MODULE GameWakes_proofs --------------------------
(***************************************************************************)
(* The safety properties of GameWakes, proved for every number of          *)
(* generations and revisions, every number of retries and every bound.     *)
(*                                                                         *)
(* NewestPlayed and WakesBounded look at the end of a wake that took many  *)
(* steps.  NewestPlayed rests on what the wake carries from its list of    *)
(* the store to its turn (SeenInv); WakesBounded on the claim that counts  *)
(* the tries of a revision (Claimed), which the end of a game forgets:     *)
(* then no wake may start any more, which is why the lane and what the     *)
(* process knows of the game have to agree (LaneInv).  DeletesTheMeant     *)
(* rests on the deletions of a whole game starting only once the server    *)
(* called it over (EndsOver).                                              *)
(***************************************************************************)
EXTENDS GameWakes, FiniteSetTheorems, WellFoundedInduction, TLAPS

-----------------------------------------------------------------------------
(* The inductive invariant *)

Saids == {"agent", "other", "over"}
Wokens == [rev : Revs \cup {None}, tries : 0 .. Retries + 2,
           rest : {"running", "resting", "rested"}]
Games == [present : BOOLEAN, latestRev : Revs \cup {None}, pending : BOOLEAN,
          queued : BOOLEAN, timer : Revs \cup {None}, woken : Wokens]
LaneJobs == {WakeJob} \cup {EndJob(try) : try \in 0 .. CleanRetries}
                      \cup {SweepJob(gens) : gens \in SUBSET Gens}

\* A job at each of its awaits.
Deletions ==
  [kind : {"wake", "end", "sweep"}, phase : {"look", "clean"}, gens : SUBSET Gens,
   try : 0 .. CleanRetries, seen : SUBSET Gens, left : SUBSET Gens,
   listed : SUBSET Gens, whole : BOOLEAN]
Asks == [kind : {"wake"}, phase : {"read", "list"}]
Views == [kind : {"wake"}, phase : {"view"}, rev : Revs]
Goes == [kind : {"wake"}, phase : {"go"}, seen : SUBSET Gens]
Turns == [kind : {"wake"}, phase : {"turn"}, gen : Gens, seen : SUBSET Gens]
Jobs == {Idle} \cup Asks \cup Views \cup Goes \cup Turns \cup Deletions
Sweeps ==
  {NoSweep} \cup [phase : {"ask"}, gens : (SUBSET Gens) \ {{}}] \cup [phase : {"queued"}]

Typed ==
  /\ SessionsTypeOK
  /\ said \in Seq(Saids) /\ Rev \in Revs
  /\ snoozed \in BOOLEAN /\ ended \in BOOLEAN
  /\ game \in Games /\ game.woken.tries <= Retries + 1
  /\ lane \in Seq(LaneJobs) /\ job \in Jobs /\ sweep \in Sweeps
  /\ again \subseteq 1 .. CleanRetries
  /\ woke \in [Revs -> Nat] /\ refused \subseteq Revs

HasWake(l) == \E i \in DOMAIN l : l[i].kind = "wake"
OneWake(l) == \A i, j \in DOMAIN l : l[i].kind = "wake" /\ l[j].kind = "wake" => i = j

\* What the process knows of the game and what waits on the lane agree: a pending
\* signal has its one wake there, and a wake left over has nothing to wake.
LaneInv ==
  /\ OneWake(lane)
  /\ game.queued => game.present /\ HasWake(lane)
  /\ game.pending => game.queued
  /\ HasWake(lane) => game.queued \/ ended
  /\ game.timer # None => game.present
  /\ ended => ~game.present

\* The tries of the claimed revision count its wakes, and no later one was woken; the
\* end of the game forgets the claim, but then no wake begins.
Claimed ==
  /\ \A r \in Revs : woke[r] <= Retries + 1
  /\ game.woken.rev <= Rev
  /\ game.woken.rev # None => woke[game.woken.rev] <= game.woken.tries
  /\ (ended /\ job.kind # "wake") \/ \A r \in Revs : r > game.woken.rev => woke[r] = 0
  /\ At("view") => game.woken.rev <= job.rev /\ job.rev <= Rev

Rotating == job.kind = "wake" /\ (At("look") \/ At("clean"))
Choosing == Rotating \/ At("go")

\* From its list on a wake knows the newest generation that it saw.
SeenInv ==
  /\ Choosing => generation # NoGeneration /\ \A g \in job.seen : g <= generation.gen
  /\ Rotating => job.gens = {generation.gen} /\ generation.gen < MaxGen /\ ~job.whole
  /\ At("turn") => \A g \in job.seen : g <= job.gen

\* Only an ended game is cleaned up, and a deletion that is not of the whole game keeps
\* to its generations.
EndsOver ==
  /\ \A r \in 1 .. Rev : said[r] = "over" => r = Rev
  /\ \A i \in DOMAIN lane : lane[i].kind = "end" => Over
  /\ job.kind = "end" => Over
  /\ again # {} => Over
  /\ At("clean") => job.whole \/ job.left \subseteq job.gens

IInv == Typed /\ LaneInv /\ Claimed /\ SeenInv /\ EndsOver

-----------------------------------------------------------------------------
(* The lane, the jobs and the games *)

LEMMA Sizes ==
  /\ MaxGen \in Nat /\ UNMEASURED \in Nat \ {0} /\ BlindLists \in BOOLEAN
  /\ MaxRev \in Nat \ {0} /\ Retries \in Nat /\ CleanRetries \in Nat /\ MaxUpsets \in Nat
  BY SessionsAssumption, WakesAssumption DEF SessionsAssumption, WakesAssumption

LEMMA AppendElements ==
  ASSUME NEW S, NEW s \in Seq(S), NEW a \in S
  PROVE  /\ Append(s, a) \in Seq(S) /\ DOMAIN s \subseteq DOMAIN Append(s, a)
         /\ \A i \in DOMAIN s : Append(s, a)[i] = s[i]
         /\ Len(s) + 1 \in DOMAIN Append(s, a) /\ Append(s, a)[Len(s) + 1] = a
         /\ \A i \in DOMAIN Append(s, a) : i \in DOMAIN s \/ i = Len(s) + 1
         /\ Len(Append(s, a)) = Len(s) + 1
  OBVIOUS

LEMMA TailElements ==
  ASSUME NEW S, NEW s \in Seq(S), s # <<>>
  PROVE  /\ Head(s) \in S /\ Tail(s) \in Seq(S)
         /\ 1 \in DOMAIN s /\ Head(s) = s[1]
         /\ \A i \in DOMAIN Tail(s) : i \in Nat \ {0} /\ i + 1 \in DOMAIN s /\ Tail(s)[i] = s[i + 1]
         /\ \A i \in DOMAIN s : i = 1 \/ (i - 1 \in DOMAIN Tail(s) /\ Tail(s)[i - 1] = s[i])
  OBVIOUS

\* A job that is no wake leaves the wakes on the lane alone; a wake joins a lane
\* without one.
LEMMA LaneAppends ==
  ASSUME NEW S, NEW l \in Seq(S), NEW a \in S, OneWake(l), a.kind = "wake" => ~HasWake(l)
  PROVE  /\ OneWake(Append(l, a))
         /\ HasWake(Append(l, a)) <=> HasWake(l) \/ a.kind = "wake"
         /\ \A k : (\E i \in DOMAIN Append(l, a) : Append(l, a)[i].kind = k)
                     => a.kind = k \/ \E i \in DOMAIN l : l[i].kind = k
  <1> DEFINE m == Append(l, a)
             n == Len(l) + 1
  <1>1. /\ \A i \in DOMAIN l : i \in DOMAIN m /\ m[i] = l[i]
        /\ n \in DOMAIN m /\ m[n] = a
        /\ \A i \in DOMAIN m : i \in DOMAIN l \/ i = n
    BY AppendElements
  <1> HIDE DEF m, n
  <1>2. HasWake(m) <=> HasWake(l) \/ a.kind = "wake"
    BY <1>1 DEF HasWake
  <1>3. ASSUME NEW i \in DOMAIN m, NEW j \in DOMAIN m, m[i].kind = "wake", m[j].kind = "wake"
        PROVE  i = j
    BY <1>1, <1>3, Zenon DEF OneWake, HasWake
  <1>4. OneWake(m)
    BY <1>3, Zenon DEF OneWake
  <1>5. \A k : (\E i \in DOMAIN m : m[i].kind = k) => a.kind = k \/ \E i \in DOMAIN l : l[i].kind = k
    BY <1>1
  <1> QED BY <1>2, <1>4, <1>5 DEF m

LEMMA LaneTail ==
  ASSUME NEW S, NEW l \in Seq(S), l # <<>>, OneWake(l)
  PROVE  /\ OneWake(Tail(l))
         /\ Head(l).kind = "wake" => HasWake(l) /\ ~HasWake(Tail(l))
         /\ Head(l).kind # "wake" => (HasWake(Tail(l)) <=> HasWake(l))
         /\ \A i \in DOMAIN Tail(l) : \E j \in DOMAIN l : Tail(l)[i] = l[j]
         /\ \E j \in DOMAIN l : Head(l) = l[j]
  <1> DEFINE m == Tail(l)
             h == Head(l)
  <1>1. /\ 1 \in DOMAIN l /\ h = l[1]
        /\ \A i \in DOMAIN m : i \in Nat \ {0} /\ i + 1 \in DOMAIN l /\ m[i] = l[i + 1]
        /\ \A i \in DOMAIN l : i = 1 \/ (i - 1 \in DOMAIN m /\ m[i - 1] = l[i])
    BY TailElements
  <1> HIDE DEF m, h
  <1>2. OneWake(m)
    BY <1>1 DEF OneWake
  <1>3. ASSUME h.kind = "wake" PROVE HasWake(l) /\ ~HasWake(m)
    <2>1. HasWake(l)
      BY <1>1, <1>3 DEF HasWake
    <2>2. ASSUME NEW i \in DOMAIN m, m[i].kind = "wake" PROVE FALSE
      <3>1. i + 1 \in DOMAIN l /\ l[i + 1].kind = "wake" /\ i + 1 # 1
        BY <1>1, <2>2
      <3> QED BY <1>1, <1>3, <3>1 DEF OneWake
    <2> QED BY <2>1, <2>2 DEF HasWake
  <1>4. ASSUME h.kind # "wake" PROVE HasWake(m) <=> HasWake(l)
    BY <1>1, <1>4 DEF HasWake
  <1>5. \A i \in DOMAIN m : \E j \in DOMAIN l : m[i] = l[j]
    BY <1>1
  <1> QED BY <1>1, <1>2, <1>3, <1>4, <1>5 DEF m, h

\* What a job is at each of its awaits.
LEMMA JobShapes ==
  ASSUME job \in Jobs
  PROVE  /\ At("read") => job \in Asks
         /\ At("list") => job \in Asks
         /\ At("view") => job \in Views
         /\ At("go") => job \in Goes
         /\ At("turn") => job \in Turns
         /\ At("look") => job \in Deletions
         /\ At("clean") => job \in Deletions
         /\ job.kind \in {"idle", "wake", "end", "sweep"}
         /\ job.kind \in {"end", "sweep"} => job \in Deletions
  BY DEF At, Jobs, Idle, Asks, Views, Goes, Turns, Deletions

-----------------------------------------------------------------------------
(* The greatest of a set *)

\* A set of generations that is not empty has a greatest one.
LEMMA MaxOfGens ==
  ASSUME NEW S \in SUBSET Gens, S # {}
  PROVE  Max(S) \in S /\ \A y \in S : y <= Max(S)
  <1> DEFINE R == {ss \in Nat \X Nat : ss[1] < ss[2]}
             T == {MaxGen - g : g \in S}
  <1>1. MaxGen \in Nat /\ S \subseteq 0 .. MaxGen
    BY Sizes DEF Gens
  <1>2. \A g \in S : MaxGen - g \in Nat /\ MaxGen - g \in T
    BY <1>1
  <1>3. T \in SUBSET Nat /\ T # {}
    BY <1>1, <1>2
  <1>4. \A x, y \in Nat : x < y => <<x, y>> \in R
    OBVIOUS
  <1>5. IsWellFoundedOn(R, Nat)
    BY NatLessThanWellFounded, Zenon DEF OpToRel
  <1> HIDE DEF R
  <1>6. PICK x \in S : \A u \in T : <<u, MaxGen - x>> \notin R
    <2>1. \A t \in T : \E x \in S : t = MaxGen - x
      OBVIOUS
    <2> HIDE DEF T
    <2>2. \E t \in T : \A u \in T : <<u, t>> \notin R
      BY <1>3, <1>5, WFMin
    <2> QED BY <2>1, <2>2
  <1>7. \A y \in S : x >= y
    <2> TAKE y \in S
    <2>1. ~(MaxGen - y < MaxGen - x)
      BY <1>2, <1>4, <1>6
    <2> QED BY <1>1, <2>1
  <1>8. \E m \in S : \A y \in S : m >= y
    BY <1>7
  <1>9. Max(S) \in S /\ \A y \in S : Max(S) >= y
    BY <1>8 DEF Max
  <1> QED BY <1>9, Sizes DEF Gens

LEMMA MaxOfTwo ==
  ASSUME NEW a \in Int, NEW b \in Int
  PROVE  Max({a, b}) = IF a <= b THEN b ELSE a
  <1> DEFINE m == IF a <= b THEN b ELSE a
  <1>1. m \in {a, b} /\ \A y \in {a, b} : m >= y
    OBVIOUS
  <1>2. Max({a, b}) \in {a, b} /\ \A y \in {a, b} : Max({a, b}) >= y
    BY <1>1 DEF Max
  <1> QED BY <1>2

-----------------------------------------------------------------------------
(* What a step does to the game and the lane *)

WokenSame == game'.woken.rev = game.woken.rev /\ game'.woken.tries = game.woken.tries

\* What the process knows of the game changes, not what waits for it.
Notes ==
  /\ game' \in Games /\ UNCHANGED <<ended, lane>>
  /\ game'.queued = game.queued /\ (game'.pending => game.pending)
  /\ game.present => game'.present
  /\ game'.present => game.present \/ ~ended
  /\ game'.timer # None => game'.present

\* A signal is pending, and its wake waits.
Queues ==
  /\ game' \in Games /\ UNCHANGED ended /\ ~ended
  /\ game'.present /\ game'.queued /\ game'.pending
  /\ lane' = IF game.queued THEN lane ELSE Append(lane, WakeJob)

\* The game is over: its cleanup waits.
Forgets ==
  /\ Over /\ ended' = TRUE /\ lane' = Append(lane, EndJob(0))
  /\ game' \in Games /\ ~game'.present /\ ~game'.queued /\ ~game'.pending
  /\ game'.timer = None
  /\ game'.woken = IF job.kind = "wake" THEN game.woken ELSE NoWoken

\* Another job than a wake joins the lane.
Joins(a) ==
  /\ UNCHANGED <<game, ended>> /\ lane' = Append(lane, a)
  /\ a \in LaneJobs /\ a.kind # "wake" /\ (a.kind = "end" => Over)

\* The next job leaves the lane; a wake takes the signal with it.
Begins ==
  /\ lane # <<>> /\ lane' = Tail(lane) /\ UNCHANGED ended
  /\ \/ Head(lane).kind # "wake" /\ UNCHANGED game
     \/ Head(lane).kind = "wake" /\ ~game.present /\ UNCHANGED game
     \/ /\ Head(lane).kind = "wake" /\ game.present /\ game' \in Games
        /\ ~game'.queued /\ ~game'.pending
        /\ game'.present /\ game'.timer = game.timer /\ game'.woken = game.woken

LEMMA UnseenGame ==
  /\ Unseen \in Games /\ NoWoken \in Wokens
  /\ ~Unseen.present /\ ~Unseen.queued /\ ~Unseen.pending /\ Unseen.timer = None
  /\ Unseen.woken = NoWoken /\ NoWoken.rev = None /\ NoWoken.tries = 0
  BY Sizes DEF Unseen, NoWoken, Games, Wokens, None

LEMMA ForgetsAt ==
  ASSUME IInv, Ended(lane), Over
  PROVE  Forgets
  <1> DEFINE w == IF job.kind = "wake" THEN game.woken ELSE NoWoken
  <1>1. w \in Wokens
    BY UnseenGame DEF IInv, Typed, Games
  <1>2. game' = [Unseen EXCEPT !.woken = w] /\ ended' = TRUE /\ lane' = Append(lane, EndJob(0))
    BY DEF Ended
  <1> HIDE DEF w
  <1>3. game' = [present |-> FALSE, latestRev |-> None, pending |-> FALSE, queued |-> FALSE,
                 woken |-> w, timer |-> None]
    BY <1>2 DEF Unseen
  <1>4. game' \in Games
    BY <1>1, <1>3 DEF Games
  <1>5. ~game'.present /\ ~game'.queued /\ ~game'.pending /\ game'.timer = None /\ game'.woken = w
    BY <1>3
  <1> QED BY <1>2, <1>4, <1>5 DEF Forgets, w

\* A signal and the timer queue the wake of a game that is known.
LEMMA QueuesAt ==
  ASSUME IInv, NEW g \in Games, g.present, g.queued = game.queued, ~ended, UNCHANGED ended,
         Queue(g)
  PROVE  Queues /\ game'.woken = g.woken
  <1>1. /\ game' = [g EXCEPT !.pending = TRUE, !.queued = TRUE]
        /\ lane' = IF g.queued THEN lane ELSE Append(lane, WakeJob)
    BY DEF Queue
  <1>2. game' \in Games
    BY <1>1 DEF Games
  <1>3. game'.present = g.present /\ game'.queued /\ game'.pending /\ game'.woken = g.woken
    BY <1>1 DEF Games
  <1>4. lane' = IF game.queued THEN lane ELSE Append(lane, WakeJob)
    BY <1>1
  <1> QED BY <1>2, <1>3, <1>4, Zenon DEF Queues

LEMMA SignalAt ==
  ASSUME IInv, NEW r \in Revs, Signal(r)
  PROVE  \/ UNCHANGED <<game, ended, lane>>
         \/ Forgets
         \/ (Notes \/ Queues) /\ WokenSame
  <1> DEFINE seen == [game EXCEPT !.present = TRUE, !.latestRev = r]
             other == [seen EXCEPT !.pending = FALSE, !.timer = None]
  <1>1. game \in Games
    BY DEF IInv, Typed
  <1>2. /\ seen \in Games /\ seen.present /\ seen.queued = game.queued
        /\ seen.pending = game.pending /\ seen.woken = game.woken
    BY <1>1 DEF Games
  <1>3. \/ UNCHANGED <<game, ended, lane>>
        \/ said[r] = "over" /\ Ended(lane)
        \/ ~ended /\ UNCHANGED ended /\ game' \in {seen, other} /\ UNCHANGED lane
        \/ ~ended /\ UNCHANGED ended /\ Queue(seen)
    BY DEF Signal, Offer
  <1> HIDE DEF seen
  <1>4. /\ other \in Games /\ other.present = seen.present /\ other.queued = seen.queued
        /\ ~other.pending /\ other.woken = seen.woken
    BY <1>2 DEF Games
  <1> HIDE DEF other
  <1>5. CASE said[r] = "over" /\ Ended(lane)
    <2>1. Over
      BY <1>5 DEF Signal, IInv, EndsOver, Over, Revs
    <2> QED BY <1>5, <2>1, ForgetsAt
  <1>6. CASE ~ended /\ UNCHANGED ended /\ game' \in {seen, other} /\ UNCHANGED lane
    <2>1. /\ game' \in Games /\ game'.present /\ game'.queued = game.queued
          /\ game'.woken = game.woken /\ (game'.pending => game.pending)
      BY <1>2, <1>4, <1>6, Zenon
    <2>2. Notes
      BY <1>6, <2>1, Zenon DEF Notes
    <2> QED BY <2>1, <2>2, Zenon DEF WokenSame
  <1>7. CASE ~ended /\ UNCHANGED ended /\ Queue(seen)
    BY <1>2, <1>7, QueuesAt, Zenon DEF WokenSame
  <1> QED BY <1>3, <1>5, <1>6, <1>7

LEMMA TimersAt ==
  ASSUME IInv, BackoffPasses \/ TimerFires
  PROVE  (Notes \/ Queues) /\ WokenSame
  <1>1. /\ game \in Games /\ game.woken \in Wokens
        /\ (game.timer # None => game.present) /\ (ended => ~game.present)
    BY DEF IInv, Typed, Games, LaneInv
  <1>2. CASE BackoffPasses
    <2> DEFINE w == [game.woken EXCEPT !.rest = "rested"]
    <2>1. w \in Wokens /\ w.rev = game.woken.rev /\ w.tries = game.woken.tries
      BY <1>1 DEF Wokens
    <2>2. game' = [game EXCEPT !.woken = w]
      BY <1>2 DEF BackoffPasses
    <2> HIDE DEF w
    <2>3. /\ game' \in Games /\ game'.present = game.present /\ game'.queued = game.queued
          /\ game'.pending = game.pending /\ game'.timer = game.timer /\ game'.woken = w
      BY <1>1, <2>1, <2>2 DEF Games
    <2>4. UNCHANGED <<ended, lane>>
      BY <1>2 DEF BackoffPasses
    <2>5. Notes
      BY <1>1, <2>3, <2>4, Zenon DEF Notes
    <2> QED BY <2>1, <2>3, <2>5, Zenon DEF WokenSame
  <1>3. CASE TimerFires
    <2> DEFINE fired == [game EXCEPT !.timer = None]
    <2>1. /\ fired \in Games /\ fired.present = game.present /\ fired.queued = game.queued
          /\ fired.pending = game.pending /\ fired.timer = None /\ fired.woken = game.woken
      BY <1>1 DEF Games
    <2>2. /\ game.timer # None /\ UNCHANGED ended
          /\ \/ game' = fired /\ UNCHANGED lane
             \/ Queue(fired)
      BY <1>3 DEF TimerFires
    <2> HIDE DEF fired
    <2>3. game.present /\ ~ended
      BY <1>1, <2>2, Zenon
    <2>4. CASE game' = fired /\ UNCHANGED lane
      <3>1. Notes
        BY <2>1, <2>2, <2>3, <2>4, Zenon DEF Notes
      <3> QED BY <2>1, <2>4, <3>1, Zenon DEF WokenSame
    <2>5. CASE Queue(fired)
      <3>1. fired.present
        BY <2>1, <2>3, Zenon
      <3> QED BY <2>1, <2>2, <2>3, <2>5, <3>1, QueuesAt, Zenon DEF WokenSame
    <2> QED BY <2>2, <2>4, <2>5
  <1> QED BY <1>2, <1>3

LEMMA BeginsAt ==
  ASSUME IInv, JobBegins
  PROVE  /\ Begins /\ job = Idle
         /\ \/ Head(lane).kind = "wake" /\ job' = Idle
            \/ /\ Head(lane).kind = "wake" /\ game.present
               /\ job' = [kind |-> "wake", phase |-> "read"]
            \/ /\ Head(lane).kind = "end"
               /\ job' = Deletion("end", EveryGen, Head(lane).try, {})
            \/ Head(lane).kind = "sweep" /\ job' = Deletion("sweep", Head(lane).gens, 0, {})
         /\ UNCHANGED <<sessions, server, snoozed, again, sweep, hist>>
  <1> DEFINE h == Head(lane)
             taken == [game EXCEPT !.queued = FALSE, !.pending = FALSE]
  <1>1. game \in Games /\ lane \in Seq(LaneJobs) /\ lane # <<>>
    BY DEF IInv, Typed, JobBegins
  <1>2. /\ taken \in Games /\ ~taken.queued /\ ~taken.pending /\ taken.present = game.present
        /\ taken.timer = game.timer /\ taken.woken = game.woken
    BY <1>1 DEF Games
  <1>3. h \in LaneJobs
    BY <1>1, TailElements
  <1>4. h.kind \in {"wake", "end", "sweep"}
    BY <1>3 DEF LaneJobs, WakeJob, EndJob, SweepJob
  <1>5. CASE h.kind = "wake"
    <2>1. IF ~game.present THEN job' = Idle /\ UNCHANGED game
          ELSE game' = taken /\ (job' = [kind |-> "wake", phase |-> "read"] \/ job' = Idle)
      BY <1>5 DEF JobBegins, Done
    <2> HIDE DEF taken
    <2>2. \/ UNCHANGED game /\ ~game.present
          \/ /\ game.present /\ game' \in Games /\ ~game'.queued /\ ~game'.pending
             /\ game'.present /\ game'.timer = game.timer /\ game'.woken = game.woken
      BY <1>2, <2>1, Zenon
    <2>3. lane # <<>> /\ lane' = Tail(lane) /\ UNCHANGED ended
      BY DEF JobBegins
    <2>4. Begins
      BY <1>5, <2>2, <2>3, Zenon DEF Begins
    <2>5. job' = Idle \/ (game.present /\ job' = [kind |-> "wake", phase |-> "read"])
      BY <2>1, Zenon
    <2>6. job = Idle /\ UNCHANGED <<sessions, server, snoozed, again, sweep, hist>>
      BY DEF JobBegins
    <2> QED BY <1>5, <2>4, <2>5, <2>6
  <1>6. CASE h.kind = "end"
    BY <1>6 DEF JobBegins, Begins
  <1>7. CASE h.kind = "sweep"
    BY <1>7 DEF JobBegins, Begins
  <1> QED BY <1>4, <1>5, <1>6, <1>7

\* A wake that found the game to wait on the agent, and may be tried.
Takes(r) == said[r] = "agent" /\ Due(game.woken, r) /\ Notes

LEMMA ViewArrivesAt ==
  ASSUME IInv, ViewArrives
  PROVE  /\ job \in Views /\ job.rev \in Revs /\ job.rev <= Rev
         /\ \/ Forgets /\ job' = Idle /\ UNCHANGED <<woke, refused>>
            \/ Notes /\ game'.woken = game.woken /\ job' = Idle /\ UNCHANGED <<woke, refused>>
            \/ /\ Takes(job.rev)
               /\ game'.woken = [rev |-> job.rev, tries |-> Retries + 1, rest |-> "resting"]
               /\ job' = Idle /\ UNCHANGED woke /\ refused' = refused \cup {job.rev}
            \/ /\ Takes(job.rev)
               /\ game'.woken = [rev |-> job.rev, tries |-> Attempt(game.woken, job.rev),
                                 rest |-> "running"]
               /\ woke' = [woke EXCEPT ![job.rev] = @ + 1] /\ UNCHANGED refused
               /\ job' = [kind |-> "wake", phase |-> "list"]
         /\ UNCHANGED <<sessions, server, snoozed, again, sweep, upsets>>
  <1> DEFINE r == job.rev
             latest == IF game.present THEN Max({game.latestRev, r}) ELSE game.latestRev
             read == [game EXCEPT !.latestRev = latest]
             refusal == [rev |-> r, tries |-> Retries + 1, rest |-> "resting"]
             claim == [rev |-> r, tries |-> Attempt(game.woken, r), rest |-> "running"]
             denied == [read EXCEPT !.woken = refusal]
             claimed == [read EXCEPT !.timer = None, !.woken = claim]
  <1>1. game \in Games /\ game.woken \in Wokens /\ job \in Jobs /\ game.woken.tries <= Retries + 1
    BY DEF IInv, Typed, Games
  <1>2. job \in Views /\ r \in Revs
    BY <1>1, JobShapes DEF ViewArrives, Views
  <1>3. r <= Rev
    BY DEF IInv, Claimed, ViewArrives
  <1>4. latest \in Revs \cup {None}
    <2>1. game.latestRev \in Revs \cup {None} /\ Revs \subseteq Int /\ None \in Int
      BY <1>1 DEF Games, Revs, None
    <2>2. Max({game.latestRev, r}) \in {game.latestRev, r}
      BY <1>2, <2>1, MaxOfTwo
    <2> QED BY <1>2, <2>1, <2>2
  <1>5. /\ \/ said[r] = "over" /\ Ended(lane) /\ job' = Idle /\ UNCHANGED <<woke, refused>>
           \/ game' = read /\ job' = Idle /\ UNCHANGED <<ended, lane, woke, refused>>
           \/ /\ said[r] = "agent" /\ Due(game.woken, r)
              /\ game' = denied /\ refused' = refused \cup {r}
              /\ job' = Idle /\ UNCHANGED <<ended, lane, woke>>
           \/ /\ said[r] = "agent" /\ Due(game.woken, r)
              /\ game' = claimed /\ woke' = [woke EXCEPT ![r] = @ + 1]
              /\ job' = [kind |-> "wake", phase |-> "list"]
              /\ UNCHANGED <<ended, lane, refused>>
        /\ UNCHANGED <<sessions, server, snoozed, again, sweep, upsets>>
    BY DEF ViewArrives, Done
  <1>6. refusal \in Wokens /\ (Due(game.woken, r) => claim \in Wokens)
    BY <1>1, <1>2, Sizes DEF Wokens, Due, Attempt
  <1> HIDE DEF latest
  <1>7. /\ read \in Games /\ read.present = game.present /\ read.queued = game.queued
        /\ read.pending = game.pending /\ read.timer = game.timer /\ read.woken = game.woken
    BY <1>1, <1>4 DEF Games
  <1> HIDE DEF read, refusal, claim
  <1>8. /\ denied \in Games /\ denied.present = read.present /\ denied.queued = read.queued
        /\ denied.pending = read.pending /\ denied.timer = read.timer /\ denied.woken = refusal
    BY <1>6, <1>7 DEF Games
  <1>9. ASSUME Due(game.woken, r)
        PROVE  /\ claimed \in Games /\ claimed.present = read.present
               /\ claimed.queued = read.queued /\ claimed.pending = read.pending
               /\ claimed.timer = None /\ claimed.woken = claim
    BY <1>6, <1>7, <1>9 DEF Games
  <1> HIDE DEF denied, claimed
  <1>10. game.timer # None => game.present
    BY DEF IInv, LaneInv
  <1>11. CASE said[r] = "over" /\ Ended(lane) /\ job' = Idle /\ UNCHANGED <<woke, refused>>
    <2>1. Over
      BY <1>2, <1>3, <1>11 DEF IInv, EndsOver, Over, Revs
    <2> QED BY <1>2, <1>3, <1>5, <1>11, <2>1, ForgetsAt
  <1>12. CASE game' = read /\ job' = Idle /\ UNCHANGED <<ended, lane, woke, refused>>
    <2>1. Notes
      BY <1>7, <1>10, <1>12, Zenon DEF Notes
    <2> QED BY <1>2, <1>3, <1>5, <1>7, <1>12, <2>1
  <1>13. CASE /\ said[r] = "agent" /\ Due(game.woken, r)
              /\ game' = denied /\ refused' = refused \cup {r}
              /\ job' = Idle /\ UNCHANGED <<ended, lane, woke>>
    <2>1. Notes
      BY <1>7, <1>8, <1>10, <1>13, Zenon DEF Notes
    <2> QED BY <1>2, <1>3, <1>5, <1>8, <1>13, <2>1 DEF refusal, Takes
  <1>14. CASE /\ said[r] = "agent" /\ Due(game.woken, r)
              /\ game' = claimed /\ woke' = [woke EXCEPT ![r] = @ + 1]
              /\ job' = [kind |-> "wake", phase |-> "list"]
              /\ UNCHANGED <<ended, lane, refused>>
    <2>1. Notes
      BY <1>7, <1>9, <1>14, Zenon DEF Notes
    <2> QED BY <1>2, <1>3, <1>5, <1>9, <1>14, <2>1 DEF claim, Takes
  <1> QED BY <1>5, <1>11, <1>12, <1>13, <1>14

LEMMA TurnSettlesAt ==
  ASSUME IInv, TurnSettles
  PROVE  /\ Notes /\ WokenSame /\ job \in Turns /\ job' = Idle
         /\ UNCHANGED <<sessions, server, snoozed, again, sweep, hist>>
  <1> DEFINE w == [game.woken EXCEPT !.rest = "resting"]
             timer == IF game.present /\ game.woken.tries <= Retries
                      THEN game.woken.rev ELSE None
  <1>1. game \in Games /\ game.woken \in Wokens /\ job \in Jobs
    BY DEF IInv, Typed, Games
  <1>2. w \in Wokens /\ w.rev = game.woken.rev /\ w.tries = game.woken.tries
    BY <1>1 DEF Wokens
  <1>3. timer \in Revs \cup {None} /\ (timer # None => game.present)
    BY <1>1 DEF Wokens
  <1>4. game' = [game EXCEPT !.woken = w, !.timer = timer]
    BY DEF TurnSettles, Rest
  <1> HIDE DEF w, timer
  <1>5. /\ game' \in Games /\ game'.present = game.present /\ game'.queued = game.queued
        /\ game'.pending = game.pending /\ game'.timer = timer /\ game'.woken = w
    BY <1>1, <1>2, <1>3, <1>4 DEF Games
  <1>6. /\ UNCHANGED <<ended, lane>> /\ job' = Idle
        /\ UNCHANGED <<sessions, server, snoozed, again, sweep, hist>>
    BY DEF TurnSettles, Done
  <1>7. Notes
    BY <1>3, <1>5, <1>6, Zenon DEF Notes
  <1>8. WokenSame
    BY <1>2, <1>5, Zenon DEF WokenSame
  <1> QED BY <1>1, <1>6, <1>7, <1>8, JobShapes DEF TurnSettles

-----------------------------------------------------------------------------
(* What a step does to the sessions *)

Generations == [gen : Gens, moves : 0 .. Unknown]

LEMMA ListsAreOfGens ==
  ASSUME NEW listed \in Lists
  PROVE  /\ listed \ {Blind} \subseteq Gens
         /\ Blind \notin listed => listed \subseteq Gens
  BY DEF Lists, Stored

\* A wake goes on from a list with the newest generation of it, or a newer one.
LEMMA KnownAt ==
  ASSUME generation \in {NoGeneration} \cup Generations, NEW listed \in Lists
  PROVE  /\ Known(listed) \in Generations
         /\ \A g \in listed \ {Blind} : g <= Known(listed).gen
  <1> DEFINE own == listed \ {Blind}
  <1>1. own \in SUBSET Gens
    BY ListsAreOfGens
  <1>2. Known(listed) = IF generation = NoGeneration \/ (own # {} /\ Max(own) > generation.gen)
                        THEN IF own = {} THEN Fresh(0) ELSE [gen |-> Max(own), moves |-> Unknown]
                        ELSE generation
    BY DEF Known
  <1>3. Unknown \in Nat /\ Gens \subseteq Int /\ 0 \in Gens
    BY Sizes DEF Unknown, Gens
  <1> HIDE DEF own
  <1>4. CASE own = {}
    <2>1. Known(listed) \in {Fresh(0), generation}
      BY <1>2, <1>4
    <2>2. Fresh(0) \in Generations
      BY <1>3 DEF Fresh, Generations
    <2>3. Known(listed) \in Generations
      BY <1>2, <1>4, <2>2
    <2> QED BY <1>4, <2>3 DEF own
  <1>5. CASE own # {}
    <2> DEFINE m == Max(own)
    <2>1. m \in own /\ m \in Gens /\ \A g \in own : g <= m
      BY <1>1, <1>5, MaxOfGens
    <2> HIDE DEF m
    <2>2. Known(listed) = IF generation = NoGeneration \/ m > generation.gen
                          THEN [gen |-> m, moves |-> Unknown] ELSE generation
      BY <1>2, <1>5 DEF m
    <2>3. [gen |-> m, moves |-> Unknown] \in Generations
      BY <1>3, <2>1 DEF Generations
    <2>4. Known(listed) \in Generations
      BY <2>2, <2>3
    <2>5. m <= Known(listed).gen
      <3>1. CASE generation = NoGeneration \/ m > generation.gen
        <4>1. Known(listed).gen = m
          BY <2>2, <3>1
        <4> QED BY <1>3, <2>1, <4>1
      <3>2. CASE ~(generation = NoGeneration \/ m > generation.gen)
        <4>1. generation.gen \in Gens /\ Known(listed).gen = generation.gen
          BY <2>2, <3>2 DEF Generations
        <4>2. m \in Int /\ generation.gen \in Int /\ ~(m > generation.gen)
          BY <1>3, <2>1, <3>2, <4>1
        <4> QED BY <4>1, <4>2
      <3> QED BY <3>1, <3>2
    <2>6. Known(listed).gen \in Gens
      BY <2>4 DEF Generations
    <2>7. ASSUME NEW g \in own PROVE g <= Known(listed).gen
      <3> DEFINE k == Known(listed).gen
      <3>1. g \in Int /\ m \in Int /\ k \in Int /\ g <= m /\ m <= k
        BY <1>1, <1>3, <2>1, <2>5, <2>6, <2>7
      <3> HIDE DEF k
      <3>2. g <= k
        BY <3>1
      <3> QED BY <3>2 DEF k
    <2>8. \A g \in own : g <= Known(listed).gen
      BY <2>7
    <2> QED BY <2>4, <2>8 DEF own
  <1> QED BY <1>4, <1>5

LEMMA ChooseSessionAt ==
  ASSUME IInv, ChooseSession
  PROVE  /\ job \in Asks /\ generation' \in Generations
         /\ \E seen \in SUBSET Gens :
              /\ \A g \in seen : g <= generation'.gen
              /\ \/ job' = [kind |-> "wake", phase |-> "go", seen |-> seen]
                 \/ /\ job' = Deletion("wake", {generation'.gen}, 0, seen)
                    /\ generation'.gen < MaxGen
         /\ UNCHANGED <<stored, run, server, snoozed, game, ended, lane, again, sweep, hist>>
  <1>1. job \in Asks
    BY JobShapes DEF ChooseSession, IInv, Typed
  <1>2. generation \in {NoGeneration} \cup Generations
    BY DEF IInv, Typed, SessionsTypeOK, Generations
  <1>3. PICK listed \in Lists :
          /\ generation' = Known(listed)
          /\ \/ job' = [kind |-> "wake", phase |-> "go", seen |-> listed \ {Blind}]
             \/ /\ job' = Deletion("wake", {Known(listed).gen}, 0, listed \ {Blind})
                /\ Known(listed).gen < MaxGen
    BY DEF ChooseSession
  <1>4. listed \ {Blind} \in SUBSET Gens
    BY ListsAreOfGens
  <1>5. UNCHANGED <<stored, run, server, snoozed, game, ended, lane, again, sweep, hist>>
    BY DEF ChooseSession
  <1> QED BY <1>1, <1>2, <1>3, <1>4, <1>5, KnownAt

LEMMA ReceiveType ==
  ASSUME SessionsTypeOK, NEW g \in Gens, Receive(g)
  PROVE  /\ stored' \in [Gens -> {"none", "fresh", "worn"}]
         /\ run' \in [Gens -> {"none", "on", "more", "queued"}]
         /\ Stored \subseteq Stored'
  <1>1. /\ stored \in [Gens -> {"none", "fresh", "worn"}]
        /\ run \in [Gens -> {"none", "on", "more", "queued"}]
    BY DEF SessionsTypeOK
  <1>2. PICK s \in {"none", "on", "more", "queued"} : run' = [run EXCEPT ![g] = s]
    <2>1. run[g] \in {"none", "on", "more", "queued"}
      BY <1>1
    <2> QED BY <2>1 DEF Receive
  <1>3. stored' = [stored EXCEPT ![g] = IF stored[g] = "none" THEN "fresh" ELSE stored[g]]
    BY DEF Receive
  <1> QED BY <1>1, <1>2, <1>3 DEF Stored

LEMMA MoveGoesAt ==
  ASSUME IInv, MoveGoes
  PROVE  /\ job \in Goes /\ SessionsTypeOK' /\ Stored \subseteq Stored'
         /\ job' = [kind |-> "wake", phase |-> "turn", gen |-> generation.gen, seen |-> job.seen]
         /\ generation.gen \in Gens /\ \A g \in job.seen : g <= generation.gen
         /\ UNCHANGED <<server, snoozed, game, ended, lane, again, sweep, hist>>
  <1>1. job \in Goes /\ At("go")
    BY JobShapes DEF MoveGoes, IInv, Typed
  <1>2. generation # NoGeneration /\ \A g \in job.seen : g <= generation.gen
    BY <1>1 DEF IInv, SeenInv, Choosing
  <1>3. generation \in Generations /\ generation.gen \in Gens
    BY <1>2 DEF IInv, Typed, SessionsTypeOK, Generations
  <1>4. generation' \in Generations
    <2>1. UNMEASURED \in Nat /\ Unknown = UNMEASURED + 1
      BY Sizes DEF Unknown
    <2>2. CASE generation.moves < UNMEASURED
      <3>1. generation' = [generation EXCEPT !.moves = generation.moves + 1]
        BY <2>2 DEF MoveGoes, Counted
      <3>2. generation.moves + 1 \in 0 .. Unknown
        BY <1>3, <2>1, <2>2 DEF Generations
      <3> QED BY <1>3, <3>1, <3>2 DEF Generations
    <2>3. CASE ~(generation.moves < UNMEASURED)
      BY <1>3, <2>3 DEF MoveGoes, Counted
    <2> QED BY <2>2, <2>3
  <1>5. /\ stored' \in [Gens -> {"none", "fresh", "worn"}]
        /\ run' \in [Gens -> {"none", "on", "more", "queued"}]
        /\ Stored \subseteq Stored'
    BY <1>3, ReceiveType DEF MoveGoes, IInv, Typed
  <1>6. SessionsTypeOK'
    BY <1>4, <1>5 DEF SessionsTypeOK, Generations
  <1> QED BY <1>1, <1>2, <1>3, <1>5, <1>6 DEF MoveGoes

\* The runs of the host, and what wears its sessions.
LEMMA HostAt ==
  ASSUME IInv, Runs \/ Wears
  PROVE  /\ SessionsTypeOK' /\ Stored \subseteq Stored' /\ UNCHANGED generation
         /\ UNCHANGED <<server, snoozed, wakes, hist>>
  <1>1. SessionsTypeOK
    BY DEF IInv, Typed
  <1>2. PICK g \in Gens : (RunEnds(g) \/ RunStarts(g) \/ Wear(g)) /\ OnHost
    BY DEF Runs, Wears
  <1>3. /\ stored \in [Gens -> {"none", "fresh", "worn"}]
        /\ run \in [Gens -> {"none", "on", "more", "queued"}]
    BY <1>1 DEF SessionsTypeOK
  <1>4. CASE RunEnds(g)
    BY <1>1, <1>2, <1>3, <1>4 DEF RunEnds, OnHost, SessionsTypeOK, Stored
  <1>5. CASE RunStarts(g)
    BY <1>1, <1>2, <1>3, <1>5 DEF RunStarts, OnHost, SessionsTypeOK, Stored
  <1>6. CASE Wear(g)
    BY <1>1, <1>2, <1>3, <1>6 DEF Wear, OnHost, SessionsTypeOK, Stored
  <1> QED BY <1>2, <1>4, <1>5, <1>6

-----------------------------------------------------------------------------
(* The deletions *)

\* A deletion is over; a rotated move goes on in the next generation.
Finishes ==
  /\ again' \in {again, again \cup {job.try + 1}}
  /\ again' # again => job.kind = "end" /\ job.try < CleanRetries
  /\ sweep' \in {sweep, NoSweep}
  /\ IF job.kind = "wake"
     THEN /\ job' = [kind |-> "wake", phase |-> "go", seen |-> job.seen]
          /\ generation' = Fresh(generation.gen + 1)
     ELSE job' = Idle /\ generation' \in {generation, NoGeneration}

Looked(targets, listed, whole) ==
  /\ job' = [job EXCEPT !.phase = "clean", !.left = targets, !.listed = listed, !.whole = whole]
  /\ job.kind = "wake" => ~whole
  /\ whole \/ targets \subseteq job.gens

LEMMA DeletedAt ==
  ASSUME NEW outcome, Deleted(outcome)
  PROVE  /\ again' \in {again, again \cup {job.try + 1}}
         /\ again' # again => job.kind = "end" /\ job.try < CleanRetries
         /\ sweep' \in {sweep, NoSweep}
         /\ IF job.kind = "wake"
            THEN job' = [kind |-> "wake", phase |-> "go", seen |-> job.seen]
            ELSE job' = Idle
  BY DEF Deleted, Again, Done

LEMMA DeleteLookAt ==
  ASSUME IInv, NEW listed \in Lists, DeleteLook(listed)
  PROVE  /\ job \in Deletions
         /\ \/ Finishes
            \/ /\ \E targets \in SUBSET Gens, l \in SUBSET Gens, whole \in BOOLEAN :
                    Looked(targets, l, whole)
               /\ UNCHANGED <<generation, again, sweep>>
         /\ UNCHANGED <<stored, run, server, snoozed, game, ended, lane, hist>>
  <1> DEFINE orWhole == job.kind = "sweep"
             targets == Targets(job.gens, orWhole, listed)
             whole == Whole(job.gens, orWhole, listed)
  <1>1. job \in Deletions
    BY JobShapes DEF DeleteLook, IInv, Typed
  <1>2. /\ \/ /\ \E outcome : Deleted(outcome)
              /\ generation' = IF job.kind = "wake" THEN Fresh(generation.gen + 1) ELSE generation
           \/ /\ Blind \notin listed
              /\ job' = [job EXCEPT !.phase = "clean", !.left = targets, !.listed = listed,
                                    !.whole = whole]
              /\ UNCHANGED <<generation, again, sweep>>
        /\ UNCHANGED <<stored, run, server, snoozed, game, ended, lane, hist>>
    BY DEF DeleteLook
  <1>3. CASE /\ \E outcome : Deleted(outcome)
             /\ generation' = IF job.kind = "wake" THEN Fresh(generation.gen + 1) ELSE generation
    BY <1>1, <1>2, <1>3, DeletedAt DEF Finishes
  <1>4. CASE /\ Blind \notin listed
             /\ job' = [job EXCEPT !.phase = "clean", !.left = targets, !.listed = listed,
                                   !.whole = whole]
             /\ UNCHANGED <<generation, again, sweep>>
    <2>1. listed \in SUBSET Gens
      BY <1>4, ListsAreOfGens
    <2>2. targets \in SUBSET Gens /\ whole \in BOOLEAN
      BY <2>1 DEF Targets, Whole
    <2>3. job.kind = "wake" => job.gens = {generation.gen}
      BY <1>1 DEF IInv, SeenInv, Rotating, DeleteLook
    <2>4. job.kind = "wake" => ~whole
      BY <2>3 DEF Whole, EveryGen
    <2>5. whole \/ targets \subseteq job.gens
      BY DEF Targets
    <2>6. Looked(targets, listed, whole)
      BY <1>4, <2>4, <2>5 DEF Looked
    <2> HIDE DEF targets, whole
    <2> QED BY <1>1, <1>2, <1>4, <2>1, <2>2, <2>6
  <1> QED BY <1>2, <1>3, <1>4

LEMMA CleansAt ==
  ASSUME IInv, CleanDeletes \/ CleanFails
  PROVE  /\ job \in Deletions
         /\ \/ Finishes
            \/ /\ \E left \in SUBSET job.left : job' = [job EXCEPT !.left = left]
               /\ UNCHANGED <<generation, again, sweep>>
         /\ stored' \in [Gens -> {"none", "fresh", "worn"}]
         /\ UNCHANGED <<run, server, snoozed, game, ended, lane, hist>>
  <1>1. job \in Deletions /\ stored \in [Gens -> {"none", "fresh", "worn"}]
    BY JobShapes DEF CleanDeletes, CleanFails, IInv, Typed, SessionsTypeOK
  <1>2. CASE CleanDeletes
    <2>1. PICK g \in job.left :
            /\ \/ \E gone : Delete(gone)
               \/ UNCHANGED stored
            /\ \/ \E deletes \in BOOLEAN : generation' = Forgotten(deletes) /\ Deleted("deleted")
               \/ /\ \E left \in SUBSET job.left : job' = [job EXCEPT !.left = left]
                  /\ UNCHANGED <<generation, again, sweep>>
      <3>1. PICK g \in job.left :
              LET left == IF job.whole THEN {} ELSE job.left \ {g}
                  deletes == job.whole \/ Reachable(g, job.listed)
              IN /\ IF deletes THEN Delete(IF job.whole THEN Gens ELSE Reach(g)) ELSE UNCHANGED stored
                 /\ IF left = {}
                    THEN generation' = Forgotten(deletes) /\ Deleted("deleted")
                    ELSE job' = [job EXCEPT !.left = left] /\ UNCHANGED <<generation, again, sweep>>
        BY <1>2 DEF CleanDeletes
      <3> DEFINE left == IF job.whole THEN {} ELSE job.left \ {g}
                 deletes == job.whole \/ Reachable(g, job.listed)
      <3>2. left \in SUBSET job.left /\ deletes \in BOOLEAN
        BY DEF Reachable
      <3>3. \/ generation' = Forgotten(deletes) /\ Deleted("deleted")
            \/ job' = [job EXCEPT !.left = left] /\ UNCHANGED <<generation, again, sweep>>
        BY <3>1
      <3>4. (\E gone : Delete(gone)) \/ UNCHANGED stored
        BY <3>1
      <3> HIDE DEF left, deletes
      <3> QED BY <3>2, <3>3, <3>4
    <2>2. stored' \in [Gens -> {"none", "fresh", "worn"}]
      BY <1>1, <2>1 DEF Delete
    <2>3. UNCHANGED <<run, server, snoozed, game, ended, lane, hist>>
      BY <1>2 DEF CleanDeletes
    <2>4. CASE \E deletes \in BOOLEAN : generation' = Forgotten(deletes) /\ Deleted("deleted")
      <3>1. IF job.kind = "wake" THEN generation' = Fresh(generation.gen + 1)
            ELSE generation' \in {generation, NoGeneration}
        BY <2>4 DEF Forgotten
      <3>2. Finishes
        BY <2>4, <3>1, DeletedAt DEF Finishes
      <3> QED BY <1>1, <2>2, <2>3, <3>2
    <2> QED BY <1>1, <2>1, <2>2, <2>3, <2>4
  <1>3. CASE CleanFails
    <2>1. Finishes
      BY <1>3, DeletedAt DEF CleanFails, Forgotten, Finishes
    <2> QED BY <1>1, <1>3, <2>1 DEF CleanFails
  <1> QED BY <1>2, <1>3

-----------------------------------------------------------------------------
(* The lane and the game agree *)

Sweeping == SweepLook \/ SweepAsk \/ SweepFails

\* The steps that neither the job of the lane nor the generation of the moves takes
\* part in.
Beside ==
  \/ \E next \in Saids : Play(next)
  \/ Snooze \/ Runs \/ Wears
  \/ \E r \in Revs : Signal(r)
  \/ BackoffPasses \/ TimerFires \/ CleanAgain \/ Sweeping

Deleting == (\E listed \in Lists : DeleteLook(listed)) \/ CleanDeletes \/ CleanFails

LEMMA Steps ==
  ASSUME [Next]_vars
  PROVE  Beside \/ Lane \/ ServeView \/ ViewFails \/ Deleting \/ Restart \/ UNCHANGED vars
  BY DEF Next, Beside, Sweeping, Deleting, Timers, Saids

LEMMA SweepingAt ==
  ASSUME IInv, Sweeping
  PROVE  /\ UNCHANGED <<game, ended>>
         /\ UNCHANGED lane
              \/ \E gens \in SUBSET Gens : Joins(SweepJob(gens))
         /\ sweep' \in Sweeps
         /\ UNCHANGED <<sessions, server, snoozed, job, again, hist>>
  <1>1. /\ UNCHANGED <<game, ended>>
        /\ UNCHANGED <<sessions, server, snoozed, job, again, hist>>
    BY DEF Sweeping, SweepLook, SweepAsk, SweepFails
  <1>2. sweep \in Sweeps /\ Stored \in SUBSET Gens
    BY DEF IInv, Typed, Stored
  <1>3. CASE SweepLook \/ SweepFails
    BY <1>1, <1>2, <1>3 DEF SweepLook, SweepFails, Sweeps
  <1>4. CASE SweepAsk
    <2> DEFINE gens == SweepGens(sweep.gens, ~Over)
    <2>1. sweep.gens \in SUBSET Gens
      BY <1>2, <1>4 DEF SweepAsk, Sweeps, NoSweep
    <2>2. gens \in SUBSET Gens
      BY <2>1 DEF SweepGens, EveryGen
    <2>3. \/ sweep' = NoSweep /\ UNCHANGED lane
          \/ sweep' = [phase |-> "queued"] /\ lane' = Append(lane, SweepJob(gens))
      BY <1>4, Zenon DEF SweepAsk
    <2>4. SweepJob(gens) \in LaneJobs /\ SweepJob(gens).kind = "sweep"
      BY <2>2 DEF LaneJobs, SweepJob
    <2>5. sweep' \in Sweeps
      BY <2>3 DEF Sweeps, NoSweep
    <2> HIDE DEF gens
    <2>6. UNCHANGED lane \/ Joins(SweepJob(gens))
      BY <1>1, <2>3, <2>4 DEF Joins
    <2> QED BY <1>1, <2>2, <2>5, <2>6
  <1> QED BY <1>3, <1>4 DEF Sweeping

LEMMA CleanAgainAt ==
  ASSUME IInv, CleanAgain
  PROVE  /\ \E try \in 1 .. CleanRetries : Joins(EndJob(try))
         /\ again' \subseteq again
         /\ UNCHANGED <<sessions, server, snoozed, game, ended, job, sweep, hist>>
  <1>1. PICK try \in again : again' = again \ {try} /\ lane' = Append(lane, EndJob(try))
    BY DEF CleanAgain
  <1>2. Over /\ try \in 1 .. CleanRetries
    BY <1>1 DEF IInv, Typed, EndsOver
  <1>3. EndJob(try) \in LaneJobs /\ EndJob(try).kind = "end"
    BY <1>2, Sizes DEF LaneJobs, EndJob
  <1>4. UNCHANGED <<sessions, server, snoozed, game, ended, job, sweep, hist>>
    BY DEF CleanAgain
  <1>5. Joins(EndJob(try))
    BY <1>1, <1>2, <1>3, <1>4 DEF Joins
  <1> QED BY <1>1, <1>2, <1>4, <1>5

LEMMA GameSteps ==
  ASSUME IInv, [Next]_vars
  PROVE  \/ UNCHANGED <<game, ended, lane>>
         \/ \E a : Joins(a)
         \/ Notes \/ Queues \/ Forgets \/ Begins \/ Restart
  <1>1. CASE Beside
    <2>1. CASE (\E next \in Saids : Play(next)) \/ Snooze \/ Runs \/ Wears
      BY <2>1 DEF Play, Snooze, Runs, Wears, OnHost, wakes
    <2>2. CASE \E r \in Revs : Signal(r)
      BY <2>2, SignalAt
    <2>3. CASE BackoffPasses \/ TimerFires
      BY <2>3, TimersAt
    <2>4. CASE CleanAgain
      BY <2>4, CleanAgainAt
    <2>5. CASE Sweeping
      BY <2>5, SweepingAt
    <2> QED BY <1>1, <2>1, <2>2, <2>3, <2>4, <2>5 DEF Beside
  <1>2. CASE Lane
    BY <1>2, BeginsAt, ViewArrivesAt, ChooseSessionAt, MoveGoesAt, TurnSettlesAt DEF Lane, Takes
  <1>3. CASE ServeView \/ ViewFails
    BY <1>3 DEF ServeView, ViewFails
  <1>4. CASE Deleting
    BY <1>4, DeleteLookAt, CleansAt DEF Deleting
  <1>5. CASE UNCHANGED vars
    BY <1>5 DEF vars, wakes
  <1> QED BY <1>1, <1>2, <1>3, <1>4, <1>5, Steps

LEMMA JobKinds ==
  /\ WakeJob \in LaneJobs /\ WakeJob.kind = "wake"
  /\ EndJob(0) \in LaneJobs /\ EndJob(0).kind = "end"
  BY Sizes DEF LaneJobs, WakeJob, EndJob

\* The types of the game, the lane and what is remembered, that they agree, and that
\* only an ended game is cleaned up.
LEMMA NextLane ==
  ASSUME IInv, [Next]_vars
  PROVE  /\ game' \in Games /\ ended' \in BOOLEAN /\ lane' \in Seq(LaneJobs)
         /\ LaneInv'
         /\ \A i \in DOMAIN lane' : lane'[i].kind = "end" => Over
  <1>1. /\ game \in Games /\ ended \in BOOLEAN /\ lane \in Seq(LaneJobs)
        /\ OneWake(lane) /\ LaneInv
        /\ \A i \in DOMAIN lane : lane[i].kind = "end" => Over
    BY DEF IInv, Typed, LaneInv, EndsOver
  <1>2. CASE UNCHANGED <<game, ended, lane>>
    BY <1>1, <1>2 DEF LaneInv
  <1>3. CASE \E a : Joins(a)
    <2> PICK a : Joins(a)
      BY <1>3
    <2>1. /\ OneWake(lane') /\ (HasWake(lane') <=> HasWake(lane)) /\ lane' \in Seq(LaneJobs)
          /\ \A i \in DOMAIN lane' : lane'[i].kind = "end" => Over
      <3>1. /\ a \in LaneJobs /\ a.kind # "wake" /\ lane' = Append(lane, a)
            /\ a.kind = "end" => Over
        BY DEF Joins
      <3> QED BY <1>1, <3>1, LaneAppends, AppendElements
    <2>2. UNCHANGED <<game, ended>>
      BY DEF Joins
    <2> QED BY <1>1, <2>1, <2>2, Zenon DEF LaneInv
  <1>4. CASE Notes
    BY <1>1, <1>4, Zenon DEF LaneInv, Notes
  <1>5. CASE Queues
    <2>1. /\ OneWake(lane') /\ HasWake(lane') /\ lane' \in Seq(LaneJobs)
          /\ \A i \in DOMAIN lane' : lane'[i].kind = "end" => Over
      <3>1. CASE game.queued
        <4>1. lane' = lane
          BY <1>5, <3>1 DEF Queues
        <4> QED BY <1>1, <3>1, <4>1, Zenon DEF LaneInv
      <3>2. CASE ~game.queued
        <4>1. lane' = Append(lane, WakeJob) /\ ~HasWake(lane)
          BY <1>1, <1>5, <3>2, Zenon DEF LaneInv, Queues
        <4> QED BY <1>1, <4>1, JobKinds, LaneAppends, AppendElements
      <3> QED BY <3>1, <3>2
    <2> QED BY <1>1, <1>5, <2>1, Zenon DEF LaneInv, Queues
  <1>6. CASE Forgets
    <2>1. /\ OneWake(lane') /\ lane' \in Seq(LaneJobs)
      BY <1>1, <1>6, JobKinds, LaneAppends, AppendElements DEF Forgets
    <2>2. Over
      BY <1>6 DEF Forgets
    <2> QED BY <1>1, <1>6, <2>1, <2>2, Zenon DEF LaneInv, Forgets
  <1>7. CASE Begins
    <2>1. lane # <<>> /\ lane' = Tail(lane) /\ UNCHANGED ended
      BY <1>7 DEF Begins
    <2>2. /\ OneWake(lane') /\ lane' \in Seq(LaneJobs)
          /\ \A i \in DOMAIN lane' : lane'[i].kind = "end" => Over
          /\ Head(lane).kind = "wake" => HasWake(lane) /\ ~HasWake(lane')
          /\ Head(lane).kind # "wake" => (HasWake(lane') <=> HasWake(lane))
      BY <1>1, <2>1, LaneTail, TailElements
    <2>3. CASE UNCHANGED game /\ (Head(lane).kind # "wake" \/ ~game.present)
      BY <1>1, <2>1, <2>2, <2>3, Zenon DEF LaneInv
    <2>4. CASE /\ Head(lane).kind = "wake" /\ game.present /\ game' \in Games
               /\ ~game'.queued /\ ~game'.pending
               /\ game'.present /\ game'.timer = game.timer /\ game'.woken = game.woken
      <3>1. ~ended /\ ~ended'
        BY <1>1, <2>1, <2>4, Zenon DEF LaneInv
      <3> QED BY <1>1, <2>1, <2>2, <2>4, <3>1, Zenon DEF LaneInv
    <2> QED BY <1>7, <2>3, <2>4, Zenon DEF Begins
  <1>8. CASE Restart
    <2>1. game' = Unseen /\ ended' = FALSE /\ lane' = <<>>
      BY <1>8 DEF Restart
    <2>2. lane' \in Seq(LaneJobs) /\ OneWake(lane') /\ ~HasWake(lane') /\ DOMAIN lane' = {}
      BY <2>1 DEF OneWake, HasWake
    <2> QED BY <2>1, <2>2, UnseenGame DEF LaneInv
  <1> QED BY <1>2, <1>3, <1>4, <1>5, <1>6, <1>7, <1>8, GameSteps

-----------------------------------------------------------------------------
(* The job on the lane *)

JobSafe ==
  /\ SessionsTypeOK
  /\ job \in Jobs /\ sweep \in Sweeps /\ again \subseteq 1 .. CleanRetries
  /\ SeenInv
  /\ job.kind = "end" => Over
  /\ again # {} => Over
  /\ At("clean") => job.whole \/ job.left \subseteq job.gens

\* The server moves on until the game is over.
LEMMA SaidAt ==
  ASSUME IInv, [Next]_vars
  PROVE  /\ snoozed' \in BOOLEAN
         /\ \/ said' = said
            \/ /\ ~Over /\ \E next \in Saids : said' = Append(said, next)
               /\ Rev < MaxRev
               /\ UNCHANGED <<sessions, snoozed, wakes, hist>>
  <1>1. snoozed \in BOOLEAN
    BY DEF IInv, Typed
  <1>2. CASE Beside
    <2>1. CASE \E next \in Saids : Play(next)
      BY <1>1, <2>1 DEF Play
    <2>2. CASE Snooze \/ \E r \in Revs : Signal(r)
      BY <1>1, <2>2 DEF Snooze, Signal, server
    <2>3. CASE Runs \/ Wears \/ Sweeping \/ CleanAgain
      BY <1>1, <2>3, HostAt, SweepingAt, CleanAgainAt DEF server
    <2>4. CASE BackoffPasses \/ TimerFires
      BY <1>1, <2>4 DEF BackoffPasses, TimerFires, server
    <2> QED BY <1>2, <2>1, <2>2, <2>3, <2>4 DEF Beside
  <1>3. CASE Lane
    BY <1>1, <1>3, BeginsAt, ViewArrivesAt, ChooseSessionAt, MoveGoesAt, TurnSettlesAt
       DEF Lane, server
  <1>4. CASE ServeView \/ ViewFails
    BY <1>1, <1>4 DEF ServeView, ViewFails, server
  <1>5. CASE Deleting
    BY <1>1, <1>5, DeleteLookAt, CleansAt DEF Deleting, server
  <1>6. CASE Restart
    BY <1>1, <1>6 DEF Restart, server
  <1>7. CASE UNCHANGED vars
    BY <1>1, <1>7 DEF vars, server
  <1> QED BY <1>2, <1>3, <1>4, <1>5, <1>6, <1>7, Steps

LEMMA OverStays ==
  ASSUME IInv, [Next]_vars, Over
  PROVE  Over'
  BY SaidAt DEF Over, Rev

LEMMA BesideAt ==
  ASSUME IInv, Beside
  PROVE  /\ SessionsTypeOK' /\ UNCHANGED <<job, generation>>
         /\ sweep' \in Sweeps /\ again' \subseteq again
         /\ Stored \subseteq Stored'
  <1>1. SessionsTypeOK /\ sweep \in Sweeps
    BY DEF IInv, Typed
  <1>2. CASE (\E next \in Saids : Play(next)) \/ Snooze
    BY <1>1, <1>2 DEF Play, Snooze, sessions, wakes, SessionsTypeOK, Stored
  <1>3. CASE Runs \/ Wears
    BY <1>1, <1>3, HostAt DEF wakes
  <1>4. CASE \/ \E r \in Revs : Signal(r)
             \/ BackoffPasses \/ TimerFires
    BY <1>1, <1>4 DEF Signal, BackoffPasses, TimerFires, sessions, SessionsTypeOK, Stored
  <1>5. CASE CleanAgain \/ Sweeping
    BY <1>1, <1>5, CleanAgainAt, SweepingAt DEF sessions, SessionsTypeOK, Stored
  <1> QED BY <1>2, <1>3, <1>4, <1>5 DEF Beside

\* What is at an await is the job that was put there.
LEMMA IdleIs ==
  ASSUME job' = Idle
  PROVE  job' \in Jobs /\ job'.kind = "idle" /\ \A phase : ~At(phase)'
  BY DEF Idle, Jobs, At

LEMMA FinishesSafe ==
  ASSUME IInv, job \in Deletions, Finishes, At("look") \/ At("clean"), UNCHANGED <<run, said>>,
         stored' \in [Gens -> {"none", "fresh", "worn"}]
  PROVE  JobSafe'
  <1>1. /\ SessionsTypeOK /\ sweep \in Sweeps /\ again \subseteq 1 .. CleanRetries
        /\ job.kind = "end" => Over
        /\ again # {} => Over
        /\ job.kind = "wake" => Rotating /\ SeenInv
    BY DEF IInv, Typed, EndsOver, Rotating
  <1>2. UNCHANGED Over
    BY DEF Over, Rev
  <1>3. sweep' \in Sweeps
    BY <1>1 DEF Finishes, Sweeps
  <1>4. again' \subseteq 1 .. CleanRetries
    <2>1. job.try \in 0 .. CleanRetries
      BY DEF Deletions
    <2> QED BY <1>1, <2>1, Sizes DEF Finishes
  <1>5. again' # {} => Over'
    BY <1>1, <1>2 DEF Finishes
  <1>6. CASE job.kind = "wake"
    <2>1. /\ job' = [kind |-> "wake", phase |-> "go", seen |-> job.seen]
          /\ generation' = Fresh(generation.gen + 1)
      BY <1>6 DEF Finishes
    <2>2. /\ generation # NoGeneration /\ \A g \in job.seen : g <= generation.gen
          /\ generation.gen < MaxGen /\ job.seen \subseteq Gens
      BY <1>1, <1>6 DEF SeenInv, Choosing, Rotating, Deletions
    <2>3. generation.gen \in Gens
      BY <1>1, <2>2 DEF SessionsTypeOK
    <2>4. generation.gen + 1 \in Gens /\ 0 \in 0 .. Unknown
      BY <2>2, <2>3, Sizes DEF Gens, Unknown
    <2>5. /\ generation' \in [gen : Gens, moves : 0 .. Unknown]
          /\ generation'.gen = generation.gen + 1
      BY <2>1, <2>4 DEF Fresh
    <2>6. SessionsTypeOK'
      BY <1>1, <2>5 DEF SessionsTypeOK
    <2>7. /\ job' \in Jobs /\ job'.kind = "wake" /\ job'.seen = job.seen
          /\ \A phase : At(phase)' => phase = "go"
      BY <2>1, <2>2 DEF Jobs, Goes, At
    <2>8. generation' # NoGeneration
      BY <2>1, <2>3, Sizes DEF Fresh, NoGeneration, Gens
    <2>9. \A g \in job'.seen : g <= generation'.gen
      BY <2>2, <2>3, <2>5, <2>7, Sizes DEF Gens
    <2>10. SeenInv'
      BY <2>7, <2>8, <2>9 DEF SeenInv, Rotating, Choosing
    <2> QED BY <1>3, <1>4, <1>5, <2>6, <2>7, <2>10 DEF JobSafe
  <1>7. CASE job.kind # "wake"
    <2>1. job' = Idle /\ generation' \in {generation, NoGeneration}
      BY <1>7 DEF Finishes
    <2>2. SessionsTypeOK'
      BY <1>1, <2>1 DEF SessionsTypeOK
    <2> QED BY <1>3, <1>4, <1>5, <2>1, <2>2, IdleIs DEF JobSafe, SeenInv, Rotating, Choosing
  <1> QED BY <1>6, <1>7

LEMMA DeletingSafe ==
  ASSUME IInv, Deleting
  PROVE  JobSafe'
  <1>1. /\ SessionsTypeOK /\ sweep \in Sweeps /\ again \subseteq 1 .. CleanRetries
        /\ job.kind = "end" => Over
        /\ again # {} => Over
        /\ SeenInv
        /\ At("clean") => job.whole \/ job.left \subseteq job.gens
    BY DEF IInv, Typed, EndsOver
  <1>2. CASE \E listed \in Lists : DeleteLook(listed)
    <2>1. PICK listed \in Lists : DeleteLook(listed)
      BY <1>2
    <2>2. At("look") /\ job \in Deletions /\ UNCHANGED <<stored, run, said>>
      BY <2>1, DeleteLookAt DEF DeleteLook, server
    <2>3. UNCHANGED Over
      BY <2>2 DEF Over, Rev
    <2>4. CASE Finishes
      BY <2>2, <2>4, <1>1, FinishesSafe DEF SessionsTypeOK
    <2>5. CASE /\ \E targets \in SUBSET Gens, l \in SUBSET Gens, whole \in BOOLEAN :
                    Looked(targets, l, whole)
               /\ UNCHANGED <<generation, again, sweep>>
      <3>1. PICK targets \in SUBSET Gens, l \in SUBSET Gens, whole \in BOOLEAN :
              Looked(targets, l, whole)
        BY <2>5
      <3>2. /\ job' \in Deletions /\ job'.kind = job.kind /\ job'.gens = job.gens
            /\ job'.seen = job.seen /\ job'.left = targets /\ job'.whole = whole
            /\ job'.phase = "clean"
        BY <2>2, <3>1 DEF Looked, Deletions
      <3>3. job' \in Jobs /\ \A phase : At(phase)' => phase = "clean"
        BY <3>2 DEF Jobs, At
      <3>4. /\ job.kind = "wake" => ~job'.whole
            /\ job'.whole \/ job'.left \subseteq job'.gens
        BY <3>1, <3>2 DEF Looked
      <3>5. job.kind = "wake" => Rotating /\ Choosing
        BY <2>2 DEF Rotating, Choosing
      <3>6. Rotating' => job.kind = "wake"
        BY <3>2 DEF Rotating
      <3>7. Choosing' => job.kind = "wake"
        BY <3>3, <3>6 DEF Choosing
      <3>8. SeenInv'
        BY <1>1, <2>5, <3>2, <3>3, <3>4, <3>5, <3>6, <3>7 DEF SeenInv
      <3>9. SessionsTypeOK'
        BY <1>1, <2>2, <2>5 DEF SessionsTypeOK
      <3> QED BY <1>1, <2>3, <2>5, <3>2, <3>3, <3>4, <3>8, <3>9 DEF JobSafe
    <2> QED BY <2>1, <2>4, <2>5, DeleteLookAt
  <1>3. CASE CleanDeletes \/ CleanFails
    <2>1. /\ At("clean") /\ job \in Deletions /\ UNCHANGED <<run, said>>
          /\ stored' \in [Gens -> {"none", "fresh", "worn"}]
      BY <1>3, CleansAt DEF CleanDeletes, CleanFails, server
    <2>2. UNCHANGED Over
      BY <2>1 DEF Over, Rev
    <2>3. CASE Finishes
      BY <2>1, <2>3, FinishesSafe
    <2>4. CASE /\ \E left \in SUBSET job.left : job' = [job EXCEPT !.left = left]
               /\ UNCHANGED <<generation, again, sweep>>
      <3>1. PICK left \in SUBSET job.left : job' = [job EXCEPT !.left = left]
        BY <2>4
      <3>2. job.left \subseteq Gens
        BY <2>1 DEF Deletions
      <3>3. /\ job' \in Deletions /\ job'.kind = job.kind /\ job'.gens = job.gens
            /\ job'.seen = job.seen /\ job'.left = left /\ job'.whole = job.whole
            /\ job'.phase = job.phase
        BY <2>1, <3>1, <3>2 DEF Deletions
      <3>4. job' \in Jobs /\ \A phase : At(phase)' => phase = "clean"
        BY <2>1, <3>3 DEF Jobs, At
      <3>5. job'.whole \/ job'.left \subseteq job'.gens
        BY <1>1, <2>1, <3>3
      <3>6. job.kind = "wake" => Rotating /\ Choosing
        BY <2>1 DEF Rotating, Choosing
      <3>7. Rotating' => job.kind = "wake"
        BY <3>3 DEF Rotating
      <3>8. Choosing' => job.kind = "wake"
        BY <3>4, <3>7 DEF Choosing
      <3>9. SeenInv'
        BY <1>1, <2>4, <3>3, <3>4, <3>6, <3>7, <3>8 DEF SeenInv
      <3>10. SessionsTypeOK'
        BY <1>1, <2>1, <2>4 DEF SessionsTypeOK
      <3> QED BY <1>1, <2>2, <2>4, <3>3, <3>4, <3>5, <3>9, <3>10 DEF JobSafe
    <2> QED BY <1>3, <2>3, <2>4, CleansAt
  <1> QED BY <1>2, <1>3 DEF Deleting

LEMMA LaneSafe ==
  ASSUME IInv, Lane \/ ServeView \/ ViewFails
  PROVE  JobSafe'
  <1>1. /\ SessionsTypeOK /\ sweep \in Sweeps /\ again \subseteq 1 .. CleanRetries
        /\ again # {} => Over
        /\ lane \in Seq(LaneJobs) /\ \A i \in DOMAIN lane : lane[i].kind = "end" => Over
        /\ Rev \in Revs /\ job \in Jobs
    BY DEF IInv, Typed, EndsOver
  <1>2. CASE JobBegins
    <2>1. /\ job' \in {Idle, [kind |-> "wake", phase |-> "read"]}
               \/ (Head(lane).kind = "end" /\ job' = Deletion("end", EveryGen, Head(lane).try, {}))
               \/ (Head(lane).kind = "sweep" /\ job' = Deletion("sweep", Head(lane).gens, 0, {}))
          /\ UNCHANGED <<sessions, said, again, sweep>> /\ lane # <<>>
      BY <1>2, BeginsAt DEF server, Begins
    <2>2. UNCHANGED Over
      BY <2>1 DEF Over, Rev
    <2>3. SessionsTypeOK'
      BY <1>1, <2>1 DEF SessionsTypeOK, sessions
    <2>4. CASE job' = Idle
      BY <1>1, <2>1, <2>2, <2>3, <2>4, IdleIs DEF JobSafe, SeenInv, Rotating, Choosing
    <2>5. CASE job' = [kind |-> "wake", phase |-> "read"]
      <3>1. job' \in Jobs /\ job'.kind = "wake" /\ \A phase : At(phase)' => phase = "read"
        BY <2>5 DEF Jobs, Asks, At
      <3> QED BY <1>1, <2>1, <2>2, <2>3, <3>1 DEF JobSafe, SeenInv, Rotating, Choosing
    <2>6. Head(lane) \in LaneJobs /\ \E i \in DOMAIN lane : Head(lane) = lane[i]
      BY <1>1, <2>1, TailElements
    <2>7. CASE Head(lane).kind = "end" /\ job' = Deletion("end", EveryGen, Head(lane).try, {})
      <3>1. Head(lane).try \in 0 .. CleanRetries
        BY <2>6, <2>7 DEF LaneJobs, WakeJob, EndJob, SweepJob
      <3>2. job' \in Deletions /\ job'.kind = "end" /\ job'.phase = "look"
        BY <2>7, <3>1 DEF Deletion, Deletions, EveryGen
      <3>3. job' \in Jobs /\ \A phase : At(phase)' => phase = "look"
        BY <3>2 DEF Jobs, At
      <3>4. Over
        BY <1>1, <2>6, <2>7
      <3> QED BY <1>1, <2>1, <2>2, <2>3, <3>2, <3>3, <3>4 DEF JobSafe, SeenInv, Rotating, Choosing
    <2>8. CASE Head(lane).kind = "sweep" /\ job' = Deletion("sweep", Head(lane).gens, 0, {})
      <3>1. Head(lane).gens \in SUBSET Gens
        BY <2>6, <2>8 DEF LaneJobs, WakeJob, EndJob, SweepJob
      <3>2. job' \in Deletions /\ job'.kind = "sweep" /\ job'.phase = "look"
        BY <2>8, <3>1, Sizes DEF Deletion, Deletions
      <3>3. job' \in Jobs /\ \A phase : At(phase)' => phase = "look"
        BY <3>2 DEF Jobs, At
      <3> QED BY <1>1, <2>1, <2>2, <2>3, <3>2, <3>3 DEF JobSafe, SeenInv, Rotating, Choosing
    <2> QED BY <2>1, <2>4, <2>5, <2>7, <2>8
  <1>3. CASE ViewArrives \/ TurnSettles \/ ServeView \/ ViewFails
    <2>1. /\ UNCHANGED <<sessions, said, again, sweep>>
          /\ job' \in {Idle, [kind |-> "wake", phase |-> "list"],
                       [kind |-> "wake", phase |-> "view", rev |-> Rev]}
      BY <1>3, ViewArrivesAt, TurnSettlesAt DEF ServeView, ViewFails, Done, server
    <2>2. UNCHANGED Over
      BY <2>1 DEF Over, Rev
    <2>3. SessionsTypeOK'
      BY <1>1, <2>1 DEF SessionsTypeOK, sessions
    <2>4. CASE job' = Idle
      BY <1>1, <2>1, <2>2, <2>3, <2>4, IdleIs DEF JobSafe, SeenInv, Rotating, Choosing
    <2>5. CASE job' = [kind |-> "wake", phase |-> "list"]
      <3>1. job' \in Jobs /\ job'.kind = "wake" /\ \A phase : At(phase)' => phase = "list"
        BY <2>5 DEF Jobs, Asks, At
      <3> QED BY <1>1, <2>1, <2>2, <2>3, <3>1 DEF JobSafe, SeenInv, Rotating, Choosing
    <2>6. CASE job' = [kind |-> "wake", phase |-> "view", rev |-> Rev]
      <3>1. job' \in Jobs /\ job'.kind = "wake" /\ \A phase : At(phase)' => phase = "view"
        BY <1>1, <2>6 DEF Jobs, Views, At
      <3> QED BY <1>1, <2>1, <2>2, <2>3, <3>1 DEF JobSafe, SeenInv, Rotating, Choosing
    <2> QED BY <2>1, <2>4, <2>5, <2>6
  <1>4. CASE ChooseSession
    <2>1. /\ generation' \in Generations
          /\ UNCHANGED <<stored, run, said, again, sweep>>
      BY <1>4, ChooseSessionAt DEF server
    <2>2. PICK seen \in SUBSET Gens :
            /\ \A g \in seen : g <= generation'.gen
            /\ \/ job' = [kind |-> "wake", phase |-> "go", seen |-> seen]
               \/ /\ job' = Deletion("wake", {generation'.gen}, 0, seen)
                  /\ generation'.gen < MaxGen
      BY <1>4, ChooseSessionAt
    <2>3. UNCHANGED Over
      BY <2>1 DEF Over, Rev
    <2>4. SessionsTypeOK' /\ generation'.gen \in Gens
      BY <1>1, <2>1 DEF SessionsTypeOK, Generations
    <2>5. generation' # NoGeneration
      BY <2>4, Sizes DEF NoGeneration, Gens
    <2>6. CASE job' = [kind |-> "wake", phase |-> "go", seen |-> seen]
      <3>1. /\ job' \in Jobs /\ job'.kind = "wake" /\ job'.seen = seen
            /\ \A phase : At(phase)' => phase = "go"
        BY <2>6 DEF Jobs, Goes, At
      <3>2. SeenInv'
        BY <2>2, <2>5, <3>1 DEF SeenInv, Rotating, Choosing
      <3> QED BY <1>1, <2>1, <2>3, <2>4, <3>1, <3>2 DEF JobSafe
    <2>7. CASE job' = Deletion("wake", {generation'.gen}, 0, seen) /\ generation'.gen < MaxGen
      <3>1. /\ job' \in Deletions /\ job'.kind = "wake" /\ job'.phase = "look"
            /\ job'.seen = seen /\ job'.gens = {generation'.gen} /\ ~job'.whole
        BY <2>4, <2>7, Sizes DEF Deletion, Deletions
      <3>2. job' \in Jobs /\ \A phase : At(phase)' => phase = "look"
        BY <3>1 DEF Jobs, At
      <3>3. SeenInv'
        BY <2>2, <2>5, <2>7, <3>1, <3>2 DEF SeenInv, Rotating, Choosing
      <3> QED BY <1>1, <2>1, <2>3, <2>4, <3>1, <3>2, <3>3 DEF JobSafe
    <2> QED BY <2>2, <2>6, <2>7
  <1>5. CASE MoveGoes
    <2>1. /\ job \in Goes /\ SessionsTypeOK' /\ UNCHANGED <<said, again, sweep>>
          /\ job' = [kind |-> "wake", phase |-> "turn", gen |-> generation.gen, seen |-> job.seen]
          /\ generation.gen \in Gens /\ \A g \in job.seen : g <= generation.gen
      BY <1>5, MoveGoesAt DEF server
    <2>2. UNCHANGED Over
      BY <2>1 DEF Over, Rev
    <2>3. /\ job' \in Jobs /\ job'.kind = "wake" /\ \A phase : At(phase)' => phase = "turn"
          /\ job'.seen = job.seen /\ job'.gen = generation.gen
      BY <2>1 DEF Jobs, Goes, Turns, At
    <2> QED BY <1>1, <2>1, <2>2, <2>3 DEF JobSafe, SeenInv, Rotating, Choosing
  <1> QED BY <1>2, <1>3, <1>4, <1>5 DEF Lane

\* The types of the sessions, the job and the sweep, what the job saw, and that only an
\* ended game is cleaned up.
LEMMA NextJob ==
  ASSUME IInv, [Next]_vars
  PROVE  JobSafe'
  <1>1. /\ JobSafe /\ SeenInv
        /\ At("clean") => job.whole \/ job.left \subseteq job.gens
    BY DEF IInv, Typed, EndsOver, JobSafe
  <1>2. CASE Beside
    <2>1. /\ SessionsTypeOK' /\ UNCHANGED <<job, generation>>
          /\ sweep' \in Sweeps /\ again' \subseteq again
      BY <1>2, BesideAt
    <2>2. \A phase : UNCHANGED At(phase)
      BY <2>1 DEF At
    <2>3. SeenInv'
      BY <1>1, <2>1, <2>2 DEF SeenInv, Choosing, Rotating
    <2> QED BY <1>1, <2>1, <2>2, <2>3, OverStays DEF JobSafe
  <1>3. CASE Restart
    <2>1. /\ job' = Idle /\ generation' = NoGeneration /\ again' = {} /\ sweep' = NoSweep
          /\ run' = [g \in Gens |-> "none"] /\ stored' = stored
      BY <1>3 DEF Restart
    <2>2. SessionsTypeOK'
      BY <1>1, <2>1 DEF JobSafe, SessionsTypeOK
    <2>3. sweep' \in Sweeps /\ again' \subseteq 1 .. CleanRetries /\ ~(again' # {})
      BY <2>1 DEF Sweeps
    <2> QED BY <2>1, <2>2, <2>3, IdleIs DEF JobSafe, SeenInv, Rotating, Choosing
  <1>4. CASE UNCHANGED vars
    BY <1>1, <1>4 DEF vars, sessions, server, wakes, hist, JobSafe, SessionsTypeOK, SeenInv,
                      Choosing, Rotating, At, Over, Rev
  <1> QED BY <1>2, <1>3, <1>4, LaneSafe, DeletingSafe, Steps

-----------------------------------------------------------------------------
(* The claim *)

LEMMA NextSaid ==
  ASSUME IInv, [Next]_vars
  PROVE  /\ said' \in Seq(Saids) /\ Rev' \in Revs /\ Rev <= Rev'
         /\ \A r \in 1 .. Rev' : said'[r] = "over" => r = Rev'
  <1>1. /\ said \in Seq(Saids) /\ Rev \in Revs /\ Rev \in Nat
        /\ \A r \in 1 .. Rev : said[r] = "over" => r = Rev
    BY DEF IInv, Typed, EndsOver, Rev, Revs
  <1>2. CASE said' = said
    BY <1>1, <1>2 DEF Rev
  <1>3. CASE ~Over /\ (\E next \in Saids : said' = Append(said, next)) /\ Rev < MaxRev
    <2>1. PICK next \in Saids : said' = Append(said, next)
      BY <1>3
    <2>2. /\ said' \in Seq(Saids) /\ Rev' = Rev + 1
          /\ \A r \in 1 .. Rev : said'[r] = said[r]
      BY <1>1, <2>1 DEF Rev
    <2>3. Rev' \in Revs
      BY <1>1, <1>3, <2>2, Sizes DEF Revs
    <2>4. ASSUME NEW r \in 1 .. Rev', said'[r] = "over" PROVE r = Rev'
      <3>1. r \in 1 .. Rev \/ r = Rev'
        BY <1>1, <2>2
      <3>2. r \in 1 .. Rev => FALSE
        BY <1>1, <1>3, <2>2, <2>4 DEF Over
      <3> QED BY <3>1, <3>2
    <2> QED BY <1>1, <2>2, <2>3, <2>4
  <1> QED BY <1>2, <1>3, SaidAt

ClaimSafe ==
  /\ Claimed /\ game.woken.tries <= Retries + 1
  /\ woke \in [Revs -> Nat] /\ refused \subseteq Revs

\* A step that does not take the move, and lets no wake begin in an ended game.
LEMMA ClaimStays ==
  ASSUME IInv, [Next]_vars, WokenSame, UNCHANGED <<woke, refused>>,
         ended /\ job.kind # "wake" => ended' /\ job'.kind # "wake",
         At("view")' => game.woken.rev <= job'.rev /\ job'.rev <= Rev'
  PROVE  ClaimSafe'
  <1>1. /\ ClaimSafe /\ game.woken.rev \in Nat /\ Rev \in Nat
    BY DEF IInv, Typed, ClaimSafe, Games, Wokens, Revs, None
  <1>2. Rev' \in Nat /\ Rev <= Rev'
    BY NextSaid DEF Revs
  <1>3. game'.woken.rev <= Rev'
    BY <1>1, <1>2 DEF ClaimSafe, Claimed, WokenSame
  <1>4. (ended' /\ job'.kind # "wake") \/ \A r \in Revs : r > game'.woken.rev => woke'[r] = 0
    BY <1>1 DEF ClaimSafe, Claimed, WokenSame
  <1>5. At("view")' => game'.woken.rev <= job'.rev /\ job'.rev <= Rev'
    BY DEF WokenSame
  <1> QED BY <1>1, <1>3, <1>4, <1>5 DEF ClaimSafe, Claimed, WokenSame

\* The end of a game keeps the claim of a wake in flight and forgets any other.
LEMMA ClaimForgotten ==
  ASSUME IInv, [Next]_vars, Forgets, UNCHANGED <<woke, refused>>,
         job' = job \/ (job.kind = "wake" /\ job' = Idle)
  PROVE  ClaimSafe'
  <1>1. CASE job.kind = "wake"
    <2>1. WokenSame
      BY <1>1 DEF Forgets, WokenSame
    <2>2. At("view")' => game.woken.rev <= job'.rev /\ job'.rev <= Rev'
      <3>1. CASE job' = job
        <4>1. At("view")' => At("view")
          BY <3>1 DEF At
        <4>2. Rev \in Nat /\ Rev' \in Nat /\ Rev <= Rev'
          BY NextSaid DEF IInv, Typed, Revs
        <4>3. At("view") => job.rev \in Nat
          BY JobShapes DEF IInv, Typed, Views, Revs
        <4> QED BY <3>1, <4>1, <4>2, <4>3 DEF IInv, Claimed
      <3>2. CASE job' = Idle
        BY <3>2, IdleIs
      <3> QED BY <3>1, <3>2
    <2> QED BY <1>1, <2>1, <2>2, ClaimStays
  <1>2. CASE job.kind # "wake"
    <2>1. /\ ended' /\ job' = job /\ game'.woken = NoWoken
      BY <1>2 DEF Forgets
    <2>2. game'.woken.rev = 0 /\ game'.woken.tries = 0
      BY <2>1, UnseenGame DEF None
    <2>3. ~At("view")'
      BY <1>2, <2>1, JobShapes DEF At, Views, IInv, Typed
    <2>4. ClaimSafe /\ Rev' \in Nat
      BY NextSaid DEF IInv, Typed, ClaimSafe, Revs
    <2> QED BY <1>2, <2>1, <2>2, <2>3, <2>4, Sizes DEF ClaimSafe, Claimed, None
  <1> QED BY <1>1, <1>2

\* A wake that takes the move counts it, once for every try of its revision.
LEMMA ViewClaims ==
  ASSUME IInv, [Next]_vars, ViewArrives
  PROVE  ClaimSafe'
  <1> DEFINE r == job.rev
  <1>1. /\ job \in Views /\ r \in Revs /\ r \in Nat /\ r <= Rev /\ job.kind = "wake"
        /\ UNCHANGED said
    BY ViewArrivesAt DEF Views, Revs, server
  <1>2. /\ ClaimSafe /\ game.woken \in Wokens /\ Rev \in Nat
        /\ game.woken.rev <= r
    BY DEF IInv, Typed, ClaimSafe, Games, Claimed, ViewArrives, Revs
  <1>3. /\ game.woken.rev \in Nat /\ game.woken.tries \in Nat
        /\ woke \in [Revs -> Nat] /\ Rev' = Rev
    BY <1>1, <1>2 DEF Wokens, Revs, None, ClaimSafe, Rev
  <1>4. /\ \A q \in Revs : woke[q] <= Retries + 1
        /\ game.woken.rev # None => woke[game.woken.rev] <= game.woken.tries
        /\ \A q \in Revs : q > game.woken.rev => woke[q] = 0
        /\ refused \subseteq Revs
    BY <1>1, <1>2 DEF ClaimSafe, Claimed
  <1>5. CASE Forgets /\ job' = Idle /\ UNCHANGED <<woke, refused>>
    BY <1>1, <1>5, ClaimForgotten
  <1>6. CASE Notes /\ game'.woken = game.woken /\ job' = Idle /\ UNCHANGED <<woke, refused>>
    BY <1>1, <1>6, IdleIs, ClaimStays DEF WokenSame
  <1>7. CASE /\ Takes(r)
             /\ game'.woken = [rev |-> r, tries |-> Retries + 1, rest |-> "resting"]
             /\ job' = Idle /\ UNCHANGED woke /\ refused' = refused \cup {r}
    <2>1. game'.woken.rev = r /\ game'.woken.tries = Retries + 1
      BY <1>7
    <2>2. \A q \in Revs : q > r => woke'[q] = 0
      <3> SUFFICES ASSUME NEW q \in Revs, q > r PROVE woke'[q] = 0
        OBVIOUS
      <3>1. q \in Nat /\ q > game.woken.rev
        BY <1>1, <1>2, <1>3 DEF Revs
      <3> QED BY <1>4, <1>7, <3>1
    <2>3. woke' = woke /\ refused' \subseteq Revs
      BY <1>1, <1>4, <1>7
    <2>4. Claimed'
      BY <1>1, <1>3, <1>4, <1>7, <2>1, <2>2, <2>3, IdleIs DEF Claimed
    <2> QED BY <1>3, <2>1, <2>3, <2>4, Sizes DEF ClaimSafe
  <1>8. CASE /\ Takes(r)
             /\ game'.woken = [rev |-> r, tries |-> Attempt(game.woken, r), rest |-> "running"]
             /\ woke' = [woke EXCEPT ![r] = @ + 1] /\ UNCHANGED refused
             /\ job' = [kind |-> "wake", phase |-> "list"]
    <2> DEFINE tries == Attempt(game.woken, r)
    <2>1. game'.woken.rev = r /\ game'.woken.tries = tries
      BY <1>8
    <2>2. game.woken.rev # r \/ game.woken.tries <= Retries
      BY <1>8 DEF Takes, Due
    <2>3. r # None /\ tries = IF game.woken.rev = r THEN game.woken.tries + 1 ELSE 1
      BY <1>1 DEF Attempt, Revs, None
    <2>4. woke[r] + 1 <= tries /\ tries <= Retries + 1 /\ tries \in Nat
      <3>1. CASE game.woken.rev = r
        <4>1. woke[r] <= game.woken.tries /\ woke[r] \in Nat
          BY <1>1, <1>3, <1>4, <2>3, <3>1
        <4> QED BY <1>3, <2>2, <2>3, <3>1, <4>1, Sizes
      <3>2. CASE game.woken.rev # r
        <4>1. woke[r] = 0
          BY <1>1, <1>2, <1>3, <1>4, <3>2
        <4> QED BY <2>3, <3>2, <4>1, Sizes
      <3> QED BY <3>1, <3>2
    <2> HIDE DEF tries
    <2>5. woke' \in [Revs -> Nat] /\ woke'[r] = woke[r] + 1
          /\ \A q \in Revs : q # r => woke'[q] = woke[q]
      BY <1>1, <1>3, <1>8
    <2>6. \A q \in Revs : woke'[q] <= Retries + 1
      <3> TAKE q \in Revs
      <3>1. CASE q = r
        <4>1. woke[r] \in Nat
          BY <1>1, <1>3
        <4> QED BY <2>4, <2>5, <3>1, <4>1, Sizes
      <3>2. CASE q # r
        BY <1>4, <2>5, <3>2
      <3> QED BY <3>1, <3>2
    <2>7. \A q \in Revs : q > r => woke'[q] = 0
      <3> SUFFICES ASSUME NEW q \in Revs, q > r PROVE woke'[q] = 0
        OBVIOUS
      <3>1. q \in Nat /\ q # r /\ q > game.woken.rev
        BY <1>1, <1>2, <1>3 DEF Revs
      <3> QED BY <1>4, <2>5, <3>1
    <2>8. ~At("view")'
      BY <1>8 DEF At
    <2>9. Claimed'
      BY <1>1, <1>3, <2>1, <2>4, <2>5, <2>6, <2>7, <2>8 DEF Claimed
    <2> QED BY <1>4, <1>8, <2>1, <2>4, <2>5, <2>9 DEF ClaimSafe
  <1> QED BY <1>5, <1>6, <1>7, <1>8, ViewArrivesAt

\* The steps that leave the claim to others.
LEMMA NextClaim ==
  ASSUME IInv, [Next]_vars
  PROVE  ClaimSafe'
  <1>1. /\ ClaimSafe /\ Claimed /\ game.woken.rev \in Nat /\ Rev \in Nat
        /\ job \in Jobs /\ (ended => ~game.present)
    BY DEF IInv, Typed, ClaimSafe, Games, Wokens, Revs, None, LaneInv
  <1>2. Rev' \in Nat /\ Rev <= Rev'
    BY NextSaid DEF Revs
  <1>3. ASSUME job' = job, At("view")'
        PROVE  game.woken.rev <= job'.rev /\ job'.rev <= Rev'
    <2>1. At("view")
      BY <1>3 DEF At
    <2>2. job.rev \in Nat
      BY <1>1, <2>1, JobShapes DEF Views, Revs
    <2> QED BY <1>1, <1>2, <1>3, <2>1, <2>2 DEF Claimed
  <1>4. CASE Beside
    <2>1. job' = job
      BY <1>4, BesideAt
    <2>2. CASE \E r \in Revs : Signal(r)
      <3>1. UNCHANGED <<woke, refused>> /\ (Forgets \/ (WokenSame /\ UNCHANGED ended))
        BY <2>2, SignalAt DEF Signal, hist, WokenSame, Notes, Queues
      <3>2. CASE Forgets
        BY <2>1, <3>1, <3>2, ClaimForgotten
      <3>3. CASE WokenSame /\ UNCHANGED ended
        BY <1>3, <2>1, <3>1, <3>3, ClaimStays
      <3> QED BY <3>1, <3>2, <3>3
    <2>3. CASE BackoffPasses \/ TimerFires
      <3>1. WokenSame /\ UNCHANGED <<woke, refused, ended>>
        BY <2>3, TimersAt DEF BackoffPasses, TimerFires, hist
      <3> QED BY <1>3, <2>1, <3>1, ClaimStays
    <2>4. CASE \/ \E next \in Saids : Play(next)
               \/ Snooze \/ Runs \/ Wears \/ CleanAgain \/ Sweeping
      <3>1. UNCHANGED <<woke, refused, game, ended>>
        <4>1. CASE (\E next \in Saids : Play(next)) \/ Snooze
          BY <4>1 DEF Play, Snooze, hist, wakes
        <4>2. CASE Runs \/ Wears
          BY <4>2, HostAt DEF hist, wakes
        <4>3. CASE CleanAgain \/ Sweeping
          BY <4>3, CleanAgainAt, SweepingAt DEF hist
        <4> QED BY <2>4, <4>1, <4>2, <4>3
      <3> QED BY <1>3, <2>1, <3>1, ClaimStays DEF WokenSame
    <2> QED BY <1>4, <2>2, <2>3, <2>4 DEF Beside
  <1>5. CASE JobBegins
    <2>1. /\ UNCHANGED <<woke, refused, ended>> /\ WokenSame
      BY <1>5, BeginsAt DEF hist, Begins, WokenSame
    <2>2. /\ job' = Idle \/ (game.present /\ job' = [kind |-> "wake", phase |-> "read"])
               \/ (\E try : job' = Deletion("end", EveryGen, try, {}))
               \/ (\E gens : job' = Deletion("sweep", gens, 0, {}))
      BY <1>5, BeginsAt
    <2>3. ~At("view")' /\ (job'.kind = "wake" => game.present)
      BY <2>2, IdleIs DEF At, Deletion
    <2> QED BY <1>1, <2>1, <2>3, ClaimStays
  <1>6. CASE TurnSettles \/ ChooseSession \/ MoveGoes \/ ViewFails
    <2>1. /\ UNCHANGED <<woke, refused, ended>> /\ WokenSame
      BY <1>6, TurnSettlesAt, ChooseSessionAt, MoveGoesAt DEF hist, ViewFails, Notes, WokenSame
    <2>2. job.kind = "wake"
      BY <1>1, <1>6, TurnSettlesAt, ChooseSessionAt, MoveGoesAt, JobShapes
         DEF ViewFails, Asks, Turns, Goes
    <2>3. ~At("view")'
      <3>1. \/ job' = Idle
            \/ \E seen : job' = [kind |-> "wake", phase |-> "go", seen |-> seen]
            \/ \E gens, seen : job' = Deletion("wake", gens, 0, seen)
            \/ \E gen, seen : job' = [kind |-> "wake", phase |-> "turn", gen |-> gen, seen |-> seen]
        BY <1>6, TurnSettlesAt, ChooseSessionAt, MoveGoesAt DEF ViewFails, Done
      <3> QED BY <3>1, IdleIs DEF At, Deletion
    <2> QED BY <2>1, <2>2, <2>3, ClaimStays
  <1>7. CASE ServeView
    <2>1. /\ UNCHANGED <<woke, refused, game, ended, said>> /\ At("read")
          /\ job' = [kind |-> "wake", phase |-> "view", rev |-> Rev]
      BY <1>7 DEF ServeView, hist, server
    <2>2. job.kind = "wake" /\ job'.rev = Rev /\ game.woken.rev <= Rev
      BY <1>1, <2>1, JobShapes DEF Asks, Claimed
    <2> QED BY <1>2, <1>1, <2>1, <2>2, ClaimStays DEF WokenSame
  <1>8. CASE Deleting
    <2>1. /\ UNCHANGED <<woke, refused, game, ended>> /\ job \in Deletions
      BY <1>8, DeleteLookAt, CleansAt DEF hist, Deleting
    <2>2. \/ job' = Idle
          \/ job.kind = "wake" /\ job' = [kind |-> "wake", phase |-> "go", seen |-> job.seen]
          \/ \E targets, l, whole :
               job' = [job EXCEPT !.phase = "clean", !.left = targets, !.listed = l, !.whole = whole]
          \/ \E left : job' = [job EXCEPT !.left = left]
      BY <1>8, DeleteLookAt, CleansAt DEF Deleting, Finishes, Looked
    <2>3. ~At("view")' /\ (job'.kind = "wake" => job.kind = "wake")
      <3>1. CASE job' = Idle
        BY <3>1, IdleIs
      <3>2. CASE job.kind = "wake" /\ job' = [kind |-> "wake", phase |-> "go", seen |-> job.seen]
        BY <3>2 DEF At
      <3>3. CASE \/ \E targets, l, whole :
                      job' = [job EXCEPT !.phase = "clean", !.left = targets, !.listed = l,
                                         !.whole = whole]
                 \/ \E left : job' = [job EXCEPT !.left = left]
        <4>1. job'.kind = job.kind /\ job'.phase \in {"clean", job.phase}
          BY <2>1, <3>3 DEF Deletions
        <4>2. job.phase # "view"
          BY <2>1 DEF Deletions
        <4> QED BY <4>1, <4>2 DEF At
      <3> QED BY <2>2, <3>1, <3>2, <3>3
    <2> QED BY <2>1, <2>3, ClaimStays DEF WokenSame
  <1>9. CASE Restart
    <2>1. /\ game'.woken.rev = 0 /\ game'.woken.tries = 0 /\ job' = Idle
          /\ woke' = [r \in Revs |-> 0] /\ refused' = {}
      BY <1>9, UnseenGame DEF Restart, None
    <2>2. ~At("view")' /\ woke' \in [Revs -> Nat] /\ \A r \in Revs : woke'[r] = 0
      BY <2>1, IdleIs
    <2> QED BY <1>2, <2>1, <2>2, Sizes DEF ClaimSafe, Claimed, None
  <1>10. CASE UNCHANGED vars
    <2>1. UNCHANGED <<woke, refused, game, ended, job>>
      BY <1>10 DEF vars, wakes, hist
    <2> QED BY <1>3, <2>1, ClaimStays DEF WokenSame
  <1> QED BY <1>4, <1>5, <1>6, <1>7, <1>8, <1>9, <1>10, ViewClaims, Steps DEF Lane

-----------------------------------------------------------------------------
(* The theorems *)

LEMMA InitInvariant == Init => IInv
  <1> SUFFICES ASSUME Init PROVE IInv
    OBVIOUS
  <1> USE Sizes
  <1>1. /\ said = <<"agent">> /\ game = Unseen /\ ended = FALSE /\ snoozed = FALSE
        /\ lane = <<>> /\ job = Idle /\ again = {} /\ sweep = NoSweep
        /\ woke = [r \in Revs |-> 0] /\ refused = {}
    BY DEF Init
  <1>2. SessionsTypeOK
    BY DEF Init, SessionsInit, SessionsTypeOK
  <1>3. said \in Seq(Saids) /\ Rev = 1 /\ Rev \in Revs /\ said[1] # "over"
    BY <1>1 DEF Saids, Rev, Revs
  <1>4. lane \in Seq(LaneJobs) /\ DOMAIN lane = {} /\ OneWake(lane) /\ ~HasWake(lane)
    BY <1>1 DEF OneWake, HasWake
  <1>5. job \in Jobs /\ job.kind = "idle" /\ \A phase : ~At(phase)
    BY <1>1 DEF Jobs, Idle, At
  <1>6. Typed
    <2>1. game \in Games /\ game.woken.tries <= Retries + 1
      BY <1>1, UnseenGame
    <2>2. woke \in [Revs -> Nat] /\ sweep \in Sweeps /\ snoozed \in BOOLEAN /\ ended \in BOOLEAN
      BY <1>1 DEF Sweeps
    <2>3. again \subseteq 1 .. CleanRetries /\ refused \subseteq Revs
      BY <1>1
    <2> QED BY <1>2, <1>3, <1>4, <1>5, <2>1, <2>2, <2>3 DEF Typed
  <1>7. LaneInv
    BY <1>1, <1>4, UnseenGame DEF LaneInv
  <1>8. Claimed
    BY <1>1, <1>3, <1>5, UnseenGame DEF Claimed, None
  <1>9. SeenInv /\ EndsOver
    BY <1>1, <1>3, <1>4, <1>5 DEF SeenInv, EndsOver, Rotating, Choosing
  <1> QED BY <1>6, <1>7, <1>8, <1>9 DEF IInv

LEMMA NextInvariant == IInv /\ [Next]_vars => IInv'
  <1> SUFFICES ASSUME IInv, [Next]_vars PROVE IInv'
    OBVIOUS
  <1>1. Typed'
    BY NextLane, NextJob, NextSaid, NextClaim, SaidAt DEF Typed, JobSafe, ClaimSafe
  <1>2. EndsOver'
    <2>1. \A i \in DOMAIN lane' : lane'[i].kind = "end" => Over'
      BY NextLane, OverStays
    <2> QED BY <2>1, NextJob, NextSaid DEF EndsOver, JobSafe
  <1> QED BY <1>1, <1>2, NextLane, NextJob, NextClaim DEF IInv, JobSafe, ClaimSafe

THEOREM Invariance == Spec => []IInv
  BY InitInvariant, NextInvariant, PTL DEF Spec

\* Every variable keeps its type, a revision is woken at most once and on each backoff
\* however its signals repeat and overtake each other, and no second wake of the game
\* waits on the lane (wake.ts:206-255).
THEOREM WakesCounted == Spec => []WakeInv
  <1>1. ASSUME IInv PROVE WakeInv
    <2>1. TypeOK
      <3>1. \A i \in DOMAIN lane : lane[i].kind \in {"wake", "end", "sweep"}
        <4>1. \A i \in DOMAIN lane : lane[i] \in LaneJobs
          BY <1>1 DEF IInv, Typed
        <4> QED BY <4>1 DEF LaneJobs, WakeJob, EndJob, SweepJob
      <3>2. sweep.phase \in {"idle", "ask", "queued"}
        BY <1>1 DEF IInv, Typed, Sweeps, NoSweep
      <3>3. job.kind \in {"idle", "wake", "end", "sweep"}
        BY <1>1, JobShapes DEF IInv, Typed
      <3> QED BY <1>1, <3>1, <3>2, <3>3 DEF TypeOK, IInv, Typed, Games, Wokens, Saids
    <2>2. WakesBounded
      BY <1>1 DEF IInv, Claimed, WakesBounded
    <2>3. OneWakeQueued
      <3> DEFINE W == {i \in DOMAIN lane : lane[i].kind = "wake"}
      <3>1. \A i, j \in W : i = j
        BY <1>1 DEF IInv, LaneInv, OneWake
      <3>2. Cardinality(W) <= 1
        <4> HIDE DEF W
        <4>1. CASE W = {}
          BY <4>1, FS_EmptySet
        <4>2. CASE \E i : W = {i}
          <5>1. Cardinality(W) = 1
            BY <4>2, FS_Singleton
          <5> QED BY <5>1
        <4> QED BY <3>1, <4>1, <4>2
      <3>3. game.present /\ game.pending => \E i \in DOMAIN lane : lane[i].kind = "wake"
        BY <1>1, Zenon DEF IInv, LaneInv, HasWake
      <3> QED BY <3>2, <3>3 DEF OneWakeQueued
    <2> QED BY <2>1, <2>2, <2>3 DEF WakeInv
  <1> QED BY <1>1, Invariance, PTL

\* A move never runs in a generation older than one it saw in the store, however many
\* rotations, restarts and failed lists came before (session.ts:820-880).
THEOREM NewestIsPlayed == Spec => []NewestPlayed
  <1>1. IInv => NewestPlayed
    BY DEF IInv, SeenInv, NewestPlayed
  <1> QED BY <1>1, Invariance, PTL

DeletesMeant ==
  \A g \in Stored \ Stored' : ~Over =>
    \/ g \notin job.listed
    \/ g \in job.gens /\ (job.kind = "wake" => g = generation.gen)
    \/ job.kind = "sweep" /\ Stored' = {}

LEMMA NextDeletes ==
  ASSUME IInv, [Next]_vars
  PROVE  DeletesMeant
  <1>1. CASE CleanDeletes
    <2>1. PICK g \in job.left :
            \/ job.whole /\ Delete(Gens)
            \/ ~job.whole /\ Reachable(g, job.listed) /\ Delete(Reach(g))
            \/ UNCHANGED stored
      BY <1>1 DEF CleanDeletes
    <2>2. At("clean") /\ job \in Deletions
      BY <1>1, CleansAt DEF CleanDeletes
    <2>3. /\ job.kind = "end" => Over
          /\ job.whole \/ job.left \subseteq job.gens
          /\ job.kind = "wake" => job.gens = {generation.gen} /\ ~job.whole
      BY <2>2 DEF IInv, EndsOver, SeenInv, Rotating
    <2>4. CASE job.whole /\ Delete(Gens)
      <3>1. Stored' = {}
        BY <2>4 DEF Delete, Stored
      <3>2. job.kind \in {"wake", "end", "sweep"}
        BY <2>2 DEF Deletions
      <3> QED BY <2>3, <2>4, <3>1, <3>2 DEF DeletesMeant
    <2>5. CASE ~job.whole /\ Reachable(g, job.listed) /\ Delete(Reach(g))
      <3>1. \A h \in Stored \ Stored' : h \in Reach(g)
        BY <2>5 DEF Delete, Stored
      <3>2. \A h \in Reach(g) : h \in job.listed => h = g
        BY <2>5 DEF Reachable
      <3>3. g \in job.gens
        BY <2>1, <2>3, <2>5
      <3> QED BY <2>3, <3>1, <3>2, <3>3 DEF DeletesMeant
    <2>6. CASE UNCHANGED stored
      BY <2>6 DEF DeletesMeant, Stored
    <2> QED BY <2>1, <2>4, <2>5, <2>6
  <1>2. CASE ~CleanDeletes
    <2>1. Stored \subseteq Stored'
      <3>1. CASE Beside
        BY <3>1, BesideAt
      <3>2. CASE MoveGoes
        BY <3>2, MoveGoesAt
      <3>3. ASSUME UNCHANGED stored PROVE Stored \subseteq Stored'
        BY <3>3 DEF Stored
      <3>4. CASE JobBegins \/ ViewArrives \/ ChooseSession \/ TurnSettles
        BY <3>3, <3>4, BeginsAt, ViewArrivesAt, ChooseSessionAt, TurnSettlesAt DEF sessions
      <3>5. CASE ServeView \/ ViewFails
        BY <3>3, <3>5 DEF ServeView, ViewFails, sessions
      <3>6. CASE \E listed \in Lists : DeleteLook(listed)
        BY <3>3, <3>6 DEF DeleteLook
      <3>7. CASE CleanFails \/ Restart
        BY <3>3, <3>7 DEF CleanFails, Restart
      <3>8. CASE UNCHANGED vars
        BY <3>3, <3>8 DEF vars, sessions
      <3> QED BY <1>2, <3>1, <3>2, <3>4, <3>5, <3>6, <3>7, <3>8, Steps DEF Lane, Deleting
    <2> QED BY <2>1 DEF DeletesMeant
  <1> QED BY <1>1, <1>2

\* While a game goes, a deletion takes nothing it saw but what it means: a rotation the
\* generation its move leaves, a sweep those that were not the newest when it looked, or
\* all at once where a prefix cannot single one out (session.ts:930-1068).
THEOREM DeletionsMeant == Spec => DeletesTheMeant
  <1>1. IInv /\ [Next]_vars => [DeletesMeant]_vars
    BY NextDeletes
  <1>2. DeletesTheMeant <=> [][DeletesMeant]_vars
    BY DEF DeletesTheMeant, DeletesMeant
  <1> QED BY <1>1, <1>2, Invariance, PTL DEF Spec

=============================================================================
