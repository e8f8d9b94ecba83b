---------------------------- MODULE GameSessions ----------------------------
(***************************************************************************)
(* The sessions of one chat game in an OpenClaw gateway                    *)
(* (plugin/src/widgets/session.ts).  A game is played in sessions of its   *)
(* own, one generation after the other: a session that grew near the       *)
(* host's memory flush is deleted and the next move runs in a fresh one,   *)
(* and all of them go when the game is over.  The host's store may fail to *)
(* list or to delete, and refuses to delete under a run.                   *)
(*                                                                         *)
(* The store is the SQLite one: it deletes by key prefix, which for        *)
(* generation 0 is that of every one and for 1 that of 12, too.            *)
(***************************************************************************)
EXTENDS Integers, FiniteSets, FiniteSetsExt

CONSTANTS
  MaxGen,      \* bound: generations of the game
  UNMEASURED,  \* moves a generation takes when its size cannot be measured
  BlindLists   \* whether the host's store may fail to list its sessions

ASSUME SessionsAssumption ==
  /\ MaxGen \in Nat /\ UNMEASURED \in Nat \ {0}
  /\ BlindLists \in BOOLEAN

VARIABLES
  stored,      \* the host's store, per generation; worn: near the flush
  run,         \* the host's runs on it: none, on, on with a message behind it
               \* (more), or about to start for that message (queued)
  generation   \* this process: the generation of the moves, and how many it took

sessions == <<stored, run, generation>>

Gens == 0 .. MaxGen
Unknown == UNMEASURED + 1  \* moves of a generation from before this process
NoGeneration == [gen |-> -1, moves |-> 0]
Fresh(g) == [gen |-> g, moves |-> 0]

SessionsTypeOK ==
  /\ stored \in [Gens -> {"none", "fresh", "worn"}]
  /\ run \in [Gens -> {"none", "on", "more", "queued"}]
  /\ generation \in {NoGeneration} \cup [gen : Gens, moves : 0 .. Unknown]

SessionsInit ==
  /\ stored = [g \in Gens |-> "none"]
  /\ run = [g \in Gens |-> "none"]
  /\ generation = NoGeneration

Stored == {g \in Gens : stored[g] # "none"}
Running(g) == run[g] \in {"on", "more"}

-----------------------------------------------------------------------------
(* The host *)

Receive(g) ==
  /\ run' = [run EXCEPT ![g] = CASE @ = "none" -> "on" [] @ = "queued" -> "queued" [] OTHER -> "more"]
  /\ stored' = [stored EXCEPT ![g] = IF @ = "none" THEN "fresh" ELSE @]

RunEnds(g) ==
  /\ Running(g)
  /\ run' = [run EXCEPT ![g] = IF @ = "more" THEN "queued" ELSE "none"]
  /\ UNCHANGED <<stored, generation>>

\* A queued message starts its run, in a session that may be gone by now.
RunStarts(g) ==
  /\ run[g] = "queued"
  /\ run' = [run EXCEPT ![g] = "on"]
  /\ stored' = [stored EXCEPT ![g] = IF @ = "none" THEN "fresh" ELSE @]
  /\ UNCHANGED generation

\* A session comes near the flush: runs fill it, the chat's model changes, or the
\* host's reset is due.
Wear(g) ==
  /\ stored[g] = "fresh" /\ g < MaxGen
  /\ stored' = [stored EXCEPT ![g] = "worn"]
  /\ UNCHANGED <<run, generation>>

-----------------------------------------------------------------------------
(* The generation of a move *)

\* What listGameSessions may return; {Blind} is no list at all.
Blind == MaxGen + 1
Lists == {Stored} \cup (IF BlindLists THEN {{Blind}} ELSE {})

\* Mutation: what this process remembers, whatever the store says.
Known_Remembered(listed) ==
  IF generation = NoGeneration THEN Fresh(0) ELSE generation

\* The head of gameGenerationForMove.  Without a list there is no newest one.
Known(listed) ==
  LET own == listed \ {Blind}
  IN IF generation = NoGeneration \/ (own # {} /\ Max(own) > generation.gen)
     THEN IF own = {} THEN Fresh(0) ELSE [gen |-> Max(own), moves |-> Unknown]
     ELSE generation

\* A generation the list does not show yet, unless its moves say otherwise.
NotListedYet(known, listed) ==
  Blind \notin listed /\ known.gen \notin listed /\ known.moves # UNMEASURED

\* gameRotationReason; sized: the host told the size of the listed session.
Rotates(known, listed, sized) ==
  \/ known.gen \in listed /\ stored[known.gen] = "worn"
  \/ ~(known.gen \in listed /\ sized) /\ known.moves >= UNMEASURED

\* noteGameMove
Counted(known) ==
  IF known.moves < UNMEASURED THEN [known EXCEPT !.moves = @ + 1] ELSE known

-----------------------------------------------------------------------------
(* deleteGameSessions *)

\* The generations whose keys begin with this one's.
Reach(g) ==
  IF g = 0 THEN Gens ELSE {g} \cup {h \in Gens : \E n \in 1 .. MaxGen : h \div 10^n = g}
EveryGen == {}  \* what to delete, when every generation is meant

\* Mutation: a generation a prefix cannot single out waits for its game's end.
Whole_Never(gens, orWhole, listed) == gens = EveryGen

\* A generation that cannot be deleted alone takes the others along.
Whole(gens, orWhole, listed) ==
  \/ gens = EveryGen
  \/ orWhole /\ \E g \in gens \cap listed : (Reach(g) \cap listed) \ gens # {}

Targets(gens, orWhole, listed) ==
  IF Whole(gens, orWhole, listed) THEN listed ELSE gens \cap listed

\* Mutation: a prefix is used although it reaches a session still in play.
Reachable_Any(g, listed) == TRUE

\* A prefix is used when it reaches the meant session only.
Reachable(g, listed) == Reach(g) \cap listed = {g}

\* The store deletes what is under a prefix; it refuses while a run on it goes.
Delete(gone) ==
  /\ \A g \in gone : ~Running(g)
  /\ stored' = [g \in Gens |-> IF g \in gone THEN "none" ELSE stored[g]]
=============================================================================
