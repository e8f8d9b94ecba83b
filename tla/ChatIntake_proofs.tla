-------------------------- MODULE ChatIntake_proofs --------------------------
(***************************************************************************)
(* The chat intake keeps its promises for every number of posts, every     *)
(* page and batch size, every limit of the queue and every bound, and it   *)
(* uses the journal as InboxJournal allows.  The two proofs need each      *)
(* other: that the intake keeps to the rules of the journal's callers      *)
(* rests on what the drain holds between its steps, and what the intake    *)
(* promises rests on the journal's invariant.  So they are carried         *)
(* together: a step of the intake is a step of the journal, which keeps    *)
(* the journal's invariant (InboxJournal_proofs), and with it the intake's.*)
(***************************************************************************)
EXTENDS ChatIntake, FiniteSetTheorems, WellFoundedInduction, TLAPS

JP == INSTANCE InboxJournal_proofs WITH Sources <- {ch}

-----------------------------------------------------------------------------
(* The inductive invariant *)

Keys == J!Keys
Posn == 0 .. MaxPos
State(k) == item[k].state
Exists(p) == post[p].status # "none"

Phases == {"idle", "adopt", "fresh", "read", "page", "dispatch", "ack", "acking", "acked"}
Drains == [phase : Phases, after : Posn, cursor : Posn, held : BOOLEAN, pages : Nat,
           seen : SUBSET Posts, streaming : SUBSET Posts]
Dispatches == [items : SUBSET Keys, automatic : BOOLEAN, inline : BOOLEAN,
               stage : {"building", "handing", "delivered"}, started : BOOLEAN]

Typed ==
  /\ reason \in [Keys -> {"none", "live", "attention"} \cup Historical]
  /\ post \in [Posts -> [kind : Kinds \cup {"chatter"},
                         status : {"none", "inserting", "streaming", "published", "removed"}]]
  /\ readPtr \in {NoPtr} \cup Posn /\ overtaken \subseteq Posts
  /\ up \in {"down", "starting", "up"}
  /\ caughtUp \in BOOLEAN /\ snoozed \in BOOLEAN
  /\ agentTurns \in 0 .. InterAgentLimit
  /\ drain \in Drains /\ drain.streaming \subseteq drain.seen
  /\ disp \subseteq Dispatches /\ inflight \subseteq Keys
  /\ running \in Nat
  /\ start \in Posn
  /\ turns \in [Keys -> Nat] /\ retried \in [Keys -> Nat]
  /\ restarts \in Nat /\ snoozes \in Nat

\* Posts come in the order of their ids, and nothing knows a post that is not there.
InOrder ==
  /\ \A p, q \in Posts : Exists(q) /\ p < q => Exists(p)
  /\ \A p \in Posts :
       ~Exists(p) =>
         /\ Cursor < p /\ start < p /\ readPtr < p /\ drain.after < p
         /\ p \notin drain.seen
         /\ \A k \in Keys : k.pos = p => State(k) = "absent"

\* The cursor, the read pointer and a page stand at posts that were committed: one
\* that is committed later below them is overtaken.
Reached(n) == n <= 0 \/ \E q \in Posts : Committed(q) /\ n <= q
Met == /\ Reached(Cursor) /\ Reached(readPtr)
       /\ \A q \in drain.seen : Committed(q)

\* What a row says of its post.
Rows ==
  /\ \A k \in Keys :
       /\ k.lane = "post" /\ State(k) \in J!Open =>
            post[k.pos].kind # "chatter" /\ reason[k] \in {"live"} \cup Historical
       /\ k.lane = "attention" =>
            /\ reason[k] \in {"none", "attention"}
            /\ State(k) # "absent" => post[k.pos].kind = "chatter"

\* The process and the source: a dead process holds nothing, and a drain has a source.
Alive ==
  /\ up = "down" => drain = Idle /\ disp = {} /\ inflight = {} /\ running = 0
  /\ source[ch].state \in {"none", "active"}
  /\ source[ch].state = "none" => drain.phase = "idle" /\ start = 0

\* A drain reads on where its cursor is, unless an unpublished post holds it, and a
\* page shows all there is to see, but what was committed late.
Reading ==
  /\ drain.phase \in {"read", "page"} =>
       /\ drain.cursor = Cursor /\ Cursor <= drain.after
       /\ drain.held \/ drain.after = Cursor
  /\ drain.phase = "page" =>
       /\ \A p \in drain.seen : drain.after < p
       /\ \A p \in Posts \ overtaken, q \in drain.seen :
            drain.after < p /\ p <= q /\ Visible(p) => p \in drain.seen

\* The server is only told what is settled.
Acking ==
  source[ch].state # "none" =>
    /\ start <= source[ch].settled /\ readPtr <= source[ch].settled
    /\ drain.phase \in {"adopt", "acking", "acked"} => drain.cursor <= source[ch].settled

\* A dispatch holds its rows alone.
Owning ==
  /\ \A d \in disp : d.items # {} /\ \A k \in d.items : State(k) = "processing"
  /\ \A d, e \in disp : d # e => d.items \cap e.items = {}

\* A row that waits, or that a page may still bring, has a turn left.
Counting ==
  \A k \in Keys :
    /\ turns[k] <= 1 + retried[k]
    /\ State(k) \in J!Waiting => turns[k] <= retried[k]
    /\ k.lane = "post" /\ State(k) = "absent" /\ k \notin pruned => turns[k] <= retried[k]

\* So has one whose event is being built, and its turn has not started.
Unhanded ==
  \A d \in disp : d.stage = "building" =>
    ~d.started /\ \A k \in d.items : turns[k] <= retried[k]

Handing == Owning /\ Counting /\ Unhanded

StartedOf(ds) == {d \in ds : d.started}

\* The turns Hermes runs are those of the dispatches and a few others.
TurnsRunning ==
  /\ IsFiniteSet(disp)
  /\ Cardinality(StartedOf(disp)) <= running
  /\ running <= Cardinality(StartedOf(disp)) + MaxOther

Intake ==
  /\ Typed /\ InOrder /\ Met /\ Rows /\ Alive /\ Reading /\ NoPostSkipped /\ Acking
  /\ Handing /\ TurnsRunning /\ MissedCommandNeverRuns

IInv == JP!IInv /\ Intake

-----------------------------------------------------------------------------
(* The journal *)

LEMMA SameJournal ==
  /\ J!Init = JP!Init /\ J!Next = JP!Next /\ J!jvars = JP!jvars
  /\ J!TypeOK = JP!TypeOK
  /\ J!SettledBelowOpen = JP!SettledBelowOpen /\ J!CursorOrder = JP!CursorOrder
PROOF
  <1>1. J!Init = JP!Init /\ J!jvars = JP!jvars
    BY DEF J!Init, JP!Init, J!NoSource, J!NoItem, JP!NoSource, JP!NoItem, J!Keys, JP!Keys,
           J!jvars, JP!jvars
  <1>2. J!TypeOK = JP!TypeOK
    BY DEF J!TypeOK, JP!TypeOK, J!SourceRow, JP!SourceRow, J!ItemRow, JP!ItemRow, J!Keys, JP!Keys,
           J!Pos, JP!Pos, J!FINAL, JP!FINAL, J!Open, JP!Open, J!Waiting, JP!Waiting
  <1>3. J!SettledBelowOpen = JP!SettledBelowOpen /\ J!CursorOrder = JP!CursorOrder
    BY DEF J!SettledBelowOpen, JP!SettledBelowOpen, J!CursorOrder, JP!CursorOrder, J!Blocking,
           JP!Blocking, J!Keys, JP!Keys, J!Open, JP!Open, J!Waiting, JP!Waiting
  <1>4. J!HoldLegacy = JP!HoldLegacy
    BY DEF J!HoldLegacy, JP!HoldLegacy
  <1>5. J!ItemStep = JP!ItemStep
    BY DEF J!ItemStep, JP!ItemStep, J!Keys, JP!Keys, J!Claim, JP!Claim, J!Finish, JP!Finish,
           J!RetryLater, JP!RetryLater, J!Reconcile, JP!Reconcile, J!Prune, JP!Prune,
           J!ReviewRetry, JP!ReviewRetry, J!ReviewDismiss, JP!ReviewDismiss,
           J!SetItems, JP!SetItems, J!InState, JP!InState, J!ToClaimed, JP!ToClaimed,
           J!Counted, JP!Counted, J!Uncounted, JP!Uncounted, J!Larger, JP!Larger,
           J!Interrupted, JP!Interrupted, J!ToReview, JP!ToReview, J!Prunable, JP!Prunable,
           J!NoItem, JP!NoItem, J!ToPendingReset, JP!ToPendingReset,
           J!FINAL, JP!FINAL, J!Open, JP!Open, J!Waiting, JP!Waiting
  <1>6. ASSUME NEW s \in {ch} PROVE J!SourceStep(s) = JP!SourceStep(s)
    BY DEF J!SourceStep, JP!SourceStep, J!Keys, JP!Keys, J!Pos, JP!Pos, J!OfSource, JP!OfSource,
           J!CreateRule, JP!CreateRule, J!CreateSource, JP!CreateSource, J!NoSource, JP!NoSource,
           J!Retire, JP!Retire, J!Adopt, JP!Adopt, J!MigrateTo, JP!MigrateTo,
           J!MigrateHeld, JP!MigrateHeld, J!MigrateLate, JP!MigrateLate, J!RefuseRewind,
           JP!RefuseRewind, J!WasRead, JP!WasRead, J!BelowFirstOpen, JP!BelowFirstOpen,
           J!Blocking, JP!Blocking, J!AdmitRule, JP!AdmitRule, J!Admit, JP!Admit,
           J!Requeue, JP!Requeue, J!Settle, JP!Settle, J!AckRule, JP!AckRule, J!SetAcked,
           JP!SetAcked, J!SetItems, JP!SetItems, J!InState, JP!InState, J!Larger, JP!Larger,
           J!ToReview, JP!ToReview, J!NoItem, JP!NoItem, J!ToPendingReset, JP!ToPendingReset,
           J!FINAL, JP!FINAL, J!Open, JP!Open, J!Waiting, JP!Waiting
  <1>7. J!Next = JP!Next
    BY <1>4, <1>5, <1>6 DEF J!Next, JP!Next
  <1> QED BY <1>1, <1>2, <1>3, <1>7

LEMMA Assumed == JP!JournalAssumption
PROOF BY IntakeAssumption DEF IntakeAssumption, JP!JournalAssumption

LEMMA JournalKept == ASSUME JP!IInv, [J!Next]_(J!jvars) PROVE JP!IInv'
PROOF
  <1>1. [JP!Next]_(JP!jvars)
    BY SameJournal DEF J!jvars, JP!jvars
  <1> QED BY <1>1, Assumed, JP!NextSafe

LEMMA JournalBegins == ASSUME J!Init PROVE JP!IInv
PROOF
  <1>1. JP!Init
    BY SameJournal
  <1> QED BY <1>1, Assumed, JP!InitSafe

\* What the journal's invariant says of the one source.
LEMMA Cursors ==
  ASSUME IInv
  PROVE  /\ source \in [{ch} -> J!SourceRow] /\ item \in [Keys -> J!ItemRow]
         /\ source[ch].enumerated \in Posn /\ source[ch].settled \in Posn
         /\ source[ch].acked \in Posn
         /\ source[ch].acked <= source[ch].settled /\ source[ch].settled <= Cursor
         /\ J!TypeOK /\ J!SettledBelowOpen
         /\ pruned \subseteq Keys
         /\ \A k \in pruned : k.lane # "attention" => k.pos <= Cursor
PROOF
  <1>1. J!TypeOK /\ J!SettledBelowOpen /\ J!CursorOrder
    BY SameJournal DEF IInv, JP!IInv
  <1>2. source \in [{ch} -> J!SourceRow] /\ item \in [Keys -> J!ItemRow] /\ pruned \subseteq Keys
    BY <1>1 DEF J!TypeOK, Keys
  <1>3. /\ source[ch].enumerated \in Posn /\ source[ch].settled \in Posn
        /\ source[ch].acked \in Posn
    BY <1>2 DEF J!SourceRow, J!Pos, Posn
  <1>4. \A k \in Keys : k.src = ch
    BY DEF Keys, J!Keys
  <1>5. \A k \in pruned : k.lane # "attention" => k.pos <= Cursor
    BY <1>2, <1>4 DEF IInv, JP!IInv, JP!PrunedBelowCursor, Cursor
  <1>6. source[ch].acked <= source[ch].settled /\ source[ch].settled <= Cursor
    BY <1>1 DEF J!CursorOrder, Cursor
  <1> QED BY <1>1, <1>2, <1>3, <1>5, <1>6

LEMMA Bounds ==
  /\ MaxPos \in Nat /\ MAX_OPEN \in Nat \ {0} /\ PageSize \in Nat \ {0}
  /\ CatchUpBatch \in Nat \ {0} /\ InterAgentLimit \in Nat /\ MaxOther \in Nat
  /\ Posts \subseteq Nat \ {0} /\ Posts \subseteq Posn /\ Posn \subseteq Nat /\ 0 \in Posn
PROOF BY IntakeAssumption DEF IntakeAssumption, Posts, Posn

\* A set of numbers has a least one; FiniteSetsExt picks it, and the greatest.
LEMMA LeastOfNat ==
  ASSUME NEW S \in SUBSET Nat, S # {}
  PROVE  \E x \in S : \A y \in S : x <= y
PROOF
  <1> DEFINE R == {ss \in Nat \X Nat : ss[1] < ss[2]}
  <1>1. \A x, y \in Nat : x < y => <<x, y>> \in R
    OBVIOUS
  <1>2. PICK x \in S : \A y \in S : <<y, x>> \notin R
    <2>1. IsWellFoundedOn(R, Nat)
      BY NatLessThanWellFounded, Zenon DEF OpToRel
    <2> HIDE DEF R
    <2> QED BY <2>1, WFMin
  <1>3. \A y \in S : x <= y
    <2> TAKE y \in S
    <2>1. x \in Nat /\ y \in Nat
      OBVIOUS
    <2>2. <<y, x>> \notin R
      BY <1>2
    <2>3. ~(y < x)
      BY <1>1, <2>1, <2>2
    <2> QED BY <2>1, <2>3
  <1> QED BY <1>3

LEMMA MinOfNat ==
  ASSUME NEW S \in SUBSET Nat, S # {}
  PROVE  Min(S) \in S /\ \A y \in S : Min(S) <= y
PROOF
  <1>1. \E x \in S : \A y \in S : x <= y
    BY LeastOfNat
  <1> QED BY <1>1 DEF Min

LEMMA MaxOfBounded ==
  ASSUME NEW b \in Int, NEW S \in SUBSET Int, S # {}, \A x \in S : x <= b
  PROVE  Max(S) \in S /\ \A y \in S : y <= Max(S)
PROOF
  <1> DEFINE T == {b - x : x \in S}
  <1>1. T \in SUBSET Nat /\ T # {}
    <2>1. \A x \in S : b - x \in Nat
      OBVIOUS
    <2>2. \E x \in S : b - x \in T
      OBVIOUS
    <2> QED BY <2>1, <2>2
  <1>2. PICK t \in T : \A y \in T : t <= y
    BY <1>1, LeastOfNat
  <1>3. PICK x \in S : t = b - x
    BY <1>2
  <1>4. \A y \in S : x >= y
    BY <1>2, <1>3
  <1>5. \E z \in S : \A y \in S : z >= y
    BY <1>4
  <1> QED BY <1>5 DEF Max

LEMMA MaxWith ==
  ASSUME NEW b \in Nat, NEW S \in SUBSET (0 .. b), NEW r \in 0 .. b
  PROVE  /\ Max(S \cup {r}) \in S \cup {r} /\ Max(S \cup {r}) \in 0 .. b
         /\ \A y \in S \cup {r} : y <= Max(S \cup {r})
PROOF
  <1> DEFINE T == S \cup {r}
  <1>1. \A x \in T : x \in 0 .. b
    OBVIOUS
  <1>2. b \in Int /\ T \in SUBSET Int /\ T # {} /\ \A x \in T : x <= b
    BY <1>1
  <1> HIDE DEF T
  <1>3. Max(T) \in T /\ \A y \in T : y <= Max(T)
    BY <1>2, MaxOfBounded
  <1> QED BY <1>1, <1>3 DEF T

LEMMA KeysAre ==
  /\ \A k \in Keys : /\ k.pos \in Posts /\ k.src = ch /\ k.lane \in Lanes
                     /\ k.lane \in {"post", "attention"}
                     /\ k.lane = "post" => k = PostKey(k.pos)
                     /\ k.lane = "attention" => k = NudgeKey(k.pos)
  /\ \A p \in Posts : PostKey(p) \in Keys /\ PostKey(p).lane = "post" /\ PostKey(p).pos = p
  /\ \A p, q \in Posts : PostKey(p) = PostKey(q) => p = q
PROOF
  <1>1. Lanes \subseteq {"post", "attention"} /\ "post" \in Lanes
    BY IntakeAssumption DEF IntakeAssumption
  <1>2. ASSUME NEW k \in Keys
        PROVE  /\ k = [src |-> k.src, lane |-> k.lane, pos |-> k.pos]
               /\ k.pos \in Posts /\ k.src = ch /\ k.lane \in Lanes
    BY DEF Keys, J!Keys, Posts
  <1>3. ASSUME NEW p \in Posts PROVE PostKey(p) \in Keys
    BY <1>1 DEF Keys, J!Keys, Posts, PostKey
  <1>4. ASSUME NEW p PROVE PostKey(p).lane = "post" /\ PostKey(p).pos = p
    BY DEF PostKey
  <1>5. \A p, q \in Posts : PostKey(p) = PostKey(q) => p = q
    BY <1>4
  <1>6. ASSUME NEW k \in Keys
        PROVE  /\ k.lane = "post" => k = PostKey(k.pos)
               /\ k.lane = "attention" => k = NudgeKey(k.pos)
    BY <1>2 DEF PostKey, NudgeKey
  <1>7. \A k \in Keys : k.lane \in {"post", "attention"}
    BY <1>1, <1>2
  <1> QED BY <1>2, <1>3, <1>4, <1>5, <1>6, <1>7

LEMMA KeysFinite == IsFiniteSet(Keys) /\ IsFiniteSet(Posts)
PROOF
  <1>1. IsFiniteSet(Posts)
    BY FS_Interval, Bounds DEF Posts
  <1>2. IsFiniteSet({"post", "attention"})
    <2>1. {"post", "attention"} = (({} \cup {"post"}) \cup {"attention"})
      OBVIOUS
    <2>2. IsFiniteSet({} \cup {"post"})
      BY FS_EmptySet, FS_AddElement
    <2> QED BY <2>1, <2>2, FS_AddElement
  <1>3. IsFiniteSet(Lanes)
    BY <1>2, FS_Subset, IntakeAssumption DEF IntakeAssumption
  <1>4. IsFiniteSet(Lanes \X Posts)
    BY <1>1, <1>3, FS_Product
  <1> DEFINE f == [x \in Lanes \X Posts |-> [src |-> ch, lane |-> x[1], pos |-> x[2]]]
  <1>5. f \in Surjection(Lanes \X Posts, Keys)
    <2>1. f \in [Lanes \X Posts -> Keys]
      BY DEF Keys, J!Keys, Posts
    <2>2. ASSUME NEW k \in Keys PROVE \E x \in Lanes \X Posts : f[x] = k
      <3>1. k.lane \in Lanes /\ k.pos \in Posts
        BY KeysAre
      <3>2. <<k.lane, k.pos>> \in Lanes \X Posts
        BY <3>1
      <3>3. f[<<k.lane, k.pos>>] = [src |-> ch, lane |-> k.lane, pos |-> k.pos]
        BY <3>2
      <3>4. k = [src |-> ch, lane |-> k.lane, pos |-> k.pos]
        BY DEF Keys, J!Keys
      <3> QED BY <3>2, <3>3, <3>4
    <2> QED BY <2>1, <2>2 DEF Surjection
  <1> HIDE DEF f
  <1> QED BY <1>1, <1>4, <1>5, FS_Surjection

-----------------------------------------------------------------------------
(* What a step does to the rows *)

\* The rows of K are open and pass to a state of S; the cursor and the rest stay.
Moves(K, S) ==
  /\ UNCHANGED <<source, pruned>>
  /\ \A k \in Keys :
       IF k \in K THEN State(k) \in J!Open /\ item'[k].state \in S
       ELSE item'[k].state = State(k)

LEMMA MovesNothing == ASSUME UNCHANGED journal, NEW S PROVE Moves({}, S)
PROOF BY DEF journal, Moves, State

LEMMA ClaimMoves ==
  ASSUME NEW K \in SUBSET Keys, \A k \in K : State(k) \in J!Waiting, J!Claim(K)
  PROVE  Moves(K, {"processing"})
PROOF
  BY DEF Moves, State, Keys, J!Claim, J!SetItems, J!InState, J!ToClaimed, J!Open

LEMMA FinishMoves ==
  ASSUME IInv, NEW K \in SUBSET Keys, \A k \in K : State(k) \in J!Open,
         NEW state, J!Finish(K, state)
  PROVE  Moves(K, {state})
PROOF
  <1>1. item \in [Keys -> J!ItemRow]
    BY Cursors
  <1>2. ASSUME NEW k \in K PROVE item'[k] = [item[k] EXCEPT !.state = state]
    BY DEF J!Finish, J!SetItems, J!InState, State, Keys
  <1>3. ASSUME NEW k \in K PROVE item'[k].state = state
    BY <1>1, <1>2 DEF J!ItemRow
  <1> QED BY <1>3 DEF Moves, State, Keys, J!Finish, J!SetItems, J!InState

LEMMA RetryMoves ==
  ASSUME NEW K \in SUBSET Keys, \A k \in K : State(k) = "processing",
         NEW counted \in BOOLEAN, J!RetryLater(K, counted)
  PROVE  Moves(K, IF counted THEN {"retry_wait", "needs_review"} ELSE {"retry_wait"})
PROOF
  <1>1. CASE counted
    BY <1>1 DEF Moves, State, Keys, J!RetryLater, J!SetItems, J!InState, J!Counted, J!Open
  <1>2. CASE ~counted
    BY <1>2 DEF Moves, State, Keys, J!RetryLater, J!SetItems, J!InState, J!Uncounted, J!Open
  <1> QED BY <1>1, <1>2

LEMMA StartMoves ==
  ASSUME IInv, J!Reconcile({})
  PROVE  Moves({k \in Keys : State(k) = "processing"}, {"needs_review"})
PROOF
  <1>1. item \in [Keys -> J!ItemRow]
    BY Cursors
  <1>2. \A k \in Keys : J!ToReview(item[k]).state = "needs_review"
    BY <1>1 DEF J!ToReview, J!ItemRow
  <1>3. \A k \in Keys : k.lane # "mail"
    BY KeysAre
  <1> QED
    BY <1>2, <1>3 DEF Moves, State, Keys, J!Reconcile, J!Interrupted, J!Open

LEMMA ReviewMoves ==
  ASSUME IInv, NEW k \in Keys
  PROVE  /\ J!ReviewRetry(k) => Moves({k}, {"pending"}) /\ State(k) = "needs_review"
         /\ J!ReviewDismiss(k) => Moves({k}, {"ignored"})
PROOF
  <1>1. item \in [Keys -> J!ItemRow]
    BY Cursors
  <1>2. item[k] \in J!ItemRow
    BY <1>1
  <1>3. [item[k] EXCEPT !.state = "ignored"].state = "ignored"
    BY <1>2 DEF J!ItemRow
  <1>4. ASSUME J!ReviewRetry(k) PROVE Moves({k}, {"pending"}) /\ State(k) = "needs_review"
    BY <1>1, <1>4 DEF Moves, State, Keys, J!ReviewRetry, J!ToPendingReset, J!Open
  <1>5. ASSUME J!ReviewDismiss(k) PROVE Moves({k}, {"ignored"})
    <2>1. item'[k].state = "ignored" /\ State(k) = "needs_review"
      BY <1>1, <1>3, <1>5 DEF State, J!ReviewDismiss
    <2>2. \A j \in Keys : j # k => item'[j] = item[j]
      BY <1>1, <1>5 DEF J!ReviewDismiss
    <2> QED BY <1>5, <2>1, <2>2 DEF Moves, State, J!ReviewDismiss, J!Open
  <1> QED BY <1>4, <1>5

-----------------------------------------------------------------------------
(* What a step does to the dispatches *)

\* d is over, and its rows with it if that was recorded; only one that never reached
\* Hermes may be tried again.
Settles(d) ==
  /\ disp' = disp \ {d}
  /\ \E K \in {{}, d.items}, S \in SUBSET (J!FINAL \cup {"needs_review", "retry_wait"}) :
       Moves(K, S) /\ ("retry_wait" \in S => d.stage = "building")

\* d goes on as e.
Renews(d, e) ==
  /\ disp' = (disp \ {d}) \cup {e} /\ e \in Dispatches /\ e.items = d.items
  /\ e.stage # "building"
  /\ UNCHANGED journal

\* A missed command runs no more.
LiveCommands(K) ==
  \A k \in K : post[k.pos].kind = "control" /\ k.lane = "post" => reason[k] = "live"

\* The waiting rows K are handed off as e.
Takes(K, e) ==
  /\ K # {} /\ \A k \in K : State(k) \in J!Waiting
  /\ e \in Dispatches /\ e.items = K /\ e.stage = "building" /\ ~e.started
  /\ disp' = disp \cup {e} /\ inflight' \in {inflight, K}
  /\ LiveCommands(K)
  /\ J!Claim(K) /\ Moves(K, {"processing"})

\* The waiting rows K are left out.
Ignores(K) ==
  /\ \A k \in K : State(k) \in J!Waiting
  /\ J!Finish(K, "ignored") /\ Moves(K, {"ignored"}) /\ UNCHANGED <<disp, inflight>>

Dispatched == \E K \in SUBSET Keys : Ignores(K) \/ \E e \in Dispatches : Takes(K, e)

LEMMA HandOffTakes ==
  ASSUME NEW K \in SUBSET Keys, K # {}, \A k \in K : State(k) \in J!Waiting, LiveCommands(K),
         NEW a \in BOOLEAN, NEW i \in BOOLEAN, HandOff(K, a, i)
  PROVE  Dispatched
PROOF
  <1> DEFINE e == [items |-> K, automatic |-> a, inline |-> i, stage |-> "building",
                   started |-> FALSE]
  <1>1. e \in Dispatches
    BY DEF Dispatches
  <1>2. Moves(K, {"processing"})
    BY ClaimMoves DEF HandOff
  <1>3. Takes(K, e)
    BY <1>1, <1>2 DEF HandOff, Takes
  <1> QED BY <1>1, <1>3 DEF Dispatched

LEMMA IgnoreIgnores ==
  ASSUME IInv, NEW K \in SUBSET Keys, \A k \in K : State(k) \in J!Waiting,
         J!Finish(K, "ignored"), UNCHANGED lane
  PROVE  Dispatched
PROOF
  <1>1. \A k \in K : State(k) \in J!Open
    BY DEF J!Open
  <1>2. Moves(K, {"ignored"})
    BY <1>1, FinishMoves
  <1> QED BY <1>2 DEF Ignores, Dispatched, lane

\* Something due is due first.
LEMMA FirstExists == ASSUME NEW K \in SUBSET Keys, K # {} PROVE First(K) # {}
PROOF
  <1> DEFINE P == {k.pos : k \in K}
  <1>1. P \subseteq Nat /\ P # {}
    <2>1. ASSUME NEW k \in K PROVE k.pos \in Nat
      <3>1. k.pos \in Posts
        BY KeysAre
      <3> QED BY <3>1, Bounds
    <2> QED BY <2>1
  <1>3. PICK n \in P : \A m \in P : n <= m
    BY <1>1, LeastOfNat
  <1>4. PICK k \in K : k.pos = n
    OBVIOUS
  <1>5. k \in First(K)
    BY <1>3, <1>4 DEF First
  <1> QED BY <1>5

LEMMA BypassTakes ==
  ASSUME NEW due \in SUBSET Keys, \A k \in due : State(k) \in J!Waiting, Bypass(due)
  PROVE  Dispatched
PROOF
  <1> DEFINE controls == {k \in Commands(due) : reason[k] = "live"}
  <1>1. controls # {} /\ HandOff(First(controls), ~Busy, TRUE)
    BY DEF Bypass
  <1>2. controls \in SUBSET Keys /\ \A k \in controls : k \in due /\ reason[k] = "live"
    BY DEF Commands
  <1> HIDE DEF controls
  <1>3. First(controls) \subseteq controls /\ First(controls) # {}
    BY <1>1, <1>2, FirstExists DEF First
  <1>4. LiveCommands(First(controls))
    BY <1>2, <1>3 DEF LiveCommands
  <1>5. (~Busy) \in BOOLEAN /\ TRUE \in BOOLEAN
    BY DEF Busy
  <1> QED BY <1>1, <1>2, <1>3, <1>4, <1>5, HandOffTakes

LEMMA CatchUpTakes ==
  ASSUME IInv, NEW due \in SUBSET Keys, \A k \in due : State(k) \in J!Waiting, CatchUp(due)
  PROVE  Dispatched
PROOF
  <1> DEFINE run == {k \in due : \A j \in due : j.pos <= k.pos => reason[j] \in Historical}
             batch == {k \in run : Cardinality({j \in run : j.pos <= k.pos}) <= CatchUpBatch}
  <1>1. run \subseteq due /\ batch \subseteq run
    OBVIOUS
  <1>2. CASE Missed(run) # {}
    <2>1. J!Finish(Missed(run), "ignored") /\ UNCHANGED lane
      BY <1>2 DEF CatchUp
    <2>2. Missed(run) \subseteq run
      BY DEF Missed, Commands
    <2> HIDE DEF run
    <2> QED BY <1>1, <2>1, <2>2, IgnoreIgnores
  <1>3. CASE Missed(run) = {}
    <2>1. HandOff(batch, TRUE, FALSE)
      BY <1>3 DEF CatchUp
    <2>2. LiveCommands(batch)
      BY <1>1, <1>3 DEF Missed, Commands, LiveCommands
    <2>3. PICK head \in First(due) : reason[head] \in Historical
      BY DEF CatchUp
    <2>4. head \in due /\ \A j \in due : head.pos <= j.pos
      BY <2>3 DEF First
    <2>5. \A j \in due : j.pos \in Nat
      BY KeysAre, Bounds
    <2>6. \A j \in run : j.pos <= head.pos => j = head
      <3> SUFFICES ASSUME NEW j \in run, j.pos <= head.pos PROVE j = head
        OBVIOUS
      <3>1. j.pos = head.pos
        BY <1>1, <2>4, <2>5
      <3>2. reason[j] \in Historical
        BY <1>1, <2>5
      <3>3. j.lane = "post" /\ head.lane = "post"
        BY <1>1, <2>3, <2>4, <3>2, KeysAre DEF IInv, Intake, Rows, Historical
      <3> QED BY <1>1, <2>4, <3>1, <3>3, KeysAre
    <2>7. head \in run
      <3> SUFFICES ASSUME NEW j \in due, j.pos <= head.pos PROVE reason[j] \in Historical
        BY <2>4
      <3>1. j.pos = head.pos
        BY <2>4, <2>5
      <3>2. State(j) \in J!Open /\ State(head) \in J!Open
        BY <2>4 DEF J!Open
      <3>3. head.lane = "post"
        BY <2>3, <2>4, KeysAre DEF IInv, Intake, Rows, Historical
      <3>4. post[head.pos].kind # "chatter"
        BY <2>4, <3>2, <3>3 DEF IInv, Intake, Rows
      <3>5. j.lane = "post"
        BY <3>1, <3>2, <3>4, KeysAre DEF IInv, Intake, Rows, J!Open, J!Waiting
      <3>6. j = head
        BY <2>4, <3>1, <3>3, <3>5, KeysAre
      <3> QED BY <2>3, <3>6
    <2>8. {j \in run : j.pos <= head.pos} = {head}
      BY <2>4, <2>5, <2>6, <2>7
    <2>9. head \in batch
      <3>1. Cardinality({head}) = 1
        BY FS_Singleton
      <3>2. Cardinality({j \in run : j.pos <= head.pos}) <= CatchUpBatch
        <4> DEFINE upTo == {j \in run : j.pos <= head.pos}
        <4>1. upTo = {head}
          BY <2>8
        <4> HIDE DEF upTo
        <4>2. Cardinality(upTo) = 1
          BY <3>1, <4>1
        <4>3. CatchUpBatch \in Nat \ {0}
          BY Bounds
        <4>4. Cardinality(upTo) <= CatchUpBatch
          BY <4>2, <4>3
        <4> QED BY <4>4 DEF upTo
      <3> QED BY <2>7, <3>2
    <2> HIDE DEF batch, run
    <2> QED BY <1>1, <2>1, <2>2, <2>9, HandOffTakes
  <1> QED BY <1>2, <1>3

LEMMA LiveOneTakes ==
  ASSUME IInv, NEW due \in SUBSET Keys, \A k \in due : State(k) \in J!Waiting, LiveOne(due)
  PROVE  Dispatched /\ agentTurns' \in 0 .. InterAgentLimit
PROOF
  <1>1. PICK head \in First(due) :
          LET kind == post[head.pos].kind IN
          /\ reason[head] \notin Historical
          /\ IF head.lane = "post" /\ kind = "agent" /\ Spent
               THEN /\ J!Finish({head}, "ignored")
                    /\ UNCHANGED <<reason, lane, drain, agentTurns>>
               ELSE /\ HandOff({head}, TRUE, head.lane = "post" /\ kind = "control")
                    /\ agentTurns' = IF head.lane = "post" /\ kind = "agent"
                                       THEN agentTurns + 1 ELSE agentTurns
    BY DEF LiveOne
  <1>2. head \in Keys /\ State(head) \in J!Waiting /\ {head} \in SUBSET Keys
    BY DEF First
  <1>3. LiveCommands({head})
    BY <1>1, <1>2 DEF IInv, Intake, Rows, LiveCommands, Historical, J!Open
  <1>4. agentTurns \in 0 .. InterAgentLimit /\ InterAgentLimit \in Nat
    BY Bounds DEF IInv, Intake, Typed
  <1>5. CASE head.lane = "post" /\ post[head.pos].kind = "agent" /\ Spent
    BY <1>1, <1>2, <1>4, <1>5, IgnoreIgnores
  <1>6. CASE ~(head.lane = "post" /\ post[head.pos].kind = "agent" /\ Spent)
    <2>1. agentTurns' \in 0 .. InterAgentLimit
      <3>1. CASE head.lane = "post" /\ post[head.pos].kind = "agent"
        <4>1. agentTurns' = agentTurns + 1 /\ ~(agentTurns >= InterAgentLimit)
          BY <1>1, <1>6, <3>1 DEF Spent
        <4> QED BY <1>4, <4>1
      <3>2. CASE ~(head.lane = "post" /\ post[head.pos].kind = "agent")
        BY <1>1, <1>4, <3>2
      <3> QED BY <3>1, <3>2
    <2> DEFINE i == head.lane = "post" /\ post[head.pos].kind = "control"
    <2>2. HandOff({head}, TRUE, i) /\ i \in BOOLEAN
      BY <1>1, <1>6
    <2> HIDE DEF i
    <2> QED BY <1>2, <1>3, <2>1, <2>2, HandOffTakes
  <1> QED BY <1>5, <1>6

LEMMA DispatchAt ==
  ASSUME IInv, DispatchNext
  PROVE  /\ Dispatched /\ agentTurns' \in 0 .. InterAgentLimit
         /\ up # "down"
         /\ UNCHANGED <<reason, server, drain, running, up, caughtUp, snoozed, history>>
PROOF
  <1>1. PICK late \in SUBSET J!InState(Keys, {"retry_wait"}) :
          LET due == J!InState(Keys, {"pending"}) \cup late
          IN  due # {} /\ (Bypass(due) \/ CatchUp(due) \/ LiveOne(due))
    BY DEF DispatchNext, Keys
  <1> DEFINE due == J!InState(Keys, {"pending"}) \cup late
  <1>2. due \in SUBSET Keys /\ \A k \in due : State(k) \in J!Waiting
    BY DEF J!InState, State, J!Waiting
  <1>3. Bypass(due) \/ CatchUp(due) \/ LiveOne(due)
    BY <1>1
  <1> HIDE DEF due
  <1>4. Dispatched
    BY <1>2, <1>3, BypassTakes, CatchUpTakes, LiveOneTakes
  <1>5. agentTurns' \in 0 .. InterAgentLimit
    BY <1>2, <1>3, LiveOneTakes DEF Bypass, CatchUp, IInv, Intake, Typed
  <1>6. UNCHANGED <<reason, drain, running>>
    BY <1>3 DEF Bypass, CatchUp, LiveOne, HandOff, lane
  <1>7. up # "down" /\ UNCHANGED <<server, up, caughtUp, snoozed, history>>
    BY DEF DispatchNext, Locked
  <1> QED BY <1>4, <1>5, <1>6, <1>7

-----------------------------------------------------------------------------
(* Hermes *)

LEMMA HeldRows ==
  ASSUME IInv, NEW d \in disp
  PROVE  /\ d \in Dispatches /\ d.items \in SUBSET Keys /\ d.items # {}
         /\ \A k \in d.items : State(k) = "processing" /\ State(k) \in J!Open
PROOF BY DEF IInv, Intake, Typed, Handing, Owning, Dispatches, J!Open

LEMMA RecordedMoves ==
  ASSUME IInv, NEW d \in disp, NEW s \in J!FINAL \cup {"needs_review"},
         Recorded(J!Finish(d.items, s)), disp' = disp \ {d}
  PROVE  Settles(d)
PROOF
  <1>1. CASE J!Finish(d.items, s)
    <2>1. Moves(d.items, {s})
      BY <1>1, HeldRows, FinishMoves
    <2>2. "retry_wait" \notin {s}
      BY DEF J!FINAL
    <2> QED BY <2>1, <2>2 DEF Settles
  <1>2. CASE UNCHANGED journal
    <2>1. Moves({}, {})
      BY <1>2, MovesNothing
    <2> QED BY <2>1 DEF Settles
  <1> QED BY <1>1, <1>2 DEF Recorded

LEMMA BuildFailsAt ==
  ASSUME IInv, NEW d \in disp, BuildFails(d)
  PROVE  /\ Settles(d) /\ d.stage = "building"
         /\ inflight' \in {inflight, {}}
         /\ UNCHANGED <<reason, server, volatile, running, history>>
PROOF
  <1>1. Settles(d)
    <2>1. CASE J!RetryLater(d.items, TRUE)
      <3>1. Moves(d.items, IF TRUE THEN {"retry_wait", "needs_review"} ELSE {"retry_wait"})
        BY <2>1, HeldRows, RetryMoves
      <3>2. Moves(d.items, {"retry_wait", "needs_review"})
        BY <3>1
      <3> QED BY <3>2 DEF BuildFails, Release, Settles
    <2>2. CASE UNCHANGED journal
      <3>1. Moves({}, {})
        BY <2>2, MovesNothing
      <3> QED BY <3>1 DEF BuildFails, Release, Settles
    <2> QED BY <2>1, <2>2 DEF BuildFails, Recorded
  <1> QED BY <1>1 DEF BuildFails, Release

LEMMA HandAt ==
  ASSUME IInv, NEW d \in disp, Hand(d)
  PROVE  /\ d.stage = "building"
         /\ \E e \in Dispatches : Renews(d, e) /\ e.started = d.started
         /\ turns' = [k \in Keys |-> IF k \in d.items THEN turns[k] + 1 ELSE turns[k]]
         /\ UNCHANGED <<journal, reason, server, volatile, inflight, running, start, retried,
                        restarts, snoozes>>
PROOF
  <1> DEFINE e == [d EXCEPT !.stage = "handing"]
  <1>1. e \in Dispatches /\ e.items = d.items /\ e.stage = "handing" /\ e.started = d.started
    BY HeldRows DEF Dispatches
  <1>2. Renews(d, e)
    BY <1>1 DEF Hand, Update, Renews
  <1> HIDE DEF e
  <1> QED BY <1>1, <1>2 DEF Hand, Keys

LEMMA HandedAt ==
  ASSUME IInv, NEW d \in disp, Handed(d)
  PROVE  /\ d.stage = "handing"
         /\ \/ Settles(d) /\ ~d.started
            \/ \E e \in Dispatches : Renews(d, e) /\ e.started = d.started
         /\ inflight' \in {inflight, {}}
         /\ UNCHANGED <<reason, server, volatile, running, history>>
PROOF
  <1>1. CASE d.inline /\ ~d.started
    <2>1. Release(d) /\ Recorded(J!Finish(d.items, "processed"))
      BY <1>1 DEF Handed
    <2>2. "processed" \in J!FINAL \cup {"needs_review"}
      BY DEF J!FINAL
    <2>3. Settles(d)
      BY <2>1, <2>2, RecordedMoves DEF Release
    <2> QED BY <1>1, <2>1, <2>3 DEF Handed, Release
  <1>2. CASE ~(d.inline /\ ~d.started)
    <2> DEFINE e == [d EXCEPT !.stage = "delivered"]
    <2>1. e \in Dispatches /\ e.items = d.items /\ e.stage = "delivered" /\ e.started = d.started
      BY HeldRows DEF Dispatches
    <2>2. Update(d, e) /\ UNCHANGED <<journal, inflight>>
      BY <1>2 DEF Handed
    <2>3. Renews(d, e)
      BY <2>1, <2>2 DEF Update, Renews
    <2> HIDE DEF e
    <2> QED BY <2>1, <2>2, <2>3 DEF Handed
  <1> QED BY <1>1, <1>2

LEMMA TurnStartsAt ==
  ASSUME IInv, NEW d \in disp, TurnStarts(d)
  PROVE  /\ d.stage # "building" /\ ~d.started /\ running' = running + 1
         /\ \E e \in Dispatches : Renews(d, e) /\ e.started
         /\ UNCHANGED <<journal, reason, server, volatile, inflight, history>>
PROOF
  <1> DEFINE e == [d EXCEPT !.started = TRUE]
  <1>1. e \in Dispatches /\ e.items = d.items /\ e.stage = d.stage /\ e.started
    BY HeldRows DEF Dispatches
  <1>2. Renews(d, e)
    BY <1>1 DEF TurnStarts, Update, Renews
  <1> HIDE DEF e
  <1> QED BY <1>1, <1>2 DEF TurnStarts

LEMMA TurnEndsAt ==
  ASSUME IInv, NEW d \in disp, TurnEnds(d)
  PROVE  /\ Settles(d) /\ d.started /\ running' = running - 1
         /\ inflight' \in {inflight, {}}
         /\ UNCHANGED <<reason, server, volatile, history>>
PROOF
  <1>1. PICK s \in {"processed", "needs_review", "ignored"} : Recorded(J!Finish(d.items, s))
    BY DEF TurnEnds
  <1>2. s \in J!FINAL \cup {"needs_review"}
    BY DEF J!FINAL
  <1>3. Settles(d)
    BY <1>1, <1>2, RecordedMoves DEF TurnEnds
  <1> QED BY <1>3 DEF TurnEnds, FreeLane

-----------------------------------------------------------------------------
(* Life and death, the operator, pruning *)

Reset ==
  /\ caughtUp' = FALSE /\ snoozed' = FALSE /\ agentTurns' = 0
  /\ drain' = Idle /\ disp' = {} /\ inflight' = {} /\ running' = 0

LEMMA StartAt ==
  ASSUME IInv, Start
  PROVE  /\ up = "down" /\ up' = "starting" /\ Reset
         /\ Moves({k \in Keys : State(k) = "processing"}, {"needs_review"})
         /\ \E K \in SUBSET Keys : Demote(K)
         /\ UNCHANGED <<server, history>>
PROOF
  <1>1. Moves({k \in Keys : State(k) = "processing"}, {"needs_review"})
    BY StartMoves DEF Start
  <1>2. {k \in J!Keys : item'[k].state \in J!Waiting} \in SUBSET Keys
    BY DEF Keys
  <1> QED BY <1>1, <1>2 DEF Start, ResetVolatile, Reset

LEMMA ShutdownAt ==
  ASSUME IInv, Shutdown
  PROVE  /\ up # "down" /\ up' = "down" /\ restarts' = restarts + 1 /\ Reset
         /\ \E K \in SUBSET Keys :
              /\ Moves(K, {"retry_wait"})
              /\ \A k \in K : \E d \in disp : d.stage = "building" /\ k \in d.items
         /\ UNCHANGED <<reason, server, start, turns, retried, snoozes>>
PROOF
  <1> DEFINE K == UNION {d.items : d \in {e \in disp : e.stage = "building"}}
  <1>1. \A k \in K : \E d \in disp : d.stage = "building" /\ k \in d.items
    OBVIOUS
  <1>2. K \in SUBSET Keys /\ \A k \in K : State(k) = "processing"
    BY <1>1, HeldRows
  <1>3. J!RetryLater(K, FALSE)
    BY DEF Shutdown
  <1> HIDE DEF K
  <1>4. Moves(K, IF FALSE THEN {"retry_wait", "needs_review"} ELSE {"retry_wait"})
    BY <1>2, <1>3, RetryMoves
  <1>5. Moves(K, {"retry_wait"})
    BY <1>4
  <1> QED BY <1>1, <1>2, <1>5 DEF Shutdown, Dies, ResetVolatile, Reset

LEMMA RetryAt ==
  ASSUME IInv, OperatorRetry
  PROVE  \E k \in Keys :
           /\ Moves({k}, {"pending"}) /\ State(k) = "needs_review"
           /\ Demote({k})
           /\ retried' = [retried EXCEPT ![k] = @ + 1]
           /\ UNCHANGED <<server, volatile, lane, start, turns, restarts, snoozes>>
PROOF
  <1>1. PICK k \in Keys : /\ J!ReviewRetry(k) /\ Demote({k})
                          /\ retried' = [retried EXCEPT ![k] = @ + 1]
    BY DEF OperatorRetry, Keys
  <1>2. Moves({k}, {"pending"}) /\ State(k) = "needs_review"
    BY <1>1, ReviewMoves
  <1> QED BY <1>1, <1>2 DEF OperatorRetry

LEMMA DismissAt ==
  ASSUME IInv, OperatorDismiss
  PROVE  /\ \E k \in Keys : Moves({k}, {"ignored"}) /\ State(k) = "needs_review"
         /\ UNCHANGED <<reason, server, volatile, lane, history>>
PROOF
  <1>1. PICK k \in Keys : J!ReviewDismiss(k)
    BY DEF OperatorDismiss, Keys
  <1>2. Moves({k}, {"ignored"}) /\ State(k) = "needs_review"
    BY <1>1, ReviewMoves DEF J!ReviewDismiss, State
  <1> QED BY <1>2 DEF OperatorDismiss

\* Finished rows go.
Prunes ==
  /\ UNCHANGED source /\ pruned \subseteq pruned'
  /\ \A k \in Keys :
       \/ item'[k].state = State(k)
       \/ State(k) \in J!FINAL /\ item'[k].state = "absent" /\ k \in pruned'

LEMMA PruneAt ==
  ASSUME PruneOld
  PROVE  Prunes /\ up # "down" /\ UNCHANGED <<reason, server, volatile, lane, history>>
PROOF
  <1>1. PICK K \in SUBSET J!Prunable : J!Prune(K)
    BY DEF PruneOld
  <1>2. \A k \in K : State(k) \in J!FINAL
    BY DEF J!Prunable, State
  <1> QED BY <1>1, <1>2 DEF PruneOld, Prunes, J!Prune, J!NoItem, State, Keys

-----------------------------------------------------------------------------
(* New rows *)

\* The rows K are new, and the cursor moves to c unless it is there.
Arrives(K, c) ==
  /\ UNCHANGED pruned
  /\ source' = [source EXCEPT ![ch].enumerated = J!Larger(@, c)]
  /\ \A k \in Keys :
       IF k \in K THEN State(k) = "absent" /\ item'[k].state \in {"pending", "ignored"}
       ELSE item'[k].state = State(k)

\* The locals of one page.
Fresh == {p \in drain.seen : State(PostKey(p)) = "absent"}
Held == Fresh \cap drain.streaming
NewRows == Fresh \ Held
Pending == {p \in NewRows : ~Skipped(p)}
Room == J!Larger(MAX_OPEN - Cardinality(J!InState(Keys, J!Open)), 0)
Taken == {p \in drain.seen : Cardinality({q \in Pending : q <= p}) <= Room}
NewCursor == Max({drain.cursor} \cup Passed(Taken, Held \cap Taken))
Again == /\ Taken = drain.seen /\ Cardinality(drain.seen) >= PageSize
         /\ drain.pages < PagesPerPass
Arriving == {PostKey(p) : p \in NewRows \cap Taken}
PageRows == [k \in Arriving |-> IF k.pos \in Pending THEN "pending" ELSE "ignored"]

LEMMA AdmitAt ==
  ASSUME IInv, AdmitPage
  PROVE  /\ Locked("page")
         /\ Arrives(Arriving, NewCursor) /\ J!Admit(ch, PageRows, NewCursor)
         /\ \A k \in Arriving : item'[k].state = "pending" => k.pos \in Pending
         /\ reason' = [k \in Keys |-> IF k \in {PostKey(p) : p \in Pending \cap Taken}
                                      THEN ReasonOf(k.pos) ELSE reason[k]]
         /\ agentTurns' \in {0, agentTurns} /\ caughtUp' \in BOOLEAN
         /\ drain' = IF Again
              THEN [drain EXCEPT !.phase = "read", !.after = Max(drain.seen),
                                 !.cursor = NewCursor, !.held = @ \/ Held # {},
                                 !.seen = {}, !.streaming = {}]
              ELSE [Idle EXCEPT !.phase = "dispatch"]
         /\ UNCHANGED <<server, up, snoozed, lane, history>>
PROOF
  <1>1. /\ Locked("page") /\ J!Admit(ch, PageRows, NewCursor)
        /\ reason' = [k \in Keys |-> IF k \in {PostKey(p) : p \in Pending \cap Taken}
                                     THEN ReasonOf(k.pos) ELSE reason[k]]
    BY DEF AdmitPage, PageRows, Arriving, NewCursor, Taken, Room, Pending, NewRows, Held, Fresh,
           Keys, State
  <1>2. agentTurns' \in {0, agentTurns}
    BY DEF AdmitPage
  <1>3. caughtUp' \in BOOLEAN
    BY DEF AdmitPage
  <1>4. UNCHANGED <<server, up, snoozed, lane, history>>
    BY DEF AdmitPage
  <1>5. drain' = IF Again
              THEN [drain EXCEPT !.phase = "read", !.after = Max(drain.seen),
                                 !.cursor = NewCursor, !.held = @ \/ Held # {},
                                 !.seen = {}, !.streaming = {}]
              ELSE [Idle EXCEPT !.phase = "dispatch"]
    <2>1. Again <=> /\ ~(Taken # drain.seen) /\ ~(Cardinality(drain.seen) < PageSize)
                    /\ drain.pages < PagesPerPass
      <3>1. drain.seen \in SUBSET Posts
        BY DEF IInv, Intake, Typed, Drains
      <3>2. Cardinality(drain.seen) \in Nat
        BY <3>1, KeysFinite, FS_Subset, FS_CardinalityType
      <3> QED BY <3>2, Bounds DEF Again
    <2> QED BY <2>1 DEF AdmitPage, NewCursor, Taken, Room, Pending, NewRows, Held, Fresh, Keys, State
  <1>6. drain.seen \in SUBSET Posts
    BY DEF IInv, Intake, Typed, Drains
  <1>7. Arriving \subseteq Keys /\ \A k \in Arriving : State(k) = "absent"
    BY <1>6, KeysAre DEF Arriving, NewRows, Fresh
  <1>8. ASSUME NEW k \in Keys, k \in Arriving
        PROVE  item'[k].state = IF k.pos \in Pending THEN "pending" ELSE "ignored"
    BY <1>1, <1>7, <1>8 DEF J!Admit, PageRows, J!NoItem, State, Keys
  <1>9. ASSUME NEW k \in Keys, k \notin Arriving PROVE item'[k].state = State(k)
    BY <1>1, <1>9 DEF J!Admit, PageRows, State, Keys
  <1>10. Arrives(Arriving, NewCursor)
    BY <1>1, <1>7, <1>8, <1>9 DEF Arrives, J!Admit
  <1> QED BY <1>1, <1>2, <1>3, <1>4, <1>5, <1>7, <1>8, <1>10

LEMMA NudgeAt ==
  ASSUME IInv, Nudge
  PROVE  \E p \in Posts :
           /\ up = "up" /\ drain.phase = "idle" /\ source[ch].state = "active"
           /\ NudgeKey(p) \in Keys /\ post[p] = [kind |-> "chatter", status |-> "published"]
           /\ Arrives({NudgeKey(p)}, Cursor)
           /\ J!Admit(ch, [k \in {NudgeKey(p)} |-> "pending"], Cursor)
           /\ reason' = [reason EXCEPT ![NudgeKey(p)] = "attention"]
           /\ turns' = [turns EXCEPT ![NudgeKey(p)] = 0]
           /\ retried' = [retried EXCEPT ![NudgeKey(p)] = 0]
           /\ UNCHANGED <<server, volatile, lane, start, restarts, snoozes>>
PROOF
  <1>1. PICK p \in Posts :
           /\ post[p] = [kind |-> "chatter", status |-> "published"]
           /\ item[NudgeKey(p)].state = "absent"
           /\ J!Admit(ch, [k \in {NudgeKey(p)} |-> "pending"], Cursor)
           /\ reason' = [reason EXCEPT ![NudgeKey(p)] = "attention"]
           /\ turns' = [turns EXCEPT ![NudgeKey(p)] = 0]
           /\ retried' = [retried EXCEPT ![NudgeKey(p)] = 0]
    BY DEF Nudge
  <1>2. NudgeKey(p) \in Keys
    BY DEF Nudge, NudgeKey, Keys, J!Keys, Posts
  <1>3. Arrives({NudgeKey(p)}, Cursor)
    BY <1>1, <1>2 DEF Arrives, J!Admit, J!NoItem, State, Keys
  <1> QED BY <1>1, <1>2, <1>3 DEF Nudge

-----------------------------------------------------------------------------
(* The source *)

LEMMA NewestAt ==
  ASSUME IInv
  PROVE  /\ Newest \in Posn /\ (Newest = 0 \/ (Newest \in Posts /\ Visible(Newest)))
         /\ \A p \in Posts : Visible(p) => p <= Newest
PROOF
  <1> DEFINE S == {p \in Posts : Visible(p)}
  <1>1. S \in SUBSET (0 .. MaxPos) /\ MaxPos \in Nat /\ 0 \in 0 .. MaxPos
    BY Bounds DEF Posn
  <1>2. Newest = Max(S \cup {0})
    <2>1. {0} \cup S = S \cup {0}
      OBVIOUS
    <2> QED BY <2>1 DEF Newest
  <1> HIDE DEF S
  <1>3. Newest \in S \cup {0} /\ \A p \in S \cup {0} : p <= Newest
    BY <1>1, <1>2, MaxWith
  <1> QED BY <1>1, <1>3 DEF S, Posn

LEMMA NewSourceAt ==
  ASSUME IInv, NewSource
  PROVE  \E from \in Posn :
           /\ up # "down" /\ drain.phase = "idle" /\ source[ch].state = "none"
           /\ J!CreateSource(ch, from, "active")
           /\ source'[ch].state = "active" /\ source'[ch].enumerated = from
           /\ source'[ch].settled = from
           /\ start' = from /\ readPtr <= from
           /\ from = readPtr \/ from <= Newest
           /\ caughtUp' \in BOOLEAN
           /\ drain' \in {drain, [Idle EXCEPT !.phase = "adopt", !.cursor = from]}
           /\ UNCHANGED <<item, pruned, reason, server, up, snoozed, agentTurns, lane, turns,
                          retried, restarts, snoozes>>
PROOF
  <1> DEFINE visible == {p \in Posts : Visible(p)}
             recent == Min({Newest + 1} \cup visible) - 1
             from == IF readPtr # NoPtr THEN readPtr ELSE IF up = "up" THEN recent ELSE Newest
  <1>1. /\ J!CreateSource(ch, from, "active") /\ start' = from
        /\ drain' = IF readPtr = NoPtr THEN drain
                      ELSE [Idle EXCEPT !.phase = "adopt", !.cursor = readPtr]
        /\ caughtUp' \in BOOLEAN
    BY DEF NewSource, IInv, Intake, Typed
  <1>2. Newest \in Posn
    BY NewestAt
  <1>3. recent \in Posn /\ recent <= Newest
    <2> DEFINE S == {Newest + 1} \cup visible
    <2>1. S \in SUBSET Nat /\ S # {} /\ Newest + 1 \in S
      <3>1. Newest + 1 \in Nat /\ Posts \subseteq Nat
        BY <1>2, Bounds
      <3>2. visible \subseteq Posts
        OBVIOUS
      <3> HIDE DEF visible
      <3>3. S \subseteq Nat
        BY <3>1, <3>2
      <3>4. Newest + 1 \in S
        OBVIOUS
      <3> QED BY <3>3, <3>4
    <2>2. \A x \in S : x >= 1
      <3>1. Newest \in Nat /\ \A p \in Posts : p \in Nat /\ p >= 1
        BY <1>2, Bounds
      <3> QED BY <3>1
    <2>3. recent = Min(S) - 1
      OBVIOUS
    <2> HIDE DEF S, recent
    <2>4. Min(S) \in S /\ Min(S) <= Newest + 1
      BY <2>1, MinOfNat
    <2>5. Min(S) >= 1 /\ Min(S) \in Nat
      BY <2>1, <2>2, <2>4
    <2> QED BY <1>2, <2>3, <2>4, <2>5, Bounds DEF Posn
  <1>4. readPtr \in {NoPtr} \cup Posn /\ NoPtr = -1
    BY DEF IInv, Intake, Typed, NoPtr
  <1> HIDE DEF recent
  <1>5. from \in Posn /\ readPtr <= from /\ (from = readPtr \/ from <= Newest)
    BY <1>2, <1>3, <1>4, Bounds
  <1>6. drain' \in {drain, [Idle EXCEPT !.phase = "adopt", !.cursor = from]}
    BY <1>1
  <1> HIDE DEF from
  <1>7. /\ source'[ch].state = "active" /\ source'[ch].enumerated = from
        /\ source'[ch].settled = from
    <2>1. source \in [{ch} -> J!SourceRow] /\ source[ch].state = "none"
      BY Cursors DEF NewSource
    <2>2. source'[ch] = [J!NoSource EXCEPT !.state = "active", !.enumerated = from,
                                           !.settled = from]
      BY <1>1, <2>1 DEF J!CreateSource
    <2> QED BY <2>2 DEF J!NoSource
  <1> QED BY <1>1, <1>5, <1>6, <1>7 DEF NewSource, Locked, J!CreateSource

\* An ack moves acked only, and a settle settled.
LEMMA AckAt ==
  ASSUME IInv, AdoptPointer \/ AckReply
  PROVE  /\ source[ch].state # "none" /\ drain.cursor \in Posn
         /\ drain.cursor <= source[ch].settled
         /\ J!SetAcked(ch, drain.cursor)
         /\ source'[ch].state = source[ch].state
         /\ source'[ch].enumerated = Cursor /\ source'[ch].settled = source[ch].settled
         /\ UNCHANGED <<item, pruned>>
PROOF
  <1>1. drain.phase \in {"adopt", "acked"} /\ J!SetAcked(ch, drain.cursor)
    BY DEF AdoptPointer, AckReply, Locked
  <1>2. source[ch].state # "none" /\ drain.cursor <= source[ch].settled
    BY <1>1 DEF IInv, Intake, Alive, Acking
  <1>3. drain.cursor \in Posn
    BY DEF IInv, Intake, Typed, Drains
  <1>4. source \in [{ch} -> J!SourceRow]
    BY Cursors
  <1>5. /\ source'[ch].state = source[ch].state
        /\ source'[ch].enumerated = Cursor /\ source'[ch].settled = source[ch].settled
    BY <1>1, <1>4 DEF J!SetAcked, J!SourceRow, Cursor
  <1> QED BY <1>1, <1>2, <1>3, <1>5 DEF J!SetAcked

LEMMA SettleAt ==
  ASSUME IInv, AckSettle
  PROVE  /\ J!Settle(ch) /\ up # "down" /\ drain.phase = "ack"
         /\ source'[ch].state = source[ch].state
         /\ source'[ch].enumerated = Cursor /\ source[ch].settled <= source'[ch].settled
         /\ source'[ch].settled \in Posn
         /\ drain' \in {Idle, [Idle EXCEPT !.phase = "acking", !.cursor = source'[ch].settled]}
         /\ up' \in {up, "up"}
         /\ UNCHANGED <<item, pruned, reason, server, caughtUp, snoozed, agentTurns, lane, history>>
PROOF
  <1>1. J!Settle(ch)
    BY DEF AckSettle
  <1>2. PICK t \in Posn : source' = [source EXCEPT ![ch].settled = J!Larger(@, t)]
    BY <1>1 DEF J!Settle, J!Pos, Posn
  <1>3. source \in [{ch} -> J!SourceRow] /\ source[ch].settled \in Posn
    BY Cursors
  <1>4. source'[ch] = [source[ch] EXCEPT !.settled = J!Larger(@, t)]
    BY <1>2, <1>3
  <1>5. /\ source'[ch].state = source[ch].state /\ source'[ch].enumerated = Cursor
        /\ source'[ch].settled = J!Larger(source[ch].settled, t)
    BY <1>3, <1>4 DEF J!SourceRow, Cursor
  <1>6. source[ch].settled <= source'[ch].settled /\ source'[ch].settled \in Posn
    <2> DEFINE a == source[ch].settled
               b == source'[ch].settled
    <2>1. a \in Nat /\ t \in Nat /\ a \in Posn
      BY <1>3, Bounds
    <2>2. b = IF a >= t THEN a ELSE t
      BY <1>5 DEF J!Larger
    <2> HIDE DEF a, b
    <2>3. a <= b /\ b \in Posn
      BY <2>1, <2>2
    <2> QED BY <2>3 DEF a, b
  <1> QED BY <1>1, <1>5, <1>6 DEF AckSettle, AckTarget, Locked, J!Settle

-----------------------------------------------------------------------------
(* A page *)

\* The cursor passes what the page took, up to the first unpublished post.
LEMMA PageAt ==
  ASSUME IInv, Locked("page")
  PROVE  /\ drain.seen \in SUBSET Posts /\ drain.after \in Posn
         /\ drain.cursor = Cursor /\ Cursor <= drain.after
         /\ drain.held \/ drain.after = Cursor
         /\ \A p \in drain.seen : drain.after < p /\ Cursor < p
         /\ NewCursor \in Posn /\ Cursor <= NewCursor
         /\ \A p \in Passed(Taken, Held \cap Taken) : p <= NewCursor
         /\ \/ NewCursor = Cursor
            \/ /\ NewCursor \in Taken /\ ~drain.held
               /\ \A q \in Held \cap Taken : NewCursor < q
         /\ Taken \subseteq drain.seen
         /\ \A p, q \in drain.seen : p <= q /\ q \in Taken => p \in Taken
         /\ \A k \in Arriving :
              k \in Keys /\ k.lane = "post" /\ k.pos \in drain.seen /\ k \notin pruned
PROOF
  <1>1. /\ drain \in Drains /\ drain.phase = "page"
        /\ drain.cursor = Cursor /\ Cursor <= drain.after /\ (drain.held \/ drain.after = Cursor)
        /\ \A p \in drain.seen : drain.after < p
    BY DEF IInv, Intake, Typed, Reading, Locked
  <1>2. drain.seen \in SUBSET Posts /\ drain.after \in Posn /\ drain.cursor \in Posn
    BY <1>1 DEF Drains
  <1>3. \A p \in drain.seen : drain.after < p /\ Cursor < p
    <2> SUFFICES ASSUME NEW p \in drain.seen PROVE Cursor < p
      BY <1>1
    <2>1. p \in Nat /\ Cursor \in Nat /\ drain.after \in Nat
      BY <1>1, <1>2, Bounds
    <2> QED BY <1>1, <2>1
  <1>4. Taken \subseteq drain.seen
    BY DEF Taken
  <1> DEFINE P == Passed(Taken, Held \cap Taken)
  <1>5. P \subseteq Taken /\ (P # {} => ~drain.held)
        /\ \A p \in P : \A q \in Held \cap Taken : p < q
    BY DEF Passed
  <1>6. NewCursor = Max(P \cup {drain.cursor})
    <2>1. {drain.cursor} \cup P = P \cup {drain.cursor}
      OBVIOUS
    <2> QED BY <2>1 DEF NewCursor
  <1>7. P \in SUBSET (0 .. MaxPos) /\ drain.cursor \in 0 .. MaxPos /\ MaxPos \in Nat
    BY <1>2, <1>4, <1>5, Bounds DEF Posn
  <1> HIDE DEF P
  <1>8. /\ NewCursor \in P \cup {drain.cursor} /\ NewCursor \in 0 .. MaxPos
        /\ \A p \in P \cup {drain.cursor} : p <= NewCursor
    BY <1>6, <1>7, MaxWith
  <1>9. NewCursor \in Posn /\ Cursor <= NewCursor
        /\ (\A p \in Passed(Taken, Held \cap Taken) : p <= NewCursor)
        /\ (\/ NewCursor = Cursor
            \/ /\ NewCursor \in Taken /\ ~drain.held
               /\ \A q \in Held \cap Taken : NewCursor < q)
    BY <1>1, <1>5, <1>8 DEF Posn, P
  <1>10. \A p, q \in drain.seen : p <= q /\ q \in Taken => p \in Taken
    <2> SUFFICES ASSUME NEW p \in drain.seen, NEW q \in drain.seen, p <= q, q \in Taken
                 PROVE  p \in Taken
      OBVIOUS
    <2> DEFINE A == {x \in Pending : x <= p}
               B == {x \in Pending : x <= q}
    <2>1. Pending \subseteq drain.seen
      BY DEF Pending, NewRows, Fresh
    <2>2. A \in SUBSET B
      <3>1. \A x \in Pending : x \in Nat
        BY <1>2, <2>1, Bounds
      <3>2. p \in Nat /\ q \in Nat
        BY <1>2, Bounds
      <3> QED BY <3>1, <3>2
    <2>3. B \in SUBSET Posts
      BY <1>2, <2>1
    <2>4. Cardinality(B) <= Room
      BY DEF Taken
    <2>5. Cardinality(A) <= Cardinality(B) /\ Cardinality(A) \in Nat /\ Cardinality(B) \in Nat
      <3> HIDE DEF A, B
      <3>1. IsFiniteSet(B)
        BY <2>3, KeysFinite, FS_Subset
      <3>2. IsFiniteSet(A) /\ Cardinality(A) <= Cardinality(B)
        BY <2>2, <3>1, FS_Subset
      <3> QED BY <3>1, <3>2, FS_CardinalityType
    <2>6. Room \in Int
      <3>1. IsFiniteSet(J!InState(Keys, J!Open))
        <4>1. J!InState(Keys, J!Open) \in SUBSET Keys
          BY DEF J!InState
        <4> QED BY <4>1, KeysFinite, FS_Subset
      <3>2. Cardinality(J!InState(Keys, J!Open)) \in Nat
        BY <3>1, FS_CardinalityType
      <3> QED BY <3>2, Bounds DEF Room, J!Larger
    <2>7. Cardinality(A) <= Room
      BY <2>4, <2>5, <2>6
    <2> QED BY <2>7 DEF Taken
  <1>11. ASSUME NEW k \in Arriving
         PROVE  k \in Keys /\ k.lane = "post" /\ k.pos \in drain.seen /\ k \notin pruned
    <2>1. PICK p \in NewRows \cap Taken : k = PostKey(p)
      BY DEF Arriving
    <2>2. p \in drain.seen /\ p \in Posts
      BY <1>2, <1>4, <2>1
    <2>3. k \in Keys /\ k.lane = "post" /\ k.pos = p
      BY <2>1, <2>2, KeysAre
    <2>4. k \notin pruned
      <3>1. Cursor < p /\ Cursor \in Nat /\ p \in Nat
        BY <1>1, <1>2, <1>3, <2>2, Bounds
      <3> QED BY <2>3, <3>1, Cursors
    <2> QED BY <2>2, <2>3, <2>4
  <1> QED BY <1>1, <1>2, <1>3, <1>4, <1>9, <1>10, <1>11

LEMMA AgainAt ==
  ASSUME IInv, Locked("page"), Again
  PROVE  /\ Max(drain.seen) \in drain.seen /\ \A p \in drain.seen : p <= Max(drain.seen)
         /\ NewCursor <= Max(drain.seen)
         /\ ~drain.held /\ Held = {} => NewCursor = Max(drain.seen)
PROOF
  <1>1. drain.seen \in SUBSET Posts
    BY PageAt
  <1>2. drain.seen # {}
    <2>1. Cardinality({}) = 0
      BY FS_EmptySet
    <2> QED BY <2>1, Bounds DEF Again
  <1>3. Max(drain.seen) \in drain.seen /\ \A p \in drain.seen : p <= Max(drain.seen)
    <2> DEFINE S == drain.seen
    <2>1. S \in SUBSET Int /\ S # {} /\ MaxPos \in Int /\ \A p \in S : p <= MaxPos
      BY <1>1, <1>2, Bounds DEF Posts
    <2> HIDE DEF S
    <2>2. Max(S) \in S /\ \A p \in S : p <= Max(S)
      BY <2>1, MaxOfBounded
    <2> QED BY <2>2 DEF S
  <1>4. Cursor < Max(drain.seen) /\ Max(drain.seen) \in Nat /\ Cursor \in Nat /\ NewCursor \in Nat
    BY <1>1, <1>3, PageAt, Cursors, Bounds DEF Cursor
  <1>5. NewCursor <= Max(drain.seen)
    BY <1>3, <1>4, PageAt
  <1>6. ASSUME ~drain.held, Held = {} PROVE NewCursor = Max(drain.seen)
    <2>1. Max(drain.seen) \in Passed(Taken, Held \cap Taken)
      BY <1>3, <1>6 DEF Passed, Again
    <2>2. Max(drain.seen) <= NewCursor
      BY <2>1, PageAt
    <2> QED BY <1>4, <1>5, <2>2
  <1> QED BY <1>3, <1>5, <1>6

-----------------------------------------------------------------------------
(* The intake keeps to the rules of the journal's callers *)

LEMMA ItemStepNext == ASSUME J!ItemStep PROVE [J!Next]_(J!jvars)
PROOF BY DEF J!Next

LEMMA SourceStepNext == ASSUME J!SourceStep(ch) PROVE [J!Next]_(J!jvars)
PROOF BY DEF J!Next

LEMMA RowsStep ==
  ASSUME NEW K \in SUBSET Keys,
         \/ J!Claim(K) \/ J!RetryLater(K, TRUE) \/ J!RetryLater(K, FALSE)
         \/ J!Reconcile(K) \/ J!Prune(K)
         \/ \E s \in J!FINAL \cup {"needs_review"} : J!Finish(K, s)
  PROVE  [J!Next]_(J!jvars)
PROOF
  <1>1. J!ItemStep
    BY DEF J!ItemStep, Keys
  <1> QED BY <1>1, ItemStepNext

LEMMA AdmitStep ==
  ASSUME IInv, AdmitPage \/ Nudge PROVE [J!Next]_(J!jvars)
PROOF
  <1>1. \E K \in SUBSET J!OfSource(ch) :
          \E rows \in [K -> {"pending", "ignored"}], p \in J!Pos :
            J!AdmitRule(ch, rows) /\ J!Admit(ch, rows, p)
    <2>1. CASE AdmitPage
      <3>1. Locked("page") /\ J!Admit(ch, PageRows, NewCursor)
        BY <2>1, AdmitAt
      <3>2. Arriving \in SUBSET J!OfSource(ch)
        BY <3>1, PageAt, KeysAre DEF J!OfSource, Keys
      <3>3. PageRows \in [Arriving -> {"pending", "ignored"}]
        BY DEF PageRows
      <3>4. NewCursor \in J!Pos
        BY <3>1, PageAt DEF Posn, J!Pos
      <3>5. source[ch].state = "active"
        BY <3>1 DEF IInv, Intake, Alive, Locked
      <3>6. \A k \in Arriving : k.src = ch /\ k.pos > source[ch].enumerated
        <4> TAKE k \in Arriving
        <4>1. k \in Keys /\ k.pos \in drain.seen /\ k.pos \in Posts
          BY <3>1, PageAt, KeysAre
        <4>2. Cursor < k.pos /\ Cursor \in Nat /\ k.pos \in Nat
          BY <3>1, <4>1, PageAt, Cursors, Bounds DEF Cursor
        <4> QED BY <4>1, <4>2, KeysAre DEF Cursor
      <3>7. J!AdmitRule(ch, PageRows)
        <4>1. DOMAIN PageRows = Arriving
          BY DEF PageRows
        <4> QED BY <3>5, <3>6, <4>1 DEF J!AdmitRule
      <3> HIDE DEF PageRows, NewCursor, Arriving
      <3> QED BY <3>1, <3>2, <3>3, <3>4, <3>7
    <2>2. CASE Nudge
      <3>1. PICK p \in Posts :
               /\ source[ch].state = "active" /\ NudgeKey(p) \in Keys
               /\ J!Admit(ch, [k \in {NudgeKey(p)} |-> "pending"], Cursor)
        BY <2>2, NudgeAt
      <3> DEFINE K == {NudgeKey(p)}
                 rows == [k \in K |-> "pending"]
      <3>2. K \in SUBSET J!OfSource(ch)
        BY <3>1, KeysAre DEF J!OfSource, Keys
      <3>3. rows \in [K -> {"pending", "ignored"}]
        OBVIOUS
      <3>4. Cursor \in J!Pos
        BY Cursors DEF Posn, J!Pos, Cursor
      <3>5. J!AdmitRule(ch, rows)
        BY <3>1, KeysAre DEF J!AdmitRule, NudgeKey
      <3>6. J!Admit(ch, rows, Cursor)
        BY <3>1
      <3> HIDE DEF K, rows
      <3> QED BY <3>2, <3>3, <3>4, <3>5, <3>6
    <2> QED BY <2>1, <2>2
  <1>2. J!SourceStep(ch)
    BY <1>1 DEF J!SourceStep
  <1> QED BY <1>2, SourceStepNext

LEMMA SourceSteps ==
  ASSUME IInv, NewSource \/ AdoptPointer \/ AckReply \/ AckSettle PROVE [J!Next]_(J!jvars)
PROOF
  <1>1. CASE NewSource
    <2>1. PICK from \in Posn : source[ch].state = "none" /\ J!CreateSource(ch, from, "active")
      BY <1>1, NewSourceAt
    <2>2. J!CreateRule(ch, "active") /\ from \in J!Pos
      BY DEF J!CreateRule, Posn, J!Pos
    <2>3. J!SourceStep(ch)
      BY <2>1, <2>2 DEF J!SourceStep
    <2> QED BY <2>3, SourceStepNext
  <1>2. CASE AdoptPointer \/ AckReply
    <2>1. /\ source[ch].state = "active" /\ drain.cursor \in J!Pos
          /\ drain.cursor <= source[ch].settled /\ J!SetAcked(ch, drain.cursor)
      BY <1>2, AckAt DEF IInv, Intake, Alive, Posn, J!Pos
    <2>2. J!AckRule(ch, drain.cursor)
      BY <2>1 DEF J!AckRule
    <2>3. J!SourceStep(ch)
      BY <2>1, <2>2 DEF J!SourceStep
    <2> QED BY <2>3, SourceStepNext
  <1>3. CASE AckSettle
    <2>1. J!SourceStep(ch)
      BY <1>3, SettleAt DEF J!SourceStep
    <2> QED BY <2>1, SourceStepNext
  <1> QED BY <1>1, <1>2, <1>3

\* The steps that leave the journal alone.
Elsewhere ==
  \/ Insert \/ Commit \/ Finalise \/ EarlierAck \/ Crash \/ Ready \/ Snooze
  \/ DrainBegin \/ DrainFresh \/ DrainRead \/ DrainFails \/ DispatchDone \/ AckReaches \/ AckFails
  \/ (\E d \in disp : Hand(d) \/ TurnStarts(d)) \/ OtherStarts \/ OtherEnds
  \/ UNCHANGED vars

LEMMA ElsewhereAt == ASSUME Elsewhere PROVE UNCHANGED journal
PROOF
  BY DEF Elsewhere, Insert, Commit, Finalise, EarlierAck, Crash, Ready, Snooze, DrainBegin,
         DrainFresh, DrainRead, DrainFails, DispatchDone, AckReaches, AckFails, Hand, TurnStarts,
         OtherStarts, OtherEnds, vars

LEMMA Steps ==
  ASSUME [Next]_vars
  PROVE  \/ Elsewhere
         \/ Start \/ Shutdown \/ NewSource \/ AdoptPointer \/ AckReply \/ AckSettle
         \/ AdmitPage \/ Nudge \/ DispatchNext
         \/ (\E d \in disp : BuildFails(d) \/ Handed(d) \/ TurnEnds(d))
         \/ OperatorRetry \/ OperatorDismiss \/ PruneOld
PROOF BY DEF Next, Drain, Hermes, Elsewhere

LEMMA JournalStep == ASSUME IInv, [Next]_vars PROVE [J!Next]_(J!jvars)
PROOF
  <1>1. CASE Elsewhere
    BY <1>1, ElsewhereAt DEF journal, J!jvars
  <1>2. CASE Start
    <2>1. J!Reconcile({}) /\ {} \in SUBSET Keys
      BY <1>2 DEF Start
    <2> QED BY <2>1, RowsStep
  <1>3. CASE Shutdown
    <2> DEFINE K == UNION {d.items : d \in {e \in disp : e.stage = "building"}}
    <2>1. J!RetryLater(K, FALSE)
      BY <1>3 DEF Shutdown
    <2>2. K \in SUBSET Keys
      BY HeldRows
    <2> HIDE DEF K
    <2> QED BY <2>1, <2>2, RowsStep
  <1>4. CASE NewSource \/ AdoptPointer \/ AckReply \/ AckSettle
    BY <1>4, SourceSteps
  <1>5. CASE AdmitPage \/ Nudge
    BY <1>5, AdmitStep
  <1>6. CASE DispatchNext
    <2>1. PICK K \in SUBSET Keys : Ignores(K) \/ \E e \in Dispatches : Takes(K, e)
      BY <1>6, DispatchAt DEF Dispatched
    <2>2. J!Claim(K) \/ \E s \in J!FINAL \cup {"needs_review"} : J!Finish(K, s)
      BY <2>1 DEF Ignores, Takes, J!FINAL
    <2> QED BY <2>2, RowsStep
  <1>7. ASSUME NEW d \in disp, BuildFails(d) \/ Handed(d) \/ TurnEnds(d)
        PROVE  [J!Next]_(J!jvars)
    <2>1. d.items \in SUBSET Keys
      BY HeldRows
    <2>2. \/ UNCHANGED journal \/ J!RetryLater(d.items, TRUE)
          \/ \E s \in J!FINAL \cup {"needs_review"} : J!Finish(d.items, s)
      <3>1. CASE BuildFails(d)
        BY <3>1 DEF BuildFails, Recorded
      <3>2. CASE Handed(d)
        BY <3>2 DEF Handed, Recorded, J!FINAL
      <3>3. CASE TurnEnds(d)
        BY <3>3 DEF TurnEnds, Recorded, J!FINAL
      <3> QED BY <1>7, <3>1, <3>2, <3>3
    <2>3. CASE UNCHANGED journal
      BY <2>3 DEF journal, J!jvars
    <2> QED BY <2>1, <2>2, <2>3, RowsStep
  <1>8. CASE OperatorRetry \/ OperatorDismiss
    <2>1. J!ItemStep
      BY <1>8 DEF OperatorRetry, OperatorDismiss, J!ItemStep
    <2> QED BY <2>1, ItemStepNext
  <1>9. CASE PruneOld
    <2>1. PICK K \in SUBSET J!Prunable : J!Prune(K)
      BY <1>9 DEF PruneOld
    <2>2. K \in SUBSET Keys
      BY DEF J!Prunable, Keys
    <2> QED BY <2>1, <2>2, RowsStep
  <1> QED BY <1>1, <1>2, <1>3, <1>4, <1>5, <1>6, <1>7, <1>8, <1>9, Steps

LEMMA JournalInv == ASSUME IInv, [Next]_vars PROVE JP!IInv'
PROOF BY JournalStep, JournalKept DEF IInv

-----------------------------------------------------------------------------
(* Types *)

Reasons == {"none", "live", "attention"} \cup Historical
PostRows == [kind : Kinds \cup {"chatter"},
             status : {"none", "inserting", "streaming", "published", "removed"}]

\* r is a drain at the start of one of its steps.
DrainAt(r, f, a, c) ==
  /\ r \in Drains /\ r.phase = f /\ r.after = a /\ r.cursor = c /\ r.held = FALSE
  /\ r.seen = {} /\ r.streaming = {}

LEMMA IdleIs ==
  /\ DrainAt(Idle, "idle", 0, 0)
  /\ \A f \in Phases : DrainAt([Idle EXCEPT !.phase = f], f, 0, 0)
  /\ \A f \in Phases, a \in Posn : DrainAt([Idle EXCEPT !.phase = f, !.after = a], f, a, 0)
  /\ \A f \in Phases, c \in Posn : DrainAt([Idle EXCEPT !.phase = f, !.cursor = c], f, 0, c)
  /\ \A f \in Phases, a, c \in Posn :
       DrainAt([Idle EXCEPT !.phase = f, !.after = a, !.cursor = c], f, a, c)
PROOF
  <1>1. DrainAt(Idle, "idle", 0, 0)
    <2>1. 0 \in Posn
      BY Bounds
    <2> QED BY <2>1 DEF Idle, DrainAt, Drains, Phases
  <1>2. ASSUME NEW r, NEW f \in Phases, NEW a, NEW c, NEW g, DrainAt(r, g, a, c)
        PROVE  DrainAt([r EXCEPT !.phase = f], f, a, c)
    BY <1>2 DEF DrainAt, Drains
  <1>3. ASSUME NEW r, NEW f, NEW a, NEW c, NEW b \in Posn, DrainAt(r, f, a, c)
        PROVE  DrainAt([r EXCEPT !.after = b], f, b, c)
    BY <1>3 DEF DrainAt, Drains
  <1>4. ASSUME NEW r, NEW f, NEW a, NEW c, NEW b \in Posn, DrainAt(r, f, a, c)
        PROVE  DrainAt([r EXCEPT !.cursor = b], f, a, b)
    BY <1>4 DEF DrainAt, Drains
  <1>5. ASSUME NEW f \in Phases PROVE DrainAt([Idle EXCEPT !.phase = f], f, 0, 0)
    BY <1>1, <1>2
  <1>6. ASSUME NEW f \in Phases, NEW a \in Posn
        PROVE  DrainAt([Idle EXCEPT !.phase = f, !.after = a], f, a, 0)
    BY <1>3, <1>5
  <1>7. ASSUME NEW f \in Phases, NEW c \in Posn
        PROVE  DrainAt([Idle EXCEPT !.phase = f, !.cursor = c], f, 0, c)
    BY <1>4, <1>5
  <1>8. ASSUME NEW f \in Phases, NEW a \in Posn, NEW c \in Posn
        PROVE  DrainAt([Idle EXCEPT !.phase = f, !.after = a, !.cursor = c], f, a, c)
    BY <1>4, <1>6
  <1> QED BY <1>1, <1>5, <1>6, <1>7, <1>8

LEMMA DrainTyped ==
  ASSUME IInv
  PROVE  /\ drain \in Drains /\ drain.phase \in Phases /\ drain.after \in Posn
         /\ drain.cursor \in Posn /\ drain.held \in BOOLEAN /\ drain.pages \in Nat
         /\ drain.seen \in SUBSET Posts /\ drain.streaming \in SUBSET Posts
         /\ Cursor \in Posn /\ 0 \in Posn
PROOF BY Cursors, Bounds DEF IInv, Intake, Typed, Drains, Cursor

LEMMA DrainBeginAt ==
  ASSUME IInv, DrainBegin
  PROVE  \/ DrainAt(drain', "fresh", Newest, 0)
         \/ DrainAt(drain', "read", Cursor, Cursor)
PROOF
  <1>1. Newest \in Posn /\ Cursor \in Posn
    BY NewestAt, DrainTyped
  <1>2. "fresh" \in Phases /\ "read" \in Phases
    BY DEF Phases
  <1>3. /\ DrainAt([Idle EXCEPT !.phase = "fresh", !.after = Newest], "fresh", Newest, 0)
        /\ DrainAt([Idle EXCEPT !.phase = "read", !.after = Cursor, !.cursor = Cursor],
                   "read", Cursor, Cursor)
    BY <1>1, <1>2, IdleIs
  <1> QED BY <1>3 DEF DrainBegin

LEMMA DrainFreshAt ==
  ASSUME IInv, DrainFresh
  PROVE  /\ \/ DrainAt(drain', "dispatch", 0, 0)
            \/ DrainAt(drain', "read", Cursor, Cursor)
         /\ caughtUp' \in BOOLEAN
PROOF
  <1>1. Cursor \in Posn
    BY DrainTyped
  <1>2. "dispatch" \in Phases /\ "read" \in Phases
    BY DEF Phases
  <1>3. caughtUp' \in BOOLEAN
    BY DEF DrainFresh, IInv, Intake, Typed
  <1>4. /\ DrainAt([Idle EXCEPT !.phase = "dispatch"], "dispatch", 0, 0)
        /\ DrainAt([Idle EXCEPT !.phase = "read", !.after = Cursor, !.cursor = Cursor],
                   "read", Cursor, Cursor)
    BY <1>1, <1>2, IdleIs
  <1> QED BY <1>3, <1>4 DEF DrainFresh

Newer == {p \in Posts : Visible(p) /\ p > drain.after}
PageSeen == {p \in Newer : Cardinality({q \in Newer : q <= p}) <= PageSize}

LEMMA DrainReadAt ==
  ASSUME IInv, DrainRead
  PROVE  /\ drain.phase = "read" /\ drain' \in Drains /\ drain'.phase = "page"
         /\ drain'.after = drain.after /\ drain'.cursor = drain.cursor /\ drain'.held = drain.held
         /\ drain'.seen = PageSeen /\ drain'.streaming \subseteq PageSeen
PROOF
  <1> DEFINE s == {p \in PageSeen : post[p].status = "streaming"}
  <1>1. drain' = [drain EXCEPT !.phase = "page", !.seen = PageSeen, !.pages = @ + 1,
                               !.streaming = s]
    BY DEF DrainRead, PageSeen, Newer
  <1>2. PageSeen \in SUBSET Posts /\ s \in SUBSET Posts /\ s \subseteq PageSeen
    BY DEF PageSeen, Newer
  <1>3. "page" \in Phases
    BY DEF Phases
  <1> HIDE DEF s
  <1>4. drain \in Drains /\ drain.pages \in Nat
    BY DrainTyped
  <1>5. /\ drain'.phase = "page"
        /\ drain'.after = drain.after /\ drain'.cursor = drain.cursor
        /\ drain'.seen = PageSeen /\ drain'.streaming = s
    BY <1>1, <1>4 DEF Drains
  <1>7. drain' \in Drains
    <2> DEFINE n == drain.pages + 1
    <2>1. n \in Nat
      BY <1>4
    <2>2. drain' = [drain EXCEPT !.phase = "page", !.seen = PageSeen, !.pages = n,
                                 !.streaming = s]
      BY <1>1
    <2> HIDE DEF n
    <2> QED BY <1>2, <1>3, <1>4, <2>1, <2>2 DEF Drains
  <1>6. drain'.held = drain.held
    BY <1>1, <1>4, Zenon DEF Drains
  <1> QED BY <1>2, <1>5, <1>6, <1>7 DEF DrainRead, Locked

LEMMA AdmitDrainAt ==
  ASSUME IInv, AdmitPage
  PROVE  /\ Again => /\ drain' \in Drains /\ drain'.phase = "read"
                     /\ drain'.after = Max(drain.seen) /\ drain'.cursor = NewCursor
                     /\ drain'.held = (drain.held \/ Held # {})
                     /\ drain'.seen = {} /\ drain'.streaming = {}
         /\ ~Again => DrainAt(drain', "dispatch", 0, 0)
PROOF
  <1>1. CASE Again
    <2> DEFINE h == drain.held \/ Held # {}
               m == Max(drain.seen)
    <2>1. drain' = [drain EXCEPT !.phase = "read", !.after = m,
                                 !.cursor = NewCursor, !.held = h,
                                 !.seen = {}, !.streaming = {}]
      BY <1>1, AdmitAt
    <2>2. m \in Posn /\ NewCursor \in Posn /\ h \in BOOLEAN /\ "read" \in Phases
      BY <1>1, AdmitAt, AgainAt, PageAt, Bounds, DrainTyped DEF Phases
    <2> HIDE DEF h, m
    <2>3. drain \in Drains
      BY DrainTyped
    <2>4. /\ drain'.phase = "read" /\ drain'.after = m /\ drain'.cursor = NewCursor
          /\ drain'.seen = {} /\ drain'.streaming = {}
      BY <2>1, <2>3 DEF Drains
    <2>5. drain'.held = h
      BY <2>1, <2>3, Zenon DEF Drains
    <2>6. drain' \in Drains
      BY <2>1, <2>2, <2>3 DEF Drains
    <2> QED BY <1>1, <2>4, <2>5, <2>6 DEF h, m
  <1>2. CASE ~Again
    <2>1. drain' = [Idle EXCEPT !.phase = "dispatch"] /\ "dispatch" \in Phases
      BY <1>2, AdmitAt DEF Phases
    <2> QED BY <1>2, <2>1, IdleIs
  <1> QED BY <1>1, <1>2

LEMMA AckReachesAt ==
  ASSUME IInv, AckReaches
  PROVE  /\ drain.phase = "acking" /\ drain' \in Drains /\ drain'.phase = "acked"
         /\ drain'.after = drain.after /\ drain'.cursor = drain.cursor
         /\ drain'.seen = drain.seen /\ drain'.streaming = drain.streaming
         /\ readPtr' \in {NoPtr} \cup Posn
         /\ readPtr' = readPtr \/ (readPtr' <= drain.cursor /\ readPtr' \in Posts /\ Visible(readPtr'))
PROOF
  <1>1. drain \in Drains /\ "acked" \in Phases
    BY DrainTyped DEF Phases
  <1>2. drain' = [drain EXCEPT !.phase = "acked"]
    BY DEF AckReaches
  <1>3. /\ drain' \in Drains /\ drain'.phase = "acked"
        /\ drain'.after = drain.after /\ drain'.cursor = drain.cursor
        /\ drain'.seen = drain.seen /\ drain'.streaming = drain.streaming
    BY <1>1, <1>2 DEF Drains
  <1> DEFINE S == {p \in Posts : p <= drain.cursor /\ Visible(p)}
             target == Max({0} \cup S)
  <1>4. readPtr' = IF target = 0 THEN readPtr ELSE J!Larger(readPtr, target)
    BY DEF AckReaches
  <1>5. target \in S \cup {0}
    <2>1. S \in SUBSET (0 .. MaxPos) /\ MaxPos \in Nat /\ 0 \in 0 .. MaxPos
      BY Bounds DEF Posn
    <2>2. {0} \cup S = S \cup {0}
      OBVIOUS
    <2> HIDE DEF S
    <2> QED BY <2>1, <2>2, MaxWith
  <1>6. CASE target = 0
    BY <1>3, <1>4, <1>6 DEF IInv, Intake, Typed, AckReaches, Locked
  <1>7. CASE target # 0
    <2>1. target \in Posts /\ target <= drain.cursor /\ Visible(target)
      BY <1>5, <1>7
    <2>2. target \in Posn
      BY <2>1, Bounds
    <2> HIDE DEF target
    <2>3. readPtr' \in {readPtr, target}
      BY <1>4, <1>7 DEF J!Larger
    <2> QED BY <1>3, <2>1, <2>2, <2>3 DEF IInv, Intake, Typed, AckReaches, Locked
  <1> QED BY <1>6, <1>7

-----------------------------------------------------------------------------
(* Types *)

\* The variables beside the drain and the dispatches.
SmallTyped ==
  /\ reason \in [Keys -> Reasons] /\ post \in [Posts -> PostRows]
  /\ readPtr \in {NoPtr} \cup Posn /\ overtaken \subseteq Posts
  /\ up \in {"down", "starting", "up"}
  /\ caughtUp \in BOOLEAN /\ snoozed \in BOOLEAN
  /\ agentTurns \in 0 .. InterAgentLimit
  /\ start \in Posn
  /\ turns \in [Keys -> Nat] /\ retried \in [Keys -> Nat]
  /\ restarts \in Nat /\ snoozes \in Nat

DrainIs == drain \in Drains /\ drain.streaming \subseteq drain.seen
LaneTyped == disp \subseteq Dispatches /\ inflight \subseteq Keys /\ running \in Nat

LEMMA TypedIs == Typed <=> SmallTyped /\ DrainIs /\ LaneTyped
PROOF BY DEF Typed, SmallTyped, DrainIs, LaneTyped, Reasons, PostRows

LEMMA DemoteTyped ==
  ASSUME IInv, NEW K, Demote(K)
  PROVE  /\ reason' \in [Keys -> Reasons]
         /\ \A k \in Keys : \/ reason'[k] = reason[k]
                            \/ k \in K /\ reason[k] = "live" /\ reason'[k] = "backlog"
PROOF
  <1>1. reason \in [Keys -> Reasons]
    BY TypedIs DEF IInv, Intake, SmallTyped
  <1>2. reason' = [k \in Keys |-> IF k \in K /\ reason[k] = "live" THEN "backlog" ELSE reason[k]]
    BY DEF Demote, Keys
  <1>3. "backlog" \in Reasons
    BY DEF Reasons, Historical
  <1>4. ASSUME NEW k \in Keys
        PROVE  /\ reason'[k] \in Reasons
               /\ \/ reason'[k] = reason[k]
                  \/ k \in K /\ reason[k] = "live" /\ reason'[k] = "backlog"
    <2>1. reason[k] \in Reasons
      BY <1>1
    <2>2. reason'[k] = IF k \in K /\ reason[k] = "live" THEN "backlog" ELSE reason[k]
      BY <1>2
    <2> QED BY <1>3, <2>1, <2>2
  <1>5. reason' \in [Keys -> Reasons]
    BY <1>2, <1>4
  <1> QED BY <1>4, <1>5

LEMMA SmallSame ==
  ASSUME SmallTyped, UNCHANGED <<reason, server, up, caughtUp, snoozed, agentTurns, history>>
  PROVE  SmallTyped'
PROOF BY DEF SmallTyped, server, history

LEMMA ResetTyped ==
  ASSUME Reset
  PROVE  /\ DrainIs' /\ LaneTyped'
         /\ caughtUp' \in BOOLEAN /\ snoozed' \in BOOLEAN /\ agentTurns' \in 0 .. InterAgentLimit
PROOF
  <1>1. DrainIs'
    BY IdleIs DEF Reset, DrainIs, DrainAt
  <1>2. LaneTyped'
    BY DEF Reset, LaneTyped
  <1>3. 0 \in 0 .. InterAgentLimit
    BY Bounds
  <1> QED BY <1>1, <1>2, <1>3 DEF Reset

LEMMA SmallStep == ASSUME IInv, [Next]_vars PROVE SmallTyped'
PROOF
  <1> SmallTyped
    BY TypedIs DEF IInv, Intake
  <1> USE DEF server, history, volatile
  <1>1. CASE Insert
    <2>1. PICK p \in Posts, kind \in Kinds :
            post' = [post EXCEPT ![p] = [kind |-> kind, status |-> "inserting"]]
      BY <1>1 DEF Insert
    <2>2. post' \in [Posts -> PostRows]
      BY <2>1 DEF SmallTyped, PostRows
    <2> QED BY <1>1, <2>2 DEF Insert, SmallTyped
  <1>2. CASE Commit
    <2>1. PICK p \in Posts, status \in {"streaming", "published"} :
            post' = [post EXCEPT ![p].status = status]
      BY <1>2 DEF Commit
    <2>2. post' \in [Posts -> PostRows]
      BY <2>1 DEF SmallTyped, PostRows
    <2>3. overtaken' \subseteq Posts
      BY <1>2 DEF Commit, SmallTyped
    <2> QED BY <1>2, <2>2, <2>3 DEF Commit, SmallTyped
  <1>3. CASE Finalise
    <2>1. PICK p \in Posts, status \in {"published", "removed"} :
            post' = [post EXCEPT ![p].status = status]
      BY <1>3 DEF Finalise
    <2>2. post' \in [Posts -> PostRows]
      BY <2>1 DEF SmallTyped, PostRows
    <2> QED BY <1>3, <2>2 DEF Finalise, SmallTyped
  <1>4. CASE EarlierAck
    <2>1. readPtr' \in {NoPtr} \cup Posn
      BY <1>4, Bounds DEF EarlierAck
    <2> QED BY <1>4, <2>1 DEF EarlierAck, SmallTyped
  <1>5. CASE Start
    <2>1. reason' \in [Keys -> Reasons]
      BY <1>5, StartAt, DemoteTyped
    <2>2. caughtUp' \in BOOLEAN /\ snoozed' \in BOOLEAN /\ agentTurns' \in 0 .. InterAgentLimit
      BY <1>5, StartAt, ResetTyped
    <2> QED BY <1>5, <2>1, <2>2, StartAt DEF SmallTyped
  <1>6. CASE Crash
    <2>1. caughtUp' \in BOOLEAN /\ snoozed' \in BOOLEAN /\ agentTurns' \in 0 .. InterAgentLimit
      BY <1>6, ResetTyped DEF Crash, Dies, ResetVolatile, Reset
    <2> QED BY <1>6, <2>1 DEF Crash, Dies, SmallTyped
  <1>7. CASE Shutdown
    <2>1. caughtUp' \in BOOLEAN /\ snoozed' \in BOOLEAN /\ agentTurns' \in 0 .. InterAgentLimit
      BY <1>7, ShutdownAt, ResetTyped
    <2> QED BY <1>7, <2>1, ShutdownAt DEF SmallTyped
  <1>8. CASE Ready
    BY <1>8 DEF Ready, SmallTyped
  <1>9. CASE Snooze
    <2>1. snoozed' \in BOOLEAN /\ snoozes' \in Nat
      BY <1>9 DEF Snooze, SmallTyped
    <2> QED BY <1>9, <2>1 DEF Snooze, SmallTyped
  <1>10. CASE NewSource
    <2>1. start' \in Posn /\ caughtUp' \in BOOLEAN
      BY <1>10, NewSourceAt
    <2> QED BY <1>10, <2>1, NewSourceAt DEF SmallTyped
  <1>11. CASE AdoptPointer \/ DrainBegin \/ DrainRead \/ DrainFails \/ DispatchDone
    BY <1>11, SmallSame DEF AdoptPointer, DrainBegin, DrainRead, DrainFails, DispatchDone
  <1>12. CASE DrainFresh
    <2>1. caughtUp' \in BOOLEAN
      BY <1>12, DrainFreshAt
    <2> QED BY <1>12, <2>1 DEF DrainFresh, SmallTyped
  <1>13. CASE AdmitPage
    <2>1. reason' \in [Keys -> Reasons]
      <3>1. reason' = [k \in Keys |-> IF k \in {PostKey(p) : p \in Pending \cap Taken}
                                      THEN ReasonOf(k.pos) ELSE reason[k]]
        BY <1>13, AdmitAt
      <3>2. \A p : ReasonOf(p) \in Reasons
        BY DEF ReasonOf, Reasons, Historical
      <3> QED BY <3>1, <3>2 DEF SmallTyped
    <2>2. agentTurns' \in 0 .. InterAgentLimit /\ caughtUp' \in BOOLEAN
      BY <1>13, AdmitAt, Bounds DEF SmallTyped
    <2> QED BY <1>13, <2>1, <2>2, AdmitAt DEF SmallTyped
  <1>14. CASE DispatchNext
    BY <1>14, DispatchAt DEF SmallTyped
  <1>15. CASE AckSettle
    BY <1>15, SettleAt DEF SmallTyped
  <1>16. CASE AckReaches
    <2>1. readPtr' \in {NoPtr} \cup Posn
      BY <1>16, AckReachesAt
    <2> QED BY <1>16, <2>1 DEF AckReaches, SmallTyped
  <1>17. CASE AckReply \/ AckFails
    BY <1>17 DEF AckReply, AckFails, SmallTyped
  <1>18. ASSUME NEW d \in disp, BuildFails(d) \/ Handed(d) \/ TurnStarts(d) \/ TurnEnds(d)
         PROVE  SmallTyped'
    BY <1>18, SmallSame DEF BuildFails, Handed, TurnStarts, TurnEnds
  <1>19. ASSUME NEW d \in disp, Hand(d) PROVE SmallTyped'
    <2>1. turns' = [k \in Keys |-> IF k \in d.items THEN turns[k] + 1 ELSE turns[k]]
      BY <1>19, HandAt
    <2>2. turns' \in [Keys -> Nat]
      BY <2>1 DEF SmallTyped
    <2> QED BY <1>19, <2>2 DEF Hand, SmallTyped
  <1>20. CASE OtherStarts \/ OtherEnds
    BY <1>20, SmallSame DEF OtherStarts, OtherEnds
  <1>21. CASE Nudge
    <2>1. PICK p \in Posts :
           /\ NudgeKey(p) \in Keys
           /\ reason' = [reason EXCEPT ![NudgeKey(p)] = "attention"]
           /\ turns' = [turns EXCEPT ![NudgeKey(p)] = 0]
           /\ retried' = [retried EXCEPT ![NudgeKey(p)] = 0]
      BY <1>21, NudgeAt
    <2>2. reason' \in [Keys -> Reasons] /\ turns' \in [Keys -> Nat] /\ retried' \in [Keys -> Nat]
      BY <2>1 DEF SmallTyped, Reasons
    <2> QED BY <1>21, <2>2 DEF Nudge, SmallTyped
  <1>22. CASE OperatorRetry
    <2>1. PICK k \in Keys : Demote({k}) /\ retried' = [retried EXCEPT ![k] = @ + 1]
      BY <1>22, RetryAt
    <2>2. reason' \in [Keys -> Reasons] /\ retried' \in [Keys -> Nat]
      BY <2>1, DemoteTyped DEF SmallTyped
    <2> QED BY <1>22, <2>2 DEF OperatorRetry, SmallTyped
  <1>23. CASE OperatorDismiss \/ PruneOld \/ UNCHANGED vars
    BY <1>23, SmallSame DEF OperatorDismiss, PruneOld, vars
  <1> QED
    BY <1>1, <1>2, <1>3, <1>4, <1>5, <1>6, <1>7, <1>8, <1>9, <1>10, <1>11, <1>12, <1>13, <1>14,
       <1>15, <1>16, <1>17, <1>18, <1>19, <1>20, <1>21, <1>22, <1>23, Steps DEF Elsewhere

LEMMA DrainAtIs == ASSUME NEW f, NEW a, NEW c, DrainAt(drain', f, a, c) PROVE DrainIs'
PROOF BY DEF DrainAt, DrainIs

\* The steps of the drain's holder.
Draining ==
  \/ NewSource \/ AdoptPointer \/ DrainBegin \/ DrainFresh \/ DrainRead \/ DrainFails \/ AdmitPage
  \/ DispatchDone \/ AckSettle \/ AckReaches \/ AckReply \/ AckFails

Resets == Start \/ Crash \/ Shutdown

LEMMA ResetsAt == ASSUME IInv, Resets PROVE Reset /\ (up' = "down" \/ up' = "starting")
PROOF BY StartAt, ShutdownAt DEF Resets, Crash, Dies, ResetVolatile, Reset

LEMMA DrainSame ==
  ASSUME IInv, [Next]_vars PROVE Draining \/ Resets \/ UNCHANGED drain
PROOF
  <1>1. ASSUME DispatchNext PROVE UNCHANGED drain
    BY <1>1, DispatchAt
  <1>2. ASSUME NEW d \in disp, BuildFails(d) \/ Handed(d) \/ TurnStarts(d) \/ TurnEnds(d) \/ Hand(d)
        PROVE UNCHANGED drain
    BY <1>2 DEF BuildFails, Handed, TurnStarts, TurnEnds, Hand, volatile
  <1>3. ASSUME Insert \/ Commit \/ Finalise \/ EarlierAck \/ Ready \/ Snooze \/ OtherStarts
               \/ OtherEnds \/ UNCHANGED vars \/ Nudge \/ OperatorRetry \/ OperatorDismiss \/ PruneOld
        PROVE UNCHANGED drain
    BY <1>3 DEF Insert, Commit, Finalise, EarlierAck, Ready, Snooze, OtherStarts, OtherEnds, vars,
                Nudge, OperatorRetry, OperatorDismiss, PruneOld, volatile
  <1> QED BY <1>1, <1>2, <1>3, Steps DEF Elsewhere, Draining, Resets

LEMMA DrainStep == ASSUME IInv, [Next]_vars PROVE DrainIs'
PROOF
  <1>1. DrainIs
    BY TypedIs DEF IInv, Intake
  <1>2. CASE UNCHANGED drain
    BY <1>1, <1>2 DEF DrainIs
  <1>3. CASE Resets
    BY <1>3, ResetsAt, ResetTyped
  <1>4. CASE NewSource
    <2>1. PICK from \in Posn : drain' \in {drain, [Idle EXCEPT !.phase = "adopt", !.cursor = from]}
      BY <1>4, NewSourceAt
    <2>2. "adopt" \in Phases
      BY DEF Phases
    <2>3. DrainAt([Idle EXCEPT !.phase = "adopt", !.cursor = from], "adopt", 0, from)
      BY <2>2, IdleIs
    <2> QED BY <1>2, <2>1, <2>3, DrainAtIs
  <1>5. CASE AdoptPointer \/ DrainFails \/ AckReply \/ AckFails
    <2>1. drain' = Idle /\ DrainAt(Idle, "idle", 0, 0)
      BY <1>5, IdleIs DEF AdoptPointer, DrainFails, AckReply, AckFails
    <2>2. DrainAt(drain', "idle", 0, 0)
      BY <2>1
    <2> QED BY <2>2, DrainAtIs
  <1>6. CASE DrainBegin \/ DrainFresh
    BY <1>6, DrainBeginAt, DrainFreshAt, DrainAtIs
  <1>7. CASE DrainRead
    BY <1>7, DrainReadAt DEF DrainIs
  <1>8. CASE AdmitPage
    BY <1>8, AdmitDrainAt, DrainAtIs DEF DrainIs
  <1>9. CASE DispatchDone
    <2>1. "ack" \in Phases
      BY DEF Phases
    <2> QED BY <1>9, <2>1, IdleIs, DrainAtIs DEF DispatchDone
  <1>10. CASE AckSettle
    <2>1. source'[ch].settled \in Posn /\ "acking" \in Phases
      BY <1>10, SettleAt DEF Phases
    <2>2. DrainAt([Idle EXCEPT !.phase = "acking", !.cursor = source'[ch].settled], "acking", 0,
                  source'[ch].settled)
      BY <2>1, IdleIs
    <2>3. drain' \in {Idle, [Idle EXCEPT !.phase = "acking", !.cursor = source'[ch].settled]}
      BY <1>10, SettleAt
    <2>4. \/ DrainAt(drain', "idle", 0, 0)
          \/ DrainAt(drain', "acking", 0, source'[ch].settled)
      <3>1. DrainAt(Idle, "idle", 0, 0)
        BY IdleIs
      <3> QED BY <2>2, <2>3, <3>1
    <2> QED BY <2>4, DrainAtIs
  <1>11. CASE AckReaches
    BY <1>1, <1>11, AckReachesAt DEF DrainIs
  <1> QED
    BY <1>2, <1>3, <1>4, <1>5, <1>6, <1>7, <1>8, <1>9, <1>10, <1>11, DrainSame DEF Draining

\* The steps that leave the lane of the channel alone.
LaneBeside ==
  \/ Insert \/ Commit \/ Finalise \/ EarlierAck \/ Ready \/ Snooze \/ Draining
  \/ Nudge \/ OperatorRetry \/ OperatorDismiss \/ PruneOld \/ UNCHANGED vars

LEMMA LaneBesideAt == ASSUME LaneBeside PROVE UNCHANGED lane
PROOF
  BY DEF LaneBeside, Draining, Insert, Commit, Finalise, EarlierAck, Ready, Snooze, NewSource,
         AdoptPointer, DrainBegin, DrainFresh, DrainRead, DrainFails, AdmitPage, DispatchDone,
         AckSettle, AckReaches, AckReply, AckFails, Nudge, OperatorRetry, OperatorDismiss,
         PruneOld, vars

LEMMA LaneSteps ==
  ASSUME [Next]_vars
  PROVE  \/ LaneBeside \/ Resets \/ DispatchNext \/ OtherStarts \/ OtherEnds
         \/ \E d \in disp : BuildFails(d) \/ Hand(d) \/ Handed(d) \/ TurnStarts(d) \/ TurnEnds(d)
PROOF BY Steps DEF Elsewhere, LaneBeside, Draining, Resets

LEMMA StartedCount ==
  ASSUME IInv
  PROVE  /\ IsFiniteSet(StartedOf(disp)) /\ Cardinality(StartedOf(disp)) \in Nat
         /\ Cardinality(StartedOf(disp)) <= running
         /\ running <= Cardinality(StartedOf(disp)) + MaxOther
         /\ running \in Nat
PROOF
  <1>1. IsFiniteSet(disp) /\ StartedOf(disp) \in SUBSET disp
    BY DEF IInv, Intake, TurnsRunning, StartedOf
  <1>2. IsFiniteSet(StartedOf(disp))
    BY <1>1, FS_Subset
  <1> QED BY <1>2, FS_CardinalityType DEF IInv, Intake, TurnsRunning, Typed

LEMMA LaneStep == ASSUME IInv, [Next]_vars PROVE LaneTyped'
PROOF
  <1>1. LaneTyped
    BY TypedIs DEF IInv, Intake
  <1>2. CASE LaneBeside
    BY <1>1, <1>2, LaneBesideAt DEF LaneTyped, lane
  <1>3. CASE Resets
    BY <1>3, ResetsAt, ResetTyped
  <1>4. CASE DispatchNext
    BY <1>1, <1>4, DispatchAt DEF Dispatched, Ignores, Takes, LaneTyped
  <1>5. CASE OtherStarts \/ OtherEnds
    <2>1. running' \in Nat
      BY <1>5, StartedCount DEF OtherStarts, OtherEnds, StartedOf
    <2> QED BY <1>1, <1>5, <2>1 DEF OtherStarts, OtherEnds, FreeLane, LaneTyped
  <1>6. ASSUME NEW d \in disp,
               BuildFails(d) \/ Hand(d) \/ Handed(d) \/ TurnStarts(d) \/ TurnEnds(d)
        PROVE  LaneTyped'
    <2>1. CASE BuildFails(d) \/ Handed(d) \/ Hand(d)
      BY <1>1, <2>1, BuildFailsAt, HandedAt, HandAt DEF Settles, Renews, LaneTyped
    <2>2. CASE TurnStarts(d)
      BY <1>1, <2>2, TurnStartsAt DEF Renews, LaneTyped
    <2>3. CASE TurnEnds(d)
      <3>1. d \in StartedOf(disp) /\ running' = running - 1
        BY <2>3, TurnEndsAt DEF StartedOf
      <3>2. Cardinality(StartedOf(disp)) # 0
        BY <3>1, StartedCount, FS_EmptySet
      <3>3. running' \in Nat
        BY <3>1, <3>2, StartedCount
      <3> QED BY <1>1, <2>3, <3>3, TurnEndsAt DEF Settles, LaneTyped
    <2> QED BY <1>6, <2>1, <2>2, <2>3
  <1> QED BY <1>2, <1>3, <1>4, <1>5, <1>6, LaneSteps

LEMMA TypedStep == ASSUME IInv, [Next]_vars PROVE Typed'
PROOF
  <1>1. SmallTyped' /\ DrainIs' /\ LaneTyped'
    BY SmallStep, DrainStep, LaneStep
  <1> QED BY <1>1 DEF Typed, SmallTyped, DrainIs, LaneTyped, Reasons, PostRows

-----------------------------------------------------------------------------
(* What a step changes *)

LEMMA SourceAt ==
  ASSUME IInv, [Next]_vars
  PROVE  \/ NewSource
         \/ /\ source'[ch].state = source[ch].state
            /\ source[ch].settled <= source'[ch].settled
            /\ start' = start
            /\ \/ Cursor' = Cursor
               \/ AdmitPage /\ Cursor' = NewCursor
PROOF
  <1>1. /\ source \in [{ch} -> J!SourceRow] /\ Cursor \in Nat
        /\ source[ch].settled \in Nat /\ source[ch].settled <= source[ch].settled
    <2>1. source \in [{ch} -> J!SourceRow] /\ Cursor \in Posn /\ source[ch].settled \in Posn
      BY Cursors DEF Cursor
    <2>2. \A n \in Posn : n \in Nat /\ n <= n
      BY Bounds
    <2> QED BY <2>1, <2>2
  <1>2. CASE UNCHANGED source /\ UNCHANGED start
    BY <1>1, <1>2 DEF Cursor
  <1>3. ASSUME NEW K, NEW c \in Nat, Cursor <= c, Arrives(K, c)
        PROVE  /\ source'[ch].state = source[ch].state
               /\ source'[ch].settled = source[ch].settled
               /\ Cursor' = c
    <2>1. source' = [source EXCEPT ![ch].enumerated = J!Larger(@, c)]
      BY <1>3 DEF Arrives
    <2>2. source'[ch] = [source[ch] EXCEPT !.enumerated = J!Larger(@, c)]
      BY <1>1, <2>1
    <2>3. /\ source'[ch].state = source[ch].state
          /\ source'[ch].settled = source[ch].settled
          /\ source'[ch].enumerated = J!Larger(Cursor, c)
      BY <1>1, <2>2 DEF J!SourceRow, Cursor
    <2>4. J!Larger(Cursor, c) = c
      BY <1>1, <1>3 DEF J!Larger
    <2> QED BY <2>3, <2>4 DEF Cursor
  <1>4. CASE AdmitPage
    <2>1. Arrives(Arriving, NewCursor) /\ start' = start
      BY <1>4, AdmitAt DEF history
    <2>2. NewCursor \in Nat /\ Cursor <= NewCursor
      BY <1>4, AdmitAt, PageAt, Bounds
    <2> HIDE DEF NewCursor
    <2> QED BY <1>1, <1>3, <1>4, <2>1, <2>2
  <1>5. CASE Nudge
    <2>1. PICK p \in Posts : Arrives({NudgeKey(p)}, Cursor) /\ start' = start
      BY <1>5, NudgeAt
    <2> HIDE DEF Cursor
    <2> QED BY <1>1, <1>3, <2>1
  <1>6. CASE AdoptPointer \/ AckReply
    BY <1>1, <1>6, AckAt DEF AdoptPointer, AckReply, history, Cursor
  <1>7. CASE AckSettle
    BY <1>7, SettleAt DEF history, Cursor
  <1>8. CASE Elsewhere
    BY <1>2, <1>8, ElsewhereAt
       DEF journal, Elsewhere, Insert, Commit, Finalise, EarlierAck, Crash, Dies, Ready, Snooze,
           DrainBegin, DrainFresh, DrainRead, DrainFails, DispatchDone, AckReaches, AckFails, Hand,
           TurnStarts, OtherStarts, OtherEnds, vars, history
  <1>9. CASE Start \/ Shutdown
    BY <1>2, <1>9, StartAt, ShutdownAt DEF Moves, history
  <1>10. CASE DispatchNext
    <2>1. UNCHANGED source
      BY <1>10, DispatchAt DEF Dispatched, Ignores, Takes, Moves
    <2> QED BY <1>2, <1>10, <2>1, DispatchAt DEF history
  <1>11. ASSUME NEW d \in disp, BuildFails(d) \/ Handed(d) \/ TurnEnds(d)
         PROVE  UNCHANGED source /\ UNCHANGED start
    BY <1>11, BuildFailsAt, HandedAt, TurnEndsAt DEF Settles, Renews, Moves, journal, history
  <1>12. CASE OperatorRetry \/ OperatorDismiss \/ PruneOld
    BY <1>2, <1>12, RetryAt, DismissAt, PruneAt DEF Moves, Prunes, history
  <1> QED
    BY <1>2, <1>4, <1>5, <1>6, <1>7, <1>8, <1>9, <1>10, <1>11, <1>12, Steps

\* The rows of a step.
LEMMA ItemsAt ==
  ASSUME IInv, [Next]_vars
  PROVE  \/ AdmitPage \/ Nudge
         \/ Prunes /\ PruneOld
         \/ \E K \in SUBSET Keys, S \in SUBSET (J!Open \cup J!FINAL) : Moves(K, S)
         \/ NewSource \/ AdoptPointer \/ AckReply \/ AckSettle
PROOF
  <1> DEFINE Good == \E K \in SUBSET Keys, S \in SUBSET (J!Open \cup J!FINAL) : Moves(K, S)
  <1>0. ASSUME NEW K \in SUBSET Keys, NEW S \in SUBSET (J!Open \cup J!FINAL), Moves(K, S)
        PROVE  Good
    BY <1>0
  <1>1. ASSUME UNCHANGED journal PROVE Good
    BY <1>0, <1>1, MovesNothing
  <1> HIDE DEF Good
  <1>2. CASE Elsewhere
    BY <1>1, <1>2, ElsewhereAt DEF Good
  <1>3. CASE Start
    <2>1. {k \in Keys : State(k) = "processing"} \in SUBSET Keys
      OBVIOUS
    <2>2. {"needs_review"} \in SUBSET (J!Open \cup J!FINAL)
      BY DEF J!Open
    <2>3. Good
      BY <1>0, <1>3, <2>1, <2>2, StartAt
    <2> QED BY <2>3 DEF Good
  <1>4. CASE Shutdown
    <2>1. PICK K \in SUBSET Keys : Moves(K, {"retry_wait"})
      BY <1>4, ShutdownAt
    <2>2. {"retry_wait"} \in SUBSET (J!Open \cup J!FINAL)
      BY DEF J!Open, J!Waiting
    <2>3. Good
      BY <1>0, <2>1, <2>2
    <2> QED BY <2>3 DEF Good
  <1>5. CASE DispatchNext
    <2>1. PICK K \in SUBSET Keys : Moves(K, {"processing"}) \/ Moves(K, {"ignored"})
      BY <1>5, DispatchAt DEF Dispatched, Ignores, Takes
    <2>2. {"processing"} \in SUBSET (J!Open \cup J!FINAL)
          /\ {"ignored"} \in SUBSET (J!Open \cup J!FINAL)
      BY DEF J!Open, J!FINAL
    <2>3. Good
      BY <1>0, <2>1, <2>2
    <2> QED BY <2>3 DEF Good
  <1>6. ASSUME NEW d \in disp, BuildFails(d) \/ Handed(d) \/ TurnEnds(d)
        PROVE  Good
    <2>1. Settles(d) \/ UNCHANGED journal
      BY <1>6, BuildFailsAt, HandedAt, TurnEndsAt DEF Renews
    <2>2. CASE Settles(d)
      <3>1. PICK K \in {{}, d.items},
                 S \in SUBSET (J!FINAL \cup {"needs_review", "retry_wait"}) : Moves(K, S)
        BY <2>2 DEF Settles
      <3>2. K \in SUBSET Keys
        BY <3>1, HeldRows
      <3>3. S \in SUBSET (J!Open \cup J!FINAL)
        BY <3>1 DEF J!Open, J!Waiting
      <3> QED BY <1>0, <3>1, <3>2, <3>3
    <2> QED BY <1>1, <2>1, <2>2
  <1>7. CASE OperatorRetry \/ OperatorDismiss
    <2>1. PICK k \in Keys : Moves({k}, {"pending"}) \/ Moves({k}, {"ignored"})
      BY <1>7, RetryAt, DismissAt
    <2>2. {"pending"} \in SUBSET (J!Open \cup J!FINAL)
          /\ {"ignored"} \in SUBSET (J!Open \cup J!FINAL) /\ {k} \in SUBSET Keys
      BY DEF J!Open, J!Waiting, J!FINAL
    <2>3. Good
      BY <1>0, <2>1, <2>2
    <2> QED BY <2>3 DEF Good
  <1>8. CASE PruneOld
    BY <1>8, PruneAt
  <1> QED BY <1>2, <1>3, <1>4, <1>5, <1>6, <1>7, <1>8, Steps DEF Good

LEMMA PostAt ==
  ASSUME IInv, [Next]_vars
  PROVE  \/ Insert \/ Commit \/ Finalise \/ UNCHANGED post
PROOF
  <1>1. ASSUME NEW d \in disp, BuildFails(d) \/ Handed(d) \/ TurnStarts(d) \/ TurnEnds(d) \/ Hand(d)
        PROVE UNCHANGED post
    BY <1>1 DEF BuildFails, Handed, TurnStarts, TurnEnds, Hand, server
  <1>2. ASSUME EarlierAck \/ Crash \/ Ready \/ Snooze \/ OtherStarts \/ OtherEnds
               \/ UNCHANGED vars \/ Nudge \/ OperatorRetry \/ OperatorDismiss \/ PruneOld
               \/ Start \/ Shutdown \/ DispatchNext
        PROVE UNCHANGED post
    BY <1>2 DEF EarlierAck, Crash, Ready, Snooze, OtherStarts, OtherEnds, vars, Nudge,
                OperatorRetry, OperatorDismiss, PruneOld, Start, Shutdown, DispatchNext, server
  <1>3. ASSUME Draining PROVE UNCHANGED post
    BY <1>3 DEF Draining, NewSource, AdoptPointer, DrainBegin, DrainFresh, DrainRead, DrainFails,
                AdmitPage, DispatchDone, AckSettle, AckReaches, AckReply, AckFails, server
  <1> QED BY <1>1, <1>2, <1>3, Steps DEF Elsewhere, Draining

\* Only a commit marks a post as overtaken.
LEMMA OvertakenAt ==
  ASSUME IInv, [Next]_vars
  PROVE  Commit \/ UNCHANGED overtaken
PROOF
  <1>1. ASSUME NEW d \in disp, BuildFails(d) \/ Handed(d) \/ TurnStarts(d) \/ TurnEnds(d) \/ Hand(d)
        PROVE UNCHANGED overtaken
    BY <1>1 DEF BuildFails, Handed, TurnStarts, TurnEnds, Hand, server
  <1>2. ASSUME Insert \/ Finalise \/ EarlierAck \/ Crash \/ Ready \/ Snooze \/ OtherStarts
               \/ OtherEnds \/ UNCHANGED vars \/ Nudge \/ OperatorRetry \/ OperatorDismiss
               \/ PruneOld \/ Start \/ Shutdown \/ DispatchNext
        PROVE UNCHANGED overtaken
    BY <1>2 DEF Insert, Finalise, EarlierAck, Crash, Ready, Snooze, OtherStarts, OtherEnds, vars,
                Nudge, OperatorRetry, OperatorDismiss, PruneOld, Start, Shutdown, DispatchNext, server
  <1>3. ASSUME Draining PROVE UNCHANGED overtaken
    BY <1>3 DEF Draining, NewSource, AdoptPointer, DrainBegin, DrainFresh, DrainRead, DrainFails,
                AdmitPage, DispatchDone, AckSettle, AckReaches, AckReply, AckFails, server
  <1> QED BY <1>1, <1>2, <1>3, Steps DEF Elsewhere, Draining

\* What comes to be seen is committed, and overtaken if a larger id was before it.
CommitsLast(p) ==
  /\ post[p].status = "inserting"
  /\ p \in overtaken' \/ \A q \in Posts : Committed(q) => ~(p < q)

\* A post keeps its kind once it is there, and is committed for good.
LEMMA PostStep ==
  ASSUME IInv, [Next]_vars
  PROVE  /\ overtaken \subseteq overtaken'
         /\ \A p \in Posts :
              /\ Exists(p) => Exists(p)' /\ post'[p].kind = post[p].kind
              /\ Committed(p) => Committed(p)'
              /\ Visible(p)' => Visible(p) \/ CommitsLast(p)
PROOF
  <1>0. overtaken \subseteq overtaken'
    BY OvertakenAt DEF Commit
  <1> SUFFICES ASSUME NEW p \in Posts
               PROVE  /\ Exists(p) => Exists(p)' /\ post'[p].kind = post[p].kind
                      /\ Committed(p) => Committed(p)'
                      /\ Visible(p)' => Visible(p) \/ CommitsLast(p)
    BY <1>0
  <1>1. post \in [Posts -> PostRows]
    BY TypedIs DEF IInv, Intake, SmallTyped
  <1> USE DEF Exists, Committed, Visible
  <1>2. CASE UNCHANGED post
    BY <1>2
  <1>3. CASE Insert
    <2>1. PICK q \in Posts, kind \in Kinds :
            post[q].status = "none" /\
            post' = [post EXCEPT ![q] = [kind |-> kind, status |-> "inserting"]]
      BY <1>3 DEF Insert
    <2> QED BY <1>1, <1>3, <2>1
  <1>4. CASE Commit
    <2>1. PICK q \in Posts, status \in {"streaming", "published"} :
            /\ post[q].status = "inserting" /\ post' = [post EXCEPT ![q].status = status]
            /\ overtaken' = IF \E r \in Posts : q < r /\ Committed(r) THEN overtaken \cup {q}
                                                                     ELSE overtaken
      BY <1>4 DEF Commit
    <2>2. CASE p = q
      BY <1>1, <2>1, <2>2 DEF PostRows, CommitsLast
    <2>3. CASE p # q
      BY <1>1, <2>1, <2>3
    <2> QED BY <2>2, <2>3
  <1>5. CASE Finalise
    <2>1. PICK q \in Posts, status \in {"published", "removed"} :
            Visible(q) /\ post' = [post EXCEPT ![q].status = status]
      BY <1>5 DEF Finalise
    <2> QED BY <1>1, <2>1 DEF PostRows
  <1> QED BY <1>2, <1>3, <1>4, <1>5, PostAt

-----------------------------------------------------------------------------
(* Posts come in order, and nothing knows one that is not there *)

LEMMA ReachOf ==
  ASSUME IInv, NEW p \in Posts, ~Exists(p)
  PROVE  /\ \A q \in Posts : Exists(q) => q < p
         /\ \A q \in Posts : Visible(q) => q < p
         /\ Newest < p /\ 0 < p /\ Cursor < p /\ start < p /\ readPtr < p /\ drain.after < p
         /\ p \notin drain.seen /\ \A q \in drain.seen : q < p
         /\ \A k \in Keys : k.pos = p => State(k) = "absent"
PROOF
  <1>1. /\ Cursor < p /\ start < p /\ readPtr < p /\ drain.after < p
        /\ p \notin drain.seen
        /\ \A k \in Keys : k.pos = p => State(k) = "absent"
    BY DEF IInv, Intake, InOrder
  <1>2. ASSUME NEW q \in Posts, Exists(q) PROVE q < p
    <2>1. ~(p < q)
      BY <1>2 DEF IInv, Intake, InOrder
    <2>2. p # q
      BY <1>2
    <2> QED BY <2>1, <2>2, Bounds
  <1>3. \A q \in Posts : Visible(q) => q < p
    BY <1>2 DEF Visible, Exists
  <1>4. 0 < p
    BY Bounds
  <1>5. Newest < p
    BY <1>3, <1>4, NewestAt
  <1>6. ASSUME NEW q \in drain.seen PROVE q < p
    <2>1. q \in Posts
      BY DrainTyped
    <2>2. Exists(q)
      BY <2>1 DEF IInv, Intake, InOrder
    <2> QED BY <1>2, <2>1, <2>2
  <1> QED BY <1>1, <1>2, <1>3, <1>4, <1>5, <1>6

\* The new rows are of posts that are there.
LEMMA AbsentStep ==
  ASSUME IInv, [Next]_vars, NEW k \in Keys, State(k) = "absent"
  PROVE  \/ item'[k].state = "absent"
         \/ AdmitPage /\ k \in Arriving /\ Exists(k.pos)
         \/ Nudge /\ k.lane = "attention" /\ Exists(k.pos) /\ post[k.pos].kind = "chatter"
PROOF
  <1>1. CASE AdmitPage
    <2>1. CASE k \in Arriving
      <3>1. k.pos \in drain.seen
        BY <1>1, <2>1, AdmitAt, PageAt
      <3>2. k.pos \in Posts
        BY KeysAre
      <3>3. Exists(k.pos)
        BY <3>1, <3>2, ReachOf
      <3> QED BY <1>1, <2>1, <3>3
    <2>2. CASE k \notin Arriving
      BY <1>1, <2>2, AdmitAt DEF Arrives, State
    <2> QED BY <2>1, <2>2
  <1>2. CASE Nudge
    <2>1. PICK p \in Posts : /\ post[p] = [kind |-> "chatter", status |-> "published"]
                             /\ Arrives({NudgeKey(p)}, Cursor)
      BY <1>2, NudgeAt
    <2>2. CASE k = NudgeKey(p)
      <3>1. k.lane = "attention" /\ k.pos = p
        BY <2>2 DEF NudgeKey
      <3> QED BY <1>2, <2>1, <3>1 DEF Exists
    <2>3. CASE k # NudgeKey(p)
      BY <2>1, <2>3 DEF Arrives, State
    <2> QED BY <2>2, <2>3
  <1>3. CASE PruneOld
    BY <1>3, PruneAt DEF Prunes, State
  <1>4. CASE \E K \in SUBSET Keys, S \in SUBSET (J!Open \cup J!FINAL) : Moves(K, S)
    BY <1>4 DEF Moves, State, J!Open, J!Waiting
  <1>5. CASE NewSource \/ AdoptPointer \/ AckReply \/ AckSettle
    BY <1>5, NewSourceAt, AckAt, SettleAt DEF State
  <1> QED BY <1>1, <1>2, <1>3, <1>4, <1>5, ItemsAt

LEMMA PtrSame ==
  ASSUME IInv, [Next]_vars PROVE EarlierAck \/ AckReaches \/ UNCHANGED readPtr
PROOF
  <1>1. ASSUME NEW d \in disp, BuildFails(d) \/ Handed(d) \/ TurnStarts(d) \/ TurnEnds(d) \/ Hand(d)
        PROVE UNCHANGED readPtr
    BY <1>1 DEF BuildFails, Handed, TurnStarts, TurnEnds, Hand, server
  <1>2. ASSUME Insert \/ Commit \/ Finalise \/ Crash \/ Ready \/ Snooze \/ OtherStarts
               \/ OtherEnds \/ UNCHANGED vars \/ Nudge \/ OperatorRetry \/ OperatorDismiss
               \/ PruneOld \/ Start \/ Shutdown \/ DispatchNext
        PROVE UNCHANGED readPtr
    BY <1>2 DEF Insert, Commit, Finalise, Crash, Ready, Snooze, OtherStarts, OtherEnds, vars, Nudge,
                OperatorRetry, OperatorDismiss, PruneOld, Start, Shutdown, DispatchNext, server
  <1>3. ASSUME Draining, ~AckReaches PROVE UNCHANGED readPtr
    BY <1>3 DEF Draining, NewSource, AdoptPointer, DrainBegin, DrainFresh, DrainRead, DrainFails,
                AdmitPage, DispatchDone, AckSettle, AckReply, AckFails, server
  <1> QED BY <1>1, <1>2, <1>3, Steps DEF Elsewhere, Draining

\* A step of the drain that is not a read starts afresh.
LEMMA DrainMoves ==
  ASSUME IInv, [Next]_vars
  PROVE  \/ UNCHANGED drain
         \/ DrainRead \/ AckReaches \/ (AdmitPage /\ Again)
         \/ DrainAt(drain', "idle", 0, 0)
         \/ NewSource /\ \E c \in Posn : DrainAt(drain', "adopt", 0, c) /\ source'[ch].settled = c
         \/ DrainBegin /\ DrainAt(drain', "fresh", Newest, 0)
         \/ (DrainBegin \/ DrainFresh) /\ DrainAt(drain', "read", Cursor, Cursor)
         \/ (DrainFresh \/ AdmitPage) /\ DrainAt(drain', "dispatch", 0, 0)
         \/ DispatchDone /\ DrainAt(drain', "ack", 0, 0)
         \/ AckSettle /\ DrainAt(drain', "acking", 0, source'[ch].settled)
PROOF
  <1>1. DrainAt(Idle, "idle", 0, 0)
    BY IdleIs
  <1>2. CASE Resets \/ AdoptPointer \/ DrainFails \/ AckReply \/ AckFails
    <2>1. drain' = Idle
      BY <1>2, ResetsAt DEF Reset, AdoptPointer, DrainFails, AckReply, AckFails
    <2> QED BY <1>1, <2>1
  <1>3. CASE NewSource
    <2>1. PICK from \in Posn :
             /\ drain' \in {drain, [Idle EXCEPT !.phase = "adopt", !.cursor = from]}
             /\ source'[ch].settled = from
      BY <1>3, NewSourceAt
    <2>2. "adopt" \in Phases
      BY DEF Phases
    <2>3. DrainAt([Idle EXCEPT !.phase = "adopt", !.cursor = from], "adopt", 0, from)
      BY <2>2, IdleIs
    <2>4. UNCHANGED drain \/ DrainAt(drain', "adopt", 0, from)
      BY <2>1, <2>3
    <2> QED BY <1>3, <2>1, <2>4
  <1>4. CASE DrainBegin
    BY <1>4, DrainBeginAt
  <1>5. CASE DrainFresh
    BY <1>5, DrainFreshAt
  <1>6. CASE AdmitPage
    BY <1>6, AdmitDrainAt
  <1>7. CASE DispatchDone
    <2>1. "ack" \in Phases /\ drain' = [Idle EXCEPT !.phase = "ack"]
      BY <1>7 DEF Phases, DispatchDone
    <2>2. DrainAt([Idle EXCEPT !.phase = "ack"], "ack", 0, 0)
      BY <2>1, IdleIs
    <2>3. DrainAt(drain', "ack", 0, 0)
      BY <2>1, <2>2
    <2> QED BY <1>7, <2>3
  <1>8. CASE AckSettle
    <2>1. source'[ch].settled \in Posn /\ "acking" \in Phases
      BY <1>8, SettleAt DEF Phases
    <2>2. DrainAt([Idle EXCEPT !.phase = "acking", !.cursor = source'[ch].settled], "acking", 0,
                  source'[ch].settled)
      BY <2>1, IdleIs
    <2>3. drain' \in {Idle, [Idle EXCEPT !.phase = "acking", !.cursor = source'[ch].settled]}
      BY <1>8, SettleAt
    <2>4. \/ DrainAt(drain', "idle", 0, 0)
          \/ DrainAt(drain', "acking", 0, source'[ch].settled)
      BY <1>1, <2>2, <2>3
    <2> QED BY <1>8, <2>4
  <1> QED BY <1>2, <1>3, <1>4, <1>5, <1>6, <1>7, <1>8, DrainSame DEF Draining

LEMMA InOrderStep == ASSUME IInv, [Next]_vars PROVE InOrder'
PROOF
  <1>1. post \in [Posts -> PostRows]
    BY TypedIs DEF IInv, Intake, SmallTyped
  <1>2. \A p, q \in Posts : Exists(q) /\ p < q => Exists(p)
    BY DEF IInv, Intake, InOrder
  <1>3. \A p, q \in Posts : Exists(q)' /\ p < q => Exists(p)'
    <2>1. CASE UNCHANGED post
      BY <1>2, <2>1 DEF Exists
    <2>2. CASE Insert
      <3>1. PICK r \in Posts, kind \in Kinds :
              /\ post[r].status = "none"
              /\ \A q \in 1 .. r - 1 : post[q].status # "none"
              /\ post' = [post EXCEPT ![r] = [kind |-> kind, status |-> "inserting"]]
        BY <2>2 DEF Insert
      <3>2. post'[r].status = "inserting"
            /\ \A q \in Posts : q # r => post'[q] = post[q]
        BY <1>1, <3>1
      <3>3. \A q \in Posts : Exists(q) => q < r
        BY <3>1, ReachOf DEF Exists
      <3>4. \A q \in Posts : q < r => Exists(q)
        BY <3>1 DEF Posts, Exists
      <3>5. \A q \in Posts : Exists(q)' <=> q <= r
        <4> TAKE q \in Posts
        <4>1. q \in Nat /\ r \in Nat
          BY Bounds
        <4>2. CASE q = r
          BY <3>2, <4>1, <4>2 DEF Exists
        <4>3. CASE q # r
          <5>1. Exists(q)' <=> Exists(q)
            BY <3>2, <4>3 DEF Exists
          <5> QED BY <3>3, <3>4, <4>1, <4>3, <5>1
        <4> QED BY <4>2, <4>3
      <3>7. \A p, q \in Posts : Exists(q)' /\ p < q => Exists(p)'
        <4> SUFFICES ASSUME NEW p \in Posts, NEW q \in Posts, Exists(q)', p < q PROVE Exists(p)'
          OBVIOUS
        <4>1. p \in Nat /\ q \in Nat /\ r \in Nat
          BY Bounds
        <4> QED BY <3>5, <4>1
      <3> QED BY <3>7
    <2>3. CASE Commit \/ Finalise
      <3>1. PICK r \in Posts, status \in {"streaming", "published", "removed"} :
              Exists(r) /\ post' = [post EXCEPT ![r].status = status]
        BY <2>3 DEF Commit, Finalise, Visible, Exists
      <3>2. \A q \in Posts : Exists(q)' <=> Exists(q)
        BY <1>1, <3>1 DEF Exists, PostRows
      <3> QED BY <1>2, <3>2
    <2> QED BY <2>1, <2>2, <2>3, PostAt
  <1>4. ASSUME NEW p \in Posts, ~Exists(p)'
        PROVE  /\ Cursor' < p /\ start' < p /\ readPtr' < p /\ drain'.after < p
               /\ p \notin drain'.seen
               /\ \A k \in Keys : k.pos = p => item'[k].state = "absent"
    <2>1. ~Exists(p)
      BY <1>4, PostStep
    <2>2. /\ \A q \in Posts : Exists(q) => q < p
          /\ \A q \in Posts : Visible(q) => q < p
          /\ Newest < p /\ 0 < p /\ Cursor < p /\ start < p /\ readPtr < p /\ drain.after < p
          /\ p \notin drain.seen /\ \A q \in drain.seen : q < p
          /\ \A k \in Keys : k.pos = p => State(k) = "absent"
      BY <2>1, ReachOf
    <2>3. \A k \in Keys : k.pos = p => item'[k].state = "absent"
      BY <2>1, <2>2, AbsentStep
    <2>4. readPtr' < p
      <3>1. CASE EarlierAck
        BY <2>2, <3>1 DEF EarlierAck
      <3>2. CASE AckReaches
        BY <2>2, <3>2, AckReachesAt
      <3> QED BY <2>2, <3>1, <3>2, PtrSame
    <2>5. Cursor' < p /\ start' < p
      <3>1. CASE NewSource
        <4>1. PICK from \in Posn : /\ source'[ch].enumerated = from /\ start' = from
                                   /\ from = readPtr \/ from <= Newest
          BY <3>1, NewSourceAt
        <4>2. from \in Nat /\ Newest \in Nat /\ p \in Nat
          BY NewestAt, Bounds
        <4>3. from < p
          BY <2>2, <4>1, <4>2
        <4> QED BY <4>1, <4>3 DEF Cursor
      <3>2. CASE AdmitPage /\ Cursor' = NewCursor
        <4>1. NewCursor = Cursor \/ NewCursor \in drain.seen
          BY <3>2, AdmitAt, PageAt
        <4>2. NewCursor < p
          BY <2>2, <4>1
        <4>3. start' = start
          BY <3>2, AdmitAt DEF history
        <4> QED BY <2>2, <3>2, <4>2, <4>3
      <3> QED BY <2>2, <3>1, <3>2, SourceAt
    <2>6. drain'.after < p /\ p \notin drain'.seen
      <3>1. CASE DrainRead
        <4>1. p \notin PageSeen
          BY <2>2, Bounds DEF PageSeen, Newer
        <4> QED BY <2>2, <3>1, <4>1, DrainReadAt
      <3>2. CASE AckReaches
        BY <2>2, <3>2, AckReachesAt
      <3>3. CASE AdmitPage /\ Again
        <4>1. Max(drain.seen) \in drain.seen
          BY <3>3, AdmitAt, AgainAt
        <4>2. drain'.after = Max(drain.seen) /\ drain'.seen = {}
          BY <3>3, AdmitDrainAt
        <4> QED BY <2>2, <4>1, <4>2
      <3>4. ASSUME NEW f, NEW a, NEW c, DrainAt(drain', f, a, c), a \in {0, Newest, Cursor}
            PROVE  drain'.after < p /\ p \notin drain'.seen
        BY <2>2, <3>4 DEF DrainAt
      <3> QED BY <2>2, <3>1, <3>2, <3>3, <3>4, DrainMoves
    <2> QED BY <2>3, <2>4, <2>5, <2>6
  <1> QED BY <1>3, <1>4 DEF InOrder, Exists, State

-----------------------------------------------------------------------------
(* The cursor, the pointer and the pages stand at committed posts *)

LEMMA ReachedOf ==
  ASSUME IInv
  PROVE  /\ Reached(Cursor) /\ Reached(readPtr) /\ Reached(Newest)
         /\ \A q \in Posts : Visible(q) => Committed(q)
         /\ \A q \in drain.seen : q \in Posts /\ Committed(q)
PROOF
  <1>1. \A q \in Posts : Visible(q) => Committed(q)
    BY DEF Visible, Committed
  <1>2. Reached(Newest)
    <2>1. CASE Newest = 0
      BY <2>1 DEF Reached
    <2>2. CASE Newest \in Posts /\ Visible(Newest)
      <3>1. Newest <= Newest
        BY <2>2, Bounds
      <3> QED BY <1>1, <2>2, <3>1 DEF Reached
    <2> QED BY <2>1, <2>2, NewestAt
  <1> QED BY <1>1, <1>2, DrainTyped DEF IInv, Intake, Met

\* A position below one that is reached is reached.
LEMMA ReachedBelow ==
  ASSUME NEW n \in Int, NEW m \in Int, n <= m, Reached(m)
  PROVE  Reached(n)
PROOF BY Bounds DEF Reached

LEMMA ReachedKept ==
  ASSUME IInv, [Next]_vars, NEW n, Reached(n)
  PROVE  n <= 0 \/ \E q \in Posts : Committed(q)' /\ n <= q
PROOF BY PostStep DEF Reached

LEMMA MetStep == ASSUME IInv, [Next]_vars PROVE Met'
PROOF
  <1> DEFINE Reached1(n) == n <= 0 \/ \E q \in Posts : Committed(q)' /\ n <= q
  <1>0. /\ Reached(Cursor) /\ Reached(readPtr) /\ Reached(Newest)
        /\ \A q \in Posts : Visible(q) => Committed(q)
        /\ \A q \in drain.seen : q \in Posts /\ Committed(q)
    BY ReachedOf
  <1>1. ASSUME NEW n, Reached(n) PROVE Reached1(n)
    BY <1>1, ReachedKept
  <1>2. ASSUME NEW q \in Posts, Committed(q) PROVE Reached(q)
    <2>1. q <= q
      BY Bounds
    <2> QED BY <1>2, <2>1 DEF Reached
  <1> HIDE DEF Reached1
  <1>3. Reached1(Cursor')
    <2>1. CASE NewSource
      <3>1. PICK from \in Posn : /\ source'[ch].enumerated = from
                                 /\ from = readPtr \/ from <= Newest
        BY <2>1, NewSourceAt
      <3>2. from \in Int /\ Newest \in Int
        <4>1. \A n \in Posn : n \in Int
          BY Bounds
        <4>2. Newest \in Posn
          BY NewestAt
        <4> QED BY <4>1, <4>2
      <3>3. CASE from = readPtr
        BY <1>0, <1>1, <3>1, <3>3 DEF Cursor
      <3>4. CASE from <= Newest
        <4>1. Reached(from)
          BY <1>0, <3>2, <3>4, ReachedBelow
        <4> QED BY <1>1, <3>1, <4>1 DEF Cursor
      <3> QED BY <3>1, <3>3, <3>4
    <2>2. CASE AdmitPage /\ Cursor' = NewCursor
      <3>1. NewCursor = Cursor \/ NewCursor \in drain.seen
        BY <2>2, AdmitAt, PageAt
      <3>2. Reached(NewCursor)
        BY <1>0, <1>2, <3>1
      <3> QED BY <1>1, <2>2, <3>2
    <2>3. CASE Cursor' = Cursor
      BY <1>0, <1>1, <2>3
    <2> QED BY <2>1, <2>2, <2>3, SourceAt
  <1>4. Reached1(readPtr')
    <2>1. CASE EarlierAck
      <3>1. readPtr' \in Posts /\ Visible(readPtr')
        BY <2>1 DEF EarlierAck
      <3> QED BY <1>0, <1>1, <1>2, <3>1
    <2>2. CASE AckReaches
      BY <1>0, <1>1, <1>2, <2>2, AckReachesAt
    <2>3. CASE UNCHANGED readPtr
      BY <1>0, <1>1, <2>3
    <2> QED BY <2>1, <2>2, <2>3, PtrSame
  <1>5. ASSUME NEW q \in drain'.seen PROVE Committed(q)'
    <2>1. q \in Posts /\ Committed(q)
      <3>1. CASE UNCHANGED drain
        BY <1>0, <1>5, <3>1
      <3>2. CASE DrainRead
        BY <1>0, <1>5, <3>2, DrainReadAt DEF PageSeen, Newer
      <3>3. CASE AckReaches
        BY <1>0, <1>5, <3>3, AckReachesAt
      <3>4. CASE AdmitPage /\ Again
        BY <1>5, <3>4, AdmitDrainAt
      <3> QED BY <1>5, <3>1, <3>2, <3>3, <3>4, DrainMoves DEF DrainAt
    <2> QED BY <2>1, PostStep
  <1> QED BY <1>3, <1>4, <1>5 DEF Met, Reached, Reached1

\* What is committed now, at or below what was committed before it, is overtaken.
LEMMA LateIsOvertaken ==
  ASSUME IInv, [Next]_vars, NEW p \in Posts, p \notin overtaken', Visible(p)',
         NEW q \in Posts, Committed(q), p <= q
  PROVE  Visible(p)
PROOF
  <1> SUFFICES ASSUME ~Visible(p) PROVE FALSE
    OBVIOUS
  <1>1. CommitsLast(p)
    BY PostStep
  <1>2. ~(p < q) /\ p # q
    BY <1>1 DEF CommitsLast, Committed
  <1> QED BY <1>2, Bounds

-----------------------------------------------------------------------------
(* What a row says of its post *)

\* The reasons of a step.
LEMMA ReasonStep ==
  ASSUME IInv, [Next]_vars, NEW k \in Keys
  PROVE  \/ reason'[k] = reason[k]
         \/ reason[k] = "live" /\ reason'[k] = "backlog"
            /\ (Start \/ OperatorRetry) /\ State(k) # "processing"
         \/ AdmitPage /\ k \in Arriving /\ item'[k].state = "pending"
            /\ ~Skipped(k.pos) /\ reason'[k] = ReasonOf(k.pos)
         \/ Nudge /\ k.lane = "attention" /\ reason'[k] = "attention" /\ State(k) = "absent"
PROOF
  <1>0. reason \in [Keys -> Reasons]
    BY TypedIs DEF IInv, Intake, SmallTyped
  <1>1. CASE Start
    <2> DEFINE K == {j \in Keys : item'[j].state \in J!Waiting}
    <2>1. Demote(K)
      BY <1>1 DEF Start, Keys
    <2>2. k \in K => State(k) # "processing"
      <3>1. Moves({j \in Keys : State(j) = "processing"}, {"needs_review"})
        BY <1>1, StartAt
      <3>2. State(k) = "processing" => item'[k].state = "needs_review"
        BY <3>1 DEF Moves
      <3> QED BY <3>2 DEF J!Waiting
    <2> HIDE DEF K
    <2> QED BY <1>1, <2>1, <2>2, DemoteTyped
  <1>2. CASE OperatorRetry
    <2>1. PICK j \in Keys : Demote({j}) /\ State(j) = "needs_review"
      BY <1>2, RetryAt
    <2> QED BY <1>2, <2>1, DemoteTyped
  <1>3. CASE AdmitPage
    <2>1. reason'[k] = IF k \in {PostKey(p) : p \in Pending \cap Taken}
                       THEN ReasonOf(k.pos) ELSE reason[k]
      BY <1>3, AdmitAt
    <2>2. CASE k \in {PostKey(p) : p \in Pending \cap Taken}
      <3>1. PICK p \in Pending \cap Taken : k = PostKey(p)
        BY <2>2
      <3>2. k.pos = p /\ p \in Pending /\ p \in NewRows /\ ~Skipped(p) /\ p \in Taken
        BY <3>1 DEF PostKey, Pending
      <3>3. k \in Arriving
        BY <3>1, <3>2 DEF Arriving
      <3>4. item'[k].state = "pending"
        <4>1. J!Admit(ch, PageRows, NewCursor) /\ Arrives(Arriving, NewCursor)
          BY <1>3, AdmitAt
        <4>2. State(k) = "absent"
          BY <3>3, <4>1 DEF Arrives
        <4>3. item'[k] = [J!NoItem EXCEPT !.state = PageRows[k]]
          BY <3>3, <4>1, <4>2 DEF J!Admit, PageRows, State, Keys
        <4>4. PageRows[k] = "pending"
          BY <3>2, <3>3 DEF PageRows
        <4> QED BY <4>3, <4>4 DEF J!NoItem
      <3> QED BY <1>3, <2>1, <2>2, <3>2, <3>3, <3>4
    <2>3. CASE k \notin {PostKey(p) : p \in Pending \cap Taken}
      BY <2>1, <2>3
    <2> QED BY <2>2, <2>3
  <1>4. CASE Nudge
    <2>1. PICK p \in Posts : /\ reason' = [reason EXCEPT ![NudgeKey(p)] = "attention"]
                             /\ Arrives({NudgeKey(p)}, Cursor) /\ NudgeKey(p) \in Keys
      BY <1>4, NudgeAt
    <2>2. State(NudgeKey(p)) = "absent" /\ NudgeKey(p).lane = "attention"
      BY <2>1 DEF Arrives, NudgeKey
    <2> QED BY <1>0, <1>4, <2>1, <2>2
  <1>5. CASE Elsewhere
    <2>1. UNCHANGED reason
      BY <1>5 DEF Elsewhere, Insert, Commit, Finalise, EarlierAck, Crash, Ready, Snooze, DrainBegin,
                  DrainFresh, DrainRead, DrainFails, DispatchDone, AckReaches, AckFails, Hand,
                  TurnStarts, OtherStarts, OtherEnds, vars
    <2> QED BY <2>1
  <1>6. ASSUME NEW d \in disp, BuildFails(d) \/ Handed(d) \/ TurnEnds(d)
         PROVE  UNCHANGED reason
    BY <1>6, BuildFailsAt, HandedAt, TurnEndsAt
  <1>7. CASE Shutdown \/ NewSource \/ AdoptPointer \/ AckReply \/ AckSettle \/ DispatchNext
             \/ OperatorDismiss \/ PruneOld
    <2>1. UNCHANGED reason
      BY <1>7, ShutdownAt, NewSourceAt, SettleAt, DispatchAt, DismissAt, PruneAt
         DEF AdoptPointer, AckReply
    <2> QED BY <2>1
  <1> QED BY <1>1, <1>2, <1>3, <1>4, <1>5, <1>6, <1>7, Steps

LEMMA ItemTyped ==
  ASSUME IInv, NEW k \in Keys
  PROVE  State(k) \in J!Open \cup J!FINAL \cup {"absent"}
PROOF BY Cursors DEF J!ItemRow, State

\* A row is opened by its admission only.
LEMMA OpenStep ==
  ASSUME IInv, [Next]_vars, NEW k \in Keys, item'[k].state \in J!Open
  PROVE  State(k) \in J!Open \/ (State(k) = "absent" /\ (AdmitPage \/ Nudge))
PROOF
  <1> USE DEF J!Open, J!Waiting, J!FINAL
  <1>1. State(k) \in J!Open \cup J!FINAL \cup {"absent"}
    BY ItemTyped
  <1>2. CASE AdmitPage
    BY <1>1, <1>2, AdmitAt DEF Arrives
  <1>3. CASE Nudge
    BY <1>1, <1>3, NudgeAt DEF Arrives
  <1>4. CASE PruneOld
    BY <1>1, <1>4, PruneAt DEF Prunes
  <1>5. CASE \E K \in SUBSET Keys, S \in SUBSET (J!Open \cup J!FINAL) : Moves(K, S)
    BY <1>1, <1>5 DEF Moves
  <1>6. CASE NewSource \/ AdoptPointer \/ AckReply \/ AckSettle
    BY <1>1, <1>6, NewSourceAt, AckAt, SettleAt DEF State
  <1> QED BY <1>2, <1>3, <1>4, <1>5, <1>6, ItemsAt

\* A pending row of a page carries the reason the page gave it.
LEMMA ArrivesAs ==
  ASSUME IInv, AdmitPage, NEW k \in Arriving, item'[k].state \in J!Open
  PROVE  k.pos \in Pending /\ ~Skipped(k.pos) /\ reason'[k] = ReasonOf(k.pos)
PROOF
  <1>1. /\ Arrives(Arriving, NewCursor) /\ Locked("page")
        /\ item'[k].state = "pending" => k.pos \in Pending
        /\ reason' = [j \in Keys |-> IF j \in {PostKey(p) : p \in Pending \cap Taken}
                                      THEN ReasonOf(j.pos) ELSE reason[j]]
    BY AdmitAt
  <1>2. k \in Keys /\ k.lane = "post"
    BY <1>1, PageAt
  <1>3. item'[k].state \in {"pending", "ignored"}
    BY <1>1, <1>2 DEF Arrives
  <1>4. k.pos \in Pending
    BY <1>1, <1>3 DEF J!Open, J!Waiting
  <1>5. PICK p \in NewRows \cap Taken : k = PostKey(p)
    BY DEF Arriving
  <1>6. k.pos = p
    BY <1>5 DEF PostKey
  <1>7. k \in {PostKey(q) : q \in Pending \cap Taken}
    BY <1>4, <1>5, <1>6
  <1>8. reason'[k] = ReasonOf(k.pos)
    BY <1>1, <1>2, <1>7
  <1> QED BY <1>4, <1>8 DEF Pending

LEMMA RowsAt == ASSUME IInv, NEW k \in Keys
  PROVE  /\ k.lane = "post" /\ State(k) \in J!Open =>
              post[k.pos].kind # "chatter" /\ reason[k] \in {"live"} \cup Historical
         /\ k.lane = "attention" =>
              /\ reason[k] \in {"none", "attention"}
              /\ State(k) # "absent" => post[k.pos].kind = "chatter"
         /\ State(k) # "absent" =>
              /\ k.pos \in Posts /\ Exists(k.pos)
PROOF
  <1>1. k.pos \in Posts
    BY KeysAre
  <1>2. State(k) # "absent" => Exists(k.pos)
    BY <1>1 DEF IInv, Intake, InOrder
  <1> QED BY <1>1, <1>2 DEF IInv, Intake, Rows

LEMMA RowsKept == ASSUME IInv, [Next]_vars PROVE Rows'
PROOF
  <1> SUFFICES ASSUME NEW k \in Keys
               PROVE /\ k.lane = "post" /\ item'[k].state \in J!Open =>
                          post'[k.pos].kind # "chatter" /\ reason'[k] \in {"live"} \cup Historical
                     /\ k.lane = "attention" =>
                          /\ reason'[k] \in {"none", "attention"}
                          /\ item'[k].state # "absent" => post'[k.pos].kind = "chatter"
    BY DEF Rows, State
  <1>1. k.pos \in Posts
    BY KeysAre
  <1>2. Exists(k.pos) => post'[k.pos].kind = post[k.pos].kind
    BY <1>1, PostStep
  <1>3. \A p : ReasonOf(p) \in {"live"} \cup Historical
    BY DEF ReasonOf, Historical
  <1>4. AdmitPage /\ k \in Arriving => k.lane = "post"
    BY AdmitAt, PageAt
  <1>5. ASSUME k.lane = "post", item'[k].state \in J!Open
        PROVE  post'[k.pos].kind # "chatter" /\ reason'[k] \in {"live"} \cup Historical
    <2>1. CASE State(k) \in J!Open
      <3>1. State(k) # "absent"
        BY <2>1 DEF J!Open, J!Waiting
      <3>2. /\ post[k.pos].kind # "chatter" /\ reason[k] \in {"live"} \cup Historical
            /\ Exists(k.pos)
        BY <1>5, <2>1, <3>1, RowsAt
      <3>3. reason'[k] \in {"live"} \cup Historical
        BY <1>3, <1>5, <3>2, ReasonStep DEF Historical
      <3> QED BY <1>2, <3>2, <3>3
    <2>2. CASE State(k) = "absent"
      <3>1. item'[k].state # "absent"
        BY <1>5 DEF J!Open, J!Waiting
      <3>2. AdmitPage /\ k \in Arriving /\ Exists(k.pos)
        BY <1>5, <2>2, <3>1, AbsentStep
      <3>3. ~Skipped(k.pos) /\ reason'[k] = ReasonOf(k.pos)
        BY <1>5, <3>2, ArrivesAs
      <3>4. post[k.pos].kind # "chatter"
        BY <3>3 DEF Skipped
      <3> QED BY <1>2, <1>3, <3>2, <3>3, <3>4
    <2> QED BY <1>5, <2>1, <2>2, OpenStep
  <1>6. ASSUME k.lane = "attention"
        PROVE  /\ reason'[k] \in {"none", "attention"}
               /\ item'[k].state # "absent" => post'[k.pos].kind = "chatter"
    <2>1. reason[k] \in {"none", "attention"}
      BY <1>6, RowsAt
    <2>2. reason'[k] \in {"none", "attention"}
      BY <1>4, <1>6, <2>1, ReasonStep
    <2>3. ASSUME item'[k].state # "absent" PROVE post'[k.pos].kind = "chatter"
      <3>1. CASE State(k) # "absent"
        BY <1>2, <1>6, <3>1, RowsAt
      <3>2. CASE State(k) = "absent"
        BY <1>2, <1>4, <1>6, <2>3, <3>2, AbsentStep
      <3> QED BY <3>1, <3>2
    <2> QED BY <2>2, <2>3
  <1> QED BY <1>5, <1>6

-----------------------------------------------------------------------------
(* A dead process holds nothing *)

LEMMA UpStep ==
  ASSUME IInv, [Next]_vars, up' = "down"
  PROVE  Crash \/ Shutdown \/ (up = "down" /\ UNCHANGED <<drain, lane>>)
PROOF
  <1>1. ASSUME up # "down" PROVE Crash \/ Shutdown
    <2>1. ASSUME NEW d \in disp,
                 BuildFails(d) \/ Handed(d) \/ TurnStarts(d) \/ TurnEnds(d) \/ Hand(d)
          PROVE  UNCHANGED up
      BY <2>1 DEF BuildFails, Handed, TurnStarts, TurnEnds, Hand, volatile
    <2>2. ASSUME \/ Insert \/ Commit \/ Finalise \/ EarlierAck \/ OtherStarts \/ OtherEnds
                 \/ UNCHANGED vars \/ Nudge \/ OperatorRetry \/ OperatorDismiss \/ PruneOld
          PROVE  UNCHANGED up
      BY <2>2 DEF Insert, Commit, Finalise, EarlierAck, OtherStarts, OtherEnds, vars, Nudge,
                  OperatorRetry, OperatorDismiss, PruneOld, volatile
    <2>3. ASSUME Draining \/ DispatchNext \/ Ready \/ Snooze \/ Start PROVE up' # "down"
      <3>1. ASSUME AckSettle PROVE up' # "down"
        BY <1>1, <3>1, SettleAt
      <3>2. ASSUME DispatchNext PROVE up' # "down"
        BY <1>1, <3>2, DispatchAt
      <3> QED
        BY <1>1, <2>3, <3>1, <3>2
           DEF Draining, NewSource, AdoptPointer, DrainBegin, DrainFresh, DrainRead, DrainFails,
               AdmitPage, DispatchDone, AckReaches, AckReply, AckFails, Ready, Snooze, Start, volatile
    <2> QED BY <1>1, <2>1, <2>2, <2>3, Steps DEF Elsewhere, Draining
  <1>2. ASSUME up = "down" PROVE UNCHANGED <<drain, lane>>
    <2>1. disp = {} /\ running = 0 /\ Cardinality(StartedOf(disp)) = 0
      <3>1. disp = {} /\ running = 0
        BY <1>2 DEF IInv, Intake, Alive
      <3>2. StartedOf(disp) = {}
        BY <3>1 DEF StartedOf
      <3> QED BY <3>1, <3>2, FS_EmptySet
    <2>2. ~OtherEnds
      BY <2>1 DEF OtherEnds, StartedOf
    <2>3. ~Draining /\ ~DispatchNext /\ ~Start /\ ~Crash /\ ~Shutdown /\ ~OtherStarts
      BY <1>2
         DEF Draining, NewSource, AdoptPointer, DrainBegin, DrainFresh, DrainRead, DrainFails,
             AdmitPage, DispatchDone, AckSettle, AckReaches, AckReply, AckFails, DispatchNext,
             Locked, Start, Crash, Shutdown, Dies, OtherStarts
    <2>4. \/ Insert \/ Commit \/ Finalise \/ EarlierAck \/ Ready \/ Snooze
          \/ UNCHANGED vars \/ Nudge \/ OperatorRetry \/ OperatorDismiss \/ PruneOld
      BY <2>1, <2>2, <2>3, Steps DEF Elsewhere, Draining
    <2> QED
      BY <2>4 DEF Insert, Commit, Finalise, EarlierAck, Ready, Snooze, vars, Nudge, OperatorRetry,
                  OperatorDismiss, PruneOld, volatile
  <1> QED BY <1>1, <1>2

LEMMA AliveStep == ASSUME IInv, [Next]_vars PROVE Alive'
PROOF
  <1>1. ASSUME up' = "down" PROVE drain' = Idle /\ disp' = {} /\ inflight' = {} /\ running' = 0
    <2>1. CASE Crash \/ Shutdown
      BY <2>1, ResetsAt DEF Resets, Reset
    <2>2. CASE up = "down" /\ UNCHANGED <<drain, lane>>
      BY <2>2 DEF IInv, Intake, Alive, lane
    <2> QED BY <1>1, <2>1, <2>2, UpStep
  <1>2. source'[ch].state \in {"none", "active"}
    BY SourceAt, NewSourceAt DEF IInv, Intake, Alive
  <1>3. ASSUME source'[ch].state = "none" PROVE drain'.phase = "idle" /\ start' = 0
    <2>1. ~NewSource
      BY <1>3, NewSourceAt
    <2>2. source[ch].state = "none" /\ start' = start
      BY <1>3, <2>1, SourceAt
    <2>3. drain.phase = "idle" /\ start = 0
      BY <2>2 DEF IInv, Intake, Alive
    <2>4. UNCHANGED drain \/ DrainAt(drain', "idle", 0, 0)
      BY <2>1, <2>2, <2>3, DrainMoves
         DEF DrainBegin, DrainFresh, DrainRead, AdmitPage, DispatchDone, AckSettle, AckReaches, Locked
    <2> QED BY <2>2, <2>3, <2>4 DEF DrainAt
  <1> QED BY <1>1, <1>2, <1>3 DEF Alive

-----------------------------------------------------------------------------
(* A drain reads on where its cursor is *)

LEMMA AdmitCursor ==
  ASSUME IInv, AdmitPage
  PROVE  /\ Cursor' = NewCursor /\ source'[ch].state = source[ch].state
         /\ source'[ch].settled = source[ch].settled
PROOF
  <1>1. Arrives(Arriving, NewCursor) /\ Locked("page")
    BY AdmitAt
  <1>2. source \in [{ch} -> J!SourceRow] /\ Cursor \in Nat
    BY Cursors, Bounds DEF Cursor
  <1>3. NewCursor \in Nat /\ Cursor <= NewCursor
    BY <1>1, PageAt, Bounds
  <1> HIDE DEF NewCursor
  <1>4. source'[ch] = [source[ch] EXCEPT !.enumerated = J!Larger(@, NewCursor)]
    BY <1>1, <1>2 DEF Arrives
  <1>5. /\ source'[ch].state = source[ch].state
        /\ source'[ch].settled = source[ch].settled
        /\ source'[ch].enumerated = J!Larger(Cursor, NewCursor)
    BY <1>2, <1>4 DEF J!SourceRow, Cursor
  <1>6. J!Larger(Cursor, NewCursor) = NewCursor
    BY <1>2, <1>3 DEF J!Larger
  <1> QED BY <1>5, <1>6 DEF Cursor

\* The page a server answers with shows all there is up to its last post.
LEMMA PageWhole ==
  ASSUME IInv, NEW p \in Posts, NEW q \in PageSeen,
         drain.after < p, p <= q, Visible(p)
  PROVE  p \in PageSeen
PROOF
  <1>1. q \in Posts /\ Visible(q) /\ q \in Newer /\ Cardinality({x \in Newer : x <= q}) <= PageSize
    BY DEF PageSeen, Newer
  <1>3. p \in Nat /\ q \in Nat
    BY <1>1, Bounds
  <1>6. p \in Newer
    <2>1. drain.after \in Nat
      BY DrainTyped, Bounds
    <2> QED BY <1>3, <2>1 DEF Newer
  <1> DEFINE A == {x \in Newer : x <= p}
             B == {x \in Newer : x <= q}
  <1>7. A \in SUBSET B
    <2>1. \A x \in Newer : x \in Nat
      BY Bounds DEF Newer
    <2> QED BY <1>3, <2>1
  <1>8. B \in SUBSET Posts
    BY DEF Newer
  <1>9. Cardinality(B) <= PageSize
    BY <1>1
  <1>10. Cardinality(A) <= PageSize
    <2> HIDE DEF A, B
    <2>1. IsFiniteSet(B)
      BY <1>8, KeysFinite, FS_Subset
    <2>2. IsFiniteSet(A) /\ Cardinality(A) <= Cardinality(B)
      BY <1>7, <2>1, FS_Subset
    <2>3. Cardinality(A) \in Nat /\ Cardinality(B) \in Nat
      BY <2>1, <2>2, FS_CardinalityType
    <2> QED BY <1>9, <2>2, <2>3, Bounds
  <1> QED BY <1>6, <1>10 DEF PageSeen

LEMMA ReadingAt ==
  ASSUME IInv, [Next]_vars, drain'.phase \in {"read", "page"}
  PROVE  \/ UNCHANGED drain /\ Cursor' = Cursor /\ drain.phase \in {"read", "page"}
         \/ DrainRead /\ Cursor' = Cursor
         \/ AdmitPage /\ Again
         \/ DrainAt(drain', "read", Cursor, Cursor) /\ Cursor' = Cursor
PROOF
  <1>1. CASE UNCHANGED drain
    <2>1. drain.phase \in {"read", "page"}
      BY <1>1
    <2>2. ~NewSource
      BY <2>1 DEF NewSource, Locked
    <2>3. ~AdmitPage
      <3> SUFFICES ASSUME AdmitPage PROVE FALSE
        OBVIOUS
      <3>1. drain.phase = "page"
        BY DEF AdmitPage, Locked
      <3>2. drain'.phase \in {"read", "dispatch"}
        BY AdmitDrainAt DEF DrainAt
      <3> QED BY <1>1, <3>1, <3>2
    <2> QED BY <1>1, <2>1, <2>2, <2>3, SourceAt
  <1>2. CASE DrainRead
    <2>1. Cursor' = Cursor
      BY <1>2 DEF DrainRead, journal, Cursor
    <2> QED BY <1>2, <2>1
  <1>3. CASE (DrainBegin \/ DrainFresh) /\ DrainAt(drain', "read", Cursor, Cursor)
    <2>1. Cursor' = Cursor
      BY <1>3 DEF DrainBegin, DrainFresh, journal, Cursor
    <2> QED BY <1>3, <2>1
  <1> QED BY <1>1, <1>2, <1>3, DrainMoves, AckReachesAt DEF DrainAt

LEMMA ReadingStep == ASSUME IInv, [Next]_vars PROVE Reading'
PROOF
  <1>1. ASSUME drain'.phase \in {"read", "page"}
        PROVE  /\ drain'.cursor = Cursor' /\ Cursor' <= drain'.after
               /\ drain'.held \/ drain'.after = Cursor'
    <2>1. drain.phase \in {"read", "page"} =>
            /\ drain.cursor = Cursor /\ Cursor <= drain.after
            /\ drain.held \/ drain.after = Cursor
      BY DEF IInv, Intake, Reading
    <2>2. CASE UNCHANGED drain /\ Cursor' = Cursor /\ drain.phase \in {"read", "page"}
      BY <2>1, <2>2
    <2>3. CASE DrainRead /\ Cursor' = Cursor
      BY <2>1, <2>3, DrainReadAt
    <2>4. CASE AdmitPage /\ Again
      <3>1. Locked("page") /\ Cursor' = NewCursor
        BY <2>4, AdmitCursor DEF AdmitPage
      <3>2. /\ NewCursor <= Max(drain.seen)
            /\ ~drain.held /\ Held = {} => NewCursor = Max(drain.seen)
        BY <2>4, <3>1, AgainAt
      <3>3. /\ drain'.after = Max(drain.seen) /\ drain'.cursor = NewCursor
            /\ drain'.held = (drain.held \/ Held # {})
        BY <2>4, AdmitDrainAt
      <3> QED BY <3>1, <3>2, <3>3
    <2>5. CASE DrainAt(drain', "read", Cursor, Cursor) /\ Cursor' = Cursor
      <3>1. Cursor <= Cursor
        <4>1. \A n \in Posn : n <= n
          BY Bounds
        <4> QED BY <4>1, DrainTyped
      <3> QED BY <2>5, <3>1 DEF DrainAt
    <2> QED BY <1>1, <2>2, <2>3, <2>4, <2>5, ReadingAt
  <1>2. ASSUME drain'.phase = "page"
        PROVE  /\ \A p \in drain'.seen : drain'.after < p
               /\ \A p \in Posts \ overtaken', q \in drain'.seen :
                    drain'.after < p /\ p <= q /\ Visible(p)' => p \in drain'.seen
    <2>1. CASE UNCHANGED drain /\ Cursor' = Cursor /\ drain.phase \in {"read", "page"}
      <3>1. /\ \A p \in drain.seen : drain.after < p
            /\ \A p \in Posts \ overtaken, q \in drain.seen :
                 drain.after < p /\ p <= q /\ Visible(p) => p \in drain.seen
        BY <1>2, <2>1 DEF IInv, Intake, Reading
      <3>2. ASSUME NEW p \in Posts \ overtaken', NEW q \in drain.seen,
                   drain.after < p, p <= q, Visible(p)'
            PROVE  p \in drain.seen
        <4>1. Visible(p)
          BY <3>2, ReachedOf, LateIsOvertaken
        <4>2. p \notin overtaken
          BY <3>2, PostStep
        <4> QED BY <3>1, <3>2, <4>1, <4>2
      <3> QED BY <2>1, <3>1, <3>2
    <2>2. CASE DrainRead
      <3>1. drain'.seen = PageSeen /\ drain'.after = drain.after /\ UNCHANGED post
        BY <2>2, DrainReadAt DEF DrainRead, server
      <3>2. \A p \in PageSeen : drain.after < p
        <4>1. drain.after \in Nat
          BY DrainTyped, Bounds
        <4> QED BY <4>1, Bounds DEF PageSeen, Newer
      <3>3. \A p \in Posts : Visible(p)' <=> Visible(p)
        BY <3>1 DEF Visible
      <3> QED BY <3>1, <3>2, <3>3, PageWhole
    <2>3. CASE AdmitPage /\ Again
      BY <1>2, <2>3, AdmitDrainAt
    <2>4. CASE DrainAt(drain', "read", Cursor, Cursor)
      BY <1>2, <2>4 DEF DrainAt
    <2> QED BY <1>2, <2>1, <2>2, <2>3, <2>4, ReadingAt
  <1> QED BY <1>1, <1>2 DEF Reading

-----------------------------------------------------------------------------
(* No post is passed over *)

LEMMA AccountedStep ==
  ASSUME IInv, [Next]_vars, NEW p \in Posts, Accounted(p)
  PROVE  Accounted(p)'
PROOF
  <1> DEFINE k == PostKey(p)
  <1>1. k \in Keys /\ (State(k) # "absent" \/ k \in pruned)
    BY KeysAre DEF Accounted, State
  <1> HIDE DEF k
  <1>2. item'[k].state # "absent" \/ k \in pruned'
    <2>1. CASE AdmitPage
      BY <1>1, <2>1, AdmitAt DEF Arrives
    <2>2. CASE Nudge
      BY <1>1, <2>2, NudgeAt DEF Arrives
    <2>3. CASE PruneOld
      BY <1>1, <2>3, PruneAt DEF Prunes
    <2>4. CASE \E K \in SUBSET Keys, S \in SUBSET (J!Open \cup J!FINAL) : Moves(K, S)
      BY <1>1, <2>4 DEF Moves, J!Open, J!FINAL, J!Waiting
    <2>5. CASE NewSource \/ AdoptPointer \/ AckReply \/ AckSettle
      BY <1>1, <2>5, NewSourceAt, AckAt, SettleAt DEF State
    <2> QED BY <2>1, <2>2, <2>3, <2>4, <2>5, ItemsAt
  <1> QED BY <1>2 DEF k, Accounted

\* What the page's cursor passes has a row then.
LEMMA PassedHasRow ==
  ASSUME IInv, AdmitPage, NEW p \in Posts \ overtaken, Cursor < p, p <= NewCursor, Visible(p)
  PROVE  Accounted(p)'
PROOF
  <1>1. Locked("page") /\ drain.phase = "page"
    BY DEF AdmitPage, Locked
  <1>2. Cursor \in Nat /\ NewCursor \in Nat /\ p \in Nat
    <2>1. Cursor \in Posn /\ NewCursor \in Posn
      BY <1>1, PageAt, DrainTyped
    <2> QED BY <2>1, Bounds
  <1>3. NewCursor # Cursor
    BY <1>2
  <1>4. /\ NewCursor \in Taken /\ ~drain.held /\ drain.after = Cursor
        /\ \A q \in Held \cap Taken : NewCursor < q
    BY <1>1, <1>3, PageAt
  <1>5. NewCursor \in drain.seen
    BY <1>1, <1>4, PageAt
  <1>6. p \in drain.seen
    BY <1>1, <1>4, <1>5 DEF IInv, Intake, Reading
  <1>7. p \in Taken
    BY <1>1, <1>4, <1>5, <1>6, PageAt
  <1>8. p \notin Held
    <2> SUFFICES ASSUME p \in Held PROVE FALSE
      OBVIOUS
    <2>1. NewCursor < p
      BY <1>4, <1>7
    <2> QED BY <1>2, <2>1
  <1>9. Arrives(Arriving, NewCursor) /\ PostKey(p) \in Keys
    BY AdmitAt, KeysAre
  <1>10. CASE p \in Fresh
    <2>1. PostKey(p) \in Arriving
      BY <1>7, <1>8, <1>10 DEF Arriving, NewRows
    <2>2. item'[PostKey(p)].state \in {"pending", "ignored"}
      BY <1>9, <2>1 DEF Arrives
    <2> QED BY <2>2 DEF Accounted
  <1>11. CASE p \notin Fresh
    <2>1. State(PostKey(p)) # "absent"
      BY <1>6, <1>11 DEF Fresh
    <2>2. item'[PostKey(p)].state # "absent"
      BY <1>9, <2>1 DEF Arrives
    <2> QED BY <2>2 DEF Accounted
  <1> QED BY <1>10, <1>11

LEMMA NoneSkippedStep == ASSUME IInv, [Next]_vars PROVE NoPostSkipped'
PROOF
  <1> SUFFICES ASSUME NEW p \in Posts, p \notin overtaken', start' < p, p <= Cursor', Visible(p)'
               PROVE  Accounted(p)'
    BY DEF NoPostSkipped
  <1>0. p \notin overtaken
    BY PostStep
  <1>1. start < p /\ p <= Cursor /\ Visible(p) => Accounted(p)
    BY <1>0 DEF IInv, Intake, NoPostSkipped
  <1>2. ~NewSource
    <2> SUFFICES ASSUME NewSource PROVE FALSE
      OBVIOUS
    <2>1. PICK from \in Posn : source'[ch].enumerated = from /\ start' = from
      BY NewSourceAt
    <2>2. from \in Nat /\ p \in Nat /\ from < p /\ p <= from
      BY <2>1, Bounds DEF Cursor
    <2> QED BY <2>2
  <1>3. start' = start /\ (Cursor' = Cursor \/ (AdmitPage /\ Cursor' = NewCursor))
    BY <1>2, SourceAt
  <1>4. p \in Nat /\ Cursor \in Nat
    <2>1. Cursor \in Posn
      BY DrainTyped
    <2> QED BY <2>1, Bounds
  <1>5. CASE p <= Cursor
    <2>1. Visible(p)
      <3>1. PICK q \in Posts : Committed(q) /\ Cursor <= q
        <4>1. ~(Cursor <= 0)
          BY <1>4, <1>5, Bounds
        <4> QED BY <4>1, ReachedOf DEF Reached
      <3>2. p <= q
        BY <1>4, <1>5, <3>1, Bounds
      <3> QED BY <3>1, <3>2, LateIsOvertaken
    <2> QED BY <1>1, <1>3, <1>5, <2>1, AccountedStep
  <1>6. CASE ~(p <= Cursor)
    <2>1. AdmitPage /\ p <= NewCursor /\ Cursor < p
      BY <1>3, <1>4, <1>6
    <2>2. Visible(p)
      BY <2>1 DEF AdmitPage, server, Visible
    <2> QED BY <1>0, <2>1, <2>2, PassedHasRow
  <1> QED BY <1>5, <1>6

-----------------------------------------------------------------------------
(* The server is told what is settled *)

LEMMA AckingStep == ASSUME IInv, [Next]_vars PROVE Acking'
PROOF
  <1> SUFFICES ASSUME source'[ch].state # "none"
               PROVE  /\ start' <= source'[ch].settled /\ readPtr' <= source'[ch].settled
                      /\ drain'.phase \in {"adopt", "acking", "acked"} =>
                           drain'.cursor <= source'[ch].settled
    BY DEF Acking
  <1>1. CASE NewSource
    <2>1. PICK from \in Posn :
             /\ drain.phase = "idle" /\ source'[ch].settled = from /\ start' = from
             /\ readPtr <= from /\ UNCHANGED server
             /\ drain' \in {drain, [Idle EXCEPT !.phase = "adopt", !.cursor = from]}
      BY <1>1, NewSourceAt
    <2>2. "adopt" \in Phases
      BY DEF Phases
    <2>3. DrainAt([Idle EXCEPT !.phase = "adopt", !.cursor = from], "adopt", 0, from)
      BY <2>2, IdleIs
    <2>4. drain'.phase = "idle" \/ drain'.cursor = from
      BY <2>1, <2>3 DEF DrainAt
    <2>5. from <= from
      BY Bounds
    <2> QED BY <2>1, <2>4, <2>5 DEF server
  <1>2. CASE ~NewSource
    <2>1. /\ source[ch].state # "none" /\ start' = start
          /\ source[ch].settled <= source'[ch].settled
      BY <1>2, SourceAt
    <2>2. /\ start <= source[ch].settled /\ readPtr <= source[ch].settled
          /\ drain.phase \in {"adopt", "acking", "acked"} => drain.cursor <= source[ch].settled
      BY <2>1 DEF IInv, Intake, Acking
    <2>3. /\ source[ch].settled \in Int /\ start \in Int /\ readPtr \in Int /\ drain.cursor \in Int
      <3>1. source[ch].settled \in Posn /\ start \in Posn /\ readPtr \in {NoPtr} \cup Posn
            /\ drain.cursor \in Posn
        BY Cursors, DrainTyped DEF IInv, Intake, Typed
      <3> QED BY <3>1, Bounds DEF NoPtr
    <2>4. source'[ch].settled \in Int
      <3>1. J!TypeOK'
        BY JournalInv, SameJournal DEF JP!IInv, J!TypeOK, JP!TypeOK, J!SourceRow, JP!SourceRow,
           J!ItemRow, JP!ItemRow, J!Keys, JP!Keys, J!Pos, JP!Pos, J!FINAL, JP!FINAL, J!Open,
           JP!Open, J!Waiting, JP!Waiting
      <3>2. source'[ch].settled \in J!Pos
        BY <3>1 DEF J!TypeOK, J!SourceRow
      <3> QED BY <3>2 DEF J!Pos
    <2> DEFINE a == source[ch].settled
               b == source'[ch].settled
    <2>5. a \in Int /\ b \in Int /\ a <= b
      BY <2>1, <2>3, <2>4
    <2>6. start <= a /\ readPtr <= a
          /\ (drain.phase \in {"adopt", "acking", "acked"} => drain.cursor <= a)
      BY <2>2
    <2> SUFFICES /\ start' <= b /\ readPtr' <= b
                 /\ drain'.phase \in {"adopt", "acking", "acked"} => drain'.cursor <= b
      OBVIOUS
    <2> HIDE DEF a, b
    <2>7. start' <= b
      BY <2>1, <2>3, <2>5, <2>6
    <2>8. readPtr' <= b
      <3>1. ~EarlierAck
        BY <2>1 DEF EarlierAck
      <3>2. CASE AckReaches
        <4>1. /\ drain.phase = "acking"
              /\ readPtr' = readPtr \/ (readPtr' <= drain.cursor /\ readPtr' \in Posts)
          BY <3>2, AckReachesAt
        <4>2. drain.cursor <= a
          BY <2>6, <4>1
        <4>3. CASE readPtr' = readPtr
          BY <2>3, <2>5, <2>6, <4>3
        <4>4. CASE readPtr' <= drain.cursor /\ readPtr' \in Posts
          <5>1. readPtr' \in Int
            BY <4>4, Bounds
          <5> QED BY <2>3, <2>5, <4>2, <4>4, <5>1
        <4> QED BY <4>1, <4>3, <4>4
      <3>3. CASE UNCHANGED readPtr
        BY <2>3, <2>5, <2>6, <3>3
      <3> QED BY <3>1, <3>2, <3>3, PtrSame
    <2>9. ASSUME drain'.phase \in {"adopt", "acking", "acked"} PROVE drain'.cursor <= b
      <3>1. CASE UNCHANGED drain
        BY <2>3, <2>5, <2>6, <2>9, <3>1
      <3>2. CASE AckReaches
        BY <2>3, <2>5, <2>6, <3>2, AckReachesAt
      <3>3. CASE AckSettle /\ DrainAt(drain', "acking", 0, source'[ch].settled)
        BY <2>5, <3>3 DEF DrainAt, b
      <3>4. CASE AdmitPage /\ Again
        BY <2>9, <3>4, AdmitDrainAt
      <3>5. CASE DrainRead
        BY <2>9, <3>5, DrainReadAt
      <3> QED BY <1>2, <2>9, <3>1, <3>2, <3>3, <3>4, <3>5, DrainMoves DEF DrainAt
    <2> QED BY <2>7, <2>8, <2>9
  <1> QED BY <1>1, <1>2

-----------------------------------------------------------------------------
(* A dispatch holds its rows alone *)

LEMMA OwningIs ==
  ASSUME IInv
  PROVE  /\ Owning /\ Counting /\ Unhanded
         /\ \A d \in disp : d \in Dispatches /\ d.items \in SUBSET Keys
PROOF BY HeldRows DEF IInv, Intake, Handing

LEMMA BesideHeld ==
  ASSUME IInv, LaneBeside \/ OtherStarts \/ OtherEnds
  PROVE  /\ UNCHANGED disp
         /\ \A d \in disp : \A k \in d.items : item'[k].state = "processing"
PROOF
  <1>1. UNCHANGED disp
    BY LaneBesideAt DEF lane, OtherStarts, OtherEnds
  <1>2. ASSUME NEW d \in disp, NEW k \in d.items PROVE item'[k].state = "processing"
    <2>1. k \in Keys /\ State(k) = "processing"
      BY HeldRows
    <2>2. CASE UNCHANGED item
      BY <2>1, <2>2 DEF State
    <2>3. CASE Insert \/ Commit \/ Finalise \/ EarlierAck \/ Ready \/ Snooze \/ UNCHANGED vars
               \/ OtherStarts \/ OtherEnds
      BY <2>2, <2>3 DEF Insert, Commit, Finalise, EarlierAck, Ready, Snooze, vars, journal,
                        OtherStarts, OtherEnds
    <2>4. CASE AdmitPage
      BY <2>1, <2>4, AdmitAt DEF Arrives
    <2>5. CASE Draining /\ ~AdmitPage
      BY <2>2, <2>5, NewSourceAt, AckAt, SettleAt
         DEF Draining, DrainBegin, DrainFresh, DrainRead, DrainFails, DispatchDone, AckReaches,
             AckFails, journal
    <2>6. CASE Nudge
      BY <2>1, <2>6, NudgeAt DEF Arrives
    <2>7. CASE OperatorRetry
      <3>1. PICK j \in Keys : Moves({j}, {"pending"}) /\ State(j) = "needs_review"
        BY <2>7, RetryAt
      <3> QED BY <2>1, <3>1 DEF Moves
    <2>8. CASE OperatorDismiss
      <3>1. PICK j \in Keys : Moves({j}, {"ignored"}) /\ State(j) = "needs_review"
        BY <2>8, DismissAt
      <3> QED BY <2>1, <3>1 DEF Moves
    <2>9. CASE PruneOld
      BY <2>1, <2>9, PruneAt DEF Prunes, J!FINAL
    <2> QED BY <1>2, <2>3, <2>4, <2>5, <2>6, <2>7, <2>8, <2>9 DEF LaneBeside
  <1> QED BY <1>1, <1>2

LEMMA OwningStep == ASSUME IInv, [Next]_vars PROVE Owning'
PROOF
  <1>1. /\ \A d \in disp : d.items # {} /\ d.items \in SUBSET Keys
                           /\ \A k \in d.items : State(k) = "processing"
        /\ \A d, e \in disp : d # e => d.items \cap e.items = {}
    BY OwningIs DEF Owning
  <1>2. CASE LaneBeside \/ OtherStarts \/ OtherEnds
    <2>1. UNCHANGED disp /\ \A d \in disp : \A k \in d.items : item'[k].state = "processing"
      BY <1>2, BesideHeld
    <2> QED BY <1>1, <2>1 DEF Owning, State
  <1>3. CASE Resets
    BY <1>3, ResetsAt DEF Reset, Owning
  <1>4. CASE DispatchNext
    <2>1. PICK K \in SUBSET Keys : Ignores(K) \/ \E e \in Dispatches : Takes(K, e)
      BY <1>4, DispatchAt DEF Dispatched
    <2>2. \A k \in K : State(k) \in J!Waiting /\ State(k) # "processing"
      BY <2>1 DEF Ignores, Takes, J!Waiting
    <2>3. CASE Ignores(K)
      <3>1. \A d \in disp : \A k \in d.items : item'[k].state = "processing"
        BY <1>1, <2>2, <2>3 DEF Ignores, Moves
      <3> QED BY <1>1, <2>3, <3>1 DEF Ignores, Owning, State
    <2>4. ASSUME NEW e \in Dispatches, Takes(K, e) PROVE Owning'
      <3>1. disp' = disp \cup {e} /\ e.items = K /\ K # {}
        BY <2>4 DEF Takes
      <3>2. \A k \in Keys : IF k \in K THEN item'[k].state = "processing"
                            ELSE item'[k].state = State(k)
        BY <2>4 DEF Takes, Moves
      <3>3. \A d \in disp : \A k \in d.items : item'[k].state = "processing" /\ k \notin K
        BY <1>1, <2>2, <3>2
      <3>4. \A k \in e.items : item'[k].state = "processing"
        BY <3>1, <3>2
      <3>5. \A d \in disp : d.items \cap e.items = {}
        BY <3>1, <3>3
      <3>6. \A d \in disp' : d.items # {} /\ \A k \in d.items : item'[k].state = "processing"
        BY <1>1, <3>1, <3>3, <3>4
      <3>7. \A d, f \in disp' : d # f => d.items \cap f.items = {}
        <4> SUFFICES ASSUME NEW d \in disp', NEW f \in disp', d # f PROVE d.items \cap f.items = {}
          OBVIOUS
        <4>1. CASE d \in disp /\ f \in disp
          BY <1>1, <4>1
        <4>2. CASE d = e
          <5>1. f \in disp
            BY <3>1, <4>2
          <5> QED BY <3>5, <4>2, <5>1
        <4>3. CASE f = e
          <5>1. d \in disp
            BY <3>1, <4>3
          <5> QED BY <3>5, <4>3, <5>1
        <4> QED BY <3>1, <4>1, <4>2, <4>3
      <3> QED BY <3>6, <3>7 DEF Owning, State
    <2> QED BY <2>1, <2>3, <2>4
  <1>5. ASSUME NEW d \in disp, Settles(d) PROVE Owning'
    <2>1. PICK K \in {{}, d.items},
               S \in SUBSET (J!FINAL \cup {"needs_review", "retry_wait"}) : Moves(K, S)
      BY <1>5 DEF Settles
    <2>2. disp' = disp \ {d}
      BY <1>5 DEF Settles
    <2>3. \A e \in disp' : \A k \in e.items : k \notin K
      BY <1>1, <2>2
    <2>4. \A e \in disp' : \A k \in e.items : item'[k].state = "processing"
      BY <1>1, <2>1, <2>2, <2>3 DEF Moves
    <2> QED BY <1>1, <2>2, <2>4 DEF Owning, State
  <1>6. ASSUME NEW d \in disp, NEW e, Renews(d, e) PROVE Owning'
    <2>1. disp' = (disp \ {d}) \cup {e} /\ e.items = d.items /\ UNCHANGED item
      BY <1>6 DEF Renews, journal
    <2>2. \A f \in disp' : \E g \in disp : f.items = g.items
      BY <2>1
    <2>3. \A f \in disp' : f.items # {} /\ \A k \in f.items : item'[k].state = "processing"
      BY <1>1, <2>1, <2>2 DEF State
    <2>4. \A f, g \in disp' : f # g => f.items \cap g.items = {}
      BY <1>1, <2>1
    <2> QED BY <2>3, <2>4 DEF Owning, State
  <1>7. ASSUME NEW d \in disp,
               BuildFails(d) \/ Hand(d) \/ Handed(d) \/ TurnStarts(d) \/ TurnEnds(d)
        PROVE  Owning'
    BY <1>5, <1>6, <1>7, BuildFailsAt, HandAt, HandedAt, TurnStartsAt, TurnEndsAt
  <1> QED BY <1>2, <1>3, <1>4, <1>7, LaneSteps

-----------------------------------------------------------------------------
(* A row that waits has a turn left *)

LEMMA AbsentBefore ==
  ASSUME IInv, [Next]_vars, NEW k \in Keys, item'[k].state = "absent", k \notin pruned'
  PROVE  State(k) = "absent" /\ k \notin pruned
PROOF
  <1>1. CASE AdmitPage
    BY <1>1, AdmitAt DEF Arrives
  <1>2. CASE Nudge
    BY <1>2, NudgeAt DEF Arrives
  <1>3. CASE PruneOld
    BY <1>3, PruneAt DEF Prunes
  <1>4. CASE \E K \in SUBSET Keys, S \in SUBSET (J!Open \cup J!FINAL) : Moves(K, S)
    BY <1>4 DEF Moves, J!Open, J!FINAL, J!Waiting
  <1>5. CASE NewSource \/ AdoptPointer \/ AckReply \/ AckSettle
    BY <1>5, NewSourceAt, AckAt, SettleAt DEF State
  <1> QED BY <1>1, <1>2, <1>3, <1>4, <1>5, ItemsAt

\* A row comes to wait only when it is new, was never handed over, or is put back.
LEMMA WaitStep ==
  ASSUME IInv, [Next]_vars, NEW k \in Keys, item'[k].state \in J!Waiting
  PROVE  Nudge \/ OperatorRetry \/ turns[k] <= retried[k]
PROOF
  <1>0. /\ State(k) \in J!Waiting => turns[k] <= retried[k]
        /\ k.lane = "post" /\ State(k) = "absent" /\ k \notin pruned => turns[k] <= retried[k]
        /\ \A d \in disp : d.stage = "building" => \A j \in d.items : turns[j] <= retried[j]
    BY OwningIs DEF Counting, Unhanded
  <1>1. ASSUME UNCHANGED item PROVE turns[k] <= retried[k]
    BY <1>0, <1>1 DEF State
  <1>2. ASSUME NEW K, NEW S, Moves(K, S), S \cap J!Waiting = {} PROVE turns[k] <= retried[k]
    <2>1. k \notin K
      BY <1>2 DEF Moves
    <2>2. State(k) \in J!Waiting
      BY <1>2, <2>1 DEF Moves
    <2> QED BY <1>0, <2>2
  <1>3. CASE Elsewhere \/ NewSource \/ AdoptPointer \/ AckReply \/ AckSettle
    BY <1>1, <1>3, ElsewhereAt, NewSourceAt, AckAt, SettleAt DEF journal
  <1>4. CASE Start
    <2>1. {"needs_review"} \cap J!Waiting = {}
      BY DEF J!Waiting
    <2> QED BY <1>2, <1>4, <2>1, StartAt
  <1>5. CASE Shutdown
    <2>1. PICK K \in SUBSET Keys :
              /\ Moves(K, {"retry_wait"})
              /\ \A j \in K : \E d \in disp : d.stage = "building" /\ j \in d.items
      BY <1>5, ShutdownAt
    <2>2. CASE k \in K
      BY <1>0, <2>1, <2>2
    <2>3. CASE k \notin K
      BY <1>0, <2>1, <2>3 DEF Moves
    <2> QED BY <2>2, <2>3
  <1>6. CASE AdmitPage
    <2>1. CASE k \in Arriving
      <3>1. k.lane = "post" /\ k \notin pruned /\ State(k) = "absent"
        BY <1>6, <2>1, AdmitAt, PageAt DEF Arrives
      <3> QED BY <1>0, <3>1
    <2>2. CASE k \notin Arriving
      <3>1. item'[k].state = State(k)
        BY <1>6, <2>2, AdmitAt DEF Arrives
      <3> QED BY <1>0, <3>1
    <2> QED BY <2>1, <2>2
  <1>7. CASE DispatchNext
    <2>1. PICK K \in SUBSET Keys : Moves(K, {"processing"}) \/ Moves(K, {"ignored"})
      BY <1>7, DispatchAt DEF Dispatched, Ignores, Takes
    <2>2. {"processing"} \cap J!Waiting = {} /\ {"ignored"} \cap J!Waiting = {}
      BY DEF J!Waiting
    <2> QED BY <1>2, <2>1, <2>2
  <1>8. ASSUME NEW d \in disp, Settles(d) PROVE turns[k] <= retried[k]
    <2>1. PICK K \in {{}, d.items},
               S \in SUBSET (J!FINAL \cup {"needs_review", "retry_wait"}) :
                 Moves(K, S) /\ ("retry_wait" \in S => d.stage = "building")
      BY <1>8 DEF Settles
    <2>2. CASE k \notin K
      BY <1>0, <2>1, <2>2 DEF Moves
    <2>3. CASE k \in K
      <3>1. item'[k].state \in S
        BY <2>1, <2>3 DEF Moves
      <3>2. d.stage = "building" /\ k \in d.items
        BY <2>1, <2>3, <3>1 DEF J!Waiting, J!FINAL
      <3> QED BY <1>0, <3>2
    <2> QED BY <2>2, <2>3
  <1>9. ASSUME NEW d \in disp, BuildFails(d) \/ Handed(d) \/ TurnEnds(d)
        PROVE  turns[k] <= retried[k]
    <2>1. Settles(d) \/ UNCHANGED journal
      BY <1>9, BuildFailsAt, HandedAt, TurnEndsAt DEF Renews
    <2> QED BY <1>1, <1>8, <2>1 DEF journal
  <1>10. CASE OperatorDismiss
    <2>1. PICK j \in Keys : Moves({j}, {"ignored"})
      BY <1>10, DismissAt
    <2>2. {"ignored"} \cap J!Waiting = {}
      BY DEF J!Waiting
    <2> QED BY <1>2, <2>1, <2>2
  <1>11. CASE PruneOld
    <2>1. item'[k].state = State(k)
      BY <1>11, PruneAt DEF Prunes, J!Waiting
    <2> QED BY <1>0, <2>1
  <1> QED BY <1>3, <1>4, <1>5, <1>6, <1>7, <1>9, <1>10, <1>11, Steps

LEMMA TurnsSame ==
  ASSUME IInv, [Next]_vars
  PROVE  (\E d \in disp : Hand(d)) \/ Nudge \/ OperatorRetry \/ UNCHANGED <<turns, retried>>
PROOF
  <1>1. ASSUME NEW d \in disp, BuildFails(d) \/ Handed(d) \/ TurnStarts(d) \/ TurnEnds(d)
        PROVE  UNCHANGED <<turns, retried>>
    BY <1>1 DEF BuildFails, Handed, TurnStarts, TurnEnds, history
  <1>2. ASSUME Insert \/ Commit \/ Finalise \/ EarlierAck \/ Crash \/ Ready \/ Snooze \/ OtherStarts
               \/ OtherEnds \/ UNCHANGED vars \/ OperatorDismiss
               \/ PruneOld \/ Start \/ Shutdown \/ DispatchNext
        PROVE  UNCHANGED <<turns, retried>>
    BY <1>2 DEF Insert, Commit, Finalise, EarlierAck, Crash, Ready, Snooze, OtherStarts, OtherEnds,
                vars, OperatorDismiss, PruneOld, Start, Shutdown, DispatchNext, history
  <1>3. ASSUME Draining PROVE UNCHANGED <<turns, retried>>
    BY <1>3 DEF Draining, NewSource, AdoptPointer, DrainBegin, DrainFresh, DrainRead, DrainFails,
                AdmitPage, DispatchDone, AckSettle, AckReaches, AckReply, AckFails, history
  <1> QED BY <1>1, <1>2, <1>3, Steps DEF Elsewhere, Draining

LEMMA CountingStep == ASSUME IInv, [Next]_vars PROVE Counting'
PROOF
  <1> SUFFICES ASSUME NEW k \in Keys
               PROVE  /\ turns'[k] <= 1 + retried'[k]
                      /\ item'[k].state \in J!Waiting => turns'[k] <= retried'[k]
                      /\ k.lane = "post" /\ item'[k].state = "absent" /\ k \notin pruned' =>
                           turns'[k] <= retried'[k]
    BY DEF Counting, State
  <1>1. /\ turns[k] <= 1 + retried[k]
        /\ State(k) \in J!Waiting => turns[k] <= retried[k]
        /\ k.lane = "post" /\ State(k) = "absent" /\ k \notin pruned => turns[k] <= retried[k]
    BY OwningIs DEF Counting
  <1>2. turns \in [Keys -> Nat] /\ retried \in [Keys -> Nat]
    BY DEF IInv, Intake, Typed
  <1>3. turns[k] \in Nat /\ retried[k] \in Nat
    BY <1>2
  <1>4. CASE UNCHANGED <<turns, retried>> /\ ~Nudge /\ ~OperatorRetry
    BY <1>1, <1>4, WaitStep, AbsentBefore
  <1>5. ASSUME NEW d \in disp, Hand(d)
        PROVE  /\ turns'[k] <= 1 + retried'[k]
               /\ item'[k].state \in J!Waiting => turns'[k] <= retried'[k]
               /\ k.lane = "post" /\ item'[k].state = "absent" /\ k \notin pruned' =>
                    turns'[k] <= retried'[k]
    <2>1. /\ d.stage = "building" /\ UNCHANGED journal /\ retried' = retried
          /\ turns'[k] = IF k \in d.items THEN turns[k] + 1 ELSE turns[k]
      BY <1>5, HandAt
    <2>2. item'[k].state = State(k) /\ pruned' = pruned
      BY <2>1 DEF journal, State
    <2>3. CASE k \in d.items
      <3>1. State(k) = "processing" /\ turns[k] <= retried[k]
        BY <2>1, <2>3, OwningIs DEF Owning, Unhanded
      <3> QED BY <1>3, <2>1, <2>2, <2>3, <3>1 DEF J!Waiting
    <2>4. CASE k \notin d.items
      BY <1>1, <2>1, <2>2, <2>4
    <2> QED BY <2>3, <2>4
  <1>6. CASE Nudge
    <2>1. PICK p \in Posts :
           /\ NudgeKey(p) \in Keys /\ Arrives({NudgeKey(p)}, Cursor)
           /\ turns' = [turns EXCEPT ![NudgeKey(p)] = 0]
           /\ retried' = [retried EXCEPT ![NudgeKey(p)] = 0]
      BY <1>6, NudgeAt
    <2>2. CASE k = NudgeKey(p)
      <3>1. turns'[k] = 0 /\ retried'[k] = 0
        BY <1>2, <2>1, <2>2
      <3> QED BY <3>1
    <2>3. CASE k # NudgeKey(p)
      <3>1. turns'[k] = turns[k] /\ retried'[k] = retried[k]
        BY <1>2, <2>1, <2>3
      <3>2. item'[k].state = State(k) /\ pruned' = pruned
        BY <2>1, <2>3 DEF Arrives
      <3> QED BY <1>1, <3>1, <3>2
    <2> QED BY <2>2, <2>3
  <1>7. CASE OperatorRetry
    <2>1. PICK j \in Keys : /\ Moves({j}, {"pending"})
                            /\ retried' = [retried EXCEPT ![j] = @ + 1] /\ UNCHANGED turns
      BY <1>7, RetryAt
    <2>2. CASE k = j
      <3>1. turns'[k] = turns[k] /\ retried'[k] = retried[k] + 1
        BY <1>2, <2>1, <2>2
      <3> QED BY <1>1, <1>3, <3>1
    <2>3. CASE k # j
      <3>1. turns'[k] = turns[k] /\ retried'[k] = retried[k]
        BY <1>2, <2>1, <2>3
      <3>2. item'[k].state = State(k) /\ pruned' = pruned
        BY <2>1, <2>3 DEF Moves
      <3> QED BY <1>1, <3>1, <3>2
    <2> QED BY <2>2, <2>3
  <1> QED BY <1>4, <1>5, <1>6, <1>7, TurnsSame

LEMMA UnhandedStep == ASSUME IInv, [Next]_vars PROVE Unhanded'
PROOF
  <1>1. /\ \A d \in disp : d.stage = "building" =>
                ~d.started /\ \A k \in d.items : turns[k] <= retried[k]
        /\ \A d \in disp : d.items \in SUBSET Keys /\ \A k \in d.items : State(k) = "processing"
        /\ \A d, e \in disp : d # e => d.items \cap e.items = {}
    BY OwningIs DEF Owning, Unhanded
  <1>2. turns \in [Keys -> Nat] /\ retried \in [Keys -> Nat]
    BY DEF IInv, Intake, Typed
  <1>3. CASE Nudge \/ OperatorRetry
    <2>1. UNCHANGED disp
      BY <1>3 DEF Nudge, OperatorRetry, lane
    <2>2. ASSUME NEW d \in disp, NEW k \in d.items, turns[k] <= retried[k]
          PROVE  turns'[k] <= retried'[k]
      <3>1. k \in Keys /\ turns[k] \in Nat /\ retried[k] \in Nat
        BY <1>1, <1>2
      <3>2. CASE Nudge
        <4>1. PICK p \in Posts :
               /\ turns' = [turns EXCEPT ![NudgeKey(p)] = 0]
               /\ retried' = [retried EXCEPT ![NudgeKey(p)] = 0]
          BY <3>2, NudgeAt
        <4> QED BY <1>2, <2>2, <3>1, <4>1
      <3>3. CASE OperatorRetry
        <4>1. PICK j \in Keys : retried' = [retried EXCEPT ![j] = @ + 1] /\ UNCHANGED turns
          BY <3>3, RetryAt
        <4> QED BY <1>2, <2>2, <3>1, <4>1
      <3> QED BY <1>3, <3>2, <3>3
    <2> QED BY <1>1, <2>1, <2>2 DEF Unhanded
  <1>4. ASSUME NEW d \in disp, Hand(d) PROVE Unhanded'
    <2>1. PICK e \in Dispatches : Renews(d, e)
      BY <1>4, HandAt
    <2>2. turns' = [k \in Keys |-> IF k \in d.items THEN turns[k] + 1 ELSE turns[k]]
          /\ retried' = retried
      BY <1>4, HandAt
    <2>3. \A f \in disp' : f.stage = "building" => f \in disp /\ f # d
      BY <2>1 DEF Renews
    <2>4. ASSUME NEW f \in disp', f.stage = "building"
          PROVE  ~f.started /\ \A k \in f.items : turns'[k] <= retried'[k]
      <3>1. f \in disp /\ f.items \cap d.items = {}
        BY <1>1, <2>3, <2>4
      <3>2. ASSUME NEW k \in f.items PROVE turns'[k] <= retried'[k]
        <4>1. k \in Keys /\ k \notin d.items /\ turns[k] <= retried[k]
          BY <1>1, <2>4, <3>1
        <4> QED BY <2>2, <4>1
      <3> QED BY <1>1, <2>4, <3>1, <3>2
    <2> QED BY <2>4 DEF Unhanded
  <1>5. CASE UNCHANGED <<turns, retried>> /\ \A d \in disp : ~Hand(d)
    <2>1. CASE disp' \subseteq disp
      BY <1>1, <1>5, <2>1 DEF Unhanded
    <2>2. ASSUME NEW K \in SUBSET Keys, NEW e \in Dispatches, Takes(K, e) PROVE Unhanded'
      <3>1. /\ disp' = disp \cup {e} /\ e.items = K /\ ~e.started
            /\ \A k \in K : State(k) \in J!Waiting
        BY <2>2 DEF Takes
      <3>2. \A k \in K : turns[k] <= retried[k]
        BY <3>1, OwningIs DEF Counting
      <3> QED BY <1>1, <1>5, <3>1, <3>2 DEF Unhanded
    <2>3. ASSUME NEW d \in disp, NEW e, Renews(d, e) PROVE Unhanded'
      <3>1. \A f \in disp' : f.stage = "building" => f \in disp
        BY <2>3 DEF Renews
      <3> QED BY <1>1, <1>5, <3>1 DEF Unhanded
    <2>4. CASE LaneBeside \/ OtherStarts \/ OtherEnds
      BY <2>1, <2>4, BesideHeld
    <2>5. CASE Resets
      BY <2>1, <2>5, ResetsAt DEF Reset
    <2>6. CASE DispatchNext
      BY <2>1, <2>2, <2>6, DispatchAt DEF Dispatched, Ignores
    <2>7. ASSUME NEW d \in disp, BuildFails(d) \/ Handed(d) \/ TurnStarts(d) \/ TurnEnds(d)
          PROVE  Unhanded'
      <3>1. Settles(d) \/ \E e : Renews(d, e)
        BY <2>7, BuildFailsAt, HandedAt, TurnStartsAt, TurnEndsAt
      <3> QED BY <2>1, <2>3, <3>1 DEF Settles
    <2> QED BY <1>5, <2>4, <2>5, <2>6, <2>7, LaneSteps
  <1> QED BY <1>3, <1>4, <1>5, TurnsSame

-----------------------------------------------------------------------------
(* The turns Hermes runs are counted *)

LEMMA RenewedIsNew ==
  ASSUME IInv, NEW d \in disp, NEW e, Renews(d, e) PROVE e \notin disp \ {d}
PROOF
  <1> SUFFICES ASSUME e \in disp \ {d} PROVE FALSE
    OBVIOUS
  <1>1. e.items \cap d.items = {} /\ d.items # {}
    BY OwningIs DEF Owning
  <1> QED BY <1>1 DEF Renews

LEMMA TurnsRunningStep == ASSUME IInv, [Next]_vars PROVE TurnsRunning'
PROOF
  <1> DEFINE S == StartedOf(disp)
             n == Cardinality(S)
  <1>1. /\ IsFiniteSet(disp) /\ IsFiniteSet(S) /\ n \in Nat /\ running \in Nat
        /\ n <= running /\ running <= n + MaxOther /\ MaxOther \in Nat
    BY StartedCount, Bounds DEF IInv, Intake, TurnsRunning
  <1>2. ASSUME IsFiniteSet(disp'), StartedOf(disp') = S, running' = running PROVE TurnsRunning'
    BY <1>1, <1>2 DEF TurnsRunning
  <1>3. \A d \in disp : d.stage = "building" => ~d.started
    BY OwningIs DEF Unhanded
  <1> HIDE DEF n
  <1>4. CASE LaneBeside
    BY <1>1, <1>2, <1>4, LaneBesideAt DEF lane
  <1>5. CASE Resets
    <2>1. disp' = {} /\ running' = 0
      BY <1>5, ResetsAt DEF Reset
    <2>2. StartedOf(disp') = {}
      BY <2>1 DEF StartedOf
    <2>3. IsFiniteSet({}) /\ Cardinality({}) = 0
      BY FS_EmptySet
    <2>4. 0 <= 0 + MaxOther
      BY <1>1
    <2> QED BY <2>1, <2>2, <2>3, <2>4 DEF TurnsRunning
  <1>6. CASE OtherStarts
    <2>1. running < n + MaxOther /\ running' = running + 1 /\ UNCHANGED disp
      BY <1>6 DEF OtherStarts, StartedOf, n
    <2>2. Cardinality(StartedOf(disp')) = n
      BY <2>1 DEF n
    <2>3. n <= running' /\ running' <= n + MaxOther
      BY <1>1, <2>1
    <2> QED BY <1>1, <2>1, <2>2, <2>3 DEF TurnsRunning
  <1>7. CASE OtherEnds
    <2>1. running > n /\ running' = running - 1 /\ UNCHANGED disp
      BY <1>7 DEF OtherEnds, StartedOf, n
    <2>2. Cardinality(StartedOf(disp')) = n
      BY <2>1 DEF n
    <2>3. n <= running' /\ running' <= n + MaxOther
      BY <1>1, <2>1
    <2> QED BY <1>1, <2>1, <2>2, <2>3 DEF TurnsRunning
  <1>8. CASE DispatchNext
    <2>1. running' = running
      BY <1>8, DispatchAt
    <2>2. PICK K \in SUBSET Keys : Ignores(K) \/ \E e \in Dispatches : Takes(K, e)
      BY <1>8, DispatchAt DEF Dispatched
    <2>3. CASE Ignores(K)
      BY <1>1, <1>2, <2>1, <2>3 DEF Ignores
    <2>4. ASSUME NEW e \in Dispatches, Takes(K, e) PROVE TurnsRunning'
      <3>1. disp' = disp \cup {e} /\ ~e.started
        BY <2>4 DEF Takes
      <3>2. IsFiniteSet(disp')
        BY <1>1, <3>1, FS_AddElement
      <3>3. StartedOf(disp') = S
        BY <3>1 DEF StartedOf
      <3> QED BY <1>2, <2>1, <3>2, <3>3
    <2> QED BY <2>2, <2>3, <2>4
  <1>9. ASSUME NEW d \in disp, Settles(d), ~d.started, running' = running PROVE TurnsRunning'
    <2>1. disp' = disp \ {d}
      BY <1>9 DEF Settles
    <2>2. IsFiniteSet(disp')
      BY <1>1, <2>1, FS_RemoveElement
    <2>3. StartedOf(disp') = S
      BY <1>9, <2>1 DEF StartedOf
    <2> QED BY <1>2, <1>9, <2>2, <2>3
  <1>10. ASSUME NEW d \in disp, TurnEnds(d) PROVE TurnsRunning'
    <2>1. disp' = disp \ {d} /\ d \in S /\ running' = running - 1
      BY <1>10, TurnEndsAt DEF Settles, StartedOf
    <2>2. IsFiniteSet(disp')
      BY <1>1, <2>1, FS_RemoveElement
    <2>3. StartedOf(disp') = S \ {d}
      BY <2>1 DEF StartedOf
    <2> HIDE DEF S
    <2>4. Cardinality(S \ {d}) = Cardinality(S) - 1
      BY <1>1, <2>1, FS_RemoveElement
    <2>5. Cardinality(StartedOf(disp')) = n - 1
      BY <2>3, <2>4 DEF n
    <2>6. n - 1 <= running' /\ running' <= (n - 1) + MaxOther
      BY <1>1, <2>1
    <2> QED BY <2>2, <2>5, <2>6 DEF TurnsRunning
  <1>11. ASSUME NEW d \in disp, NEW e, Renews(d, e), e.started = d.started, running' = running
         PROVE  TurnsRunning'
    <2>1. disp' = (disp \ {d}) \cup {e} /\ e \notin disp \ {d}
      BY <1>11, RenewedIsNew DEF Renews
    <2>2. IsFiniteSet(disp')
      <3>1. IsFiniteSet(disp \ {d})
        BY <1>1, FS_RemoveElement
      <3> QED BY <2>1, <3>1, FS_AddElement
    <2>3. CASE ~d.started
      <3>1. StartedOf(disp') = S
        BY <1>11, <2>1, <2>3 DEF StartedOf
      <3> QED BY <1>2, <1>11, <2>2, <3>1
    <2>4. CASE d.started
      <3> DEFINE R == S \ {d}
      <3>1. StartedOf(disp') = R \cup {e} /\ e \notin R /\ d \in S
        BY <1>11, <2>1, <2>4 DEF StartedOf
      <3> HIDE DEF S
      <3>2. IsFiniteSet(R) /\ Cardinality(R) = n - 1
        BY <1>1, <3>1, FS_RemoveElement DEF n
      <3> HIDE DEF R
      <3>3. Cardinality(R \cup {e}) = Cardinality(R) + 1
        BY <3>1, <3>2, FS_AddElement
      <3>4. Cardinality(StartedOf(disp')) = n
        BY <1>1, <3>1, <3>2, <3>3
      <3> QED BY <1>1, <1>11, <2>2, <3>4 DEF TurnsRunning
    <2> QED BY <2>3, <2>4, HeldRows DEF Dispatches
  <1>12. ASSUME NEW d \in disp, TurnStarts(d) PROVE TurnsRunning'
    <2>1. PICK e \in Dispatches : Renews(d, e) /\ e.started
      BY <1>12, TurnStartsAt
    <2>2. ~d.started /\ running' = running + 1
      BY <1>12, TurnStartsAt
    <2>3. disp' = (disp \ {d}) \cup {e} /\ e \notin disp \ {d}
      BY <2>1, RenewedIsNew DEF Renews
    <2>4. IsFiniteSet(disp')
      <3>1. IsFiniteSet(disp \ {d})
        BY <1>1, FS_RemoveElement
      <3> QED BY <2>3, <3>1, FS_AddElement
    <2>5. StartedOf(disp') = S \cup {e} /\ e \notin S
      BY <2>1, <2>2, <2>3 DEF StartedOf
    <2> HIDE DEF S
    <2>6. Cardinality(S \cup {e}) = n + 1
      BY <1>1, <2>5, FS_AddElement DEF n
    <2>7. n + 1 <= running' /\ running' <= (n + 1) + MaxOther
      BY <1>1, <2>2
    <2> QED BY <2>4, <2>5, <2>6, <2>7 DEF TurnsRunning
  <1>13. ASSUME NEW d \in disp, BuildFails(d) \/ Hand(d) \/ Handed(d) PROVE TurnsRunning'
    <2>1. CASE BuildFails(d)
      <3>1. Settles(d) /\ d.stage = "building" /\ running' = running
        BY <2>1, BuildFailsAt
      <3> QED BY <1>3, <1>9, <3>1
    <2>2. CASE Hand(d)
      BY <1>11, <2>2, HandAt
    <2>3. CASE Handed(d)
      BY <1>9, <1>11, <2>3, HandedAt
    <2> QED BY <1>13, <2>1, <2>2, <2>3
  <1> QED BY <1>4, <1>5, <1>6, <1>7, <1>8, <1>10, <1>12, <1>13, LaneSteps

-----------------------------------------------------------------------------
(* A missed command is never run *)

LEMMA MissedStep == ASSUME IInv, [Next]_vars PROVE MissedCommandNeverRuns'
PROOF
  <1> DEFINE Live(k) == post[k.pos].kind = "control" /\ k.lane = "post" => reason[k] = "live"
             LiveThen(k) == post'[k.pos].kind = "control" /\ k.lane = "post" => reason'[k] = "live"
  <1>1. ASSUME NEW d \in disp, NEW k \in d.items PROVE LiveThen(k)
    <2>1. k \in Keys /\ State(k) = "processing" /\ Live(k)
      BY OwningIs DEF Owning, IInv, Intake, MissedCommandNeverRuns
    <2>2. k.pos \in Posts /\ Exists(k.pos)
      BY <2>1, RowsAt
    <2>3. post'[k.pos].kind = post[k.pos].kind
      BY <2>2, PostStep
    <2>4. reason'[k] = reason[k]
      <3>1. AdmitPage /\ k \in Arriving => State(k) = "absent"
        BY <2>1, AdmitAt DEF Arrives
      <3> QED BY <2>1, <3>1, ReasonStep
    <2> QED BY <2>1, <2>3, <2>4
  <1>2. ASSUME NEW K \in SUBSET Keys, NEW e, Takes(K, e), DispatchNext, NEW k \in K
        PROVE  LiveThen(k)
    <2>1. UNCHANGED <<reason, post>>
      BY <1>2, DispatchAt DEF server
    <2> QED BY <1>2, <2>1 DEF Takes, LiveCommands
  <1> SUFFICES \A d \in disp' : \A k \in d.items : LiveThen(k)
    BY DEF MissedCommandNeverRuns
  <1> HIDE DEF LiveThen
  <1>3. CASE LaneBeside \/ OtherStarts \/ OtherEnds
    BY <1>1, <1>3, BesideHeld
  <1>4. CASE Resets
    BY <1>4, ResetsAt DEF Reset
  <1>5. CASE DispatchNext
    BY <1>1, <1>2, <1>5, DispatchAt DEF Dispatched, Ignores, Takes
  <1>6. ASSUME NEW d \in disp,
               BuildFails(d) \/ Hand(d) \/ Handed(d) \/ TurnStarts(d) \/ TurnEnds(d)
        PROVE  \A f \in disp' : \A k \in f.items : LiveThen(k)
    <2>1. Settles(d) \/ \E e : Renews(d, e)
      BY <1>6, BuildFailsAt, HandAt, HandedAt, TurnStartsAt, TurnEndsAt
    <2>2. \A f \in disp' : \E g \in disp : f.items = g.items
      BY <2>1 DEF Settles, Renews
    <2> QED BY <1>1, <2>2
  <1> QED BY <1>3, <1>4, <1>5, <1>6, LaneSteps

-----------------------------------------------------------------------------
(* The invariant *)

LEMMA InitIntake == ASSUME Init PROVE Intake
PROOF
  <1> USE DEF Init
  <1>1. /\ item = [k \in Keys |-> J!NoItem] /\ source = [s \in {ch} |-> J!NoSource]
        /\ reason = [k \in Keys |-> "none"] /\ turns = [k \in Keys |-> 0]
        /\ retried = [k \in Keys |-> 0]
    BY DEF J!Init, Keys
  <1>2. /\ \A k \in Keys : State(k) = "absent" /\ reason[k] = "none" /\ turns[k] = 0 /\ retried[k] = 0
        /\ source[ch].state = "none" /\ Cursor = 0
    BY <1>1 DEF State, J!NoItem, J!NoSource, Cursor
  <1>3. \A p \in Posts : ~Exists(p) /\ ~Visible(p) /\ post[p].status = "none"
    BY DEF NoPost, Exists, Visible
  <1>4. DrainAt(drain, "idle", 0, 0)
    BY IdleIs
  <1>5. Typed
    <2>1. /\ reason \in [Keys -> Reasons] /\ turns \in [Keys -> Nat] /\ retried \in [Keys -> Nat]
      BY <1>1 DEF Reasons
    <2>2. post \in [Posts -> PostRows]
      BY DEF PostRows, NoPost
    <2>3. SmallTyped
      <3>1. start \in Posn /\ agentTurns \in 0 .. InterAgentLimit
        BY Bounds
      <3> QED BY <2>1, <2>2, <3>1 DEF SmallTyped
    <2>4. DrainIs /\ LaneTyped
      BY <1>4 DEF DrainAt, DrainIs, LaneTyped
    <2> QED BY <2>3, <2>4, TypedIs
  <1>6. InOrder
    <2>1. ASSUME NEW p \in Posts
          PROVE  /\ Cursor < p /\ start < p /\ readPtr < p /\ drain.after < p
                 /\ p \notin drain.seen
      BY <1>2, <1>4, Bounds DEF DrainAt, NoPtr
    <2> QED BY <1>2, <1>3, <2>1 DEF InOrder
  <1>7. Rows
    BY <1>2 DEF Rows, J!Open, J!Waiting
  <1>8. Alive /\ Reading
    BY <1>2, <1>4 DEF Alive, Reading, DrainAt
  <1>9. NoPostSkipped /\ Acking
    BY <1>2, <1>3 DEF NoPostSkipped, Acking
  <1>10. Handing
    BY <1>2 DEF Handing, Owning, Counting, Unhanded, J!Waiting
  <1>11. TurnsRunning
    <2>1. StartedOf(disp) = {} /\ disp = {}
      BY DEF StartedOf
    <2>2. 0 <= running /\ running <= 0 + MaxOther
      BY Bounds
    <2> QED BY <2>1, <2>2, FS_EmptySet DEF TurnsRunning
  <1>12. MissedCommandNeverRuns
    BY DEF MissedCommandNeverRuns
  <1>13. Met
    BY <1>2, <1>4 DEF Met, Reached, DrainAt, NoPtr
  <1> QED BY <1>5, <1>6, <1>7, <1>8, <1>9, <1>10, <1>11, <1>12, <1>13 DEF Intake

LEMMA InitInv == Init => IInv
PROOF
  <1> SUFFICES ASSUME Init PROVE IInv
    OBVIOUS
  <1>1. J!Init
    BY DEF Init
  <1> QED BY <1>1, JournalBegins, InitIntake DEF IInv

LEMMA Inductive == IInv /\ [Next]_vars => IInv'
PROOF
  <1> SUFFICES ASSUME IInv, [Next]_vars PROVE IInv'
    OBVIOUS
  <1>1. Handing'
    BY OwningStep, CountingStep, UnhandedStep DEF Handing
  <1>2. Typed' /\ InOrder' /\ Met' /\ Rows' /\ Alive' /\ Reading'
    BY TypedStep, InOrderStep, MetStep, RowsKept, AliveStep, ReadingStep
  <1>3. NoPostSkipped' /\ Acking' /\ TurnsRunning' /\ MissedCommandNeverRuns'
    BY NoneSkippedStep, AckingStep, TurnsRunningStep, MissedStep
  <1>4. Intake'
    BY <1>1, <1>2, <1>3 DEF Intake
  <1> QED BY <1>4, JournalInv DEF IInv

\* Every reachable state satisfies the inductive invariant: the journal's and the
\* intake's, of the server's rows, the drain, the dispatches and Hermes' turns.
THEOREM Invariance == Spec => []IInv
PROOF BY InitInv, Inductive, PTL DEF Spec

-----------------------------------------------------------------------------
(* The properties *)

\* The dispatches Hermes runs are of as many posts.
LEMMA StartedFew == ASSUME IInv PROVE Cardinality(StartedOf(disp)) <= MaxPos
PROOF
  <1> DEFINE S == StartedOf(disp)
             f == [d \in S |-> (CHOOSE k \in d.items : TRUE).pos]
  <1>1. ASSUME NEW d \in S
        PROVE  \E k \in d.items : /\ k \in Keys /\ f[d] = k.pos /\ k.pos \in Posts
                                  /\ State(k) = "processing"
    <2>1. d \in disp
      BY DEF StartedOf
    <2>2. d.items # {} /\ d.items \in SUBSET Keys /\ \A k \in d.items : State(k) = "processing"
      BY <2>1, HeldRows
    <2> DEFINE k == CHOOSE k \in d.items : TRUE
    <2>3. k \in d.items
      BY <2>2
    <2>4. f[d] = k.pos
      OBVIOUS
    <2> HIDE DEF k, f
    <2> QED BY <2>2, <2>3, <2>4, KeysAre
  <1>2. ASSUME NEW d \in S, NEW e \in S, f[d] = f[e] PROVE d = e
    <2> SUFFICES ASSUME d # e PROVE FALSE
      OBVIOUS
    <2>1. PICK k \in d.items : /\ k \in Keys /\ f[d] = k.pos /\ State(k) = "processing"
      BY <1>1
    <2>2. PICK j \in e.items : /\ j \in Keys /\ f[e] = j.pos /\ State(j) = "processing"
      BY <1>1
    <2> HIDE DEF f
    <2>3. k.pos = j.pos
      BY <1>2, <2>1, <2>2
    <2>4. k # j
      <3>1. d \in disp /\ e \in disp
        BY DEF StartedOf
      <3>2. d.items \cap e.items = {}
        BY <3>1, OwningIs DEF Owning
      <3> QED BY <3>2
    <2>5. State(k) \in J!Open /\ State(j) \in J!Open /\ State(k) # "absent" /\ State(j) # "absent"
      BY <2>1, <2>2 DEF J!Open
    <2>6. /\ k.lane = "post" => post[k.pos].kind # "chatter"
          /\ k.lane = "attention" => post[k.pos].kind = "chatter"
          /\ j.lane = "post" => post[j.pos].kind # "chatter"
          /\ j.lane = "attention" => post[j.pos].kind = "chatter"
      BY <2>1, <2>2, <2>5, RowsAt
    <2>7. k.lane = j.lane
      BY <2>1, <2>2, <2>3, <2>6, KeysAre
    <2>8. k = j
      BY <2>1, <2>2, <2>3, <2>7, KeysAre
    <2> QED BY <2>4, <2>8
  <1>3. f \in Injection(S, Posts)
    <2>1. \A d \in S : f[d] \in Posts
      BY <1>1
    <2>2. f \in [S -> Posts]
      BY <2>1
    <2>3. \A d, e \in S : f[d] = f[e] => d = e
      BY <1>2
    <2> HIDE DEF f, S
    <2> QED BY <2>2, <2>3 DEF Injection, IsInjective
  <1> HIDE DEF f, S
  <1>4. Cardinality(S) <= Cardinality(Posts)
    BY <1>3, KeysFinite, FS_Injection
  <1>5. Cardinality(Posts) = MaxPos
    BY FS_Interval, Bounds DEF Posts
  <1> QED BY <1>4, <1>5 DEF S

LEMMA TypeImplied == ASSUME IInv PROVE TypeOK
PROOF
  <1>1. Typed /\ J!TypeOK /\ Posn = J!Pos
    BY Cursors DEF IInv, Intake, Posn, J!Pos
  <1>2. running \in 0 .. MaxPos + MaxOther
    <2> DEFINE n == Cardinality(StartedOf(disp))
    <2>1. n \in Nat /\ n <= MaxPos /\ running \in Nat /\ running <= n + MaxOther
          /\ MaxPos \in Nat /\ MaxOther \in Nat
      BY StartedFew, StartedCount, Bounds
    <2> HIDE DEF n
    <2> QED BY <2>1
  <1>3. \A d \in disp : /\ d.items \subseteq J!Keys /\ d.items # {}
                        /\ d.stage \in {"building", "handing", "delivered"}
    BY HeldRows DEF Dispatches, Keys
  <1>4. /\ drain.phase \in {"idle", "adopt", "fresh", "read", "page", "dispatch", "ack", "acking",
                            "acked"}
        /\ drain.seen \subseteq Posts /\ drain.streaming \subseteq drain.seen
    BY <1>1, DrainTyped DEF Phases, Typed
  <1> QED BY <1>1, <1>2, <1>3, <1>4 DEF Typed, TypeOK, Keys

LEMMA ReadImplied == ASSUME IInv PROVE ReadMeansFinished
PROOF
  <1> SUFFICES ASSUME NEW p \in Posts \ overtaken, source[ch].state # "none", start < p,
                      p <= readPtr, Visible(p)
               PROVE  item[PostKey(p)].state \in J!FINAL \/ PostKey(p) \in pruned
    BY DEF ReadMeansFinished
  <1>1. readPtr <= source[ch].settled /\ source[ch].settled <= Cursor
    BY Cursors DEF IInv, Intake, Acking
  <1>2. readPtr \in Int /\ source[ch].settled \in Int /\ Cursor \in Int /\ p \in Int
    <2>1. source[ch].settled \in Posn /\ Cursor \in Posn /\ readPtr \in {NoPtr} \cup Posn
      BY Cursors, DrainTyped DEF IInv, Intake, Typed
    <2>2. NoPtr \in Int /\ p \in Int /\ \A n \in Posn : n \in Int
      BY Bounds DEF NoPtr
    <2> QED BY <2>1, <2>2
  <1>3. p <= source[ch].settled /\ p <= Cursor
    BY <1>1, <1>2
  <1>4. Accounted(p)
    BY <1>3 DEF IInv, Intake, NoPostSkipped
  <1> DEFINE k == PostKey(p)
  <1>5. k \in Keys /\ k.src = ch /\ k.lane = "post" /\ k.pos = p
    BY KeysAre
  <1>6. State(k) \notin J!Open
    <2> SUFFICES ASSUME State(k) \in J!Open PROVE FALSE
      OBVIOUS
    <2>1. k \in J!Blocking(ch)
      BY <1>5 DEF J!Blocking, State, Keys
    <2>2. source[ch].settled < k.pos
      BY <2>1, Cursors DEF J!SettledBelowOpen
    <2> QED BY <1>2, <1>3, <1>5, <2>2
  <1>7. State(k) \in J!FINAL \/ k \in pruned
    BY <1>4, <1>5, <1>6, ItemTyped DEF Accounted, State
  <1> QED BY <1>7 DEF State

\* A post or nudge reaches Hermes once, and once more for each time the operator
\* put it back: no restart, failed hand-off or lost journal write runs it again.
THEOREM TurnsHanded == Spec => []TurnOnce
PROOF
  <1>1. IInv => TurnOnce
    BY OwningIs DEF Counting, TurnOnce, Keys
  <1> QED BY <1>1, Invariance, PTL

\* A gateway command that was missed is never handed to Hermes.
THEOREM CommandsMissed == Spec => []MissedCommandNeverRuns
PROOF
  <1>1. IInv => MissedCommandNeverRuns
    BY DEF IInv, Intake
  <1> QED BY <1>1, Invariance, PTL

\* The cursor passes no post by but those committed after a larger id: through short
\* pages, a full queue, unpublished posts, restarts, pruning, and other posts that are
\* committed late.
THEOREM PostsKept == Spec => []NoPostSkipped
PROOF
  <1>1. IInv => NoPostSkipped
    BY DEF IInv, Intake
  <1> QED BY <1>1, Invariance, PTL

\* What the server shows as read is dealt with, unless it was committed after a larger
\* id, and the state keeps its types.
THEOREM ReadsMeanFinished == Spec => []ReadInv
PROOF
  <1>1. IInv => ReadInv
    BY TypeImplied, ReadImplied DEF ReadInv
  <1> QED BY <1>1, Invariance, PTL

\* The state keeps its types.
THEOREM Types == Spec => []TypeOK
PROOF
  <1>1. IInv => TypeOK
    BY TypeImplied
  <1> QED BY <1>1, Invariance, PTL

\* The intake uses the journal as InboxJournal allows: every step of the drain, of
\* the hooks, of the operator and of a restart is a step of the journal's
\* specification, with the rules its methods leave to their callers.
THEOREM JournalUsed == Spec => JournalSpec
PROOF
  <1>1. Init => J!Init
    BY DEF Init
  <1>2. IInv /\ [Next]_vars => [J!Next]_(J!jvars)
    BY JournalStep
  <1> QED BY <1>1, <1>2, Invariance, PTL DEF Spec, JournalSpec, J!Spec

=============================================================================
