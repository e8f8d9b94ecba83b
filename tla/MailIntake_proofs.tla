------------------------- MODULE MailIntake_proofs -------------------------
(***************************************************************************)
(* The mailroom keeps its promises for every number of epochs, mails and   *)
(* UIDs, every page, queue and batch size, and every bound on expunges,    *)
(* epoch changes, restarts and operator commands.  The invariant says what *)
(* the two loops may still believe when what they read is no longer true:  *)
(* the page an answer carries against the cursor and the mailbox of the    *)
(* moment it arrives, the mail a reader holds against the rows and ids     *)
(* written since.                                                          *)
(***************************************************************************)
EXTENDS MailIntake, FiniteSetTheorems, WellFoundedInduction, TLAPS

-----------------------------------------------------------------------------
(* The inductive invariant *)

Keys == J!Keys
Posn == 0 .. MaxPos
Uids == 1 .. MaxPos
State(k) == item[k].state
Enum(e) == source[e].enumerated
Exists(e) == source[e].state # "none"

\* The rows of the journal: what waits has an attempt left.
JournalTyped ==
  /\ source \in [Epochs -> J!SourceRow]
  /\ item \in [Keys -> J!ItemRow]
  /\ pruned = {}
  /\ \A k \in Keys : State(k) \in J!Waiting => item[k].attempts < MAX_ATTEMPTS

ColumnsTyped ==
  /\ id \in [Epochs -> 0 .. Cardinality(Epochs)]
  /\ scan \in [Epochs -> {NoBound} \cup Posn]
  /\ start \in [Epochs -> {NoBound} \cup Posn]
  /\ msgid \in [Keys -> Msgs \cup {"none"}]
  /\ noted \subseteq J!InState(Keys, {"needs_review"})
  /\ mark \in BOOLEAN /\ ready \in BOOLEAN /\ requeued \in BOOLEAN

ServerTyped ==
  /\ epoch \in Epochs
  /\ box \in [Epochs -> Seq(Msgs)]
  /\ \A e \in Epochs : Newest(e) \in Posn
  /\ gone \subseteq Keys

IntakeTyped ==
  \/ intake \in [phase : {"idle", "first"}]
  \/ intake \in [phase : {"create first"}, to : Epochs, newest : Posn]
  \/ intake \in [phase : {"held", "settle"}, src : Epochs]
  \/ intake \in [phase : {"asked"}, src : Epochs, after : Posn, limit : Nat \ {0}]
  \/ intake \in [phase : {"page"}, src : Epochs, epoch : Epochs, uids : SUBSET Uids,
                 through : {NoBound} \cup Posn, next : Posn]
  \/ intake \in [phase : {"mark", "retire", "create"}, src : Epochs, to : Epochs]

Answer == Msgs \cup {"epoch_changed", "vanished"}

ReaderTyped ==
  \/ reader \in [phase : {"idle"}]
  \/ reader \in [phase : {"settle"}, src : Epochs]
  \/ reader \in [phase : {"operator", "next"}, src : Epochs, batch : SUBSET Uids]
  \/ reader \in [phase : {"get"}, src : Epochs, batch : SUBSET Uids, uid : Uids]
  \/ reader \in [phase : {"got"}, src : Epochs, batch : SUBSET Uids, uid : Uids, answer : Answer]
  \/ reader \in [phase : {"llm"}, src : Epochs, batch : SUBSET Uids, uid : Uids, msg : Msgs]

CommandTyped ==
  /\ cli \in {NoCommand} \cup [src : Epochs, from : {NoBound} \cup Posn]
  /\ cli # NoCommand => SlowMigrate /\ Exists(cli.src)

\* A source has its order of creation and its start, and its cursor is not
\* past the mail there is, unless it started there.
Sourced ==
  \A e \in Epochs :
    /\ id[e] = 0 <=> ~Exists(e)
    /\ Exists(e) => start[e] \in Posn
    /\ Enum(e) <= Newest(e) \/ Enum(e) <= start[e]

\* Before the first epoch change there is at most one source, and a
\* first source is only looked for while there is none.
Marked ==
  ~mark =>
    /\ \A e \in Epochs : source[e].state # "retired"
    /\ \A e, f \in Epochs : Exists(e) /\ Exists(f) => e = f
    /\ intake.phase \in {"first", "create first"} => \A e \in Epochs : ~Exists(e)
    /\ intake.phase \notin {"retire", "create"}

\* Only one source ever is where the operator's settings or commands put it.
Placed(e) ==
  /\ Exists(e)
  /\ \/ source[e].state = "migration_needs_review"
     \/ start[e] > 0
     \/ cli # NoCommand /\ cli.src = e

PlacedOnce == \A e, f \in Epochs : Placed(e) /\ Placed(f) => e = f

\* Every row has its mail, and an id it carries is that mail's.
Rows ==
  \A k \in Keys :
    /\ State(k) # "absent" => k.pos <= Newest(k.src)
    /\ msgid[k] # "none" => State(k) \in J!FINAL /\ msgid[k] = box[k.src][k.pos]

\* What an unfinished pass of the intake still knows.
Scanning ==
  /\ intake.phase = "create first" => intake.newest <= Newest(intake.to)
  /\ intake.phase \in {"asked", "page"} => source[intake.src].state = "active"
  /\ intake.phase = "asked" =>
       /\ intake.limit + OpenCount(intake.src) <= MAX_OPEN
       /\ intake.after <= Enum(intake.src)
       /\ ~SlowMigrate => intake.after = Enum(intake.src)
  /\ intake.phase = "page" /\ intake.epoch = intake.src =>
       /\ Cardinality(intake.uids) + OpenCount(intake.src) <= MAX_OPEN
       /\ \A u \in intake.uids : u <= Newest(intake.src)
       /\ ~SlowMigrate => \A u \in intake.uids : Enum(intake.src) < u
       /\ intake.next <= Newest(intake.src) \/ intake.next <= Enum(intake.src)
       /\ \A u \in 1 .. Newest(intake.src) :
            Enum(intake.src) < u /\ u <= intake.next =>
              u \in intake.uids \/ Key(intake.src, u) \in gone

\* What the reader still knows: its rows are there, its answer is the mail of
\* its row, and the mail it has read was not read before.
Reading ==
  /\ reader.phase \in {"operator", "next", "get", "got", "llm"} =>
       \A u \in reader.batch : State(Key(reader.src, u)) # "absent"
  /\ reader.phase \in {"get", "got", "llm"} => State(Current) # "absent"
  /\ reader.phase = "got" /\ reader.answer \in Msgs => reader.answer = box[reader.src][reader.uid]
  /\ reader.phase = "llm" =>
       /\ reader.msg = box[reader.src][reader.uid]
       /\ reader.msg # NoId => ~Seen(reader.msg)

Typed == /\ JournalTyped /\ ColumnsTyped /\ ServerTyped
         /\ IntakeTyped /\ ReaderTyped /\ CommandTyped

IInv ==
  /\ Typed /\ Sourced /\ Marked /\ PlacedOnce /\ Rows /\ Scanning /\ Reading
  /\ NoMailSkipped /\ QueueBounded /\ ReadOncePerId

-----------------------------------------------------------------------------
(* Numbers, keys *)

LEMMA Bounds ==
  /\ MaxPos \in Nat /\ MAX_OPEN \in Nat \ {0} /\ PAGE \in Nat \ {0} /\ WORK_BATCH \in Nat \ {0}
  /\ MAX_ATTEMPTS \in Nat \ {0}
  /\ Uids \subseteq Nat \ {0} /\ Uids \subseteq Posn /\ Posn \subseteq Nat /\ 0 \in Posn
  /\ NoId \in Msgs /\ "none" \notin Msgs /\ "epoch_changed" \notin Msgs /\ "vanished" \notin Msgs
PROOF
  <1>1. /\ MaxPos \in Nat /\ MAX_OPEN \in Nat \ {0} /\ PAGE \in Nat \ {0}
        /\ WORK_BATCH \in Nat \ {0} /\ MAX_ATTEMPTS \in Nat \ {0}
    BY MailAssumption DEF MailAssumption
  <1>2. NoId \in Msgs /\ "none" \notin Msgs /\ "epoch_changed" \notin Msgs /\ "vanished" \notin Msgs
    BY MailAssumption DEF MailAssumption
  <1> QED BY <1>1, <1>2 DEF Uids, Posn

\* A set of numbers has a least one; FiniteSetsExt picks it, and the greatest.
LEMMA LeastOfNat ==
  ASSUME NEW S \in SUBSET Nat, S # {}
  PROVE  \E x \in S : \A y \in S : x <= y
PROOF
  <1> DEFINE R == {ss \in Nat \X Nat : ss[1] < ss[2]}
  <1>1. \A x, y \in Nat : x < y => <<x, y>> \in R
    OBVIOUS
  <1>2. PICK x \in S : \A y \in S : <<y, x>> \notin R
    <2>1. IsWellFoundedOn(R, Nat)
      BY NatLessThanWellFounded, Zenon DEF OpToRel
    <2> HIDE DEF R
    <2> QED BY <2>1, WFMin
  <1>3. \A y \in S : x <= y
    <2> TAKE y \in S
    <2>1. x \in Nat /\ y \in Nat
      OBVIOUS
    <2>2. <<y, x>> \notin R
      BY <1>2
    <2>3. ~(y < x)
      BY <1>1, <2>1, <2>2
    <2> QED BY <2>1, <2>3
  <1> QED BY <1>3

LEMMA MinOfNat ==
  ASSUME NEW S \in SUBSET Nat, S # {}
  PROVE  Min(S) \in S /\ \A y \in S : Min(S) <= y
PROOF
  <1>1. \E x \in S : \A y \in S : x <= y
    BY LeastOfNat
  <1> QED BY <1>1 DEF Min

LEMMA MaxOfBounded ==
  ASSUME NEW b \in Int, NEW S \in SUBSET Int, S # {}, \A x \in S : x <= b
  PROVE  Max(S) \in S /\ \A y \in S : y <= Max(S)
PROOF
  <1> DEFINE T == {b - x : x \in S}
  <1>1. T \in SUBSET Nat /\ T # {}
    <2>1. \A x \in S : b - x \in Nat
      OBVIOUS
    <2>2. \E x \in S : b - x \in T
      OBVIOUS
    <2> QED BY <2>1, <2>2
  <1>2. PICK t \in T : \A y \in T : t <= y
    BY <1>1, LeastOfNat
  <1>3. PICK x \in S : t = b - x
    BY <1>2
  <1>4. \A y \in S : x >= y
    BY <1>2, <1>3
  <1>5. \E z \in S : \A y \in S : z >= y
    BY <1>4
  <1> QED BY <1>5 DEF Max

LEMMA KeysAre ==
  /\ \A k \in Keys : k.src \in Epochs /\ k.pos \in Uids /\ k.lane = "mail" /\ k = Key(k.src, k.pos)
  /\ \A e \in Epochs, u \in Uids :
       Key(e, u) \in Keys /\ Key(e, u).src = e /\ Key(e, u).pos = u
PROOF
  <1>1. ASSUME NEW k \in Keys
        PROVE  k.src \in Epochs /\ k.pos \in Uids /\ k.lane = "mail" /\ k = Key(k.src, k.pos)
    BY DEF Keys, J!Keys, Uids, Key
  <1>2. ASSUME NEW e \in Epochs, NEW u \in Uids
        PROVE  Key(e, u) \in Keys /\ Key(e, u).src = e /\ Key(e, u).pos = u
    BY DEF Keys, J!Keys, Uids, Key
  <1> QED BY <1>1, <1>2

\* The rows of one source, as few as there are UIDs.
LEMMA SourceFinite ==
  ASSUME NEW e \in Epochs
  PROVE  IsFiniteSet(J!OfSource(e)) /\ IsFiniteSet(Uids) /\ OpenCount(e) \in Nat
PROOF
  <1>1. IsFiniteSet(Uids)
    BY FS_Interval, Bounds DEF Uids
  <1> DEFINE f == [u \in Uids |-> Key(e, u)]
  <1>2. f \in Surjection(Uids, J!OfSource(e))
    <2>1. f \in [Uids -> J!OfSource(e)]
      BY KeysAre DEF J!OfSource, Keys
    <2>2. ASSUME NEW k \in J!OfSource(e) PROVE \E u \in Uids : f[u] = k
      <3>1. k.pos \in Uids /\ k = Key(e, k.pos)
        BY KeysAre DEF J!OfSource, Keys
      <3> QED BY <3>1
    <2> QED BY <2>1, <2>2 DEF Surjection
  <1>3. IsFiniteSet(J!OfSource(e))
    <2> HIDE DEF f
    <2> QED BY <1>1, <1>2, FS_Surjection
  <1>4. J!InState(J!OfSource(e), J!Open) \in SUBSET J!OfSource(e)
    BY DEF J!InState
  <1>5. Cardinality(J!InState(J!OfSource(e), J!Open)) \in Nat
    BY <1>3, <1>4, FS_Subset, FS_CardinalityType
  <1> QED BY <1>1, <1>3, <1>5 DEF OpenCount

-----------------------------------------------------------------------------
(* What a step does to the rows *)

\* Open rows may pass to a state of S, and what waits has an attempt left.
RowsMove(S) ==
  /\ item' \in [Keys -> J!ItemRow] /\ pruned' = {}
  /\ \A k \in Keys :
       /\ item'[k].state # State(k) => State(k) \in J!Open /\ item'[k].state \in S
       /\ item'[k].state \in J!Waiting => item'[k].attempts < MAX_ATTEMPTS

LEMMA RowIs ==
  ASSUME JournalTyped, NEW k \in Keys
  PROVE  /\ item[k] \in J!ItemRow /\ item[k].attempts \in 0 .. MAX_ATTEMPTS
         /\ State(k) \in J!FINAL \cup J!Open \cup {"absent"}
         /\ State(k) \in J!Waiting => item[k].attempts < MAX_ATTEMPTS
PROOF
  BY DEF JournalTyped, State, J!ItemRow

LEMMA RowWith ==
  ASSUME NEW r \in J!ItemRow, NEW s
  PROVE  [r EXCEPT !.state = s] = [state |-> s, attempts |-> r.attempts]
PROOF
  BY DEF J!ItemRow

\* What one row may become.
RowMoves(r, q, S) ==
  /\ q \in J!ItemRow
  /\ q.state # r.state => r.state \in J!Open /\ q.state \in S
  /\ q.state \in J!Waiting => q.attempts < MAX_ATTEMPTS

LEMMA MoveRows ==
  ASSUME NEW S, item' = [k \in Keys |-> item'[k]], pruned' = {},
         \A k \in Keys : RowMoves(item[k], item'[k], S)
  PROVE  RowsMove(S)
PROOF
  <1>1. \A k \in Keys : item'[k] \in J!ItemRow
    BY DEF RowMoves
  <1>2. item' \in [Keys -> J!ItemRow]
    BY <1>1
  <1> QED BY <1>2 DEF RowsMove, RowMoves, State

LEMMA SameMoves ==
  ASSUME JournalTyped, NEW k \in Keys, NEW S
  PROVE  RowMoves(item[k], item[k], S)
PROOF
  BY RowIs DEF RowMoves, State

LEMMA StateMoves ==
  ASSUME JournalTyped, NEW k \in Keys, NEW state \in J!FINAL \cup J!Open, State(k) \in J!Open,
         state \in J!Waiting => item[k].attempts < MAX_ATTEMPTS
  PROVE  RowMoves(item[k], [item[k] EXCEPT !.state = state], {state})
PROOF
  <1>1. item[k] \in J!ItemRow
    BY RowIs
  <1>2. [item[k] EXCEPT !.state = state] = [state |-> state, attempts |-> item[k].attempts]
    BY <1>1, RowWith
  <1>3. item[k].attempts \in 0 .. MAX_ATTEMPTS
    BY RowIs
  <1>4. [state |-> state, attempts |-> item[k].attempts] \in J!ItemRow
    BY <1>3 DEF J!ItemRow
  <1> QED BY <1>2, <1>4 DEF RowMoves, State

LEMMA MovesWider ==
  ASSUME NEW r, NEW q, NEW S, NEW T, S \subseteq T, RowMoves(r, q, S)
  PROVE  RowMoves(r, q, T)
PROOF
  BY DEF RowMoves

LEMMA RowsStay == ASSUME JournalTyped, UNCHANGED <<item, pruned>>, NEW S PROVE RowsMove(S)
PROOF
  BY DEF JournalTyped, RowsMove, State

LEMMA ClaimAt ==
  ASSUME JournalTyped, NEW K \in SUBSET Keys, J!Claim(K)
  PROVE  RowsMove({"processing"}) /\ UNCHANGED source
PROOF
  <1>1. ASSUME NEW k \in Keys PROVE RowMoves(item[k], item'[k], {"processing"})
    <2>1. CASE k \in K /\ State(k) \in J!Waiting
      <3>1. item'[k] = [state |-> "processing", attempts |-> item[k].attempts + 1]
        BY <2>1 DEF State, Keys, J!Claim, J!SetItems, J!InState, J!ToClaimed
      <3>2. item[k].attempts + 1 \in 0 .. MAX_ATTEMPTS
        BY <2>1, RowIs, Bounds
      <3>3. [state |-> "processing", attempts |-> item[k].attempts + 1] \in J!ItemRow
        BY <3>2 DEF J!ItemRow, J!Open
      <3> QED BY <2>1, <3>1, <3>3 DEF RowMoves, State, J!Open, J!Waiting
    <2>2. CASE ~(k \in K /\ State(k) \in J!Waiting)
      <3>1. item'[k] = item[k]
        BY <2>2 DEF State, Keys, J!Claim, J!SetItems, J!InState
      <3> QED BY <3>1, SameMoves
    <2> QED BY <2>1, <2>2
  <1>2. item' = [k \in Keys |-> item'[k]]
    BY DEF Keys, J!Claim, J!SetItems
  <1> QED BY <1>1, <1>2, MoveRows DEF J!Claim, JournalTyped

LEMMA FinishAt ==
  ASSUME JournalTyped, NEW K \in SUBSET Keys, NEW state \in J!FINAL \cup {"needs_review"},
         J!Finish(K, state)
  PROVE  /\ RowsMove({state}) /\ UNCHANGED source
         /\ \A k \in Keys : item'[k].state =
              IF k \in K /\ State(k) \in J!Open THEN state ELSE State(k)
PROOF
  <1>0. ASSUME NEW k \in Keys
        PROVE  item'[k] = IF k \in K /\ State(k) \in J!Open
                            THEN [item[k] EXCEPT !.state = state] ELSE item[k]
    BY DEF State, Keys, J!Finish, J!SetItems, J!InState
  <1>1. ASSUME NEW k \in Keys PROVE RowMoves(item[k], item'[k], {state})
    <2>1. CASE k \in K /\ State(k) \in J!Open
      <3>1. state \notin J!Waiting /\ state \in J!FINAL \cup J!Open
        BY DEF J!Waiting, J!FINAL, J!Open
      <3> QED BY <1>0, <2>1, <3>1, StateMoves
    <2>2. CASE ~(k \in K /\ State(k) \in J!Open)
      BY <1>0, <2>2, SameMoves
    <2> QED BY <2>1, <2>2
  <1>2. item' = [k \in Keys |-> item'[k]]
    BY DEF Keys, J!Finish, J!SetItems
  <1>3. ASSUME NEW k \in Keys
        PROVE  item'[k].state = IF k \in K /\ State(k) \in J!Open THEN state ELSE State(k)
    <2>1. [item[k] EXCEPT !.state = state].state = state
      <3>1. item[k] \in J!ItemRow
        BY RowIs
      <3>2. [item[k] EXCEPT !.state = state] = [state |-> state, attempts |-> item[k].attempts]
        BY <3>1, RowWith
      <3> QED BY <3>2
    <2> QED BY <1>0, <2>1 DEF State
  <1> QED BY <1>1, <1>2, <1>3, MoveRows DEF J!Finish, JournalTyped

LEMMA RetryLaterAt ==
  ASSUME JournalTyped, NEW K \in SUBSET Keys, NEW counted \in BOOLEAN, J!RetryLater(K, counted)
  PROVE  /\ RowsMove({"retry_wait", "needs_review"}) /\ UNCHANGED source
         /\ \A k \in Keys : State(k) = "needs_review" => item'[k].state = "needs_review"
PROOF
  <1> DEFINE T == J!Waiting \cup {"processing"}
  <1>0. ASSUME NEW k \in Keys
        PROVE  item'[k] = IF k \in K /\ State(k) \in T
                            THEN IF counted THEN J!Counted(item[k]) ELSE J!Uncounted(item[k])
                            ELSE item[k]
    BY DEF State, Keys, J!RetryLater, J!SetItems, J!InState
  <1>1. ASSUME NEW k \in Keys PROVE RowMoves(item[k], item'[k], {"retry_wait", "needs_review"})
    <2>1. CASE k \in K /\ State(k) \in T
      <3> DEFINE a == item[k].attempts
                 n == IF State(k) = "processing" THEN a ELSE a + 1
                 m == IF State(k) = "processing" THEN (IF a - 1 >= 0 THEN a - 1 ELSE 0) ELSE a
      <3>1. a \in 0 .. MAX_ATTEMPTS /\ (State(k) \in J!Waiting => a < MAX_ATTEMPTS)
        BY RowIs
      <3>2. n \in 0 .. MAX_ATTEMPTS /\ m \in 0 .. MAX_ATTEMPTS /\ m < MAX_ATTEMPTS
        BY <2>1, <3>1, Bounds
      <3>3. J!Counted(item[k]) =
              [state |-> IF n >= MAX_ATTEMPTS THEN "needs_review" ELSE "retry_wait", attempts |-> n]
        BY DEF J!Counted, State
      <3>4. J!Uncounted(item[k]) = [state |-> "retry_wait", attempts |-> m]
        BY DEF J!Uncounted, J!Larger, State
      <3> HIDE DEF n, m, a
      <3>5. ASSUME counted PROVE RowMoves(item[k], item'[k], {"retry_wait", "needs_review"})
        <4>1. CASE n >= MAX_ATTEMPTS
          <5>1. item'[k] = [state |-> "needs_review", attempts |-> n]
            BY <1>0, <2>1, <3>3, <3>5, <4>1
          <5>2. [state |-> "needs_review", attempts |-> n] \in J!ItemRow
            BY <3>2 DEF J!ItemRow, J!Open
          <5> QED BY <2>1, <5>1, <5>2 DEF RowMoves, State, J!Open, J!Waiting
        <4>2. CASE ~(n >= MAX_ATTEMPTS)
          <5>1. item'[k] = [state |-> "retry_wait", attempts |-> n]
            BY <1>0, <2>1, <3>3, <3>5, <4>2
          <5>2. [state |-> "retry_wait", attempts |-> n] \in J!ItemRow
            BY <3>2 DEF J!ItemRow, J!Open, J!Waiting
          <5>3. n < MAX_ATTEMPTS
            BY <3>2, <4>2, Bounds
          <5> QED BY <2>1, <5>1, <5>2, <5>3 DEF RowMoves, State, J!Open, J!Waiting
        <4> QED BY <4>1, <4>2
      <3>6. ASSUME ~counted PROVE RowMoves(item[k], item'[k], {"retry_wait", "needs_review"})
        <4>1. item'[k] = [state |-> "retry_wait", attempts |-> m]
          BY <1>0, <2>1, <3>4, <3>6
        <4>2. [state |-> "retry_wait", attempts |-> m] \in J!ItemRow
          BY <3>2 DEF J!ItemRow, J!Open, J!Waiting
        <4> QED BY <2>1, <3>2, <4>1, <4>2 DEF RowMoves, State, J!Open, J!Waiting
      <3> QED BY <3>5, <3>6
    <2>2. CASE ~(k \in K /\ State(k) \in T)
      BY <1>0, <2>2, SameMoves
    <2> QED BY <2>1, <2>2
  <1>2. item' = [k \in Keys |-> item'[k]]
    BY DEF Keys, J!RetryLater, J!SetItems
  <1>3. \A k \in Keys : State(k) = "needs_review" => item'[k].state = "needs_review"
    BY <1>0 DEF State, J!Waiting
  <1> QED BY <1>1, <1>2, <1>3, MoveRows DEF J!RetryLater, JournalTyped

LEMMA ReconcileAt ==
  ASSUME JournalTyped, J!Reconcile({})
  PROVE  /\ RowsMove({"pending", "needs_review"}) /\ UNCHANGED source
         /\ \A k \in Keys : State(k) = "needs_review" => item'[k].state = "needs_review"
PROOF
  <1>0. ASSUME NEW k \in Keys
        PROVE  item'[k] = IF State(k) = "processing"
                 THEN IF item[k].attempts < MAX_ATTEMPTS THEN [item[k] EXCEPT !.state = "pending"]
                      ELSE [item[k] EXCEPT !.state = "needs_review"]
                 ELSE item[k]
    BY KeysAre DEF State, Keys, J!Reconcile, J!Interrupted, J!ToReview
  <1>1. ASSUME NEW k \in Keys PROVE RowMoves(item[k], item'[k], {"pending", "needs_review"})
    <2>1. CASE State(k) # "processing"
      BY <1>0, <2>1, SameMoves
    <2>2. CASE State(k) = "processing" /\ item[k].attempts < MAX_ATTEMPTS
      <3>1. item'[k] = [item[k] EXCEPT !.state = "pending"]
        BY <1>0, <2>2
      <3>2. RowMoves(item[k], item'[k], {"pending"})
        BY <2>2, <3>1, StateMoves DEF J!Open, J!Waiting
      <3> QED BY <3>2, MovesWider
    <2>3. CASE State(k) = "processing" /\ ~(item[k].attempts < MAX_ATTEMPTS)
      <3>1. item'[k] = [item[k] EXCEPT !.state = "needs_review"]
        BY <1>0, <2>3
      <3>2. RowMoves(item[k], item'[k], {"needs_review"})
        BY <2>3, <3>1, StateMoves DEF J!Open, J!Waiting
      <3> QED BY <3>2, MovesWider
    <2> QED BY <2>1, <2>2, <2>3
  <1>2. item' = [k \in Keys |-> item'[k]]
    BY DEF Keys, J!Reconcile
  <1>3. \A k \in Keys : State(k) = "needs_review" => item'[k].state = "needs_review"
    BY <1>0 DEF State
  <1> QED BY <1>1, <1>2, <1>3, MoveRows DEF J!Reconcile, JournalTyped

LEMMA ResetMoves ==
  ASSUME JournalTyped, NEW k \in Keys, State(k) = "needs_review"
  PROVE  RowMoves(item[k], J!ToPendingReset(item[k]), {"pending"})
PROOF
  <1>1. [state |-> "pending", attempts |-> 0] \in J!ItemRow
    BY Bounds DEF J!ItemRow, J!Open, J!Waiting
  <1>2. 0 < MAX_ATTEMPTS
    BY Bounds
  <1> QED BY <1>1, <1>2 DEF RowMoves, State, J!Open, J!ToPendingReset

LEMMA RequeueAt ==
  ASSUME JournalTyped, NEW s \in Epochs, NEW K, J!Requeue(s, K)
  PROVE  /\ RowsMove({"pending"}) /\ UNCHANGED source
         /\ \A k \in Keys : k \notin J!OfSource(s) => item'[k].state = State(k)
PROOF
  <1>0. ASSUME NEW k \in Keys
        PROVE  item'[k] = IF k \in K /\ k \in J!OfSource(s) /\ State(k) = "needs_review"
                            THEN J!ToPendingReset(item[k]) ELSE item[k]
    BY DEF State, Keys, J!Requeue, J!SetItems, J!InState
  <1>1. ASSUME NEW k \in Keys PROVE RowMoves(item[k], item'[k], {"pending"})
    BY <1>0, SameMoves, ResetMoves
  <1>2. item' = [k \in Keys |-> item'[k]]
    BY DEF Keys, J!Requeue, J!SetItems
  <1>3. \A k \in Keys : k \notin J!OfSource(s) => item'[k].state = State(k)
    BY <1>0 DEF State
  <1> QED BY <1>1, <1>2, <1>3, MoveRows DEF J!Requeue, JournalTyped

LEMMA ReviewAt ==
  ASSUME JournalTyped, NEW x \in Keys, J!ReviewRetry(x) \/ J!ReviewDismiss(x)
  PROVE  /\ RowsMove({"pending", "ignored"}) /\ UNCHANGED source
         /\ \A k \in Keys : k # x => item'[k].state = State(k)
PROOF
  <1>1. item \in [Keys -> J!ItemRow] /\ State(x) = "needs_review"
    BY DEF JournalTyped, State, J!ReviewRetry, J!ReviewDismiss
  <1>2. item' = [k \in Keys |-> item'[k]] /\ \A k \in Keys : k # x => item'[k] = item[k]
    BY <1>1 DEF J!ReviewRetry, J!ReviewDismiss
  <1>3. RowMoves(item[x], item'[x], {"pending", "ignored"})
    <2>1. CASE J!ReviewRetry(x)
      <3>1. item'[x] = J!ToPendingReset(item[x])
        BY <1>1, <2>1 DEF J!ReviewRetry
      <3>2. RowMoves(item[x], item'[x], {"pending"})
        BY <1>1, <3>1, ResetMoves
      <3> QED BY <3>2, MovesWider
    <2>2. CASE J!ReviewDismiss(x)
      <3>1. item'[x] = [item[x] EXCEPT !.state = "ignored"]
        BY <1>1, <2>2 DEF J!ReviewDismiss
      <3>2. RowMoves(item[x], item'[x], {"ignored"})
        BY <1>1, <3>1, StateMoves DEF J!FINAL, J!Open, J!Waiting
      <3> QED BY <3>2, MovesWider
    <2> QED BY <2>1, <2>2
  <1>4. ASSUME NEW k \in Keys PROVE RowMoves(item[k], item'[k], {"pending", "ignored"})
    BY <1>2, <1>3, SameMoves
  <1> QED BY <1>2, <1>4, MoveRows DEF J!ReviewRetry, J!ReviewDismiss, JournalTyped, State

LEMMA RetireAt ==
  ASSUME JournalTyped, NEW s \in Epochs, J!Retire(s)
  PROVE  /\ RowsMove({"needs_review"})
         /\ source' = [source EXCEPT ![s].state = "retired", ![s].reappeared = FALSE]
         /\ \A k \in Keys : State(k) = "needs_review" => item'[k].state = "needs_review"
PROOF
  <1>0. ASSUME NEW k \in Keys
        PROVE  item'[k] = IF k \in J!OfSource(s) /\ State(k) \in J!Waiting
                            THEN [item[k] EXCEPT !.state = "needs_review"] ELSE item[k]
    BY DEF State, Keys, J!Retire, J!SetItems, J!InState, J!ToReview
  <1>1. ASSUME NEW k \in Keys PROVE RowMoves(item[k], item'[k], {"needs_review"})
    BY <1>0, SameMoves, StateMoves DEF J!Open, J!Waiting
  <1>2. item' = [k \in Keys |-> item'[k]]
    BY DEF Keys, J!Retire, J!SetItems
  <1>3. \A k \in Keys : State(k) = "needs_review" => item'[k].state = "needs_review"
    BY <1>0 DEF State, J!Waiting
  <1> QED BY <1>1, <1>2, <1>3, MoveRows DEF J!Retire, JournalTyped

-----------------------------------------------------------------------------
(* What a step does to the sources *)

LEMMA SourceIs ==
  ASSUME JournalTyped, NEW e \in Epochs
  PROVE  /\ source[e] \in J!SourceRow /\ Enum(e) \in Posn
         /\ source[e].state \in {"none", "active", "migration_needs_review", "retired"}
PROOF
  BY DEF JournalTyped, J!SourceRow, J!Pos, Posn, Enum

LEMMA SourceWith ==
  ASSUME JournalTyped, NEW s \in Epochs, NEW q \in J!SourceRow, source' = [source EXCEPT ![s] = q]
  PROVE  /\ source' \in [Epochs -> J!SourceRow] /\ source'[s] = q
         /\ \A e \in Epochs \ {s} : source'[e] = source[e]
PROOF
  BY DEF JournalTyped

\* Only the row of s moves: its state and its cursor are these now.
SourceMoves(s, state, cursor) ==
  /\ source' \in [Epochs -> J!SourceRow]
  /\ source'[s].state = state /\ source'[s].enumerated = cursor
  /\ \A e \in Epochs \ {s} : source'[e] = source[e]

LEMMA SourceRetires ==
  ASSUME JournalTyped, NEW s \in Epochs, J!Retire(s)
  PROVE  SourceMoves(s, "retired", Enum(s))
PROOF
  <1> DEFINE q == [source[s] EXCEPT !.state = "retired", !.reappeared = FALSE]
  <1>1. source' = [source EXCEPT ![s] = q]
    BY DEF J!Retire
  <1>2. source[s] \in J!SourceRow
    BY SourceIs
  <1>3. q \in J!SourceRow /\ q.state = "retired" /\ q.enumerated = source[s].enumerated
    BY <1>2 DEF J!SourceRow
  <1> HIDE DEF q
  <1> QED BY <1>1, <1>3, SourceWith DEF SourceMoves, Enum

LEMMA SourceAdopted ==
  ASSUME JournalTyped, NEW s \in Epochs, J!Adopt(s)
  PROVE  SourceMoves(s, "active", Enum(s)) /\ Exists(s) /\ RowsMove({})
PROOF
  <1> DEFINE q == [source[s] EXCEPT !.state = "active", !.reappeared = FALSE]
  <1>1. source' = [source EXCEPT ![s] = q]
    BY DEF J!Adopt
  <1>2. source[s] \in J!SourceRow
    BY SourceIs
  <1>3. q \in J!SourceRow /\ q.state = "active" /\ q.enumerated = source[s].enumerated
    BY <1>2 DEF J!SourceRow
  <1> HIDE DEF q
  <1>4. Exists(s) /\ RowsMove({})
    BY RowsStay DEF J!Adopt, Exists
  <1> QED BY <1>1, <1>3, <1>4, SourceWith DEF SourceMoves, Enum

\* The cursor restarts at p where the source is still held, and else does not go back.
LEMMA SourceMigrated ==
  ASSUME JournalTyped, NEW s \in Epochs, NEW p \in Posn, J!MigrateTo(s, p)
  PROVE  /\ Exists(s) /\ RowsMove({})
         /\ SourceMoves(s, "active", IF source[s].state = "migration_needs_review" THEN p
                                     ELSE J!Larger(Enum(s), p))
PROOF
  <1>1. source[s] \in J!SourceRow /\ Enum(s) \in Posn
    BY SourceIs
  <1>2. Exists(s) /\ RowsMove({})
    BY RowsStay DEF J!MigrateTo, J!MigrateHeld, J!MigrateLate, Exists
  <1>3. CASE J!MigrateHeld(s, p)
    <2>1. PICK t \in J!Pos :
            source' = [source EXCEPT ![s].state = "active", ![s].reappeared = FALSE,
                                     ![s].enumerated = p, ![s].settled = t]
      BY <1>3 DEF J!MigrateHeld
    <2> DEFINE q == [source[s] EXCEPT !.state = "active", !.reappeared = FALSE,
                                      !.enumerated = p, !.settled = t]
    <2>2. source' = [source EXCEPT ![s] = q]
      BY <2>1
    <2>3. q \in J!SourceRow /\ q.state = "active" /\ q.enumerated = p
      BY <1>1 DEF J!SourceRow, J!Pos, Posn
    <2> HIDE DEF q
    <2> QED BY <1>2, <1>3, <2>2, <2>3, SourceWith DEF SourceMoves, J!MigrateHeld
  <1>4. CASE J!MigrateLate(s, p)
    <2> DEFINE c == J!Larger(Enum(s), p)
               q == [source[s] EXCEPT !.state = "active", !.reappeared = FALSE, !.enumerated = c]
    <2>1. source' = [source EXCEPT ![s] = q]
      BY <1>4 DEF J!MigrateLate, Enum
    <2>2. c \in Posn
      BY <1>1 DEF J!Larger
    <2> HIDE DEF c
    <2>3. q \in J!SourceRow /\ q.state = "active" /\ q.enumerated = c
      BY <1>1, <2>2 DEF J!SourceRow, J!Pos, Posn
    <2>4. source[s].state # "migration_needs_review"
      BY <1>4 DEF J!MigrateLate
    <2> HIDE DEF q
    <2> QED BY <1>2, <2>1, <2>3, <2>4, SourceWith DEF SourceMoves, c
  <1> QED BY <1>3, <1>4 DEF J!MigrateTo

LEMMA SourceSettled ==
  ASSUME JournalTyped, NEW s \in Epochs, J!Settle(s)
  PROVE  SourceMoves(s, source[s].state, Enum(s)) /\ RowsMove({})
PROOF
  <1>1. PICK t \in J!Pos : source' = [source EXCEPT ![s].settled = J!Larger(@, t)]
    BY DEF J!Settle
  <1> DEFINE c == J!Larger(source[s].settled, t)
             q == [source[s] EXCEPT !.settled = c]
  <1>2. source' = [source EXCEPT ![s] = q]
    BY <1>1
  <1>3. source[s] \in J!SourceRow
    BY SourceIs
  <1>4. c \in J!Pos
    BY <1>3 DEF J!Larger, J!SourceRow
  <1> HIDE DEF c
  <1>5. q \in J!SourceRow /\ q.state = source[s].state /\ q.enumerated = source[s].enumerated
    BY <1>3, <1>4 DEF J!SourceRow
  <1> HIDE DEF q
  <1> QED BY <1>2, <1>5, SourceWith, RowsStay DEF SourceMoves, Enum, J!Settle

\* New rows of one source; what has a row keeps it.
LEMMA AdmitAt ==
  ASSUME JournalTyped, NEW s \in Epochs, NEW uids \in SUBSET Uids, NEW c \in Posn,
         J!Admit(s, [k \in {Key(s, u) : u \in uids} |-> "pending"], c)
  PROVE  /\ SourceMoves(s, source[s].state, J!Larger(Enum(s), c))
         /\ item' \in [Keys -> J!ItemRow] /\ pruned' = {}
         /\ \A k \in Keys :
              /\ item'[k].state = IF State(k) = "absent" /\ k.src = s /\ k.pos \in uids
                                    THEN "pending" ELSE State(k)
              /\ item'[k].state \in J!Waiting => item'[k].attempts < MAX_ATTEMPTS
PROOF
  <1> DEFINE rows == [k \in {Key(s, u) : u \in uids} |-> "pending"]
  <1>1. source[s] \in J!SourceRow /\ Enum(s) \in Posn
    BY SourceIs
  <1>2. SourceMoves(s, source[s].state, J!Larger(Enum(s), c))
    <2> DEFINE b == J!Larger(Enum(s), c)
               q == [source[s] EXCEPT !.enumerated = b]
    <2>1. source' = [source EXCEPT ![s] = q]
      BY DEF J!Admit, Enum
    <2>2. b \in Posn
      BY <1>1 DEF J!Larger
    <2> HIDE DEF b
    <2>3. q \in J!SourceRow /\ q.state = source[s].state /\ q.enumerated = b
      BY <1>1, <2>2 DEF J!SourceRow, J!Pos, Posn
    <2> HIDE DEF q
    <2> QED BY <2>1, <2>3, SourceWith DEF SourceMoves, b
  <1>3. ASSUME NEW k \in Keys PROVE k \in DOMAIN rows <=> k.src = s /\ k.pos \in uids
    <2>1. DOMAIN rows = {Key(s, u) : u \in uids}
      OBVIOUS
    <2>2. ASSUME NEW u \in uids, k = Key(s, u) PROVE k.src = s /\ k.pos \in uids
      BY <2>2, KeysAre
    <2>3. ASSUME k.src = s, k.pos \in uids PROVE k = Key(s, k.pos)
      BY <2>3, KeysAre
    <2> QED BY <2>1, <2>2, <2>3
  <1>4. ASSUME NEW k \in DOMAIN rows PROVE rows[k] = "pending"
    OBVIOUS
  <1>5. ASSUME NEW k \in Keys
        PROVE  item'[k] = IF k \in DOMAIN rows /\ State(k) = "absent"
                            THEN [J!NoItem EXCEPT !.state = rows[k]] ELSE item[k]
    BY DEF J!Admit, Keys, State
  <1> HIDE DEF rows
  <1>6. [J!NoItem EXCEPT !.state = "pending"] = [state |-> "pending", attempts |-> 0]
    BY DEF J!NoItem
  <1>7. [state |-> "pending", attempts |-> 0] \in J!ItemRow /\ 0 < MAX_ATTEMPTS
    BY Bounds DEF J!ItemRow, J!Open, J!Waiting
  <1>8. ASSUME NEW k \in Keys
        PROVE  /\ item'[k] \in J!ItemRow
               /\ item'[k].state = IF State(k) = "absent" /\ k.src = s /\ k.pos \in uids
                                     THEN "pending" ELSE State(k)
               /\ item'[k].state \in J!Waiting => item'[k].attempts < MAX_ATTEMPTS
    <2>1. CASE k \in DOMAIN rows /\ State(k) = "absent"
      <3>1. item'[k] = [state |-> "pending", attempts |-> 0]
        BY <1>4, <1>5, <1>6, <2>1
      <3> QED BY <1>3, <1>7, <2>1, <3>1
    <2>2. CASE ~(k \in DOMAIN rows /\ State(k) = "absent")
      <3>1. item'[k] = item[k]
        BY <1>5, <2>2
      <3> QED BY <1>3, <2>2, <3>1, RowIs DEF State
    <2> QED BY <2>1, <2>2
  <1>9. item' = [k \in Keys |-> item'[k]] /\ pruned' = {}
    BY DEF J!Admit, Keys, JournalTyped
  <1>10. item' \in [Keys -> J!ItemRow]
    BY <1>8, <1>9
  <1> QED BY <1>2, <1>8, <1>9, <1>10

\* A first row, a retired one again, or the row that is there.
LEMMA CreateAt ==
  ASSUME JournalTyped, NEW e \in Epochs, NEW from \in Posn,
         NEW state \in {"active", "migration_needs_review"}, Create(e, from, state)
  PROVE  /\ SourceMoves(e, IF source[e].state \in {"none", "retired"} THEN state ELSE source[e].state,
                        IF Exists(e) THEN Enum(e) ELSE from)
         /\ IF Exists(e) THEN UNCHANGED <<id, start>>
            ELSE /\ id' = [id EXCEPT ![e] = 1 + Cardinality({f \in Epochs : id[f] > 0})]
                 /\ start' = [start EXCEPT ![e] = from]
         /\ RowsMove({})
PROOF
  <1>1. source[e] \in J!SourceRow
    BY SourceIs
  <1>2. CASE J!CreateSource(e, from, state) /\ ~Exists(e)
    <2> DEFINE q == [J!NoSource EXCEPT !.state = state, !.enumerated = from, !.settled = from]
    <2>1. source' = [source EXCEPT ![e] = q]
      BY <1>2 DEF J!CreateSource, Exists
    <2>2. J!NoSource \in J!SourceRow
      BY Bounds DEF J!NoSource, J!SourceRow, J!Pos, Posn
    <2>3. q \in J!SourceRow /\ q.state = state /\ q.enumerated = from
      BY <2>2 DEF J!SourceRow, J!Pos, Posn
    <2>4. J!CreateSource(e, from, state) /\ source[e].state = "none" /\ e \notin Live
      BY <1>2 DEF Exists, Live
    <2>5. /\ id' = [id EXCEPT ![e] = 1 + Cardinality({f \in Epochs : id[f] > 0})]
          /\ start' = [start EXCEPT ![e] = from]
      BY <2>4 DEF Create
    <2> HIDE DEF q
    <2> QED BY <1>2, <2>1, <2>3, <2>4, <2>5, SourceWith, RowsStay
            DEF SourceMoves, Enum, J!CreateSource
  <1>3. CASE J!CreateSource(e, from, state) /\ Exists(e)
    <2> DEFINE q == [source[e] EXCEPT !.state = state]
    <2>1. source[e].state = "retired" /\ e \notin Live
      BY <1>3 DEF J!CreateSource, Exists, Live
    <2>2. source' = [source EXCEPT ![e] = q]
      BY <1>3, <2>1 DEF J!CreateSource
    <2>3. q \in J!SourceRow /\ q.state = state /\ q.enumerated = source[e].enumerated
      BY <1>1 DEF J!SourceRow
    <2>4. UNCHANGED <<id, start>>
      BY <2>1 DEF Create
    <2> HIDE DEF q
    <2> QED BY <1>3, <2>1, <2>2, <2>3, <2>4, SourceWith, RowsStay
            DEF SourceMoves, Enum, J!CreateSource
  <1>4. CASE ~J!CreateSource(e, from, state)
    <2>1. e \in Live /\ UNCHANGED <<journal, id, start>>
      BY <1>4 DEF Create
    <2>2. Exists(e) /\ source[e].state \notin {"none", "retired"}
      BY <2>1 DEF Live, Exists
    <2> QED BY <2>1, <2>2, RowsStay DEF SourceMoves, Enum, journal, JournalTyped
  <1> QED BY <1>2, <1>3, <1>4

-----------------------------------------------------------------------------
(* What the loops hold *)

LEMMA IntakeIs ==
  ASSUME IntakeTyped
  PROVE  /\ intake.phase \in {"idle", "first", "create first", "held", "asked", "page", "mark",
                              "retire", "create", "settle"}
         /\ intake.phase = "create first" => intake.to \in Epochs /\ intake.newest \in Posn
         /\ intake.phase \in {"held", "settle", "asked", "page", "mark", "retire", "create"} =>
              intake.src \in Epochs
         /\ intake.phase = "asked" => intake.after \in Posn /\ intake.limit \in Nat \ {0}
         /\ intake.phase = "page" =>
              /\ intake.epoch \in Epochs /\ intake.uids \in SUBSET Uids
              /\ intake.through \in {NoBound} \cup Posn /\ intake.next \in Posn
         /\ intake.phase \in {"mark", "retire", "create"} => intake.to \in Epochs
PROOF
  BY DEF IntakeTyped

LEMMA ReaderIs ==
  ASSUME ReaderTyped
  PROVE  /\ reader.phase \in {"idle", "operator", "next", "get", "got", "llm", "settle"}
         /\ reader.phase # "idle" => reader.src \in Epochs
         /\ reader.phase \in {"operator", "next", "get", "got", "llm"} => reader.batch \in SUBSET Uids
         /\ reader.phase \in {"get", "got", "llm"} => reader.uid \in Uids
         /\ reader.phase = "got" => reader.answer \in Answer
         /\ reader.phase = "llm" => reader.msg \in Msgs
PROOF
  BY DEF ReaderTyped

LEMMA CurrentAt ==
  ASSUME ReaderTyped, Reading, reader.phase \in {"get", "got", "llm"}
  PROVE  /\ Current \in Keys /\ {Current} \in SUBSET Keys /\ State(Current) # "absent"
         /\ Current.src = reader.src /\ Current.pos = reader.uid
         /\ reader.src \in Epochs /\ reader.uid \in Uids
PROOF
  <1>1. reader.src \in Epochs /\ reader.uid \in Uids
    BY ReaderIs
  <1>2. Current \in Keys /\ Current.src = reader.src /\ Current.pos = reader.uid
    BY <1>1, KeysAre DEF Current
  <1>3. State(Current) # "absent"
    BY DEF Reading
  <1> QED BY <1>1, <1>2, <1>3

\* What a row becomes that was not read by the language model.
Unread == (J!FINAL \cup J!Open) \ {"processed"}

LEMMA RowsWiden ==
  ASSUME NEW S, NEW T, S \subseteq T, RowsMove(S)
  PROVE  RowsMove(T)
PROOF
  BY DEF RowsMove

Noted == noted \subseteq J!InState(Keys, {"needs_review"})

\* A disposition finishes the row of the moment, and notes its id.
LEMMA DisposeAt ==
  ASSUME JournalTyped, ColumnsTyped, Current \in Keys,
         NEW state \in J!FINAL, NEW m \in Msgs, Dispose(state, m)
  PROVE  /\ RowsMove({state}) /\ UNCHANGED <<source, id, scan, mark>> /\ Noted'
         /\ \A k \in Keys : item'[k].state =
              IF k = Current /\ State(k) \in J!Open THEN state ELSE State(k)
         /\ msgid' = IF State(Current) \notin J!FINAL /\ m # NoId
                       THEN [msgid EXCEPT ![Current] = m] ELSE msgid
PROOF
  <1>1. J!Finish({Current}, state) /\ {Current} \in SUBSET Keys
    BY DEF Dispose
  <1>2. /\ RowsMove({state}) /\ UNCHANGED source
        /\ \A k \in Keys : item'[k].state =
              IF k \in {Current} /\ State(k) \in J!Open THEN state ELSE State(k)
    BY <1>1, FinishAt
  <1>3. Noted'
    <2>1. noted' = noted \ {Current} /\ noted \subseteq J!InState(Keys, {"needs_review"})
      BY DEF Dispose, ColumnsTyped
    <2> QED BY <1>2, <2>1 DEF Noted, J!InState, State, Keys, J!Keys
  <1> QED BY <1>2, <1>3 DEF Dispose, State

LEMMA ReviewHolds ==
  ASSUME JournalTyped, ColumnsTyped, Current \in Keys, State(Current) # "absent",
         NEW unavailable \in BOOLEAN, Review(unavailable)
  PROVE  /\ RowsMove({"needs_review"}) /\ UNCHANGED <<source, id, scan, msgid, mark>> /\ Noted'
PROOF
  <1>1. J!Finish({Current}, "needs_review") /\ {Current} \in SUBSET Keys
    BY DEF Review
  <1>2. /\ RowsMove({"needs_review"}) /\ UNCHANGED source
        /\ \A k \in Keys : item'[k].state =
              IF k \in {Current} /\ State(k) \in J!Open THEN "needs_review" ELSE State(k)
    BY <1>1, FinishAt
  <1>3. Noted'
    <2>1. noted' = (IF unavailable /\ State(Current) \notin J!FINAL
                      THEN noted \cup {Current} ELSE noted \ {Current})
          /\ noted \subseteq J!InState(Keys, {"needs_review"})
      BY DEF Review, ColumnsTyped, State
    <2>2. State(Current) \notin J!FINAL => State(Current) \in J!Open
      BY RowIs
    <2> QED BY <1>2, <2>1, <2>2 DEF Noted, J!InState, State, Keys, J!Keys
  <1> QED BY <1>2, <1>3 DEF Review

LEMMA NotedStays ==
  ASSUME ColumnsTyped, noted' = noted,
         \A k \in Keys : State(k) = "needs_review" => item'[k].state = "needs_review"
  PROVE  Noted'
PROOF
  BY DEF ColumnsTyped, Noted, J!InState, State, Keys, J!Keys

LEMMA AgainAt ==
  ASSUME JournalTyped, ColumnsTyped, Current \in Keys, NEW counted \in BOOLEAN, Again(counted)
  PROVE  RowsMove({"retry_wait", "needs_review"}) /\ UNCHANGED <<source, columns>> /\ Noted'
PROOF
  <1>1. J!RetryLater({Current}, counted) /\ {Current} \in SUBSET Keys /\ noted' = noted
    BY DEF Again, columns
  <1> QED BY <1>1, RetryLaterAt, NotedStays DEF Again

\* What the reader's steps write, but for the mail it has read.
Writes ==
  /\ RowsMove(Unread) /\ UNCHANGED <<source, id, scan, mark>> /\ Noted'
  /\ \/ UNCHANGED msgid
     \/ /\ reader.phase = "got" /\ reader.answer \in Msgs \ {NoId} /\ ~Seen(reader.answer)
        /\ State(Current) \notin J!FINAL
        /\ item'[Current].state = "ignored"
        /\ msgid' = [msgid EXCEPT ![Current] = reader.answer]

LEMMA UnreadIs ==
  /\ {"needs_review"} \subseteq Unread /\ {"retry_wait", "needs_review"} \subseteq Unread
  /\ {"ignored"} \subseteq Unread /\ {"deleted"} \subseteq Unread /\ {"processing"} \subseteq Unread
  /\ {"pending"} \subseteq Unread /\ {"pending", "ignored"} \subseteq Unread
  /\ {"pending", "needs_review"} \subseteq Unread /\ {} \subseteq Unread
PROOF
  BY DEF Unread, J!FINAL, J!Open, J!Waiting

LEMMA GetReplyWrites == ASSUME IInv, GetReply PROVE Writes
PROOF
  <1>1. /\ JournalTyped /\ ColumnsTyped /\ reader.phase = "got"
        /\ Current \in Keys /\ State(Current) # "absent" /\ reader.answer \in Answer
    BY CurrentAt, ReaderIs DEF IInv, Typed, GetReply
  <1>2. ASSUME NEW u \in BOOLEAN, Review(u) PROVE Writes
    BY <1>1, <1>2, ReviewHolds, UnreadIs, RowsWiden DEF Writes
  <1>3. ASSUME Dispose("deleted", NoId) PROVE Writes
    <2>1. RowsMove({"deleted"}) /\ UNCHANGED <<source, id, scan, mark>> /\ Noted' /\ msgid' = msgid
      BY <1>1, <1>3, DisposeAt, Bounds DEF J!FINAL
    <2> QED BY <2>1, UnreadIs, RowsWiden DEF Writes
  <1>4. ASSUME Dispose("ignored", NoId) PROVE Writes
    <2>1. RowsMove({"ignored"}) /\ UNCHANGED <<source, id, scan, mark>> /\ Noted' /\ msgid' = msgid
      BY <1>1, <1>4, DisposeAt, Bounds DEF J!FINAL
    <2> QED BY <2>1, UnreadIs, RowsWiden DEF Writes
  <1>5. ASSUME Again(FALSE) PROVE Writes
    <2>1. RowsMove({"retry_wait", "needs_review"}) /\ UNCHANGED <<source, columns>> /\ Noted'
      BY <1>1, <1>5, AgainAt
    <2> QED BY <2>1, UnreadIs, RowsWiden DEF Writes, columns
  <1>6. ASSUME UNCHANGED <<journal, columns>> PROVE Writes
    <2>1. UNCHANGED <<source, item, pruned, id, scan, msgid, noted, mark>>
      BY <1>6 DEF journal, columns
    <2>2. RowsMove(Unread)
      BY <1>1, <2>1, RowsStay
    <2>3. Noted'
      BY <1>1, <2>1, NotedStays DEF State
    <2> QED BY <2>1, <2>2, <2>3 DEF Writes
  <1>7. ASSUME reader.answer \in Msgs, ~(reader.answer # NoId /\ Seen(reader.answer)),
               Dispose("ignored", reader.answer)
        PROVE  Writes
    <2>1. /\ RowsMove({"ignored"}) /\ UNCHANGED <<source, id, scan, mark>> /\ Noted'
          /\ item'[Current].state = IF State(Current) \in J!Open THEN "ignored" ELSE State(Current)
          /\ msgid' = IF State(Current) \notin J!FINAL /\ reader.answer # NoId
                       THEN [msgid EXCEPT ![Current] = reader.answer] ELSE msgid
      BY <1>1, <1>7, DisposeAt DEF J!FINAL
    <2>2. State(Current) \notin J!FINAL => State(Current) \in J!Open
      BY <1>1, RowIs
    <2>3. RowsMove(Unread)
      BY <2>1, UnreadIs, RowsWiden
    <2> QED BY <1>1, <1>7, <2>1, <2>2, <2>3 DEF Writes
  <1>8. ASSUME reader.answer \in Msgs, ~(reader.answer # NoId /\ Seen(reader.answer)),
               Decide(reader.answer)
        PROVE  Writes
    BY <1>2, <1>5, <1>6, <1>7, <1>8 DEF Decide
  <1> QED BY <1>2, <1>3, <1>4, <1>8 DEF GetReply

-----------------------------------------------------------------------------
(* What any step does to the rows and the sources *)

Reads == ReadReply /\ Dispose("processed", reader.msg)
Arrives == PageArrives /\ intake.epoch = intake.src

\* The id of a mail the policy ignores.
IdNoted ==
  /\ reader.phase = "got" /\ reader.answer \in Msgs \ {NoId} /\ ~Seen(reader.answer)
  /\ State(Current) \notin J!FINAL /\ item'[Current].state = "ignored"
  /\ msgid' = [msgid EXCEPT ![Current] = reader.answer]

Moved == RowsMove(Unread) /\ Noted' /\ (UNCHANGED msgid \/ IdNoted)

LEMMA WritesMoved == ASSUME Writes PROVE Moved
PROOF BY DEF Writes, Moved, IdNoted

LEMMA StaysMoved ==
  ASSUME JournalTyped, ColumnsTyped, UNCHANGED <<item, pruned, noted, msgid>>
  PROVE  Moved
PROOF
  BY RowsStay, NotedStays DEF Moved, State

LEMMA ReadReplyMoves == ASSUME IInv, ReadReply PROVE Reads \/ Moved
PROOF
  <1>1. /\ JournalTyped /\ ColumnsTyped /\ Current \in Keys /\ State(Current) # "absent"
    BY CurrentAt DEF IInv, Typed, ReadReply
  <1>2. ASSUME NEW u \in BOOLEAN, Review(u) PROVE Moved
    BY <1>1, <1>2, ReviewHolds, UnreadIs, RowsWiden DEF Moved
  <1>3. ASSUME Again(TRUE) PROVE Moved
    <2>1. RowsMove({"retry_wait", "needs_review"}) /\ UNCHANGED <<source, columns>> /\ Noted'
      BY <1>1, <1>3, AgainAt
    <2> QED BY <2>1, UnreadIs, RowsWiden DEF Moved, columns
  <1> QED BY <1>2, <1>3 DEF ReadReply, Reads

LEMMA GetFailsMoves == ASSUME IInv, GetFails PROVE Moved /\ UNCHANGED <<source, id, scan, msgid, mark>>
PROOF
  <1>1. /\ JournalTyped /\ ColumnsTyped /\ Current \in Keys /\ State(Current) # "absent"
    BY CurrentAt DEF IInv, Typed, GetFails
  <1>2. ASSUME Review(FALSE) PROVE Moved /\ UNCHANGED <<source, id, scan, msgid, mark>>
    BY <1>1, <1>2, ReviewHolds, UnreadIs, RowsWiden DEF Moved
  <1>3. ASSUME Again(TRUE) PROVE Moved /\ UNCHANGED <<source, id, scan, msgid, mark>>
    <2>1. RowsMove({"retry_wait", "needs_review"}) /\ UNCHANGED <<source, columns>> /\ Noted'
      BY <1>1, <1>3, AgainAt
    <2> QED BY <2>1, UnreadIs, RowsWiden DEF Moved, columns
  <1> QED BY <1>2, <1>3 DEF GetFails

\* Steps that write no row of the journal.
Elsewhere ==
  \/ Deliver \/ Expunge \/ Reset
  \/ IntakeBegin \/ FirstProbe \/ HeldProbe \/ ServePage \/ MarkEpoch \/ IntakeFails
  \/ WorkBegin \/ OperatorReply \/ PassEnds \/ ServeMail
  \/ OperatorLooks \/ UNCHANGED vars

LEMMA ElsewhereAt ==
  ASSUME Elsewhere PROVE UNCHANGED <<source, item, pruned, id, scan, msgid, noted, start>>
PROOF
  BY DEF Elsewhere, Deliver, Expunge, Reset, IntakeBegin, FirstProbe, HeldProbe, ServePage,
     MarkEpoch, IntakeFails, WorkBegin, OperatorReply, PassEnds, ServeMail, OperatorLooks, vars,
     journal, columns

LEMMA Steps ==
  ASSUME [Next]_vars
  PROVE  \/ Elsewhere
         \/ FirstSource \/ CreateEpoch \/ RetireEpoch \/ PageArrives \/ OperatorMigrates
         \/ IntakeSettle \/ ReaderSettle
         \/ RequeueHeld \/ ClaimMail \/ GetReply \/ GetFails \/ ReadReply
         \/ Restart \/ OperatorRetry \/ OperatorDismiss
PROOF
  BY DEF Next, Intake, Reader, Elsewhere

\* The sources that any step leaves as they are.
Stay ==
  /\ UNCHANGED <<id, start>>
  /\ source' \in [Epochs -> J!SourceRow]
  /\ \A e \in Epochs : source'[e].state = source[e].state /\ source'[e].enumerated = Enum(e)

LEMMA StayAt == ASSUME JournalTyped, UNCHANGED <<source, id, start>> PROVE Stay
PROOF
  BY DEF JournalTyped, Stay, Enum

LEMMA SettleStays ==
  ASSUME JournalTyped, NEW s \in Epochs, J!Settle(s), UNCHANGED <<id, start>>
  PROVE  Stay
PROOF
  <1>1. SourceMoves(s, source[s].state, Enum(s))
    BY SourceSettled
  <1> QED BY <1>1 DEF SourceMoves, Stay, Enum

LEMMA MigrateWith ==
  ASSUME IInv, OperatorMigrates
  PROVE  \E c \in [src : Epochs, from : {NoBound} \cup Posn] :
           /\ Placed(c.src) /\ Exists(c.src) /\ cli' = NoCommand /\ RowsMove({})
           /\ \/ c.from = NoBound /\ SourceMoves(c.src, "active", Enum(c.src)) /\ UNCHANGED start
              \/ /\ c.from \in Posn
                 /\ SourceMoves(c.src, "active",
                      IF source[c.src].state = "migration_needs_review" THEN c.from
                      ELSE J!Larger(Enum(c.src), c.from))
                 /\ start' = IF source'[c.src].enumerated = c.from
                               THEN [start EXCEPT ![c.src] = c.from] ELSE start
           /\ ~SlowMigrate => source[c.src].state = "migration_needs_review"
PROOF
  <1>1. PICK c \in IF SlowMigrate THEN {cli} \ {NoCommand} ELSE Commands :
          IF c.from = NoBound THEN J!Adopt(c.src) /\ UNCHANGED start
          ELSE /\ J!MigrateTo(c.src, c.from)
               /\ start' = IF source'[c.src].enumerated = c.from
                             THEN [start EXCEPT ![c.src] = c.from] ELSE start
    BY DEF OperatorMigrates
  <1>2. JournalTyped /\ CommandTyped /\ SlowMigrate \in BOOLEAN
    BY MailAssumption DEF IInv, Typed, MailAssumption
  <1>3. /\ c \in [src : Epochs, from : {NoBound} \cup Posn]
        /\ ~SlowMigrate => source[c.src].state = "migration_needs_review"
        /\ SlowMigrate => cli # NoCommand /\ cli = c
    BY <1>2 DEF Commands, J!Pos, Posn, CommandTyped
  <1>4. c.src \in Epochs /\ c.from \in {NoBound} \cup Posn
    BY <1>3
  <1>5. Exists(c.src) /\ RowsMove({})
    BY <1>1, <1>2, <1>4, SourceAdopted, SourceMigrated
  <1>6. Placed(c.src)
    BY <1>3, <1>5, <1>2 DEF Placed
  <1>7. cli' = NoCommand
    BY DEF OperatorMigrates
  <1>8. CASE c.from = NoBound
    BY <1>1, <1>2, <1>3, <1>4, <1>5, <1>6, <1>7, <1>8, SourceAdopted
  <1>9. CASE c.from # NoBound
    BY <1>1, <1>2, <1>3, <1>4, <1>5, <1>6, <1>7, <1>9, SourceMigrated
  <1> QED BY <1>8, <1>9

LEMMA PageIs ==
  ASSUME IInv, Arrives
  PROVE  /\ SourceMoves(intake.src, "active", J!Larger(Enum(intake.src), intake.next))
         /\ intake.phase = "page" /\ intake.src \in Epochs /\ intake.uids \in SUBSET Uids
         /\ intake.next \in Posn
         /\ scan' = [scan EXCEPT ![intake.src] = intake.through]
         /\ UNCHANGED <<id, msgid, noted, mark, start, box, gone, epoch, reader, cli, ready, requeued>>
         /\ intake' = [phase |-> "settle", src |-> intake.src]
         /\ item' \in [Keys -> J!ItemRow] /\ pruned' = {}
         /\ \A k \in Keys :
              /\ item'[k].state = IF State(k) = "absent" /\ k.src = intake.src /\ k.pos \in intake.uids
                                    THEN "pending" ELSE State(k)
              /\ item'[k].state \in J!Waiting => item'[k].attempts < MAX_ATTEMPTS
PROOF
  <1>1. JournalTyped /\ IntakeTyped /\ Scanning /\ intake.phase = "page" /\ intake.epoch = intake.src
    BY DEF IInv, Typed, Arrives, PageArrives
  <1>2. /\ intake.src \in Epochs /\ intake.uids \in SUBSET Uids /\ intake.next \in Posn
        /\ source[intake.src].state = "active"
    BY <1>1, IntakeIs DEF Scanning
  <1>3. J!Admit(intake.src, [k \in {Key(intake.src, u) : u \in intake.uids} |-> "pending"], intake.next)
    BY <1>1 DEF Arrives, PageArrives
  <1>4. /\ scan' = [scan EXCEPT ![intake.src] = intake.through]
        /\ intake' = [phase |-> "settle", src |-> intake.src]
        /\ UNCHANGED <<id, msgid, noted, mark, start, box, gone, epoch, reader, cli, ready, requeued>>
    BY <1>1 DEF Arrives, PageArrives, server, process
  <1>5. /\ SourceMoves(intake.src, "active", J!Larger(Enum(intake.src), intake.next))
        /\ item' \in [Keys -> J!ItemRow] /\ pruned' = {}
        /\ \A k \in Keys :
             /\ item'[k].state = IF State(k) = "absent" /\ k.src = intake.src /\ k.pos \in intake.uids
                                   THEN "pending" ELSE State(k)
             /\ item'[k].state \in J!Waiting => item'[k].attempts < MAX_ATTEMPTS
    <2> DEFINE s == intake.src
               us == intake.uids
               c == intake.next
    <2>1. s \in Epochs /\ us \in SUBSET Uids /\ c \in Posn /\ source[s].state = "active"
          /\ J!Admit(s, [k \in {Key(s, u) : u \in us} |-> "pending"], c)
      BY <1>2, <1>3
    <2> HIDE DEF s, us, c
    <2>2. /\ SourceMoves(s, "active", J!Larger(Enum(s), c))
          /\ item' \in [Keys -> J!ItemRow] /\ pruned' = {}
          /\ \A k \in Keys :
               /\ item'[k].state = IF State(k) = "absent" /\ k.src = s /\ k.pos \in us
                                     THEN "pending" ELSE State(k)
               /\ item'[k].state \in J!Waiting => item'[k].attempts < MAX_ATTEMPTS
      BY <1>1, <2>1, AdmitAt
    <2> QED BY <2>2 DEF s, us, c
  <1> QED BY <1>1, <1>2, <1>4, <1>5

\* The rows of the journal, whoever wrote them.
LEMMA RowsStep == ASSUME IInv, [Next]_vars PROVE Arrives \/ Reads \/ Moved
PROOF
  <1>1. JournalTyped /\ ColumnsTyped /\ ReaderTyped /\ IntakeTyped
    BY DEF IInv, Typed
  <1>2. ASSUME RowsMove({}), UNCHANGED <<noted, msgid>> PROVE Moved
    <2>1. \A k \in Keys : State(k) = "needs_review" => item'[k].state = "needs_review"
      BY <1>2 DEF RowsMove
    <2> QED BY <1>1, <1>2, <2>1, NotedStays, UnreadIs, RowsWiden DEF Moved
  <1>3. CASE Elsewhere
    BY <1>1, <1>3, ElsewhereAt, StaysMoved
  <1>4. CASE FirstSource
    <2>1. PICK from \in J!Pos, state \in {"active", "migration_needs_review"} :
            Create(intake.to, from, state)
      BY <1>4 DEF FirstSource
    <2>2. intake.to \in Epochs /\ from \in Posn /\ UNCHANGED <<noted, msgid>>
      BY <1>1, <1>4, IntakeIs DEF FirstSource, J!Pos, Posn
    <2> QED BY <1>1, <1>2, <2>1, <2>2, CreateAt
  <1>5. CASE CreateEpoch
    <2>1. Create(intake.to, 0, "active") /\ intake.to \in Epochs /\ UNCHANGED <<noted, msgid>>
      BY <1>1, <1>5, IntakeIs DEF CreateEpoch
    <2> QED BY <1>1, <1>2, <2>1, CreateAt, Bounds
  <1>6. CASE RetireEpoch
    <2>1. J!Retire(intake.src) /\ intake.src \in Epochs /\ UNCHANGED <<noted, msgid>>
      BY <1>1, <1>6, IntakeIs DEF RetireEpoch, columns
    <2> QED BY <1>1, <2>1, RetireAt, NotedStays, UnreadIs, RowsWiden DEF Moved
  <1>7. CASE PageArrives
    <2>1. CASE intake.epoch = intake.src
      BY <1>7, <2>1 DEF Arrives
    <2>2. CASE intake.epoch # intake.src
      <3>1. UNCHANGED <<item, pruned, noted, msgid>>
        BY <1>7, <2>2 DEF PageArrives, journal
      <3> QED BY <1>1, <3>1, StaysMoved
    <2> QED BY <2>1, <2>2
  <1>8. CASE OperatorMigrates
    <2>1. RowsMove({})
      BY <1>8, MigrateWith
    <2> QED BY <1>2, <1>8, <2>1 DEF OperatorMigrates, columns
  <1>9. CASE IntakeSettle
    <2>1. J!Settle(intake.src) /\ intake.src \in Epochs /\ UNCHANGED <<noted, msgid>>
      BY <1>1, <1>9, IntakeIs DEF IntakeSettle, columns
    <2> QED BY <1>1, <1>2, <2>1, SourceSettled
  <1>10. CASE ReaderSettle
    <2>1. J!Settle(reader.src) /\ reader.src \in Epochs /\ UNCHANGED <<noted, msgid>>
      BY <1>1, <1>10, ReaderIs DEF ReaderSettle, columns
    <2> QED BY <1>1, <1>2, <2>1, SourceSettled
  <1>11. CASE RequeueHeld
    <2>1. PICK s \in Found : J!Requeue(s, noted) /\ noted' = noted \ J!OfSource(s)
      BY <1>11 DEF RequeueHeld
    <2>2. s \in Epochs
      BY DEF Found, Live
    <2>3. /\ RowsMove({"pending"})
          /\ \A k \in Keys : k \notin J!OfSource(s) => item'[k].state = State(k)
      BY <1>1, <2>1, <2>2, RequeueAt
    <2>4. Noted'
      BY <1>1, <2>1, <2>3 DEF ColumnsTyped, Noted, J!InState, State, Keys, J!Keys
    <2>5. UNCHANGED msgid
      BY <1>11 DEF RequeueHeld
    <2> QED BY <2>3, <2>4, <2>5, UnreadIs, RowsWiden DEF Moved
  <1>12. CASE ClaimMail
    <2>1. J!Claim({Key(reader.src, Min(reader.batch))}) /\ UNCHANGED <<noted, msgid>>
      BY <1>12 DEF ClaimMail, columns
    <2>2. reader.batch \in SUBSET Uids /\ reader.batch # {} /\ reader.src \in Epochs
      BY <1>1, <1>12, ReaderIs DEF ClaimMail
    <2>3. reader.batch \in SUBSET Nat
      BY <2>2, Bounds
    <2>4. Min(reader.batch) \in Uids
      BY <2>2, <2>3, MinOfNat
    <2>5. {Key(reader.src, Min(reader.batch))} \in SUBSET Keys
      BY <2>2, <2>4, KeysAre
    <2>6. RowsMove({"processing"})
      BY <1>1, <2>1, <2>5, ClaimAt
    <2>7. \A k \in Keys : State(k) = "needs_review" => item'[k].state = "needs_review"
      BY <2>1 DEF J!Claim, J!SetItems, J!InState, J!Waiting, State, Keys
    <2> QED BY <1>1, <2>1, <2>6, <2>7, NotedStays, UnreadIs, RowsWiden DEF Moved
  <1>13. CASE GetReply
    BY <1>13, GetReplyWrites, WritesMoved
  <1>14. CASE GetFails
    BY <1>14, GetFailsMoves
  <1>15. CASE ReadReply
    BY <1>15, ReadReplyMoves
  <1>16. CASE Restart
    <2>1. J!Reconcile({}) /\ UNCHANGED <<noted, msgid>>
      BY <1>16 DEF Restart, columns
    <2> QED BY <1>1, <2>1, ReconcileAt, NotedStays, UnreadIs, RowsWiden DEF Moved
  <1>17. CASE OperatorRetry \/ OperatorDismiss
    <2>1. PICK x \in Keys : (J!ReviewRetry(x) \/ J!ReviewDismiss(x)) /\ noted' = noted \ {x}
      BY <1>17 DEF OperatorRetry, OperatorDismiss, Keys
    <2>2. /\ RowsMove({"pending", "ignored"})
          /\ \A k \in Keys : k # x => item'[k].state = State(k)
      BY <1>1, <2>1, ReviewAt
    <2>3. Noted'
      BY <1>1, <2>1, <2>2 DEF ColumnsTyped, Noted, J!InState, State, Keys, J!Keys
    <2>4. UNCHANGED msgid
      BY <1>17 DEF OperatorRetry, OperatorDismiss
    <2> QED BY <2>2, <2>3, <2>4, UnreadIs, RowsWiden DEF Moved
  <1> QED BY <1>3, <1>4, <1>5, <1>6, <1>7, <1>8, <1>9, <1>10, <1>11, <1>12, <1>13, <1>14, <1>15,
             <1>16, <1>17, Steps

\* Whatever happens, what has a row keeps it, and what is finished stays so.
LEMMA RowsKept ==
  ASSUME IInv, [Next]_vars
  PROVE  /\ item' \in [Keys -> J!ItemRow] /\ pruned' = {}
         /\ \A k \in Keys :
              /\ State(k) # "absent" => item'[k].state # "absent"
              /\ State(k) \in J!FINAL => item'[k].state = State(k)
              /\ item'[k].state \in J!Waiting => item'[k].attempts < MAX_ATTEMPTS
              /\ ~Arrives => (item'[k].state # "absent" <=> State(k) # "absent")
              /\ ~Arrives => (item'[k].state \in J!Open => State(k) \in J!Open)
              /\ ~Reads => (item'[k].state = "processed" <=> State(k) = "processed")
PROOF
  <1>1. JournalTyped /\ ColumnsTyped
    BY DEF IInv, Typed
  <1>2. CASE Arrives
    <2>1. /\ item' \in [Keys -> J!ItemRow] /\ pruned' = {}
          /\ \A k \in Keys :
              /\ item'[k].state = IF State(k) = "absent" /\ k.src = intake.src /\ k.pos \in intake.uids
                                    THEN "pending" ELSE State(k)
              /\ item'[k].state \in J!Waiting => item'[k].attempts < MAX_ATTEMPTS
      BY <1>2, PageIs
    <2> QED BY <1>2, <2>1 DEF J!FINAL
  <1>3. ASSUME NEW S, RowsMove(S), S \subseteq J!FINAL \cup J!Open
        PROVE  /\ item' \in [Keys -> J!ItemRow] /\ pruned' = {}
               /\ \A k \in Keys :
                    /\ State(k) # "absent" <=> item'[k].state # "absent"
                    /\ State(k) \in J!FINAL => item'[k].state = State(k)
                    /\ item'[k].state \in J!Open => State(k) \in J!Open
                    /\ item'[k].state \in J!Waiting => item'[k].attempts < MAX_ATTEMPTS
                    /\ "processed" \notin S => (item'[k].state = "processed" <=> State(k) = "processed")
    BY <1>3 DEF RowsMove, J!FINAL, J!Open, J!Waiting
  <1>4. CASE Reads /\ ~Arrives
    <2>1. Current \in Keys /\ reader.msg \in Msgs
      BY <1>4, CurrentAt, ReaderIs DEF IInv, Typed, Reads, ReadReply
    <2>2. RowsMove({"processed"})
      BY <1>1, <1>4, <2>1, DisposeAt DEF Reads, J!FINAL
    <2> QED BY <1>3, <1>4, <2>2 DEF J!FINAL
  <1>5. CASE Moved /\ ~Arrives /\ ~Reads
    <2>1. RowsMove(Unread) /\ Unread \subseteq J!FINAL \cup J!Open /\ "processed" \notin Unread
      BY <1>5 DEF Moved, Unread
    <2> QED BY <1>3, <1>5, <2>1
  <1>6. CASE Moved /\ ~Arrives /\ Reads
    BY <1>4, <1>6
  <1> QED BY <1>2, <1>4, <1>5, <1>6, RowsStep

Founds == FirstSource \/ CreateEpoch

LEMMA FoundsAt ==
  ASSUME IInv, Founds
  PROVE  \E e \in Epochs, from \in Posn, state \in {"active", "migration_needs_review"} :
           /\ Create(e, from, state) /\ e = intake.to
           /\ IF FirstSource THEN intake.phase = "create first" /\ FirstStart(from, intake.newest, state)
              ELSE from = 0 /\ state = "active" /\ intake.phase = "create"
PROOF
  <1>1. IntakeTyped
    BY DEF IInv, Typed
  <1>2. CASE FirstSource
    <2>1. PICK from \in J!Pos, state \in {"active", "migration_needs_review"} :
            FirstStart(from, intake.newest, state) /\ Create(intake.to, from, state)
      BY <1>2 DEF FirstSource
    <2>2. intake.to \in Epochs /\ from \in Posn /\ intake.phase = "create first"
      BY <1>1, <1>2, IntakeIs DEF FirstSource, J!Pos, Posn
    <2> QED BY <1>2, <2>1, <2>2
  <1>3. CASE ~FirstSource
    <2>1. CreateEpoch
      BY <1>3 DEF Founds
    <2>2. Create(intake.to, 0, "active") /\ intake.to \in Epochs /\ intake.phase = "create"
      BY <1>1, <2>1, IntakeIs DEF CreateEpoch
    <2> QED BY <1>3, <2>2, Bounds
  <1> QED BY <1>2, <1>3

LEMMA SourceStep ==
  ASSUME IInv, [Next]_vars
  PROVE  Stay \/ Founds \/ RetireEpoch \/ Arrives \/ OperatorMigrates
PROOF
  <1>1. JournalTyped /\ ColumnsTyped /\ ReaderTyped /\ IntakeTyped
    BY DEF IInv, Typed
  <1>2. CASE Elsewhere
    BY <1>1, <1>2, ElsewhereAt, StayAt
  <1>3. CASE PageArrives
    <2>1. CASE intake.epoch = intake.src
      BY <1>3, <2>1 DEF Arrives
    <2>2. CASE intake.epoch # intake.src
      <3>1. UNCHANGED <<source, id, start>>
        BY <1>3, <2>2 DEF PageArrives, journal
      <3> QED BY <1>1, <3>1, StayAt
    <2> QED BY <2>1, <2>2
  <1>4. CASE IntakeSettle
    BY <1>1, <1>4, IntakeIs, SettleStays DEF IntakeSettle, columns
  <1>5. CASE ReaderSettle
    BY <1>1, <1>5, ReaderIs, SettleStays DEF ReaderSettle, columns
  <1>6. CASE RequeueHeld \/ ClaimMail
    <2>1. UNCHANGED <<source, id, start>>
      BY <1>6 DEF RequeueHeld, ClaimMail, J!Requeue, J!Claim, columns
    <2> QED BY <1>1, <2>1, StayAt
  <1>7. CASE GetReply
    <2>1. UNCHANGED <<source, id, start>>
      BY <1>7, GetReplyWrites DEF Writes, GetReply
    <2> QED BY <1>1, <2>1, StayAt
  <1>8. CASE GetFails
    <2>1. UNCHANGED <<source, id, start>>
      BY <1>8, GetFailsMoves DEF GetFails
    <2> QED BY <1>1, <2>1, StayAt
  <1>9. CASE ReadReply
    <2>1. UNCHANGED <<source, id, start>>
      BY <1>9 DEF ReadReply, Dispose, Review, Again, J!Finish, J!RetryLater, columns
    <2> QED BY <1>1, <2>1, StayAt
  <1>10. CASE Restart
    <2>1. UNCHANGED <<source, id, start>>
      BY <1>10 DEF Restart, J!Reconcile, columns
    <2> QED BY <1>1, <2>1, StayAt
  <1>11. CASE OperatorRetry \/ OperatorDismiss
    <2>1. UNCHANGED <<source, id, start>>
      BY <1>11 DEF OperatorRetry, OperatorDismiss, J!ReviewRetry, J!ReviewDismiss
    <2> QED BY <1>1, <2>1, StayAt
  <1> QED BY <1>2, <1>3, <1>4, <1>5, <1>6, <1>7, <1>8, <1>9, <1>10, <1>11, Steps DEF Founds

\* A source once made is there for good.
LEMMA SourcesKept ==
  ASSUME IInv, [Next]_vars
  PROVE  source' \in [Epochs -> J!SourceRow] /\ \A e \in Epochs : Exists(e) => source'[e].state # "none"
PROOF
  <1>1. JournalTyped /\ ColumnsTyped /\ ReaderTyped /\ IntakeTyped
    BY DEF IInv, Typed
  <1>2. CASE Stay
    BY <1>2 DEF Stay, Exists
  <1>3. ASSUME NEW s \in Epochs, NEW state, NEW c, SourceMoves(s, state, c),
               Exists(s) => state # "none"
        PROVE  source' \in [Epochs -> J!SourceRow]
               /\ \A e \in Epochs : Exists(e) => source'[e].state # "none"
    BY <1>3 DEF SourceMoves, Exists
  <1>4. CASE Founds
    <2>1. PICK e \in Epochs, from \in Posn, state \in {"active", "migration_needs_review"} :
            Create(e, from, state)
      BY <1>4, FoundsAt
    <2>2. SourceMoves(e, IF source[e].state \in {"none", "retired"} THEN state ELSE source[e].state,
                        IF Exists(e) THEN Enum(e) ELSE from)
      BY <1>1, <2>1, CreateAt
    <2> QED BY <1>3, <2>2 DEF Exists
  <1>5. CASE RetireEpoch
    <2>1. intake.src \in Epochs /\ SourceMoves(intake.src, "retired", Enum(intake.src))
      BY <1>1, <1>5, IntakeIs, SourceRetires DEF RetireEpoch
    <2> QED BY <1>3, <2>1
  <1>6. CASE Arrives
    <2>1. intake.src \in Epochs
          /\ SourceMoves(intake.src, "active", J!Larger(Enum(intake.src), intake.next))
      BY <1>6, PageIs
    <2> QED BY <1>3, <2>1
  <1>7. CASE OperatorMigrates
    <2>1. PICK s \in Epochs : \E c : SourceMoves(s, "active", c)
      BY <1>7, MigrateWith
    <2> QED BY <1>3, <2>1
  <1> QED BY <1>2, <1>4, <1>5, <1>6, <1>7, SourceStep

LEMMA JournalTypedStep == ASSUME IInv, [Next]_vars PROVE JournalTyped'
PROOF
  BY RowsKept, SourcesKept DEF JournalTyped, Keys, J!Keys, State

-----------------------------------------------------------------------------
(* The mailbox *)

Below(S, v) == {w \in S : w <= v}

\* Every rank of a finite set of numbers is some member's.
LEMMA RankReached ==
  ASSUME NEW b \in Nat, NEW S \in SUBSET (1 .. b), NEW u \in 1 .. Cardinality(S)
  PROVE  /\ Cardinality(S) \in 0 .. b
         /\ {v \in S : Cardinality(Below(S, v)) = u} # {}
PROOF
  <1>1. IsFiniteSet(1 .. b) /\ Cardinality(1 .. b) = b
    <2>1. IsFiniteSet(1 .. b) /\ Cardinality(1 .. b) = IF 1 > b THEN 0 ELSE b - 1 + 1
      BY FS_Interval
    <2> QED BY <2>1
  <1>2. IsFiniteSet(S) /\ Cardinality(S) <= b /\ Cardinality(S) \in Nat
    BY <1>1, FS_Subset, FS_CardinalityType
  <1>3. ASSUME NEW v \in S
        PROVE  IsFiniteSet(Below(S, v)) /\ Cardinality(Below(S, v)) \in Nat
    <2>1. Below(S, v) \in SUBSET S
      BY DEF Below
    <2> QED BY <1>2, <2>1, FS_Subset, FS_CardinalityType
  <1> DEFINE T == {v \in S : Cardinality(Below(S, v)) >= u}
  <1>4. /\ \A w \in S : w \in Nat
        /\ T \in SUBSET Nat /\ T \subseteq S /\ u \in Nat \ {0}
    <2>1. \A w \in S : w \in Nat
      OBVIOUS
    <2>2. T \subseteq S
      OBVIOUS
    <2>3. u \in Nat \ {0}
      BY <1>2
    <2> HIDE DEF T
    <2> QED BY <2>1, <2>2, <2>3
  <1>5. T # {}
    <2>1. S # {}
      BY <1>2, FS_EmptySet
    <2>2. S \in SUBSET Int /\ b \in Int /\ \A x \in S : x <= b
      OBVIOUS
    <2>3. Max(S) \in S /\ \A y \in S : y <= Max(S)
      BY <2>1, <2>2, MaxOfBounded
    <2>4. Below(S, Max(S)) = S
      BY <2>3 DEF Below
    <2> QED BY <1>2, <2>3, <2>4
  <1> HIDE DEF T
  <1>6. Min(T) \in T /\ \A y \in T : Min(T) <= y
    BY <1>4, <1>5, MinOfNat
  <1>7. PICK v \in S : v \in T /\ v \in Nat /\ Cardinality(Below(S, v)) >= u /\ \A y \in T : v <= y
    BY <1>4, <1>6 DEF T
  <1>8. Cardinality(Below(S, v)) = u
    <2> SUFFICES ASSUME Cardinality(Below(S, v)) # u PROVE FALSE
      OBVIOUS
    <2> DEFINE L == {w \in S : w < v}
    <2>1. L \in SUBSET S /\ v \notin L /\ Below(S, v) = L \cup {v}
      <3>1. \A w \in S : w <= v <=> w < v \/ w = v
        BY <1>4, <1>7
      <3>2. ~(v < v) /\ v <= v
        BY <1>7
      <3> QED BY <3>1, <3>2 DEF Below
    <2>2. \A w \in L : w < v
      OBVIOUS
    <2>3. \A w \in S : w < v => w \in L
      OBVIOUS
    <2> HIDE DEF L
    <2>4. IsFiniteSet(L) /\ Cardinality(L) \in Nat
      BY <1>2, <2>1, FS_Subset, FS_CardinalityType
    <2>5. Cardinality(Below(S, v)) = Cardinality(L) + 1
      BY <2>1, <2>4, FS_AddElement
    <2>6. Cardinality(L) >= u
      BY <1>4, <1>7, <2>4, <2>5
    <2>7. L # {}
      BY <1>4, <2>4, <2>6, FS_EmptySet
    <2>8. L \in SUBSET Int /\ b \in Int /\ \A x \in L : x <= b
      BY <2>1
    <2>9. PICK x \in L : \A y \in L : y <= x
      BY <2>7, <2>8, MaxOfBounded
    <2>10. x \in S /\ x < v /\ x \in Nat
      BY <1>4, <2>1, <2>2, <2>9
    <2>11. Below(S, x) = L
      <3>1. \A w \in S : w <= x => w < v
        BY <1>4, <1>7, <2>10
      <3>2. Below(S, x) \subseteq L
        BY <2>3, <3>1 DEF Below
      <3> QED BY <2>1, <2>9, <3>2 DEF Below
    <2>12. x \in T
      BY <2>6, <2>10, <2>11 DEF T
    <2>13. v <= x
      BY <1>7, <2>12
    <2> QED BY <1>7, <2>10, <2>13
  <1> QED BY <1>2, <1>8

BoxGrows ==
  /\ gone \subseteq gone'
  /\ \A e \in Epochs :
       /\ Newest(e) <= Len(box'[e])
       /\ \A u \in 1 .. Newest(e) : box'[e][u] = box[e][u]

LEMMA BoxIs ==
  ASSUME ServerTyped, NEW e \in Epochs
  PROVE  /\ box[e] \in Seq(Msgs) /\ Newest(e) \in Nat /\ Newest(e) \in Posn /\ 1 .. Newest(e) \subseteq Uids
         /\ \A u \in 1 .. Newest(e) : box[e][u] \in Msgs
         /\ Present(e) \subseteq 1 .. Newest(e)
PROOF
  <1>1. box[e] \in Seq(Msgs) /\ Newest(e) \in Posn /\ Newest(e) \in Nat
    BY DEF ServerTyped, Posn
  <1>2. 1 .. Newest(e) \subseteq Uids
    BY <1>1, Bounds DEF Posn, Uids
  <1>3. \A u \in 1 .. Newest(e) : box[e][u] \in Msgs
    BY <1>1 DEF Newest
  <1> QED BY <1>1, <1>2, <1>3 DEF Present

LEMMA ServerStays ==
  ASSUME ServerTyped, UNCHANGED server
  PROVE  ServerTyped' /\ BoxGrows
PROOF
  <1>1. \A e \in Epochs : Newest(e) \in Nat
    BY BoxIs
  <1> QED BY <1>1 DEF server, ServerTyped, BoxGrows, Newest

LEMMA DeliverGrows == ASSUME ServerTyped, Deliver PROVE ServerTyped' /\ BoxGrows
PROOF
  <1>1. PICK m \in Msgs : box' = [box EXCEPT ![epoch] = Append(@, m)]
    BY DEF Deliver
  <1>2. epoch \in Epochs /\ UNCHANGED <<epoch, gone>> /\ Newest(epoch) < MaxPos
    BY DEF Deliver, ServerTyped
  <1>3. box[epoch] \in Seq(Msgs) /\ Newest(epoch) \in Nat
    BY <1>2, BoxIs
  <1>4. /\ Append(box[epoch], m) \in Seq(Msgs)
        /\ Len(Append(box[epoch], m)) = Newest(epoch) + 1
        /\ \A u \in 1 .. Newest(epoch) : Append(box[epoch], m)[u] = box[epoch][u]
    BY <1>3 DEF Newest
  <1>5. /\ box' \in [Epochs -> Seq(Msgs)]
        /\ \A e \in Epochs : box'[e] = IF e = epoch THEN Append(box[epoch], m) ELSE box[e]
    BY <1>1, <1>2, <1>4 DEF ServerTyped
  <1>6. Newest(epoch) + 1 \in Posn
    BY <1>2, <1>3, Bounds DEF Posn
  <1>7. \A e \in Epochs : Len(box'[e]) \in Posn
    BY <1>4, <1>5, <1>6, BoxIs DEF Newest
  <1>8. ServerTyped'
    BY <1>2, <1>5, <1>7 DEF ServerTyped, Newest, Keys, J!Keys
  <1>9. BoxGrows
    <2> SUFFICES ASSUME NEW e \in Epochs
                 PROVE  /\ Newest(e) <= Len(box'[e])
                        /\ \A u \in 1 .. Newest(e) : box'[e][u] = box[e][u]
      BY <1>2 DEF BoxGrows
    <2>1. CASE e = epoch
      BY <1>3, <1>4, <1>5, <2>1
    <2>2. CASE e # epoch
      <3>1. box'[e] = box[e] /\ Newest(e) \in Nat
        BY <1>5, <2>2, BoxIs
      <3> QED BY <3>1 DEF Newest
    <2> QED BY <2>1, <2>2
  <1> QED BY <1>8, <1>9

LEMMA ResetGrows == ASSUME ServerTyped, Reset PROVE ServerTyped' /\ BoxGrows
PROOF
  <1> DEFINE P == Present(epoch)
             n == Cardinality(P)
             kept(u) == box[epoch][Max({v \in P : Cardinality({w \in P : w <= v}) = u})]
             q == [u \in 1 .. n |-> kept(u)]
  <1>1. PICK e \in Epochs : box' = IF box[e] # <<>> THEN box ELSE [box EXCEPT ![e] = q]
    BY DEF Reset
  <1>2. epoch \in Epochs /\ epoch' \in Epochs /\ UNCHANGED gone
    BY DEF Reset, ServerTyped
  <1>3. Newest(epoch) \in Nat /\ Newest(epoch) \in Posn /\ P \in SUBSET (1 .. Newest(epoch))
    BY <1>2, BoxIs
  <1>4. ASSUME NEW u \in 1 .. n PROVE kept(u) \in Msgs /\ n \in 0 .. Newest(epoch)
    <2> DEFINE C == {v \in P : Cardinality(Below(P, v)) = u}
    <2>1. n \in 0 .. Newest(epoch) /\ C # {}
      <3> HIDE DEF P
      <3> QED BY <1>3, RankReached
    <2>2. C = {v \in P : Cardinality({w \in P : w <= v}) = u}
      BY DEF Below
    <2>3. C \in SUBSET (1 .. Newest(epoch))
      BY <1>3
    <2> HIDE DEF C
    <2>4. C \in SUBSET Int /\ \A x \in C : x <= Newest(epoch)
      BY <1>3, <2>3
    <2>5. Newest(epoch) \in Int
      BY <1>3
    <2>6. Max(C) \in C
      BY <2>1, <2>4, <2>5, MaxOfBounded
    <2>7. box[epoch][Max(C)] \in Msgs
      BY <1>2, <2>3, <2>6, BoxIs
    <2>8. kept(u) = box[epoch][Max(C)]
      BY <2>2
    <2> QED BY <2>1, <2>7, <2>8
  <1>5. n \in Nat
    <2>1. IsFiniteSet(1 .. Newest(epoch))
      BY <1>3, FS_Interval
    <2> HIDE DEF P
    <2> QED BY <1>3, <2>1, FS_Subset, FS_CardinalityType
  <1>6. n \in Posn
    <2>1. CASE n = 0
      BY <2>1, Bounds
    <2>2. CASE n # 0
      <3>1. 1 \in 1 .. n
        BY <1>5, <2>2
      <3>2. n \in 0 .. Newest(epoch)
        BY <1>4, <3>1
      <3> QED BY <1>3, <3>2, Bounds DEF Posn
    <2> QED BY <2>1, <2>2
  <1> HIDE DEF n
  <1>7. q \in [1 .. n -> Msgs]
    BY <1>4
  <1> HIDE DEF q
  <1>8. q \in Seq(Msgs) /\ Len(q) = n
    BY <1>5, <1>7
  <1>9. CASE box[e] # <<>>
    <2>1. UNCHANGED <<box, gone>>
      BY <1>1, <1>2, <1>9
    <2>2. \A f \in Epochs : Newest(f) \in Nat
      BY BoxIs
    <2> QED BY <1>2, <2>1, <2>2 DEF ServerTyped, BoxGrows, Newest, Keys, J!Keys
  <1>10. CASE box[e] = <<>>
    <2>1. /\ box' \in [Epochs -> Seq(Msgs)]
          /\ \A f \in Epochs : box'[f] = IF f = e THEN q ELSE box[f]
      BY <1>1, <1>8, <1>10 DEF ServerTyped
    <2>2. Newest(e) = 0
      BY <1>10 DEF Newest
    <2>3. \A f \in Epochs : Len(box'[f]) \in Posn
      BY <1>6, <1>8, <2>1, BoxIs DEF Newest
    <2>4. ServerTyped'
      BY <1>2, <2>1, <2>3 DEF ServerTyped, Newest, Keys, J!Keys
    <2>5. ASSUME NEW f \in Epochs
          PROVE  /\ Newest(f) <= Len(box'[f])
                 /\ \A u \in 1 .. Newest(f) : box'[f][u] = box[f][u]
      <3>1. CASE f = e
        BY <1>5, <1>8, <2>1, <2>2, <3>1
      <3>2. CASE f # e
        <4>1. box'[f] = box[f] /\ Newest(f) \in Nat
          BY <2>1, <3>2, BoxIs
        <4> QED BY <4>1 DEF Newest
      <3> QED BY <3>1, <3>2
    <2> QED BY <1>2, <2>4, <2>5 DEF BoxGrows
  <1> QED BY <1>9, <1>10

LEMMA ServerStep == ASSUME IInv, [Next]_vars PROVE ServerTyped' /\ BoxGrows
PROOF
  <1>1. ServerTyped
    BY DEF IInv, Typed
  <1>2. CASE Expunge
    <2>1. PICK u \in Present(epoch) : gone' = gone \cup {Key(epoch, u)}
      BY <1>2 DEF Expunge
    <2>2. epoch \in Epochs /\ UNCHANGED <<epoch, box>>
      BY <1>1, <1>2 DEF Expunge, ServerTyped
    <2>3. Key(epoch, u) \in Keys
      BY <1>1, <2>1, <2>2, BoxIs, KeysAre
    <2>4. \A e \in Epochs : Newest(e) \in Nat
      BY <1>1, BoxIs
    <2> QED BY <1>1, <2>1, <2>2, <2>3, <2>4 DEF ServerTyped, BoxGrows, Newest, Keys, J!Keys
  <1>3. CASE ~(Deliver \/ Expunge \/ Reset)
    <2>1. UNCHANGED server
      BY <1>3 DEF Next, Intake, Reader, vars, server, IntakeBegin, FirstProbe, FirstSource,
         HeldProbe, ServePage, PageArrives, IntakeSettle, MarkEpoch, RetireEpoch, CreateEpoch,
         IntakeFails, WorkBegin, RequeueHeld, OperatorReply, PassEnds, ReaderSettle, ClaimMail,
         ServeMail, GetReply, GetFails, ReadReply, Restart, OperatorRetry, OperatorDismiss,
         OperatorLooks, OperatorMigrates
    <2> QED BY <1>1, <2>1, ServerStays
  <1> QED BY <1>1, <1>2, <1>3, DeliverGrows, ResetGrows

-----------------------------------------------------------------------------
(* Types *)

LEMMA ColumnsMove ==
  ASSUME IInv, [Next]_vars
  PROVE  /\ scan' = scan \/ (Arrives /\ scan' = [scan EXCEPT ![intake.src] = intake.through])
         /\ mark' = mark \/ (MarkEpoch /\ mark' = TRUE)
         /\ ready' \in BOOLEAN /\ requeued' \in BOOLEAN
PROOF
  <1>1. ready \in BOOLEAN /\ requeued \in BOOLEAN
    BY DEF IInv, Typed, ColumnsTyped
  <1>2. CASE Elsewhere
    BY <1>1, <1>2 DEF Elsewhere, Deliver, Expunge, Reset, IntakeBegin, FirstProbe, HeldProbe, ServePage,
       MarkEpoch, IntakeFails, WorkBegin, OperatorReply, PassEnds, ServeMail, OperatorLooks, vars,
       columns, process
  <1>3. CASE FirstSource \/ CreateEpoch \/ RetireEpoch \/ OperatorMigrates \/ IntakeSettle
             \/ ReaderSettle \/ RequeueHeld \/ ClaimMail
    BY <1>1, <1>3 DEF FirstSource, CreateEpoch, RetireEpoch, OperatorMigrates, IntakeSettle,
       ReaderSettle, RequeueHeld, ClaimMail, columns, process
  <1>4. CASE PageArrives
    BY <1>1, <1>4 DEF PageArrives, Arrives, process
  <1>5. CASE GetReply
    BY <1>1, <1>5, GetReplyWrites DEF Writes, GetReply, process
  <1>6. CASE GetFails
    BY <1>1, <1>6, GetFailsMoves DEF GetFails, process
  <1>7. CASE ReadReply
    BY <1>1, <1>7 DEF ReadReply, Dispose, Review, Again, columns, process
  <1>8. CASE Restart \/ OperatorRetry \/ OperatorDismiss
    BY <1>1, <1>8 DEF Restart, OperatorRetry, OperatorDismiss, columns, process
  <1> QED BY <1>2, <1>3, <1>4, <1>5, <1>6, <1>7, <1>8, Steps

LEMMA IdTyped ==
  ASSUME ColumnsTyped, Sourced, NEW e \in Epochs, ~Exists(e)
  PROVE  1 + Cardinality({f \in Epochs : id[f] > 0}) \in 1 .. Cardinality(Epochs)
PROOF
  <1> DEFINE F == {f \in Epochs : id[f] > 0}
  <1>1. IsFiniteSet(Epochs)
    BY MailAssumption DEF MailAssumption
  <1>2. e \notin F /\ F \cup {e} \subseteq Epochs
    BY DEF Sourced
  <1> HIDE DEF F
  <1>3. IsFiniteSet(F) /\ Cardinality(F) \in Nat
    BY <1>1, <1>2, FS_Subset, FS_CardinalityType
  <1>4. Cardinality(F \cup {e}) = Cardinality(F) + 1
    BY <1>2, <1>3, FS_AddElement
  <1>5. Cardinality(F \cup {e}) <= Cardinality(Epochs) /\ Cardinality(Epochs) \in Nat
    BY <1>1, <1>2, FS_Subset, FS_CardinalityType
  <1>6. 1 + Cardinality(F) \in 1 .. Cardinality(Epochs)
    BY <1>3, <1>4, <1>5
  <1> QED BY <1>6 DEF F

LEMMA StartTyped ==
  ASSUME IInv, [Next]_vars
  PROVE  /\ id' \in [Epochs -> 0 .. Cardinality(Epochs)]
         /\ start' \in [Epochs -> {NoBound} \cup Posn]
PROOF
  <1>1. /\ id \in [Epochs -> 0 .. Cardinality(Epochs)]
        /\ start \in [Epochs -> {NoBound} \cup Posn]
        /\ JournalTyped /\ ColumnsTyped /\ Sourced
    BY DEF IInv, Typed, ColumnsTyped
  <1>2. CASE Stay
    BY <1>1, <1>2 DEF Stay
  <1>3. CASE Founds
    <2>1. PICK e \in Epochs, from \in Posn, state \in {"active", "migration_needs_review"} :
            Create(e, from, state)
      BY <1>3, FoundsAt
    <2>2. IF Exists(e) THEN UNCHANGED <<id, start>>
          ELSE /\ id' = [id EXCEPT ![e] = 1 + Cardinality({f \in Epochs : id[f] > 0})]
               /\ start' = [start EXCEPT ![e] = from]
      BY <1>1, <2>1, CreateAt
    <2>3. ~Exists(e) => 1 + Cardinality({f \in Epochs : id[f] > 0}) \in 0 .. Cardinality(Epochs)
      <3> SUFFICES ASSUME ~Exists(e)
                   PROVE  1 + Cardinality({f \in Epochs : id[f] > 0}) \in 0 .. Cardinality(Epochs)
        OBVIOUS
      <3>1. 1 + Cardinality({f \in Epochs : id[f] > 0}) \in 1 .. Cardinality(Epochs)
        BY <1>1, IdTyped
      <3> QED BY <3>1
    <2> QED BY <1>1, <2>2, <2>3
  <1>4. CASE RetireEpoch
    BY <1>1, <1>4 DEF RetireEpoch, columns
  <1>5. CASE Arrives
    BY <1>1, <1>5, PageIs
  <1>6. CASE OperatorMigrates
    <2>1. UNCHANGED id
      BY <1>6 DEF OperatorMigrates, columns
    <2>2. PICK c \in [src : Epochs, from : {NoBound} \cup Posn] :
            \/ UNCHANGED start
            \/ c.from \in Posn /\ start' = [start EXCEPT ![c.src] = c.from]
      BY <1>6, MigrateWith
    <2> QED BY <1>1, <2>1, <2>2
  <1> QED BY <1>2, <1>3, <1>4, <1>5, <1>6, SourceStep

LEMMA NotedStep == ASSUME IInv, [Next]_vars PROVE Noted' /\ msgid' \in [Keys -> Msgs \cup {"none"}]
PROOF
  <1>1. /\ JournalTyped /\ ColumnsTyped /\ IntakeTyped /\ ReaderTyped
        /\ msgid \in [Keys -> Msgs \cup {"none"}]
    BY DEF IInv, Typed, ColumnsTyped
  <1>2. CASE Arrives
    <2>1. \A k \in Keys : State(k) = "needs_review" => item'[k].state = "needs_review"
      BY <1>2, PageIs
    <2>2. UNCHANGED <<noted, msgid>>
      BY <1>2, PageIs
    <2> QED BY <1>1, <2>1, <2>2, NotedStays
  <1>3. CASE Reads
    <2>1. Current \in Keys /\ reader.msg \in Msgs
      BY <1>3, CurrentAt, ReaderIs DEF IInv, Typed, Reads, ReadReply
    <2>2. /\ Noted'
          /\ msgid' = IF State(Current) \notin J!FINAL /\ reader.msg # NoId
                       THEN [msgid EXCEPT ![Current] = reader.msg] ELSE msgid
      BY <1>1, <1>3, <2>1, DisposeAt DEF Reads, J!FINAL
    <2> QED BY <1>1, <2>1, <2>2
  <1>4. CASE Moved
    BY <1>1, <1>4 DEF Moved, IdNoted
  <1> QED BY <1>2, <1>3, <1>4, RowsStep

LEMMA ColumnsStep == ASSUME IInv, [Next]_vars PROVE ColumnsTyped'
PROOF
  <1>1. scan' \in [Epochs -> {NoBound} \cup Posn]
    <2>1. scan \in [Epochs -> {NoBound} \cup Posn]
      BY DEF IInv, Typed, ColumnsTyped
    <2>2. Arrives => intake.through \in {NoBound} \cup Posn
      BY IntakeIs DEF IInv, Typed, Arrives, PageArrives
    <2> QED BY <2>1, <2>2, ColumnsMove
  <1>2. mark' \in BOOLEAN /\ ready' \in BOOLEAN /\ requeued' \in BOOLEAN
    BY ColumnsMove DEF IInv, Typed, ColumnsTyped
  <1>3. Noted' /\ msgid' \in [Keys -> Msgs \cup {"none"}]
    BY NotedStep
  <1> QED BY <1>1, <1>2, <1>3, StartTyped
          DEF ColumnsTyped, Noted, J!InState, Keys, J!Keys, Posn, NoBound

LEMMA IntakeSame == ASSUME [Next]_vars, ~Intake, ~Restart PROVE intake' = intake
PROOF
  BY DEF Next, Reader, vars, Deliver, Expunge, Reset, WorkBegin, RequeueHeld, OperatorReply, PassEnds,
     ReaderSettle, ClaimMail, ServeMail, GetReply, GetFails, ReadReply, OperatorRetry,
     OperatorDismiss, OperatorLooks, OperatorMigrates

LEMMA ReaderSame == ASSUME [Next]_vars, ~Reader, ~Restart PROVE reader' = reader
PROOF
  BY DEF Next, Intake, vars, Deliver, Expunge, Reset, IntakeBegin, FirstProbe, FirstSource, HeldProbe,
     ServePage, PageArrives, IntakeSettle, MarkEpoch, RetireEpoch, CreateEpoch, IntakeFails,
     OperatorRetry, OperatorDismiss, OperatorLooks, OperatorMigrates, RequeueHeld

\* A pass begins with room in its queue and no page too many.
LEMMA IntakeBeginAt ==
  ASSUME IInv, IntakeBegin
  PROVE  \/ Found = {} /\ intake' = [phase |-> "first"]
         \/ \E s \in Epochs :
              \/ intake' = [phase |-> "held", src |-> s]
              \/ \E n \in Nat \ {0} :
                   /\ n + OpenCount(s) <= MAX_OPEN /\ source[s].state = "active"
                   /\ intake' = [phase |-> "asked", src |-> s, after |-> Enum(s), limit |-> n]
PROOF
  <1> SUFFICES ASSUME NEW s \in Found, source[s].state # "migration_needs_review",
                      OpenCount(s) < MAX_OPEN,
                      intake' = [phase |-> "asked", src |-> s, after |-> Enum(s), limit |-> Room(s)]
               PROVE  /\ Room(s) \in Nat \ {0} /\ Room(s) + OpenCount(s) <= MAX_OPEN
                      /\ source[s].state = "active" /\ s \in Epochs
    BY DEF IntakeBegin, Enum, Found, Live
  <1>1. s \in Epochs /\ source[s].state = "active"
    BY DEF Found, Live
  <1>2. OpenCount(s) \in Nat /\ MAX_OPEN \in Nat /\ PAGE \in Nat \ {0}
    BY <1>1, SourceFinite, Bounds
  <1> DEFINE r == {PAGE, MAX_OPEN - OpenCount(s)}
  <1>3. r \in SUBSET Nat /\ r # {} /\ \A x \in r : x # 0
    BY <1>2
  <1> HIDE DEF r
  <1>4. Min(r) \in r /\ \A x \in r : Min(r) <= x
    BY <1>3, MinOfNat
  <1>5. Min(r) \in Nat \ {0} /\ Min(r) <= MAX_OPEN - OpenCount(s)
    BY <1>3, <1>4 DEF r
  <1>6. Room(s) = Min(r)
    BY DEF Room, r
  <1> QED BY <1>1, <1>2, <1>5, <1>6

\* A page: what fits, in order, and something if there is anything.
LEMMA PageCut ==
  ASSUME NEW b \in Nat, NEW S \in SUBSET (1 .. b), NEW n \in Nat \ {0},
         NEW P, P = {u \in S : Cardinality(Below(S, u)) <= n}
  PROVE  /\ P \subseteq S /\ IsFiniteSet(P) /\ Cardinality(P) \in Nat /\ Cardinality(P) <= n
         /\ P # S => P # {}
         /\ \A u \in S, v \in P : u <= v => u \in P
PROOF
  <1>1. IsFiniteSet(1 .. b)
    BY FS_Interval
  <1>2. IsFiniteSet(S) /\ \A u \in S : u \in Nat
    <2>1. \A u \in S : u \in Nat
      OBVIOUS
    <2>2. IsFiniteSet(S)
      BY <1>1, FS_Subset
    <2> QED BY <2>1, <2>2
  <1>3. ASSUME NEW v \in S
        PROVE  IsFiniteSet(Below(S, v)) /\ Cardinality(Below(S, v)) \in Nat
    <2>1. Below(S, v) \in SUBSET S
      BY DEF Below
    <2> QED BY <1>2, <2>1, FS_Subset, FS_CardinalityType
  <1>4. P \subseteq S
    OBVIOUS
  <1>5. IsFiniteSet(P) /\ Cardinality(P) \in Nat
    BY <1>2, <1>4, FS_Subset, FS_CardinalityType
  <1>6. Cardinality(P) <= n
    <2>1. CASE P = {}
      <3>1. Cardinality(P) = 0
        BY <1>5, <2>1, FS_EmptySet
      <3> QED BY <3>1
    <2>2. CASE P # {}
      <3>1. P \in SUBSET Int /\ b \in Int /\ \A x \in P : x <= b
        <4>1. \A x \in S : x \in Int /\ x <= b
          OBVIOUS
        <4>2. \A x \in P : x \in S
          BY <1>4
        <4>3. \A x \in P : x \in Int /\ x <= b
          BY <4>1, <4>2
        <4>4. P \in SUBSET Int
          BY <4>3
        <4>5. b \in Int
          OBVIOUS
        <4> QED BY <4>3, <4>4, <4>5
      <3>2. PICK m \in P : \A y \in P : y <= m
        BY <2>2, <3>1, MaxOfBounded
      <3>3. P \subseteq Below(S, m) /\ m \in S
        BY <1>4, <3>2 DEF Below
      <3>4. Cardinality(P) <= Cardinality(Below(S, m))
        BY <1>3, <3>3, FS_Subset
      <3>5. Cardinality(Below(S, m)) <= n
        BY <3>2
      <3> QED BY <1>3, <1>5, <3>3, <3>4, <3>5
    <2> QED BY <2>1, <2>2
  <1>7. P # S => P # {}
    <2> SUFFICES ASSUME P # S PROVE P # {}
      OBVIOUS
    <2>1. S # {} /\ S \in SUBSET Nat
      BY <1>2, <1>4
    <2>2. PICK m \in S : \A y \in S : m <= y
      BY <2>1, LeastOfNat
    <2>3. Below(S, m) = {m}
      <3>1. \A y \in S : y <= m => y = m
        BY <1>2, <2>2
      <3>2. m <= m
        BY <1>2
      <3> QED BY <3>1, <3>2 DEF Below
    <2>4. Cardinality(Below(S, m)) = 1
      BY <2>3, FS_Singleton
    <2> QED BY <2>4
  <1>8. ASSUME NEW u \in S, NEW v \in P, u <= v PROVE u \in P
    <2>1. v \in S /\ u \in Nat /\ v \in Nat
      BY <1>2, <1>4
    <2>2. \A w \in S : w <= u => w <= v
      BY <1>2, <1>8, <2>1
    <2>3. Below(S, u) \in SUBSET Below(S, v)
      BY <2>2 DEF Below
    <2>4. Cardinality(Below(S, u)) <= Cardinality(Below(S, v))
      BY <1>3, <2>1, <2>3, FS_Subset
    <2>5. Cardinality(Below(S, v)) <= n /\ Cardinality(Below(S, v)) \in Nat /\ Cardinality(Below(S, u)) \in Nat
      BY <1>3, <2>1
    <2>6. Cardinality(Below(S, u)) <= n
      BY <2>4, <2>5
    <2> QED BY <2>6
  <1> QED BY <1>4, <1>5, <1>6, <1>7, <1>8

\* What an answer shows of the mailbox it came from.
ShowsPage(p) ==
  /\ p \in [src : Epochs, epoch : Epochs, uids : SUBSET Uids,
            through : {NoBound} \cup Posn, next : Posn, phase : {"page"}]
  /\ p.src = intake.src /\ p.epoch = epoch
  /\ IsFiniteSet(p.uids) /\ Cardinality(p.uids) \in Nat /\ Cardinality(p.uids) <= intake.limit
  /\ \A u \in p.uids : intake.after < u /\ u <= Newest(epoch)
  /\ p.next <= Newest(epoch) \/ p.next <= intake.after
  /\ \A u \in 1 .. Newest(epoch) :
       intake.after < u /\ u <= p.next => u \in p.uids \/ Key(epoch, u) \in gone

LEMMA ServePageAt == ASSUME IInv, ServePage PROVE intake.phase = "asked" /\ ShowsPage(intake')
PROOF
  <1>1. /\ intake.phase = "asked" /\ intake.src \in Epochs /\ intake.after \in Posn
        /\ intake.limit \in Nat \ {0} /\ ServerTyped /\ ColumnsTyped /\ epoch \in Epochs
    BY IntakeIs DEF IInv, Typed, ServePage, ServerTyped
  <1> DEFINE N == Newest(epoch)
             bound == scan[intake.src]
             through == IF bound = NoBound THEN N ELSE Min({bound, N})
             uids == {u \in Present(epoch) : intake.after < u /\ u <= through}
             page == {u \in uids : Cardinality({v \in uids : v <= u}) <= intake.limit}
             more == page # uids
             next == NextAfter(intake.after, through, page, more)
             p == [phase |-> "page", src |-> intake.src, epoch |-> epoch, uids |-> page,
                   through |-> IF more THEN through ELSE NoBound, next |-> next]
  <1>2. intake' = p
    BY DEF ServePage
  <1>3. N \in Nat /\ N \in Posn /\ Present(epoch) \subseteq 1 .. N /\ 1 .. N \subseteq Uids
    BY <1>1, BoxIs
  <1>4. \A u \in 1 .. N : u \notin Present(epoch) => Key(epoch, u) \in gone
    BY DEF Present
  <1>5. through \in Posn /\ through <= N
    <2>1. bound \in {NoBound} \cup Posn
      BY <1>1 DEF ColumnsTyped
    <2>2. CASE bound = NoBound
      BY <1>3, <2>2
    <2>3. CASE bound # NoBound
      <3> DEFINE B == {bound, N}
      <3>1. bound \in Posn
        BY <2>1, <2>3
      <3>2. B \subseteq Posn /\ B # {} /\ N \in B
        BY <1>3, <3>1
      <3>3. through = Min(B)
        BY <2>3
      <3> HIDE DEF B, through, N, bound
      <3>4. B \in SUBSET Nat
        BY <3>2, Bounds
      <3>5. Min(B) \in B /\ Min(B) <= N
        BY <3>2, <3>4, MinOfNat
      <3> QED BY <3>2, <3>3, <3>5
    <2> QED BY <2>2, <2>3
  <1> HIDE DEF through, N
  <1>6. uids \in SUBSET (1 .. N) /\ \A u \in uids : intake.after < u /\ u <= N
    <2>1. \A u \in uids : u \in 1 .. N /\ intake.after < u
      BY <1>3
    <2> QED BY <1>3, <2>1
  <1>7. page = {u \in uids : Cardinality(Below(uids, u)) <= intake.limit}
    BY DEF Below
  <1>8. \A u \in 1 .. N : intake.after < u /\ u <= through => u \in uids \/ Key(epoch, u) \in gone
    BY <1>4
  <1> HIDE DEF uids, page
  <1>9. /\ page \subseteq uids /\ IsFiniteSet(page) /\ Cardinality(page) \in Nat
        /\ Cardinality(page) <= intake.limit
        /\ page # uids => page # {}
        /\ \A u \in uids, v \in page : u <= v => u \in page
    <2> DEFINE n == intake.limit
    <2>1. n \in Nat \ {0} /\ page = {u \in uids : Cardinality(Below(uids, u)) <= n}
          /\ N \in Nat /\ uids \in SUBSET (1 .. N)
      BY <1>1, <1>3, <1>6, <1>7
    <2> HIDE DEF n
    <2>2. /\ page \subseteq uids /\ IsFiniteSet(page) /\ Cardinality(page) \in Nat
          /\ Cardinality(page) <= n
          /\ page # uids => page # {}
          /\ \A u \in uids, v \in page : u <= v => u \in page
      BY <2>1, PageCut
    <2> QED BY <2>2 DEF n
  <1>10. page \in SUBSET Uids /\ \A u \in page : u \in 1 .. N
    BY <1>3, <1>6, <1>9
  <1>11. /\ next \in Posn /\ (next <= N \/ next <= intake.after)
         /\ \A u \in 1 .. N : intake.after < u /\ u <= next => u \in page \/ Key(epoch, u) \in gone
    <2>1. CASE more
      <3>1. page # {}
        BY <1>9, <2>1
      <3>2. page \in SUBSET Int /\ N \in Int /\ \A x \in page : x <= N
        <4>1. \A x \in page : x \in Int /\ x <= N
          BY <1>10
        <4> QED BY <1>3, <4>1
      <3>3. Max(page) \in page /\ \A y \in page : y <= Max(page)
        BY <3>1, <3>2, MaxOfBounded
      <3>4. next = Max(page)
        BY <2>1 DEF NextAfter
      <3>5. next \in page /\ next \in Uids /\ next <= N /\ next \in uids
        BY <1>9, <1>10, <3>2, <3>3, <3>4
      <3>6. next \in Posn /\ next <= through
        <4>1. next <= through
          BY <3>5 DEF uids
        <4> QED BY <3>5, <4>1, Bounds
      <3>7. ASSUME NEW u \in 1 .. N, intake.after < u, u <= next
            PROVE  u \in page \/ Key(epoch, u) \in gone
        <4>1. u <= through
          <5>1. u \in Nat /\ next \in Nat /\ through \in Nat
            BY <1>3, <1>5, <3>6, Bounds
          <5> QED BY <3>6, <3>7, <5>1
        <4>2. u \in uids \/ Key(epoch, u) \in gone
          BY <1>8, <3>7, <4>1
        <4> QED BY <1>9, <3>5, <3>7, <4>2
      <3> HIDE DEF next
      <3> QED BY <3>5, <3>6, <3>7
    <2>2. CASE ~more
      <3>1. next = J!Larger(intake.after, through) /\ page = uids
        BY <2>2 DEF NextAfter
      <3> HIDE DEF next
      <3>2. next \in {intake.after, through}
        BY <3>1 DEF J!Larger
      <3>3. next \in Posn /\ (next <= N \/ next <= intake.after)
        <4>1. CASE next = intake.after
          <5>1. intake.after \in Posn /\ intake.after \in Nat
            BY <1>1, Bounds
          <5> QED BY <4>1, <5>1
        <4>2. CASE next = through
          BY <1>5, <4>2
        <4> QED BY <3>2, <4>1, <4>2
      <3>4. ASSUME NEW u \in 1 .. N, intake.after < u, u <= next
            PROVE  u \in page \/ Key(epoch, u) \in gone
        <4>1. u \in Nat /\ intake.after \in Nat /\ through \in Nat
          BY <1>1, <1>3, <1>5, Bounds
        <4>2. u <= through
          BY <3>2, <3>4, <4>1
        <4> QED BY <1>8, <3>1, <3>4, <4>2
      <3> QED BY <3>3, <3>4
    <2> QED BY <2>1, <2>2
  <1>12. \A u \in page : intake.after < u /\ u <= N
    BY <1>6, <1>9
  <1> DEFINE t == IF more THEN through ELSE NoBound
  <1>13. t \in {NoBound} \cup Posn
    BY <1>5
  <1>14. p = [phase |-> "page", src |-> intake.src, epoch |-> epoch, uids |-> page,
              through |-> t, next |-> next]
    OBVIOUS
  <1> HIDE DEF p, next, t, more
  <1>15. /\ p \in [src : Epochs, epoch : Epochs, uids : SUBSET Uids,
                   through : {NoBound} \cup Posn, next : Posn, phase : {"page"}]
         /\ p.src = intake.src /\ p.epoch = epoch /\ p.uids = page /\ p.next = next
    BY <1>1, <1>10, <1>11, <1>13, <1>14
  <1>16. ShowsPage(p)
    BY <1>9, <1>11, <1>12, <1>15 DEF ShowsPage, N
  <1>17. \A x : x = p => ShowsPage(x)
    BY <1>16
  <1> QED BY <1>1, <1>2, <1>17

\* Where the intake goes, beside a page it asked for.
IntakeGoes ==
  \/ intake' = intake
  \/ intake' = IdleIntake
  \/ \E e \in Epochs : intake' = [phase |-> "held", src |-> e] \/ intake' = [phase |-> "settle", src |-> e]
  \/ \E s, e \in Epochs : intake' = [phase |-> "mark", src |-> s, to |-> e]
  \/ intake.phase = "mark" /\ MarkEpoch /\ intake' = [intake EXCEPT !.phase = "retire"]
  \/ intake.phase = "retire" /\ intake' = [intake EXCEPT !.phase = "create"]

LEMMA IntakeSteps ==
  ASSUME IInv, [Next]_vars
  PROVE  IntakeGoes \/ IntakeBegin \/ FirstProbe \/ ServePage
PROOF
  <1>1. IntakeTyped /\ ServerTyped
    BY DEF IInv, Typed
  <1>2. CASE ~Intake /\ ~Restart
    BY <1>2, IntakeSame DEF IntakeGoes
  <1>3. CASE Restart \/ IntakeFails \/ FirstSource \/ CreateEpoch \/ IntakeSettle
    BY <1>3 DEF Restart, IntakeFails, FirstSource, CreateEpoch, IntakeSettle, IntakeGoes
  <1>4. CASE HeldProbe
    BY <1>1, <1>4, IntakeIs DEF HeldProbe, IntakeGoes, ServerTyped
  <1>5. CASE PageArrives
    BY <1>1, <1>5, IntakeIs DEF PageArrives, IntakeGoes
  <1>6. CASE MarkEpoch
    BY <1>6 DEF MarkEpoch, IntakeGoes
  <1>7. CASE RetireEpoch
    BY <1>7 DEF RetireEpoch, IntakeGoes
  <1> QED BY <1>2, <1>3, <1>4, <1>5, <1>6, <1>7 DEF Intake

\* The phases that lead on are entered only from the one before.
LEMMA GoesTyped ==
  ASSUME IntakeTyped, IntakeGoes, intake' # intake
  PROVE  /\ IntakeTyped'
         /\ intake'.phase \in {"idle", "held", "settle", "mark", "retire", "create"}
         /\ intake'.phase = "retire" => MarkEpoch
         /\ intake'.phase = "create" => intake.phase = "retire"
PROOF
  <1>1. CASE intake' = IdleIntake
    BY <1>1 DEF IntakeTyped, IdleIntake
  <1>2. ASSUME NEW e \in Epochs, intake' = [phase |-> "held", src |-> e]
        PROVE  IntakeTyped' /\ intake'.phase = "held"
    BY <1>2 DEF IntakeTyped
  <1>3. ASSUME NEW e \in Epochs, intake' = [phase |-> "settle", src |-> e]
        PROVE  IntakeTyped' /\ intake'.phase = "settle"
    BY <1>3 DEF IntakeTyped
  <1>4. ASSUME NEW s \in Epochs, NEW e \in Epochs, intake' = [phase |-> "mark", src |-> s, to |-> e]
        PROVE  IntakeTyped' /\ intake'.phase = "mark"
    BY <1>4 DEF IntakeTyped
  <1>5. ASSUME NEW ph \in {"retire", "create"}, intake.phase \in {"mark", "retire"},
               intake' = [intake EXCEPT !.phase = ph]
        PROVE  IntakeTyped' /\ intake'.phase = ph
    <2>1. intake \in [phase : {"mark", "retire", "create"}, src : Epochs, to : Epochs]
      BY <1>5 DEF IntakeTyped
    <2>2. /\ intake' \in [phase : {"mark", "retire", "create"}, src : Epochs, to : Epochs]
          /\ intake'.phase = ph
      BY <1>5, <2>1
    <2> QED BY <2>2 DEF IntakeTyped
  <1>6. CASE intake.phase = "mark" /\ MarkEpoch /\ intake' = [intake EXCEPT !.phase = "retire"]
    <2>1. IntakeTyped' /\ intake'.phase = "retire"
      BY <1>5, <1>6
    <2> QED BY <1>6, <2>1
  <1>7. CASE intake.phase = "retire" /\ intake' = [intake EXCEPT !.phase = "create"]
    <2>1. IntakeTyped' /\ intake'.phase = "create"
      BY <1>5, <1>7
    <2> QED BY <1>7, <2>1
  <1>8. CASE intake'.phase \in {"idle", "held", "settle", "mark"} /\ IntakeTyped'
    BY <1>8
  <1>9. intake' = IdleIntake => intake'.phase = "idle"
    BY DEF IdleIntake
  <1>10. ASSUME \E e \in Epochs : \/ intake' = [phase |-> "held", src |-> e]
                                  \/ intake' = [phase |-> "settle", src |-> e]
         PROVE  intake'.phase \in {"held", "settle"} /\ IntakeTyped'
    BY <1>2, <1>3, <1>10
  <1>11. ASSUME \E s, e \in Epochs : intake' = [phase |-> "mark", src |-> s, to |-> e]
         PROVE  intake'.phase = "mark" /\ IntakeTyped'
    BY <1>4, <1>11
  <1> QED BY <1>1, <1>6, <1>7, <1>9, <1>10, <1>11 DEF IntakeGoes

LEMMA FirstProbeAt ==
  ASSUME IInv, FirstProbe
  PROVE  /\ intake.phase = "first" /\ IntakeTyped'
         /\ intake'.phase = "create first" /\ intake'.to = epoch /\ intake'.newest = Newest(epoch)
PROOF
  <1>1. epoch \in Epochs /\ Newest(epoch) \in Posn
    BY DEF IInv, Typed, ServerTyped
  <1> QED BY <1>1 DEF FirstProbe, IntakeTyped

LEMMA BeginTyped ==
  ASSUME IInv, IntakeBegin
  PROVE  /\ IntakeTyped'
         /\ \/ Found = {} /\ intake'.phase = "first"
            \/ intake'.phase = "held"
            \/ /\ intake'.phase = "asked" /\ source[intake'.src].state = "active"
               /\ intake'.limit + OpenCount(intake'.src) <= MAX_OPEN
               /\ intake'.after = Enum(intake'.src)
PROOF
  <1>1. CASE Found = {} /\ intake' = [phase |-> "first"]
    BY <1>1 DEF IntakeTyped
  <1>2. ASSUME NEW s \in Epochs, intake' = [phase |-> "held", src |-> s]
        PROVE  IntakeTyped' /\ intake'.phase = "held"
    BY <1>2 DEF IntakeTyped
  <1>3. ASSUME NEW s \in Epochs, NEW n \in Nat \ {0},
               n + OpenCount(s) <= MAX_OPEN, source[s].state = "active",
               intake' = [phase |-> "asked", src |-> s, after |-> Enum(s), limit |-> n]
        PROVE  /\ IntakeTyped' /\ intake'.phase = "asked" /\ source[intake'.src].state = "active"
               /\ intake'.limit + OpenCount(intake'.src) <= MAX_OPEN
               /\ intake'.after = Enum(intake'.src)
    <2>1. Enum(s) \in Posn
      BY SourceIs DEF IInv, Typed
    <2>2. intake'.phase = "asked" /\ intake'.src = s /\ intake'.after = Enum(s) /\ intake'.limit = n
      BY <1>3
    <2>3. intake' \in [phase : {"asked"}, src : Epochs, after : Posn, limit : Nat \ {0}]
      BY <1>3, <2>1
    <2> QED BY <1>3, <2>2, <2>3 DEF IntakeTyped, Posn
  <1> QED BY <1>1, <1>2, <1>3, IntakeBeginAt

LEMMA IntakeTypedStep == ASSUME IInv, [Next]_vars PROVE IntakeTyped'
PROOF
  <1>1. IntakeTyped
    BY DEF IInv, Typed
  <1>2. CASE intake' = intake
    BY <1>1, <1>2 DEF IntakeTyped, Posn, Uids
  <1>3. CASE IntakeGoes /\ intake' # intake
    BY <1>1, <1>3, GoesTyped
  <1>4. CASE ServePage
    <2>1. intake' \in [src : Epochs, epoch : Epochs, uids : SUBSET Uids,
                       through : {NoBound} \cup Posn, next : Posn, phase : {"page"}]
      BY <1>4, ServePageAt DEF ShowsPage
    <2> QED BY <2>1 DEF IntakeTyped, Posn, Uids
  <1> QED BY <1>2, <1>3, <1>4, IntakeSteps, BeginTyped, FirstProbeAt

\* Where the reader goes.
LEMMA ReaderTypedStep == ASSUME IInv, [Next]_vars PROVE ReaderTyped'
PROOF
  <1>1. ReaderTyped /\ ServerTyped
    BY DEF IInv, Typed
  <1>2. CASE reader' = reader
    BY <1>1, <1>2 DEF ReaderTyped, Uids, Answer
  <1>3. CASE reader' = IdleReader
    BY <1>3 DEF ReaderTyped, IdleReader
  <1>4. CASE WorkBegin
    <2>0. PICK s \in Found : \E late \in SUBSET J!InState(J!OfSource(s), {"retry_wait"}) :
            LET due == {k.pos : k \in J!InState(J!OfSource(s), {"pending"}) \cup late}
            IN  reader' = [phase |-> "operator", src |-> s,
                  batch |-> {u \in due : Cardinality({v \in due : v <= u}) <= WORK_BATCH}]
      BY <1>4 DEF WorkBegin
    <2>1. PICK late \in SUBSET J!InState(J!OfSource(s), {"retry_wait"}) :
            LET due == {k.pos : k \in J!InState(J!OfSource(s), {"pending"}) \cup late}
            IN  reader' = [phase |-> "operator", src |-> s,
                  batch |-> {u \in due : Cardinality({v \in due : v <= u}) <= WORK_BATCH}]
      BY <2>0
    <2> DEFINE due == {k.pos : k \in J!InState(J!OfSource(s), {"pending"}) \cup late}
               b == {u \in due : Cardinality({v \in due : v <= u}) <= WORK_BATCH}
    <2>2. s \in Epochs
      BY DEF Found, Live
    <2>3. due \in SUBSET Uids
      BY KeysAre DEF J!InState, J!OfSource, Keys
    <2>4. b \in SUBSET Uids
      BY <2>3
    <2>5. reader' = [phase |-> "operator", src |-> s, batch |-> b]
      BY <2>1
    <2> HIDE DEF b
    <2> QED BY <2>2, <2>4, <2>5 DEF ReaderTyped, Uids
  <1>5. CASE OperatorReply
    <2>1. reader \in [phase : {"operator", "next"}, src : Epochs, batch : SUBSET Uids]
      BY <1>1, <1>5 DEF OperatorReply, ReaderTyped
    <2>2. CASE reader' = [reader EXCEPT !.phase = "next"]
      <3>1. reader' \in [phase : {"operator", "next"}, src : Epochs, batch : SUBSET Uids]
        BY <2>1, <2>2
      <3> QED BY <3>1 DEF ReaderTyped, Uids
    <2> QED BY <1>3, <1>5, <2>2 DEF OperatorReply
  <1>6. ASSUME reader' = EndPass, reader.phase # "idle" PROVE ReaderTyped'
    <2>1. reader.src \in Epochs
      BY <1>1, <1>6, ReaderIs
    <2> QED BY <1>6, <2>1 DEF ReaderTyped, EndPass
  <1>7. ASSUME reader' = NextMail, reader.phase \in {"get", "got", "llm"} PROVE ReaderTyped'
    <2>1. reader.src \in Epochs /\ reader.batch \in SUBSET Uids
      BY <1>1, <1>7, ReaderIs
    <2>2. reader.batch \ {reader.uid} \in SUBSET Uids
      BY <2>1
    <2> QED BY <1>7, <2>1, <2>2 DEF ReaderTyped, NextMail, Uids
  <1>8. CASE ClaimMail
    <2>1. reader.batch \in SUBSET Uids /\ reader.batch # {} /\ reader.src \in Epochs
      BY <1>1, <1>8, ReaderIs DEF ClaimMail
    <2>2. reader.batch \in SUBSET Nat
      BY <2>1, Bounds
    <2>3. Min(reader.batch) \in Uids
      BY <2>1, <2>2, MinOfNat
    <2>4. reader' = [phase |-> "get", src |-> reader.src, batch |-> reader.batch,
                     uid |-> Min(reader.batch)]
      BY <1>8 DEF ClaimMail
    <2> QED BY <2>1, <2>3, <2>4 DEF ReaderTyped, Uids
  <1>9. CASE ServeMail
    <2>1. reader.batch \in SUBSET Uids /\ reader.src \in Epochs /\ reader.uid \in Uids
      BY <1>1, <1>9, ReaderIs DEF ServeMail
    <2> DEFINE a == IF ~Answers(reader.src) THEN "epoch_changed"
                    ELSE IF reader.uid \notin Present(epoch) THEN "vanished"
                    ELSE box[epoch][reader.uid]
    <2>2. epoch \in Epochs
      BY <1>1 DEF ServerTyped
    <2>3. a \in Answer
      BY <1>1, <2>2, BoxIs DEF Answer
    <2>4. reader' = [phase |-> "got", src |-> reader.src, batch |-> reader.batch,
                     uid |-> reader.uid, answer |-> a]
      BY <1>9 DEF ServeMail
    <2> HIDE DEF a
    <2> QED BY <2>1, <2>3, <2>4 DEF ReaderTyped, Uids, Answer
  <1>10. CASE GetReply
    <2>1. reader.batch \in SUBSET Uids /\ reader.src \in Epochs /\ reader.uid \in Uids
          /\ reader.phase = "got"
      BY <1>1, <1>10, ReaderIs DEF GetReply
    <2>2. \/ reader' = EndPass \/ reader' = NextMail
          \/ /\ reader.answer \in Msgs
             /\ reader' = [phase |-> "llm", src |-> reader.src, batch |-> reader.batch,
                           uid |-> reader.uid, msg |-> reader.answer]
      BY <1>10 DEF GetReply, Decide
    <2>3. ASSUME reader.answer \in Msgs,
                 reader' = [phase |-> "llm", src |-> reader.src, batch |-> reader.batch,
                            uid |-> reader.uid, msg |-> reader.answer]
          PROVE  ReaderTyped'
      BY <2>1, <2>3 DEF ReaderTyped, Uids
    <2> QED BY <1>6, <1>7, <2>1, <2>2, <2>3
  <1>11. CASE GetFails \/ ReadReply
    BY <1>7, <1>11 DEF GetFails, ReadReply
  <1>12. CASE PassEnds
    BY <1>6, <1>12 DEF PassEnds
  <1>13. CASE ReaderSettle \/ Restart
    BY <1>3, <1>13 DEF ReaderSettle, Restart
  <1>14. CASE RequeueHeld
    BY <1>2, <1>14 DEF RequeueHeld
  <1> QED BY <1>2, <1>4, <1>5, <1>8, <1>9, <1>10, <1>11, <1>12, <1>13, <1>14, ReaderSame DEF Reader

LEMMA CliStep ==
  ASSUME [Next]_vars
  PROVE  \/ cli' = cli
         \/ OperatorLooks
         \/ OperatorMigrates /\ cli' = NoCommand
PROOF
  BY DEF Next, Intake, Reader, vars, Deliver, Expunge, Reset, IntakeBegin, FirstProbe, FirstSource,
     HeldProbe, ServePage, PageArrives, IntakeSettle, MarkEpoch, RetireEpoch, CreateEpoch,
     IntakeFails, WorkBegin, RequeueHeld, OperatorReply, PassEnds, ReaderSettle, ClaimMail,
     ServeMail, GetReply, GetFails, ReadReply, Restart, OperatorRetry, OperatorDismiss, OperatorMigrates

\* A command looks at a held source.
LEMMA LooksAt ==
  ASSUME IInv, OperatorLooks
  PROVE  /\ cli' \in [src : Epochs, from : {NoBound} \cup Posn] /\ SlowMigrate
         /\ source[cli'.src].state = "migration_needs_review" /\ UNCHANGED <<source, start, mark, id>>
PROOF
  BY DEF OperatorLooks, Commands, J!Pos, Posn, journal, columns

LEMMA CommandTypedStep == ASSUME IInv, [Next]_vars PROVE CommandTyped'
PROOF
  <1>1. CommandTyped
    BY DEF IInv, Typed
  <1>2. CASE cli' = cli
    <2>1. cli # NoCommand => cli.src \in Epochs
      BY <1>1 DEF CommandTyped
    <2> QED BY <1>1, <1>2, <2>1, SourcesKept DEF CommandTyped, Exists, Posn
  <1>3. CASE OperatorLooks
    <2>1. /\ cli' \in [src : Epochs, from : {NoBound} \cup Posn] /\ SlowMigrate
          /\ source'[cli'.src].state # "none"
      BY <1>3, LooksAt
    <2> QED BY <2>1 DEF CommandTyped, Exists, Posn
  <1>4. CASE cli' = NoCommand
    BY <1>4 DEF CommandTyped, NoCommand
  <1> QED BY <1>2, <1>3, <1>4, CliStep

LEMMA TypedStep == ASSUME IInv, [Next]_vars PROVE Typed'
PROOF
  BY JournalTypedStep, ColumnsStep, ServerStep, IntakeTypedStep, ReaderTypedStep, CommandTypedStep
  DEF Typed

-----------------------------------------------------------------------------
(* Sources: created, retired, moved *)

LEMMA Founded ==
  ASSUME IInv, [Next]_vars, Founds
  PROVE  \E e \in Epochs, from \in Posn, state \in {"active", "migration_needs_review"} :
           /\ SourceMoves(e, IF source[e].state \in {"none", "retired"} THEN state ELSE source[e].state,
                          IF Exists(e) THEN Enum(e) ELSE from)
           /\ IF Exists(e) THEN UNCHANGED <<id, start>>
              ELSE /\ id' = [id EXCEPT ![e] = 1 + Cardinality({f \in Epochs : id[f] > 0})]
                   /\ start' = [start EXCEPT ![e] = from]
           /\ UNCHANGED <<mark, cli>> /\ intake' = IdleIntake
           /\ from <= Newest(e)
           /\ mark => from = 0 /\ state = "active"
           /\ ~mark => \A f \in Epochs : ~Exists(f)
PROOF
  <1>1. JournalTyped /\ ServerTyped /\ Marked /\ Scanning /\ IntakeTyped
    BY DEF IInv, Typed
  <1>2. PICK e \in Epochs, from \in Posn, state \in {"active", "migration_needs_review"} :
           /\ Create(e, from, state) /\ e = intake.to
           /\ IF FirstSource THEN intake.phase = "create first" /\ FirstStart(from, intake.newest, state)
              ELSE from = 0 /\ state = "active" /\ intake.phase = "create"
    BY FoundsAt
  <1>3. UNCHANGED <<mark, cli>> /\ intake' = IdleIntake
    BY DEF Founds, FirstSource, CreateEpoch
  <1>4. Newest(e) \in Nat /\ from \in Nat
    BY <1>1, BoxIs, Bounds
  <1>5. /\ from <= Newest(e)
        /\ mark => from = 0 /\ state = "active"
        /\ ~mark => \A f \in Epochs : ~Exists(f)
    <2>1. CASE FirstSource
      <3>1. from <= intake.newest /\ intake.newest <= Newest(e) /\ intake.newest \in Nat
        BY <1>1, <1>2, <2>1, IntakeIs, Bounds DEF FirstStart, Scanning
      <3>2. from <= Newest(e)
        BY <1>4, <3>1
      <3> QED BY <1>1, <1>2, <2>1, <3>2 DEF FirstStart, Marked
    <2>2. CASE ~FirstSource
      <3>1. from = 0 /\ state = "active" /\ intake.phase = "create"
        BY <1>2, <2>2
      <3>2. from <= Newest(e)
        BY <1>4, <3>1
      <3> QED BY <1>1, <3>1, <3>2, Zenon DEF Marked
    <2> QED BY <2>1, <2>2
  <1> QED BY <1>1, <1>2, <1>3, <1>5, CreateAt

LEMMA Retired ==
  ASSUME IInv, RetireEpoch
  PROVE  /\ intake.src \in Epochs /\ SourceMoves(intake.src, "retired", Enum(intake.src))
         /\ UNCHANGED <<id, start, mark, cli>> /\ mark = TRUE
         /\ intake' = [intake EXCEPT !.phase = "create"]
         /\ intake'.phase = "create" /\ intake.phase = "retire"
PROOF
  <1>1. IntakeTyped /\ JournalTyped /\ Marked /\ mark \in BOOLEAN
    BY DEF IInv, Typed, ColumnsTyped
  <1>2. /\ intake.phase = "retire" /\ J!Retire(intake.src) /\ UNCHANGED <<id, start, mark, cli>>
        /\ intake' = [intake EXCEPT !.phase = "create"]
    BY DEF RetireEpoch, columns
  <1>3. intake.src \in Epochs
    BY <1>1, <1>2, IntakeIs
  <1>4. intake \in [phase : {"mark", "retire", "create"}, src : Epochs, to : Epochs]
    BY <1>1, <1>2 DEF IntakeTyped
  <1>5. intake'.phase = "create"
    BY <1>2, <1>4
  <1> QED BY <1>1, <1>2, <1>3, <1>5, SourceRetires DEF Marked

\* The cursor and start of one source after a step.
SourcedAt(e) ==
  /\ id[e] = 0 <=> ~Exists(e)
  /\ Exists(e) => start[e] \in Posn
  /\ Enum(e) <= Newest(e) \/ Enum(e) <= start[e]

LEMMA SourcedStays ==
  ASSUME IInv, [Next]_vars, NEW e \in Epochs,
         source'[e].enumerated = Enum(e), source'[e].state = "none" <=> ~Exists(e),
         id'[e] = id[e], start'[e] = start[e]
  PROVE  SourcedAt(e)'
PROOF
  <1>1. SourcedAt(e) /\ ServerTyped /\ ServerTyped' /\ JournalTyped /\ BoxGrows
    BY ServerStep DEF IInv, Typed, Sourced, SourcedAt
  <1>2. Newest(e) \in Nat /\ Newest(e)' \in Nat /\ Newest(e) <= Newest(e)' /\ Enum(e) \in Nat
    BY <1>1, BoxIs, SourceIs, Bounds DEF BoxGrows, ServerTyped, Newest, Posn
  <1> QED BY <1>1, <1>2 DEF SourcedAt, Exists, Enum, Posn

LEMMA SourcedStep == ASSUME IInv, [Next]_vars PROVE Sourced'
PROOF
  <1>1. JournalTyped /\ ColumnsTyped /\ ServerTyped /\ IntakeTyped /\ Sourced
    BY DEF IInv, Typed
  <1> SUFFICES ASSUME NEW e \in Epochs PROVE SourcedAt(e)'
    BY DEF Sourced, SourcedAt, Exists, Enum, Newest, Posn
  <1>2. /\ Newest(e) \in Nat /\ Len(box'[e]) \in Nat /\ Newest(e) <= Len(box'[e]) /\ Enum(e) \in Nat
        /\ ServerTyped'
    <2>1. ServerTyped' /\ BoxGrows
      BY ServerStep
    <2>2. Newest(e)' \in Posn
      BY <2>1 DEF ServerTyped, Posn
    <2> QED BY <1>1, <2>1, <2>2, BoxIs, SourceIs, Bounds DEF BoxGrows, Newest
  <1>3. CASE Stay
    BY <1>3, SourcedStays DEF Stay, Exists
  <1>4. CASE Founds
    <2>1. PICK f \in Epochs, from \in Posn, state \in {"active", "migration_needs_review"} :
           /\ SourceMoves(f, IF source[f].state \in {"none", "retired"} THEN state ELSE source[f].state,
                          IF Exists(f) THEN Enum(f) ELSE from)
           /\ IF Exists(f) THEN UNCHANGED <<id, start>>
              ELSE /\ id' = [id EXCEPT ![f] = 1 + Cardinality({g \in Epochs : id[g] > 0})]
                   /\ start' = [start EXCEPT ![f] = from]
           /\ from <= Newest(f)
      BY <1>4, Founded
    <2>2. CASE e # f \/ Exists(f)
      <3>1. source'[e].enumerated = Enum(e) /\ (source'[e].state = "none" <=> ~Exists(e))
        BY <2>1, <2>2 DEF SourceMoves, Enum, Exists
      <3>2. id'[e] = id[e] /\ start'[e] = start[e]
        BY <1>1, <2>1, <2>2 DEF ColumnsTyped
      <3> QED BY <3>1, <3>2, SourcedStays
    <2>3. CASE e = f /\ ~Exists(f)
      <3>1. 1 + Cardinality({g \in Epochs : id[g] > 0}) \in 1 .. Cardinality(Epochs)
        BY <1>1, <2>3, IdTyped
      <3>2. id'[e] # 0 /\ start'[e] = from
        BY <1>1, <2>1, <2>3, <3>1 DEF ColumnsTyped
      <3>3. source'[e].state # "none" /\ source'[e].enumerated = from
        BY <2>1, <2>3 DEF SourceMoves, Exists
      <3>4. from \in Nat /\ from <= Len(box'[e])
        BY <1>2, <2>1, <2>3, Bounds
      <3> QED BY <3>2, <3>3, <3>4 DEF SourcedAt, Exists, Enum, Newest, Posn
    <2> QED BY <2>2, <2>3
  <1>5. CASE RetireEpoch
    <2>1. /\ intake.src \in Epochs /\ SourceMoves(intake.src, "retired", Enum(intake.src))
          /\ UNCHANGED <<id, start>> /\ Exists(intake.src)
      BY <1>5, Retired DEF RetireEpoch, J!Retire, Exists
    <2> QED BY <2>1, SourcedStays DEF SourceMoves, Enum, Exists
  <1>6. CASE Arrives
    <2>1. /\ SourceMoves(intake.src, "active", J!Larger(Enum(intake.src), intake.next))
          /\ UNCHANGED <<id, start>> /\ intake.src \in Epochs /\ intake.next \in Posn
      BY <1>6, PageIs
    <2>2. CASE e # intake.src
      BY <2>1, <2>2, SourcedStays DEF SourceMoves, Enum, Exists
    <2>3. CASE e = intake.src
      <3>1. source[e].state = "active" /\ (intake.next <= Newest(e) \/ intake.next <= Enum(e))
        BY <1>6, <2>3 DEF IInv, Scanning, Arrives, PageArrives
      <3>2. source'[e].state = "active" /\ source'[e].enumerated = J!Larger(Enum(e), intake.next)
        BY <2>1, <2>3 DEF SourceMoves
      <3>3. intake.next \in Nat
        BY <2>1, Bounds
      <3>4. \/ source'[e].enumerated = Enum(e)
            \/ source'[e].enumerated = intake.next /\ intake.next <= Newest(e)
        <4>1. CASE Enum(e) >= intake.next
          BY <3>2, <4>1 DEF J!Larger
        <4>2. CASE ~(Enum(e) >= intake.next)
          <5>1. ~(intake.next <= Enum(e))
            BY <1>2, <3>3, <4>2
          <5> QED BY <3>1, <3>2, <4>2, <5>1 DEF J!Larger
        <4> QED BY <4>1, <4>2
      <3>5. CASE source'[e].enumerated = Enum(e)
        BY <2>1, <3>1, <3>2, <3>5, SourcedStays DEF Exists
      <3>6. CASE source'[e].enumerated = intake.next /\ intake.next <= Newest(e)
        <4>1. Exists(e) /\ id[e] # 0 /\ start[e] \in Posn
          BY <1>1, <3>1 DEF Exists, Sourced
        <4>2. intake.next <= Len(box'[e])
          BY <1>2, <3>3, <3>6
        <4> QED BY <2>1, <3>2, <3>6, <4>1, <4>2 DEF SourcedAt, Exists, Enum, Newest, Posn
      <3> QED BY <3>4, <3>5, <3>6
    <2> QED BY <2>2, <2>3
  <1>7. CASE OperatorMigrates
    <2>0. UNCHANGED id
      BY <1>7 DEF OperatorMigrates, columns
    <2>1. PICK c \in [src : Epochs, from : {NoBound} \cup Posn] :
           /\ Exists(c.src)
           /\ \/ c.from = NoBound /\ SourceMoves(c.src, "active", Enum(c.src)) /\ UNCHANGED start
              \/ /\ c.from \in Posn
                 /\ SourceMoves(c.src, "active",
                      IF source[c.src].state = "migration_needs_review" THEN c.from
                      ELSE J!Larger(Enum(c.src), c.from))
                 /\ start' = IF source'[c.src].enumerated = c.from
                               THEN [start EXCEPT ![c.src] = c.from] ELSE start
      BY <1>7, MigrateWith
    <2>2. CASE e # c.src
      <3>1. source'[e] = source[e]
        BY <2>1, <2>2 DEF SourceMoves
      <3>2. start'[e] = start[e]
        BY <1>1, <2>1, <2>2 DEF ColumnsTyped
      <3> QED BY <2>0, <3>1, <3>2, SourcedStays DEF Enum, Exists
    <2>3. CASE e = c.src /\ c.from = NoBound
      <3>1. c.from \notin Posn
        BY <2>3, Bounds DEF NoBound
      <3> QED BY <2>0, <2>1, <2>3, <3>1, SourcedStays DEF SourceMoves, Exists
    <2>4. CASE e = c.src /\ c.from # NoBound
      <3>1. /\ c.from \in Posn /\ c.from \in Nat /\ source'[e].state = "active" /\ Exists(e)
            /\ source'[e].enumerated =
                 IF source[e].state = "migration_needs_review" THEN c.from
                 ELSE J!Larger(Enum(e), c.from)
            /\ start' = IF source'[e].enumerated = c.from
                               THEN [start EXCEPT ![e] = c.from] ELSE start
        BY <2>1, <2>4, Bounds DEF SourceMoves
      <3>2. CASE source'[e].enumerated = c.from
        <4>1. start'[e] = c.from
          BY <1>1, <3>1, <3>2 DEF ColumnsTyped
        <4>2. id[e] # 0
          BY <1>1, <3>1 DEF Sourced
        <4> QED BY <2>0, <3>1, <3>2, <4>1, <4>2 DEF SourcedAt, Exists, Enum, Newest, Posn
      <3>3. CASE source'[e].enumerated # c.from
        <4>1. source'[e].enumerated = Enum(e) /\ start' = start
          BY <3>1, <3>3 DEF J!Larger
        <4> QED BY <2>0, <3>1, <4>1, SourcedStays DEF Exists
      <3> QED BY <3>2, <3>3
    <2> QED BY <2>2, <2>3, <2>4
  <1> QED BY <1>3, <1>4, <1>5, <1>6, <1>7, SourceStep

\* The journal finds a source whenever there is a live one.
LEMMA FoundAny == ASSUME ColumnsTyped, Live # {} PROVE Found # {}
PROOF
  <1> DEFINE I == {id[t] : t \in Live}
             n == Cardinality(Epochs)
  <1>1. n \in Nat
    BY FS_CardinalityType, MailAssumption DEF MailAssumption
  <1>2. \A t \in Live : t \in Epochs /\ id[t] \in 0 .. n
    BY DEF Live, ColumnsTyped
  <1> HIDE DEF n
  <1>3. I \in SUBSET Int /\ I # {} /\ \A x \in I : x <= n
    <2>1. \A x \in I : x \in Int /\ x <= n
      BY <1>1, <1>2
    <2> QED BY <2>1
  <1> HIDE DEF I
  <1>4. Max(I) \in I /\ \A y \in I : y <= Max(I)
    BY <1>1, <1>3, MaxOfBounded
  <1>5. PICK s \in Live : \A y \in I : y <= id[s]
    BY <1>4 DEF I
  <1> QED BY <1>5 DEF Found, I

LEMMA ExistsStep ==
  ASSUME IInv, [Next]_vars, ~Founds, NEW e \in Epochs
  PROVE  source'[e].state # "none" <=> Exists(e)
PROOF
  <1>1. ASSUME NEW s \in Epochs, NEW state, state # "none", NEW c, Exists(s), SourceMoves(s, state, c)
        PROVE  source'[e].state # "none" <=> Exists(e)
    BY <1>1 DEF SourceMoves, Exists
  <1>2. CASE Stay
    BY <1>2 DEF Stay, Exists
  <1>3. CASE RetireEpoch
    <2>1. /\ intake.src \in Epochs /\ SourceMoves(intake.src, "retired", Enum(intake.src))
          /\ Exists(intake.src)
      BY <1>3, Retired DEF RetireEpoch, J!Retire, Exists
    <2> QED BY <1>1, <2>1
  <1>4. CASE Arrives
    <2>1. /\ SourceMoves(intake.src, "active", J!Larger(Enum(intake.src), intake.next))
          /\ intake.src \in Epochs /\ source[intake.src].state = "active"
      BY <1>4, PageIs DEF IInv, Scanning
    <2> QED BY <1>1, <2>1 DEF Exists
  <1>5. CASE OperatorMigrates
    <2>1. PICK s \in Epochs : Exists(s) /\ \E c : SourceMoves(s, "active", c)
      BY <1>5, MigrateWith
    <2> QED BY <1>1, <2>1
  <1> QED BY <1>2, <1>3, <1>4, <1>5, SourceStep

LEMMA NotRetired ==
  ASSUME IInv, [Next]_vars, ~RetireEpoch, NEW e \in Epochs, source'[e].state = "retired"
  PROVE  source[e].state = "retired"
PROOF
  <1>1. ASSUME NEW s \in Epochs, NEW state, state = "retired" => source[s].state = "retired",
               NEW c, SourceMoves(s, state, c)
        PROVE  source[e].state = "retired"
    BY <1>1 DEF SourceMoves
  <1>2. CASE Stay
    BY <1>2 DEF Stay
  <1>3. CASE Founds
    <2>1. PICK f \in Epochs, from \in Posn, state \in {"active", "migration_needs_review"} :
            SourceMoves(f, IF source[f].state \in {"none", "retired"} THEN state ELSE source[f].state,
                          IF Exists(f) THEN Enum(f) ELSE from)
      BY <1>3, Founded
    <2> DEFINE st == IF source[f].state \in {"none", "retired"} THEN state ELSE source[f].state
    <2>2. st = "retired" => source[f].state = "retired"
      OBVIOUS
    <2> HIDE DEF st
    <2> QED BY <1>1, <2>1, <2>2 DEF st
  <1>4. CASE Arrives
    <2>1. intake.src \in Epochs
          /\ SourceMoves(intake.src, "active", J!Larger(Enum(intake.src), intake.next))
      BY <1>4, PageIs
    <2> QED BY <1>1, <2>1
  <1>5. CASE OperatorMigrates
    <2>1. PICK s \in Epochs : \E c : SourceMoves(s, "active", c)
      BY <1>5, MigrateWith
    <2> QED BY <1>1, <2>1
  <1> QED BY <1>2, <1>3, <1>4, <1>5, SourceStep

\* What the intake goes on to when it leaves where it is.
LEMMA IntakeLeads ==
  ASSUME IInv, [Next]_vars, intake' # intake
  PROVE  /\ intake'.phase = "first" => IntakeBegin /\ Found = {}
         /\ intake'.phase = "create first" => FirstProbe /\ intake.phase = "first"
         /\ intake'.phase = "asked" => IntakeBegin
         /\ intake'.phase = "page" => ServePage
         /\ intake'.phase = "retire" => MarkEpoch
         /\ intake'.phase = "create" => intake.phase = "retire"
PROOF
  <1>1. IntakeTyped
    BY DEF IInv, Typed
  <1>2. CASE IntakeGoes
    BY <1>1, <1>2, GoesTyped
  <1>3. CASE IntakeBegin
    BY <1>3, BeginTyped
  <1>4. CASE FirstProbe
    BY <1>4, FirstProbeAt
  <1>5. CASE ServePage
    <2>1. intake'.phase = "page"
      BY <1>5, ServePageAt DEF ShowsPage
    <2> QED BY <1>5, <2>1
  <1> QED BY <1>2, <1>3, <1>4, <1>5, IntakeSteps

LEMMA MarkedStep == ASSUME IInv, [Next]_vars PROVE Marked'
PROOF
  <1>1. JournalTyped /\ ColumnsTyped /\ ServerTyped /\ IntakeTyped /\ Marked
    BY DEF IInv, Typed
  <1>2. SUFFICES ASSUME ~mark'
                 PROVE  /\ \A e \in Epochs : source'[e].state # "retired"
                        /\ \A e, f \in Epochs : Exists(e)' /\ Exists(f)' => e = f
                        /\ intake'.phase \in {"first", "create first"} => \A e \in Epochs : ~Exists(e)'
                        /\ intake'.phase \notin {"retire", "create"}
    BY DEF Marked, Exists
  <1>3. ~mark /\ ~MarkEpoch
    <2>1. CASE mark' = mark
      BY <1>2, <2>1 DEF MarkEpoch
    <2> QED BY <1>2, <2>1, ColumnsMove
  <1>4. /\ \A e \in Epochs : source[e].state # "retired"
        /\ \A e, f \in Epochs : Exists(e) /\ Exists(f) => e = f
        /\ intake.phase \in {"first", "create first"} => \A e \in Epochs : ~Exists(e)
        /\ intake.phase \notin {"retire", "create"}
    BY <1>1, <1>3 DEF Marked
  <1>5. ~RetireEpoch
    BY <1>4 DEF RetireEpoch
  <1>6. \A e \in Epochs : source'[e].state # "retired"
    BY <1>4, <1>5, NotRetired
  <1>7. \A e, f \in Epochs : Exists(e)' /\ Exists(f)' => e = f
    <2>1. CASE ~Founds
      BY <1>4, <2>1, ExistsStep DEF Exists
    <2>2. CASE Founds
      <3>1. PICK e \in Epochs : \E st, c : SourceMoves(e, st, c)
        BY <2>2, Founded
      <3>2. \A f \in Epochs : ~Exists(f)
        BY <1>3, <2>2, Founded
      <3> QED BY <3>1, <3>2 DEF SourceMoves, Exists
    <2> QED BY <2>1, <2>2
  <1>8. intake'.phase \in {"first", "create first"} => \A e \in Epochs : ~Exists(e)'
    <2>1. CASE Founds
      <3>1. intake' = IdleIntake
        BY <2>1, Founded
      <3> QED BY <3>1 DEF IdleIntake
    <2>2. CASE ~Founds /\ intake' = intake
      BY <1>4, <2>2, ExistsStep DEF Exists
    <2>3. CASE ~Founds /\ intake' # intake /\ intake'.phase = "first"
      <3>1. Live = {}
        BY <1>1, <2>3, IntakeLeads, FoundAny
      <3>2. \A e \in Epochs : ~Exists(e)
        BY <1>1, <1>4, <3>1, SourceIs DEF Live, Exists
      <3> QED BY <2>3, <3>2, ExistsStep DEF Exists
    <2>4. CASE ~Founds /\ intake' # intake /\ intake'.phase = "create first"
      BY <1>4, <2>4, IntakeLeads, ExistsStep DEF Exists
    <2> QED BY <2>1, <2>2, <2>3, <2>4
  <1>9. intake'.phase \notin {"retire", "create"}
    <2>1. CASE intake' = intake
      BY <1>4, <2>1
    <2>2. CASE intake' # intake
      BY <1>3, <1>4, <2>2, IntakeLeads
    <2> QED BY <2>1, <2>2
  <1> QED BY <1>6, <1>7, <1>8, <1>9

LEMMA PlacedOnceStep == ASSUME IInv, [Next]_vars PROVE PlacedOnce'
PROOF
  <1>1. JournalTyped /\ ColumnsTyped /\ CommandTyped /\ Marked /\ PlacedOnce
    BY DEF IInv, Typed
  <1>2. ASSUME \A e \in Epochs : Placed(e)' => Placed(e) PROVE PlacedOnce'
    BY <1>1, <1>2 DEF PlacedOnce
  <1>3. cli' = cli \/ (cli' # NoCommand => source[cli'.src].state = "migration_needs_review")
    BY CliStep, LooksAt
  <1>4. ASSUME NEW e \in Epochs, Placed(e)', Exists(e),
               source'[e].state = source[e].state \/ source'[e].state \in {"active", "retired"},
               start'[e] = start[e]
        PROVE  Placed(e)
    BY <1>3, <1>4 DEF Placed, Exists
  <1>5. CASE Stay
    <2>1. \A e \in Epochs : Exists(e)' => Exists(e)
      BY <1>5 DEF Stay, Exists
    <2> QED BY <1>2, <1>4, <1>5, <2>1 DEF Stay, Placed
  <1>6. CASE RetireEpoch
    <2>1. /\ intake.src \in Epochs /\ SourceMoves(intake.src, "retired", Enum(intake.src))
          /\ UNCHANGED start /\ ~Founds
      BY <1>6, Retired DEF Founds, FirstSource, CreateEpoch
    <2>2. \A e \in Epochs : Exists(e)' => Exists(e)
      BY <2>1, ExistsStep DEF Exists
    <2> QED BY <1>2, <1>4, <2>1, <2>2 DEF SourceMoves, Placed
  <1>7. CASE Arrives
    <2>1. /\ SourceMoves(intake.src, "active", J!Larger(Enum(intake.src), intake.next))
          /\ UNCHANGED start /\ intake.src \in Epochs /\ ~Founds
      BY <1>7, PageIs DEF Founds, FirstSource, CreateEpoch
    <2>2. \A e \in Epochs : Exists(e)' => Exists(e)
      BY <2>1, ExistsStep DEF Exists
    <2> QED BY <1>2, <1>4, <2>1, <2>2 DEF SourceMoves, Placed
  <1>8. CASE OperatorMigrates /\ ~Founds
    <2>1. PICK s \in Epochs :
            /\ Placed(s) /\ \E c : SourceMoves(s, "active", c)
            /\ \A e \in Epochs \ {s} : start'[e] = start[e]
      <3>1. PICK c \in [src : Epochs, from : {NoBound} \cup Posn] :
           /\ Placed(c.src)
           /\ \/ c.from = NoBound /\ SourceMoves(c.src, "active", Enum(c.src)) /\ UNCHANGED start
              \/ /\ c.from \in Posn
                 /\ SourceMoves(c.src, "active",
                      IF source[c.src].state = "migration_needs_review" THEN c.from
                      ELSE J!Larger(Enum(c.src), c.from))
                 /\ start' = IF source'[c.src].enumerated = c.from
                               THEN [start EXCEPT ![c.src] = c.from] ELSE start
        BY <1>8, MigrateWith
      <3>2. \A e \in Epochs \ {c.src} : start'[e] = start[e]
        BY <1>1, <3>1 DEF ColumnsTyped
      <3>3. c.src \in Epochs
        OBVIOUS
      <3> QED BY <3>1, <3>2, <3>3
    <2>2. \A e \in Epochs : Exists(e)' => Exists(e)
      BY <1>8, ExistsStep DEF Exists
    <2>3. \A e \in Epochs : Placed(e)' => Placed(e)
      BY <1>4, <2>1, <2>2 DEF SourceMoves, Placed
    <2> QED BY <1>2, <2>3
  <1>9. CASE Founds
    <2>1. PICK f \in Epochs, from \in Posn, state \in {"active", "migration_needs_review"} :
           /\ SourceMoves(f, IF source[f].state \in {"none", "retired"} THEN state ELSE source[f].state,
                          IF Exists(f) THEN Enum(f) ELSE from)
           /\ IF Exists(f) THEN UNCHANGED <<id, start>>
              ELSE /\ id' = [id EXCEPT ![f] = 1 + Cardinality({g \in Epochs : id[g] > 0})]
                   /\ start' = [start EXCEPT ![f] = from]
           /\ UNCHANGED <<mark, cli>> /\ intake' = IdleIntake
           /\ from <= Newest(f)
           /\ mark => from = 0 /\ state = "active"
           /\ ~mark => \A g \in Epochs : ~Exists(g)
      BY <1>9, Founded
    <2>2. CASE ~mark
      <3>1. \A e \in Epochs : Placed(e)' => e = f
        BY <2>1, <2>2 DEF SourceMoves, Placed, Exists
      <3> QED BY <3>1 DEF PlacedOnce
    <2>3. CASE mark
      <3>1. from = 0 /\ state = "active"
        BY <2>1, <2>3
      <3>2. ASSUME NEW e \in Epochs, Placed(e)', e # f \/ Exists(f) PROVE Placed(e)
        <4>1. start'[e] = start[e]
          BY <1>1, <2>1, <3>2 DEF ColumnsTyped
        <4>2. Exists(e)
          BY <2>1, <3>2 DEF SourceMoves, Placed, Exists
        <4>3. source'[e].state = source[e].state \/ source'[e].state = "active"
          BY <2>1, <3>1, <3>2 DEF SourceMoves
        <4> QED BY <1>4, <3>2, <4>1, <4>2, <4>3
      <3>3. ~Exists(f) => ~Placed(f)'
        <4> SUFFICES ASSUME ~Exists(f) PROVE ~Placed(f)'
          OBVIOUS
        <4>1. start'[f] = 0 /\ source'[f].state = "active"
          BY <1>1, <2>1, <3>1 DEF ColumnsTyped, SourceMoves, Exists
        <4>2. cli' # NoCommand => cli'.src # f
          BY <1>1, <2>1 DEF CommandTyped
        <4> QED BY <4>1, <4>2 DEF Placed
      <3> QED BY <1>2, <3>2, <3>3
    <2> QED BY <2>2, <2>3
  <1> QED BY <1>5, <1>6, <1>7, <1>8, <1>9, SourceStep

-----------------------------------------------------------------------------
(* Rows and the mail behind them *)

LEMMA ReadsAt ==
  ASSUME IInv, Reads
  PROVE  /\ reader.phase = "llm" /\ reader' = NextMail /\ reader.msg \in Msgs
         /\ Current \in Keys /\ State(Current) # "absent"
         /\ Current.src = reader.src /\ Current.pos = reader.uid
         /\ UNCHANGED <<source, id, scan, mark, box>>
         /\ \A k \in Keys : item'[k].state =
              IF k = Current /\ State(k) \in J!Open THEN "processed" ELSE State(k)
         /\ msgid' = IF State(Current) \notin J!FINAL /\ reader.msg # NoId
                       THEN [msgid EXCEPT ![Current] = reader.msg] ELSE msgid
PROOF
  <1>1. JournalTyped /\ ColumnsTyped /\ ReaderTyped /\ Reading /\ reader.phase = "llm"
    BY DEF IInv, Typed, Reads, ReadReply
  <1>2. reader' = NextMail /\ UNCHANGED box
    BY DEF Reads, ReadReply, server
  <1>3. /\ Current \in Keys /\ State(Current) # "absent" /\ reader.msg \in Msgs
        /\ Current.src = reader.src /\ Current.pos = reader.uid
    BY <1>1, CurrentAt, ReaderIs
  <1>4. "processed" \in J!FINAL /\ Dispose("processed", reader.msg)
    BY DEF Reads, J!FINAL
  <1> QED BY <1>1, <1>2, <1>3, <1>4, DisposeAt

\* The mail of a row is the same mail afterwards.
LEMMA MailStays ==
  ASSUME IInv, [Next]_vars, NEW k \in Keys, State(k) # "absent"
  PROVE  box'[k.src][k.pos] = box[k.src][k.pos] /\ k.pos <= Newest(k.src)'
PROOF
  <1>1. k.src \in Epochs /\ k.pos \in Uids /\ k.pos <= Newest(k.src) /\ ServerTyped
    BY KeysAre DEF IInv, Typed, Rows
  <1>2. BoxGrows /\ ServerTyped'
    BY ServerStep
  <1>3. Newest(k.src) \in Nat /\ k.pos \in Nat \ {0} /\ Newest(k.src) <= Len(box'[k.src])
    BY <1>1, <1>2, BoxIs, Bounds DEF BoxGrows
  <1>4. k.pos \in 1 .. Newest(k.src)
    BY <1>1, <1>3
  <1>5. box'[k.src][k.pos] = box[k.src][k.pos]
    BY <1>1, <1>2, <1>4 DEF BoxGrows
  <1>6. Newest(k.src)' \in Nat
    BY <1>1, <1>2, Bounds DEF ServerTyped, Posn
  <1>7. k.pos <= Len(box'[k.src])
    BY <1>1, <1>3, <1>6 DEF Newest
  <1> QED BY <1>5, <1>7 DEF Newest

LEMMA RowsInvStep == ASSUME IInv, [Next]_vars PROVE Rows'
PROOF
  <1>1. JournalTyped /\ ColumnsTyped /\ ReaderTyped /\ Reading /\ Rows /\ ServerTyped
    BY DEF IInv, Typed
  <1>2. SUFFICES ASSUME NEW k \in Keys
                 PROVE  /\ item'[k].state # "absent" => k.pos <= Newest(k.src)'
                        /\ msgid'[k] # "none" =>
                             item'[k].state \in J!FINAL /\ msgid'[k] = box'[k.src][k.pos]
    BY DEF Rows, State, Keys, J!Keys
  <1>3. ASSUME item'[k].state # "absent" PROVE k.pos <= Newest(k.src)'
    <2>1. CASE State(k) # "absent"
      BY <2>1, MailStays
    <2>2. CASE State(k) = "absent"
      <3>1. Arrives
        BY <1>3, <2>2, RowsKept
      <3>2. k.src = intake.src /\ k.pos \in intake.uids
        BY <1>3, <2>2, <3>1, PageIs
      <3>3. k.pos <= Newest(k.src) /\ UNCHANGED box
        BY <3>1, <3>2, PageIs DEF IInv, Scanning, Arrives
      <3> QED BY <3>3 DEF Newest
    <2> QED BY <2>1, <2>2
  <1>4. ASSUME msgid'[k] # "none", msgid'[k] = msgid[k]
        PROVE  item'[k].state \in J!FINAL /\ msgid'[k] = box'[k.src][k.pos]
    <2>1. State(k) \in J!FINAL /\ msgid[k] = box[k.src][k.pos]
      BY <1>1, <1>4 DEF Rows
    <2>2. State(k) # "absent"
      BY <2>1 DEF J!FINAL
    <2>3. item'[k].state = State(k)
      BY <2>1, RowsKept
    <2> QED BY <1>4, <2>1, <2>2, <2>3, MailStays
  <1>5. ASSUME NEW m, msgid' = [msgid EXCEPT ![Current] = m], item'[Current].state \in J!FINAL,
               m = box[reader.src][reader.uid], msgid'[k] # "none", Current \in Keys,
               State(Current) # "absent", Current.src = reader.src, Current.pos = reader.uid
        PROVE  item'[k].state \in J!FINAL /\ msgid'[k] = box'[k.src][k.pos]
    <2>1. CASE k # Current
      <3>1. msgid'[k] = msgid[k]
        BY <1>1, <1>5, <2>1 DEF ColumnsTyped
      <3> QED BY <1>4, <1>5, <3>1
    <2>2. CASE k = Current
      <3>1. msgid'[k] = m
        BY <1>1, <1>5, <2>2 DEF ColumnsTyped
      <3>2. box'[k.src][k.pos] = box[k.src][k.pos]
        BY <1>5, <2>2, MailStays
      <3> QED BY <1>5, <2>2, <3>1, <3>2
    <2> QED BY <2>1, <2>2
  <1>6. ASSUME msgid'[k] # "none"
        PROVE  item'[k].state \in J!FINAL /\ msgid'[k] = box'[k.src][k.pos]
    <2>1. CASE msgid' = msgid
      BY <1>4, <1>6, <2>1
    <2>2. CASE Arrives
      BY <1>4, <1>6, <2>2, PageIs
    <2>3. CASE Reads /\ msgid' # msgid
      <3>1. /\ State(Current) \notin J!FINAL /\ State(Current) # "absent" /\ Current \in Keys
            /\ Current.src = reader.src /\ Current.pos = reader.uid
            /\ msgid' = [msgid EXCEPT ![Current] = reader.msg]
        BY <2>3, ReadsAt
      <3>2. State(Current) \in J!Open
        BY <1>1, <3>1, RowIs
      <3>3. item'[Current].state \in J!FINAL
        BY <2>3, <3>1, <3>2, ReadsAt DEF J!FINAL
      <3>4. reader.msg = box[reader.src][reader.uid]
        BY <1>1, <2>3, ReadsAt DEF Reading
      <3> QED BY <1>5, <1>6, <3>1, <3>3, <3>4
    <2>4. CASE Moved /\ msgid' # msgid
      <3>1. IdNoted
        BY <2>4 DEF Moved
      <3>2. /\ reader.phase = "got" /\ reader.answer \in Msgs
            /\ item'[Current].state \in J!FINAL
            /\ msgid' = [msgid EXCEPT ![Current] = reader.answer]
        BY <3>1 DEF IdNoted, J!FINAL
      <3>3. /\ State(Current) # "absent" /\ Current \in Keys
            /\ Current.src = reader.src /\ Current.pos = reader.uid
        BY <1>1, <3>2, CurrentAt
      <3>4. reader.answer = box[reader.src][reader.uid]
        BY <1>1, <3>2 DEF Reading
      <3> QED BY <1>5, <1>6, <3>2, <3>3, <3>4
    <2> QED BY <2>1, <2>2, <2>3, <2>4, RowsStep
  <1> QED BY <1>3, <1>6

\* What was processed, and under which ids, when nothing is read.
LEMMA ProcessedStays ==
  ASSUME IInv, [Next]_vars, ~Reads, NEW k \in Keys
  PROVE  /\ item'[k].state = "processed" <=> State(k) = "processed"
         /\ State(k) = "processed" => msgid'[k] = msgid[k]
PROOF
  <1>1. ColumnsTyped
    BY DEF IInv, Typed
  <1>2. item'[k].state = "processed" <=> State(k) = "processed"
    BY RowsKept
  <1>3. ASSUME State(k) = "processed" PROVE msgid'[k] = msgid[k]
    <2>1. CASE Arrives
      BY <2>1, PageIs
    <2>2. CASE Moved
      <3>1. CASE IdNoted
        <4>1. k # Current /\ msgid' = [msgid EXCEPT ![Current] = reader.answer]
          BY <1>3, <3>1 DEF IdNoted, J!FINAL
        <4> QED BY <1>1, <4>1 DEF ColumnsTyped
      <3> QED BY <2>2, <3>1 DEF Moved
    <2> QED BY <2>1, <2>2, RowsStep
  <1> QED BY <1>2, <1>3

LEMMA SeenStays ==
  ASSUME IInv, [Next]_vars, ~Reads, NEW m
  PROVE  Seen(m)' <=> Seen(m)
PROOF
  BY ProcessedStays DEF Seen, J!InState, State, Keys, J!Keys

LEMMA ReadOnceStep == ASSUME IInv, [Next]_vars PROVE ReadOncePerId'
PROOF
  <1>1. JournalTyped /\ ColumnsTyped /\ ReaderTyped /\ Reading /\ Rows
    BY DEF IInv, Typed
  <1>2. \A j, k \in Keys : State(j) = "processed" /\ State(k) = "processed"
          /\ msgid[j] = msgid[k] /\ msgid[j] # "none" => j = k
    BY DEF IInv, ReadOncePerId, J!InState, State, Keys
  <1>3. SUFFICES ASSUME NEW j \in Keys, NEW k \in Keys,
                        item'[j].state = "processed", item'[k].state = "processed",
                        msgid'[j] = msgid'[k], msgid'[j] # "none"
                 PROVE  j = k
    BY DEF ReadOncePerId, J!InState, State, Keys, J!Keys
  <1>4. CASE ~Reads
    BY <1>2, <1>3, <1>4, ProcessedStays
  <1>5. CASE Reads
    <2>1. /\ reader.phase = "llm" /\ reader.msg \in Msgs /\ Current \in Keys
          /\ \A x \in Keys : item'[x].state =
               IF x = Current /\ State(x) \in J!Open THEN "processed" ELSE State(x)
          /\ msgid' = IF State(Current) \notin J!FINAL /\ reader.msg # NoId
                       THEN [msgid EXCEPT ![Current] = reader.msg] ELSE msgid
      BY <1>5, ReadsAt
    <2>2. CASE State(Current) \in J!FINAL
      <3>1. State(Current) \notin J!Open
        BY <2>2 DEF J!FINAL, J!Open, J!Waiting
      <3> QED BY <1>2, <1>3, <2>1, <2>2, <3>1
    <2>3. CASE State(Current) \notin J!FINAL /\ reader.msg = NoId
      <3>1. msgid' = msgid /\ msgid[Current] = "none"
        BY <1>1, <2>1, <2>3 DEF Rows
      <3>2. j # Current /\ k # Current
        BY <1>3, <3>1
      <3> QED BY <1>2, <1>3, <2>1, <3>1, <3>2
    <2>4. CASE State(Current) \notin J!FINAL /\ reader.msg # NoId
      <3>1. \A x \in Keys : State(x) = "processed" => msgid[x] # reader.msg
        BY <1>1, <2>1, <2>4 DEF Reading, Seen, J!InState, State, Keys
      <3>2. /\ msgid'[Current] = reader.msg
            /\ \A x \in Keys : x # Current => msgid'[x] = msgid[x] /\ item'[x].state = State(x)
        BY <1>1, <2>1, <2>4 DEF ColumnsTyped
      <3>3. \A x \in Keys : x # Current /\ item'[x].state = "processed" => msgid'[x] # reader.msg
        BY <3>1, <3>2
      <3> QED BY <1>2, <1>3, <2>1, <3>2, <3>3
    <2> QED BY <2>2, <2>3, <2>4
  <1> QED BY <1>4, <1>5

-----------------------------------------------------------------------------
(* What the reader still knows *)

Batches(r) == \A u \in r.batch : u \in Uids /\ State(Key(r.src, u)) # "absent"

LEMMA BatchStays ==
  ASSUME IInv, [Next]_vars, NEW r, r.src \in Epochs, Batches(r)
  PROVE  \A u \in r.batch : item'[Key(r.src, u)].state # "absent"
PROOF
  BY RowsKept, KeysAre DEF Batches

LEMMA BatchThere ==
  ASSUME IInv, reader.phase \in {"operator", "next", "get", "got", "llm"}
  PROVE  Batches(reader) /\ reader.src \in Epochs
PROOF
  BY ReaderIs DEF IInv, Typed, Reading, Batches

\* The reader goes on with the rest of its batch.
LEMMA NextMailReads ==
  ASSUME IInv, [Next]_vars, reader.phase \in {"get", "got", "llm"}, reader' = NextMail
  PROVE  Reading'
PROOF
  <1>1. Batches(reader) /\ reader.src \in Epochs
    BY BatchThere
  <1>2. /\ reader'.phase = "next" /\ reader'.src = reader.src
        /\ reader'.batch = reader.batch \ {reader.uid}
    BY DEF NextMail
  <1>3. \A u \in reader.batch : item'[Key(reader.src, u)].state # "absent"
    BY <1>1, BatchStays
  <1>4. \A u \in reader'.batch : item'[Key(reader'.src, u)].state # "absent"
    BY <1>2, <1>3 DEF State, Key
  <1> QED BY <1>2, <1>4 DEF Reading, State, Key

LEMMA PhaseReads ==
  ASSUME reader'.phase \in {"idle", "settle"}
  PROVE  Reading'
PROOF
  BY DEF Reading

\* Nothing the reader holds is disturbed by the others.
LEMMA HeldReads ==
  ASSUME IInv, [Next]_vars, reader' = reader
  PROVE  Reading'
PROOF
  <1>1. Reading /\ ReaderTyped
    BY DEF IInv, Typed
  <1>2. ASSUME reader.phase \in {"operator", "next", "get", "got", "llm"}
        PROVE  \A u \in reader.batch : item'[Key(reader.src, u)].state # "absent"
    <2>1. Batches(reader) /\ reader.src \in Epochs
      BY <1>2, BatchThere
    <2> QED BY <2>1, BatchStays
  <1>3. ASSUME reader.phase \in {"get", "got", "llm"}
        PROVE  /\ item'[Current].state # "absent"
               /\ box'[reader.src][reader.uid] = box[reader.src][reader.uid]
    <2>1. /\ Current \in Keys /\ State(Current) # "absent"
          /\ Current.src = reader.src /\ Current.pos = reader.uid
      BY <1>1, <1>3, CurrentAt
    <2> DEFINE k == Current
    <2>2. k \in Keys /\ State(k) # "absent" /\ k.src = reader.src /\ k.pos = reader.uid
      BY <2>1
    <2> HIDE DEF k
    <2>3. item'[k].state # "absent" /\ box'[k.src][k.pos] = box[k.src][k.pos]
      BY <2>2, RowsKept, MailStays
    <2> QED BY <2>2, <2>3 DEF k
  <1>4. reader.phase = "llm" => ~Reads
    <2>1. Reads => reader'.phase = "next"
      BY DEF Reads, ReadReply, NextMail
    <2> QED BY <2>1
  <1>5. reader.phase = "llm" /\ reader.msg # NoId => ~Seen(reader.msg)'
    <2> DEFINE m == reader.msg
    <2>1. reader.phase = "llm" /\ m # NoId => ~Seen(m)
      BY <1>1 DEF Reading
    <2> HIDE DEF m
    <2>2. ASSUME reader.phase = "llm", m # NoId
          PROVE  ~(\E k \in Keys : item'[k].state = "processed" /\ msgid'[k] = m)
      BY <1>4, <2>1, <2>2, ProcessedStays DEF Seen, J!InState, State, Keys
    <2> QED BY <2>2 DEF m, Seen, J!InState, Keys, J!Keys
  <1>6. /\ reader.phase = "got" /\ reader.answer \in Msgs => reader.answer = box[reader.src][reader.uid]
        /\ reader.phase = "llm" => reader.msg = box[reader.src][reader.uid]
    BY <1>1 DEF Reading
  <1> QED BY <1>2, <1>3, <1>5, <1>6 DEF Reading, State, Key, Current, Seen, J!InState, Keys, J!Keys

LEMMA BatchReads ==
  ASSUME IInv, [Next]_vars, NEW r, Batches(r), r.src \in Epochs, reader'.src = r.src, reader'.batch = r.batch,
         reader'.phase \in {"operator", "next"}
  PROVE  Reading'
PROOF
  <1>1. \A u \in r.batch : item'[Key(r.src, u)].state # "absent"
    BY BatchStays
  <1> QED BY <1>1 DEF Reading, State, Key

\* A pass of the reader takes rows that wait.
LEMMA WorkBeginAt ==
  ASSUME IInv, WorkBegin
  PROVE  Batches(reader') /\ reader'.src \in Epochs /\ reader'.phase = "operator"
PROOF
  <1>1. JournalTyped
    BY DEF IInv, Typed
  <1>2. PICK s \in Found : \E late \in SUBSET J!InState(J!OfSource(s), {"retry_wait"}) :
            LET due == {k.pos : k \in J!InState(J!OfSource(s), {"pending"}) \cup late}
            IN  reader' = [phase |-> "operator", src |-> s,
                  batch |-> {u \in due : Cardinality({v \in due : v <= u}) <= WORK_BATCH}]
    BY DEF WorkBegin
  <1>3. PICK late \in SUBSET J!InState(J!OfSource(s), {"retry_wait"}) :
            LET due == {k.pos : k \in J!InState(J!OfSource(s), {"pending"}) \cup late}
            IN  reader' = [phase |-> "operator", src |-> s,
                  batch |-> {u \in due : Cardinality({v \in due : v <= u}) <= WORK_BATCH}]
    BY <1>2
  <1> DEFINE due == {k.pos : k \in J!InState(J!OfSource(s), {"pending"}) \cup late}
             b == {u \in due : Cardinality({v \in due : v <= u}) <= WORK_BATCH}
  <1>4. s \in Epochs
    BY DEF Found, Live
  <1>5. ASSUME NEW k \in J!InState(J!OfSource(s), {"pending"}) \cup late
        PROVE  k.pos \in Uids /\ State(Key(s, k.pos)) # "absent"
    <2>1. k \in Keys /\ k.src = s /\ State(k) # "absent"
      BY DEF J!InState, J!OfSource, Keys, State
    <2>2. k.pos \in Uids /\ k = Key(s, k.pos)
      BY <2>1, KeysAre
    <2> QED BY <2>1, <2>2
  <1>6. \A u \in b : u \in Uids /\ State(Key(s, u)) # "absent"
    BY <1>5
  <1>7. reader' = [phase |-> "operator", src |-> s, batch |-> b]
    BY <1>3
  <1> HIDE DEF b
  <1> QED BY <1>4, <1>6, <1>7 DEF Batches

LEMMA ReadingStep == ASSUME IInv, [Next]_vars PROVE Reading'
PROOF
  <1>1. JournalTyped /\ ReaderTyped /\ Reading /\ ServerTyped
    BY DEF IInv, Typed
  <1>2. CASE ~Reader /\ ~Restart
    BY <1>2, ReaderSame, HeldReads
  <1>3. CASE Restart \/ ReaderSettle \/ PassEnds
    BY <1>3, PhaseReads DEF Restart, ReaderSettle, PassEnds, EndPass, IdleReader
  <1>4. CASE WorkBegin
    BY <1>4, WorkBeginAt, BatchReads
  <1>5. CASE RequeueHeld
    BY <1>5, HeldReads DEF RequeueHeld
  <1>6. CASE OperatorReply
    <2>1. reader \in [phase : {"operator", "next"}, src : Epochs, batch : SUBSET Uids]
          /\ reader.phase = "operator"
      BY <1>1, <1>6 DEF OperatorReply, ReaderTyped
    <2>2. CASE reader' = IdleReader
      BY <2>2, PhaseReads DEF IdleReader
    <2>3. CASE reader' = [reader EXCEPT !.phase = "next"]
      <3>1. reader'.phase = "next" /\ reader'.src = reader.src /\ reader'.batch = reader.batch
        BY <2>1, <2>3
      <3>2. Batches(reader) /\ reader.src \in Epochs
        BY <2>1, BatchThere
      <3> QED BY <3>1, <3>2, BatchReads
    <2> QED BY <1>6, <2>2, <2>3 DEF OperatorReply
  <1>7. CASE ClaimMail
    <2>1. reader.phase = "next" /\ reader.batch # {} /\ reader.batch \in SUBSET Uids
      BY <1>1, <1>7, ReaderIs DEF ClaimMail
    <2>2. Batches(reader) /\ reader.src \in Epochs
      BY <2>1, BatchThere
    <2>3. reader.batch \in SUBSET Nat
      BY <2>1, Bounds
    <2>4. Min(reader.batch) \in reader.batch
      BY <2>1, <2>3, MinOfNat
    <2>5. /\ reader'.phase = "get" /\ reader'.src = reader.src /\ reader'.batch = reader.batch
          /\ reader'.uid = Min(reader.batch)
      BY <1>7 DEF ClaimMail
    <2>6. \A u \in reader.batch : item'[Key(reader.src, u)].state # "absent"
      BY <2>2, BatchStays
    <2>7. item'[Key(reader.src, reader'.uid)].state # "absent"
      BY <2>4, <2>5, <2>6
    <2> QED BY <2>5, <2>6, <2>7 DEF Reading, State, Key, Current
  <1>8. CASE ServeMail
    <2>1. /\ reader.phase = "get" /\ Batches(reader) /\ reader.src \in Epochs
          /\ State(Current) # "absent" /\ UNCHANGED <<item, box>>
      BY <1>1, <1>8, BatchThere DEF ServeMail, Reading, journal, server
    <2> DEFINE a == IF ~Answers(reader.src) THEN "epoch_changed"
                    ELSE IF reader.uid \notin Present(epoch) THEN "vanished"
                    ELSE box[epoch][reader.uid]
    <2>2. a \in Msgs => a = box[reader.src][reader.uid]
      BY Bounds DEF Answers
    <2>3. /\ reader'.phase = "got" /\ reader'.src = reader.src /\ reader'.batch = reader.batch
          /\ reader'.uid = reader.uid /\ reader'.answer = a
      BY <1>8 DEF ServeMail
    <2> HIDE DEF a
    <2>4. \A u \in reader.batch : item'[Key(reader.src, u)].state # "absent"
      BY <2>1, BatchStays
    <2> QED BY <2>1, <2>2, <2>3, <2>4 DEF Reading, State, Key, Current
  <1>9. CASE GetReply
    <2>1. /\ reader.phase = "got" /\ Batches(reader) /\ reader.src \in Epochs
          /\ State(Current) # "absent" /\ Current \in Keys /\ UNCHANGED box
      BY <1>1, <1>9, BatchThere, CurrentAt DEF GetReply, server
    <2>2. \/ reader' = EndPass \/ reader' = NextMail
          \/ /\ reader.answer \in Msgs /\ (reader.answer # NoId => ~Seen(reader.answer))
             /\ reader' = [phase |-> "llm", src |-> reader.src, batch |-> reader.batch,
                           uid |-> reader.uid, msg |-> reader.answer]
      BY <1>9 DEF GetReply, Decide
    <2>3. CASE reader' = EndPass
      BY <2>3, PhaseReads DEF EndPass
    <2>4. CASE reader' = NextMail
      BY <2>1, <2>4, NextMailReads
    <2>5. ASSUME reader.answer \in Msgs, reader.answer # NoId => ~Seen(reader.answer),
                 reader' = [phase |-> "llm", src |-> reader.src, batch |-> reader.batch,
                            uid |-> reader.uid, msg |-> reader.answer]
          PROVE  Reading'
      <3>1. /\ reader'.phase = "llm" /\ reader'.src = reader.src /\ reader'.batch = reader.batch
            /\ reader'.uid = reader.uid /\ reader'.msg = reader.answer
        BY <2>5
      <3>2. \A u \in reader.batch : item'[Key(reader.src, u)].state # "absent"
        BY <2>1, BatchStays
      <3>3. item'[Current].state # "absent"
        BY <2>1, RowsKept
      <3>4. reader.answer = box[reader.src][reader.uid]
        BY <1>1, <2>1, <2>5 DEF Reading
      <3>5. ~Reads
        BY <2>1 DEF Reads, ReadReply
      <3>6. reader.answer # NoId =>
              ~(\E k \in Keys : item'[k].state = "processed" /\ msgid'[k] = reader.answer)
        BY <2>5, <3>5, ProcessedStays DEF Seen, J!InState, State, Keys
      <3> QED BY <2>1, <3>1, <3>2, <3>3, <3>4, <3>6
              DEF Reading, State, Key, Current, Seen, J!InState, Keys, J!Keys
    <2> QED BY <2>2, <2>3, <2>4, <2>5
  <1>10. CASE GetFails \/ ReadReply
    BY <1>10, NextMailReads DEF GetFails, ReadReply
  <1> QED BY <1>2, <1>3, <1>4, <1>5, <1>6, <1>7, <1>8, <1>9, <1>10 DEF Reader

-----------------------------------------------------------------------------
(* What the intake still knows *)

\* The cursor of an active source does not go back, and a command that was
\* not held up leaves it alone.
LEMMA ActiveStays ==
  ASSUME IInv, [Next]_vars, ~RetireEpoch, ~Arrives, NEW s \in Epochs, source[s].state = "active"
  PROVE  /\ source'[s].state = "active" /\ source'[s].enumerated \in Posn /\ Enum(s) <= source'[s].enumerated
         /\ ~SlowMigrate => source'[s].enumerated = Enum(s)
PROOF
  <1>1. JournalTyped /\ JournalTyped' /\ Enum(s) \in Nat /\ Enum(s) \in Posn
    BY JournalTypedStep, SourceIs, Bounds DEF IInv, Typed
  <1>2. source'[s].enumerated \in Posn
    BY SourcesKept DEF J!SourceRow, J!Pos, Posn
  <1>3. CASE source'[s].state = "active" /\ source'[s].enumerated = Enum(s)
    BY <1>1, <1>2, <1>3
  <1>4. CASE Stay
    BY <1>3, <1>4 DEF Stay
  <1>5. CASE Founds
    <2>1. PICK e \in Epochs, from \in Posn, state \in {"active", "migration_needs_review"} :
            SourceMoves(e, IF source[e].state \in {"none", "retired"} THEN state ELSE source[e].state,
                          IF Exists(e) THEN Enum(e) ELSE from)
      BY <1>5, Founded
    <2> QED BY <1>3, <2>1 DEF SourceMoves, Exists, Enum
  <1>6. CASE OperatorMigrates
    <2>1. PICK c \in [src : Epochs, from : {NoBound} \cup Posn] :
           /\ \/ c.from = NoBound /\ SourceMoves(c.src, "active", Enum(c.src))
              \/ /\ c.from \in Posn
                 /\ SourceMoves(c.src, "active",
                      IF source[c.src].state = "migration_needs_review" THEN c.from
                      ELSE J!Larger(Enum(c.src), c.from))
           /\ ~SlowMigrate => source[c.src].state = "migration_needs_review"
      BY <1>6, MigrateWith
    <2>2. CASE c.src # s
      BY <1>3, <2>1, <2>2 DEF SourceMoves, Enum
    <2>3. CASE c.src = s /\ SourceMoves(c.src, "active", Enum(c.src))
      BY <1>3, <2>3 DEF SourceMoves
    <2>4. CASE c.src = s /\ ~SourceMoves(c.src, "active", Enum(c.src))
      <3>1. /\ SlowMigrate /\ c.from \in Posn /\ source'[s].state = "active"
            /\ source'[s].enumerated = J!Larger(Enum(s), c.from)
        BY <2>1, <2>4 DEF SourceMoves
      <3>2. c.from \in Nat
        BY <3>1, Bounds
      <3>3. Enum(s) <= J!Larger(Enum(s), c.from)
        BY <1>1, <3>2 DEF J!Larger
      <3> QED BY <1>2, <3>1, <3>3
    <2> QED BY <2>2, <2>3, <2>4
  <1> QED BY <1>4, <1>5, <1>6, SourceStep

LEMMA OpenShrinks ==
  ASSUME IInv, [Next]_vars, ~Arrives, NEW s \in Epochs
  PROVE  OpenCount(s)' \in Nat /\ OpenCount(s) \in Nat /\ OpenCount(s)' <= OpenCount(s)
PROOF
  <1> DEFINE A == J!InState(J!OfSource(s), J!Open)
             B == {k \in J!OfSource(s) : item'[k].state \in J!Open}
  <1>1. B \subseteq A /\ A \subseteq J!OfSource(s)
    BY RowsKept DEF J!InState, J!OfSource, State, Keys
  <1>2. IsFiniteSet(A) /\ OpenCount(s) \in Nat
    BY <1>1, SourceFinite, FS_Subset
  <1>3. OpenCount(s) = Cardinality(A) /\ OpenCount(s)' = Cardinality(B)
    BY DEF OpenCount, J!InState, J!OfSource, J!Keys
  <1> HIDE DEF A, B
  <1>4. Cardinality(B) \in Nat /\ Cardinality(B) <= Cardinality(A)
    BY <1>1, <1>2, FS_Subset, FS_CardinalityType
  <1> QED BY <1>2, <1>3, <1>4

LEMMA UidsFinite ==
  ASSUME NEW S \in SUBSET Uids
  PROVE  IsFiniteSet(S) /\ Cardinality(S) \in Nat
PROOF
  <1>1. IsFiniteSet(Uids)
    BY FS_Interval, Bounds DEF Uids
  <1> QED BY <1>1, FS_Subset, FS_CardinalityType

\* A page that has not arrived yet still fits the mailbox and the queue.
LEMMA PageKept ==
  ASSUME IInv, [Next]_vars, ~Arrives, ~RetireEpoch,
         NEW s \in Epochs, NEW us \in SUBSET Uids, NEW n \in Posn, source[s].state = "active",
         Cardinality(us) + OpenCount(s) <= MAX_OPEN,
         \A u \in us : u <= Newest(s),
         ~SlowMigrate => \A u \in us : Enum(s) < u,
         n <= Newest(s) \/ n <= Enum(s),
         \A u \in 1 .. Newest(s) : Enum(s) < u /\ u <= n => u \in us \/ Key(s, u) \in gone
  PROVE  /\ Cardinality(us) + OpenCount(s)' <= MAX_OPEN
         /\ \A u \in us : u <= Newest(s)'
         /\ ~SlowMigrate => \A u \in us : source'[s].enumerated < u
         /\ n <= Newest(s)' \/ n <= source'[s].enumerated
         /\ \A u \in 1 .. Newest(s)' :
              source'[s].enumerated < u /\ u <= n => u \in us \/ Key(s, u) \in gone'
PROOF
  <1>1. ServerTyped /\ JournalTyped
    BY DEF IInv, Typed
  <1> DEFINE a == Newest(s)
             b == Newest(s)'
             c == Enum(s)
             d == source'[s].enumerated
  <1>2. a \in Nat /\ b \in Nat /\ c \in Nat /\ d \in Nat /\ n \in Nat /\ a <= b /\ c <= d
    <2>1. ServerTyped' /\ BoxGrows
      BY ServerStep
    <2>2. b \in Nat /\ a \in Nat /\ a <= b
      BY <1>1, <2>1, BoxIs, Bounds DEF BoxGrows, ServerTyped, Newest, Posn
    <2>3. c \in Nat /\ d \in Posn /\ c <= d /\ n \in Nat
      BY <1>1, SourceIs, ActiveStays, Bounds
    <2>4. d \in Nat
      BY <2>3, Bounds
    <2> QED BY <2>2, <2>3, <2>4
  <1>3. \A u \in us : u \in Nat
    BY Bounds
  <1>4. gone \subseteq gone'
    BY ServerStep DEF BoxGrows
  <1>5. ~SlowMigrate => d = c
    BY ActiveStays
  <1>6. OpenCount(s)' \in Nat /\ OpenCount(s) \in Nat /\ OpenCount(s)' <= OpenCount(s)
        /\ Cardinality(us) \in Nat /\ MAX_OPEN \in Nat
    BY OpenShrinks, UidsFinite, Bounds
  <1> HIDE DEF a, b, c, d
  <1>7. Cardinality(us) + OpenCount(s)' <= MAX_OPEN
    BY <1>6
  <1>8. \A u \in us : u <= a
    BY DEF a
  <1>9. \A u \in us : u <= b
    BY <1>2, <1>3, <1>8
  <1>10. ~SlowMigrate => \A u \in us : d < u
    BY <1>5 DEF c
  <1>11. n <= a \/ n <= c
    BY DEF a, c
  <1>12. n <= b \/ n <= d
    BY <1>2, <1>11
  <1>13. ASSUME NEW u \in 1 .. b, d < u, u <= n PROVE u \in us \/ Key(s, u) \in gone'
    <2>1. u \in 1 .. a /\ c < u
      BY <1>2, <1>11, <1>13
    <2> QED BY <1>4, <1>13, <2>1 DEF a, c
  <1> QED BY <1>7, <1>9, <1>10, <1>12, <1>13 DEF b, d

LEMMA ScanningStep == ASSUME IInv, [Next]_vars PROVE Scanning'
PROOF
  <1>1. JournalTyped /\ ServerTyped /\ IntakeTyped /\ Scanning
    BY DEF IInv, Typed
  <1>2. CASE intake' = intake
    <2>1. ~Arrives
      <3>1. Arrives => intake.phase = "page" /\ intake'.phase = "settle"
        BY PageIs
      <3> QED BY <1>2, <3>1
    <2>2. ~RetireEpoch
      <3>1. RetireEpoch => intake'.phase = "create" /\ intake.phase = "retire"
        BY Retired
      <3> QED BY <1>2, <3>1
    <2>3. CASE intake.phase = "create first"
      <3>1. intake.to \in Epochs /\ intake.newest \in Nat /\ intake.newest <= Newest(intake.to)
        BY <1>1, <2>3, IntakeIs, Bounds DEF Scanning
      <3>2. ServerTyped' /\ BoxGrows
        BY ServerStep
      <3> DEFINE e == intake.to
      <3>3. e \in Epochs /\ intake.newest <= Newest(e)
        BY <3>1
      <3> HIDE DEF e
      <3>4. Newest(e) \in Nat /\ Len(box'[e]) \in Nat /\ Newest(e) <= Len(box'[e])
        BY <1>1, <3>2, <3>3, BoxIs, Bounds DEF BoxGrows, ServerTyped, Newest, Posn
      <3>5. intake.newest <= Len(box'[e])
        BY <3>1, <3>3, <3>4
      <3>6. intake'.newest <= Len(box'[intake'.to]) /\ intake'.phase = "create first"
        BY <1>2, <2>3, <3>5 DEF e
      <3> QED BY <3>6 DEF Scanning, Newest
    <2>4. CASE intake.phase = "asked"
      <3>0. PICK s \in Epochs, n \in Nat, a \in Nat :
              s = intake.src /\ n = intake.limit /\ a = intake.after
        BY <1>1, <2>4, IntakeIs, Bounds
      <3>1. /\ source[s].state = "active"
            /\ n + OpenCount(s) <= MAX_OPEN /\ a <= Enum(s) /\ (~SlowMigrate => a = Enum(s))
        BY <1>1, <2>4, <3>0 DEF Scanning
      <3>2. /\ intake'.phase = "asked" /\ intake'.src = s /\ intake'.limit = n /\ intake'.after = a
        BY <1>2, <2>4, <3>0
      <3>3. /\ source'[s].state = "active" /\ source'[s].enumerated \in Nat /\ Enum(s) \in Nat
            /\ Enum(s) <= source'[s].enumerated
            /\ ~SlowMigrate => source'[s].enumerated = Enum(s)
        BY <1>1, <2>1, <2>2, <3>1, ActiveStays, SourceIs, Bounds
      <3>4. a <= source'[s].enumerated
        BY <3>1, <3>3
      <3>5. n + OpenCount(s)' <= MAX_OPEN
        <4>1. OpenCount(s)' \in Nat /\ OpenCount(s) \in Nat /\ OpenCount(s)' <= OpenCount(s) /\ MAX_OPEN \in Nat
          BY <2>1, <3>1, OpenShrinks, Bounds
        <4> QED BY <3>1, <4>1
      <3> QED BY <3>1, <3>2, <3>3, <3>4, <3>5
              DEF Scanning, Enum, OpenCount, J!InState, J!OfSource, J!Keys
    <2>5. CASE intake.phase = "page"
      <3>0. PICK s \in Epochs, us \in SUBSET Uids, n \in Posn :
              s = intake.src /\ us = intake.uids /\ n = intake.next
        BY <1>1, <2>5, IntakeIs
      <3>1. source[s].state = "active"
        BY <1>1, <2>5, <3>0 DEF Scanning
      <3>2. intake.epoch = s =>
              /\ Cardinality(us) + OpenCount(s) <= MAX_OPEN
              /\ \A u \in us : u <= Newest(s)
              /\ ~SlowMigrate => \A u \in us : Enum(s) < u
              /\ n <= Newest(s) \/ n <= Enum(s)
              /\ \A u \in 1 .. Newest(s) : Enum(s) < u /\ u <= n => u \in us \/ Key(s, u) \in gone
        BY <1>1, <2>5, <3>0 DEF Scanning
      <3>3. /\ intake'.phase = "page" /\ intake'.src = s /\ intake'.uids = us /\ intake'.next = n
            /\ intake'.epoch = intake.epoch
        BY <1>2, <2>5, <3>0
      <3>4. source'[s].state = "active"
        BY <2>1, <2>2, <3>1, ActiveStays
      <3>5. ASSUME intake.epoch = s
            PROVE  /\ Cardinality(us) + OpenCount(s)' <= MAX_OPEN
                   /\ \A u \in us : u <= Newest(s)'
                   /\ ~SlowMigrate => \A u \in us : source'[s].enumerated < u
                   /\ n <= Newest(s)' \/ n <= source'[s].enumerated
                   /\ \A u \in 1 .. Newest(s)' :
                        source'[s].enumerated < u /\ u <= n => u \in us \/ Key(s, u) \in gone'
        BY <2>1, <2>2, <3>1, <3>2, <3>5, PageKept
      <3> QED BY <3>3, <3>4, <3>5
              DEF Scanning, Enum, OpenCount, J!InState, J!OfSource, J!Keys, Newest, Key
    <2>6. CASE intake.phase \notin {"create first", "asked", "page"}
      BY <1>2, <2>6 DEF Scanning
    <2> QED BY <2>3, <2>4, <2>5, <2>6
  <1>3. CASE intake' # intake /\ FirstProbe
    <2>1. intake'.phase = "create first" /\ intake'.to = epoch /\ intake'.newest = Newest(epoch)
      BY <1>3, FirstProbeAt
    <2>2. epoch \in Epochs /\ UNCHANGED box
      BY <1>1, <1>3 DEF FirstProbe, server, ServerTyped
    <2>3. Newest(epoch) \in Nat
      BY <1>1, <2>2, BoxIs
    <2>4. Newest(epoch) <= Len(box[epoch])
      BY <2>3 DEF Newest
    <2> QED BY <2>1, <2>2, <2>4 DEF Scanning, Newest
  <1>4. CASE intake' # intake /\ IntakeBegin
    <2>1. \/ intake'.phase \in {"first", "held"}
          \/ /\ intake'.phase = "asked" /\ source[intake'.src].state = "active"
             /\ intake'.limit + OpenCount(intake'.src) <= MAX_OPEN
             /\ intake'.after = Enum(intake'.src) /\ intake'.src \in Epochs
      BY <1>4, BeginTyped, IntakeTypedStep DEF IntakeTyped
    <2>2. UNCHANGED <<source, item>>
      BY <1>4 DEF IntakeBegin, journal
    <2>3. CASE intake'.phase \in {"first", "held"}
      BY <2>3 DEF Scanning
    <2>4. CASE intake'.phase = "asked"
      <3> DEFINE s == intake'.src
      <3>1. /\ source'[s].state = "active" /\ s \in Epochs
            /\ intake'.limit + Cardinality({k \in {k \in J!Keys : k.src = s} : item'[k].state \in J!Open}) <= MAX_OPEN
            /\ intake'.after = source'[s].enumerated
        BY <2>1, <2>2, <2>4 DEF OpenCount, J!InState, J!OfSource, Enum
      <3>2. source'[s].enumerated <= source'[s].enumerated
        <4>1. Enum(s) \in Nat
          BY <1>1, <3>1, SourceIs, Bounds
        <4> QED BY <2>2, <4>1 DEF Enum
      <3> QED BY <2>4, <3>1, <3>2 DEF Scanning, OpenCount, J!InState, J!OfSource, J!Keys, Enum
    <2> QED BY <2>1, <2>3, <2>4
  <1>5. CASE intake' # intake /\ ServePage
    <2> DEFINE s == intake.src
               a == intake.after
               us == intake'.uids
               n == intake'.next
    <2>1. intake.phase = "asked" /\ ShowsPage(intake')
      BY <1>5, ServePageAt
    <2>2. /\ intake'.phase = "page" /\ intake'.src = s /\ intake'.epoch = epoch
          /\ us \in SUBSET Uids /\ n \in Posn /\ epoch \in Epochs
      BY <1>1, <2>1 DEF ShowsPage, ServerTyped
    <2>3. /\ Cardinality(us) \in Nat /\ Cardinality(us) <= intake.limit
          /\ \A u \in us : a < u /\ u <= Newest(epoch)
          /\ n <= Newest(epoch) \/ n <= a
          /\ \A u \in 1 .. Newest(epoch) : a < u /\ u <= n => u \in us \/ Key(epoch, u) \in gone
      BY <2>1 DEF ShowsPage
    <2>4. /\ s \in Epochs /\ source[s].state = "active" /\ a \in Nat /\ intake.limit \in Nat
          /\ intake.limit + OpenCount(s) <= MAX_OPEN
          /\ a <= Enum(s) /\ (~SlowMigrate => a = Enum(s))
      BY <1>1, <2>1, IntakeIs, Bounds DEF Scanning
    <2>5. OpenCount(s) \in Nat /\ Enum(s) \in Nat /\ Newest(s) \in Nat /\ n \in Nat /\ MAX_OPEN \in Nat
      BY <1>1, <2>2, <2>4, SourceFinite, SourceIs, BoxIs, Bounds
    <2>6. UNCHANGED <<source, item, box, gone>>
      BY <1>5 DEF ServePage, journal, server
    <2> HIDE DEF s, a, us, n
    <2>7. ASSUME epoch = s
          PROVE  /\ Cardinality(us) + OpenCount(s) <= MAX_OPEN
                 /\ \A u \in us : u <= Newest(s)
                 /\ ~SlowMigrate => \A u \in us : Enum(s) < u
                 /\ n <= Newest(s) \/ n <= Enum(s)
                 /\ \A u \in 1 .. Newest(s) :
                      Enum(s) < u /\ u <= n => u \in us \/ Key(s, u) \in gone
      <3>1. Cardinality(us) + OpenCount(s) <= MAX_OPEN
        BY <2>3, <2>4, <2>5
      <3>2. \A u \in us : u <= Newest(s) /\ a < u
        BY <2>3, <2>7
      <3>3. ~SlowMigrate => \A u \in us : Enum(s) < u
        BY <2>4, <3>2
      <3>4. n <= Newest(s) \/ n <= Enum(s)
        BY <2>3, <2>4, <2>5, <2>7
      <3>5. ASSUME NEW u \in 1 .. Newest(s), Enum(s) < u, u <= n
            PROVE  u \in us \/ Key(s, u) \in gone
        <4>1. a < u
          BY <2>4, <2>5, <3>5
        <4> QED BY <2>3, <2>7, <3>5, <4>1
      <3> QED BY <3>1, <3>2, <3>3, <3>4, <3>5
    <2>8. intake'.uids = us /\ intake'.next = n
      BY DEF us, n
    <2> QED BY <2>2, <2>4, <2>6, <2>7, <2>8
            DEF Scanning, Enum, OpenCount, J!InState, J!OfSource, J!Keys, Newest, Key
  <1>6. CASE intake' # intake /\ ~(FirstProbe \/ IntakeBegin \/ ServePage)
    <2>1. intake'.phase \notin {"create first", "asked", "page"}
      BY <1>6, IntakeLeads
    <2> QED BY <2>1 DEF Scanning
  <1> QED BY <1>2, <1>3, <1>4, <1>5, <1>6

-----------------------------------------------------------------------------
(* No mail is skipped, and the queue keeps its limit *)

LEMMA PassedStays ==
  ASSUME IInv, [Next]_vars, NEW e \in Epochs, NEW u \in Nat, u >= 1,
         Exists(e), start[e] < u, u <= Enum(e)
  PROVE  item'[Key(e, u)].state # "absent" \/ Key(e, u) \in gone'
PROOF
  <1>1. JournalTyped /\ ServerTyped /\ ColumnsTyped /\ Sourced /\ NoMailSkipped
    BY DEF IInv, Typed
  <1>2. Enum(e) \in Nat /\ Newest(e) \in Nat /\ start[e] \in Nat
    BY <1>1, SourceIs, BoxIs, Bounds DEF Sourced
  <1>3. Enum(e) <= Newest(e) \/ Enum(e) <= start[e]
    BY <1>1 DEF Sourced
  <1>4. u \in 1 .. Newest(e)
    BY <1>2, <1>3
  <1>5. State(Key(e, u)) # "absent" \/ Key(e, u) \in gone
    BY <1>1, <1>4 DEF NoMailSkipped, Exists, Enum, State
  <1>6. Key(e, u) \in Keys
    BY <1>1, <1>4, BoxIs, KeysAre
  <1>7. gone \subseteq gone'
    BY ServerStep DEF BoxGrows
  <1> QED BY <1>5, <1>6, <1>7, RowsKept

LEMMA NoMailSkippedStep == ASSUME IInv, [Next]_vars PROVE NoMailSkipped'
PROOF
  <1>1. JournalTyped /\ ServerTyped /\ ColumnsTyped /\ Scanning /\ IntakeTyped
    BY DEF IInv, Typed
  <1>2. SUFFICES ASSUME NEW e \in Epochs, NEW u \in 1 .. Newest(e)',
                        source'[e].state # "none", start'[e] < u, u <= source'[e].enumerated
                 PROVE  item'[Key(e, u)].state # "absent" \/ Key(e, u) \in gone'
    BY DEF NoMailSkipped, Newest, Key
  <1>3. u \in Nat /\ u >= 1 /\ source'[e].enumerated \in Nat
    <2>1. Newest(e)' \in Nat
      BY ServerStep, Bounds DEF ServerTyped, Newest, Posn
    <2>2. source'[e].enumerated \in Posn
      BY SourcesKept DEF J!SourceRow, J!Pos, Posn
    <2>3. source'[e].enumerated \in Nat
      BY <2>2, Bounds
    <2>4. u \in Nat /\ u >= 1
      BY <2>1
    <2> QED BY <2>3, <2>4
  <1>4. ASSUME Exists(e), start'[e] = start[e], source'[e].enumerated = Enum(e)
        PROVE  item'[Key(e, u)].state # "absent" \/ Key(e, u) \in gone'
    BY <1>2, <1>3, <1>4, PassedStays
  <1>5. ~(source'[e].enumerated = start'[e])
    BY <1>2, <1>3
  <1>6. CASE Stay
    BY <1>2, <1>4, <1>6 DEF Stay, Exists
  <1>7. CASE Founds
    <2>1. PICK f \in Epochs, from \in Posn, state \in {"active", "migration_needs_review"} :
           /\ SourceMoves(f, IF source[f].state \in {"none", "retired"} THEN state ELSE source[f].state,
                          IF Exists(f) THEN Enum(f) ELSE from)
           /\ IF Exists(f) THEN UNCHANGED <<id, start>>
              ELSE /\ id' = [id EXCEPT ![f] = 1 + Cardinality({g \in Epochs : id[g] > 0})]
                   /\ start' = [start EXCEPT ![f] = from]
      BY <1>7, Founded
    <2>2. CASE e = f /\ ~Exists(f)
      <3>1. source'[e].enumerated = from /\ start'[e] = from
        BY <1>1, <2>1, <2>2 DEF ColumnsTyped, SourceMoves
      <3> QED BY <1>5, <3>1
    <2>3. CASE e # f \/ Exists(f)
      <3>1. start'[e] = start[e]
        BY <1>1, <2>1, <2>3 DEF ColumnsTyped
      <3>2. source'[e].enumerated = Enum(e) /\ Exists(e)
        BY <1>2, <2>1, <2>3 DEF SourceMoves, Enum, Exists
      <3> QED BY <1>4, <3>1, <3>2
    <2> QED BY <2>2, <2>3
  <1>8. CASE RetireEpoch
    <2>1. /\ intake.src \in Epochs /\ SourceMoves(intake.src, "retired", Enum(intake.src))
          /\ UNCHANGED start /\ Exists(intake.src)
      BY <1>8, Retired DEF RetireEpoch, J!Retire, Exists
    <2> QED BY <1>2, <1>4, <2>1 DEF SourceMoves, Enum, Exists
  <1>9. CASE Arrives
    <2>1. /\ SourceMoves(intake.src, "active", J!Larger(Enum(intake.src), intake.next))
          /\ UNCHANGED <<start, gone>> /\ intake.src \in Epochs /\ intake.next \in Posn
          /\ intake.phase = "page" /\ intake.epoch = intake.src
          /\ source[intake.src].state = "active"
      BY <1>1, <1>9, PageIs DEF Scanning, Arrives
    <2>2. CASE e # intake.src
      BY <1>2, <1>4, <2>1, <2>2 DEF SourceMoves, Enum, Exists
    <2>3. CASE e = intake.src
      <3>1. source'[e].enumerated = J!Larger(Enum(e), intake.next) /\ Exists(e)
        BY <2>1, <2>3 DEF SourceMoves, Exists
      <3>2. Enum(e) \in Nat /\ Newest(e) \in Nat /\ intake.next \in Nat
        BY <1>1, <2>1, SourceIs, BoxIs, Bounds
      <3>3. CASE u <= Enum(e)
        BY <1>2, <1>3, <2>1, <3>1, <3>3, PassedStays
      <3>4. CASE ~(u <= Enum(e))
        <4>1. Enum(e) < u /\ u <= intake.next
          <5>1. u <= J!Larger(Enum(e), intake.next)
            BY <1>2, <3>1
          <5>2. J!Larger(Enum(e), intake.next) \in {Enum(e), intake.next}
            BY DEF J!Larger
          <5> HIDE DEF J!Larger
          <5> QED BY <1>3, <3>2, <3>4, <5>1, <5>2
        <4>2. intake.next <= Newest(e) \/ intake.next <= Enum(e)
          BY <1>1, <2>1, <2>3 DEF Scanning
        <4>3. u \in 1 .. Newest(e)
          BY <1>3, <3>2, <4>1, <4>2
        <4>4. u \in intake.uids \/ Key(e, u) \in gone
          BY <1>1, <2>1, <2>3, <4>1, <4>3 DEF Scanning
        <4>5. Key(e, u) \in Keys /\ Key(e, u).src = e /\ Key(e, u).pos = u
          BY <1>1, <4>3, BoxIs, KeysAre
        <4>6. u \in intake.uids => item'[Key(e, u)].state # "absent"
          BY <1>9, <2>3, <4>5, PageIs
        <4> QED BY <2>1, <4>4, <4>6
      <3> QED BY <3>3, <3>4
    <2> QED BY <2>2, <2>3
  <1>10. CASE OperatorMigrates
    <2>1. PICK c \in [src : Epochs, from : {NoBound} \cup Posn] :
           /\ Exists(c.src)
           /\ \/ c.from = NoBound /\ SourceMoves(c.src, "active", Enum(c.src)) /\ UNCHANGED start
              \/ /\ c.from \in Posn
                 /\ SourceMoves(c.src, "active",
                      IF source[c.src].state = "migration_needs_review" THEN c.from
                      ELSE J!Larger(Enum(c.src), c.from))
                 /\ start' = IF source'[c.src].enumerated = c.from
                               THEN [start EXCEPT ![c.src] = c.from] ELSE start
      BY <1>10, MigrateWith
    <2>2. CASE e # c.src
      <3>1. source'[e] = source[e] /\ start'[e] = start[e]
        BY <1>1, <2>1, <2>2 DEF SourceMoves, ColumnsTyped
      <3> QED BY <1>2, <1>4, <3>1 DEF Enum, Exists
    <2>3. CASE e = c.src /\ c.from = NoBound
      <3>1. c.from \notin Posn
        BY <2>3, Bounds DEF NoBound
      <3> QED BY <1>4, <2>1, <2>3, <3>1 DEF SourceMoves
    <2>4. CASE e = c.src /\ c.from # NoBound
      <3>1. /\ source'[e].enumerated =
                 IF source[e].state = "migration_needs_review" THEN c.from
                 ELSE J!Larger(Enum(e), c.from)
            /\ start' = IF source'[e].enumerated = c.from
                               THEN [start EXCEPT ![e] = c.from] ELSE start
            /\ Exists(e)
        BY <2>1, <2>4 DEF SourceMoves
      <3>2. source'[e].enumerated # c.from
        <4>1. source'[e].enumerated = c.from => start'[e] = c.from
          BY <1>1, <3>1 DEF ColumnsTyped
        <4> QED BY <1>5, <4>1
      <3>3. source'[e].enumerated = Enum(e) /\ start' = start
        BY <3>1, <3>2 DEF J!Larger
      <3> QED BY <1>4, <3>1, <3>3
    <2> QED BY <2>2, <2>3, <2>4
  <1> QED BY <1>6, <1>7, <1>8, <1>9, <1>10, SourceStep

LEMMA QueueStep == ASSUME IInv, [Next]_vars PROVE QueueBounded'
PROOF
  <1>1. JournalTyped /\ ServerTyped /\ Scanning /\ IntakeTyped /\ QueueBounded
    BY DEF IInv, Typed
  <1>2. CASE ~Arrives
    <2>1. \A e \in Epochs : OpenCount(e)' <= MAX_OPEN
      <3> TAKE e \in Epochs
      <3>1. OpenCount(e)' \in Nat /\ OpenCount(e) \in Nat /\ OpenCount(e)' <= OpenCount(e)
            /\ OpenCount(e) <= MAX_OPEN /\ MAX_OPEN \in Nat
        BY <1>1, <1>2, OpenShrinks, Bounds DEF QueueBounded
      <3> QED BY <3>1
    <2> QED BY <2>1 DEF QueueBounded, OpenCount, J!InState, J!OfSource, J!Keys
  <1>3. CASE Arrives
    <2>0. PICK s \in Epochs, us \in SUBSET Uids : s = intake.src /\ us = intake.uids
      BY <1>3, PageIs
    <2>1. /\ \A k \in Keys :
               item'[k].state = IF State(k) = "absent" /\ k.src = s /\ k.pos \in us
                                    THEN "pending" ELSE State(k)
          /\ Cardinality(us) + OpenCount(s) <= MAX_OPEN
      BY <1>1, <1>3, <2>0, PageIs DEF Scanning, Arrives
    <2>2. ASSUME NEW e \in Epochs PROVE OpenCount(e)' <= MAX_OPEN
      <3> DEFINE A == J!InState(J!OfSource(e), J!Open)
                 B == {k \in J!OfSource(e) : item'[k].state \in J!Open}
                 C == {Key(s, u) : u \in us}
      <3>1. OpenCount(e) = Cardinality(A) /\ OpenCount(e)' = Cardinality(B)
        BY DEF OpenCount, J!InState, J!OfSource, J!Keys
      <3>2. IsFiniteSet(A) /\ Cardinality(A) \in Nat /\ Cardinality(A) <= MAX_OPEN /\ MAX_OPEN \in Nat
        <4>1. A \subseteq J!OfSource(e)
          BY DEF J!InState
        <4> HIDE DEF A
        <4>2. IsFiniteSet(A) /\ Cardinality(A) \in Nat
          BY <4>1, SourceFinite, FS_Subset, FS_CardinalityType
        <4> QED BY <1>1, <3>1, <4>2, Bounds DEF QueueBounded
      <3>3. CASE e # s
        <4>1. B \subseteq A
          BY <2>1, <3>3 DEF J!InState, J!OfSource, State, Keys
        <4> HIDE DEF A, B
        <4>2. Cardinality(B) \in Nat /\ Cardinality(B) <= Cardinality(A)
          BY <3>2, <4>1, FS_Subset, FS_CardinalityType
        <4> QED BY <3>1, <3>2, <4>2
      <3>4. CASE e = s
        <4>1. B \subseteq A \cup C
          <5> SUFFICES ASSUME NEW k \in B, k \notin A PROVE k \in C
            OBVIOUS
          <5>1. k \in Keys /\ k.src = s /\ item'[k].state \in J!Open /\ State(k) \notin J!Open
            BY <3>4 DEF J!InState, J!OfSource, State, Keys
          <5>2. k.pos \in us
            BY <2>1, <5>1
          <5>3. k = Key(s, k.pos)
            BY <5>1, KeysAre
          <5> QED BY <5>2, <5>3
        <4>2. IsFiniteSet(us) /\ Cardinality(us) \in Nat
          BY UidsFinite
        <4>3. IsFiniteSet(C) /\ Cardinality(C) <= Cardinality(us) /\ Cardinality(C) \in Nat
          <5> DEFINE f == [u \in us |-> Key(s, u)]
          <5>1. f \in Surjection(us, C)
            BY DEF Surjection
          <5> HIDE DEF f, C
          <5> QED BY <4>2, <5>1, FS_Surjection, FS_CardinalityType
        <4> HIDE DEF A, B, C
        <4>4. IsFiniteSet(A \cup C) /\ Cardinality(A \cup C) = Cardinality(A) + Cardinality(C) - Cardinality(A \cap C)
              /\ IsFiniteSet(A \cap C)
          BY <3>2, <4>3, FS_Union, FS_Intersection
        <4>5. Cardinality(B) <= Cardinality(A \cup C) /\ Cardinality(B) \in Nat
              /\ Cardinality(A \cap C) \in Nat /\ Cardinality(A \cup C) \in Nat
          BY <4>1, <4>4, FS_Subset, FS_CardinalityType
        <4>6. Cardinality(us) + Cardinality(A) <= MAX_OPEN
          BY <2>1, <3>1, <3>4
        <4> QED BY <3>1, <3>2, <4>2, <4>3, <4>4, <4>5, <4>6
      <3> QED BY <3>3, <3>4
    <2> QED BY <2>2 DEF QueueBounded, OpenCount, J!InState, J!OfSource, J!Keys
  <1> QED BY <1>2, <1>3

-----------------------------------------------------------------------------
(* The invariant *)

LEMMA InitRows ==
  ASSUME Init
  PROVE  /\ \A k \in Keys : State(k) = "absent" /\ msgid[k] = "none"
         /\ \A e \in Epochs : ~Exists(e) /\ Enum(e) = 0 /\ Newest(e) = 0 /\ id[e] = 0 /\ OpenCount(e) = 0
         /\ JournalTyped /\ ColumnsTyped /\ ServerTyped
PROOF
  <1>1. \A k \in Keys : item[k] = [state |-> "absent", attempts |-> 0] /\ msgid[k] = "none"
    BY DEF Init, J!Init, J!NoItem, Keys
  <1>2. \A e \in Epochs : source[e] = J!NoSource /\ box[e] = <<>> /\ id[e] = 0
    BY DEF Init, J!Init
  <1>3. \A e \in Epochs : ~Exists(e) /\ Enum(e) = 0
    BY <1>2 DEF J!NoSource, Exists, Enum
  <1>4. \A e \in Epochs : Newest(e) = 0
    BY <1>2 DEF Newest
  <1>5. ASSUME NEW e \in Epochs PROVE OpenCount(e) = 0
    <2>1. J!InState(J!OfSource(e), J!Open) = {}
      BY <1>1 DEF J!InState, J!OfSource, J!Open, J!Waiting, Keys
    <2> QED BY <2>1, FS_EmptySet DEF OpenCount
  <1>6. JournalTyped
    <2>1. J!NoSource \in J!SourceRow
      BY Bounds DEF J!NoSource, J!SourceRow, J!Pos, Posn
    <2>2. [state |-> "absent", attempts |-> 0] \in J!ItemRow
      BY Bounds DEF J!ItemRow
    <2>3. source \in [Epochs -> J!SourceRow] /\ pruned = {}
      BY <2>1 DEF Init, J!Init
    <2>4. item \in [Keys -> J!ItemRow]
      BY <2>2 DEF Init, J!Init, J!NoItem, Keys
    <2>5. \A k \in Keys : State(k) \notin J!Waiting
      BY <1>1 DEF State, J!Waiting
    <2> QED BY <2>3, <2>4, <2>5 DEF JournalTyped
  <1>7. ColumnsTyped
    <2>1. Cardinality(Epochs) \in Nat
      BY FS_CardinalityType, MailAssumption DEF MailAssumption
    <2>2. 0 \in 0 .. Cardinality(Epochs)
      BY <2>1
    <2>3. id \in [Epochs -> 0 .. Cardinality(Epochs)]
      BY <2>2 DEF Init
    <2>4. msgid \in [Keys -> Msgs \cup {"none"}]
      BY DEF Init, Keys
    <2>5. mark \in BOOLEAN /\ ready \in BOOLEAN /\ requeued \in BOOLEAN /\ noted = {}
      BY DEF Init
    <2>6. scan \in [Epochs -> {NoBound} \cup Posn] /\ start \in [Epochs -> {NoBound} \cup Posn]
      BY DEF Init
    <2> QED BY <2>3, <2>4, <2>5, <2>6 DEF ColumnsTyped
  <1>8. ServerTyped
    <2>1. box \in [Epochs -> Seq(Msgs)] /\ epoch \in Epochs /\ gone = {}
      BY DEF Init
    <2> QED BY <1>4, <2>1, Bounds DEF ServerTyped
  <1> QED BY <1>1, <1>2, <1>3, <1>4, <1>5, <1>6, <1>7, <1>8 DEF State

LEMMA InitHolds == ASSUME Init PROVE IInv
PROOF
  <1>1. /\ \A k \in Keys : State(k) = "absent" /\ msgid[k] = "none"
        /\ \A e \in Epochs : ~Exists(e) /\ Enum(e) = 0 /\ Newest(e) = 0 /\ id[e] = 0 /\ OpenCount(e) = 0
        /\ JournalTyped /\ ColumnsTyped /\ ServerTyped
    BY InitRows
  <1>2. intake.phase = "idle" /\ reader.phase = "idle" /\ cli = NoCommand /\ mark = FALSE
        /\ intake \in [phase : {"idle", "first"}] /\ reader \in [phase : {"idle"}]
    BY DEF Init, IdleIntake, IdleReader
  <1>3. Typed
    BY <1>1, <1>2 DEF Typed, IntakeTyped, ReaderTyped, CommandTyped
  <1>4. Sourced
    BY <1>1 DEF Sourced
  <1>5. Marked
    BY <1>1, <1>2 DEF Marked, Exists
  <1>6. PlacedOnce
    BY <1>1 DEF PlacedOnce, Placed
  <1>7. Rows /\ ReadOncePerId
    BY <1>1 DEF Rows, ReadOncePerId, J!InState, Keys, State
  <1>8. Scanning /\ Reading
    BY <1>2 DEF Scanning, Reading
  <1>9. NoMailSkipped /\ QueueBounded
    BY <1>1, Bounds DEF NoMailSkipped, QueueBounded, Exists
  <1> QED BY <1>3, <1>4, <1>5, <1>6, <1>7, <1>8, <1>9 DEF IInv

LEMMA StepHolds == ASSUME IInv, [Next]_vars PROVE IInv'
PROOF
  BY TypedStep, SourcedStep, MarkedStep, PlacedOnceStep, RowsInvStep, ScanningStep, ReadingStep,
     NoMailSkippedStep, QueueStep, ReadOnceStep DEF IInv

\* In every state the program reaches, what its loops hold is still good enough.
THEOREM Invariance == Spec => []IInv
PROOF
  <1>1. Init => IInv
    BY InitHolds
  <1>2. IInv /\ [Next]_vars => IInv'
    BY StepHolds
  <1> QED BY <1>1, <1>2, PTL DEF Spec

\* A mail the cursor has passed has a row or was expunged before it was read.
THEOREM MailKept == Spec => []NoMailSkipped
PROOF
  <1>1. IInv => NoMailSkipped
    BY DEF IInv
  <1> QED BY <1>1, Invariance, PTL

\* One artifact, and at most one reply, per Message-ID.
THEOREM RepliesOnce == Spec => []ReadOncePerId
PROOF
  <1>1. IInv => ReadOncePerId
    BY DEF IInv
  <1> QED BY <1>1, Invariance, PTL

\* After the first epoch every mailbox is read from its start: only one
\* source ever started anywhere else.
THEOREM EpochsFromStart == Spec => []NewEpochFromStart
PROOF
  <1>1. IInv => NewEpochFromStart
    <2> SUFFICES ASSUME IInv, NEW e \in Epochs, Exists(e), start[e] > 0,
                        NEW f \in Epochs \ {e}, Exists(f)
                 PROVE  start[f] = 0
      BY DEF NewEpochFromStart, Exists
    <2>1. start[f] \in Nat
      BY Bounds DEF IInv, Sourced
    <2>2. Placed(e) /\ ~Placed(f)
      BY DEF IInv, PlacedOnce, Placed
    <2>3. ~(start[f] > 0)
      BY <2>2 DEF Placed
    <2> QED BY <2>1, <2>3
  <1> QED BY <1>1, Invariance, PTL

\* Rows keep their types and the queue its limit, and what was read under a
\* row is the mail of that row.
THEOREM ArtifactsKept == Spec => []ArtifactInv
PROOF
  <1>1. IInv => ArtifactInv
    <2> SUFFICES ASSUME IInv PROVE TypeOK /\ QueueBounded /\ ArtifactOfItsMail
      BY DEF ArtifactInv
    <2>1. JournalTyped /\ ColumnsTyped /\ ServerTyped /\ IntakeTyped /\ ReaderTyped /\ CommandTyped
      BY DEF IInv, Typed
    <2>2. J!TypeOK
      BY <2>1 DEF J!TypeOK, JournalTyped, Keys
    <2>3. /\ id \in [Epochs -> 0 .. Cardinality(Epochs)]
          /\ scan \in [Epochs -> {NoBound} \cup J!Pos] /\ start \in [Epochs -> {NoBound} \cup J!Pos]
          /\ msgid \in [J!Keys -> Msgs \cup {"none"}]
          /\ noted \subseteq J!InState(J!Keys, {"needs_review"})
      BY <2>1 DEF ColumnsTyped, Posn, J!Pos, Keys
    <2>4. {mark, ready, requeued} \subseteq BOOLEAN
      BY <2>1 DEF ColumnsTyped
    <2>5. epoch \in Epochs /\ gone \subseteq J!Keys
      BY <2>1 DEF ServerTyped, Keys
    <2>6. \A e \in Epochs : box[e] \in Seq(Msgs) /\ Newest(e) <= MaxPos
      <3> TAKE e \in Epochs
      <3>1. box[e] \in Seq(Msgs) /\ Newest(e) \in Posn
        BY <2>1, BoxIs
      <3> QED BY <3>1, Bounds DEF Posn
    <2>7. intake.phase \in {"idle", "first", "create first", "held", "asked", "page", "mark",
                            "retire", "create", "settle"}
      BY <2>1, IntakeIs
    <2>8. reader.phase \in {"idle", "operator", "next", "get", "got", "llm", "settle"}
      BY <2>1, ReaderIs
    <2>9. cli \in {NoCommand} \cup [src : Epochs, from : {NoBound} \cup J!Pos]
      BY <2>1 DEF CommandTyped, Posn, J!Pos
    <2>10. TypeOK
      BY <2>2, <2>3, <2>4, <2>5, <2>6, <2>7, <2>8, <2>9 DEF TypeOK
    <2>11. ArtifactOfItsMail
      BY DEF IInv, Rows, ArtifactOfItsMail, J!InState, Keys
    <2> QED BY <2>10, <2>11 DEF IInv
  <1> QED BY <1>1, Invariance, PTL

-----------------------------------------------------------------------------
(* The journal is used as it allows, unless a command was held up *)

LEMMA ItemWrites ==
  ASSUME NEW K \in SUBSET J!Keys,
         \/ J!Claim(K) \/ J!Reconcile(K)
         \/ \E state \in J!FINAL \cup {"needs_review"} : J!Finish(K, state)
         \/ \E counted \in BOOLEAN : J!RetryLater(K, counted)
  PROVE  J!Next
PROOF
  BY DEF J!Next, J!ItemStep

LEMMA SourceWrites == ASSUME NEW s \in Epochs, J!SourceStep(s) PROVE J!Next
PROOF
  BY DEF J!Next

LEMMA CurrentWrites ==
  ASSUME IInv, GetReply \/ GetFails \/ ReadReply
  PROVE  J!Next \/ UNCHANGED journal
PROOF
  <1>1. ReaderTyped /\ Reading /\ reader.phase \in {"get", "got", "llm"}
    BY DEF IInv, Typed, GetReply, GetFails, ReadReply
  <1>2. {Current} \in SUBSET J!Keys
    BY <1>1, CurrentAt DEF Keys
  <1>3. ASSUME NEW m, NEW state \in J!FINAL, Dispose(state, m) PROVE J!Next
    <2>1. J!Finish({Current}, state) /\ state \in J!FINAL \cup {"needs_review"}
      BY <1>3 DEF Dispose
    <2> QED BY <1>2, <2>1, ItemWrites
  <1>4. ASSUME NEW u \in BOOLEAN, Review(u) PROVE J!Next
    <2>1. J!Finish({Current}, "needs_review") /\ "needs_review" \in J!FINAL \cup {"needs_review"}
      BY <1>4 DEF Review
    <2> QED BY <1>2, <2>1, ItemWrites
  <1>5. ASSUME NEW counted \in BOOLEAN, Again(counted) PROVE J!Next
    <2>1. J!RetryLater({Current}, counted)
      BY <1>5 DEF Again
    <2> QED BY <1>2, <2>1, ItemWrites
  <1>6. {"ignored", "deleted", "processed"} \subseteq J!FINAL
    BY DEF J!FINAL
  <1>7. CASE GetReply
    BY <1>3, <1>4, <1>5, <1>6, <1>7 DEF GetReply, Decide
  <1>8. CASE GetFails
    BY <1>4, <1>5, <1>8 DEF GetFails
  <1>9. CASE ReadReply
    BY <1>3, <1>4, <1>5, <1>6, <1>9 DEF ReadReply
  <1> QED BY <1>7, <1>8, <1>9

LEMMA CreateWrites == ASSUME IInv, Founds PROVE J!Next \/ UNCHANGED journal
PROOF
  <1>1. JournalTyped /\ Marked
    BY DEF IInv, Typed
  <1>2. PICK e \in Epochs, from \in Posn, state \in {"active", "migration_needs_review"} :
           /\ Create(e, from, state)
           /\ IF FirstSource THEN intake.phase = "create first" /\ FirstStart(from, intake.newest, state)
              ELSE from = 0 /\ state = "active" /\ intake.phase = "create"
    BY FoundsAt
  <1>3. source[e].state = "retired" => state = "active"
    <2>1. source[e].state = "retired" => mark
      BY <1>1 DEF Marked
    <2> QED BY <1>2, <2>1 DEF FirstStart
  <1>4. CASE J!CreateSource(e, from, state)
    <2>1. J!CreateRule(e, state) /\ from \in J!Pos
      BY <1>3 DEF J!CreateRule, J!Pos, Posn
    <2>2. J!SourceStep(e)
      BY <1>4, <2>1 DEF J!SourceStep
    <2> QED BY <2>2, SourceWrites
  <1>5. CASE ~J!CreateSource(e, from, state)
    BY <1>2, <1>5 DEF Create
  <1> QED BY <1>4, <1>5

LEMMA ArriveWrites == ASSUME IInv, ~SlowMigrate, Arrives PROVE J!Next
PROOF
  <1>1. Scanning /\ IntakeTyped /\ intake.phase = "page" /\ intake.epoch = intake.src
    BY DEF IInv, Typed, Arrives, PageArrives
  <1>2. PICK s \in Epochs, us \in SUBSET Uids, n \in Posn :
          s = intake.src /\ us = intake.uids /\ n = intake.next
    BY <1>1, IntakeIs
  <1>3. /\ source[s].state = "active" /\ \A u \in us : Enum(s) < u
        /\ J!Admit(s, [k \in {Key(s, u) : u \in us} |-> "pending"], n)
    BY <1>1, <1>2 DEF Scanning, Arrives, PageArrives
  <1> DEFINE K == {Key(s, u) : u \in us}
             rows == [k \in K |-> "pending"]
  <1>4. \A k \in K : k \in J!Keys /\ k.src = s /\ k.pos \in us
    BY KeysAre DEF Keys
  <1>5. K \in SUBSET J!OfSource(s)
    BY <1>4 DEF J!OfSource
  <1>6. rows \in [K -> {"pending", "ignored"}] /\ DOMAIN rows = K
    OBVIOUS
  <1>7. J!Admit(s, rows, n) /\ n \in J!Pos
    BY <1>3 DEF J!Pos, Posn
  <1> HIDE DEF K, rows
  <1>8. J!AdmitRule(s, rows)
    <2>1. ASSUME NEW k \in DOMAIN rows PROVE k.src = s /\ k.pos > source[s].enumerated
      <3>1. k \in J!Keys /\ k.src = s /\ k.pos \in us
        BY <1>4, <1>6, <2>1
      <3>2. Enum(s) < k.pos /\ k.pos \in Nat /\ Enum(s) \in Nat
        BY <1>3, <3>1, SourceIs, Bounds DEF IInv, Typed
      <3>3. k.pos > Enum(s)
        BY <3>2
      <3> QED BY <3>1, <3>3 DEF Enum
    <2> QED BY <1>3, <2>1 DEF J!AdmitRule
  <1>9. J!SourceStep(s)
    BY <1>5, <1>6, <1>7, <1>8 DEF J!SourceStep
  <1> QED BY <1>9, SourceWrites

LEMMA JournalStep ==
  ASSUME IInv, ~SlowMigrate, [Next]_vars
  PROVE  [J!Next]_(J!jvars)
PROOF
  <1>1. JournalTyped /\ IntakeTyped /\ ReaderTyped
    BY DEF IInv, Typed
  <1>2. SUFFICES J!Next \/ UNCHANGED journal
    BY DEF journal, J!jvars
  <1>3. CASE Elsewhere
    BY <1>3, ElsewhereAt DEF journal
  <1>4. CASE FirstSource \/ CreateEpoch
    BY <1>4, CreateWrites DEF Founds
  <1>5. CASE RetireEpoch
    <2>1. J!Retire(intake.src) /\ intake.src \in Epochs
      BY <1>1, <1>5, IntakeIs DEF RetireEpoch
    <2>2. J!SourceStep(intake.src)
      BY <2>1 DEF J!SourceStep
    <2> QED BY <2>1, <2>2, SourceWrites
  <1>6. CASE PageArrives
    <2>1. CASE intake.epoch = intake.src
      BY <1>6, <2>1, ArriveWrites DEF Arrives
    <2>2. CASE intake.epoch # intake.src
      BY <1>6, <2>2 DEF PageArrives
    <2> QED BY <2>1, <2>2
  <1>7. CASE OperatorMigrates
    <2>1. PICK c \in Commands :
            IF c.from = NoBound THEN J!Adopt(c.src) /\ UNCHANGED start
            ELSE J!MigrateTo(c.src, c.from)
      BY <1>7 DEF OperatorMigrates
    <2>2. c.src \in Epochs /\ c.from \in {NoBound} \cup J!Pos
      BY DEF Commands
    <2>3. J!SourceStep(c.src)
      BY <2>1, <2>2 DEF J!SourceStep
    <2> QED BY <2>2, <2>3, SourceWrites
  <1>8. CASE IntakeSettle
    <2>1. J!Settle(intake.src) /\ intake.src \in Epochs
      BY <1>1, <1>8, IntakeIs DEF IntakeSettle
    <2>2. J!SourceStep(intake.src)
      BY <2>1 DEF J!SourceStep
    <2> QED BY <2>1, <2>2, SourceWrites
  <1>9. CASE ReaderSettle
    <2>1. J!Settle(reader.src) /\ reader.src \in Epochs
      BY <1>1, <1>9, ReaderIs DEF ReaderSettle
    <2>2. J!SourceStep(reader.src)
      BY <2>1 DEF J!SourceStep
    <2> QED BY <2>1, <2>2, SourceWrites
  <1>10. CASE RequeueHeld
    <2>1. PICK s \in Found : source[s].state = "active" /\ J!Requeue(s, noted)
      BY <1>10 DEF RequeueHeld
    <2>2. s \in Epochs
      BY DEF Found, Live
    <2> DEFINE K == noted \cap J!OfSource(s)
    <2>3. K \in SUBSET J!OfSource(s) /\ K \cap J!OfSource(s) = noted \cap J!OfSource(s)
      OBVIOUS
    <2>4. J!Requeue(s, K)
      BY <2>1, <2>3 DEF J!Requeue
    <2>5. J!SourceStep(s)
      BY <2>1, <2>3, <2>4 DEF J!SourceStep
    <2> QED BY <2>2, <2>5, SourceWrites
  <1>11. CASE ClaimMail
    <2>1. J!Claim({Key(reader.src, Min(reader.batch))})
      BY <1>11 DEF ClaimMail
    <2>2. reader.batch \in SUBSET Uids /\ reader.batch # {} /\ reader.src \in Epochs
      BY <1>1, <1>11, ReaderIs DEF ClaimMail
    <2>3. reader.batch \in SUBSET Nat
      BY <2>2, Bounds
    <2>4. Min(reader.batch) \in Uids
      BY <2>2, <2>3, MinOfNat
    <2>5. {Key(reader.src, Min(reader.batch))} \in SUBSET J!Keys
      BY <2>2, <2>4, KeysAre DEF Keys
    <2> QED BY <2>1, <2>5, ItemWrites
  <1>12. CASE GetReply \/ GetFails \/ ReadReply
    BY <1>12, CurrentWrites
  <1>13. CASE Restart
    <2>1. J!Reconcile({}) /\ {} \in SUBSET J!Keys
      BY <1>13 DEF Restart
    <2> QED BY <2>1, ItemWrites
  <1>14. CASE OperatorRetry \/ OperatorDismiss
    BY <1>14 DEF OperatorRetry, OperatorDismiss, J!Next, J!ItemStep
  <1> QED BY <1>3, <1>4, <1>5, <1>6, <1>7, <1>8, <1>9, <1>10, <1>11, <1>12, <1>13, <1>14, Steps

\* The mailroom uses the journal as InboxJournal allows, when no command is
\* held up between its look and its write: a page only brings new rows past
\* the cursor, and a retired source comes back active.
THEOREM JournalUsed == ~SlowMigrate /\ Spec => JournalSpec
PROOF
  <1> SUFFICES ASSUME ~SlowMigrate PROVE Spec => JournalSpec
    OBVIOUS
  <1>1. Init => J!Init
    BY DEF Init
  <1>2. IInv /\ [Next]_vars => [J!Next]_(J!jvars)
    BY JournalStep
  <1> QED BY <1>1, <1>2, Invariance, PTL DEF Spec, JournalSpec, J!Spec
=============================================================================
