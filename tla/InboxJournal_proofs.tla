------------------------ MODULE InboxJournal_proofs ------------------------
(***************************************************************************)
(* The journal keeps its promises for every number of sources, positions   *)
(* and attempts.  IInv is the inductive invariant; the actions fall in two *)
(* groups, those that move a source row and those that move item rows, and *)
(* the second group is proved through the summary ItemsMove.               *)
(***************************************************************************)
EXTENDS InboxJournal, TLAPS

\* A held source that was never read, and a source that has no row yet, have
\* no items: the rewind check of migrate relies on it.
NoRows(s) == \A k \in Keys : k.src = s => item[k].state = "absent" /\ k \notin pruned

UnreadIsEmpty ==
  \A s \in Sources :
    \/ source[s].state = "none"
    \/ source[s].state = "migration_needs_review" /\ ~source[s].reappeared
    => NoRows(s) /\ source[s].acked = 0

\* What prune() dropped lies below the cursor, which is why it stays out.
PrunedBelowCursor ==
  \A k \in pruned : k.lane # "attention" => k.pos <= source[k.src].enumerated

IInv ==
  /\ TypeOK
  /\ SettledBelowOpen
  /\ CursorOrder
  /\ AttemptsBounded
  /\ PrunedStayOut
  /\ UnreadIsEmpty
  /\ PrunedBelowCursor

-----------------------------------------------------------------------------
(* What a step may do to the rows *)

\* No row appears or disappears, and no finished row opens again.
RowMoves(r, q) ==
  /\ q \in ItemRow
  /\ q.state = "absent" <=> r.state = "absent"
  /\ r.state \notin Open => q = r
  /\ q.state \in Waiting => q.attempts < MAX_ATTEMPTS

RowsMove ==
  /\ UNCHANGED pruned
  /\ item' \in [Keys -> ItemRow]
  /\ \A k \in Keys : RowMoves(item[k], item'[k])

\* What a row of s must satisfy next to its items.
CursorsFit(s, q) ==
  /\ q \in SourceRow
  /\ q.acked <= q.settled /\ q.settled <= q.enumerated
  /\ \A k \in Blocking(s) : q.settled < k.pos
  /\ \/ q.state = "none"
     \/ q.state = "migration_needs_review" /\ ~q.reappeared
     => NoRows(s) /\ q.acked = 0
  /\ \A k \in pruned : k.src = s /\ k.lane # "attention" => k.pos <= q.enumerated

\* Such a step keeps the invariant: the open rows shrink.
LEMMA MoveSafe ==
  ASSUME IInv, RowsMove, source' \in [Sources -> SourceRow],
         \A s \in Sources : CursorsFit(s, source'[s])
  PROVE  IInv'
PROOF
  <1> USE DEF RowsMove, CursorsFit
  <1>1. TypeOK'
    BY DEF IInv, TypeOK
  <1>2. \A k \in Keys : item'[k].state \in Open => item[k].state \in Open
    BY DEF RowMoves
  <1>3. SettledBelowOpen'
    BY <1>2 DEF SettledBelowOpen, Blocking
  <1>4. CursorOrder'
    BY DEF CursorOrder
  <1>5. AttemptsBounded'
    <2>1. \A k \in Keys : item'[k].state \in Waiting => item'[k].attempts < MAX_ATTEMPTS
      BY DEF RowMoves
    <2>2. \A k \in Keys : item'[k].attempts \in 0 .. MAX_ATTEMPTS
      BY DEF ItemRow
    <2> QED
      BY <2>1, <2>2, JournalAssumption DEF AttemptsBounded, Waiting
  <1>6. \A k \in Keys : item'[k].state = "absent" <=> item[k].state = "absent"
    BY DEF RowMoves
  <1>7. PrunedStayOut'
    BY <1>6 DEF IInv, TypeOK, PrunedStayOut
  <1>8. UnreadIsEmpty'
    BY <1>6 DEF UnreadIsEmpty, NoRows
  <1>9. PrunedBelowCursor'
    <2>1. \A k \in pruned : k.src \in Sources
      BY DEF IInv, TypeOK, Keys
    <2> QED
      BY <2>1 DEF PrunedBelowCursor
  <1> QED
    BY <1>1, <1>3, <1>4, <1>5, <1>7, <1>8, <1>9 DEF IInv

\* What IInv says of one source row.
LEMMA RowFits == ASSUME IInv, NEW s \in Sources PROVE CursorsFit(s, source[s])
PROOF
  BY DEF IInv, TypeOK, SettledBelowOpen, CursorOrder, UnreadIsEmpty, PrunedBelowCursor, CursorsFit

LEMMA SameRowMoves ==
  ASSUME IInv, NEW k \in Keys PROVE RowMoves(item[k], item[k])
PROOF
  BY DEF IInv, TypeOK, AttemptsBounded, RowMoves

-----------------------------------------------------------------------------
(* Steps that only move item rows *)

ItemsMove == RowsMove /\ UNCHANGED source

LEMMA ItemsMoveSafe == ASSUME IInv, ItemsMove PROVE IInv'
PROOF
  BY MoveSafe, RowFits DEF ItemsMove, IInv, TypeOK

LEMMA ClaimMoves ==
  ASSUME IInv, NEW K \in SUBSET Keys, Claim(K) PROVE ItemsMove
PROOF
  <1>1. ASSUME NEW k \in Keys PROVE RowMoves(item[k], item'[k])
    BY JournalAssumption
    DEF IInv, TypeOK, AttemptsBounded, RowMoves, ItemRow, Waiting, Open, FINAL,
        Claim, SetItems, InState, ToClaimed
  <1>2. item' \in [Keys -> ItemRow]
    BY <1>1 DEF RowMoves, Claim, SetItems, InState, ToClaimed
  <1> QED
    BY <1>1, <1>2 DEF ItemsMove, RowsMove, Claim

LEMMA FinishMoves ==
  ASSUME IInv, NEW K \in SUBSET Keys, NEW state \in FINAL \cup {"needs_review"}, Finish(K, state) PROVE ItemsMove
PROOF
  <1>1. ASSUME NEW k \in Keys PROVE RowMoves(item[k], item'[k])
    BY JournalAssumption
    DEF IInv, TypeOK, AttemptsBounded, RowMoves, ItemRow, Waiting, Open, FINAL,
        Finish, SetItems, InState
  <1>2. item' \in [Keys -> ItemRow]
    BY <1>1 DEF RowMoves, Finish, SetItems, InState
  <1> QED
    BY <1>1, <1>2 DEF ItemsMove, RowsMove, Finish

LEMMA RetryMoves ==
  ASSUME IInv, NEW K \in SUBSET Keys, NEW counted \in BOOLEAN, RetryLater(K, counted) PROVE ItemsMove
PROOF
  <1>1. ASSUME NEW k \in Keys PROVE RowMoves(item[k], item'[k])
    BY JournalAssumption
    DEF IInv, TypeOK, AttemptsBounded, RowMoves, ItemRow, Waiting, Open, FINAL,
        RetryLater, SetItems, InState, Counted, Uncounted, Larger
  <1>2. item' \in [Keys -> ItemRow]
    BY <1>1 DEF RowMoves, RetryLater, SetItems, InState, Counted, Uncounted, Larger
  <1> QED
    BY <1>1, <1>2 DEF ItemsMove, RowsMove, RetryLater

LEMMA ReconcileMoves ==
  ASSUME IInv, NEW live \in SUBSET Keys, Reconcile(live) PROVE ItemsMove
PROOF
  <1>1. ASSUME NEW k \in Keys PROVE RowMoves(item[k], item'[k])
    BY JournalAssumption
    DEF IInv, TypeOK, AttemptsBounded, RowMoves, ItemRow, Waiting, Open, FINAL,
        Reconcile, Interrupted, ToReview
  <1>2. item' \in [Keys -> ItemRow]
    BY <1>1 DEF RowMoves, Reconcile, Interrupted, ToReview
  <1> QED
    BY <1>1, <1>2 DEF ItemsMove, RowsMove, Reconcile

\* A row the operator puts back starts its attempts afresh.
LEMMA ResetRowMoves ==
  ASSUME NEW r \in ItemRow, r.state = "needs_review" PROVE RowMoves(r, ToPendingReset(r))
PROOF
  <1>1. ToPendingReset(r) = [state |-> "pending", attempts |-> 0]
    BY DEF ToPendingReset
  <1>2. 0 \in 0 .. MAX_ATTEMPTS /\ 0 < MAX_ATTEMPTS
    BY JournalAssumption
  <1>3. ToPendingReset(r) \in ItemRow
    BY <1>1, <1>2 DEF ItemRow, Waiting, Open
  <1> QED
    BY <1>1, <1>2, <1>3 DEF RowMoves, Open

LEMMA ReviewRetryMoves ==
  ASSUME IInv, NEW x \in Keys, ReviewRetry(x) PROVE ItemsMove
PROOF
  <1>1. item \in [Keys -> ItemRow]
    BY DEF IInv, TypeOK
  <1>2. ASSUME NEW k \in Keys PROVE RowMoves(item[k], item'[k])
    <2>1. CASE k = x
      BY <1>1, <2>1, ResetRowMoves DEF ReviewRetry
    <2>2. CASE k # x
      BY <1>1, <2>2, SameRowMoves DEF ReviewRetry
    <2> QED
      BY <2>1, <2>2
  <1>3. item' \in [Keys -> ItemRow]
    BY <1>1, <1>2 DEF RowMoves, ReviewRetry
  <1> QED
    BY <1>2, <1>3 DEF ItemsMove, RowsMove, ReviewRetry

LEMMA ReviewDismissMoves ==
  ASSUME IInv, NEW x \in Keys, ReviewDismiss(x) PROVE ItemsMove
PROOF
  <1>1. item \in [Keys -> ItemRow]
    BY DEF IInv, TypeOK
  <1>2. ASSUME NEW k \in Keys PROVE RowMoves(item[k], item'[k])
    <2>1. CASE k = x
      <3>1. item'[k] = [item[k] EXCEPT !.state = "ignored"] /\ item[k].state = "needs_review"
        BY <1>1, <2>1 DEF ReviewDismiss
      <3> QED
        BY <1>1, <3>1 DEF RowMoves, ItemRow, Waiting, Open, FINAL
    <2>2. CASE k # x
      BY <1>1, <2>2, SameRowMoves DEF ReviewDismiss
    <2> QED
      BY <2>1, <2>2
  <1>3. item' \in [Keys -> ItemRow]
    BY <1>1, <1>2 DEF RowMoves, ReviewDismiss
  <1> QED
    BY <1>2, <1>3 DEF ItemsMove, RowsMove, ReviewDismiss

LEMMA RequeueMoves ==
  ASSUME IInv, NEW s \in Sources, NEW K \in SUBSET Keys, Requeue(s, K) PROVE ItemsMove
PROOF
  <1>1. item \in [Keys -> ItemRow]
    BY DEF IInv, TypeOK
  <1>2. ASSUME NEW k \in Keys PROVE RowMoves(item[k], item'[k])
    <2>1. CASE item'[k] = item[k]
      BY <2>1, SameRowMoves
    <2>2. CASE item'[k] = ToPendingReset(item[k]) /\ item[k].state = "needs_review"
      BY <1>1, <2>2, ResetRowMoves
    <2> QED
      BY <1>1, <2>1, <2>2 DEF Requeue, SetItems, InState
  <1>3. item' \in [Keys -> ItemRow]
    BY <1>2 DEF RowMoves, Requeue, SetItems
  <1> QED
    BY <1>2, <1>3 DEF ItemsMove, RowsMove, Requeue

\* prune() drops finished chat rows of the settled prefix.
LEMMA PruneSafe ==
  ASSUME IInv, NEW K \in SUBSET Keys, Prune(K) PROVE IInv'
PROOF
  <1> USE DEF Prune
  <1>1. \A k \in K : /\ item[k].state # "absent"
                     /\ k.pos <= source[k.src].settled
    BY DEF Prunable, FINAL
  <1>2. NoItem \in ItemRow
    BY JournalAssumption DEF NoItem, ItemRow
  <1>3. TypeOK'
    BY <1>2 DEF IInv, TypeOK
  <1>4. \A k \in Keys : item'[k] = item[k] \/ item'[k] = NoItem
    OBVIOUS
  <1>5. \A k \in Keys : item'[k].state \in Open => item[k].state \in Open
    BY <1>4 DEF NoItem, Open, Waiting
  <1>6. SettledBelowOpen'
    BY <1>5 DEF IInv, SettledBelowOpen, Blocking
  <1>7. CursorOrder'
    BY DEF IInv, CursorOrder
  <1>8. AttemptsBounded'
    BY <1>4, JournalAssumption DEF IInv, AttemptsBounded, NoItem, Waiting
  <1>9. PrunedStayOut'
    BY DEF IInv, TypeOK, PrunedStayOut, NoItem
  <1>10. UnreadIsEmpty'
    BY <1>1 DEF IInv, UnreadIsEmpty, NoRows, NoItem
  <1>11. PrunedBelowCursor'
    <2> SUFFICES ASSUME NEW k \in K, k.lane # "attention"
                 PROVE  k.pos <= source[k.src].enumerated
      BY DEF IInv, PrunedBelowCursor
    <2>1. k.src \in Sources /\ k.pos \in Nat
      BY JournalAssumption DEF Keys
    <2>2. source[k.src].settled <= source[k.src].enumerated
      BY <2>1 DEF IInv, CursorOrder
    <2>3. source[k.src].settled \in Nat /\ source[k.src].enumerated \in Nat
      BY <2>1, JournalAssumption DEF IInv, TypeOK, SourceRow, Pos
    <2> QED
      BY <1>1, <2>1, <2>2, <2>3
  <1> QED
    BY <1>3, <1>6, <1>7, <1>8, <1>9, <1>10, <1>11 DEF IInv

-----------------------------------------------------------------------------
(* Steps that move one source row *)

LEMMA SourceRowSafe ==
  ASSUME IInv, NEW s \in Sources, NEW q, CursorsFit(s, q),
         source' = [source EXCEPT ![s] = q], UNCHANGED <<item, pruned>>
  PROVE  IInv'
PROOF
  <1>1. source \in [Sources -> SourceRow] /\ item \in [Keys -> ItemRow]
    BY DEF IInv, TypeOK
  <1>2. \A t \in Sources : source'[t] = IF t = s THEN q ELSE source[t]
    BY <1>1
  <1>3. source' \in [Sources -> SourceRow]
    BY <1>1 DEF CursorsFit
  <1>4. RowsMove
    BY <1>1, SameRowMoves DEF RowsMove
  <1>5. \A t \in Sources : CursorsFit(t, source'[t])
    BY <1>2, RowFits
  <1> QED
    BY <1>3, <1>4, <1>5, MoveSafe

LEMMA CursorsNat ==
  ASSUME NEW q \in SourceRow
  PROVE  q.enumerated \in Nat /\ q.settled \in Nat /\ q.acked \in Nat
PROOF
  BY JournalAssumption DEF SourceRow, Pos

LEMMA PositionsNat == ASSUME NEW k \in Keys PROVE k.pos \in Nat \ {0} /\ k.src \in Sources
PROOF
  BY JournalAssumption DEF Keys

LEMMA CreateSourceSafe ==
  ASSUME IInv, NEW s \in Sources, NEW p \in Pos,
         NEW state \in {"active", "migration_needs_review"},
         CreateRule(s, state), CreateSource(s, p, state)
  PROVE  IInv'
PROOF
  <1>1. CASE source[s].state = "none"
    <2> DEFINE q == [NoSource EXCEPT !.state = state, !.enumerated = p, !.settled = p]
    <2>1. source' = [source EXCEPT ![s] = q]
      BY <1>1 DEF CreateSource
    <2>2. NoRows(s)
      BY <1>1 DEF IInv, UnreadIsEmpty
    <2>3. /\ p \in Nat /\ q \in SourceRow
          /\ q.enumerated = p /\ q.settled = p /\ q.acked = 0
      <3>1. NoSource \in SourceRow /\ NoSource.acked = 0
        BY JournalAssumption DEF SourceRow, NoSource, Pos
      <3>2. p \in Nat
        BY JournalAssumption DEF Pos
      <3>3. q \in SourceRow
        BY <3>1 DEF SourceRow
      <3>4. q.enumerated = p /\ q.settled = p /\ q.acked = 0
        BY <3>1 DEF SourceRow
      <3> QED
        BY <3>2, <3>3, <3>4
    <2>4. Blocking(s) = {}
      BY <2>2 DEF Blocking, NoRows, Open, Waiting
    <2>5. \A k \in pruned : k.src # s
      BY <2>2 DEF NoRows, IInv, TypeOK
    <2>6. CursorsFit(s, q)
      BY <2>2, <2>3, <2>4, <2>5 DEF CursorsFit, IInv, TypeOK
    <2> QED
      BY <2>1, <2>6, SourceRowSafe DEF CreateSource
  <1>2. CASE source[s].state = "retired"
    <2> DEFINE q == [source[s] EXCEPT !.state = "active"]
    <2>1. source' = [source EXCEPT ![s] = q]
      BY <1>2 DEF CreateRule, CreateSource
    <2>2. CursorsFit(s, q)
      BY RowFits DEF CursorsFit, SourceRow
    <2> QED
      BY <2>1, <2>2, SourceRowSafe DEF CreateSource
  <1> QED
    BY <1>1, <1>2 DEF CreateSource

LEMMA AdoptSafe ==
  ASSUME IInv, NEW s \in Sources, Adopt(s) PROVE IInv'
PROOF
  <1> DEFINE q == [source[s] EXCEPT !.state = "active", !.reappeared = FALSE]
  <1>1. source' = [source EXCEPT ![s] = q]
    BY DEF Adopt
  <1>2. CursorsFit(s, q)
    BY RowFits DEF CursorsFit, SourceRow
  <1> QED
    BY <1>1, <1>2, SourceRowSafe DEF Adopt

LEMMA SetAckedSafe ==
  ASSUME IInv, NEW s \in Sources, NEW p \in Pos, AckRule(s, p), SetAcked(s, p)
  PROVE  IInv'
PROOF
  <1> DEFINE q == [source[s] EXCEPT !.acked = Larger(@, p)]
  <1>1. source' = [source EXCEPT ![s] = q]
    BY DEF SetAcked
  <1>2. CursorsFit(s, q)
    BY RowFits DEF CursorsFit, SourceRow, AckRule, Larger
  <1> QED
    BY <1>1, <1>2, SourceRowSafe DEF SetAcked

LEMMA SettleSafe ==
  ASSUME IInv, NEW s \in Sources, Settle(s) PROVE IInv'
PROOF
  <1>1. PICK t \in Pos : /\ BelowFirstOpen(s, source[s].enumerated, t)
                         /\ source' = [source EXCEPT ![s].settled = Larger(@, t)]
    BY DEF Settle
  <1> DEFINE q == [source[s] EXCEPT !.settled = Larger(@, t)]
  <1>2. source' = [source EXCEPT ![s] = q]
    BY <1>1
  <1>3. CursorsFit(s, source[s]) /\ source[s] \in SourceRow
    BY RowFits DEF CursorsFit
  <1>4. t \in Nat /\ t <= source[s].enumerated /\ \A k \in Blocking(s) : t < k.pos
    BY <1>1, JournalAssumption DEF BelowFirstOpen, Pos
  <1>5. CursorsFit(s, q)
    BY <1>1, <1>3, <1>4, CursorsNat DEF CursorsFit, SourceRow, Larger
  <1> QED
    BY <1>2, <1>5, SourceRowSafe DEF Settle

\* An operator restarts a held source: below its cursor only when it was
\* never read, and never below an open row or what is settled.
LEMMA MigrateHeldSafe ==
  ASSUME IInv, NEW s \in Sources, NEW p \in Pos, MigrateHeld(s, p) PROVE IInv'
PROOF
  <1>1. PICK t \in Pos :
          /\ BelowFirstOpen(s, p, t)
          /\ source' = [source EXCEPT ![s].state = "active", ![s].reappeared = FALSE,
                                      ![s].enumerated = p, ![s].settled = t]
    BY DEF MigrateHeld
  <1> DEFINE q == [source[s] EXCEPT !.state = "active", !.reappeared = FALSE,
                                    !.enumerated = p, !.settled = t]
  <1>2. source' = [source EXCEPT ![s] = q]
    BY <1>1
  <1>3. CursorsFit(s, source[s]) /\ source[s] \in SourceRow
    BY RowFits DEF CursorsFit
  <1>4. /\ t \in Nat /\ p \in Nat /\ t <= p
        /\ \A k \in Blocking(s) : t < k.pos
        /\ t = p \/ \E k \in Blocking(s) : k.pos = t + 1
    BY <1>1, JournalAssumption DEF BelowFirstOpen, Pos
  <1>5. /\ q \in SourceRow /\ q.state = "active"
        /\ q.enumerated = p /\ q.settled = t /\ q.acked = source[s].acked
    BY <1>3 DEF SourceRow
  <1> HIDE DEF q
  <1>6. CASE ~WasRead(s)
    <2>1. NoRows(s) /\ source[s].acked = 0
      BY <1>6 DEF WasRead, OfSource, MigrateHeld, IInv, UnreadIsEmpty
    <2>2. \A k \in pruned : k.src # s
      BY <2>1 DEF NoRows, IInv, TypeOK
    <2>3. CursorsFit(s, q)
      BY <1>4, <1>5, <2>1, <2>2 DEF CursorsFit
    <2> QED
      BY <1>2, <2>3, SourceRowSafe DEF MigrateHeld
  <1>7. CASE WasRead(s)
    <2>1. source[s].enumerated <= p
      BY <1>3, <1>4, <1>7, CursorsNat DEF MigrateHeld, RefuseRewind
    <2>2. source[s].settled <= t
      BY <1>3, <1>4, <2>1, CursorsNat, PositionsNat DEF CursorsFit, Blocking
    <2>3. \A k \in pruned : k.src = s /\ k.lane # "attention" => k.pos <= p
      BY <1>3, <1>4, <2>1, CursorsNat, PositionsNat DEF CursorsFit, IInv, TypeOK
    <2>4. source[s].acked <= t
      BY <1>3, <1>4, <2>2, CursorsNat DEF CursorsFit
    <2>5. CursorsFit(s, q)
      BY <1>4, <1>5, <2>3, <2>4 DEF CursorsFit
    <2> QED
      BY <1>2, <2>5, SourceRowSafe DEF MigrateHeld
  <1> QED
    BY <1>6, <1>7

\* One that was retired or activated since only moves forward.
LEMMA MigrateSafe ==
  ASSUME IInv, NEW s \in Sources, NEW p \in Pos, MigrateTo(s, p) PROVE IInv'
PROOF
  <1>1. CASE MigrateHeld(s, p)
    BY <1>1, MigrateHeldSafe
  <1>2. CASE MigrateLate(s, p)
    <2> DEFINE q == [source[s] EXCEPT !.state = "active", !.reappeared = FALSE,
                                      !.enumerated = Larger(@, p)]
    <2>1. source' = [source EXCEPT ![s] = q]
      BY <1>2 DEF MigrateLate
    <2>2. CursorsFit(s, source[s]) /\ source[s] \in SourceRow /\ p \in Nat
      BY RowFits, JournalAssumption DEF CursorsFit, Pos
    <2>3. /\ Larger(source[s].enumerated, p) \in Pos
          /\ source[s].enumerated <= Larger(source[s].enumerated, p)
      BY <2>2, CursorsNat DEF Larger, SourceRow
    <2>4. /\ q \in SourceRow /\ q.state = "active"
          /\ q.enumerated = Larger(source[s].enumerated, p)
          /\ q.settled = source[s].settled /\ q.acked = source[s].acked
      BY <2>2, <2>3 DEF SourceRow
    <2> HIDE DEF q
    <2>5. \A k \in pruned : k.src = s /\ k.lane # "attention" => k.pos <= q.enumerated
      BY <2>2, <2>3, <2>4, CursorsNat, PositionsNat DEF CursorsFit, IInv, TypeOK, Pos
    <2>6. q.settled <= q.enumerated
      BY <2>2, <2>3, <2>4, CursorsNat, JournalAssumption DEF CursorsFit, Pos
    <2>7. CursorsFit(s, q)
      BY <2>2, <2>4, <2>5, <2>6 DEF CursorsFit
    <2> QED
      BY <1>2, <2>1, <2>7, SourceRowSafe DEF MigrateLate
  <1> QED
    BY <1>1, <1>2 DEF MigrateTo

-----------------------------------------------------------------------------
(* Steps that move source rows and item rows together *)

LEMMA HoldLegacySafe == ASSUME IInv, HoldLegacy PROVE IInv'
PROOF
  <1>1. source \in [Sources -> SourceRow] /\ item \in [Keys -> ItemRow]
    BY DEF IInv, TypeOK
  <1>2. ASSUME NEW s \in Sources PROVE CursorsFit(s, source'[s])
    <2>1. CASE source[s].state = "active"
      <3> DEFINE q == [source[s] EXCEPT !.state = "migration_needs_review", !.reappeared = TRUE]
      <3>1. CursorsFit(s, q)
        BY RowFits DEF CursorsFit, SourceRow
      <3> QED
        BY <2>1, <3>1 DEF HoldLegacy
    <2>2. CASE source[s].state # "active"
      BY <2>2, RowFits DEF HoldLegacy
    <2> QED
      BY <2>1, <2>2
  <1>3. source' \in [Sources -> SourceRow]
    BY <1>2 DEF CursorsFit, HoldLegacy
  <1>4. RowsMove
    BY <1>1, SameRowMoves DEF RowsMove, HoldLegacy
  <1> QED
    BY <1>2, <1>3, <1>4, MoveSafe

LEMMA RetireSafe == ASSUME IInv, NEW s \in Sources, Retire(s) PROVE IInv'
PROOF
  <1>1. source \in [Sources -> SourceRow] /\ item \in [Keys -> ItemRow]
    BY DEF IInv, TypeOK
  <1>2. ASSUME NEW t \in Sources PROVE CursorsFit(t, source'[t])
    <2> DEFINE q == [source[s] EXCEPT !.state = "retired", !.reappeared = FALSE]
    <2>1. CASE t = s
      <3>1. CursorsFit(s, q)
        BY RowFits DEF CursorsFit, SourceRow
      <3>2. source'[s] = q
        BY <1>1 DEF Retire
      <3> QED
        BY <2>1, <3>1, <3>2
    <2>2. CASE t # s
      BY <1>1, <2>2, RowFits DEF Retire
    <2> QED
      BY <2>1, <2>2
  <1>3. source' \in [Sources -> SourceRow]
    BY <1>1, <1>2 DEF CursorsFit, Retire
  <1>4. ASSUME NEW k \in Keys PROVE RowMoves(item[k], item'[k])
    <2>1. CASE item'[k] = item[k]
      BY <2>1, SameRowMoves
    <2>2. CASE item'[k] = ToReview(item[k]) /\ item[k].state \in Waiting
      BY <1>1, <2>2 DEF RowMoves, ToReview, ItemRow, Waiting, Open, FINAL
    <2> QED
      BY <2>1, <2>2 DEF Retire, SetItems, InState
  <1>5. item' \in [Keys -> ItemRow]
    BY <1>4 DEF RowMoves, Retire, SetItems
  <1>6. RowsMove
    BY <1>4, <1>5 DEF RowsMove, Retire
  <1> QED
    BY <1>2, <1>3, <1>6, MoveSafe

\* A page adds rows above the cursor, so it disturbs neither the settled
\* prefix nor what was pruned.
LEMMA AdmitSafe ==
  ASSUME IInv, NEW s \in Sources, NEW K \in SUBSET OfSource(s),
         NEW rows \in [K -> {"pending", "ignored"}], NEW p \in Pos,
         AdmitRule(s, rows), Admit(s, rows, p)
  PROVE  IInv'
PROOF
  <1> DEFINE q == [source[s] EXCEPT !.enumerated = Larger(@, p)]
             New(k) == k \in K /\ item[k].state = "absent"
  <1>1. source \in [Sources -> SourceRow] /\ item \in [Keys -> ItemRow]
    BY DEF IInv, TypeOK
  <1>2. p \in Nat /\ \A k \in Keys : k.pos \in Nat
    BY PositionsNat, JournalAssumption DEF Pos
  <1>3. /\ q \in SourceRow /\ q.state = "active"
        /\ q.settled = source[s].settled /\ q.acked = source[s].acked
        /\ source[s].enumerated <= q.enumerated
    <2>1. Larger(source[s].enumerated, p) \in Pos
      BY <1>1 DEF Larger, SourceRow
    <2>2. source[s].enumerated <= Larger(source[s].enumerated, p)
      BY <1>1, <1>2, CursorsNat DEF Larger
    <2> QED
      BY <1>1, <2>1, <2>2 DEF AdmitRule, SourceRow
  <1>4. \A t \in Sources : source'[t] = IF t = s THEN q ELSE source[t]
    BY <1>1 DEF Admit
  <1>5. \A k \in Keys : /\ New(k) => item'[k] = [state |-> rows[k], attempts |-> 0]
                        /\ ~New(k) => item'[k] = item[k]
    BY DEF Admit, NoItem
  <1>6. \A k \in K : /\ k \in Keys /\ k.src = s
                     /\ rows[k] \in {"pending", "ignored"}
                     /\ k.lane # "attention" => source[s].enumerated < k.pos
    BY <1>1, <1>2, CursorsNat DEF AdmitRule, OfSource
  <1> HIDE DEF q
  <1>7. TypeOK'
    <2>1. ASSUME NEW k \in Keys PROVE item'[k] \in ItemRow
      <3>1. CASE New(k)
        <4>1. item'[k] = [state |-> rows[k], attempts |-> 0]
          BY <1>5, <3>1
        <4>2. rows[k] \in FINAL \cup Open
          BY <1>6, <3>1 DEF FINAL, Open, Waiting
        <4>3. 0 \in 0 .. MAX_ATTEMPTS
          BY JournalAssumption
        <4> QED
          BY <4>1, <4>2, <4>3 DEF ItemRow
      <3>2. CASE ~New(k)
        BY <1>1, <1>5, <3>2
      <3> QED
        BY <3>1, <3>2
    <2>2. item' \in [Keys -> ItemRow]
      BY <2>1 DEF Admit
    <2>3. source' \in [Sources -> SourceRow]
      BY <1>1, <1>3, <1>4 DEF Admit
    <2> QED
      BY <2>2, <2>3 DEF TypeOK, IInv, Admit
  <1>8. \A t \in Sources : /\ source'[t].settled = source[t].settled
                           /\ source'[t].acked = source[t].acked
                           /\ source[t].enumerated <= source'[t].enumerated
    BY <1>1, <1>3, <1>4, CursorsNat
  <1>9. CursorOrder'
    <2> SUFFICES ASSUME NEW t \in Sources
                 PROVE  /\ source'[t].acked <= source'[t].settled
                        /\ source'[t].settled <= source'[t].enumerated
      BY DEF CursorOrder
    <2>1. source[t] \in SourceRow /\ source'[t] \in SourceRow
      BY <1>1, <1>7 DEF TypeOK
    <2> QED
      BY <1>8, <2>1, CursorsNat DEF IInv, CursorOrder
  <1>10. SettledBelowOpen'
    <2> SUFFICES ASSUME NEW t \in Sources, NEW k \in Keys, k.src = t,
                        k.lane # "attention", item'[k].state \in Open
                 PROVE  source[t].settled < k.pos
      BY <1>8 DEF SettledBelowOpen, Blocking
    <2>1. CASE New(k)
      <3>1. source[t].settled <= source[t].enumerated /\ source[t].enumerated < k.pos
        BY <1>6, <2>1 DEF IInv, CursorOrder
      <3> QED
        BY <1>1, <1>2, <3>1, CursorsNat
    <2>2. CASE ~New(k)
      BY <1>5, <2>2 DEF IInv, SettledBelowOpen, Blocking
    <2> QED
      BY <2>1, <2>2
  <1>11. AttemptsBounded'
    <2> SUFFICES ASSUME NEW k \in Keys
                 PROVE  /\ item'[k].state \in Waiting => item'[k].attempts < MAX_ATTEMPTS
                        /\ item'[k].attempts <= MAX_ATTEMPTS
      BY DEF AttemptsBounded
    <2>1. CASE New(k)
      <3>1. item'[k].attempts = 0
        <4>1. item'[k] = [state |-> rows[k], attempts |-> 0]
          BY <1>5, <2>1
        <4> QED
          BY <4>1
      <3>2. 0 < MAX_ATTEMPTS /\ 0 <= MAX_ATTEMPTS
        BY JournalAssumption
      <3> QED
        BY <3>1, <3>2
    <2>2. CASE ~New(k)
      BY <1>5, <2>2 DEF IInv, AttemptsBounded
    <2> QED
      BY <2>1, <2>2
  <1>12. PrunedStayOut'
    <2> SUFFICES ASSUME NEW k \in pruned, k.lane # "attention"
                 PROVE  item'[k].state = "absent"
      BY DEF PrunedStayOut, Admit
    <2>1. k \in Keys /\ item[k].state = "absent" /\ k.src \in Sources
      BY PositionsNat DEF IInv, TypeOK, PrunedStayOut
    <2>2. k.pos <= source[k.src].enumerated
      BY DEF IInv, PrunedBelowCursor
    <2>3. k \notin K
      BY <1>1, <1>2, <1>6, <2>1, <2>2, CursorsNat
    <2> QED
      BY <1>5, <2>1, <2>3
  <1>13. UnreadIsEmpty'
    <2> SUFFICES ASSUME NEW t \in Sources,
                        \/ source'[t].state = "none"
                        \/ source'[t].state = "migration_needs_review" /\ ~source'[t].reappeared
                 PROVE  NoRows(t)' /\ source'[t].acked = 0
      BY DEF UnreadIsEmpty
    <2>1. t # s
      BY <1>3, <1>4
    <2>2. NoRows(t) /\ source[t].acked = 0
      BY <1>4, <2>1 DEF IInv, UnreadIsEmpty
    <2>3. \A k \in Keys : k.src = t => item'[k] = item[k]
      BY <1>5, <1>6, <2>1
    <2> QED
      BY <1>8, <2>2, <2>3 DEF NoRows, Admit
  <1>14. PrunedBelowCursor'
    <2> SUFFICES ASSUME NEW k \in pruned, k.lane # "attention"
                 PROVE  k.pos <= source'[k.src].enumerated
      BY DEF PrunedBelowCursor, Admit
    <2>1. k \in Keys /\ k.src \in Sources
      BY PositionsNat DEF IInv, TypeOK
    <2>2. source[k.src] \in SourceRow /\ source'[k.src] \in SourceRow
      BY <1>1, <1>7, <2>1 DEF TypeOK
    <2>3. k.pos <= source[k.src].enumerated
      BY DEF IInv, PrunedBelowCursor
    <2> QED
      BY <1>2, <1>8, <2>1, <2>2, <2>3, CursorsNat
  <1> QED
    BY <1>7, <1>9, <1>10, <1>11, <1>12, <1>13, <1>14 DEF IInv

-----------------------------------------------------------------------------
(* Theorems *)

LEMMA InitSafe == Init => IInv
PROOF
  <1> SUFFICES ASSUME Init PROVE IInv
    OBVIOUS
  <1>1. NoSource \in SourceRow /\ NoItem \in ItemRow
    BY JournalAssumption DEF NoSource, NoItem, SourceRow, ItemRow, Pos
  <1>2. TypeOK
    BY <1>1 DEF Init, TypeOK
  <1>3. \A s \in Sources : Blocking(s) = {}
    BY DEF Init, NoItem, Blocking, Open, Waiting
  <1>4. SettledBelowOpen /\ CursorOrder
    BY <1>3 DEF Init, NoSource, SettledBelowOpen, CursorOrder
  <1>5. AttemptsBounded
    BY JournalAssumption DEF Init, NoItem, AttemptsBounded, Waiting
  <1>6. UnreadIsEmpty
    BY DEF Init, NoItem, NoSource, UnreadIsEmpty, NoRows
  <1>7. PrunedStayOut /\ PrunedBelowCursor
    BY DEF Init, PrunedStayOut, PrunedBelowCursor
  <1> QED
    BY <1>2, <1>4, <1>5, <1>6, <1>7 DEF IInv

LEMMA SourceStepSafe == ASSUME IInv, NEW s \in Sources, SourceStep(s) PROVE IInv'
PROOF
  <1>1. ASSUME NEW p \in Pos, NEW state \in {"active", "migration_needs_review"},
               CreateRule(s, state), CreateSource(s, p, state)
        PROVE  IInv'
    BY <1>1, CreateSourceSafe
  <1>2. CASE Retire(s)
    BY <1>2, RetireSafe
  <1>3. CASE Adopt(s)
    BY <1>3, AdoptSafe
  <1>4. ASSUME NEW p \in Pos, MigrateTo(s, p) PROVE IInv'
    BY <1>4, MigrateSafe
  <1>5. ASSUME NEW K \in SUBSET OfSource(s), NEW rows \in [K -> {"pending", "ignored"}],
               NEW p \in Pos, AdmitRule(s, rows), Admit(s, rows, p)
        PROVE  IInv'
    BY <1>5, AdmitSafe
  <1>6. ASSUME NEW K \in SUBSET OfSource(s), Requeue(s, K) PROVE IInv'
    <2>1. K \in SUBSET Keys
      BY DEF OfSource
    <2> QED
      BY <1>6, <2>1, RequeueMoves, ItemsMoveSafe
  <1>7. CASE Settle(s)
    BY <1>7, SettleSafe
  <1>8. ASSUME NEW p \in Pos, AckRule(s, p), SetAcked(s, p) PROVE IInv'
    BY <1>8, SetAckedSafe
  <1> QED
    BY <1>1, <1>2, <1>3, <1>4, <1>5, <1>6, <1>7, <1>8 DEF SourceStep

LEMMA ItemStepSafe == ASSUME IInv, ItemStep PROVE IInv'
PROOF
  <1>1. ASSUME NEW K \in SUBSET Keys, Claim(K) PROVE IInv'
    BY <1>1, ClaimMoves, ItemsMoveSafe
  <1>2. ASSUME NEW K \in SUBSET Keys, NEW state \in FINAL \cup {"needs_review"},
               Finish(K, state)
        PROVE  IInv'
    BY <1>2, FinishMoves, ItemsMoveSafe
  <1>3. ASSUME NEW K \in SUBSET Keys, NEW counted \in BOOLEAN, RetryLater(K, counted)
        PROVE  IInv'
    BY <1>3, RetryMoves, ItemsMoveSafe
  <1>4. ASSUME NEW K \in SUBSET Keys, Reconcile(K) PROVE IInv'
    BY <1>4, ReconcileMoves, ItemsMoveSafe
  <1>5. ASSUME NEW K \in SUBSET Keys, Prune(K) PROVE IInv'
    BY <1>5, PruneSafe
  <1>6. ASSUME NEW k \in Keys, ReviewRetry(k) PROVE IInv'
    BY <1>6, ReviewRetryMoves, ItemsMoveSafe
  <1>7. ASSUME NEW k \in Keys, ReviewDismiss(k) PROVE IInv'
    BY <1>7, ReviewDismissMoves, ItemsMoveSafe
  <1> QED
    BY <1>1, <1>2, <1>3, <1>4, <1>5, <1>6, <1>7 DEF ItemStep

\* The invariant is inductive.
LEMMA NextSafe == ASSUME IInv, [Next]_jvars PROVE IInv'
PROOF
  <1>1. CASE UNCHANGED jvars
    BY <1>1 DEF jvars, IInv, TypeOK, SettledBelowOpen, Blocking, CursorOrder,
       AttemptsBounded, PrunedStayOut, UnreadIsEmpty, NoRows, PrunedBelowCursor
  <1>2. CASE HoldLegacy
    BY <1>2, HoldLegacySafe
  <1>3. CASE ItemStep
    BY <1>3, ItemStepSafe
  <1>4. ASSUME NEW s \in Sources, SourceStep(s) PROVE IInv'
    BY <1>4, SourceStepSafe
  <1> QED
    BY <1>1, <1>2, <1>3, <1>4 DEF Next

THEOREM Inductive == Spec => []IInv
PROOF
  <1>1. IInv /\ [Next]_jvars => IInv'
    BY NextSafe
  <1> QED
    BY InitSafe, <1>1, PTL DEF Spec

\* The rows keep to the states, cursors and attempts the SQL of the methods names.
THEOREM TypeCorrect == Spec => []TypeOK
PROOF
  BY Inductive, PTL DEF IInv

\* Nothing at or below a settled position is unfinished: the promise chat
\* intake passes on to the server as the read pointer.
THEOREM SettledPrefix == Spec => []SettledBelowOpen
PROOF
  BY Inductive, PTL DEF IInv

\* acked <= settled <= enumerated, also across operator migrations.
THEOREM CursorsOrdered == Spec => []CursorOrder
PROOF
  BY Inductive, PTL DEF IInv

\* A waiting row always has an attempt left.
THEOREM AttemptsLimited == Spec => []AttemptsBounded
PROOF
  BY Inductive, PTL DEF IInv

\* A pruned post never comes back, although its row is gone.
THEOREM NoReadmission == Spec => []PrunedStayOut
PROOF
  BY Inductive, PTL DEF IInv

-----------------------------------------------------------------------------
(* What no step does *)

\* A finished row is never reopened or given another disposition, and prune()
\* is the only step that drops one.
THEOREM FinishedStays == Spec => FinalStays
PROOF
  <1> DEFINE P(k) == item[k].state \in FINAL =>
                       \/ item'[k].state = item[k].state
                       \/ item'[k].state = "absent" /\ k.pos <= source[k.src].settled
  <1>1. ASSUME IInv, ItemsMove PROVE \A k \in Keys : P(k)
    BY <1>1 DEF ItemsMove, RowsMove, RowMoves, FINAL, Open, Waiting
  <1>2. ASSUME IInv, [Next]_jvars PROVE \A k \in Keys : P(k)
    <2>1. CASE item' = item
      BY <2>1
    <2>2. ASSUME NEW K \in SUBSET Keys, Claim(K) PROVE \A k \in Keys : P(k)
      BY <1>1, <1>2, <2>2, ClaimMoves
    <2>3. ASSUME NEW K \in SUBSET Keys, NEW state \in FINAL \cup {"needs_review"},
                 Finish(K, state)
          PROVE  \A k \in Keys : P(k)
      BY <1>1, <1>2, <2>3, FinishMoves
    <2>4. ASSUME NEW K \in SUBSET Keys, NEW counted \in BOOLEAN, RetryLater(K, counted)
          PROVE  \A k \in Keys : P(k)
      BY <1>1, <1>2, <2>4, RetryMoves
    <2>5. ASSUME NEW K \in SUBSET Keys, Reconcile(K) PROVE \A k \in Keys : P(k)
      BY <1>1, <1>2, <2>5, ReconcileMoves
    <2>6. ASSUME NEW K \in SUBSET Keys, Prune(K) PROVE \A k \in Keys : P(k)
      BY <2>6 DEF Prune, Prunable, NoItem
    <2>7. ASSUME NEW x \in Keys, ReviewRetry(x) PROVE \A k \in Keys : P(k)
      BY <1>1, <1>2, <2>7, ReviewRetryMoves
    <2>8. ASSUME NEW x \in Keys, ReviewDismiss(x) PROVE \A k \in Keys : P(k)
      BY <1>1, <1>2, <2>8, ReviewDismissMoves
    <2>9. ASSUME NEW s \in Sources, NEW K \in SUBSET OfSource(s), Requeue(s, K)
          PROVE  \A k \in Keys : P(k)
      <3>1. K \in SUBSET Keys
        BY DEF OfSource
      <3> QED
        BY <1>1, <1>2, <2>9, <3>1, RequeueMoves
    <2>10. ASSUME NEW s \in Sources, Retire(s) PROVE \A k \in Keys : P(k)
      BY <2>10 DEF Retire, SetItems, InState, Waiting, FINAL
    <2>11. ASSUME NEW s \in Sources, NEW K \in SUBSET OfSource(s),
                  NEW rows \in [K -> {"pending", "ignored"}], NEW p \in Pos, Admit(s, rows, p)
           PROVE  \A k \in Keys : P(k)
      BY <2>11 DEF Admit, FINAL
    <2>12. ASSUME NEW s \in Sources, SourceStep(s) PROVE \A k \in Keys : P(k)
      BY <2>1, <2>9, <2>10, <2>11, <2>12
      DEF SourceStep, CreateSource, Adopt, MigrateTo, MigrateHeld, MigrateLate, Settle, SetAcked
    <2>13. CASE ItemStep
      BY <2>2, <2>3, <2>4, <2>5, <2>6, <2>7, <2>8, <2>13 DEF ItemStep
    <2> QED
      BY <1>2, <2>1, <2>12, <2>13 DEF Next, HoldLegacy, jvars
  <1> QED
    BY Inductive, <1>2, PTL DEF Spec, FinalStays
=============================================================================
