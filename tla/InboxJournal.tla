---------------------------- MODULE InboxJournal ----------------------------
(***************************************************************************)
(* The inbox journal of the Hermes plugin (extensions/hermes/              *)
(* inbox_state.py): the SQLite rows of one profile, shared by the event    *)
(* loop, the tool threads and the operator's command line, each method one *)
(* transaction.  A source is one cursor over a server stream (a chat       *)
(* channel, or one epoch of the mailbox); an item is one post or mail of a *)
(* source on a lane.                                                       *)
(*                                                                         *)
(* Every action is a method of InboxJournal; what the methods leave to     *)
(* their callers are the rules below.  Next is the journal under any       *)
(* caller that keeps them: ChatIntake composes the actions, without the    *)
(* rules, with the callers' own state and implements Spec.                 *)
(*                                                                         *)
(* Left out: payloads and timestamps (a retry_wait item may be due at any  *)
(* time), and the reason of an item (ChatIntake carries it).               *)
(***************************************************************************)
EXTENDS Integers, FiniteSets

CONSTANTS
  Sources,       \* the source rows that may exist: channels or mailbox epochs
  Lanes,         \* "post" and "attention" for chat, "mail" for email
  MaxPos,        \* bound: the largest stream position (post id or UID)
  MAX_ATTEMPTS   \* counted attempts before an item waits for review

ASSUME JournalAssumption ==
  /\ Lanes \subseteq {"post", "attention", "mail"}
  /\ MaxPos \in Nat
  /\ MAX_ATTEMPTS \in Nat \ {0}

VARIABLES
  source,  \* cursor row per source
  item,    \* item row per key; state "absent" when there is no row
  pruned   \* history: keys whose rows prune() has dropped

jvars == <<source, item, pruned>>

Pos  == 0 .. MaxPos
Keys == [src : Sources, lane : Lanes, pos : 1 .. MaxPos]

FINAL   == {"processed", "ignored", "deleted"}
Waiting == {"pending", "retry_wait"}
Open    == Waiting \cup {"processing", "needs_review"}

ItemRow   == [state : FINAL \cup Open \cup {"absent"}, attempts : 0 .. MAX_ATTEMPTS]
SourceRow == [state : {"none", "active", "migration_needs_review", "retired"},
              enumerated : Pos, settled : Pos, acked : Pos, reappeared : BOOLEAN]

NoItem   == [state |-> "absent", attempts |-> 0]
NoSource == [state |-> "none", enumerated |-> 0, settled |-> 0, acked |-> 0,
             reappeared |-> FALSE]

TypeOK ==
  /\ source \in [Sources -> SourceRow]
  /\ item \in [Keys -> ItemRow]
  /\ pruned \subseteq Keys

Larger(a, b) == IF a >= b THEN a ELSE b

\* Mutation: an open nudge holds the cursor too.
Blocking_Nudges(s) == {k \in Keys : k.src = s /\ item[k].state \in Open}

\* Items of s that hold its cursor back: an attention nudge never does.
Blocking(s) == {k \in Keys : k.src = s /\ k.lane # "attention" /\ item[k].state \in Open}

\* t is MIN(limit, first open position - 1), the target of settle and migrate.
BelowFirstOpen(s, limit, t) ==
  /\ t <= limit
  /\ \A k \in Blocking(s) : t < k.pos
  /\ t = limit \/ \E k \in Blocking(s) : k.pos = t + 1

-----------------------------------------------------------------------------
(* Sources *)

Init ==
  /\ source = [s \in Sources |-> NoSource]
  /\ item = [k \in Keys |-> NoItem]
  /\ pruned = {}

\* An INSERT that reactivates a retired source with the cursors it had; a
\* live row is returned as it is.
CreateSource(s, start, state) ==
  /\ source[s].state \in {"none", "retired"}
  /\ source' = [source EXCEPT ![s] =
       IF @.state = "none"
         THEN [NoSource EXCEPT !.state = state, !.enumerated = start, !.settled = start]
         ELSE [@ EXCEPT !.state = state]]
  /\ UNCHANGED <<item, pruned>>

\* The rows an update moves, all of them in one transaction.
SetItems(K, new(_)) == item' = [k \in Keys |-> IF k \in K THEN new(item[k]) ELSE item[k]]
InState(K, S) == {k \in K : item[k].state \in S}
OfSource(s) == {k \in Keys : k.src = s}

ToReview(r) == [r EXCEPT !.state = "needs_review"]
ToPendingReset(r) == [state |-> "pending", attempts |-> 0]

\* A new mailbox epoch: what waits under the old one needs the operator.
Retire(s) ==
  /\ source[s].state # "none"
  /\ source' = [source EXCEPT ![s].state = "retired", ![s].reappeared = FALSE]
  /\ SetItems(InState(OfSource(s), Waiting), ToReview)
  /\ UNCHANGED pruned

\* A pre-journal plugin ran: its cursor file is back, every active source of
\* the kind is held.
HoldLegacy ==
  /\ \E s \in Sources : source[s].state = "active"
  /\ source' = [s \in Sources |->
       IF source[s].state = "active"
         THEN [source[s] EXCEPT !.state = "migration_needs_review", !.reappeared = TRUE]
         ELSE source[s]]
  /\ UNCHANGED <<item, pruned>>

\* Mutation: restarting a source only looks at the rows it still has.
WasRead_IgnoresNote(s) == \E k \in OfSource(s) : item[k].state # "absent"

\* A held source was read before: it has rows, or it was active when held.
WasRead(s) ==
  \/ \E k \in OfSource(s) : item[k].state # "absent"
  \/ source[s].reappeared

RefuseRewind(s, start) == start < source[s].enumerated /\ WasRead(s)

\* `inbox migrate` of a source it read as held: --adopt keeps the cursor,
\* --new-only and --from-uid restart it at start.  The write is a transaction
\* of its own and looks at no state: the source may have been retired since.
Adopt(s) ==
  /\ source[s].state # "none"
  /\ source' = [source EXCEPT ![s].state = "active", ![s].reappeared = FALSE]
  /\ UNCHANGED <<item, pruned>>

MigrateHeld(s, start) ==
  /\ source[s].state = "migration_needs_review"
  /\ ~RefuseRewind(s, start)
  /\ \E t \in Pos :
       /\ BelowFirstOpen(s, start, t)
       /\ source' = [source EXCEPT ![s].state = "active", ![s].reappeared = FALSE,
                                   ![s].enumerated = start, ![s].settled = t]
  /\ UNCHANGED <<item, pruned>>

MigrateLate(s, start) ==
  /\ source[s].state \in {"active", "retired"}
  /\ source' = [source EXCEPT ![s].state = "active", ![s].reappeared = FALSE,
                              ![s].enumerated = Larger(@, start)]
  /\ UNCHANGED <<item, pruned>>

MigrateTo(s, start) == MigrateHeld(s, start) \/ MigrateLate(s, start)

-----------------------------------------------------------------------------
(* Items *)

\* One page: rows[k] is the state a row arrives in.  A key that has a row
\* keeps it, and the cursor only moves forward.
Admit(s, rows, cursor) ==
  /\ item' = [k \in Keys |->
       IF k \in DOMAIN rows /\ item[k].state = "absent"
         THEN [NoItem EXCEPT !.state = rows[k]]
         ELSE item[k]]
  /\ source' = [source EXCEPT ![s].enumerated = Larger(@, cursor)]
  /\ UNCHANGED pruned

ToClaimed(r) == [state |-> "processing", attempts |-> r.attempts + 1]

Claim(K) ==
  /\ SetItems(InState(K, Waiting), ToClaimed)
  /\ UNCHANGED <<source, pruned>>

\* Mutation: a final row can be given another disposition.
Finish_OverFinal(K, state) ==
  /\ SetItems(InState(K, Open \cup FINAL), LAMBDA r : [r EXCEPT !.state = state])
  /\ UNCHANGED <<source, pruned>>

Finish(K, state) ==
  /\ SetItems(InState(K, Open), LAMBDA r : [r EXCEPT !.state = state])
  /\ UNCHANGED <<source, pruned>>

\* A counted failure: the claim of a processing row has counted it already.
Counted(r) ==
  LET n == IF r.state = "processing" THEN r.attempts ELSE r.attempts + 1
  IN  [state |-> IF n >= MAX_ATTEMPTS THEN "needs_review" ELSE "retry_wait", attempts |-> n]

\* An uncounted one gives the claim back.
Uncounted(r) ==
  [state |-> "retry_wait",
   attempts |-> IF r.state = "processing" THEN Larger(r.attempts - 1, 0) ELSE r.attempts]

RetryLater(K, counted) ==
  /\ IF counted
       THEN SetItems(InState(K, Waiting \cup {"processing"}), Counted)
       ELSE SetItems(InState(K, Waiting \cup {"processing"}), Uncounted)
  /\ UNCHANGED <<source, pruned>>

\* needs_review rows of one note go back to pending.  The note is abstracted
\* to the set of rows that carry it.
Requeue(s, K) ==
  /\ SetItems(InState(K \cap OfSource(s), {"needs_review"}), ToPendingReset)
  /\ UNCHANGED <<source, pruned>>

\* Mutation: every open row but one that waits for review holds the prefix.
Settle_PastReview(s) ==
  /\ \E t \in Pos :
       /\ t <= source[s].enumerated
       /\ \A k \in Blocking(s) : item[k].state # "needs_review" => t < k.pos
       /\ source' = [source EXCEPT ![s].settled = Larger(@, t)]
  /\ UNCHANGED <<item, pruned>>

\* Mutation: not capped by the cursor.
Settle_PastCursor(s) ==
  /\ \E t \in Pos :
       /\ BelowFirstOpen(s, MaxPos, t)
       /\ source' = [source EXCEPT ![s].settled = Larger(@, t)]
  /\ UNCHANGED <<item, pruned>>

Settle(s) ==
  /\ \E t \in Pos :
       /\ BelowFirstOpen(s, source[s].enumerated, t)
       /\ source' = [source EXCEPT ![s].settled = Larger(@, t)]
  /\ UNCHANGED <<item, pruned>>

SetAcked(s, p) ==
  /\ source' = [source EXCEPT ![s].acked = Larger(@, p)]
  /\ UNCHANGED <<item, pruned>>

\* Mutation: interrupted work of every lane runs again.
Interrupted_Retries(k) ==
  IF item[k].attempts <= MAX_ATTEMPTS
    THEN [item[k] EXCEPT !.state = "pending"]
    ELSE ToReview(item[k])

\* Restart accounting of processing rows outside the live dispatches: mail
\* below the limit is read again, anything else may have acted.
Interrupted(k) ==
  IF k.lane = "mail" /\ item[k].attempts < MAX_ATTEMPTS
    THEN [item[k] EXCEPT !.state = "pending"]
    ELSE ToReview(item[k])

Reconcile(live) ==
  /\ item' = [k \in Keys |->
       IF item[k].state = "processing" /\ k \notin live THEN Interrupted(k) ELSE item[k]]
  /\ UNCHANGED <<source, pruned>>

\* `inbox retry` and `inbox dismiss`.
ReviewRetry(k) ==
  /\ item[k].state = "needs_review"
  /\ source[k.src].state # "retired"
  /\ item' = [item EXCEPT ![k] = ToPendingReset(@)]
  /\ UNCHANGED <<source, pruned>>

ReviewDismiss(k) ==
  /\ item[k].state = "needs_review"
  /\ item' = [item EXCEPT ![k].state = "ignored"]
  /\ UNCHANGED <<source, pruned>>

\* Chat rows old enough; mail stays for Message-ID dedupe.
Prunable ==
  {k \in Keys : /\ item[k].state \in FINAL
                /\ k.lane # "mail"
                /\ k.pos <= source[k.src].settled}

Prune(K) ==
  /\ K \subseteq Prunable
  /\ item' = [k \in Keys |-> IF k \in K THEN NoItem ELSE item[k]]
  /\ pruned' = pruned \cup K
  /\ UNCHANGED source

-----------------------------------------------------------------------------
(* What the methods leave to their callers.  Only a new row is created held; *)
(* pages are read after the cursor, while a nudge may name any post; what is *)
(* acked was read as settled.                                                *)

CreateRule(s, state) == source[s].state = "retired" => state = "active"

AdmitRule(s, rows) ==
  /\ source[s].state = "active"
  /\ \A k \in DOMAIN rows :
       k.src = s /\ (k.lane # "attention" => k.pos > source[s].enumerated)

AckRule(s, p) == source[s].state = "active" /\ p <= source[s].settled

SourceStep(s) ==
  \/ \E p \in Pos, state \in {"active", "migration_needs_review"} :
       CreateRule(s, state) /\ CreateSource(s, p, state)
  \/ Retire(s)
  \/ Adopt(s)
  \/ \E p \in Pos : MigrateTo(s, p)
  \/ \E K \in SUBSET OfSource(s) :
       \E rows \in [K -> {"pending", "ignored"}], p \in Pos :
         AdmitRule(s, rows) /\ Admit(s, rows, p)
  \/ source[s].state = "active" /\ \E K \in SUBSET OfSource(s) : Requeue(s, K)
  \/ Settle(s)
  \/ \E p \in Pos : AckRule(s, p) /\ SetAcked(s, p)

ItemStep ==
  \/ \E K \in SUBSET Keys :
       \/ Claim(K)
       \/ \E state \in FINAL \cup {"needs_review"} : Finish(K, state)
       \/ \E counted \in BOOLEAN : RetryLater(K, counted)
       \/ Reconcile(K)
       \/ Prune(K)
  \/ \E k \in Keys : ReviewRetry(k) \/ ReviewDismiss(k)

Next == HoldLegacy \/ ItemStep \/ \E s \in Sources : SourceStep(s)

Spec == Init /\ [][Next]_jvars

-----------------------------------------------------------------------------
(* Properties *)

\* Nothing at or below the settled position is unfinished, whatever the
\* dispatcher, a restart, the operator or a migration did: settled is what
\* the chat intake reports to the server as read.
SettledBelowOpen ==
  \A s \in Sources : \A k \in Blocking(s) : source[s].settled < k.pos

\* The three cursors stay in order: what the server was told is settled, and
\* what is settled has been enumerated, also after an operator moved a held
\* source (update_source, _refuse_rewind).
CursorOrder ==
  \A s \in Sources :
    source[s].acked <= source[s].settled /\ source[s].settled <= source[s].enumerated

\* A row that waits has an attempt left, so no item is retried for ever and
\* none is claimed beyond the limit, through every mix of counted and
\* uncounted retries, restarts and operator retries.
AttemptsBounded ==
  \A k \in Keys :
    /\ item[k].state \in Waiting => item[k].attempts < MAX_ATTEMPTS
    /\ item[k].attempts <= MAX_ATTEMPTS

\* A post that prune() dropped is never admitted a second time: no cursor
\* goes back below it, also when an operator restarts a held source.
PrunedStayOut ==
  \A k \in pruned : k.lane # "attention" => item[k].state = "absent"

\* A disposition is final: a finished row keeps its state for as long as it
\* exists, and prune() drops it only from the settled prefix.
FinalStays ==
  [][\A k \in Keys :
       item[k].state \in FINAL =>
         \/ item'[k].state = item[k].state
         \/ item'[k].state = "absent" /\ k.pos <= source[k.src].settled]_jvars
=============================================================================
