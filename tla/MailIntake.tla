----------------------------- MODULE MailIntake -----------------------------
(***************************************************************************)
(* Email intake and the reader of the Hermes mailroom                      *)
(* (extensions/hermes/mailroom.py) over the inbox journal.  The mailbox    *)
(* lives in an epoch (its UIDVALIDITY); when the epoch changes the same    *)
(* mail is there again under new UIDs, and an earlier epoch may come back. *)
(* A source of the journal is one epoch.                                   *)
(*                                                                         *)
(* The intake loop enumerates the epoch page by page, the reader loop      *)
(* takes due mail through the mail server and a language model to a        *)
(* disposition.  Both are tasks of one event loop: they interleave where   *)
(* they await, and keep what they read before.  The operator's command     *)
(* line is another process.                                                *)
(***************************************************************************)
EXTENDS Integers, Sequences, FiniteSets, FiniteSetsExt

CONSTANTS
  Epochs,
  Msgs,          \* Message-IDs; mail may arrive twice under one
  NoId,          \* a mail without a Message-ID, one of Msgs
  MaxPos,        \* bound: UIDs per epoch
  MAX_ATTEMPTS,
  MAX_OPEN,      \* open items of a source at which the scan stops
  PAGE,          \* rows per page
  WORK_BATCH,    \* mail per reader pass
  MaxGone,       \* bound: expunged mail
  MaxResets,     \* bound: changes of the epoch
  MaxRestarts,   \* bound: deaths of the process; it always starts again
  MaxRetries,    \* bound: operator retries
  SlowMigrate    \* whether steps may fall between the look and the write of `inbox migrate`

ASSUME MailAssumption ==
  /\ IsFiniteSet(Epochs)
  /\ {MAX_OPEN, PAGE, WORK_BATCH, MAX_ATTEMPTS} \subseteq Nat \ {0}
  /\ {MaxPos, MaxGone, MaxResets, MaxRestarts, MaxRetries} \subseteq Nat
  /\ NoId \in Msgs /\ Msgs \cap {"none", "epoch_changed", "vanished"} = {}
  /\ SlowMigrate \in BOOLEAN

VARIABLES
  source, item, pruned,  \* the journal
  id,        \* source.id, the order of creation; 0 without a row
  scan,      \* source.scan_through: the bound of an unfinished scan
  msgid,     \* item.msgid as finish() left it
  noted,     \* items in review because no reader was available
  mark,      \* meta: a source was retired for a new epoch
  epoch,     \* the server's epoch
  box,       \* per epoch, the mail behind each UID
  gone,      \* mail that was expunged
  intake,    \* the intake loop: its await and its local variables
  reader,    \* the reader loop: the same
  ready,     \* this process has a reader
  requeued,  \* it has put back what waited for one
  cli,       \* `inbox migrate` between its look and its write
  start,     \* history: where a source started reading, NoBound before
  resets, restarts, retries  \* history, for the bounds

journal == <<source, item, pruned>>
columns == <<id, scan, msgid, noted, mark>>
server  == <<epoch, box, gone>>
process == <<ready, requeued>>
bounds  == <<resets, restarts, retries>>
vars == <<journal, columns, server, intake, reader, process, cli, start, bounds>>

J == INSTANCE InboxJournal WITH Sources <- Epochs, Lanes <- {"mail"}

NoBound == -1
Key(e, u) == [src |-> e, lane |-> "mail", pos |-> u]
Newest(e) == Len(box[e])
Present(e) == {u \in 1 .. Newest(e) : Key(e, u) \notin gone}

\* journal.source(): the newest source that is not retired, if any.
Live == {s \in Epochs : source[s].state \in {"active", "migration_needs_review"}}
Found == {s \in Live : \A t \in Live : id[t] <= id[s]}
OpenCount(s) == Cardinality(J!InState(J!OfSource(s), J!Open))

IdleIntake == [phase |-> "idle"]
IdleReader == [phase |-> "idle"]
NoCommand == [src |-> "none"]

TypeOK ==
  /\ J!TypeOK
  /\ id \in [Epochs -> 0 .. Cardinality(Epochs)]
  /\ scan \in [Epochs -> {NoBound} \cup J!Pos]
  /\ start \in [Epochs -> {NoBound} \cup J!Pos]
  /\ msgid \in [J!Keys -> Msgs \cup {"none"}]
  /\ noted \subseteq J!InState(J!Keys, {"needs_review"})
  /\ {mark, ready, requeued} \subseteq BOOLEAN
  /\ epoch \in Epochs
  /\ \A e \in Epochs : box[e] \in Seq(Msgs) /\ Newest(e) <= MaxPos
  /\ gone \subseteq J!Keys
  /\ intake.phase \in {"idle", "first", "create first", "held", "asked", "page", "mark", "retire", "create", "settle"}
  /\ reader.phase \in {"idle", "operator", "next", "get", "got", "llm", "settle"}
  /\ cli \in {NoCommand} \cup [src : Epochs, from : {NoBound} \cup J!Pos]

Init ==
  /\ J!Init
  /\ id = [e \in Epochs |-> 0] /\ cli = NoCommand
  /\ scan = [e \in Epochs |-> NoBound] /\ start = [e \in Epochs |-> NoBound]
  /\ msgid = [k \in J!Keys |-> "none"]
  /\ noted = {} /\ mark = FALSE
  /\ epoch \in Epochs
  /\ box = [e \in Epochs |-> <<>>] /\ gone = {}
  /\ intake = IdleIntake /\ reader = IdleReader
  /\ ready \in BOOLEAN /\ requeued = FALSE
  /\ resets = 0 /\ restarts = 0 /\ retries = 0

-----------------------------------------------------------------------------
(* The mail server *)

Deliver ==
  /\ Newest(epoch) < MaxPos
  /\ \E m \in Msgs : box' = [box EXCEPT ![epoch] = Append(@, m)]
  /\ UNCHANGED <<journal, columns, epoch, gone, intake, reader, process, cli, start, bounds>>

Expunge ==
  /\ Cardinality(gone) < MaxGone
  /\ \E u \in Present(epoch) : gone' = gone \cup {Key(epoch, u)}
  /\ UNCHANGED <<journal, columns, epoch, box, intake, reader, process, cli, start, bounds>>

\* What is left of the mailbox is numbered again; an epoch that was there
\* before comes back as it was.
Reset ==
  /\ resets < MaxResets
  /\ resets' = resets + 1
  /\ \E e \in Epochs \ {epoch} :
       LET kept(u) == box[epoch][Max({v \in Present(epoch) :
                        Cardinality({w \in Present(epoch) : w <= v}) = u})]
       IN  /\ epoch' = e
           /\ box' = IF box[e] # <<>> THEN box
                     ELSE [box EXCEPT ![e] =
                             [u \in 1 .. Cardinality(Present(epoch)) |-> kept(u)]]
  /\ UNCHANGED <<journal, columns, gone, intake, reader, process, cli, start, restarts, retries>>

-----------------------------------------------------------------------------
(* Intake *)

\* The writes between two awaits of the other loop are not interrupted by it.
IntakeFree == reader.phase # "settle"
ReaderFree == intake.phase \notin {"mark", "retire", "create", "settle"}

\* room and limit of _scan.
Room(s) == Min({PAGE, MAX_OPEN - OpenCount(s)})

\* _email_source, and _scan up to its request.  A full queue asks nothing.
IntakeBegin ==
  /\ intake.phase = "idle" /\ IntakeFree
  /\ IF Found = {} THEN intake' = [phase |-> "first"]
     ELSE \E s \in Found :
       IF source[s].state = "migration_needs_review" THEN intake' = [phase |-> "held", src |-> s]
       ELSE /\ OpenCount(s) < MAX_OPEN
            /\ intake' = [phase |-> "asked", src |-> s, after |-> source[s].enumerated,
                          limit |-> Room(s)]
  /\ UNCHANGED <<journal, columns, server, reader, process, cli, start, bounds>>

\* create_source: a live row is returned as it is.
Create(e, from, state) ==
  \/ /\ J!CreateSource(e, from, state)
     /\ IF source[e].state = "none"
          THEN /\ id' = [id EXCEPT ![e] = 1 + Cardinality({f \in Epochs : id[f] > 0})]
               /\ start' = [start EXCEPT ![e] = from]
          ELSE UNCHANGED <<id, start>>
  \/ e \in Live /\ UNCHANGED <<journal, id, start>>

\* _first_source: its probe is answered.
FirstProbe ==
  /\ intake.phase = "first"
  /\ intake' = [phase |-> "create first", to |-> epoch, newest |-> Newest(epoch)]
  /\ UNCHANGED <<journal, columns, server, reader, process, cli, start, bounds>>

\* Mutation: the start settings also hold after an epoch change.
FirstStart_Always(from, newest, state) == from <= newest

\* The whole epoch after an epoch change, else what the operator's start and
\* migration settings say.
FirstStart(from, newest, state) ==
  from <= newest /\ (mark => from = 0 /\ state = "active")

FirstSource ==
  /\ intake.phase = "create first" /\ IntakeFree
  /\ \E from \in J!Pos, state \in {"active", "migration_needs_review"} :
       FirstStart(from, intake.newest, state) /\ Create(intake.to, from, state)
  /\ intake' = IdleIntake
  /\ UNCHANGED <<scan, msgid, noted, mark, server, reader, process, cli, bounds>>

\* Mutation: a held source waits for the operator.
HeldProbe_Waits ==
  /\ intake.phase = "held" /\ IntakeFree
  /\ intake' = IdleIntake
  /\ UNCHANGED <<journal, columns, server, reader, process, cli, start, bounds>>

\* A held source only looks for a new epoch.
HeldProbe ==
  /\ intake.phase = "held" /\ IntakeFree
  /\ intake' = IF epoch = intake.src THEN IdleIntake
               ELSE [phase |-> "mark", src |-> intake.src, to |-> epoch]
  /\ UNCHANGED <<journal, columns, server, reader, process, cli, start, bounds>>

\* Mutation: the cursor goes to the bound of the scan, a cut page or not.
NextAfter_Through(after, through, page, more) == J!Larger(after, through)

\* next_after_uid of a page.
NextAfter(after, through, page, more) ==
  IF more THEN Max(page) ELSE J!Larger(after, through)

\* list_changes: the server's answer, which the intake has yet to see.
ServePage ==
  /\ intake.phase = "asked"
  /\ LET bound == scan[intake.src]
         through == IF bound = NoBound THEN Newest(epoch) ELSE Min({bound, Newest(epoch)})
         uids == {u \in Present(epoch) : intake.after < u /\ u <= through}
         page == {u \in uids : Cardinality({v \in uids : v <= u}) <= intake.limit}
         more == page # uids
     IN  intake' = [phase |-> "page", src |-> intake.src, epoch |-> epoch, uids |-> page,
                    through |-> IF more THEN through ELSE NoBound,
                    next |-> NextAfter(intake.after, through, page, more)]
  /\ UNCHANGED <<journal, columns, server, reader, process, cli, start, bounds>>

\* _scan: rows and cursor in one transaction, or the epoch is another one.
PageArrives ==
  /\ intake.phase = "page" /\ IntakeFree
  /\ IF intake.epoch = intake.src
       THEN /\ J!Admit(intake.src, [k \in {Key(intake.src, u) : u \in intake.uids} |-> "pending"],
                       intake.next)
            /\ scan' = [scan EXCEPT ![intake.src] = intake.through]
            /\ intake' = [phase |-> "settle", src |-> intake.src]
       ELSE /\ intake' = [phase |-> "mark", src |-> intake.src, to |-> intake.epoch]
            /\ UNCHANGED <<journal, scan>>
  /\ UNCHANGED <<id, msgid, noted, mark, server, reader, process, cli, start, bounds>>

IntakeSettle ==
  /\ intake.phase = "settle"
  /\ J!Settle(intake.src)
  /\ intake' = IdleIntake
  /\ UNCHANGED <<columns, server, reader, process, cli, start, bounds>>

\* Mutation: the mark is not there when the pass fails half way.
MarkEpoch_Late ==
  /\ intake.phase = "mark" /\ IntakeFree
  /\ intake' = [intake EXCEPT !.phase = "retire"]
  /\ UNCHANGED <<journal, columns, server, reader, process, cli, start, bounds>>

\* _new_epoch: three writes, the mark first.
MarkEpoch ==
  /\ intake.phase = "mark" /\ IntakeFree
  /\ mark' = TRUE
  /\ intake' = [intake EXCEPT !.phase = "retire"]
  /\ UNCHANGED <<journal, id, scan, msgid, noted, server, reader, process, cli, start, bounds>>

RetireEpoch ==
  /\ intake.phase = "retire"
  /\ J!Retire(intake.src)
  /\ intake' = [intake EXCEPT !.phase = "create"]
  /\ UNCHANGED <<columns, server, reader, process, cli, start, bounds>>

CreateEpoch ==
  /\ intake.phase = "create"
  /\ Create(intake.to, 0, "active")
  /\ intake' = IdleIntake
  /\ UNCHANGED <<scan, msgid, noted, mark, server, reader, process, cli, bounds>>

\* A request or a write of the pass fails; the next pass starts over.
IntakeFails ==
  /\ intake.phase # "idle"
  /\ intake' = IdleIntake
  /\ UNCHANGED <<journal, columns, server, reader, process, cli, start, bounds>>

-----------------------------------------------------------------------------
(* Reader *)

\* _work_pass up to its batch, the oldest due mail.
WorkBegin ==
  /\ reader.phase = "idle" /\ ReaderFree
  /\ ready => requeued
  /\ \E s \in Found :
       /\ source[s].state = "active"
       /\ \E late \in SUBSET J!InState(J!OfSource(s), {"retry_wait"}) :
            LET due == {k.pos : k \in J!InState(J!OfSource(s), {"pending"}) \cup late}
            IN  /\ due # {}
                /\ reader' = [phase |-> "operator", src |-> s,
                     batch |-> {u \in due : Cardinality({v \in due : v <= u}) <= WORK_BATCH}]
  /\ UNCHANGED <<journal, columns, server, intake, process, cli, start, bounds>>

\* The first pass with a reader puts back what was held for want of one.
RequeueHeld ==
  /\ reader.phase = "idle" /\ ReaderFree /\ ready /\ ~requeued
  /\ \E s \in Found :
       /\ source[s].state = "active"
       /\ J!Requeue(s, noted)
       /\ noted' = noted \ J!OfSource(s)
  /\ requeued' = TRUE
  /\ UNCHANGED <<id, scan, msgid, mark, server, intake, reader, ready, cli, start, bounds>>

\* The operator's identity arrives, or the pass ends without it.
OperatorReply ==
  /\ reader.phase = "operator"
  /\ \/ reader' = [reader EXCEPT !.phase = "next"]
     \/ reader' = IdleReader
  /\ UNCHANGED <<journal, columns, server, intake, process, cli, start, bounds>>

EndPass == [phase |-> "settle", src |-> reader.src]

\* The batch is done, or the agent was snoozed.
PassEnds ==
  /\ reader.phase = "next" /\ ReaderFree
  /\ reader' = EndPass
  /\ UNCHANGED <<journal, columns, server, intake, process, cli, start, bounds>>

ReaderSettle ==
  /\ reader.phase = "settle"
  /\ J!Settle(reader.src)
  /\ reader' = IdleReader
  /\ UNCHANGED <<columns, server, intake, process, cli, start, bounds>>

Current == Key(reader.src, reader.uid)
NextMail == [phase |-> "next", src |-> reader.src, batch |-> reader.batch \ {reader.uid}]

\* _process: the claim, then the request for the mail.
ClaimMail ==
  /\ reader.phase = "next" /\ ReaderFree
  /\ reader.batch # {}
  /\ LET u == Min(reader.batch) IN
     /\ J!Claim({Key(reader.src, u)})
     /\ reader' = [phase |-> "get", src |-> reader.src, batch |-> reader.batch, uid |-> u]
  /\ UNCHANGED <<columns, server, intake, process, cli, start, bounds>>

\* finish() on a row that is not final yet; the Message-ID stays with it.
Dispose(state, m) ==
  /\ J!Finish({Current}, state)
  /\ msgid' = IF item[Current].state \notin J!FINAL /\ m # NoId
                THEN [msgid EXCEPT ![Current] = m] ELSE msgid
  /\ noted' = noted \ {Current}
  /\ UNCHANGED <<id, scan, mark>>

Review(unavailable) ==
  /\ J!Finish({Current}, "needs_review")
  /\ noted' = IF unavailable /\ item[Current].state \notin J!FINAL
                THEN noted \cup {Current} ELSE noted \ {Current}
  /\ UNCHANGED <<id, scan, msgid, mark>>

\* Any failure retries; the journal escalates to review at MAX_ATTEMPTS.
Again(counted) == J!RetryLater({Current}, counted) /\ UNCHANGED columns

\* Mutation: a mail that was only ignored counts as read.
Seen_Never(m) == FALSE

\* seen_message_id: some mail of the mailbox was processed under this id.
Seen(m) == \E k \in J!InState(J!Keys, {"processed"}) : msgid[k] = m

\* Mutation: the mail is asked for by its UID alone.
Answers_AnyEpoch(e) == TRUE

\* Requests name the epoch they mean.
Answers(e) == epoch = e

\* email_get is answered: another epoch, no such mail, or the mail.
ServeMail ==
  /\ reader.phase = "get"
  /\ reader' = [phase |-> "got", src |-> reader.src, batch |-> reader.batch, uid |-> reader.uid,
                answer |-> IF ~Answers(reader.src) THEN "epoch_changed"
                           ELSE IF reader.uid \notin Present(epoch) THEN "vanished"
                           ELSE box[epoch][reader.uid]]
  /\ UNCHANGED <<journal, columns, server, intake, process, cli, start, bounds>>

\* What the policy makes of a mail nobody has read: ignore it, hold it for
\* want of a reader, wait for budget, or have it read.
Decide(m) ==
  \/ Dispose("ignored", m) /\ reader' = NextMail
  \/ ~ready /\ Review(TRUE) /\ reader' = NextMail
  \/ ready /\ Again(FALSE) /\ reader' = EndPass
  \/ /\ ready
     /\ reader' = [phase |-> "llm", src |-> reader.src, batch |-> reader.batch,
                   uid |-> reader.uid, msg |-> m]
     /\ UNCHANGED <<journal, columns>>

\* _read up to the language model.
GetReply ==
  /\ reader.phase = "got" /\ ReaderFree
  /\ LET m == reader.answer IN
     \/ m = "epoch_changed" /\ Review(FALSE) /\ reader' = EndPass
     \/ m = "vanished" /\ Dispose("deleted", NoId) /\ reader' = NextMail
     \/ m \in Msgs /\ m # NoId /\ Seen(m) /\ Dispose("ignored", NoId) /\ reader' = NextMail
     \/ m \in Msgs /\ ~(m # NoId /\ Seen(m)) /\ Decide(m)
  /\ UNCHANGED <<server, intake, process, cli, start, bounds>>

\* The mail is too large, or the request failed.  Where the code gives up
\* differs by error, and an unexpected one retries at any attempt.
GetFails ==
  /\ reader.phase \in {"get", "got"} /\ ReaderFree
  /\ reader' = NextMail
  /\ Review(FALSE) \/ Again(TRUE)
  /\ UNCHANGED <<server, intake, process, cli, start, bounds>>

\* read_mail returns: an artifact, an output nobody can use, or an error.
ReadReply ==
  /\ reader.phase = "llm" /\ ReaderFree
  /\ reader' = NextMail
  /\ \/ Dispose("processed", reader.msg)
     \/ \E unavailable \in BOOLEAN : Review(unavailable)
     \/ Again(TRUE)
  /\ UNCHANGED <<server, intake, process, cli, start, bounds>>

-----------------------------------------------------------------------------
(* Process life, the operator *)

\* Death at any step; the next start accounts for what was being read.
Restart ==
  /\ restarts < MaxRestarts /\ restarts' = restarts + 1
  /\ J!Reconcile({})
  /\ intake' = IdleIntake /\ reader' = IdleReader
  /\ ready' \in BOOLEAN /\ requeued' = FALSE
  /\ UNCHANGED <<columns, server, cli, start, resets, retries>>

OperatorRetry ==
  /\ retries < MaxRetries /\ retries' = retries + 1
  /\ \E k \in J!Keys : J!ReviewRetry(k) /\ noted' = noted \ {k}
  /\ UNCHANGED <<id, scan, msgid, mark, server, intake, reader, process, cli, start, resets, restarts>>

OperatorDismiss ==
  /\ \E k \in J!Keys : J!ReviewDismiss(k) /\ noted' = noted \ {k}
  /\ UNCHANGED <<id, scan, msgid, mark, server, intake, reader, process, cli, start, bounds>>

\* `inbox migrate` looks at a held source and decides; --new-only asks the
\* server, which must still be in its epoch.
Commands ==
  {c \in [src : Epochs, from : {NoBound} \cup J!Pos] :
     /\ source[c.src].state = "migration_needs_review"
     /\ c.from # NoBound => ~J!RefuseRewind(c.src, c.from)}

OperatorLooks ==
  /\ SlowMigrate /\ cli = NoCommand
  /\ cli' \in Commands
  /\ UNCHANGED <<journal, columns, server, intake, reader, process, start, bounds>>

\* Its write, whatever happened to the source since the look.
OperatorMigrates ==
  /\ \E c \in IF SlowMigrate THEN {cli} \ {NoCommand} ELSE Commands :
       IF c.from = NoBound THEN J!Adopt(c.src) /\ UNCHANGED start
       ELSE /\ J!MigrateTo(c.src, c.from)
            /\ start' = IF source'[c.src].enumerated = c.from
                          THEN [start EXCEPT ![c.src] = c.from] ELSE start
  /\ cli' = NoCommand
  /\ UNCHANGED <<columns, server, intake, reader, process, bounds>>

-----------------------------------------------------------------------------
Intake == \/ IntakeBegin \/ FirstProbe \/ FirstSource \/ HeldProbe \/ ServePage \/ PageArrives \/ IntakeSettle
          \/ MarkEpoch \/ RetireEpoch \/ CreateEpoch \/ IntakeFails

Reader == \/ WorkBegin \/ RequeueHeld \/ OperatorReply \/ PassEnds \/ ReaderSettle
          \/ ClaimMail \/ ServeMail \/ GetReply \/ GetFails \/ ReadReply

Next == \/ Deliver \/ Expunge \/ Reset
        \/ Intake \/ Reader
        \/ Restart \/ OperatorRetry \/ OperatorDismiss
        \/ OperatorLooks \/ OperatorMigrates

Spec == Init /\ [][Next]_vars

\* The loops run, and requests fail but not for ever.  The reader's writes
\* disable the intake for a moment, hence strong fairness.
Fairness ==
  /\ WF_vars(IntakeSettle) /\ WF_vars(ReaderSettle)
  /\ SF_vars(IntakeBegin) /\ SF_vars(FirstProbe) /\ SF_vars(FirstSource)
  /\ SF_vars(HeldProbe) /\ SF_vars(ServePage) /\ SF_vars(PageArrives)
  /\ SF_vars(MarkEpoch) /\ SF_vars(RetireEpoch) /\ SF_vars(CreateEpoch)

FairSpec == Spec /\ Fairness

-----------------------------------------------------------------------------
(* Properties *)

\* A mail the cursor has passed since its source started has a row, or was
\* expunged before it was read: through cut pages, a scan continued over
\* several passes, epochs that go and come back, and deaths (_scan).
NoMailSkipped ==
  \A e \in Epochs : \A u \in 1 .. Newest(e) :
    source[e].state # "none" /\ start[e] < u /\ u <= source[e].enumerated =>
      item[Key(e, u)].state # "absent" \/ Key(e, u) \in gone

\* The page size keeps the queue within its limit.
QueueBounded == \A e \in Epochs : OpenCount(e) <= MAX_OPEN

\* A mail that was read is the mail behind its row: no artifact or reply is
\* made of the mail another epoch keeps under the same UID (email_get names
\* the epoch).
ArtifactOfItsMail ==
  \A k \in J!InState(J!Keys, {"processed"}) :
    msgid[k] # "none" => msgid[k] = box[k.src][k.pos]

\* Rows keep their types, the queue its limit, and every artifact is its mail's.
ArtifactInv == TypeOK /\ QueueBounded /\ ArtifactOfItsMail

\* One artifact and at most one reply per Message-ID, also for mail delivered
\* twice or numbered again by a new epoch while it was read.
ReadOncePerId ==
  \A j, k \in J!InState(J!Keys, {"processed"}) :
    msgid[j] = msgid[k] /\ msgid[j] # "none" => j = k

\* After the first epoch every mailbox is read from its start, also when the
\* pass that changed the epoch failed or died between its writes
\* (_new_epoch: "the epoch mark, written first").
NewEpochFromStart ==
  \A e \in Epochs : source[e].state # "none" /\ start[e] > 0 =>
    \A f \in Epochs \ {e} : source[f].state # "none" => start[f] = 0

\* The intake follows the mailbox into its epoch, from any failure, unless
\* its queue is full and it asks nothing.
EpochFollowed ==
  []<>(\E s \in Found : s = epoch \/ OpenCount(s) >= MAX_OPEN)

\* The mailroom uses the journal as InboxJournal allows.
JournalSpec == J!Spec
=============================================================================
