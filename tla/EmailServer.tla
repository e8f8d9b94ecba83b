---------------------------- MODULE EmailServer ----------------------------
(***************************************************************************)
(* Keyed email sends of the server (clawbits/fastapi/email_endpoints.py    *)
(* and the email_deliveries rows of clawbits/db/table_write.py).  A POST   *)
(* under an Idempotency-Key joins or creates the key's record, claims one  *)
(* SMTP attempt, submits, records the outcome and answers with the record: *)
(* four transactions and an SMTP session, between which other requests     *)
(* run, workers die and the attempt's lease ends.  A backend from before   *)
(* keys submits on every POST.                                             *)
(***************************************************************************)
EXTENDS Naturals

CONSTANTS
  Keys,                  \* idempotency keys of one agent
  Requests,              \* bound: POSTs at a time
  DELIVERY_MAX_ATTEMPTS

VARIABLES
  keyed,   \* the backend honours keys
  row,     \* email_deliveries: state and attempt number per key
  lapsed,  \* attempts whose lease has ended
  req,     \* what became of each POST
  sent,    \* history: times SMTP took the key's mail in an attempt
  loose    \* history: times it took it from a POST without a record, capped

svars == <<keyed, row, lapsed, req, sent, loose>>

Final == {"accepted", "failed", "unknown"}
States == {"queued", "attempting", "retry_wait"} \cup Final
NoRow == [state |-> "none", attempts |-> 0]
Many == 2  \* the cap of loose

\* phase: where the handler is; attempt: the number its claim returned;
\* answer: the outcome it has, then what it replies.
NoReq == [phase |-> "none"]
Phases == {"none", "arrived", "claim", "submit", "finish", "refresh", "reply"}
Submitting == {"submit", "finish"}

TypeOK ==
  /\ keyed \in BOOLEAN
  /\ row \in [Keys -> [state : {"none"} \cup States, attempts : Nat]]
  /\ lapsed \subseteq Keys
  /\ sent \in [Keys -> Nat] /\ loose \in [Keys -> 0 .. Many]
  /\ req \in [Requests ->
       {NoReq} \cup [phase : {"arrived", "claim", "refresh"}, key : Keys]
               \cup [phase : {"submit"}, key : Keys, attempt : Nat]
               \cup [phase : {"finish"}, key : Keys, attempt : Nat, answer : Final \cup {"retry_wait"}]
               \cup [phase : {"reply"}, key : Keys, answer : States \cup {"sent", "refused", "error"}]]

Init ==
  /\ keyed \in BOOLEAN
  /\ row = [k \in Keys |-> NoRow] /\ lapsed = {}
  /\ req = [h \in Requests |-> NoReq]
  /\ sent = [k \in Keys |-> 0] /\ loose = [k \in Keys |-> 0]

Reply(h, answer) ==
  req' = [req EXCEPT ![h] = [phase |-> "reply", key |-> req[h].key, answer |-> answer]]
Advance(h, phase) ==
  req' = [req EXCEPT ![h] = [phase |-> phase, key |-> req[h].key]]

\* Mutation: reading a record leaves an attempt open whose lease ended.
Refresh_Never(k) == UNCHANGED <<row, lapsed>>

\* refresh_email_delivery: an attempt whose lease ended reads as unknown.
Refresh(k) ==
  /\ row' = IF row[k].state = "attempting" /\ k \in lapsed
              THEN [row EXCEPT ![k].state = "unknown"] ELSE row
  /\ lapsed' = IF row[k].state = "attempting" THEN lapsed \ {k} ELSE lapsed

-----------------------------------------------------------------------------
Post(h, k) ==
  /\ req[h].phase = "none"
  /\ req' = [req EXCEPT ![h] = [phase |-> "arrived", key |-> k]]
  /\ UNCHANGED <<keyed, row, lapsed, sent, loose>>

\* Refused before there is a record: no right, no operator, no balance.
Refuse(h) ==
  /\ req[h].phase = "arrived"
  /\ Reply(h, "refused")
  /\ UNCHANGED <<keyed, row, lapsed, sent, loose>>

\* create_email_delivery, or the record that is there.
Create(h) ==
  /\ req[h].phase = "arrived" /\ keyed
  /\ LET k == req[h].key IN
     IF row[k].state = "none"
       THEN row' = [row EXCEPT ![k] = [state |-> "queued", attempts |-> 0]] /\ UNCHANGED lapsed
       ELSE Refresh(k)
  /\ Advance(h, "claim")
  /\ UNCHANGED <<keyed, sent, loose>>

\* Mutation: an attempt that lapsed is taken up again.
Claimable_Lapsed(k) ==
  row[k].state \in {"queued", "retry_wait"} \/ (row[k].state = "attempting" /\ k \in lapsed)

\* A retry also waits for its time: until then Leave.
Claimable(k) == row[k].state \in {"queued", "retry_wait"}

\* claim_email_delivery
Claim(h) ==
  /\ req[h].phase = "claim"
  /\ LET k == req[h].key IN
     /\ Claimable(k)
     /\ row' = [row EXCEPT ![k] = [state |-> "attempting", attempts |-> @.attempts + 1]]
     /\ lapsed' = lapsed \ {k}
     /\ req' = [req EXCEPT ![h] = [phase |-> "submit", key |-> k, attempt |-> row[k].attempts + 1]]
  /\ UNCHANGED <<keyed, sent, loose>>

\* The claim finds nothing to send now.
Leave(h) ==
  /\ req[h].phase = "claim" /\ row[req[h].key].state # "queued"
  /\ Advance(h, "refresh")
  /\ UNCHANGED <<keyed, row, lapsed, sent, loose>>

Exhausted(attempt) == attempt >= DELIVERY_MAX_ATTEMPTS

\* Mutation: a submission cut off in the middle is tried again.
OutcomeOf_CutOff(taken, cut) ==
  IF cut THEN "retry_wait" ELSE IF taken THEN "accepted" ELSE "failed"

\* What SMTP's answer, or none, means: nobody knows after a cut.
OutcomeOf(taken, cut) ==
  IF cut THEN "unknown" ELSE IF taken THEN "accepted" ELSE "failed"

\* _submit: SMTP takes the mail or not, and the connection may be cut; or it
\* is refused for now.
Submit(h) ==
  /\ req[h].phase = "submit"
  /\ LET k == req[h].key
         outcome(answer) ==
           req' = [req EXCEPT ![h] =
             [phase |-> "finish", key |-> k, attempt |-> req[h].attempt,
              answer |-> IF answer = "retry_wait" /\ Exhausted(req[h].attempt) THEN "failed" ELSE answer]]
     IN  \/ \E taken, cut \in BOOLEAN :
              /\ outcome(OutcomeOf(taken, cut))
              /\ sent' = IF taken THEN [sent EXCEPT ![k] = @ + 1] ELSE sent
         \/ outcome("retry_wait") /\ UNCHANGED sent
  /\ UNCHANGED <<keyed, row, lapsed, loose>>

\* An error nobody expects, before the mail is submitted: the record stays.
SubmitRaises(h) ==
  /\ req[h].phase = "submit"
  /\ Reply(h, "error")
  /\ UNCHANGED <<keyed, row, lapsed, sent, loose>>

\* finish_email_delivery, also over an unknown that the lease left.
Finish(h) ==
  /\ req[h].phase = "finish"
  /\ LET k == req[h].key IN
     IF row[k].attempts = req[h].attempt
       THEN row' = [row EXCEPT ![k].state = req[h].answer] /\ lapsed' = lapsed \ {k}
       ELSE UNCHANGED <<row, lapsed>>
  /\ Advance(h, "refresh")
  /\ UNCHANGED <<keyed, sent, loose>>

Answer(h) ==
  /\ req[h].phase = "refresh"
  /\ Refresh(req[h].key)
  /\ Reply(h, row'[req[h].key].state)
  /\ UNCHANGED <<keyed, sent, loose>>

\* A backend without keys: 200 once SMTP took the mail, else 500.
PlainSend(h) ==
  /\ req[h].phase = "arrived" /\ ~keyed
  /\ LET k == req[h].key IN
     \E taken, cut \in BOOLEAN :
       /\ Reply(h, IF taken /\ ~cut THEN "sent" ELSE "error")
       /\ loose' = IF taken /\ loose[k] < Many THEN [loose EXCEPT ![k] = @ + 1] ELSE loose
  /\ UNCHANGED <<keyed, row, lapsed, sent>>

\* The request is lost or its worker dies.
Die(h) ==
  /\ req[h].phase \notin {"none", "reply"}
  /\ Reply(h, "error")
  /\ UNCHANGED <<keyed, row, lapsed, sent, loose>>

Gone(h) ==
  /\ req[h].phase = "reply"
  /\ req' = [req EXCEPT ![h] = NoReq]
  /\ UNCHANGED <<keyed, row, lapsed, sent, loose>>

Lapse(k) ==
  /\ row[k].state = "attempting" /\ k \notin lapsed
  /\ lapsed' = lapsed \cup {k}
  /\ UNCHANGED <<keyed, row, req, sent, loose>>

\* GET /email/deliveries/{key}; what it answers is in Found.
Lookup(k) ==
  /\ IF keyed THEN Refresh(k) ELSE UNCHANGED <<row, lapsed>>
  /\ UNCHANGED <<keyed, req, sent, loose>>

Found(k) ==
  IF ~keyed THEN "unsupported"
  ELSE IF row[k].state = "none" THEN "not_found" ELSE row'[k].state

\* The backend is upgraded or rolled back; its rows stay.
Deploy ==
  /\ keyed' = ~keyed
  /\ UNCHANGED <<row, lapsed, req, sent, loose>>

Handle(h) ==
  \/ Refuse(h) \/ Create(h) \/ Claim(h) \/ Leave(h) \/ Submit(h)
  \/ SubmitRaises(h) \/ Finish(h) \/ Answer(h) \/ PlainSend(h) \/ Die(h)

Next ==
  \/ \E h \in Requests : Handle(h) \/ Gone(h) \/ \E k \in Keys : Post(h, k)
  \/ \E k \in Keys : Lapse(k) \/ Lookup(k)
  \/ Deploy

Spec == Init /\ [][Next]_svars

-----------------------------------------------------------------------------
(* Properties *)

\* Under one key SMTP takes the mail at most once, however often the request
\* is repeated, attempts end without an outcome and leases run out
\* (_send_keyed: "at most one SMTP attempt per claim").
SentOnce == \A k \in Keys : sent[k] <= 1

\* Two requests never submit one key's mail at the same time, not even when
\* the first one's lease has ended.
OneAttempt ==
  \A g, h \in Requests :
    req[g].phase \in Submitting /\ req[h].phase \in Submitting /\ req[g].key = req[h].key => g = h

\* The record does not lie: accepted is sent, and what may be tried again or
\* has failed is not.
RecordIsTrue ==
  \A k \in Keys :
    /\ row[k].state = "accepted" => sent[k] = 1
    /\ row[k].state \in {"none", "queued", "retry_wait", "failed"} => sent[k] = 0

\* "A retry_wait record becomes failed after 5 attempts" (AGENT_EMAIL_API).
AttemptsLimited == \A k \in Keys : row[k].attempts <= DELIVERY_MAX_ATTEMPTS
=============================================================================
