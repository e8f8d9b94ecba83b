------------------------ MODULE EmailOutbox_proofs ------------------------
(***************************************************************************)
(* First the server alone, as EmailServer has it: for every set of mails   *)
(* and requests, whatever dies, lapses and is deployed, SMTP takes the     *)
(* mail of one key at most once, one handler submits at a time, and the    *)
(* record does not lie.  Then the outbox over it: it only ever asks the    *)
(* server what a client may, so the same holds of plugin and server        *)
(* together; and the two implement EmailSends.                             *)
(***************************************************************************)
EXTENDS EmailOutbox, TLAPS

-----------------------------------------------------------------------------
(* The server alone, whatever its clients ask *)

Busy(h) == req[h].phase \in S!Submitting

\* A handler that submits is the one of the row's last attempt, which nobody
\* can claim again, and it knows whether the mail is out.
BusyOwnsAttempt ==
  \A h \in Requests : Busy(h) =>
    /\ row[req[h].key].state \in {"attempting", "unknown"}
    /\ row[req[h].key].attempts = req[h].attempt
    /\ req[h].phase = "submit" => sent[req[h].key] = 0
    /\ req[h].phase = "finish" =>
         /\ req[h].answer \in {"retry_wait", "failed"} => sent[req[h].key] = 0
         /\ req[h].answer = "accepted" => sent[req[h].key] = 1

\* Past its creation the record is there.
Recorded ==
  \A h \in Requests : req[h].phase \in {"claim", "submit", "finish", "refresh"} =>
    row[req[h].key].state # "none"

ServerInv == S!TypeOK /\ Recorded /\ S!SentOnce /\ S!OneAttempt /\ S!RecordIsTrue /\ BusyOwnsAttempt

LEMMA ServerReqTyped ==
  ASSUME S!TypeOK, NEW h \in Requests
  PROVE  /\ req[h].phase # "none" => req[h].key \in Keys
         /\ req[h].phase = "submit" => req[h].attempt \in Nat
         /\ req[h].phase = "finish" =>
              req[h].attempt \in Nat /\ req[h].answer \in S!Final \cup {"retry_wait"}
         /\ req[h].phase \in S!Phases
  BY DEF S!TypeOK, S!NoReq, S!Phases

\* The initial states are typed and nothing is out.
LEMMA InitServer == S!Init => ServerInv
<1> SUFFICES ASSUME S!Init PROVE ServerInv
  OBVIOUS
<1>1. S!TypeOK
  BY DEF S!Init, S!TypeOK, S!NoReq, S!NoRow, S!Many
<1>2. Recorded /\ S!SentOnce /\ S!OneAttempt /\ S!RecordIsTrue /\ BusyOwnsAttempt
  BY DEF S!Init, Recorded, S!SentOnce, S!OneAttempt, S!RecordIsTrue, BusyOwnsAttempt, Busy,
     S!Submitting, S!NoReq, S!NoRow
<1>. QED BY <1>1, <1>2 DEF ServerInv

-----------------------------------------------------------------------------
(* Types of the server *)

LEMMA RefreshTyped ==
  ASSUME S!TypeOK, NEW k \in Keys, S!Refresh(k)
  PROVE  row' \in [Keys -> [state : {"none"} \cup S!States, attempts : Nat]] /\ lapsed' \subseteq Keys
  BY DEF S!TypeOK, S!Refresh, S!States, S!Final

LEMMA ServerTypeStep == S!TypeOK /\ Recorded /\ [S!Next]_S!svars => S!TypeOK'
<1> SUFFICES ASSUME S!TypeOK, Recorded, [S!Next]_S!svars PROVE S!TypeOK'
  OBVIOUS
<1> USE ServerReqTyped
<1>1. ASSUME NEW h \in Requests, NEW k \in Keys, S!Post(h, k) PROVE S!TypeOK'
  BY <1>1 DEF S!Post, S!TypeOK
<1>2. ASSUME NEW h \in Requests, S!Refuse(h) PROVE S!TypeOK'
  BY <1>2 DEF S!Refuse, S!Reply, S!TypeOK
<1>3. ASSUME NEW h \in Requests, S!Create(h) PROVE S!TypeOK'
  <2>1. req[h].key \in Keys
    BY <1>3 DEF S!Create
  <2>2. row' \in [Keys -> [state : {"none"} \cup S!States, attempts : Nat]] /\ lapsed' \subseteq Keys
    <3>1. CASE row[req[h].key].state = "none"
      BY <1>3, <2>1, <3>1 DEF S!Create, S!TypeOK, S!States
    <3>2. CASE row[req[h].key].state # "none"
      BY <1>3, <2>1, <3>2, RefreshTyped DEF S!Create
    <3>. QED BY <3>1, <3>2
  <2>. QED BY <1>3, <2>1, <2>2 DEF S!Create, S!Advance, S!TypeOK
<1>4. ASSUME NEW h \in Requests, S!Claim(h) PROVE S!TypeOK'
  <2>1. req[h].key \in Keys
    BY <1>4 DEF S!Claim
  <2>2. row[req[h].key].attempts \in Nat
    BY <2>1 DEF S!TypeOK
  <2>. QED BY <1>4, <2>1, <2>2 DEF S!Claim, S!TypeOK, S!States
<1>5. ASSUME NEW h \in Requests, S!Leave(h) PROVE S!TypeOK'
  BY <1>5 DEF S!Leave, S!Advance, S!TypeOK
<1>6. ASSUME NEW h \in Requests, S!Submit(h) PROVE S!TypeOK'
  <2>1. req[h].key \in Keys /\ req[h].attempt \in Nat
    BY <1>6 DEF S!Submit
  <2>2. sent' \in [Keys -> Nat]
    BY <1>6, <2>1 DEF S!Submit, S!TypeOK
  <2>3. PICK answer \in S!Final \cup {"retry_wait"} :
          req' = [req EXCEPT ![h] = [phase |-> "finish", key |-> req[h].key,
                                     attempt |-> req[h].attempt, answer |-> answer]]
    BY <1>6 DEF S!Submit, S!OutcomeOf, S!Final
  <2>. QED BY <1>6, <2>1, <2>2, <2>3 DEF S!Submit, S!TypeOK
<1>7. ASSUME NEW h \in Requests, S!SubmitRaises(h) PROVE S!TypeOK'
  BY <1>7 DEF S!SubmitRaises, S!Reply, S!TypeOK
<1>8. ASSUME NEW h \in Requests, S!Finish(h) PROVE S!TypeOK'
  <2>1. req[h].key \in Keys /\ req[h].answer \in S!Final \cup {"retry_wait"}
    BY <1>8 DEF S!Finish
  <2>. QED BY <1>8, <2>1 DEF S!Finish, S!Advance, S!TypeOK, S!States
<1>9. ASSUME NEW h \in Requests, S!Answer(h) PROVE S!TypeOK'
  <2>1. req[h].key \in Keys
    BY <1>9 DEF S!Answer
  <2>2. row' \in [Keys -> [state : {"none"} \cup S!States, attempts : Nat]] /\ lapsed' \subseteq Keys
    BY <1>9, <2>1, RefreshTyped DEF S!Answer
  <2>3. row'[req[h].key].state \in S!States
    BY <1>9, <2>1, <2>2 DEF S!Answer, S!Refresh, Recorded, S!TypeOK, S!States, S!Final
  <2>. QED BY <1>9, <2>1, <2>2, <2>3 DEF S!Answer, S!Reply, S!TypeOK
<1>10. ASSUME NEW h \in Requests, S!PlainSend(h) PROVE S!TypeOK'
  <2>1. req[h].key \in Keys
    BY <1>10 DEF S!PlainSend
  <2>2. loose' \in [Keys -> 0 .. S!Many]
    BY <1>10, <2>1 DEF S!PlainSend, S!TypeOK, S!Many
  <2>. QED BY <1>10, <2>1, <2>2 DEF S!PlainSend, S!Reply, S!TypeOK
<1>11. ASSUME NEW h \in Requests, S!Die(h) PROVE S!TypeOK'
  BY <1>11 DEF S!Die, S!Reply, S!TypeOK
<1>12. ASSUME NEW h \in Requests, S!Gone(h) PROVE S!TypeOK'
  BY <1>12 DEF S!Gone, S!TypeOK
<1>13. ASSUME NEW k \in Keys, S!Lapse(k) PROVE S!TypeOK'
  BY <1>13 DEF S!Lapse, S!TypeOK
<1>14. ASSUME NEW k \in Keys, S!Lookup(k) PROVE S!TypeOK'
  BY <1>14, RefreshTyped DEF S!Lookup, S!TypeOK
<1>15. CASE S!Deploy
  BY <1>15 DEF S!Deploy, S!TypeOK
<1>16. CASE UNCHANGED S!svars
  BY <1>16 DEF S!svars, S!TypeOK
<1>. QED
  BY <1>1, <1>2, <1>3, <1>4, <1>5, <1>6, <1>7, <1>8, <1>9, <1>10, <1>11, <1>12, <1>13, <1>14,
     <1>15, <1>16 DEF S!Next, S!Handle

-----------------------------------------------------------------------------
(* The record and what is out *)

\* A step that starts no attempt and ends none keeps the invariant: rows
\* appear, lapse to unknown or stay, and nothing goes out under a key.
LEMMA MildStep ==
  ASSUME ServerInv, S!TypeOK', sent' = sent,
         \A h \in Requests : Busy(h)' => req'[h] = req[h],
         \A h \in Requests : req'[h].phase \in {"claim", "refresh"} =>
           req'[h].key \in Keys /\ row'[req'[h].key].state # "none",
         \A k \in Keys :
           \/ row'[k] = row[k]
           \/ row[k].state = "none" /\ row'[k].state = "queued"
           \/ /\ row[k].state = "attempting" /\ row'[k].state = "unknown"
              /\ row'[k].attempts = row[k].attempts
  PROVE  ServerInv'
<1>1. \A h \in Requests : Busy(h)' => Busy(h) /\ req[h].key \in Keys /\ req'[h] = req[h]
  BY ServerReqTyped DEF Busy, ServerInv, S!Submitting
<1>2. BusyOwnsAttempt'
  <2> SUFFICES ASSUME NEW h \in Requests, Busy(h)'
      PROVE  /\ row'[req[h].key].state \in {"attempting", "unknown"}
             /\ row'[req[h].key].attempts = row[req[h].key].attempts
    BY <1>1 DEF BusyOwnsAttempt, ServerInv
  <2>. QED BY <1>1 DEF BusyOwnsAttempt, ServerInv
<1>3. Recorded'
  <2> SUFFICES ASSUME NEW h \in Requests, Busy(h)' PROVE row'[req'[h].key].state # "none"
    BY DEF Recorded, Busy, S!Submitting
  <2>. QED BY <1>2 DEF BusyOwnsAttempt
<1>4. S!RecordIsTrue' /\ S!SentOnce'
  BY DEF ServerInv, S!RecordIsTrue, S!SentOnce
<1>5. S!OneAttempt'
  BY <1>1 DEF ServerInv, S!OneAttempt, Busy
<1>. QED BY <1>2, <1>3, <1>4, <1>5 DEF ServerInv

LEMMA RefreshIsMild ==
  ASSUME S!TypeOK, NEW k \in Keys, S!Refresh(k), NEW j \in Keys
  PROVE  \/ row'[j] = row[j]
         \/ /\ row[j].state = "attempting" /\ row'[j].state = "unknown"
            /\ row'[j].attempts = row[j].attempts
  BY DEF S!TypeOK, S!Refresh

LEMMA CreateStep ==
  ASSUME ServerInv, S!TypeOK', NEW h \in Requests, S!Create(h)
  PROVE  ServerInv'
<1>1. S!TypeOK /\ req[h].key \in Keys
  BY ServerReqTyped DEF S!Create, ServerInv
<1>2. \A k \in Keys :
        \/ row'[k] = row[k]
        \/ row[k].state = "none" /\ row'[k].state = "queued"
        \/ /\ row[k].state = "attempting" /\ row'[k].state = "unknown"
           /\ row'[k].attempts = row[k].attempts
  <2>1. CASE row[req[h].key].state = "none"
    BY <1>1, <2>1 DEF S!Create, S!TypeOK
  <2>2. CASE row[req[h].key].state # "none"
    BY <1>1, <2>2, RefreshIsMild DEF S!Create
  <2>. QED BY <2>1, <2>2
<1>3. row'[req[h].key].state # "none"
  <2>1. CASE row[req[h].key].state = "none"
    BY <1>1, <2>1 DEF S!Create, S!TypeOK
  <2>2. CASE row[req[h].key].state # "none"
    BY <1>1, <1>2, <2>2
  <2>. QED BY <2>1, <2>2
<1>4. /\ \A g \in Requests : g # h => req'[g] = req[g]
      /\ req'[h] = [phase |-> "claim", key |-> req[h].key]
  BY <1>1 DEF S!Create, S!Advance, S!TypeOK
<1>5. \A g \in Requests : req[g].phase \in {"claim", "refresh"} =>
        req[g].key \in Keys /\ row'[req[g].key].state # "none"
  BY <1>1, <1>2, ServerReqTyped DEF ServerInv, Recorded
<1>6. \A g \in Requests : req'[g].phase \in {"claim", "refresh"} =>
        req'[g].key \in Keys /\ row'[req'[g].key].state # "none"
  BY <1>1, <1>3, <1>4, <1>5
<1>7. \A g \in Requests : Busy(g)' => req'[g] = req[g]
  BY <1>4 DEF Busy, S!Submitting
<1>. QED BY <1>2, <1>6, <1>7, MildStep DEF S!Create

\* A claim finds no other handler at its attempt: the row would be attempting
\* or unknown, and neither can be claimed.
LEMMA ClaimStep ==
  ASSUME ServerInv, S!TypeOK', NEW h \in Requests, S!Claim(h)
  PROVE  ServerInv'
<1> DEFINE k == req[h].key
<1>1. S!TypeOK /\ k \in Keys /\ row[k].attempts \in Nat /\ row[k].state \in {"queued", "retry_wait"}
  BY ServerReqTyped DEF S!Claim, S!Claimable, ServerInv, S!TypeOK
<1>2. /\ row'[k].state = "attempting" /\ row'[k].attempts = row[k].attempts + 1
      /\ \A j \in Keys : j # k => row'[j] = row[j]
      /\ req'[h] = [phase |-> "submit", key |-> k, attempt |-> row[k].attempts + 1]
      /\ \A g \in Requests : g # h => req'[g] = req[g]
      /\ sent' = sent /\ sent[k] = 0
  BY <1>1 DEF S!Claim, S!TypeOK, ServerInv, S!RecordIsTrue
<1> HIDE DEF k
<1>3. \A g \in Requests : Busy(g) => req[g].key # k /\ req[g].key \in Keys
  BY <1>1, ServerReqTyped DEF ServerInv, BusyOwnsAttempt, Busy, S!Submitting
<1>4. BusyOwnsAttempt'
  <2> SUFFICES ASSUME NEW g \in Requests, Busy(g)'
      PROVE  /\ row'[req'[g].key].state \in {"attempting", "unknown"}
             /\ row'[req'[g].key].attempts = req'[g].attempt
             /\ req'[g].phase = "submit" => sent'[req'[g].key] = 0
             /\ req'[g].phase = "finish" =>
                  /\ req'[g].answer \in {"retry_wait", "failed"} => sent'[req'[g].key] = 0
                  /\ req'[g].answer = "accepted" => sent'[req'[g].key] = 1
    BY DEF BusyOwnsAttempt
  <2>1. CASE g = h
    BY <1>2, <2>1
  <2>2. CASE g # h
    BY <1>2, <1>3, <2>2 DEF ServerInv, BusyOwnsAttempt, Busy
  <2>. QED BY <2>1, <2>2
<1>5. S!OneAttempt'
  BY <1>2, <1>3 DEF ServerInv, S!OneAttempt, Busy
<1>6. S!RecordIsTrue' /\ S!SentOnce'
  BY <1>2 DEF ServerInv, S!RecordIsTrue, S!SentOnce
<1>7. Recorded'
  BY <1>1, <1>2, ServerReqTyped DEF ServerInv, Recorded
<1>. QED BY <1>4, <1>5, <1>6, <1>7 DEF ServerInv

\* What the submission answers agrees with what it sent.
LEMMA SubmitStep ==
  ASSUME ServerInv, S!TypeOK', NEW h \in Requests, S!Submit(h)
  PROVE  ServerInv'
<1> DEFINE k == req[h].key
<1>1. S!TypeOK /\ k \in Keys /\ sent[k] = 0 /\ Busy(h)
  BY ServerReqTyped DEF S!Submit, ServerInv, BusyOwnsAttempt, Busy, S!Submitting
<1>2. PICK answer :
        /\ req' = [req EXCEPT ![h] = [phase |-> "finish", key |-> k,
                                      attempt |-> req[h].attempt, answer |-> answer]]
        /\ \/ sent' = sent /\ answer # "accepted"
           \/ sent' = [sent EXCEPT ![k] = @ + 1] /\ answer \in {"accepted", "unknown"}
  BY DEF S!Submit, S!OutcomeOf
<1>3. /\ req'[h] = [phase |-> "finish", key |-> k, attempt |-> req[h].attempt, answer |-> answer]
      /\ \A g \in Requests : g # h => req'[g] = req[g]
      /\ \A j \in Keys : j # k => sent'[j] = sent[j]
      /\ \/ sent'[k] = 0 /\ answer # "accepted"
         \/ sent'[k] = 1 /\ answer \in {"accepted", "unknown"}
      /\ row' = row
  BY <1>1, <1>2 DEF S!Submit, S!TypeOK
<1>4. /\ row[k].state \in {"attempting", "unknown"} /\ row[k].attempts = req[h].attempt
      /\ \A g \in Requests : Busy(g) /\ g # h => req[g].key # k /\ req[g].key \in Keys
  BY <1>1, ServerReqTyped DEF ServerInv, BusyOwnsAttempt, S!OneAttempt, Busy, S!Submitting
<1> HIDE DEF k
<1>5. BusyOwnsAttempt'
  <2> SUFFICES ASSUME NEW g \in Requests, Busy(g)'
      PROVE  /\ row'[req'[g].key].state \in {"attempting", "unknown"}
             /\ row'[req'[g].key].attempts = req'[g].attempt
             /\ req'[g].phase = "submit" => sent'[req'[g].key] = 0
             /\ req'[g].phase = "finish" =>
                  /\ req'[g].answer \in {"retry_wait", "failed"} => sent'[req'[g].key] = 0
                  /\ req'[g].answer = "accepted" => sent'[req'[g].key] = 1
    BY DEF BusyOwnsAttempt
  <2>1. CASE g = h
    BY <1>3, <1>4, <2>1
  <2>2. CASE g # h
    BY <1>3, <1>4, <2>2 DEF ServerInv, BusyOwnsAttempt, Busy
  <2>. QED BY <2>1, <2>2
<1>6. S!OneAttempt'
  BY <1>3, <1>4 DEF ServerInv, S!OneAttempt, Busy
<1>7. S!RecordIsTrue' /\ S!SentOnce'
  BY <1>3, <1>4 DEF ServerInv, S!RecordIsTrue, S!SentOnce
<1>8. Recorded'
  BY <1>3, <1>4 DEF ServerInv, Recorded
<1>. QED BY <1>5, <1>6, <1>7, <1>8 DEF ServerInv

\* The outcome is recorded on the row of its attempt, which no other handler
\* has at that time.
LEMMA FinishStep ==
  ASSUME ServerInv, S!TypeOK', NEW h \in Requests, S!Finish(h)
  PROVE  ServerInv'
<1> DEFINE k == req[h].key
<1>1. /\ S!TypeOK /\ k \in Keys /\ Busy(h) /\ req[h].answer \in S!Final \cup {"retry_wait"}
      /\ row[k].attempts = req[h].attempt
  BY ServerReqTyped DEF S!Finish, ServerInv, BusyOwnsAttempt, Busy, S!Submitting
<1>2. /\ row'[k].state = req[h].answer
      /\ \A j \in Keys : j # k => row'[j] = row[j]
      /\ req'[h] = [phase |-> "refresh", key |-> k]
      /\ \A g \in Requests : g # h => req'[g] = req[g]
      /\ sent' = sent
      /\ req[h].answer \in {"retry_wait", "failed"} => sent[k] = 0
      /\ req[h].answer = "accepted" => sent[k] = 1
  BY <1>1 DEF S!Finish, S!Advance, S!TypeOK, ServerInv, BusyOwnsAttempt
<1>3. \A g \in Requests : Busy(g) /\ g # h => req[g].key # k /\ req[g].key \in Keys
  BY <1>1, ServerReqTyped DEF ServerInv, S!OneAttempt, Busy, S!Submitting
<1> HIDE DEF k
<1>4. \A g \in Requests : Busy(g)' => g # h /\ Busy(g)
  BY <1>2 DEF Busy, S!Submitting
<1>5. BusyOwnsAttempt'
  BY <1>2, <1>3, <1>4 DEF ServerInv, BusyOwnsAttempt
<1>6. S!OneAttempt'
  BY <1>2, <1>4 DEF ServerInv, S!OneAttempt, Busy
<1>7. S!RecordIsTrue' /\ S!SentOnce'
  BY <1>1, <1>2 DEF ServerInv, S!RecordIsTrue, S!SentOnce, S!Final
<1>8. Recorded'
  BY <1>1, <1>2, ServerReqTyped DEF ServerInv, Recorded, S!Final
<1>. QED BY <1>5, <1>6, <1>7, <1>8 DEF ServerInv

\* A handler that replies, leaves or goes, and a row that at most lapses.
LEMMA QuietStep ==
  ASSUME ServerInv, S!TypeOK', NEW h \in Requests, sent' = sent,
         \A g \in Requests : g # h => req'[g] = req[g],
         ~Busy(h)',
         req'[h].phase \in {"claim", "refresh"} =>
           req'[h].key \in Keys /\ row[req'[h].key].state # "none",
         \A k \in Keys :
           \/ row'[k] = row[k]
           \/ /\ row[k].state = "attempting" /\ row'[k].state = "unknown"
              /\ row'[k].attempts = row[k].attempts
  PROVE  ServerInv'
<1>1. \A g \in Requests : Busy(g)' => req'[g] = req[g]
  OBVIOUS
<1>2. \A g \in Requests : req[g].phase \in {"claim", "refresh"} =>
        req[g].key \in Keys /\ row[req[g].key].state # "none"
  BY ServerReqTyped DEF ServerInv, Recorded
<1>3. \A g \in Requests : req'[g].phase \in {"claim", "refresh"} =>
        req'[g].key \in Keys /\ row'[req'[g].key].state # "none"
  BY <1>2
<1>. QED BY <1>1, <1>3, MildStep

\* Every step keeps the invariant.
LEMMA StepServer == ServerInv /\ [S!Next]_S!svars => ServerInv'
<1> SUFFICES ASSUME ServerInv, [S!Next]_S!svars PROVE ServerInv'
  OBVIOUS
<1>1. S!TypeOK /\ S!TypeOK'
  BY ServerTypeStep DEF ServerInv
<1>2. ASSUME NEW h \in Requests, NEW k \in Keys, S!Post(h, k) PROVE ServerInv'
  <2>1. /\ req'[h].phase = "arrived" /\ \A g \in Requests : g # h => req'[g] = req[g]
        /\ row' = row /\ sent' = sent
    BY <1>1, <1>2 DEF S!Post, S!TypeOK
  <2>. QED BY <1>1, <2>1, QuietStep DEF Busy, S!Submitting
<1>3. ASSUME NEW h \in Requests, S!Refuse(h) \/ S!SubmitRaises(h) \/ S!Die(h) PROVE ServerInv'
  <2>1. /\ req'[h].phase = "reply" /\ \A g \in Requests : g # h => req'[g] = req[g]
        /\ row' = row /\ sent' = sent
    BY <1>1, <1>3 DEF S!Refuse, S!SubmitRaises, S!Die, S!Reply, S!TypeOK
  <2>. QED BY <1>1, <2>1, QuietStep DEF Busy, S!Submitting
<1>4. ASSUME NEW h \in Requests, S!PlainSend(h) PROVE ServerInv'
  <2>1. /\ req'[h].phase = "reply" /\ \A g \in Requests : g # h => req'[g] = req[g]
        /\ row' = row /\ sent' = sent
    BY <1>1, <1>4 DEF S!PlainSend, S!Reply, S!TypeOK
  <2>. QED BY <1>1, <2>1, QuietStep DEF Busy, S!Submitting
<1>5. ASSUME NEW h \in Requests, S!Leave(h) PROVE ServerInv'
  <2>1. req[h].key \in Keys /\ row[req[h].key].state # "none"
    BY <1>1, <1>5, ServerReqTyped DEF S!Leave, ServerInv, Recorded
  <2>2. /\ req'[h] = [phase |-> "refresh", key |-> req[h].key]
        /\ \A g \in Requests : g # h => req'[g] = req[g]
        /\ row' = row /\ sent' = sent
    BY <1>1, <1>5 DEF S!Leave, S!Advance, S!TypeOK
  <2>. QED BY <1>1, <2>1, <2>2, QuietStep DEF Busy, S!Submitting
<1>6. ASSUME NEW h \in Requests, S!Answer(h) PROVE ServerInv'
  <2>1. req[h].key \in Keys
    BY <1>1, <1>6, ServerReqTyped DEF S!Answer
  <2>2. /\ req'[h].phase = "reply" /\ \A g \in Requests : g # h => req'[g] = req[g]
        /\ sent' = sent
    BY <1>1, <1>6 DEF S!Answer, S!Reply, S!TypeOK
  <2>. QED BY <1>1, <1>6, <2>1, <2>2, RefreshIsMild, QuietStep DEF S!Answer, Busy, S!Submitting
<1>7. ASSUME NEW h \in Requests, S!Gone(h) PROVE ServerInv'
  <2>1. /\ req'[h].phase = "none" /\ \A g \in Requests : g # h => req'[g] = req[g]
        /\ row' = row /\ sent' = sent
    BY <1>1, <1>7 DEF S!Gone, S!NoReq, S!TypeOK
  <2>. QED BY <1>1, <2>1, QuietStep DEF Busy, S!Submitting
<1>8. ASSUME row' = row \/ (\E k \in Keys : S!Refresh(k)), req' = req, sent' = sent PROVE ServerInv'
  <2>1. \A h \in Requests : req[h].phase \in {"claim", "refresh"} =>
          req[h].key \in Keys /\ row[req[h].key].state # "none"
    BY <1>1, ServerReqTyped DEF ServerInv, Recorded
  <2>2. \A k \in Keys :
          \/ row'[k] = row[k]
          \/ /\ row[k].state = "attempting" /\ row'[k].state = "unknown"
             /\ row'[k].attempts = row[k].attempts
    BY <1>1, <1>8, RefreshIsMild
  <2>3. \A h \in Requests : req'[h].phase \in {"claim", "refresh"} =>
          req'[h].key \in Keys /\ row'[req'[h].key].state # "none"
    BY <1>8, <2>1, <2>2
  <2>. QED BY <1>1, <1>8, <2>2, <2>3, MildStep
<1>9. ASSUME NEW k \in Keys, S!Lapse(k) \/ S!Lookup(k) PROVE ServerInv'
  BY <1>8, <1>9 DEF S!Lapse, S!Lookup
<1>10. CASE S!Deploy
  BY <1>8, <1>10 DEF S!Deploy
<1>11. CASE UNCHANGED S!svars
  BY <1>8, <1>11 DEF S!svars
<1>. QED
  BY <1>1, <1>2, <1>3, <1>4, <1>5, <1>6, <1>7, <1>9, <1>10, <1>11,
     CreateStep, ClaimStep, SubmitStep, FinishStep DEF S!Next, S!Handle

\* The invariant of the keyed sends holds at all times: from it follow types,
\* the single submission and the true record of _send_keyed.
THEOREM ServerInvariant == S!Spec => []ServerInv
  BY InitServer, StepServer, PTL DEF S!Spec

\* _send_keyed repeated, interrupted, lapsed: under one key SMTP takes the
\* mail at most once, for any number of keys, requests and attempts.
THEOREM MailGoesOutOnce == S!Spec => []S!SentOnce
  BY ServerInvariant, PTL DEF ServerInv

\* claim_email_delivery and the attempt number of finish_email_delivery keep
\* two handlers from submitting one key's mail at a time, lease or not.
THEOREM OneHandlerSubmits == S!Spec => []S!OneAttempt
  BY ServerInvariant, PTL DEF ServerInv

\* A record that says accepted was sent once, and one that may be tried again
\* or has failed was not sent.
THEOREM TheRecordIsTrue == S!Spec => []S!RecordIsTrue
  BY ServerInvariant, PTL DEF ServerInv

-----------------------------------------------------------------------------
(* The number of attempts *)

\* A record waits for another attempt only while it has one left, and so does an
\* outcome that is not recorded yet.
AttemptsLeft ==
  /\ \A k \in Keys :
       /\ row[k].attempts <= DELIVERY_MAX_ATTEMPTS
       /\ row[k].state \in {"queued", "retry_wait"} => row[k].attempts < DELIVERY_MAX_ATTEMPTS
  /\ \A h \in Requests :
       req[h].phase = "finish" /\ req[h].answer = "retry_wait" =>
         req[h].attempt < DELIVERY_MAX_ATTEMPTS

\* A step that starts no attempt and comes to no outcome.
LEMMA AttemptsKept ==
  ASSUME AttemptsLeft, S!TypeOK,
         \A g \in Requests : req'[g].phase = "finish" => req'[g] = req[g],
         \A k \in Keys :
           \/ row'[k] = row[k]
           \/ row'[k].attempts = row[k].attempts /\ row'[k].state \notin {"queued", "retry_wait"}
  PROVE  AttemptsLeft'
BY DEF AttemptsLeft

LEMMA AttemptsStep ==
  ASSUME DELIVERY_MAX_ATTEMPTS \in Nat \ {0}, S!TypeOK, AttemptsLeft, [S!Next]_S!svars
  PROVE  AttemptsLeft'
<1>1. ASSUME NEW h \in Requests,
             \/ S!Refuse(h) \/ S!Leave(h) \/ S!SubmitRaises(h) \/ S!PlainSend(h) \/ S!Die(h) \/ S!Gone(h)
             \/ \E k \in Keys : S!Post(h, k)
      PROVE  AttemptsLeft'
  <2>1. /\ row' = row /\ req'[h].phase # "finish"
        /\ \A g \in Requests : g # h => req'[g] = req[g]
    BY <1>1 DEF S!Refuse, S!Leave, S!SubmitRaises, S!PlainSend, S!Die, S!Gone, S!Post, S!Reply,
       S!Advance, S!NoReq, S!TypeOK
  <2>. QED BY <2>1, AttemptsKept
<1>2. ASSUME NEW h \in Requests, S!Create(h) PROVE AttemptsLeft'
  <2> DEFINE k == req[h].key
  <2>1. k \in Keys /\ row \in [Keys -> [state : {"none"} \cup S!States, attempts : Nat]]
    BY <1>2, ServerReqTyped DEF S!Create, S!TypeOK
  <2>2. /\ req'[h].phase = "claim" /\ \A g \in Requests : g # h => req'[g] = req[g]
    BY <1>2 DEF S!Create, S!Advance, S!TypeOK
  <2>3. CASE row[k].state = "none"
    <3>1. row' = [row EXCEPT ![k] = [state |-> "queued", attempts |-> 0]]
      BY <1>2, <2>3 DEF S!Create
    <3> HIDE DEF k
    <3>2. /\ row'[k].attempts = 0 /\ \A j \in Keys : j # k => row'[j] = row[j]
      BY <2>1, <3>1
    <3>. QED BY <2>2, <3>2 DEF AttemptsLeft
  <2>4. CASE row[k].state # "none"
    BY <1>2, <2>1, <2>2, <2>4, RefreshIsMild, AttemptsKept DEF S!Create
  <2>. QED BY <2>3, <2>4
<1>3. ASSUME NEW h \in Requests, S!Claim(h) PROVE AttemptsLeft'
  <2> DEFINE k == req[h].key
  <2>1. /\ k \in Keys /\ row \in [Keys -> [state : {"none"} \cup S!States, attempts : Nat]]
        /\ row[k].state \in {"queued", "retry_wait"}
        /\ row' = [row EXCEPT ![k] = [state |-> "attempting", attempts |-> row[k].attempts + 1]]
        /\ req' = [req EXCEPT ![h] = [phase |-> "submit", key |-> k, attempt |-> row[k].attempts + 1]]
    BY <1>3, ServerReqTyped DEF S!Claim, S!Claimable, S!TypeOK
  <2> HIDE DEF k
  <2>2. /\ row'[k].attempts = row[k].attempts + 1 /\ row'[k].state = "attempting"
        /\ \A j \in Keys : j # k => row'[j] = row[j]
        /\ \A g \in Requests : req'[g].phase = "finish" => req'[g] = req[g]
    BY <2>1 DEF S!TypeOK
  <2>3. row[k].attempts < DELIVERY_MAX_ATTEMPTS /\ row[k].attempts \in Nat
    BY <2>1 DEF AttemptsLeft
  <2>. QED BY <2>2, <2>3 DEF AttemptsLeft
<1>4. ASSUME NEW h \in Requests, S!Submit(h) PROVE AttemptsLeft'
  <2>1. PICK answer :
          /\ req' = [req EXCEPT ![h] = [phase |-> "finish", key |-> req[h].key,
                                        attempt |-> req[h].attempt, answer |-> answer]]
          /\ answer = "retry_wait" => ~S!Exhausted(req[h].attempt)
    BY <1>4 DEF S!Submit, S!OutcomeOf
  <2>2. req[h].attempt \in Nat
    BY <1>4, ServerReqTyped DEF S!Submit
  <2>3. /\ row' = row /\ req'[h].attempt = req[h].attempt
        /\ req'[h].answer = "retry_wait" => req[h].attempt < DELIVERY_MAX_ATTEMPTS
        /\ \A g \in Requests : g # h => req'[g] = req[g]
    BY <1>4, <2>1, <2>2 DEF S!Submit, S!Exhausted, S!TypeOK
  <2>. QED BY <2>3 DEF AttemptsLeft
<1>5. ASSUME NEW h \in Requests, S!Finish(h) PROVE AttemptsLeft'
  <2> DEFINE k == req[h].key
  <2>1. /\ k \in Keys /\ row \in [Keys -> [state : {"none"} \cup S!States, attempts : Nat]]
        /\ req[h].answer \in S!Final \cup {"retry_wait"} /\ req[h].phase = "finish"
    BY <1>5, ServerReqTyped DEF S!Finish, S!TypeOK
  <2>2. /\ req'[h].phase = "refresh" /\ \A g \in Requests : g # h => req'[g] = req[g]
    BY <1>5 DEF S!Finish, S!Advance, S!TypeOK
  <2>3. CASE row[k].attempts = req[h].attempt
    <3>1. row' = [row EXCEPT ![k].state = req[h].answer]
      BY <1>5, <2>3 DEF S!Finish
    <3>2. /\ row'[k].attempts = req[h].attempt /\ row'[k].state = req[h].answer
          /\ \A j \in Keys : j # k => row'[j] = row[j]
      BY <2>1, <2>3, <3>1
    <3>. QED BY <2>1, <2>2, <2>3, <3>2 DEF AttemptsLeft, S!Final
  <2>4. CASE row[k].attempts # req[h].attempt
    BY <1>5, <2>2, <2>4, AttemptsKept DEF S!Finish
  <2>. QED BY <2>3, <2>4
<1>6. ASSUME NEW h \in Requests, S!Answer(h) PROVE AttemptsLeft'
  <2>1. /\ req[h].key \in Keys /\ S!Refresh(req[h].key) /\ req'[h].phase = "reply"
        /\ \A g \in Requests : g # h => req'[g] = req[g]
    BY <1>6, ServerReqTyped DEF S!Answer, S!Reply, S!TypeOK
  <2>. QED BY <2>1, RefreshIsMild, AttemptsKept
<1>7. ASSUME NEW k \in Keys, S!Lapse(k) \/ S!Lookup(k) PROVE AttemptsLeft'
  <2>1. req' = req /\ (row' = row \/ S!Refresh(k))
    BY <1>7 DEF S!Lapse, S!Lookup
  <2>. QED BY <2>1, RefreshIsMild, AttemptsKept
<1>8. CASE S!Deploy \/ UNCHANGED S!svars
  BY <1>8, AttemptsKept DEF S!Deploy, S!svars
<1>. QED BY <1>1, <1>2, <1>3, <1>4, <1>5, <1>6, <1>7, <1>8 DEF S!Next, S!Handle

LEMMA InitServerAttempts ==
  ASSUME DELIVERY_MAX_ATTEMPTS \in Nat \ {0}, S!Init
  PROVE  AttemptsLeft
BY DEF S!Init, AttemptsLeft, S!NoRow, S!NoReq

\* "A retry_wait record becomes failed after 5 attempts": SMTP is tried for a key no
\* more often than the limit says, for every limit.
THEOREM AttemptsAreLimited == S!Spec => []S!AttemptsLimited
<1>1. DELIVERY_MAX_ATTEMPTS \in Nat \ {0}
  BY OutboxAssumption
<1>2. S!Init => AttemptsLeft
  BY <1>1, InitServerAttempts
<1>3. ServerInv /\ AttemptsLeft /\ [S!Next]_S!svars => AttemptsLeft'
  BY <1>1, AttemptsStep DEF ServerInv
<1>4. AttemptsLeft => S!AttemptsLimited
  BY DEF AttemptsLeft, S!AttemptsLimited
<1>. QED BY <1>2, <1>3, <1>4, ServerInvariant, PTL DEF S!Spec

-----------------------------------------------------------------------------
(* The outbox over the server *)

\* The types, and the server's own invariant.
IInv == TypeOK /\ ServerInv

LEMMA KeysTyped ==
  /\ \A k \in Keys : k.mail \in Mails /\ k.version \in 1 .. MaxVersion
  /\ \A m \in Mails : First(m) \in Keys
  BY OutboxAssumption DEF Keys, First

LEMMA InitIInv == Init => IInv
<1> SUFFICES ASSUME Init PROVE IInv
  OBVIOUS
<1>1. ServerInv
  BY InitServer DEF Init
<1>2. S!TypeOK
  BY <1>1 DEF ServerInv
<1>3. TypeOK
  <2>1. 0 \in 0 .. MAX_ATTEMPTS
    BY OutboxAssumption
  <2>2. NoDelivery \in [state : {"none", "local", "posting"} \cup S!States,
                        attempts : 0 .. MAX_ATTEMPTS, resolved : BOOLEAN]
    BY <2>1 DEF NoDelivery
  <2>. QED BY <1>2, <2>2 DEF Init, TypeOK
<1>. QED BY <1>1, <1>3 DEF IInv

LEMMA ThreadTyped ==
  ASSUME TypeOK, NEW t \in Threads
  PROVE  /\ thread[t].phase # "idle" => thread[t].flow \in Flow /\ thread[t].flow.key \in Keys
         /\ thread[t].phase = "post" => thread[t].req \in Requests /\ thread[t].again \in BOOLEAN
         /\ thread[t].phase \in {"lookup", "found"} => thread[t].missing \in Missing
         /\ thread[t].phase = "found" =>
              thread[t].answer \in S!States \cup {"not_found", "unsupported"}
  BY DEF TypeOK, Idle, Flow

-----------------------------------------------------------------------------
(* Every step of the outbox is a step of the server, or none *)

LEMMA PostIsServer ==
  ASSUME NEW t, NEW flow, NEW again, flow.key \in Keys, PostUnder(t, flow, again)
  PROVE  S!Next
  BY DEF PostUnder, S!Next

LEMMA StepIsServer == TypeOK /\ [Next]_vars => S!Next \/ UNCHANGED server
<1> SUFFICES ASSUME TypeOK, [Next]_vars PROVE S!Next \/ UNCHANGED server
  OBVIOUS
<1>1. ASSUME NEW m \in Mails, Intend(m) PROVE UNCHANGED server
  BY <1>1 DEF Intend
<1>2. ASSUME NEW m \in Mails, SendTool(m) PROVE S!Next
  BY <1>2, KeysTyped, PostIsServer DEF SendTool
<1>3. ASSUME NEW k \in Keys, NEW may \in BOOLEAN, AdvanceEmail(k, may)
      PROVE S!Next \/ UNCHANGED server
  BY <1>3, PostIsServer DEF AdvanceEmail
<1>4. ASSUME NEW k \in Keys, Resend(k) \/ Dismiss(k) PROVE UNCHANGED server
  BY <1>4 DEF Resend, Dismiss
<1>5. ASSUME NEW t \in Threads, Thread(t) PROVE S!Next \/ UNCHANGED server
  <2>1. CASE PostAdopted(t)
    BY <2>1, ThreadTyped DEF PostAdopted, Answered, S!Next
  <2>2. CASE PostRefused(t)
    BY <2>2, ThreadTyped DEF PostRefused, Answered, S!Next
  <2>3. CASE PostLost(t)
    BY <2>3, ThreadTyped, PostIsServer DEF PostLost
  <2>4. CASE Look(t)
    BY <2>4, ThreadTyped DEF Look, S!Next
  <2>5. CASE LookAdopted(t) \/ LookUnsupported(t) \/ LookLost(t)
    BY <2>5 DEF LookAdopted, LookUnsupported, LookLost
  <2>6. CASE LookMissing(t)
    BY <2>6, ThreadTyped, PostIsServer DEF LookMissing
  <2>. QED BY <1>5, <2>1, <2>2, <2>3, <2>4, <2>5, <2>6 DEF Thread
<1>6. CASE Restart
  BY <1>6 DEF Restart
<1>7. CASE Deploy
  BY <1>7 DEF Deploy, S!Next
<1>8. CASE ServerStep
  BY <1>8 DEF ServerStep, S!Next
<1>9. CASE UNCHANGED vars
  BY <1>9 DEF vars
<1>. QED BY <1>1, <1>2, <1>3, <1>4, <1>5, <1>6, <1>7, <1>8, <1>9 DEF Next

-----------------------------------------------------------------------------
(* Types *)

DeliveryTyped ==
  delivery \in [Keys -> [state : {"none", "local", "posting"} \cup S!States,
                         attempts : 0 .. MAX_ATTEMPTS, resolved : BOOLEAN]]

ThreadsTyped ==
  thread \in [Threads ->
    {Idle} \cup [phase : {"post"}, flow : Flow, req : Requests, again : BOOLEAN]
           \cup [phase : {"lookup"}, flow : Flow, missing : Missing]
           \cup [phase : {"found"}, flow : Flow, missing : Missing,
                 answer : S!States \cup {"not_found", "unsupported"}]]

LEMMA TypeParts == TypeOK <=> S!TypeOK /\ DeliveryTyped /\ proven \in BOOLEAN /\ ThreadsTyped
  BY DEF TypeOK, DeliveryTyped, ThreadsTyped

LEMMA PutTyped ==
  ASSUME TypeOK, NEW k \in Keys, NEW state \in {"none", "local", "posting"} \cup S!States,
         Put(k, state)
  PROVE  DeliveryTyped'
  BY TypeParts DEF Put, DeliveryTyped

LEMMA AdoptTyped ==
  ASSUME TypeOK, NEW k \in Keys, NEW answer \in S!States \cup {"sent"}, Adopt(k, answer)
  PROVE  DeliveryTyped' /\ proven' \in BOOLEAN
<1>1. Put(k, IF answer = "sent" THEN "accepted" ELSE answer)
  BY DEF Adopt
<1>2. (IF answer = "sent" THEN "accepted" ELSE answer) \in S!States
  BY DEF S!States, S!Final
<1>. QED BY <1>1, <1>2, PutTyped DEF Adopt

LEMMA PostTyped ==
  ASSUME TypeOK, NEW t \in Threads, NEW flow \in Flow, NEW again \in BOOLEAN,
         PostUnder(t, flow, again)
  PROVE  ThreadsTyped'
  BY TypeParts DEF PostUnder, ThreadsTyped

LEMMA AskTyped ==
  ASSUME TypeOK, NEW t \in Threads, NEW flow \in Flow, NEW missing \in Missing,
         Ask(t, flow, missing)
  PROVE  ThreadsTyped'
  BY TypeParts DEF Ask, ThreadsTyped

LEMMA ReleaseTyped ==
  ASSUME TypeOK, NEW t \in Threads, Release(t)
  PROVE  ThreadsTyped'
  BY TypeParts DEF Release, ThreadsTyped, Idle

LEMMA OneMoreTyped ==
  ASSUME NEW n \in 0 .. MAX_ATTEMPTS
  PROVE  OneMore(n) \in 0 .. MAX_ATTEMPTS
  BY OutboxAssumption DEF OneMore

LEMMA AdvanceTyped ==
  ASSUME TypeOK, NEW k \in Keys, NEW may \in BOOLEAN, AdvanceEmail(k, may)
  PROVE  DeliveryTyped' /\ proven' \in BOOLEAN /\ ThreadsTyped'
<1> DEFINE state == delivery[k].state
           attempts == delivery[k].attempts
           flow == [key |-> k, attempts |-> attempts, retry |-> TRUE]
<1>1. /\ "outbox" \in Threads /\ flow \in Flow /\ [flow EXCEPT !.attempts = OneMore(@)] \in Flow
      /\ attempts \in 0 .. MAX_ATTEMPTS /\ OneMore(attempts) \in 0 .. MAX_ATTEMPTS
  <2>1. attempts \in 0 .. MAX_ATTEMPTS
    BY TypeParts DEF DeliveryTyped
  <2>. QED BY <2>1, OneMoreTyped DEF Threads, Flow
<1>2. proven' \in BOOLEAN
  BY TypeParts DEF AdvanceEmail
<1>3. CASE /\ delivery' = [delivery EXCEPT ![k].state = "posting", ![k].attempts = OneMore(@)]
           /\ PostUnder("outbox", [flow EXCEPT !.attempts = OneMore(@)], FALSE)
  <2>1. DeliveryTyped'
    BY <1>1, <1>3, TypeParts DEF DeliveryTyped
  <2>2. ThreadsTyped'
    BY <1>1, <1>3, PostTyped
  <2>. QED BY <1>2, <2>1, <2>2
<1>4. CASE UNCHANGED delivery /\ PostUnder("outbox", flow, FALSE)
  BY <1>1, <1>2, <1>4, PostTyped, TypeParts DEF DeliveryTyped
<1>5. CASE UNCHANGED delivery /\ \E missing \in Missing : Ask("outbox", flow, missing)
  BY <1>1, <1>2, <1>5, AskTyped, TypeParts DEF DeliveryTyped
<1>6. \A b \in BOOLEAN : (IF b THEN "post" ELSE "hold") \in Missing /\ "settle" \in Missing
  BY DEF Missing
<1>. QED BY <1>3, <1>4, <1>5, <1>6 DEF AdvanceEmail

\* Given the server's types, a step keeps the plugin's.
LEMMA TypeStep ==
  ASSUME TypeOK, S!TypeOK', [Next]_vars
  PROVE  DeliveryTyped' /\ proven' \in BOOLEAN /\ ThreadsTyped'
<1> DEFINE Goal == DeliveryTyped' /\ proven' \in BOOLEAN /\ ThreadsTyped'
<1> USE TypeParts
<1>1. ASSUME NEW m \in Mails, Intend(m) PROVE Goal
  BY <1>1, KeysTyped, PutTyped DEF Intend, ThreadsTyped
<1>2. ASSUME NEW m \in Mails, SendTool(m) PROVE Goal
  <2>1. DeliveryTyped'
    BY <1>2, KeysTyped, OutboxAssumption DEF SendTool, DeliveryTyped
  <2>2. [key |-> First(m), attempts |-> 1, retry |-> FALSE] \in Flow /\ m \in Threads
    BY KeysTyped, OutboxAssumption DEF Flow, Threads
  <2>3. ThreadsTyped'
    BY <1>2, <2>2, PostTyped DEF SendTool
  <2>. QED BY <1>2, <2>1, <2>3 DEF SendTool
<1>3. ASSUME NEW k \in Keys, NEW may \in BOOLEAN, AdvanceEmail(k, may) PROVE Goal
  BY <1>3, AdvanceTyped
<1>4. ASSUME NEW k \in Keys, Resend(k) PROVE Goal
  <2>1. [k EXCEPT !.version = @ + 1] \in Keys
    BY <1>4, OutboxAssumption DEF Resend, Keys
  <2> DEFINE Row == [state : {"none", "local", "posting"} \cup S!States,
                     attempts : 0 .. MAX_ATTEMPTS, resolved : BOOLEAN]
             mid == [delivery EXCEPT ![k].resolved = TRUE]
             next == [k EXCEPT !.version = @ + 1]
  <2>2. mid \in [Keys -> Row]
    BY DEF DeliveryTyped
  <2>3. [mid EXCEPT ![next].state = "local"] \in [Keys -> Row]
    BY <2>1, <2>2
  <2>4. delivery' = [mid EXCEPT ![next].state = "local"]
    BY <1>4 DEF Resend
  <2>. QED BY <1>4, <2>3, <2>4 DEF Resend, DeliveryTyped, ThreadsTyped
<1>5. ASSUME NEW k \in Keys, Dismiss(k) PROVE Goal
  BY <1>5 DEF Dismiss, DeliveryTyped, ThreadsTyped
<1>6. ASSUME NEW t \in Threads, PostAdopted(t) PROVE Goal
  BY <1>6, ThreadTyped, AdoptTyped, ReleaseTyped DEF PostAdopted, Answered
<1>7. ASSUME NEW t \in Threads, PostRefused(t) PROVE Goal
  BY <1>7, ThreadTyped, PutTyped, ReleaseTyped DEF PostRefused, Answered, S!States, S!Final
<1>8. ASSUME NEW t \in Threads, PostLost(t) PROVE Goal
  <2>1. thread[t].flow \in Flow /\ "post" \in Missing
    BY <1>8, ThreadTyped DEF PostLost, Missing
  <2>2. DeliveryTyped' /\ proven' \in BOOLEAN
    BY <1>8 DEF PostLost, DeliveryTyped
  <2>3. ThreadsTyped'
    BY <1>8, <2>1, ReleaseTyped, PostTyped, AskTyped DEF PostLost
  <2>. QED BY <2>2, <2>3
<1>9. ASSUME NEW t \in Threads, Look(t) PROVE Goal
  <2>1. thread[t].flow \in Flow /\ thread[t].flow.key \in Keys /\ thread[t].missing \in Missing
    BY <1>9, ThreadTyped DEF Look
  <2>2. S!Found(thread[t].flow.key) \in S!States \cup {"not_found", "unsupported"}
    BY <1>9, <2>1 DEF S!Found, S!Lookup, S!Refresh, S!TypeOK, S!States, S!Final, Look
  <2>. QED BY <1>9, <2>1, <2>2 DEF Look, DeliveryTyped, ThreadsTyped
<1>10. ASSUME NEW t \in Threads, LookAdopted(t) PROVE Goal
  BY <1>10, ThreadTyped, AdoptTyped, ReleaseTyped DEF LookAdopted
<1>11. ASSUME NEW t \in Threads, LookUnsupported(t) PROVE Goal
  BY <1>11, ThreadTyped, PutTyped, ReleaseTyped DEF LookUnsupported, S!States, S!Final
<1>12. ASSUME NEW t \in Threads, LookMissing(t) PROVE Goal
  <2>1. thread[t].flow \in Flow /\ thread[t].flow.key \in Keys
    BY <1>12, ThreadTyped DEF LookMissing
  <2>2. CASE PostUnder(t, thread[t].flow, FALSE) /\ UNCHANGED delivery
    BY <1>12, <2>1, <2>2, PostTyped DEF LookMissing, DeliveryTyped
  <2>3. CASE /\ Put(thread[t].flow.key, IF thread[t].missing = "hold" THEN "local" ELSE "unknown")
             /\ Release(t)
    <3>1. (IF thread[t].missing = "hold" THEN "local" ELSE "unknown")
            \in {"none", "local", "posting"} \cup S!States
      BY DEF S!States, S!Final
    <3>. QED BY <1>12, <2>1, <2>3, <3>1, PutTyped, ReleaseTyped DEF LookMissing
  <2>. QED BY <1>12, <2>2, <2>3 DEF LookMissing
<1>13. ASSUME NEW t \in Threads, LookLost(t) PROVE Goal
  BY <1>13, ReleaseTyped DEF LookLost, DeliveryTyped
<1>14. CASE Restart
  BY <1>14 DEF Restart, DeliveryTyped, ThreadsTyped, Idle
<1>15. CASE Deploy
  BY <1>15 DEF Deploy, DeliveryTyped, ThreadsTyped
<1>16. CASE ServerStep
  BY <1>16 DEF ServerStep, DeliveryTyped, ThreadsTyped
<1>17. CASE UNCHANGED vars
  BY <1>17 DEF vars, DeliveryTyped, ThreadsTyped
<1>. QED
  BY <1>1, <1>2, <1>3, <1>4, <1>5, <1>6, <1>7, <1>8, <1>9, <1>10, <1>11, <1>12, <1>13, <1>14,
     <1>15, <1>16, <1>17 DEF Next, Thread

-----------------------------------------------------------------------------
(* Theorems *)

LEMMA StepIInv == IInv /\ [Next]_vars => IInv'
<1> SUFFICES ASSUME IInv, [Next]_vars PROVE IInv'
  OBVIOUS
<1>1. TypeOK /\ ServerInv
  BY DEF IInv
<1>2. S!Next \/ UNCHANGED server
  BY <1>1, StepIsServer
<1>3. [S!Next]_S!svars
  BY <1>2 DEF server, S!svars
<1>4. ServerInv'
  BY <1>1, <1>3, StepServer
<1>5. S!TypeOK'
  BY <1>4 DEF ServerInv, S!TypeOK, S!TypeOK, S!NoReq, S!NoReq, S!States,
     S!States, S!Final, S!Final, S!Many, S!Many
<1>6. TypeOK'
  BY <1>1, <1>5, TypeStep, TypeParts DEF TypeOK, DeliveryTyped, ThreadsTyped
<1>. QED BY <1>4, <1>6 DEF IInv

\* Types and the server's invariant hold together at all times, for every number
\* of mails, versions, requests, restarts and deployments.
THEOREM OutboxInvariant == Spec => []IInv
  BY InitIInv, StepIInv, PTL DEF Spec

\* The rows, threads and requests of mailroom.py and the server keep their
\* types, whatever is lost, dies or is deployed.
THEOREM OutboxTypes == Spec => []TypeOK
  BY OutboxInvariant, PTL DEF IInv

\* However the outbox, the send tool and the operator repeat, look up and send
\* again: under one key SMTP takes the mail at most once.
THEOREM OutboxSendsOnce == Spec => []ServerSentOnce
<1>1. IInv => ServerSentOnce
  BY DEF IInv, ServerInv, ServerSentOnce
<1>. QED BY <1>1, OutboxInvariant, PTL

\* No two handlers submit one key's mail at a time.
THEOREM OutboxOneAttempt == Spec => []ServerOneAttempt
<1>1. IInv => ServerOneAttempt
  BY DEF IInv, ServerInv, ServerOneAttempt
<1>. QED BY <1>1, OutboxInvariant, PTL

\* The record the outbox adopts is true: accepted is sent, failed is not.
THEOREM OutboxRecordIsTrue == Spec => []ServerRecordIsTrue
<1>1. IInv => ServerRecordIsTrue
  BY DEF IInv, ServerInv, ServerRecordIsTrue
<1>. QED BY <1>1, OutboxInvariant, PTL

\* The server's count of attempts, with the limit OutboxAssumption gives it.
LEMMA InitAttempts == Init => AttemptsLeft
<1> SUFFICES ASSUME Init PROVE AttemptsLeft
  OBVIOUS
<1>1. S!Init
  BY DEF Init
<1>. QED BY <1>1, InitServerAttempts, OutboxAssumption

LEMMA StepAttempts == IInv /\ AttemptsLeft /\ [Next]_vars => AttemptsLeft'
<1> SUFFICES ASSUME IInv, AttemptsLeft, [Next]_vars PROVE AttemptsLeft'
  OBVIOUS
<1>1. TypeOK /\ S!TypeOK
  BY DEF IInv, ServerInv
<1>2. [S!Next]_S!svars
  BY <1>1, StepIsServer DEF server, S!svars
<1>3. DELIVERY_MAX_ATTEMPTS \in Nat \ {0}
  BY OutboxAssumption
<1>. QED BY <1>1, <1>2, <1>3, AttemptsStep

\* One submission at a time and never more than the server's limit, however often the
\* outbox, the tool and the operator repeat a key; and every state keeps its types.
THEOREM OutboxKeys == Spec => []KeyInv
<1>1. IInv /\ AttemptsLeft => KeyInv
  <2> SUFFICES ASSUME IInv, AttemptsLeft PROVE KeyInv
    OBVIOUS
  <2>1. S!AttemptsLimited
    BY DEF AttemptsLeft, S!AttemptsLimited
  <2>2. S!OneAttempt /\ TypeOK
    BY DEF IInv, ServerInv
  <2>. QED BY <2>1, <2>2 DEF KeyInv, ServerOneAttempt, ServerAttemptsLimited
<1>. QED BY <1>1, InitAttempts, StepAttempts, OutboxInvariant, PTL DEF Spec

-----------------------------------------------------------------------------
(* The outbox implements EmailSends, on a server that keeps its version *)

\* A thread works on a version that is open, the tool's on its first one; none on
\* another's.
ThreadsOwn ==
  /\ \A t \in Threads : thread[t].phase # "idle" =>
       delivery[thread[t].flow.key].state \notin Terminal \cup {"none"}
  /\ \A m \in Mails : thread[m].phase # "idle" => thread[m].flow.key = First(m)
  /\ \A m \in Mails :
       thread["outbox"].phase # "idle" /\ thread[m].phase # "idle" =>
         thread["outbox"].flow.key # thread[m].flow.key

\* A later version is there only once the one before was decided.
VersionsInTurn ==
  /\ \A k \in Keys : delivery[k].state # "none" /\ k.version > 1 =>
       delivery[[k EXCEPT !.version = @ - 1]].resolved
  /\ \A k \in Keys : delivery[k].resolved => delivery[k].state \in {"failed", "unknown"}

\* A request is one of a version that was opened, and a thread waits for its own.
RequestsOwned ==
  /\ \A h \in Requests : req[h].phase # "none" => delivery[req[h].key].state # "none"
  /\ \A t \in Threads : thread[t].phase = "post" =>
       req[thread[t].req].phase # "none" /\ req[thread[t].req].key = thread[t].flow.key
  /\ \A t, u \in Threads : thread[t].phase = "post" /\ thread[u].phase = "post"
       /\ thread[t].req = thread[u].req => t = u

\* What is answered is so.
AnswersTrue ==
  /\ \A h \in Requests : req[h].phase = "reply" =>
       /\ req[h].answer = "accepted" => sent[req[h].key] = 1
       /\ req[h].answer = "sent" => loose[req[h].key] = 1
  /\ \A t \in Threads : thread[t].phase = "found" /\ thread[t].answer = "accepted" =>
       sent[thread[t].flow.key] = 1

Honours == keyed => \A k \in Keys : loose[k] = 0

Arrived(h, k) == req[h].phase = "arrived" /\ req[h].key = k

\* Nothing of the version is out, or may yet go out.
Unsent(k) == loose[k] = 0 /\ \A h \in Requests : ~Arrived(h, k)

\* A server without keys: the outbox never learns that it could repeat a POST, and
\* one of a version at most is under way.
PlainOnce ==
  ~keyed =>
    /\ ~proven
    /\ \A k \in Keys :
         /\ sent[k] = 0 /\ loose[k] <= 1
         /\ delivery[k].state \in {"none", "local", "posting"} \cup Terminal
         /\ delivery[k].state \in {"none", "local"} => Unsent(k)
    /\ \A g, h \in Requests : req[h].phase = "arrived" =>
         /\ loose[req[h].key] = 0
         /\ Arrived(g, req[h].key) => g = h
    /\ \A h \in Requests :
         /\ req[h].phase \in {"none", "arrived", "reply"}
         /\ req[h].phase = "reply" => req[h].answer \in {"sent", "refused", "error"}
    /\ \A t \in Threads :
         /\ thread[t].phase = "post" /\ req[thread[t].req].phase = "reply"
              /\ req[thread[t].req].answer = "refused" => Unsent(thread[t].flow.key)
         /\ thread[t].phase = "found" => thread[t].answer = "unsupported"

Open == (S!States \ Terminal) \cup {"local", "posting"}

LEMMA DeliveryParts ==
  ASSUME TypeOK, NEW k \in Keys
  PROVE  /\ delivery[k].state \in {"none"} \cup Open \cup Terminal
         /\ delivery[k].resolved \in BOOLEAN
  BY TypeParts DEF DeliveryTyped, Open, S!States, S!Final, Terminal

\* What a row, a thread and a request become.
LEMMA PutAt ==
  ASSUME TypeOK, NEW k \in Keys, NEW state, Put(k, state)
  PROVE  /\ delivery'[k].state = state /\ delivery'[k].resolved = delivery[k].resolved
         /\ \A j \in Keys : j # k => delivery'[j] = delivery[j]
  BY TypeParts DEF Put, DeliveryTyped

LEMMA ReleaseAt ==
  ASSUME TypeOK, NEW t \in Threads, Release(t)
  PROVE  thread'[t] = Idle /\ \A u \in Threads : u # t => thread'[u] = thread[u]
  BY TypeParts DEF Release, ThreadsTyped

LEMMA AskAt ==
  ASSUME TypeOK, NEW t \in Threads, NEW flow, NEW missing, Ask(t, flow, missing)
  PROVE  /\ thread'[t] = [phase |-> "lookup", flow |-> flow, missing |-> missing]
         /\ \A u \in Threads : u # t => thread'[u] = thread[u]
  BY TypeParts DEF Ask, ThreadsTyped

PostedAs(t, flow, h) ==
  /\ req[h].phase = "none" /\ req'[h].phase = "arrived" /\ req'[h].key = flow.key
  /\ \A g \in Requests : g # h => req'[g] = req[g]
  /\ thread'[t].phase = "post" /\ thread'[t].flow = flow /\ thread'[t].req = h
  /\ \A u \in Threads : u # t => thread'[u] = thread[u]
  /\ UNCHANGED <<keyed, sent, loose>>

LEMMA PostAt ==
  ASSUME TypeOK, NEW t \in Threads, NEW flow, NEW again \in BOOLEAN, PostUnder(t, flow, again)
  PROVE  \E h \in Requests : PostedAs(t, flow, h)
  BY TypeParts DEF PostUnder, ThreadsTyped, S!Post, S!TypeOK, PostedAs

\* Where a thread goes that posts, or asks.
LEMMA PostGoesOn ==
  ASSUME TypeOK, NEW t \in Threads, NEW flow, NEW again \in BOOLEAN, PostUnder(t, flow, again)
  PROVE  /\ thread'[t].flow = flow /\ thread'[t].phase = "post"
         /\ \A u \in Threads : u # t => thread'[u] = thread[u]
  BY TypeParts DEF PostUnder, ThreadsTyped

LEMMA GoneAt ==
  ASSUME TypeOK, NEW h \in Requests, S!Gone(h)
  PROVE  /\ req[h].phase = "reply" /\ req'[h].phase = "none"
         /\ \A g \in Requests : g # h => req'[g] = req[g]
         /\ UNCHANGED <<keyed, row, lapsed, sent, loose>>
  BY TypeParts DEF S!Gone, S!NoReq, S!TypeOK

-----------------------------------------------------------------------------
(* Who works on what *)

OwnInv == ThreadsOwn /\ VersionsInTurn

LEMMA ThreadNames ==
  /\ "outbox" \in Threads /\ "outbox" \notin Mails
  /\ \A m \in Mails : m \in Threads /\ m # "outbox"
  /\ \A t \in Threads : t = "outbox" \/ t \in Mails
BY OutboxAssumption DEF Threads

\* Two threads that work, work on different versions.
LEMMA OwnersDiffer ==
  ASSUME TypeOK, ThreadsOwn, NEW t \in Threads, NEW u \in Threads, t # u,
         thread[t].phase # "idle", thread[u].phase # "idle"
  PROVE  thread[t].flow.key # thread[u].flow.key
<1>1. CASE t \in Mails /\ u \in Mails
  <2>1. thread[t].flow.key = First(t) /\ thread[u].flow.key = First(u)
    BY <1>1 DEF ThreadsOwn
  <2>2. First(t).mail = t /\ First(u).mail = u
    BY DEF First
  <2>. QED BY <2>1, <2>2
<1>2. CASE t = "outbox" \/ u = "outbox"
  BY <1>2, ThreadNames DEF ThreadsOwn
<1>. QED BY <1>1, <1>2, ThreadNames

\* A thread ends its work on a version, or goes on with it while it is open.
LEMMA OwnerMoves ==
  ASSUME TypeOK, OwnInv, NEW t \in Threads, NEW k \in Keys,
         thread[t].phase # "idle", thread[t].flow.key = k,
         \A j \in Keys : j # k => delivery'[j] = delivery[j],
         delivery'[k].resolved = delivery[k].resolved, delivery'[k].state # "none",
         \A u \in Threads : u # t => thread'[u] = thread[u],
         \/ thread'[t] = Idle
         \/ thread'[t].flow.key = k /\ delivery'[k].state \notin Terminal
  PROVE  OwnInv'
<1>1. /\ delivery[k].state \notin Terminal \cup {"none"} /\ ~delivery[k].resolved
      /\ \A u \in Threads : u # t /\ thread[u].phase # "idle" =>
           thread[u].flow.key # k /\ thread[u].flow.key \in Keys
  BY OwnersDiffer, ThreadTyped, DeliveryParts DEF OwnInv, ThreadsOwn, VersionsInTurn, Terminal
<1>2. ThreadsOwn'
  <2>1. \A u \in Threads : thread'[u].phase # "idle" =>
          thread[u].phase # "idle" /\ thread'[u].flow.key = thread[u].flow.key
    BY DEF Idle
  <2>2. ASSUME NEW u \in Threads, thread'[u].phase # "idle"
        PROVE  delivery'[thread'[u].flow.key].state \notin Terminal \cup {"none"}
    <3>1. CASE u = t
      BY <2>2, <3>1 DEF Idle
    <3>2. CASE u # t
      BY <1>1, <2>1, <2>2, <3>2 DEF OwnInv, ThreadsOwn
    <3>. QED BY <3>1, <3>2
  <2>3. \A m \in Mails : thread'[m].phase # "idle" => thread'[m].flow.key = First(m)
    BY <2>1, ThreadNames DEF OwnInv, ThreadsOwn
  <2>4. \A m \in Mails : thread'["outbox"].phase # "idle" /\ thread'[m].phase # "idle" =>
          thread'["outbox"].flow.key # thread'[m].flow.key
    BY <2>1, ThreadNames DEF OwnInv, ThreadsOwn
  <2>. QED BY <2>2, <2>3, <2>4 DEF ThreadsOwn
<1>3. VersionsInTurn'
  <2>1. \A j \in Keys : delivery'[j].resolved = delivery[j].resolved
    OBVIOUS
  <2>2. \A j \in Keys : delivery'[j].state # "none" <=> delivery[j].state # "none"
    BY <1>1
  <2>3. \A j \in Keys : j.version > 1 => [j EXCEPT !.version = @ - 1] \in Keys
    BY OutboxAssumption DEF Keys
  <2>4. \A j \in Keys : delivery'[j].resolved => delivery'[j].state \in {"failed", "unknown"}
    BY <1>1, <2>1 DEF OwnInv, VersionsInTurn
  <2>5. \A j \in Keys : delivery'[j].state # "none" /\ j.version > 1 =>
          delivery'[[j EXCEPT !.version = @ - 1]].resolved
    BY <2>1, <2>2, <2>3 DEF OwnInv, VersionsInTurn
  <2>. QED BY <2>4, <2>5 DEF VersionsInTurn
<1>. QED BY <1>2, <1>3 DEF OwnInv

\* What one step of a thread does to its row and to itself.
LEMMA ThreadStep ==
  ASSUME TypeOK, OwnInv, NEW t \in Threads, Thread(t)
  PROVE  LET k == thread[t].flow.key IN
         /\ k \in Keys /\ thread[t].phase # "idle"
         /\ \A j \in Keys : j # k => delivery'[j] = delivery[j]
         /\ delivery'[k].resolved = delivery[k].resolved /\ delivery'[k].state # "none"
         /\ \A u \in Threads : u # t => thread'[u] = thread[u]
         /\ \/ thread'[t] = Idle
            \/ /\ thread'[t].flow.key = k /\ thread'[t].phase # "idle"
               /\ delivery'[k] = delivery[k]
<1> DEFINE k == thread[t].flow.key
           GoesOn == /\ thread'[t].flow = thread[t].flow /\ thread'[t].phase # "idle"
                     /\ \A u \in Threads : u # t => thread'[u] = thread[u]
<1>1. thread[t].phase # "idle"
  BY DEF Thread, PostAdopted, PostRefused, PostLost, Look, LookAdopted, LookUnsupported,
         LookMissing, LookLost, Answered
<1>2. /\ k \in Keys /\ delivery[k].state \notin Terminal \cup {"none"}
  BY <1>1, ThreadTyped DEF OwnInv, ThreadsOwn
<1>3. CASE (PostAdopted(t) \/ LookAdopted(t))
  <2>1. \E answer \in S!States \cup {"sent"} : Adopt(k, answer)
    BY <1>3 DEF PostAdopted, LookAdopted
  <2>2. \E state \in S!States : Put(k, state)
    BY <2>1 DEF Adopt, S!States, S!Final
  <2>3. "none" \notin S!States /\ Release(t)
    BY <1>3 DEF PostAdopted, LookAdopted, S!States, S!Final
  <2>. QED BY <1>1, <1>2, <2>2, <2>3, PutAt, ReleaseAt
<1>4. CASE PostRefused(t) \/ LookUnsupported(t)
  <2>1. Release(t) /\ \E state \in {"failed", "local", "unknown"} : Put(k, state)
    BY <1>4 DEF PostRefused, LookUnsupported
  <2>. QED BY <1>1, <1>2, <2>1, PutAt, ReleaseAt
<1>5. CASE PostLost(t)
  <2>1. delivery' = delivery
    BY <1>5 DEF PostLost
  <2>2. CASE Release(t)
    BY <1>1, <1>2, <2>1, <2>2, ReleaseAt
  <2>3. CASE PostUnder(t, thread[t].flow, FALSE) \/ Ask(t, thread[t].flow, "post")
    <3>1. CASE PostUnder(t, thread[t].flow, FALSE)
      BY <1>1, <1>2, <2>1, <3>1, PostGoesOn
    <3>2. CASE Ask(t, thread[t].flow, "post")
      <4>1. /\ thread'[t] = [phase |-> "lookup", flow |-> thread[t].flow, missing |-> "post"]
            /\ \A u \in Threads : u # t => thread'[u] = thread[u]
        BY <3>2, AskAt
      <4>. QED BY <1>1, <1>2, <2>1, <4>1
    <3>. QED BY <2>3, <3>1, <3>2
  <2>. QED BY <1>5, <2>2, <2>3 DEF PostLost
<1>6. CASE Look(t)
  <2>1. delivery' = delivery /\ GoesOn
    BY <1>6, TypeParts DEF Look, ThreadsTyped
  <2>. QED BY <1>1, <1>2, <2>1
<1>7. CASE LookMissing(t)
  <2>1. CASE PostUnder(t, thread[t].flow, FALSE) /\ delivery' = delivery
    <3>1. GoesOn
      BY <2>1, PostGoesOn
    <3>. QED BY <1>1, <1>2, <2>1, <3>1
  <2>2. CASE Release(t) /\ \E state \in {"local", "unknown"} : Put(k, state)
    BY <1>1, <1>2, <2>2, PutAt, ReleaseAt
  <2>. QED BY <1>7, <2>1, <2>2 DEF LookMissing
<1>8. CASE LookLost(t)
  BY <1>1, <1>2, <1>8, ReleaseAt DEF LookLost
<1>. QED BY <1>3, <1>4, <1>5, <1>6, <1>7, <1>8 DEF Thread

\* A thread takes up a version nobody works on.
LEMMA OwnerStarts ==
  ASSUME TypeOK, OwnInv, NEW t \in Threads, NEW k \in Keys,
         thread[t] = Idle, t \in Mails => k = First(t),
         delivery[k].state \notin Terminal,
         delivery[k].state = "none" => k.version = 1,
         \A u \in Threads : thread[u].phase # "idle" => thread[u].flow.key # k,
         \A j \in Keys : j # k => delivery'[j] = delivery[j],
         delivery'[k].resolved = delivery[k].resolved,
         delivery'[k].state \notin Terminal \cup {"none"},
         \A u \in Threads : u # t => thread'[u] = thread[u],
         thread'[t].flow.key = k
  PROVE  OwnInv'
<1>1. ~delivery[k].resolved
  BY DeliveryParts DEF OwnInv, VersionsInTurn, Terminal
<1>2. ThreadsOwn'
  <2>1. ASSUME NEW u \in Threads, thread'[u].phase # "idle"
        PROVE  delivery'[thread'[u].flow.key].state \notin Terminal \cup {"none"}
    <3>1. CASE u = t
      BY <3>1
    <3>2. CASE u # t
      BY <2>1, <3>2, ThreadTyped DEF OwnInv, ThreadsOwn
    <3>. QED BY <3>1, <3>2
  <2>2. \A m \in Mails : thread'[m].phase # "idle" => thread'[m].flow.key = First(m)
    BY ThreadNames DEF OwnInv, ThreadsOwn
  <2>3. \A m \in Mails : thread'["outbox"].phase # "idle" /\ thread'[m].phase # "idle" =>
          thread'["outbox"].flow.key # thread'[m].flow.key
    BY ThreadNames DEF OwnInv, ThreadsOwn
  <2>. QED BY <2>1, <2>2, <2>3 DEF ThreadsOwn
<1>3. VersionsInTurn'
  <2>1. \A j \in Keys : delivery'[j].resolved = delivery[j].resolved
    OBVIOUS
  <2>2. \A j \in Keys : j.version > 1 /\ delivery'[j].state # "none" => delivery[j].state # "none"
    BY DEF Keys
  <2>3. \A j \in Keys : j.version > 1 => [j EXCEPT !.version = @ - 1] \in Keys
    BY OutboxAssumption DEF Keys
  <2>4. \A j \in Keys : delivery'[j].resolved => delivery'[j].state \in {"failed", "unknown"}
    BY <1>1, <2>1 DEF OwnInv, VersionsInTurn
  <2>5. \A j \in Keys : delivery'[j].state # "none" /\ j.version > 1 =>
          delivery'[[j EXCEPT !.version = @ - 1]].resolved
    BY <2>1, <2>2, <2>3 DEF OwnInv, VersionsInTurn
  <2>. QED BY <2>4, <2>5 DEF VersionsInTurn
<1>. QED BY <1>2, <1>3 DEF OwnInv

\* What an operator or the reader does to rows nobody works on.
LEMMA RowsMove ==
  ASSUME TypeOK, OwnInv, UNCHANGED thread,
         \A j \in Keys : delivery[j].state \notin Terminal \cup {"none"} => delivery'[j] = delivery[j],
         VersionsInTurn'
  PROVE  OwnInv'
<1>1. \A u \in Threads : thread[u].phase # "idle" =>
        thread[u].flow.key \in Keys /\ delivery[thread[u].flow.key].state \notin Terminal \cup {"none"}
  BY ThreadTyped DEF OwnInv, ThreadsOwn
<1>. QED BY <1>1 DEF OwnInv, ThreadsOwn

LEMMA AdvanceAt ==
  ASSUME TypeOK, NEW k \in Keys, NEW may \in BOOLEAN, AdvanceEmail(k, may)
  PROVE  /\ \A j \in Keys : j # k => delivery'[j] = delivery[j]
         /\ delivery'[k].resolved = delivery[k].resolved
         /\ \/ delivery'[k].state = delivery[k].state
            \/ delivery[k].state = "local" /\ delivery'[k].state = "posting"
         /\ \A u \in Threads : u # "outbox" => thread'[u] = thread[u]
         /\ thread'["outbox"].flow.key = k
         /\ thread'["outbox"].phase \in {"post", "lookup"}
<1> DEFINE flow == [key |-> k, attempts |-> delivery[k].attempts, retry |-> TRUE]
           more == [flow EXCEPT !.attempts = OneMore(@)]
           Takes == /\ \A u \in Threads : u # "outbox" => thread'[u] = thread[u]
                    /\ thread'["outbox"].flow.key = k
                    /\ thread'["outbox"].phase \in {"post", "lookup"}
<1>1. "outbox" \in Threads /\ flow.key = k /\ more.key = k
  BY ThreadNames
<1> HIDE DEF flow, more
<1>2. CASE /\ delivery[k].state = "local"
           /\ delivery' = [delivery EXCEPT ![k].state = "posting", ![k].attempts = OneMore(@)]
           /\ PostUnder("outbox", more, FALSE)
  <2>1. Takes
    BY <1>1, <1>2, PostGoesOn
  <2> DEFINE mid == [delivery EXCEPT ![k].state = "posting"]
  <2>2. /\ delivery' = [mid EXCEPT ![k].attempts = OneMore(@)]
        /\ DeliveryTyped
    BY <1>2, TypeParts
  <2>3. /\ DOMAIN mid = Keys /\ mid[k].state = "posting" /\ mid[k].resolved = delivery[k].resolved
        /\ \A j \in Keys : j # k => mid[j] = delivery[j]
        /\ DOMAIN mid[k] = {"state", "attempts", "resolved"}
    BY <2>2 DEF DeliveryTyped
  <2> HIDE DEF mid
  <2>4. /\ delivery'[k].state = "posting" /\ delivery'[k].resolved = delivery[k].resolved
        /\ \A j \in Keys : j # k => delivery'[j] = delivery[j]
    BY <2>2, <2>3
  <2>. QED BY <1>2, <2>1, <2>4
<1>3. CASE delivery' = delivery /\ PostUnder("outbox", flow, FALSE)
  <2>1. Takes
    BY <1>1, <1>3, PostGoesOn
  <2>2. delivery'[k] = delivery[k] /\ \A j \in Keys : j # k => delivery'[j] = delivery[j]
    BY <1>3
  <2>. QED BY <2>1, <2>2
<1>4. CASE delivery' = delivery /\ \E missing \in Missing : Ask("outbox", flow, missing)
  <2>1. PICK missing \in Missing : Ask("outbox", flow, missing)
    BY <1>4
  <2>2. /\ thread'["outbox"] = [phase |-> "lookup", flow |-> flow, missing |-> missing]
        /\ \A u \in Threads : u # "outbox" => thread'[u] = thread[u]
    BY <1>1, <2>1, AskAt
  <2>3. Takes
    BY <1>1, <2>2
  <2>4. delivery'[k] = delivery[k] /\ \A j \in Keys : j # k => delivery'[j] = delivery[j]
    BY <1>4
  <2>. QED BY <2>3, <2>4
<1>5. \A b \in BOOLEAN : (IF b THEN "post" ELSE "hold") \in Missing /\ "settle" \in Missing
  BY DEF Missing
<1>. QED BY <1>2, <1>3, <1>4, <1>5 DEF AdvanceEmail, flow, more

LEMMA ToolAt ==
  ASSUME TypeOK, NEW m \in Mails, SendTool(m)
  PROVE  /\ First(m) \in Keys
         /\ \A j \in Keys : j # First(m) => delivery'[j] = delivery[j]
         /\ delivery'[First(m)].resolved = delivery[First(m)].resolved
         /\ delivery[First(m)].state = "none" /\ delivery'[First(m)].state = "posting"
         /\ \A u \in Threads : u # m => thread'[u] = thread[u]
         /\ thread'[m].flow.key = First(m) /\ thread'[m].phase = "post"
<1> DEFINE k == First(m)
           flow == [key |-> k, attempts |-> 1, retry |-> FALSE]
           mid == [delivery EXCEPT ![k].state = "posting"]
<1>1. k \in Keys /\ m \in Threads /\ flow.key = k
  BY KeysTyped, ThreadNames
<1>2. /\ delivery[k].state = "none" /\ delivery' = [mid EXCEPT ![k].attempts = 1]
      /\ PostUnder(m, flow, TRUE)
  BY DEF SendTool
<1>3. /\ DOMAIN mid = Keys /\ mid[k].state = "posting" /\ mid[k].resolved = delivery[k].resolved
      /\ \A j \in Keys : j # k => mid[j] = delivery[j]
      /\ DOMAIN mid[k] = {"state", "attempts", "resolved"}
  BY <1>1, TypeParts DEF DeliveryTyped
<1> HIDE DEF k, flow, mid
<1>4. /\ delivery'[k].state = "posting" /\ delivery'[k].resolved = delivery[k].resolved
      /\ \A j \in Keys : j # k => delivery'[j] = delivery[j]
  BY <1>1, <1>2, <1>3
<1>5. /\ \A u \in Threads : u # m => thread'[u] = thread[u]
      /\ thread'[m].flow.key = k /\ thread'[m].phase = "post"
  BY <1>1, <1>2, PostGoesOn
<1>. QED BY <1>1, <1>2, <1>4, <1>5 DEF k

\* The version before and the next one of a key.
LEMMA EarlierKey ==
  ASSUME NEW k \in Keys
  PROVE  [k EXCEPT !.version = @ - 1] = [mail |-> k.mail, version |-> k.version - 1]
<1>1. k.version \in 1 .. MaxVersion /\ MaxVersion \in Nat
  BY OutboxAssumption DEF Keys
<1>. QED BY <1>1 DEF Keys

Later(k) == [k EXCEPT !.version = @ + 1]

LEMMA LaterKey ==
  ASSUME NEW k \in Keys, k.version < MaxVersion
  PROVE  /\ Later(k) \in Keys /\ Later(k) # k
         /\ [Later(k) EXCEPT !.version = @ - 1] = k /\ Later(k).version > 1
<1>1. k.version \in 1 .. MaxVersion /\ MaxVersion \in Nat
  BY OutboxAssumption DEF Keys
<1>2. k = [mail |-> k.mail, version |-> k.version] /\ k.mail \in Mails
  BY DEF Keys
<1>3. Later(k) = [mail |-> k.mail, version |-> k.version + 1]
  BY <1>1 DEF Later, Keys
<1>4. Later(k) \in Keys
  BY <1>1, <1>2, <1>3 DEF Keys
<1>5. [Later(k) EXCEPT !.version = @ - 1] =
        [mail |-> Later(k).mail, version |-> Later(k).version - 1]
  BY <1>4, EarlierKey
<1>6. k.version + 1 - 1 = k.version /\ k.version + 1 > 1 /\ k.version + 1 # k.version
  BY <1>1
<1>7. Later(k).mail = k.mail /\ Later(k).version = k.version + 1
  BY <1>3
<1>8. [Later(k) EXCEPT !.version = @ - 1] = [mail |-> k.mail, version |-> k.version]
  <2>1. Later(k).version - 1 = k.version
    BY <1>1, <1>7
  <2>. QED BY <1>5, <1>7, <2>1, Zenon
<1>. QED BY <1>2, <1>4, <1>6, <1>7, <1>8

LEMMA ResendAt ==
  ASSUME TypeOK, OwnInv, NEW k \in Keys, Resend(k)
  PROVE  /\ Later(k) \in Keys /\ Later(k) # k
         /\ delivery[k].state \in {"failed", "unknown"} /\ ~delivery[k].resolved
         /\ delivery[Later(k)].state = "none" /\ ~delivery[Later(k)].resolved
         /\ delivery'[k].resolved /\ delivery'[k].state = delivery[k].state
         /\ delivery'[Later(k)].state = "local" /\ ~delivery'[Later(k)].resolved
         /\ \A j \in Keys : j \notin {k, Later(k)} => delivery'[j] = delivery[j]
<1> DEFINE mid == [delivery EXCEPT ![k].resolved = TRUE]
           next == Later(k)
<1>1. /\ delivery[k].state \in {"failed", "unknown"} /\ ~delivery[k].resolved
      /\ k.version < MaxVersion /\ delivery' = [mid EXCEPT ![next].state = "local"]
  BY DEF Resend, Decidable, Later
<1>2. next \in Keys /\ next # k /\ [next EXCEPT !.version = @ - 1] = k /\ next.version > 1
  BY <1>1, LaterKey
<1> HIDE DEF next
<1>3. delivery[next].state = "none"
  BY <1>1, <1>2 DEF OwnInv, VersionsInTurn
<1>4. ~delivery[next].resolved
  BY <1>2, <1>3 DEF OwnInv, VersionsInTurn
<1>5. /\ mid \in [Keys -> [state : {"none", "local", "posting"} \cup S!States,
                           attempts : 0 .. MAX_ATTEMPTS, resolved : BOOLEAN]]
      /\ mid[k].resolved /\ mid[k].state = delivery[k].state
      /\ \A j \in Keys : j # k => mid[j] = delivery[j]
  BY TypeParts DEF DeliveryTyped
<1> HIDE DEF mid
<1>6. /\ delivery'[next].state = "local" /\ delivery'[next].resolved = mid[next].resolved
      /\ \A j \in Keys : j # next => delivery'[j] = mid[j]
  BY <1>1, <1>2, <1>5
<1>. QED BY <1>1, <1>2, <1>3, <1>4, <1>5, <1>6 DEF next

LEMMA OwnStep == TypeOK /\ OwnInv /\ [Next]_vars => OwnInv'
<1> SUFFICES ASSUME TypeOK, OwnInv, [Next]_vars PROVE OwnInv'
  OBVIOUS
<1> USE ThreadNames, KeysTyped
<1>1. ASSUME NEW m \in Mails, Intend(m) PROVE OwnInv'
  <2>1. /\ First(m) \in Keys /\ First(m).version = 1
        /\ delivery[First(m)].state = "none" /\ delivery'[First(m)].state = "local"
        /\ delivery'[First(m)].resolved = delivery[First(m)].resolved
        /\ \A j \in Keys : j # First(m) => delivery'[j] = delivery[j]
    BY <1>1, PutAt DEF Intend, First
  <2>2. \A j \in Keys : j.version > 1 => [j EXCEPT !.version = @ - 1] \in Keys
    BY OutboxAssumption DEF Keys
  <2>3. VersionsInTurn'
    <3>1. \A j \in Keys : delivery'[j].resolved = delivery[j].resolved
      BY <2>1
    <3>2. \A j \in Keys : j.version > 1 /\ delivery'[j].state # "none" => delivery[j].state # "none"
      BY <2>1
    <3>3. \A j \in Keys : delivery'[j].resolved => delivery'[j].state \in {"failed", "unknown"}
      BY <2>1, <3>1 DEF OwnInv, VersionsInTurn
    <3>4. \A j \in Keys : delivery'[j].state # "none" /\ j.version > 1 =>
            delivery'[[j EXCEPT !.version = @ - 1]].resolved
      BY <2>2, <3>1, <3>2 DEF OwnInv, VersionsInTurn
    <3>. QED BY <3>3, <3>4 DEF VersionsInTurn
  <2>4. \A j \in Keys :
          delivery[j].state \notin Terminal \cup {"none"} => delivery'[j] = delivery[j]
    BY <2>1
  <2>. QED BY <1>1, <2>3, <2>4, RowsMove DEF Intend
<1>2. ASSUME NEW m \in Mails, SendTool(m) PROVE OwnInv'
  <2>1. thread[m] = Idle /\ First(m).version = 1
    BY <1>2 DEF SendTool, First
  <2>2. \A u \in Threads : thread[u].phase # "idle" => thread[u].flow.key # First(m)
    BY <1>2, ToolAt DEF OwnInv, ThreadsOwn
  <2>3. "none" \notin Terminal /\ "posting" \notin Terminal \cup {"none"}
    BY DEF Terminal
  <2>. QED BY <1>2, <2>1, <2>2, <2>3, ToolAt, OwnerStarts
<1>3. ASSUME NEW k \in Keys, NEW may \in BOOLEAN, AdvanceEmail(k, may) PROVE OwnInv'
  <2>1. /\ thread["outbox"] = Idle /\ delivery[k].state \notin Terminal \cup {"none"}
        /\ ~(thread[k.mail].phase # "idle" /\ thread[k.mail].flow.key = k)
    BY <1>3 DEF AdvanceEmail, Owned
  <2>2. ASSUME NEW u \in Threads, thread[u].phase # "idle" PROVE thread[u].flow.key # k
    <3>1. u \in Mails /\ thread[u].flow.key = First(u)
      BY <2>1, <2>2 DEF OwnInv, ThreadsOwn, Idle
    <3>2. First(u).mail = u
      BY DEF First
    <3>. QED BY <2>1, <2>2, <3>1, <3>2
  <2>3. "posting" \notin Terminal \cup {"none"}
    BY DEF Terminal
  <2>. QED BY <1>3, <2>1, <2>2, <2>3, AdvanceAt, OwnerStarts
<1>4. ASSUME NEW k \in Keys, Resend(k) PROVE OwnInv'
  <2>1. UNCHANGED thread
    BY <1>4 DEF Resend
  <2>2. VersionsInTurn'
    <3>1. \A j \in Keys : delivery[j].resolved => delivery'[j].resolved
      BY <1>4, ResendAt
    <3>2. \A j \in Keys : delivery'[j].resolved => delivery'[j].state \in {"failed", "unknown"}
      BY <1>4, ResendAt DEF OwnInv, VersionsInTurn
    <3>3. \A j \in Keys : j.version > 1 => [j EXCEPT !.version = @ - 1] \in Keys
      BY OutboxAssumption DEF Keys
    <3>4. \A j \in Keys :
            delivery'[j].state # "none" => delivery[j].state # "none" \/ j = Later(k)
      BY <1>4, ResendAt
    <3>5. [Later(k) EXCEPT !.version = @ - 1] = k
      BY <1>4, LaterKey DEF Resend
    <3>6. \A j \in Keys : delivery'[j].state # "none" /\ j.version > 1 =>
            delivery'[[j EXCEPT !.version = @ - 1]].resolved
      BY <1>4, <3>1, <3>3, <3>4, <3>5, ResendAt DEF OwnInv, VersionsInTurn
    <3>. QED BY <3>2, <3>6 DEF VersionsInTurn
  <2>3. \A j \in Keys :
          delivery[j].state \notin Terminal \cup {"none"} => delivery'[j] = delivery[j]
    BY <1>4, ResendAt DEF Terminal
  <2>. QED BY <2>1, <2>2, <2>3, RowsMove
<1>5. ASSUME NEW k \in Keys, Dismiss(k) PROVE OwnInv'
  <2>1. /\ delivery[k].state \in {"failed", "unknown"}
        /\ delivery'[k].resolved /\ delivery'[k].state = delivery[k].state
        /\ \A j \in Keys : j # k => delivery'[j] = delivery[j]
    BY <1>5, TypeParts DEF Dismiss, Decidable, DeliveryTyped
  <2>2. VersionsInTurn'
    <3>1. \A j \in Keys : delivery[j].resolved => delivery'[j].resolved
      BY <2>1
    <3>2. \A j \in Keys : delivery'[j].resolved => delivery'[j].state \in {"failed", "unknown"}
      BY <2>1 DEF OwnInv, VersionsInTurn
    <3>3. \A j \in Keys : j.version > 1 => [j EXCEPT !.version = @ - 1] \in Keys
      BY OutboxAssumption DEF Keys
    <3>4. \A j \in Keys : delivery'[j].state = delivery[j].state
      BY <2>1
    <3>. QED BY <3>1, <3>2, <3>3, <3>4 DEF OwnInv, VersionsInTurn
  <2>3. \A j \in Keys :
          delivery[j].state \notin Terminal \cup {"none"} => delivery'[j] = delivery[j]
    BY <2>1 DEF Terminal
  <2>. QED BY <1>5, <2>2, <2>3, RowsMove DEF Dismiss
<1>6. ASSUME NEW t \in Threads, Thread(t) PROVE OwnInv'
  <2>1. thread[t].phase # "idle" => delivery[thread[t].flow.key].state \notin Terminal
    BY DEF OwnInv, ThreadsOwn
  <2>. QED BY <1>6, <2>1, ThreadStep, OwnerMoves
<1>7. CASE Restart
  BY <1>7 DEF Restart, OwnInv, ThreadsOwn, VersionsInTurn, Idle
<1>8. CASE UNCHANGED <<delivery, thread>>
  BY <1>8 DEF OwnInv, ThreadsOwn, VersionsInTurn
<1>9. Deploy \/ ServerStep \/ UNCHANGED vars => UNCHANGED <<delivery, thread>>
  BY DEF Deploy, ServerStep, vars
<1>. QED BY <1>1, <1>2, <1>3, <1>4, <1>5, <1>6, <1>7, <1>8, <1>9 DEF Next

-----------------------------------------------------------------------------
(* What is under way and what was answered *)

RestInv == RequestsOwned /\ AnswersTrue /\ Honours /\ PlainOnce

LEMMA ReqTyped ==
  ASSUME TypeOK, NEW h \in Requests
  PROVE  /\ req[h].phase # "none" => req[h].key \in Keys
         /\ req[h].phase \in {"none", "arrived", "claim", "submit", "finish", "refresh", "reply"}
  BY TypeParts DEF S!TypeOK, S!NoReq

\* A step that asks nothing of the server: requests are forgotten, threads stop
\* waiting or learn what the record says.
Frees ==
  /\ UNCHANGED <<keyed, sent, loose>>
  /\ \A g \in Requests : req'[g] = req[g] \/ req'[g].phase = "none"
  /\ \A u \in Threads :
       \/ /\ thread'[u] = thread[u]
          /\ thread[u].phase = "post" => req'[thread[u].req] = req[thread[u].req]
       \/ thread'[u].phase \notin {"post", "found"}
       \/ /\ thread'[u].phase = "found" /\ thread'[u].flow.key \in Keys
          /\ thread'[u].answer = "accepted" => sent[thread'[u].flow.key] = 1
          /\ ~keyed => thread'[u].answer = "unsupported"

RowsGoOn ==
  /\ \A k \in Keys : delivery[k].state # "none" => delivery'[k].state # "none"
  /\ ~keyed =>
       /\ ~proven'
       /\ \A k \in Keys :
            \/ delivery'[k].state = delivery[k].state
            \/ delivery'[k].state \in {"posting"} \cup Terminal
            \/ delivery'[k].state = "local" /\ Unsent(k)

NoPost == Frees /\ RowsGoOn

LEMMA NoPostStep ==
  ASSUME TypeOK, TypeOK', RestInv, NoPost
  PROVE  RestInv'
<1>1. \A g \in Requests : req'[g].phase # "none" => req'[g] = req[g] /\ req[g].key \in Keys
  BY ReqTyped DEF NoPost, Frees, RowsGoOn
<1>2. \A u \in Threads : thread'[u].phase = "post" =>
        /\ thread'[u] = thread[u] /\ req'[thread[u].req] = req[thread[u].req]
        /\ thread[u].req \in Requests /\ thread[u].flow.key \in Keys
  BY ThreadTyped DEF NoPost, Frees, RowsGoOn
<1>3. RequestsOwned'
  <2>1. \A h \in Requests : req'[h].phase # "none" => delivery'[req'[h].key].state # "none"
    BY <1>1 DEF RestInv, RequestsOwned, NoPost, Frees, RowsGoOn
  <2>2. \A t \in Threads : thread'[t].phase = "post" =>
          req'[thread'[t].req].phase # "none" /\ req'[thread'[t].req].key = thread'[t].flow.key
    BY <1>2 DEF RestInv, RequestsOwned
  <2>3. \A t, u \in Threads : thread'[t].phase = "post" /\ thread'[u].phase = "post"
          /\ thread'[t].req = thread'[u].req => t = u
    BY <1>2 DEF RestInv, RequestsOwned
  <2>. QED BY <2>1, <2>2, <2>3 DEF RequestsOwned
<1>4. AnswersTrue'
  <2>1. \A h \in Requests : req'[h].phase = "reply" =>
          /\ req'[h].answer = "accepted" => sent'[req'[h].key] = 1
          /\ req'[h].answer = "sent" => loose'[req'[h].key] = 1
    BY <1>1 DEF RestInv, AnswersTrue, NoPost, Frees, RowsGoOn
  <2>2. \A t \in Threads : thread'[t].phase = "found" /\ thread'[t].answer = "accepted" =>
          sent'[thread'[t].flow.key] = 1
    BY DEF RestInv, AnswersTrue, NoPost, Frees, RowsGoOn
  <2>. QED BY <2>1, <2>2 DEF AnswersTrue
<1>5. Honours'
  BY DEF RestInv, Honours, NoPost, Frees, RowsGoOn
<1>6. PlainOnce'
  <2> SUFFICES ASSUME ~keyed PROVE PlainOnce'
    BY DEF NoPost, Frees, RowsGoOn, PlainOnce
  <2>1. \A k \in Keys : Unsent(k) =>
          /\ loose'[k] = 0
          /\ \A g \in Requests : req'[g].phase = "arrived" => req'[g].key # k
    BY <1>1 DEF Unsent, Arrived, NoPost, Frees, RowsGoOn
  <2>2. \A k \in Keys :
          /\ sent'[k] = 0 /\ loose'[k] <= 1
          /\ delivery'[k].state \in {"none", "local", "posting"} \cup Terminal
          /\ delivery'[k].state \in {"none", "local"} =>
               /\ loose'[k] = 0
               /\ \A g \in Requests : req'[g].phase = "arrived" => req'[g].key # k
    BY <2>1 DEF RestInv, PlainOnce, NoPost, Frees, RowsGoOn, Terminal
  <2>3. \A h \in Requests : req'[h].phase = "arrived" => loose'[req'[h].key] = 0
    BY <1>1 DEF RestInv, PlainOnce, NoPost, Frees, RowsGoOn
  <2>4. \A g, h \in Requests : req'[h].phase = "arrived" =>
          (req'[g].phase = "arrived" /\ req'[g].key = req'[h].key => g = h)
    BY <1>1 DEF RestInv, PlainOnce, Arrived
  <2>5. \A h \in Requests :
          /\ req'[h].phase \in {"none", "arrived", "reply"}
          /\ req'[h].phase = "reply" => req'[h].answer \in {"sent", "refused", "error"}
    BY <1>1 DEF RestInv, PlainOnce
  <2>6. \A t \in Threads : thread'[t].phase = "post" /\ req'[thread'[t].req].phase = "reply"
          /\ req'[thread'[t].req].answer = "refused" =>
               /\ loose'[thread'[t].flow.key] = 0
               /\ \A g \in Requests : req'[g].phase = "arrived" => req'[g].key # thread'[t].flow.key
    BY <1>2, <2>1 DEF RestInv, PlainOnce
  <2>7. \A t \in Threads : thread'[t].phase = "found" => thread'[t].answer = "unsupported"
    BY DEF RestInv, PlainOnce, NoPost, Frees, RowsGoOn
  <2>8. \A g, h \in Requests : req'[h].phase = "arrived" =>
          /\ loose'[req'[h].key] = 0
          /\ req'[g].phase = "arrived" /\ req'[g].key = req'[h].key => g = h
    BY <1>1, <2>3, <2>4 DEF Arrived
  <2>9. ~proven'
    BY DEF NoPost, Frees, RowsGoOn
  <2>. QED BY <2>2, <2>5, <2>6, <2>7, <2>8, <2>9 DEF PlainOnce, Unsent, Arrived
<1>. QED BY <1>3, <1>4, <1>5, <1>6 DEF RestInv

\* A step that posts: a new request for a version nobody else works on.
Posts(t, h, k) ==
  /\ UNCHANGED <<keyed, sent, loose>>
  /\ req[h].phase = "none" /\ req'[h].phase = "arrived" /\ req'[h].key = k
  /\ \A g \in Requests : g # h => req'[g] = req[g]
  /\ thread'[t].phase = "post" /\ thread'[t].req = h /\ thread'[t].flow.key = k
  /\ \A u \in Threads : u # t =>
       thread'[u] = thread[u] /\ (thread[u].phase # "idle" => thread[u].flow.key # k)
  /\ delivery'[k].state # "none" /\ \A j \in Keys : j # k => delivery'[j] = delivery[j]
  /\ ~keyed => ~proven' /\ delivery'[k].state = "posting" /\ Unsent(k)

LEMMA PostsStep ==
  ASSUME TypeOK, TypeOK', RestInv,
         NEW t \in Threads, NEW h \in Requests, NEW k \in Keys, Posts(t, h, k)
  PROVE  RestInv'
<1>1. \A g \in Requests : g # h /\ req[g].phase # "none" => req'[g] = req[g] /\ req[g].key \in Keys
  BY ReqTyped DEF Posts
<1>2. \A u \in Threads : u # t /\ thread[u].phase = "post" =>
        /\ thread'[u] = thread[u] /\ req'[thread[u].req] = req[thread[u].req]
        /\ thread[u].req \in Requests /\ thread[u].req # h
        /\ thread[u].flow.key \in Keys /\ thread[u].flow.key # k
  BY ThreadTyped DEF Posts, RestInv, RequestsOwned
<1>3. RequestsOwned'
  <2>1. \A g \in Requests : req'[g].phase # "none" => delivery'[req'[g].key].state # "none"
    BY <1>1 DEF RestInv, RequestsOwned, Posts
  <2>2. \A u \in Threads : thread'[u].phase = "post" =>
          req'[thread'[u].req].phase # "none" /\ req'[thread'[u].req].key = thread'[u].flow.key
    BY <1>2 DEF RestInv, RequestsOwned, Posts
  <2>3. \A v, u \in Threads : thread'[v].phase = "post" /\ thread'[u].phase = "post"
          /\ thread'[v].req = thread'[u].req => v = u
    BY <1>2 DEF RestInv, RequestsOwned, Posts
  <2>. QED BY <2>1, <2>2, <2>3 DEF RequestsOwned
<1>4. AnswersTrue'
  BY DEF RestInv, AnswersTrue, Posts
<1>5. Honours'
  BY DEF RestInv, Honours, Posts
<1>6. PlainOnce'
  <2> SUFFICES ASSUME ~keyed PROVE PlainOnce'
    BY DEF Posts, PlainOnce
  <2>1. \A j \in Keys : j # k /\ Unsent(j) =>
          /\ loose'[j] = 0
          /\ \A g \in Requests : req'[g].phase = "arrived" => req'[g].key # j
    BY DEF Unsent, Arrived, Posts
  <2>2. \A j \in Keys :
          /\ sent'[j] = 0 /\ loose'[j] <= 1
          /\ delivery'[j].state \in {"none", "local", "posting"} \cup Terminal
          /\ delivery'[j].state \in {"none", "local"} =>
               /\ loose'[j] = 0
               /\ \A g \in Requests : req'[g].phase = "arrived" => req'[g].key # j
    BY <2>1 DEF RestInv, PlainOnce, Posts, Terminal
  <2>3. \A g \in Requests : req[g].phase = "arrived" => req[g].key # k /\ g # h
    BY DEF Posts, Unsent, Arrived
  <2>4. loose[k] = 0
    BY DEF Posts, Unsent
  <2>5. \A f, g \in Requests : req'[g].phase = "arrived" =>
          /\ loose'[req'[g].key] = 0
          /\ req'[f].phase = "arrived" /\ req'[f].key = req'[g].key => f = g
    BY <2>3, <2>4 DEF RestInv, PlainOnce, Posts, Arrived
  <2>6. \A g \in Requests :
          /\ req'[g].phase \in {"none", "arrived", "reply"}
          /\ req'[g].phase = "reply" => req'[g].answer \in {"sent", "refused", "error"}
    BY DEF RestInv, PlainOnce, Posts
  <2>7. \A u \in Threads : thread'[u].phase = "post" /\ req'[thread'[u].req].phase = "reply"
          /\ req'[thread'[u].req].answer = "refused" =>
               /\ loose'[thread'[u].flow.key] = 0
               /\ \A g \in Requests : req'[g].phase = "arrived" => req'[g].key # thread'[u].flow.key
    <3>1. ASSUME NEW u \in Threads, thread'[u].phase = "post", req'[thread'[u].req].phase = "reply",
                 req'[thread'[u].req].answer = "refused"
          PROVE  /\ loose'[thread'[u].flow.key] = 0
                 /\ \A g \in Requests :
                      req'[g].phase = "arrived" => req'[g].key # thread'[u].flow.key
      <4>1. u # t
        BY <3>1 DEF Posts
      <4>2. thread'[u] = thread[u]
        BY <4>1 DEF Posts
      <4>3. Unsent(thread[u].flow.key)
        BY <1>2, <3>1, <4>1, <4>2 DEF RestInv, PlainOnce
      <4>. QED BY <1>2, <2>1, <3>1, <4>1, <4>2, <4>3
    <3>. QED BY <3>1
  <2>8. \A u \in Threads : thread'[u].phase = "found" => thread'[u].answer = "unsupported"
    BY DEF RestInv, PlainOnce, Posts
  <2>9. ~proven'
    BY DEF Posts
  <2>. QED BY <2>2, <2>5, <2>6, <2>7, <2>8, <2>9 DEF PlainOnce, Unsent, Arrived
<1>. QED BY <1>3, <1>4, <1>5, <1>6 DEF RestInv

-----------------------------------------------------------------------------
(* The server's own steps *)

\* What a handler does to its request and to what went out.
LEMMA HandleAt ==
  ASSUME TypeOK, NEW h \in Requests, S!Handle(h)
  PROVE  /\ keyed' = keyed /\ req[h].key \in Keys /\ req[h].phase \notin {"none", "reply"}
         /\ req'[h].key = req[h].key /\ req'[h].phase \notin {"none", "arrived"}
         /\ \A g \in Requests : g # h => req'[g] = req[g]
<1>1. req[h].phase \notin {"none", "reply"}
  BY DEF S!Handle, S!Refuse, S!Create, S!Claim, S!Leave, S!Submit, S!SubmitRaises, S!Finish,
         S!Answer, S!PlainSend, S!Die
<1>2. req[h].key \in Keys
  BY <1>1, ReqTyped
<1>3. keyed' = keyed
  BY DEF S!Handle, S!Refuse, S!Create, S!Claim, S!Leave, S!Submit, S!SubmitRaises, S!Finish,
         S!Answer, S!PlainSend, S!Die
<1>4. \E r : /\ r.key = req[h].key /\ r.phase \notin {"none", "arrived"}
             /\ req' = [req EXCEPT ![h] = r]
  <2>1. CASE \E answer : S!Reply(h, answer)
    BY <2>1 DEF S!Reply
  <2>2. CASE S!Advance(h, "claim") \/ S!Advance(h, "refresh")
    BY <2>2 DEF S!Advance
  <2>3. CASE S!Claim(h)
    BY <2>3 DEF S!Claim
  <2>4. CASE S!Submit(h)
    BY <2>4 DEF S!Submit
  <2>5. S!Refuse(h) \/ S!SubmitRaises(h) \/ S!Answer(h) \/ S!PlainSend(h) \/ S!Die(h) =>
          \E answer : S!Reply(h, answer)
    BY DEF S!Refuse, S!SubmitRaises, S!Answer, S!PlainSend, S!Die
  <2>6. S!Create(h) \/ S!Leave(h) \/ S!Finish(h) =>
          S!Advance(h, "claim") \/ S!Advance(h, "refresh")
    BY DEF S!Create, S!Leave, S!Finish
  <2>. QED BY <2>1, <2>2, <2>3, <2>4, <2>5, <2>6 DEF S!Handle
<1>. QED BY <1>1, <1>2, <1>3, <1>4, TypeParts DEF S!TypeOK

\* A backend without keys goes from a request at once to what it answers.
LEMMA PlainAt ==
  ASSUME TypeOK, NEW h \in Requests, S!Handle(h), ~keyed, req[h].phase = "arrived"
  PROVE  /\ sent' = sent /\ req'[h].phase = "reply"
         /\ req'[h].answer \in {"sent", "refused", "error"}
         /\ \A k \in Keys : k # req[h].key => loose'[k] = loose[k]
         /\ req'[h].answer = "refused" => loose' = loose
         /\ loose[req[h].key] = 0 =>
              /\ loose'[req[h].key] \in {0, 1}
              /\ req'[h].answer = "sent" => loose'[req[h].key] = 1
<1> DEFINE k == req[h].key
<1>1. k \in Keys /\ loose \in [Keys -> 0 .. S!Many] /\ S!Many = 2 /\ h \in DOMAIN req
  BY ReqTyped, TypeParts DEF S!TypeOK, S!Many
<1>2. S!Refuse(h) \/ S!PlainSend(h) \/ S!Die(h)
  BY DEF S!Handle, S!Create, S!Claim, S!Leave, S!Submit, S!SubmitRaises, S!Finish, S!Answer
<1>3. CASE S!Refuse(h) \/ S!Die(h)
  BY <1>1, <1>3 DEF S!Refuse, S!Die, S!Reply
<1>4. CASE S!PlainSend(h)
  <2>1. PICK taken \in BOOLEAN, cut \in BOOLEAN :
          /\ S!Reply(h, IF taken /\ ~cut THEN "sent" ELSE "error")
          /\ loose' = IF taken /\ loose[k] < S!Many THEN [loose EXCEPT ![k] = @ + 1] ELSE loose
    BY <1>4 DEF S!PlainSend
  <2>2. /\ req'[h].phase = "reply" /\ req'[h].answer \in {"sent", "error"}
        /\ req'[h].answer = "sent" => taken
    BY <1>1, <2>1 DEF S!Reply
  <2>3. \A j \in Keys : j # k => loose'[j] = loose[j]
    BY <1>1, <2>1
  <2>4. loose[k] = 0 => loose'[k] \in {0, 1} /\ (taken => loose'[k] = 1)
    BY <1>1, <2>1
  <2>5. sent' = sent
    BY <1>4 DEF S!PlainSend
  <2>. QED BY <2>2, <2>3, <2>4, <2>5
<1>. QED BY <1>2, <1>3, <1>4

\* A backend with keys answers with its record.
LEMMA KeyedAt ==
  ASSUME TypeOK, NEW h \in Requests, S!Handle(h),
         keyed \/ req[h].phase # "arrived"
  PROVE  /\ loose' = loose
         /\ req'[h].phase = "reply" =>
              req'[h].answer # "sent"
                /\ (req'[h].answer = "accepted" => row'[req[h].key].state = "accepted")
         /\ \/ sent' = sent
            \/ req[h].phase = "submit" /\ sent' = [sent EXCEPT ![req[h].key] = @ + 1]
<1>1. h \in DOMAIN req /\ req[h].key \in Keys /\ ~S!PlainSend(h)
  BY HandleAt, TypeParts DEF S!TypeOK, S!PlainSend
<1>2. loose' = loose
  BY <1>1 DEF S!Handle, S!Refuse, S!Create, S!Claim, S!Leave, S!Submit, S!SubmitRaises, S!Finish,
         S!Answer, S!Die
<1>3. \/ sent' = sent
      \/ req[h].phase = "submit" /\ sent' = [sent EXCEPT ![req[h].key] = @ + 1]
  BY <1>1 DEF S!Handle, S!Refuse, S!Create, S!Claim, S!Leave, S!Submit, S!SubmitRaises, S!Finish,
         S!Answer, S!Die
<1>4. ASSUME req'[h].phase = "reply"
      PROVE  /\ req'[h].answer # "sent"
             /\ req'[h].answer = "accepted" => row'[req[h].key].state = "accepted"
  <2>1. CASE S!Refuse(h) \/ S!SubmitRaises(h) \/ S!Die(h)
    BY <1>1, <2>1 DEF S!Refuse, S!SubmitRaises, S!Die, S!Reply
  <2>2. CASE S!Answer(h)
    <3>1. req'[h].answer = row'[req[h].key].state
      BY <1>1, <2>2 DEF S!Answer, S!Reply
    <3>2. row'[req[h].key].state \in {"none"} \cup S!States
      BY <1>1, <2>2, TypeParts DEF S!Answer, S!Refresh, S!TypeOK, S!States, S!Final
    <3>. QED BY <3>1, <3>2 DEF S!States, S!Final
  <2>3. CASE S!Create(h) \/ S!Leave(h) \/ S!Finish(h)
    BY <1>1, <1>4, <2>3 DEF S!Create, S!Leave, S!Finish, S!Advance
  <2>4. CASE S!Claim(h)
    BY <1>1, <1>4, <2>4 DEF S!Claim
  <2>5. CASE S!Submit(h)
    BY <1>1, <1>4, <2>5 DEF S!Submit
  <2>. QED BY <1>1, <2>1, <2>2, <2>3, <2>4, <2>5 DEF S!Handle
<1>. QED BY <1>2, <1>3, <1>4

\* What the server counts per key, as numbers.
LEMMA CountsTyped ==
  ASSUME TypeOK, NEW k \in Keys
  PROVE  sent[k] \in Nat /\ loose[k] \in Nat
  BY TypeParts DEF S!TypeOK, S!Many

LEMMA HandleStep ==
  ASSUME IInv, IInv', RestInv, NEW h \in Requests, S!Handle(h), UNCHANGED <<delivery, proven, thread>>
  PROVE  RestInv'
<1> DEFINE k == req[h].key
<1>1. TypeOK /\ TypeOK' /\ S!SentOnce /\ S!SentOnce' /\ S!RecordIsTrue'
  BY DEF IInv, ServerInv
<1>2. /\ keyed' = keyed /\ k \in Keys /\ req[h].phase \notin {"none", "reply"}
      /\ req'[h].key = k /\ req'[h].phase \notin {"none", "arrived"}
      /\ \A g \in Requests : g # h => req'[g] = req[g]
  BY <1>1, HandleAt
<1>3. RequestsOwned'
  <2>1. \A g \in Requests : /\ req'[g].phase = "none" <=> req[g].phase = "none"
                            /\ req'[g].key = req[g].key
    BY <1>2
  <2>2. \A t \in Threads : thread[t].phase = "post" => thread[t].req \in Requests
    BY <1>1, ThreadTyped
  <2>. QED BY <2>1, <2>2 DEF RestInv, RequestsOwned
<1>4. CASE keyed \/ req[h].phase # "arrived"
  <2>1. /\ loose' = loose
        /\ req'[h].phase = "reply" =>
             /\ req'[h].answer # "sent"
             /\ req'[h].answer = "accepted" => row'[k].state = "accepted"
        /\ \/ sent' = sent
           \/ req[h].phase = "submit" /\ sent' = [sent EXCEPT ![k] = @ + 1]
    BY <1>1, <1>4, KeyedAt
  <2>2. keyed
    BY <1>2, <1>4 DEF RestInv, PlainOnce
  <2>3. \A j \in Keys : sent[j] = 1 => sent'[j] = 1
    <3>1. \A j \in Keys : sent[j] \in Nat /\ sent'[j] \in Nat /\ sent'[j] <= 1
      BY <1>1, CountsTyped, TypeParts DEF S!SentOnce, S!TypeOK, TypeOK
    <3>2. sent \in [Keys -> Nat]
      BY <1>1, TypeParts DEF S!TypeOK
    <3>. QED BY <1>2, <2>1, <3>1, <3>2
  <2>4. \A g \in Requests : req[g].phase = "reply" => req[g].key \in Keys
    BY <1>1, ReqTyped
  <2>5. \A t \in Threads : thread[t].phase = "found" => thread[t].flow.key \in Keys
    BY <1>1, ThreadTyped
  <2>6. ASSUME NEW g \in Requests, req'[g].phase = "reply"
        PROVE  /\ req'[g].answer = "accepted" => sent'[req'[g].key] = 1
               /\ req'[g].answer = "sent" => loose'[req'[g].key] = 1
    <3>1. CASE g = h
      BY <1>1, <1>2, <2>1, <2>6, <3>1 DEF S!RecordIsTrue
    <3>2. CASE g # h
      BY <1>2, <2>1, <2>3, <2>4, <2>6, <3>2 DEF RestInv, AnswersTrue
    <3>. QED BY <3>1, <3>2
  <2>7. AnswersTrue'
    BY <2>3, <2>5, <2>6 DEF RestInv, AnswersTrue
  <2>8. Honours' /\ PlainOnce'
    BY <1>2, <2>1, <2>2 DEF RestInv, Honours, PlainOnce
  <2>. QED BY <1>3, <2>7, <2>8 DEF RestInv
<1>5. CASE ~keyed /\ req[h].phase = "arrived"
  <2>1. /\ sent' = sent /\ req'[h].phase = "reply"
        /\ req'[h].answer \in {"sent", "refused", "error"}
        /\ \A j \in Keys : j # k => loose'[j] = loose[j]
        /\ req'[h].answer = "refused" => loose' = loose
        /\ loose[k] = 0 =>
             /\ loose'[k] \in {0, 1}
             /\ req'[h].answer = "sent" => loose'[k] = 1
    BY <1>1, <1>5, PlainAt
  <2>2. /\ ~proven /\ loose[k] = 0
        /\ \A g \in Requests : g # h /\ req[g].phase = "arrived" => req[g].key # k
    BY <1>5 DEF RestInv, PlainOnce, Arrived
  <2>3. \A g \in Requests : req[g].phase # "none" => req[g].key \in Keys
    BY <1>1, ReqTyped
  <2>4. \A t \in Threads :
          /\ thread[t].phase = "post" => thread[t].req \in Requests /\ thread[t].flow.key \in Keys
          /\ thread[t].phase = "found" => thread[t].flow.key \in Keys
    BY <1>1, ThreadTyped
  <2>5. AnswersTrue'
    <3>1. ASSUME NEW g \in Requests, req'[g].phase = "reply"
          PROVE  /\ req'[g].answer = "accepted" => sent'[req'[g].key] = 1
                 /\ req'[g].answer = "sent" => loose'[req'[g].key] = 1
      <4>1. CASE g = h
        BY <1>2, <2>1, <2>2, <4>1
      <4>2. CASE g # h
        BY <1>2, <2>1, <2>2, <2>3, <3>1, <4>2 DEF RestInv, AnswersTrue
      <4>. QED BY <4>1, <4>2
    <3>. QED BY <2>1, <2>4, <3>1 DEF RestInv, AnswersTrue
  <2>6. \A j \in Keys : Unsent(j) => j # k
    BY <1>5 DEF Unsent, Arrived
  <2>7. \A j \in Keys : Unsent(j) =>
          /\ loose'[j] = 0
          /\ \A g \in Requests : req'[g].phase = "arrived" => req'[g].key # j
    BY <1>2, <2>1, <2>6 DEF Unsent, Arrived
  <2>8. \A j \in Keys :
          /\ sent'[j] = 0 /\ loose'[j] <= 1
          /\ delivery'[j].state \in {"none", "local", "posting"} \cup Terminal
          /\ delivery'[j].state \in {"none", "local"} =>
               /\ loose'[j] = 0
               /\ \A g \in Requests : req'[g].phase = "arrived" => req'[g].key # j
    BY <1>5, <2>1, <2>2, <2>7 DEF RestInv, PlainOnce
  <2>9. \A f, g \in Requests : req'[g].phase = "arrived" =>
          /\ loose'[req'[g].key] = 0
          /\ req'[f].phase = "arrived" /\ req'[f].key = req'[g].key => f = g
    BY <1>2, <1>5, <2>1, <2>2, <2>3 DEF RestInv, PlainOnce, Arrived
  <2>10. \A g \in Requests :
          /\ req'[g].phase \in {"none", "arrived", "reply"}
          /\ req'[g].phase = "reply" => req'[g].answer \in {"sent", "refused", "error"}
    BY <1>2, <1>5, <2>1 DEF RestInv, PlainOnce
  <2>11. ASSUME NEW t \in Threads, thread[t].phase = "post", req'[thread[t].req].phase = "reply",
                req'[thread[t].req].answer = "refused"
         PROVE  /\ loose'[thread[t].flow.key] = 0
                /\ \A g \in Requests : req'[g].phase = "arrived" => req'[g].key # thread[t].flow.key
    <3>1. CASE thread[t].req = h
      <4>1. thread[t].flow.key = k
        BY <2>11, <3>1 DEF RestInv, RequestsOwned
      <4>2. loose' = loose
        BY <2>1, <2>11, <3>1
      <4>. QED BY <1>2, <2>2, <4>1, <4>2
    <3>2. CASE thread[t].req # h
      <4>1. Unsent(thread[t].flow.key)
        BY <1>2, <1>5, <2>4, <2>11, <3>2 DEF RestInv, PlainOnce
      <4>. QED BY <2>4, <2>7, <2>11, <4>1
    <3>. QED BY <3>1, <3>2
  <2>12. \A t \in Threads : thread[t].phase = "found" => thread[t].answer = "unsupported"
    BY <1>5 DEF RestInv, PlainOnce
  <2>13. PlainOnce'
    BY <2>2, <2>8, <2>9, <2>10, <2>11, <2>12 DEF PlainOnce, Unsent, Arrived
  <2>14. Honours'
    BY <1>2, <1>5 DEF Honours
  <2>. QED BY <1>3, <2>5, <2>13, <2>14 DEF RestInv
<1>. QED BY <1>4, <1>5

LEMMA ServerRest ==
  ASSUME IInv, IInv', RestInv, ServerStep
  PROVE  RestInv'
<1>1. TypeOK /\ TypeOK' /\ UNCHANGED <<delivery, proven, thread>>
  BY DEF IInv, ServerStep
<1>2. CASE \E h \in Requests : S!Handle(h)
  BY <1>1, <1>2, HandleStep
<1>3. ASSUME NEW h \in Requests, S!Gone(h), \A t \in Threads : ~Waits(t, h)
      PROVE  RestInv'
  <2>1. /\ UNCHANGED <<keyed, sent, loose>>
        /\ \A g \in Requests : req'[g] = req[g] \/ req'[g].phase = "none"
        /\ \A g \in Requests : g # h => req'[g] = req[g]
    BY <1>1, <1>3, GoneAt
  <2>2. \A u \in Threads : thread[u].phase = "post" => thread[u].req \in Requests /\ thread[u].req # h
    BY <1>1, <1>3, ThreadTyped DEF Waits
  <2>3. NoPost
    BY <1>1, <2>1, <2>2 DEF NoPost, Frees, RowsGoOn, RestInv, PlainOnce
  <2>. QED BY <1>1, <2>3, NoPostStep
<1>4. CASE \E k \in Keys : S!Lapse(k)
  <2>1. NoPost
    BY <1>1, <1>4 DEF NoPost, Frees, RowsGoOn, S!Lapse, RestInv, PlainOnce
  <2>. QED BY <1>1, <2>1, NoPostStep
<1>. QED BY <1>2, <1>3, <1>4 DEF ServerStep

-----------------------------------------------------------------------------
(* The plugin's steps *)

LEMMA LeavesServer ==
  ASSUME TypeOK, NEW t \in Threads, UNCHANGED <<keyed, req, sent, loose>>,
         thread'[t].phase \notin {"post", "found"},
         \A u \in Threads : u # t => thread'[u] = thread[u]
  PROVE  Frees
  BY DEF Frees

LEMMA FreesOwn ==
  ASSUME TypeOK, RestInv, NEW t \in Threads, thread[t].phase = "post",
         S!Gone(thread[t].req), Release(t)
  PROVE  Frees
<1> DEFINE h == thread[t].req
<1>1. h \in Requests
  BY ThreadTyped
<1> HIDE DEF h
<1>2. /\ UNCHANGED <<keyed, sent, loose>>
      /\ \A g \in Requests : req'[g] = req[g] \/ req'[g].phase = "none"
      /\ \A g \in Requests : g # h => req'[g] = req[g]
  BY <1>1, GoneAt DEF h
<1>3. \A u \in Threads : u # t /\ thread[u].phase = "post" =>
        thread[u].req # h /\ thread[u].req \in Requests
  BY ThreadTyped DEF RestInv, RequestsOwned, h
<1>4. thread'[t] = Idle /\ \A u \in Threads : u # t => thread'[u] = thread[u]
  BY ReleaseAt
<1>5. Idle.phase = "idle"
  BY DEF Idle
<1>. QED BY <1>2, <1>3, <1>4, <1>5 DEF Frees

\* A thread that goes on to post again what is its own.
LEMMA OwnPosts ==
  ASSUME TypeOK, TypeOK', OwnInv, RestInv, NEW t \in Threads, thread[t].phase # "idle",
         PostUnder(t, thread[t].flow, FALSE), UNCHANGED delivery, keyed
  PROVE  RestInv'
<1> DEFINE k == thread[t].flow.key
<1>1. k \in Keys /\ delivery[k].state # "none"
  BY ThreadTyped DEF OwnInv, ThreadsOwn
<1>2. PICK h \in Requests : PostedAs(t, thread[t].flow, h)
  BY PostAt
<1>3. \A u \in Threads : u # t /\ thread[u].phase # "idle" => thread[u].flow.key # k
  BY OwnersDiffer DEF OwnInv
<1>4. Posts(t, h, k)
  BY <1>1, <1>2, <1>3 DEF Posts, PostedAs
<1>. QED BY <1>1, <1>4, PostsStep

LEMMA ThreadRest ==
  ASSUME IInv, IInv', OwnInv, RestInv, NEW t \in Threads, Thread(t)
  PROVE  RestInv'
<1> DEFINE k == thread[t].flow.key
<1>1. /\ TypeOK /\ TypeOK' /\ S!RecordIsTrue'
      /\ proven' \in BOOLEAN
  BY DEF IInv, ServerInv, TypeOK
<1>2. /\ k \in Keys /\ thread[t].phase # "idle"
      /\ \A j \in Keys : j # k => delivery'[j] = delivery[j]
      /\ delivery'[k].state # "none"
  BY <1>1, ThreadStep
<1>3. ASSUME ~keyed => ~proven',
             \/ keyed
             \/ delivery'[k].state = delivery[k].state
             \/ delivery'[k].state \in Terminal
             \/ delivery'[k].state = "local" /\ Unsent(k)
      PROVE  RowsGoOn
  BY <1>2, <1>3 DEF RowsGoOn
<1>4. ~keyed => ~proven
  BY DEF RestInv, PlainOnce
<1>5. CASE PostAdopted(t)
  <2>1. Frees /\ thread[t].req \in Requests
    BY <1>1, <1>5, FreesOwn, ThreadTyped DEF PostAdopted, Answered
  <2>2. ~keyed => req[thread[t].req].answer = "sent"
    BY <1>5, <2>1 DEF RestInv, PlainOnce, PostAdopted, Answered, S!States, S!Final
  <2>3. ~keyed => ~proven' /\ Put(k, "accepted")
    BY <1>5, <2>2 DEF PostAdopted, Adopt
  <2>4. ~keyed => delivery'[k].state = "accepted"
    BY <1>1, <1>2, <2>3, PutAt
  <2>. QED BY <1>1, <1>3, <2>1, <2>3, <2>4, NoPostStep DEF NoPost, Terminal
<1>6. CASE PostRefused(t)
  <2>1. Frees
    BY <1>1, <1>6, FreesOwn DEF PostRefused, Answered
  <2>2. delivery'[k].state \in {"failed", "local"}
    BY <1>1, <1>2, <1>6, PutAt DEF PostRefused
  <2>3. ~keyed => Unsent(k)
    BY <1>6 DEF RestInv, PlainOnce, PostRefused, Answered
  <2>4. UNCHANGED proven
    BY <1>6 DEF PostRefused
  <2>. QED BY <1>1, <1>3, <1>4, <2>1, <2>2, <2>3, <2>4, NoPostStep DEF NoPost, Terminal
<1>7. CASE PostLost(t)
  <2>1. UNCHANGED <<delivery, proven>>
    BY <1>7 DEF PostLost
  <2>2. RowsGoOn
    BY <1>2, <1>3, <1>4, <2>1
  <2>3. CASE Release(t) /\ UNCHANGED server
    <3>1. thread'[t].phase \notin {"post", "found"} /\ \A u \in Threads : u # t => thread'[u] = thread[u]
      BY <1>1, <2>3, ReleaseAt DEF Idle
    <3>2. Frees
      BY <1>1, <2>3, <3>1, LeavesServer DEF server
    <3>. QED BY <1>1, <2>2, <3>2, NoPostStep DEF NoPost
  <2>4. CASE MayRepost(TRUE) /\ PostUnder(t, thread[t].flow, FALSE)
    BY <1>1, <1>2, <1>4, <2>1, <2>4, OwnPosts DEF MayRepost
  <2>5. CASE Ask(t, thread[t].flow, "post") /\ UNCHANGED server
    <3>1. /\ thread'[t] = [phase |-> "lookup", flow |-> thread[t].flow, missing |-> "post"]
          /\ \A u \in Threads : u # t => thread'[u] = thread[u]
      BY <1>1, <2>5, AskAt
    <3>2. Frees
      BY <1>1, <2>5, <3>1, LeavesServer DEF server
    <3>. QED BY <1>1, <2>2, <3>2, NoPostStep DEF NoPost
  <2>. QED BY <1>7, <2>3, <2>4, <2>5 DEF PostLost
<1>8. CASE Look(t)
  <2>1. UNCHANGED <<delivery, proven, keyed, req, sent, loose>>
    BY <1>8 DEF Look, S!Lookup
  <2>2. /\ \A u \in Threads : u # t => thread'[u] = thread[u]
        /\ thread'[t].phase = "found" /\ thread'[t].flow.key = k
        /\ thread'[t].answer = S!Found(k)
    BY <1>1, <1>8, TypeParts DEF Look, ThreadsTyped
  <2>3. ~keyed => S!Found(k) = "unsupported"
    BY DEF S!Found
  <2>4. S!Found(k) = "accepted" => row'[k].state = "accepted"
    BY DEF S!Found
  <2>5. S!Found(k) = "accepted" => sent[k] = 1
    BY <1>1, <1>2, <2>1, <2>4 DEF S!RecordIsTrue
  <2>6. Frees
    BY <1>2, <2>1, <2>2, <2>3, <2>5 DEF Frees
  <2>7. RowsGoOn
    BY <1>2, <1>3, <1>4, <2>1
  <2>. QED BY <1>1, <2>6, <2>7, NoPostStep DEF NoPost
<1>9. CASE LookAdopted(t) \/ LookUnsupported(t)
  <2>1. Release(t) /\ UNCHANGED server
    BY <1>9 DEF LookAdopted, LookUnsupported
  <2>2. thread'[t].phase \notin {"post", "found"} /\ \A u \in Threads : u # t => thread'[u] = thread[u]
    BY <1>1, <2>1, ReleaseAt DEF Idle
  <2>3. Frees
    BY <1>1, <2>1, <2>2, LeavesServer DEF server
  <2>4. ~keyed => ~LookAdopted(t)
    BY DEF LookAdopted, RestInv, PlainOnce, S!States, S!Final
  <2>5. ~keyed => ~proven' /\ Put(k, "unknown")
    BY <1>9, <2>4 DEF LookUnsupported
  <2>6. ~keyed => delivery'[k].state = "unknown"
    BY <1>1, <1>2, <2>5, PutAt
  <2>. QED BY <1>1, <1>3, <2>3, <2>5, <2>6, NoPostStep DEF NoPost, Terminal
<1>10. CASE LookMissing(t)
  <2>1. keyed
    BY <1>10 DEF LookMissing, RestInv, PlainOnce
  <2>2. CASE PostUnder(t, thread[t].flow, FALSE) /\ UNCHANGED delivery
    BY <1>1, <1>2, <2>1, <2>2, OwnPosts
  <2>3. CASE Release(t) /\ UNCHANGED server
    <3>1. thread'[t].phase \notin {"post", "found"} /\ \A u \in Threads : u # t => thread'[u] = thread[u]
      BY <1>1, <2>3, ReleaseAt DEF Idle
    <3>2. Frees
      BY <1>1, <2>3, <3>1, LeavesServer DEF server
    <3>. QED BY <1>1, <1>3, <2>1, <3>2, NoPostStep DEF NoPost
  <2>. QED BY <1>10, <2>2, <2>3 DEF LookMissing
<1>11. CASE LookLost(t)
  <2>1. Release(t) /\ UNCHANGED <<server, delivery, proven>>
    BY <1>11 DEF LookLost
  <2>2. thread'[t].phase \notin {"post", "found"} /\ \A u \in Threads : u # t => thread'[u] = thread[u]
    BY <1>1, <2>1, ReleaseAt DEF Idle
  <2>3. Frees
    BY <1>1, <2>1, <2>2, LeavesServer DEF server
  <2>4. RowsGoOn
    BY <1>2, <1>3, <1>4, <2>1
  <2>. QED BY <1>1, <2>3, <2>4, NoPostStep DEF NoPost
<1>. QED BY <1>5, <1>6, <1>7, <1>8, <1>9, <1>10, <1>11 DEF Thread

\* A version that nobody works on is posted for the first time, or again on a server
\* with keys.
FirstOrKeyed(k) ==
  ~keyed => delivery[k].state \in {"none", "local"} /\ delivery'[k].state = "posting"

LEMMA StartPosts ==
  ASSUME TypeOK, TypeOK', OwnInv, RestInv, NEW t \in Threads, NEW flow, NEW again \in BOOLEAN,
         NEW k \in Keys, flow.key = k, PostUnder(t, flow, again), UNCHANGED proven,
         \A u \in Threads : u # t /\ thread[u].phase # "idle" => thread[u].flow.key # k,
         delivery'[k].state # "none", \A j \in Keys : j # k => delivery'[j] = delivery[j],
         FirstOrKeyed(k)
  PROVE  RestInv'
<1>1. PICK h \in Requests : PostedAs(t, flow, h)
  BY PostAt
<1>2. ~keyed => ~proven /\ Unsent(k)
  BY DEF RestInv, PlainOnce, FirstOrKeyed
<1>3. Posts(t, h, k)
  BY <1>1, <1>2 DEF Posts, PostedAs, FirstOrKeyed
<1>. QED BY <1>3, PostsStep

LEMMA AdvanceRest ==
  ASSUME TypeOK, TypeOK', OwnInv, RestInv, NEW k \in Keys, NEW may \in BOOLEAN, AdvanceEmail(k, may)
  PROVE  RestInv'
<1> DEFINE flow == [key |-> k, attempts |-> delivery[k].attempts, retry |-> TRUE]
           more == [flow EXCEPT !.attempts = OneMore(@)]
<1>1. /\ "outbox" \in Threads /\ flow.key = k /\ more.key = k
      /\ UNCHANGED proven /\ delivery[k].state \notin Terminal \cup {"none"}
      /\ ~(thread[k.mail].phase # "idle" /\ thread[k.mail].flow.key = k)
  BY ThreadNames DEF AdvanceEmail, Owned
<1> HIDE DEF flow, more
<1>2. ASSUME NEW u \in Threads, u # "outbox", thread[u].phase # "idle" PROVE thread[u].flow.key # k
  <2>1. u \in Mails /\ thread[u].flow.key = First(u) /\ First(u).mail = u
    BY <1>2, ThreadNames DEF OwnInv, ThreadsOwn, First
  <2>. QED BY <1>1, <1>2, <2>1
<1>3. /\ delivery'[k].state # "none" /\ \A j \in Keys : j # k => delivery'[j] = delivery[j]
  BY <1>1, AdvanceAt
<1>4. CASE /\ delivery[k].state = "local" /\ delivery'[k].state = "posting"
           /\ PostUnder("outbox", more, FALSE)
  <2>1. FirstOrKeyed(k)
    BY <1>4 DEF FirstOrKeyed
  <2>. QED BY <1>1, <1>2, <1>3, <1>4, <2>1, StartPosts
<1>5. CASE keyed /\ PostUnder("outbox", flow, FALSE)
  <2>1. FirstOrKeyed(k)
    BY <1>5 DEF FirstOrKeyed
  <2>2. PostUnder("outbox", flow, FALSE)
    BY <1>5
  <2>. QED BY <1>1, <1>2, <1>3, <2>1, <2>2, StartPosts
<1>6. CASE /\ UNCHANGED <<server, delivery>>
           /\ \E missing \in Missing : Ask("outbox", flow, missing)
  <2>1. PICK missing \in Missing : Ask("outbox", flow, missing)
    BY <1>6
  <2>2. /\ thread'["outbox"] = [phase |-> "lookup", flow |-> flow, missing |-> missing]
        /\ \A u \in Threads : u # "outbox" => thread'[u] = thread[u]
    BY <1>1, <2>1, AskAt
  <2>3. Frees
    BY <1>1, <1>6, <2>2, LeavesServer DEF server
  <2>4. RowsGoOn
    BY <1>1, <1>6 DEF RowsGoOn, RestInv, PlainOnce
  <2>. QED BY <2>3, <2>4, NoPostStep DEF NoPost
<1>7. \A b \in BOOLEAN : (IF b THEN "post" ELSE "hold") \in Missing /\ "settle" \in Missing
  BY DEF Missing
<1>8. ~keyed => ~proven /\ delivery[k].state \notin {"queued", "retry_wait"}
  BY DEF RestInv, PlainOnce, Terminal
<1>9. \/ /\ delivery[k].state = "local" /\ PostUnder("outbox", more, FALSE)
         /\ delivery' = [delivery EXCEPT ![k].state = "posting", ![k].attempts = OneMore(@)]
      \/ /\ \/ delivery[k].state = "posting" /\ MayRepost(may)
            \/ delivery[k].state \in {"queued", "retry_wait"} /\ may
         /\ PostUnder("outbox", flow, FALSE)
      \/ /\ UNCHANGED <<server, delivery>>
         /\ \E missing \in Missing : Ask("outbox", flow, missing)
  BY <1>7 DEF AdvanceEmail, flow, more
<1>10. ASSUME delivery[k].state = "local", 
              delivery' = [delivery EXCEPT ![k].state = "posting", ![k].attempts = OneMore(@)]
       PROVE  delivery'[k].state = "posting"
  <2> DEFINE mid == [delivery EXCEPT ![k].state = "posting"]
  <2>1. DOMAIN mid = Keys /\ mid[k].state = "posting" /\ DOMAIN mid[k] = {"state", "attempts", "resolved"}
    BY TypeParts DEF DeliveryTyped
  <2>2. delivery' = [mid EXCEPT ![k].attempts = OneMore(@)]
    BY <1>10
  <2> HIDE DEF mid
  <2>. QED BY <2>1, <2>2
<1>. QED BY <1>4, <1>5, <1>6, <1>8, <1>9, <1>10 DEF MayRepost

LEMMA ToolRest ==
  ASSUME TypeOK, TypeOK', OwnInv, RestInv, NEW m \in Mails, SendTool(m)
  PROVE  RestInv'
<1> DEFINE k == First(m)
           flow == [key |-> k, attempts |-> 1, retry |-> FALSE]
<1>1. /\ k \in Keys /\ m \in Threads /\ flow.key = k
      /\ delivery[k].state = "none" /\ delivery'[k].state = "posting"
      /\ \A j \in Keys : j # k => delivery'[j] = delivery[j]
  BY ToolAt, ThreadNames
<1>2. PostUnder(m, flow, TRUE) /\ UNCHANGED proven
  BY DEF SendTool
<1>3. \A u \in Threads : u # m /\ thread[u].phase # "idle" => thread[u].flow.key # k
  BY <1>1 DEF OwnInv, ThreadsOwn
<1> HIDE DEF flow, k
<1>4. FirstOrKeyed(k)
  BY <1>1 DEF FirstOrKeyed
<1>. QED BY <1>1, <1>2, <1>3, <1>4, StartPosts

\* Rows that the reader and the operator write while nothing is asked.
LEMMA RowsRest ==
  ASSUME TypeOK, TypeOK', RestInv, UNCHANGED <<server, proven, thread>>,
         \A k \in Keys :
           \/ delivery'[k].state = delivery[k].state
           \/ delivery[k].state = "none" /\ delivery'[k].state = "local"
  PROVE  RestInv'
<1>1. Frees
  BY DEF Frees, server
<1>2. \A k \in Keys : ~keyed /\ delivery[k].state = "none" => Unsent(k)
  BY DEF RestInv, PlainOnce
<1>3. RowsGoOn
  BY <1>2 DEF RowsGoOn, RestInv, PlainOnce
<1>. QED BY <1>1, <1>3, NoPostStep DEF NoPost

\* All that the refinement rests on.
RInv == deploys = 0 /\ OwnInv /\ RestInv

LEMMA InitRInv == Init => RInv
<1> SUFFICES ASSUME Init PROVE RInv
  OBVIOUS
<1>1. /\ \A t \in Threads : thread[t].phase = "idle"
      /\ \A k \in Keys : delivery[k].state = "none" /\ ~delivery[k].resolved
      /\ \A h \in Requests : req[h].phase = "none"
      /\ \A k \in Keys : sent[k] = 0 /\ loose[k] = 0
      /\ ~proven /\ deploys = 0
  BY DEF Init, Idle, NoDelivery, S!Init, S!NoReq
<1>2. OwnInv
  BY <1>1, ThreadNames DEF OwnInv, ThreadsOwn, VersionsInTurn
<1>3. RequestsOwned /\ AnswersTrue /\ Honours
  BY <1>1 DEF RequestsOwned, AnswersTrue, Honours
<1>4. PlainOnce
  BY <1>1 DEF PlainOnce, Unsent, Arrived
<1>. QED BY <1>1, <1>2, <1>3, <1>4 DEF RInv, RestInv

LEMMA StepRInv ==
  ASSUME MaxDeploys = 0, IInv, IInv', RInv, [Next]_vars
  PROVE  RInv'
<1>1. TypeOK /\ TypeOK' /\ OwnInv /\ RestInv /\ deploys = 0
  BY DEF IInv, RInv
<1>2. OwnInv'
  BY <1>1, OwnStep
<1>3. deploys' = 0 /\ ~Deploy
  <2>1. ~Deploy
    BY <1>1 DEF Deploy
  <2>2. UNCHANGED deploys
    BY <2>1 DEF Next, Intend, SendTool, AdvanceEmail, Resend, Dismiss, Thread, PostAdopted, PostRefused,
       PostLost, Look, LookAdopted, LookUnsupported, LookMissing, LookLost, Restart, ServerStep, bounds, vars
  <2>. QED BY <1>1, <2>1, <2>2
<1>4. RestInv'
  <2>1. ASSUME NEW m \in Mails, Intend(m) PROVE RestInv'
    <3>1. \A k \in Keys :
            \/ delivery'[k].state = delivery[k].state
            \/ delivery[k].state = "none" /\ delivery'[k].state = "local"
      BY <1>1, <2>1, KeysTyped, PutAt DEF Intend
    <3>. QED BY <1>1, <2>1, <3>1, RowsRest DEF Intend
  <2>2. ASSUME NEW m \in Mails, SendTool(m) PROVE RestInv'
    BY <1>1, <2>2, ToolRest
  <2>3. ASSUME NEW k \in Keys, NEW may \in BOOLEAN, AdvanceEmail(k, may) PROVE RestInv'
    BY <1>1, <2>3, AdvanceRest
  <2>4. ASSUME NEW k \in Keys, Resend(k) PROVE RestInv'
    <3>1. \A j \in Keys :
            \/ delivery'[j].state = delivery[j].state
            \/ delivery[j].state = "none" /\ delivery'[j].state = "local"
      BY <1>1, <2>4, ResendAt
    <3>. QED BY <1>1, <2>4, <3>1, RowsRest DEF Resend
  <2>5. ASSUME NEW k \in Keys, Dismiss(k) PROVE RestInv'
    <3>1. \A j \in Keys : delivery'[j].state = delivery[j].state
      BY <1>1, <2>5, TypeParts DEF Dismiss, DeliveryTyped
    <3>. QED BY <1>1, <2>5, <3>1, RowsRest DEF Dismiss
  <2>6. ASSUME NEW t \in Threads, Thread(t) PROVE RestInv'
    BY <1>1, <2>6, ThreadRest
  <2>7. CASE Restart
    <3>1. Frees
      BY <2>7 DEF Restart, Frees, server, Idle
    <3>2. RowsGoOn
      BY <1>1, <2>7 DEF Restart, RowsGoOn, RestInv, PlainOnce
    <3>. QED BY <1>1, <3>1, <3>2, NoPostStep DEF NoPost
  <2>8. CASE ServerStep
    BY <1>1, <2>8, ServerRest
  <2>9. CASE UNCHANGED vars
    BY <1>1, <2>9, RowsRest DEF vars
  <2>. QED BY <1>3, <2>1, <2>2, <2>3, <2>4, <2>5, <2>6, <2>7, <2>8, <2>9 DEF Next
<1>. QED BY <1>2, <1>3, <1>4 DEF RInv

-----------------------------------------------------------------------------
(* Every step is one of EmailSends, or leaves what it tells alone *)

Claims == [k \in Keys |-> Claim(k)]
Outs == [k \in Keys |-> sent[k] + loose[k]]

SendsStep == [E!Next]_<<Claims, Outs>>

LEMMA ClaimIs ==
  ASSUME TypeOK, NEW k \in Keys
  PROVE  /\ Claim(k) = IF delivery[k].state \in {"none"} \cup Terminal THEN delivery[k].state ELSE "open"
         /\ Claims[k] = Claim(k) /\ Outs[k] = sent[k] + loose[k]
         /\ sent[k] \in Nat /\ loose[k] \in Nat
  BY CountsTyped DEF Claims, Outs, Claim

\* The claims of a step that leaves all rows but one as they are.
LEMMA ClaimMoves ==
  ASSUME TypeOK, NEW k \in Keys, \A j \in Keys : j # k => delivery'[j].state = delivery[j].state
  PROVE  Claims' = [Claims EXCEPT ![k] = Claim(k)']
<1>1. \A j \in Keys : j # k => Claim(j)' = Claim(j)
  BY DEF Claim
<1>. QED BY <1>1 DEF Claims

LEMMA ClaimsStay ==
  ASSUME \A j \in Keys : delivery'[j].state = delivery[j].state
  PROVE  Claims' = Claims
<1>1. \A j \in Keys : Claim(j)' = Claim(j)
  BY DEF Claim
<1>. QED BY <1>1 DEF Claims

LEMMA OutsStay ==
  ASSUME UNCHANGED <<sent, loose>>
  PROVE  Outs' = Outs
  BY DEF Outs

\* A row that nobody decided is opened.
LEMMA Opens ==
  ASSUME TypeOK, NEW k \in Keys, UNCHANGED <<sent, loose>>,
         \A j \in Keys : j # k => delivery'[j].state = delivery[j].state,
         delivery[k].state = "none", delivery'[k].state \in {"local", "posting"},
         k.version > 1 => delivery[[k EXCEPT !.version = @ - 1]].state \in {"failed", "unknown"}
  PROVE  SendsStep
<1>1. Claims' = [Claims EXCEPT ![k] = Claim(k)'] /\ Outs' = Outs
  BY ClaimMoves, OutsStay
<1>2. Claim(k)' = "open" /\ Claims[k] = "none"
  BY DEF Claim, Claims, Terminal
<1>3. k.version > 1 => Claims[[k EXCEPT !.version = @ - 1]] \in {"failed", "unknown"}
  <2>1. k.version > 1 => [k EXCEPT !.version = @ - 1] \in Keys
    BY OutboxAssumption DEF Keys
  <2>2. \A j \in Keys : delivery[j].state \in {"failed", "unknown"} => Claims[j] = delivery[j].state
    BY DEF Claims, Claim, Terminal
  <2>. QED BY <2>1, <2>2
<1>4. E!Open(k)
  BY <1>1, <1>2, <1>3 DEF E!Open, Claims, Outs
<1>. QED BY <1>4 DEF SendsStep, E!Next, E!Keys, Keys

\* An open one is settled: accepted only when it went out.
LEMMA Settles ==
  ASSUME TypeOK, NEW k \in Keys, UNCHANGED <<sent, loose>>,
         \A j \in Keys : j # k => delivery'[j].state = delivery[j].state,
         delivery[k].state \notin {"none"} \cup Terminal, delivery'[k].state \in Terminal,
         delivery'[k].state = "accepted" => sent[k] + loose[k] = 1
  PROVE  SendsStep
<1> DEFINE s == delivery'[k].state
<1>1. Claims' = [Claims EXCEPT ![k] = Claim(k)'] /\ Outs' = Outs
  BY ClaimMoves, OutsStay
<1>2. Claim(k)' = s /\ Claims[k] = "open" /\ Outs[k] = sent[k] + loose[k]
  BY DEF Claim, Claims, Outs
<1>3. E!Settle(k, s)
  BY <1>1, <1>2 DEF E!Settle, Claims, Outs
<1>4. s \in E!Settled
  BY DEF E!Settled, Terminal
<1>. QED BY <1>3, <1>4 DEF SendsStep, E!Next, E!Keys, Keys

\* One that is there and did not go out goes out.
LEMMA GoesOut ==
  ASSUME TypeOK, NEW k \in Keys, \A j \in Keys : delivery'[j].state = delivery[j].state,
         delivery[k].state # "none", sent[k] + loose[k] = 0, sent'[k] + loose'[k] = 1,
         \A j \in Keys : j # k => sent'[j] = sent[j] /\ loose'[j] = loose[j]
  PROVE  SendsStep
<1>1. Claims' = Claims
  BY ClaimsStay
<1>2. Claims[k] # "none" /\ Outs[k] = 0
  BY DEF Claims, Claim, Terminal, Outs
<1>3. Outs' = [Outs EXCEPT ![k] = 1]
  BY DEF Outs
<1>4. E!GoOut(k)
  BY <1>1, <1>2, <1>3 DEF E!GoOut, Claims, Outs
<1>. QED BY <1>4 DEF SendsStep, E!Next, E!Keys, Keys

LEMMA Stutters ==
  ASSUME UNCHANGED <<sent, loose>>, \A j \in Keys : delivery'[j].state = delivery[j].state
  PROVE  SendsStep
  BY ClaimsStay, OutsStay DEF SendsStep

LEMMA HandleMaps ==
  ASSUME IInv, IInv', RInv, NEW h \in Requests, S!Handle(h), UNCHANGED delivery
  PROVE  SendsStep
<1> DEFINE k == req[h].key
<1>1. /\ TypeOK /\ TypeOK' /\ S!SentOnce' /\ RestInv
      /\ \A j \in Keys : delivery'[j].state = delivery[j].state
  BY DEF IInv, ServerInv, RInv
<1>2. /\ k \in Keys /\ delivery[k].state # "none" /\ req[h].phase # "none"
      /\ sent[k] \in Nat /\ loose[k] \in Nat /\ sent'[k] \in Nat /\ sent'[k] <= 1
      /\ sent \in [Keys -> Nat]
  <2>1. k \in Keys /\ req[h].phase # "none"
    BY <1>1, HandleAt
  <2>2. sent'[k] \in Nat /\ sent'[k] <= 1
    BY <1>1, <2>1, TypeParts DEF S!SentOnce, TypeOK, S!TypeOK
  <2>. QED BY <1>1, <2>1, <2>2, CountsTyped, TypeParts DEF RestInv, RequestsOwned, S!TypeOK
<1>3. CASE keyed \/ req[h].phase # "arrived"
  <2>1. /\ loose' = loose
        /\ sent' = sent \/ sent' = [sent EXCEPT ![k] = @ + 1]
    BY <1>1, <1>3, KeyedAt
  <2>2. keyed
    BY <1>1, <1>2, <1>3, HandleAt DEF RestInv, PlainOnce
  <2>3. loose[k] = 0
    BY <1>1, <1>2, <2>2 DEF RestInv, Honours
  <2>4. CASE sent' = sent
    BY <1>1, <2>1, <2>4, Stutters
  <2>5. CASE sent' = [sent EXCEPT ![k] = @ + 1]
    <3>1. sent'[k] = sent[k] + 1 /\ \A j \in Keys : j # k => sent'[j] = sent[j]
      BY <1>2, <2>5
    <3>2. sent[k] + loose[k] = 0 /\ sent'[k] + loose'[k] = 1
      BY <1>2, <2>1, <2>3, <3>1
    <3>. QED BY <1>1, <1>2, <2>1, <3>1, <3>2, GoesOut
  <2>. QED BY <2>1, <2>4, <2>5
<1>4. CASE ~keyed /\ req[h].phase = "arrived"
  <2>1. /\ sent' = sent /\ \A j \in Keys : j # k => loose'[j] = loose[j]
        /\ loose[k] = 0 => loose'[k] \in {0, 1}
    BY <1>1, <1>4, PlainAt
  <2>2. sent[k] = 0 /\ loose[k] = 0
    BY <1>1, <1>2, <1>4 DEF RestInv, PlainOnce
  <2>3. CASE loose'[k] = 0
    <3>1. loose' = loose
      BY <1>1, <1>2, <2>1, <2>2, <2>3, TypeParts DEF TypeOK, S!TypeOK
    <3>. QED BY <1>1, <2>1, <3>1, Stutters
  <2>4. CASE loose'[k] = 1
    <3>1. sent[k] + loose[k] = 0 /\ sent'[k] + loose'[k] = 1
      BY <2>1, <2>2, <2>4
    <3>. QED BY <1>1, <1>2, <2>1, <3>1, GoesOut
  <2>. QED BY <2>1, <2>2, <2>3, <2>4
<1>. QED BY <1>3, <1>4

\* What a thread calls accepted is out.
LEMMA AcceptedIsOut ==
  ASSUME TypeOK, OwnInv, RestInv, NEW t \in Threads, Thread(t),
         delivery'[thread[t].flow.key].state = "accepted"
  PROVE  sent[thread[t].flow.key] + loose[thread[t].flow.key] = 1
<1> DEFINE k == thread[t].flow.key
<1>1. /\ k \in Keys /\ delivery[k].state # "accepted"
      /\ sent[k] \in Nat /\ loose[k] \in Nat
  BY ThreadStep, ThreadTyped, CountsTyped DEF OwnInv, ThreadsOwn, Terminal
<1>2. sent[k] = 1 \/ loose[k] = 1
  <2>1. CASE PostAdopted(t)
    <3>1. /\ thread[t].req \in Requests /\ req[thread[t].req].phase = "reply"
          /\ req[thread[t].req].key = k
      BY <2>1, ThreadTyped DEF PostAdopted, Answered, RestInv, RequestsOwned
    <3>2. req[thread[t].req].answer \in {"accepted", "sent"}
      BY <1>1, <2>1, PutAt DEF PostAdopted, Adopt
    <3>. QED BY <3>1, <3>2 DEF RestInv, AnswersTrue
  <2>2. CASE LookAdopted(t)
    <3>1. thread[t].phase = "found" /\ thread[t].answer \in S!States
      BY <2>2 DEF LookAdopted
    <3>2. thread[t].answer = "accepted"
      BY <1>1, <2>2, <3>1, PutAt DEF LookAdopted, Adopt, S!States, S!Final
    <3>. QED BY <3>1, <3>2 DEF RestInv, AnswersTrue
  <2>3. CASE PostRefused(t) \/ LookUnsupported(t)
    <3>1. \E state \in {"failed", "local", "unknown"} : Put(k, state)
      BY <2>3 DEF PostRefused, LookUnsupported
    <3>. QED BY <1>1, <3>1, PutAt
  <2>4. CASE LookMissing(t)
    <3>1. delivery' = delivery \/ \E state \in {"local", "unknown"} : Put(k, state)
      BY <2>4 DEF LookMissing
    <3>. QED BY <1>1, <3>1, PutAt
  <2>5. CASE PostLost(t) \/ Look(t) \/ LookLost(t)
    <3>1. delivery' = delivery
      BY <2>5 DEF PostLost, Look, LookLost
    <3>. QED BY <1>1, <3>1
  <2>. QED BY <2>1, <2>2, <2>3, <2>4, <2>5 DEF Thread
<1>3. keyed => loose[k] = 0
  BY <1>1 DEF RestInv, Honours
<1>4. ~keyed => sent[k] = 0
  BY <1>1 DEF RestInv, PlainOnce
<1>5. \/ sent[k] = 1 /\ loose[k] = 0
      \/ sent[k] = 0 /\ loose[k] = 1
  <2>1. loose[k] = 0 \/ sent[k] = 0
    BY <1>3, <1>4
  <2>. QED BY <1>2, <2>1
<1>. QED BY <1>5

\* All steps but the server's own leave the counts alone.
LEMMA CountsStay ==
  ASSUME TypeOK, MaxDeploys = 0, deploys = 0, [Next]_vars, ~ServerStep
  PROVE  UNCHANGED <<sent, loose>>
<1>1. ASSUME NEW t, NEW flow, NEW again \in BOOLEAN, PostUnder(t, flow, again)
      PROVE  UNCHANGED <<sent, loose>>
  BY <1>1 DEF PostUnder, S!Post
<1>2. ASSUME NEW t \in Threads, Thread(t) PROVE UNCHANGED <<sent, loose>>
  BY <1>1, <1>2 DEF Thread, PostAdopted, PostRefused, PostLost, Look, LookAdopted, LookUnsupported,
     LookMissing, LookLost, S!Gone, S!Lookup, server
<1>3. ASSUME NEW k \in Keys, NEW may \in BOOLEAN, AdvanceEmail(k, may)
      PROVE  UNCHANGED <<sent, loose>>
  BY <1>3 DEF AdvanceEmail, server
<1>4. ASSUME NEW m \in Mails, Intend(m) \/ SendTool(m) PROVE UNCHANGED <<sent, loose>>
  BY <1>4 DEF Intend, SendTool, server
<1>5. ASSUME NEW k \in Keys, Resend(k) \/ Dismiss(k) PROVE UNCHANGED <<sent, loose>>
  BY <1>5 DEF Resend, Dismiss, server
<1>6. ~Deploy
  BY DEF Deploy
<1>7. Restart \/ UNCHANGED vars => UNCHANGED <<sent, loose>>
  BY DEF Restart, server, vars
<1>. QED BY <1>2, <1>3, <1>4, <1>5, <1>6, <1>7 DEF Next

LEMMA StepMaps ==
  ASSUME MaxDeploys = 0, IInv, IInv', RInv, [Next]_vars
  PROVE  SendsStep
<1>1. TypeOK /\ TypeOK' /\ OwnInv /\ RestInv /\ deploys = 0
  BY DEF IInv, RInv
<1>2. CASE ServerStep
  <2>1. UNCHANGED delivery
    BY <1>2 DEF ServerStep
  <2>2. CASE \E h \in Requests : S!Handle(h)
    BY <2>1, <2>2, HandleMaps
  <2>3. CASE UNCHANGED <<sent, loose>>
    BY <2>1, <2>3, Stutters
  <2>4. (\E h \in Requests : S!Gone(h)) \/ (\E k \in Keys : S!Lapse(k)) => UNCHANGED <<sent, loose>>
    BY DEF S!Gone, S!Lapse
  <2>. QED BY <1>2, <2>2, <2>3, <2>4 DEF ServerStep
<1>3. CASE ~ServerStep
  <2>1. UNCHANGED <<sent, loose>>
    BY <1>1, <1>3, CountsStay
  <2>2. ASSUME NEW m \in Mails, Intend(m) \/ SendTool(m) PROVE SendsStep
    <3>1. /\ First(m) \in Keys /\ ~(First(m).version > 1)
          /\ delivery[First(m)].state = "none"
          /\ delivery'[First(m)].state \in {"local", "posting"}
          /\ \A j \in Keys : j # First(m) => delivery'[j] = delivery[j]
      <4>1. First(m) \in Keys /\ ~(First(m).version > 1)
        BY KeysTyped DEF First
      <4>2. CASE SendTool(m)
        BY <1>1, <4>1, <4>2, ToolAt
      <4>3. CASE Intend(m)
        BY <1>1, <4>1, <4>3, PutAt DEF Intend
      <4>. QED BY <2>2, <4>2, <4>3
    <3>. QED BY <1>1, <2>1, <3>1, Opens
  <2>3. ASSUME NEW k \in Keys, NEW may \in BOOLEAN, AdvanceEmail(k, may) PROVE SendsStep
    <3>1. /\ \A j \in Keys : j # k => delivery'[j] = delivery[j]
          /\ delivery'[k].state = delivery[k].state \/ delivery[k].state = "local"
          /\ delivery'[k].state = delivery[k].state \/ delivery'[k].state = "posting"
      BY <1>1, <2>3, AdvanceAt
    <3>2. \A j \in Keys : Claim(j)' = Claim(j)
      BY <3>1 DEF Claim, Terminal
    <3>3. Claims' = Claims
      BY <3>2 DEF Claims
    <3>. QED BY <2>1, <3>3, OutsStay DEF SendsStep
  <2>4. ASSUME NEW k \in Keys, Resend(k) PROVE SendsStep
    <3>1. /\ Later(k) \in Keys /\ delivery[k].state \in {"failed", "unknown"}
          /\ delivery[Later(k)].state = "none" /\ delivery'[Later(k)].state = "local"
          /\ \A j \in Keys : j # Later(k) => delivery'[j].state = delivery[j].state
      BY <1>1, <2>4, ResendAt
    <3>2. [Later(k) EXCEPT !.version = @ - 1] = k
      BY <2>4, LaterKey DEF Resend
    <3>. QED BY <1>1, <2>1, <3>1, <3>2, Opens
  <2>5. ASSUME NEW k \in Keys, Dismiss(k) PROVE SendsStep
    <3>1. \A j \in Keys : delivery'[j].state = delivery[j].state
      BY <1>1, <2>5, TypeParts DEF Dismiss, DeliveryTyped
    <3>. QED BY <2>1, <3>1, Stutters
  <2>6. ASSUME NEW t \in Threads, Thread(t) PROVE SendsStep
    <3> DEFINE k == thread[t].flow.key
    <3>1. /\ k \in Keys /\ thread[t].phase # "idle"
          /\ \A j \in Keys : j # k => delivery'[j] = delivery[j]
          /\ delivery'[k].state # "none"
      BY <1>1, <2>6, ThreadStep
    <3>2. delivery[k].state \notin {"none"} \cup Terminal
      BY <1>1, <3>1 DEF OwnInv, ThreadsOwn
    <3>3. CASE delivery'[k].state \in Terminal
      <4>1. delivery'[k].state = "accepted" => sent[k] + loose[k] = 1
        BY <1>1, <2>6, AcceptedIsOut
      <4>. QED BY <1>1, <2>1, <3>1, <3>2, <3>3, <4>1, Settles
    <3>4. CASE delivery'[k].state \notin Terminal
      <4>1. \A j \in Keys : Claim(j)' = Claim(j)
        BY <3>1, <3>2, <3>4 DEF Claim
      <4>2. Claims' = Claims
        BY <4>1 DEF Claims
      <4>. QED BY <2>1, <4>2, OutsStay DEF SendsStep
    <3>. QED BY <3>3, <3>4
  <2>7. CASE Restart \/ UNCHANGED vars
    BY <2>1, <2>7, Stutters DEF Restart, vars
  <2>8. ~Deploy
    BY <1>1 DEF Deploy
  <2>. QED BY <1>3, <2>2, <2>3, <2>4, <2>5, <2>6, <2>7, <2>8 DEF Next
<1>. QED BY <1>2, <1>3

LEMMA InitMaps == Init => E!Init
<1> SUFFICES ASSUME Init PROVE E!Init
  OBVIOUS
<1>1. \A k \in Keys : Claim(k) = "none" /\ sent[k] + loose[k] = 0
  BY DEF Init, Claim, NoDelivery, S!Init
<1>. QED BY <1>1 DEF E!Init, E!Keys, Keys

\* Through lost answers, deaths of plugin and workers, a resend and a tool call beside
\* the outbox, on a server that keeps its version: every step opens a version, lets it
\* go out for the first time, settles it once and truly, or changes none of that.  For
\* any number of mails, versions, requests, attempts and restarts.
THEOREM OutboxImplementsSends == ASSUME MaxDeploys = 0 PROVE Spec => SendsSpec
<1>1. IInv /\ IInv' /\ RInv /\ [Next]_vars => RInv'
  BY StepRInv
<1>2. Spec => []RInv
  BY <1>1, InitRInv, OutboxInvariant, PTL DEF Spec
<1>3. IInv /\ IInv' /\ RInv /\ [Next]_vars =>
        [E!Next]_<<[k \in Keys |-> Claim(k)], [k \in Keys |-> sent[k] + loose[k]]>>
  BY StepMaps DEF SendsStep, Claims, Outs
<1>. QED BY <1>2, <1>3, InitMaps, OutboxInvariant, PTL DEF Spec, SendsSpec, E!Spec

=============================================================================
