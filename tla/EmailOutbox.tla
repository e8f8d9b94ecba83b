---------------------------- MODULE EmailOutbox ----------------------------
(***************************************************************************)
(* The email outbox and the send tool of the Hermes mailroom               *)
(* (extensions/hermes/mailroom.py) over the delivery rows of its journal   *)
(* (inbox_state.py) and the server of EmailServer.  The outbox advances    *)
(* one delivery at a time in a thread; each send tool call has a thread of *)
(* its own and owns its delivery until it returns.  Requests time out      *)
(* while the server works on, processes die, the operator sends again.     *)
(***************************************************************************)
EXTENDS Naturals

CONSTANTS
  Mails,         \* mail to the owner, of the reader or of a tool call
  MaxVersion,    \* bound: sends of one mail, the operator's included
  Requests,      \* bound: POSTs the server works on at a time
  MAX_ATTEMPTS,
  DELIVERY_MAX_ATTEMPTS,
  MaxRestarts,   \* bound: deaths of the plugin; it always starts again
  MaxDeploys     \* bound: upgrades and rollbacks of the server

ASSUME OutboxAssumption ==
  /\ "outbox" \notin Mails
  /\ {MaxVersion, MAX_ATTEMPTS, DELIVERY_MAX_ATTEMPTS} \subseteq Nat \ {0}
  /\ {MaxRestarts, MaxDeploys} \subseteq Nat

VARIABLES
  keyed, row, lapsed, req, sent, loose,  \* the server
  delivery,  \* the journal's row per version of a mail: its key
  proven,    \* meta: the server has shown that it honours keys
  thread,    \* the outbox and the tool calls: the request and the locals
  restarts, deploys  \* history, for the bounds

server == <<keyed, row, lapsed, req, sent, loose>>
bounds == <<restarts, deploys>>
vars == <<server, delivery, proven, thread, bounds>>

Keys == [mail : Mails, version : 1 .. MaxVersion]
First(m) == [mail |-> m, version |-> 1]
Threads == {"outbox"} \cup Mails

S == INSTANCE EmailServer

Terminal == {"accepted", "failed", "unknown"}
NoDelivery == [state |-> "none", attempts |-> 0, resolved |-> FALSE]
Idle == [phase |-> "idle"]

\* What a thread keeps over a request.  attempts: of the row as it read it;
\* retry: a refusal is not the end; again: it resolves a lost answer itself;
\* missing: what it does when the server knows no such key.
Flow == [key : Keys, attempts : 0 .. MAX_ATTEMPTS, retry : BOOLEAN]
Missing == {"post", "hold", "settle"}

TypeOK ==
  /\ S!TypeOK
  /\ delivery \in [Keys -> [state : {"none", "local", "posting"} \cup S!States,
                            attempts : 0 .. MAX_ATTEMPTS, resolved : BOOLEAN]]
  /\ proven \in BOOLEAN
  /\ thread \in [Threads ->
       {Idle} \cup [phase : {"post"}, flow : Flow, req : Requests, again : BOOLEAN]
              \cup [phase : {"lookup"}, flow : Flow, missing : Missing]
              \cup [phase : {"found"}, flow : Flow, missing : Missing,
                    answer : S!States \cup {"not_found", "unsupported"}]]

Init ==
  /\ S!Init
  /\ delivery = [k \in Keys |-> NoDelivery]
  /\ proven = FALSE
  /\ thread = [t \in Threads |-> Idle]
  /\ restarts = 0 /\ deploys = 0

-----------------------------------------------------------------------------
(* One step of a delivery *)

Put(k, state) == delivery' = [delivery EXCEPT ![k].state = state]

Release(t) == thread' = [thread EXCEPT ![t] = Idle]

\* email_send under the delivery's key.
PostUnder(t, flow, again) ==
  \E h \in Requests :
    /\ S!Post(h, flow.key)
    /\ thread' = [thread EXCEPT ![t] = [phase |-> "post", flow |-> flow, req |-> h, again |-> again]]

Ask(t, flow, missing) ==
  thread' = [thread EXCEPT ![t] = [phase |-> "lookup", flow |-> flow, missing |-> missing]]

\* _resolve: the same key again, if the server honours keys.
MayRepost(may) == proven /\ may

\* _set_proof and the state of a record, or of a plain "sent".
Adopt(k, answer) ==
  /\ proven' = (answer # "sent")
  /\ Put(k, IF answer = "sent" THEN "accepted" ELSE answer)

\* A tool call returns long before the grace of its row ends.
Owned(k) == thread[k.mail].phase # "idle" /\ thread[k.mail].flow.key = k

\* The count goes on, but nothing tells what is above MAX_ATTEMPTS apart.
OneMore(attempts) == IF attempts < MAX_ATTEMPTS THEN attempts + 1 ELSE attempts

\* _advance_email.  may: not snoozed, and sending is enabled.
AdvanceEmail(k, may) ==
  /\ thread["outbox"] = Idle
  /\ delivery[k].state \notin Terminal \cup {"none"} /\ ~Owned(k)
  /\ LET state == delivery[k].state
         flow == [key |-> k, attempts |-> delivery[k].attempts, retry |-> TRUE]
     IN \/ /\ state = "local" /\ may
           /\ delivery' = [delivery EXCEPT ![k].state = "posting", ![k].attempts = OneMore(@)]
           /\ PostUnder("outbox", [flow EXCEPT !.attempts = OneMore(@)], FALSE)
           /\ UNCHANGED <<keyed, row, lapsed, sent, loose>>
        \/ /\ \/ state = "posting" /\ MayRepost(may)
              \/ state \in {"queued", "retry_wait"} /\ may
           /\ PostUnder("outbox", flow, FALSE)
           /\ UNCHANGED <<keyed, row, lapsed, sent, loose, delivery>>
        \/ /\ state = "posting" /\ ~MayRepost(may)
           /\ Ask("outbox", flow, IF may THEN "post" ELSE "hold")
           /\ UNCHANGED <<server, delivery>>
        \/ /\ state = "attempting" \/ (state \in {"queued", "retry_wait"} /\ ~may)
           /\ Ask("outbox", flow, "settle")
           /\ UNCHANGED <<server, delivery>>
  /\ UNCHANGED <<proven, bounds>>

\* send_tool_email: the row is there before its POST.
SendTool(m) ==
  /\ thread[m] = Idle /\ delivery[First(m)].state = "none"
  /\ delivery' = [delivery EXCEPT ![First(m)].state = "posting", ![First(m)].attempts = 1]
  /\ PostUnder(m, [key |-> First(m), attempts |-> 1, retry |-> FALSE], TRUE)
  /\ UNCHANGED <<keyed, row, lapsed, sent, loose, proven, bounds>>

-----------------------------------------------------------------------------
(* Answers *)

Waits(t, h) == thread[t].phase = "post" /\ thread[t].req = h
Answered(t) == thread[t].phase = "post" /\ req[thread[t].req].phase = "reply"

\* _adopt
PostAdopted(t) ==
  /\ Answered(t)
  /\ LET h == thread[t].req IN
     /\ req[h].answer \in S!States \cup {"sent"}
     /\ Adopt(thread[t].flow.key, req[h].answer)
     /\ S!Gone(h)
  /\ Release(t)
  /\ UNCHANGED bounds

GivesUp(t) == ~thread[t].flow.retry \/ thread[t].flow.attempts >= MAX_ATTEMPTS

\* _post_failed with a definite refusal; some are final at once.
PostRefused(t) ==
  /\ Answered(t)
  /\ LET h == thread[t].req
         k == thread[t].flow.key
     IN  /\ req[h].answer = "refused"
         /\ \/ Put(k, "failed")
            \/ ~GivesUp(t) /\ Put(k, "local")
         /\ S!Gone(h)
  /\ Release(t)
  /\ UNCHANGED <<proven, bounds>>

\* The outcome is unknown: an error that may have come after the act, or no
\* answer in time while the server works on.  The tool call resolves it once.
PostLost(t) ==
  /\ thread[t].phase = "post"
  /\ req[thread[t].req].phase = "reply" => req[thread[t].req].answer = "error"
  /\ \/ ~thread[t].again /\ Release(t) /\ UNCHANGED server
     \/ /\ thread[t].again /\ MayRepost(TRUE)
        /\ PostUnder(t, thread[t].flow, FALSE)
        /\ UNCHANGED <<keyed, row, lapsed, sent, loose>>
     \/ /\ thread[t].again /\ ~MayRepost(TRUE)
        /\ Ask(t, thread[t].flow, "post")
        /\ UNCHANGED server
  /\ UNCHANGED <<delivery, proven, bounds>>

\* _lookup reaches the server.
Look(t) ==
  /\ thread[t].phase = "lookup"
  /\ S!Lookup(thread[t].flow.key)
  /\ thread' = [thread EXCEPT ![t] =
       [phase |-> "found", flow |-> @.flow, missing |-> @.missing, answer |-> S!Found(@.flow.key)]]
  /\ UNCHANGED <<delivery, proven, bounds>>

LookAdopted(t) ==
  /\ thread[t].phase = "found" /\ thread[t].answer \in S!States
  /\ Adopt(thread[t].flow.key, thread[t].answer)
  /\ Release(t)
  /\ UNCHANGED <<server, bounds>>

\* A server without keys cannot tell.
LookUnsupported(t) ==
  /\ thread[t].phase = "found" /\ thread[t].answer = "unsupported"
  /\ proven' = FALSE
  /\ Put(thread[t].flow.key, "unknown")
  /\ Release(t)
  /\ UNCHANGED <<server, bounds>>

\* Keys are honoured, and this one was never recorded.
LookMissing(t) ==
  /\ thread[t].phase = "found" /\ thread[t].answer = "not_found"
  /\ proven' = TRUE
  /\ \/ /\ thread[t].missing = "post"
        /\ PostUnder(t, thread[t].flow, FALSE)
        /\ UNCHANGED <<keyed, row, lapsed, sent, loose, delivery>>
     \/ /\ thread[t].missing # "post"
        /\ Put(thread[t].flow.key, IF thread[t].missing = "hold" THEN "local" ELSE "unknown")
        /\ Release(t)
        /\ UNCHANGED server
  /\ UNCHANGED bounds

LookLost(t) ==
  /\ thread[t].phase \in {"lookup", "found"}
  /\ Release(t)
  /\ UNCHANGED <<server, delivery, proven, bounds>>

-----------------------------------------------------------------------------
(* The reader, the operator, process life, the server *)

\* finish() with an email intent: one row per version.
Intend(m) ==
  /\ delivery[First(m)].state = "none"
  /\ Put(First(m), "local")
  /\ UNCHANGED <<server, proven, thread, bounds>>

Decidable(k) == delivery[k].state \in {"failed", "unknown"} /\ ~delivery[k].resolved

\* Mutation: the same key goes out again.
Resend_SameKey(k) ==
  /\ Decidable(k)
  /\ Put(k, "local")
  /\ UNCHANGED <<server, proven, thread, bounds>>

\* `inbox resend`: a copy under the next version.
Resend(k) ==
  /\ Decidable(k) /\ k.version < MaxVersion
  /\ delivery' = [delivery EXCEPT ![k].resolved = TRUE,
                                  ![[k EXCEPT !.version = @ + 1]].state = "local"]
  /\ UNCHANGED <<server, proven, thread, bounds>>

\* `inbox dismiss`
Dismiss(k) ==
  /\ Decidable(k)
  /\ delivery' = [delivery EXCEPT ![k].resolved = TRUE]
  /\ UNCHANGED <<server, proven, thread, bounds>>

\* The plugin dies; what it asked of the server goes on.
Restart ==
  /\ restarts < MaxRestarts /\ restarts' = restarts + 1
  /\ thread' = [t \in Threads |-> Idle]
  /\ UNCHANGED <<server, delivery, proven, deploys>>

Deploy ==
  /\ deploys < MaxDeploys /\ deploys' = deploys + 1
  /\ S!Deploy
  /\ UNCHANGED <<delivery, proven, thread, restarts>>

ServerStep ==
  /\ \/ \E h \in Requests : S!Handle(h)
     \/ \E h \in Requests : S!Gone(h) /\ \A t \in Threads : ~Waits(t, h)
     \/ \E k \in Keys : S!Lapse(k)
  /\ UNCHANGED <<delivery, proven, thread, bounds>>

Thread(t) ==
  \/ PostAdopted(t) \/ PostRefused(t) \/ PostLost(t)
  \/ Look(t) \/ LookAdopted(t) \/ LookUnsupported(t) \/ LookMissing(t) \/ LookLost(t)

Next ==
  \/ \E m \in Mails : Intend(m) \/ SendTool(m)
  \/ \E k \in Keys : (\E may \in BOOLEAN : AdvanceEmail(k, may)) \/ Resend(k) \/ Dismiss(k)
  \/ \E t \in Threads : Thread(t)
  \/ Restart \/ Deploy \/ ServerStep

Spec == Init /\ [][Next]_vars

\* Deaths, and answers that are lost while something else works.  A lookup that
\* changes nothing and one that is lost are the same step: it is no fault.
Fault ==
  \/ \E h \in Requests : S!Die(h) /\ ~S!PlainSend(h)
  \/ \E t \in Threads :
       \/ LookLost(t) /\ ~LookAdopted(t)
       \/ PostLost(t) /\ req[thread[t].req].phase # "reply"

\* Faults end some day; passes then go on and find sending enabled now and then,
\* a retry's time comes and a lease ends.
Fairness ==
  /\ <>[][~Fault]_vars
  /\ WF_vars(ServerStep) /\ \A t \in Threads : WF_vars(Thread(t))
  /\ \A k \in Keys : SF_vars(AdvanceEmail(k, TRUE))
  /\ \A h \in Requests : SF_vars(S!Claim(h) /\ UNCHANGED <<delivery, proven, thread, bounds>>)

LiveSpec == Spec /\ Fairness

-----------------------------------------------------------------------------
(* Properties *)

\* What the plugin says of a version and whether it went out: the outbox
\* keeps what EmailSends promises.
Claim(k) == IF delivery[k].state \in {"none"} \cup Terminal THEN delivery[k].state ELSE "open"

E == INSTANCE EmailSends WITH
       claim <- [k \in Keys |-> Claim(k)], out <- [k \in Keys |-> sent[k] + loose[k]]

\* Through lost answers, deaths, a resend and a tool call beside the outbox: each
\* version is opened and goes out at most once, accepted means out, and no later
\* answer changes what was reported as final.  On a server that keeps its version.
SendsSpec == E!Spec

\* With the outbox's own repetitions a key's mail still goes out at most once.
ServerSentOnce == S!SentOnce

\* The outbox's next POST does not start a second submission beside the first.
ServerOneAttempt == S!OneAttempt

\* What the outbox adopts from a record is so.
ServerRecordIsTrue == S!RecordIsTrue

\* However often the outbox repeats a key, the server attempts it a few times.
ServerAttemptsLimited == S!AttemptsLimited

\* One submission at a time and few in all, of a state that keeps its types.
KeyInv == TypeOK /\ ServerOneAttempt /\ ServerAttemptsLimited

\* No delivery hangs: whatever is recorded ends accepted, failed or unknown.
DeliverySettles ==
  \A k \in Keys : delivery[k].state # "none" ~> delivery[k].state \in Terminal
=============================================================================
