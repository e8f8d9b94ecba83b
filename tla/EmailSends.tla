----------------------------- MODULE EmailSends -----------------------------
(***************************************************************************)
(* What the email outbox promises, whatever is lost or dies between the    *)
(* plugin and SMTP: a message to the owner has versions; the first one is  *)
(* opened once, the next one only when the operator sends again what       *)
(* failed or is unknown.  Each version goes out at most once, what is      *)
(* called accepted did go out, and what is called anything final stays.    *)
(***************************************************************************)
EXTENDS Naturals

CONSTANTS Mails, MaxVersion

VARIABLES
  claim,  \* per version: what the plugin says of it
  out     \* per version: times SMTP took it

Keys == [mail : Mails, version : 1 .. MaxVersion]
Settled == {"accepted", "failed", "unknown"}

Init ==
  /\ claim = [k \in Keys |-> "none"]
  /\ out = [k \in Keys |-> 0]

Open(k) ==
  /\ claim[k] = "none"
  /\ k.version > 1 =>
       claim[[k EXCEPT !.version = @ - 1]] \in {"failed", "unknown"}
  /\ claim' = [claim EXCEPT ![k] = "open"]
  /\ UNCHANGED out

\* Unknown and even failed ones may still go out.
GoOut(k) ==
  /\ claim[k] # "none" /\ out[k] = 0
  /\ out' = [out EXCEPT ![k] = 1]
  /\ UNCHANGED claim

Settle(k, state) ==
  /\ claim[k] = "open"
  /\ state = "accepted" => out[k] = 1
  /\ claim' = [claim EXCEPT ![k] = state]
  /\ UNCHANGED out

Next == \E k \in Keys : Open(k) \/ GoOut(k) \/ \E state \in Settled : Settle(k, state)

Spec == Init /\ [][Next]_<<claim, out>>
=============================================================================
